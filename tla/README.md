# Verification of libpkgapply

libpkgapply applies an accepted package plan (installation, upgrade or removal)
to a managed target through a backend, and keeps a durable journal so that an
interrupted attempt can be classified and finished by a later process.  This
directory holds TLA+ models of its journal protocol, its application engine, its
authority (requests, leases, projections), its effect schedule, its judgement of
results and its receipts, the TLC configurations that check them, and TLAPS
proofs about each of these.  Paths below are relative to the repository root (`src/` is the
repository's own source directory, `include/` its headers).

## The system

| Part | State | Operations | Hard part |
|---|---|---|---|
| Journal transport (`journal_transport.cpp`) | store: one immutable declaration, immutable steps by sequence, one cursor | publish declaration, publish step, compare-and-publish cursor | three separate durable writes make up one append |
| Journal history (`journal_history.cpp`) | in memory: declaration, steps, cursor, progress of every effect, completion counter | `load`, `validate_step`, `append`, `snapshot` | orphan step after a crash; incremental against snapshot validation |
| Application engine (`application_engine.cpp`) | in memory: journaled, prepared, rejected-published, active-mutated or interrupted application | admission, preparation, rejected publication, active execution, completion, recovery | every backend call may fail or be indeterminate; the process may die between any two durable writes |
| Restart (`restart.cpp`, `restart_view.cpp`, `application_engine.cpp` from line 4240) | none of its own: everything is derived from the journal | classify, reopen, rebuild, resume each phase | must infer why an attempt stopped; must repeat only what is idempotent |
| Backend (`backend.h`) | target namespace, rejected store, staging, evidence records | observe, stage, capture, execute, publish, recover, synchronize | external; its contract is all the engine knows |
| Schedule, capture and payload plans (`schedule.cpp`, `capture.cpp`, `payload.cpp`) | ready set and counters of one topological sort | derive captures, payloads and the effect order from the plan | incoming directories first, removals last, hard links after their anchors, all at once |
| Path results (`precondition.cpp`, `object_fact.cpp`, `path_consequence.cpp`, the matching in `application_engine.cpp`) | observations before and after | compare with the plan, judge the result, seal the consequence | facts may be unknown or not applicable |
| Receipts (`result.cpp`) | immutable values: outcome, recovery state, durability of six domains, path consequences | validating constructors | built after the effects happened: a cross-check that refuses one loses it; two computations of the same durability, live and from the journal |
| Authority (`request.cpp`, `target_context.cpp`, `attempt.cpp`, `admission.cpp`, `mutation_lease.cpp`, `state_projection.cpp`, the bindings in `restart.cpp` and at the entry of every phase) | immutable values; a lease is held or not | construct, admit, compare at each phase and at restart | a lease may be lost in the middle of a call; a restart is given request, archive, backend, lease and projection anew |
| Codecs, digests | immutable values | encode, decode, digest | data only |

Interaction.  `apply()` runs admission, journal publication, preparation,
rejected publication, active execution and completion in that order, each phase
consuming the object the previous one returned; a failure in any phase becomes a
receipt, a failure after mutation goes through recovery first.  Every phase calls
the backend and appends to the journal around each call: a write-ahead intent,
the call, a terminal event with a replay fact.  `resume_application()` loads the
journal, classifies it, reopens the backend transaction and runs the `resume_*`
counterpart of each phase, which skips what is completed.

What makes the parts correct:

* journal: one append-only history whatever crashes and interleaves; nothing
  that a protocol user can leave behind makes a later load fail;
* engine: no destructive effect without a durable intent; none issued twice; no
  mutation before preparation is durable; receipts that tell the truth;
* schedule: every prefix leaves a file tree; nothing is destroyed uncaptured or
  published unstaged; the order is a function of the plan;
* path results: the verdict says what the observations can stand for, and what is
  matched can be sealed;
* receipts: whatever the engine builds is accepted, reports every path that was
  touched and claims no durability that was not established;
* authority: only the plan of the published state is applied, on facts that still
  hold, by one session at a time even when a lease is lost or a journal is
  resumed with other arguments;
* restart: an attempt that is restarted ends, with a receipt or by external
  resolution, and a receipt is final.

## Modules

| Module | Models | State and actions |
|---|---|---|
| `JournalStates` | `journal.h`, `state_may_follow` | lifecycle states, effect kinds, event kinds, the successor relation |
| `JournalHistory` | `journal_history.cpp`, `journal.cpp`, cursor and step of `journal_transport.cpp` | a history is a sequence of step bodies; `ValidStep` is the incremental validator, `SnapshotValid` the snapshot validator |
| `AppendOnlyJournal` | the promise of the journal | `declared`, `log`; declare, append one |
| `JournalStore` | `publish_initial_journal`, `append_journal_step`, `application_journal_history::load` | store (`declared`, `steps`, `cursor`) and per session `pc`, `mem`, `snap`, `pending`; one action per store primitive |
| `JournalStoreProofs` | | the theorems |
| `ApplicationAttempt` | the effect graph, the backend contract, the queries on the journal, `assess_application_restart` | the variables of an attempt and the actions of the backend |
| `FreshApplication` | admission to receipt, and recovery | one action per phase loop or phase end of the engine |
| `RestartedApplication` | what the `resume_*` functions do otherwise, crash, reopen | |
| `ApplicationEngine` | composition | specification, fairness, properties |
| `ApplicationEngineProofs` | | whose turn an effect has, types, the write-ahead discipline; an effect is issued once, a receipt is final |
| `ApplicationOutcomeProofs` | | what a state and a position vouch for; appends are accepted; which steps reach the world; preparation, order, evidence |
| `PublishedReceiptProofs` | | what the journal says of the world; receipts are truthful and determinate |
| `ActiveEffectOrder` | `order_active_nodes` | the plan, the sequence placed so far, counters and ready set; one action per turn of the loop |
| `EffectSchedule` | `capture.cpp`, `payload.cpp`, `prepare` of `schedule.cpp` | extends the sort by the frozen steps and a file tree on which they are carried out, one action per kind of step |
| `EffectScheduleProofs` | | the theorems about the sort and about the schedule |
| `PathResult` | `precondition.cpp`, `object_fact.cpp`, `path_consequence.cpp`, `match_result_observation` and what it calls, `completed_path` | one path from admission to completed evidence: admit, execute, observe and judge, complete |
| `PathResultProofs` | | the theorems |
| `ApplicationReceipt` | `result.cpp`, the consequence functions and phase constructors of `application_engine.cpp`, the durability of `restart_view.cpp` and of the resumed phases | the values: attempts, what the journal holds, the profile read off it, consequences, validators |
| `AttemptReceipts` | a fresh attempt from admission to receipt | `profile` and `facts`, one action per effect with its terminal event, every receipt |
| `RestartedReceipts` | the same attempt crashed and reopened: `resume_preparation` to `finish_replay` | adds `session`, `stage`, `intended`, `seen`; crash, rebuild, one action per decision of a resumed phase; specification and properties |
| `RestartedReceiptsProofs` | | the theorems: terminal events, receipts or exceptions, durability |
| `ApplicationAuthority` | `request.cpp`, `target_context.cpp`, `attempt.cpp`, `mutation_lease.cpp`, `admission.cpp`, the bindings of `restart.cpp`, the journal header and the phase gates | predicates over immutable content |
| `LeasedApplications` | controllers that apply and resume under leases | `acquired`, `held`, `control` of each controller, `session` of each call, declared headers and journals; one action per gate, append and backend call |
| `LeasedApplicationsProofs` | | the theorems |

The MC modules only give constants their values: paths, bodies and sets of plans.

### How the journal model corresponds to the code

The identity of a step or a cursor is a digest over its content, so the model
uses the content itself: `predecessor` of a step and `latest_step` of a cursor
are the history up to there.  A session is any user of the journal: the engine
that creates it, an engine that reopens it, a controller that rehydrates it to
classify it.  A step with a different content at an occupied sequence makes
`publish_step` throw; a cursor that is not the expected one makes
`compare_and_publish_cursor` throw.  A session that throws loses its memory,
which is also what a crash does (`Discard`).  The store's own primitives are
external and atomic, as their interface in `journal_transport.h` demands.

### How the engine model corresponds to the code

`journal` is the committed log of `JournalStore`, reduced to what readers of the
log use: lifecycle state, progress of each effect with its replay fact, receipt,
evidence.  One append is one step of this model because `JournalStore` implements
`AppendOnlyJournal`, and because the target mutation lease, held outside for the
whole call, admits one engine at a time.  `engine.pc` says which phase loop the
process is in, `engine.call` where it is in one journaled effect (`idle`, issued
to the backend, or returned with a fact).  `Crash` may happen between any two
steps and loses `engine`.  `target`, `shelf` and `records` are the world the
backend changes; `issued` counts calls and is not state of the program.

Loops that a restart runs over the same schedule with the same decisions are one
action in `FreshApplication` with a `RetryIntended` alternative for restarts;
where the resumed code decides differently there is an action of its own in
`RestartedApplication`.

An exception that leaves `apply()` or `resume_application()` is the action
`Raise`, with the reason in `thrown`.  Exceptions modelled are the ones that some
journal the program itself wrote can cause.  Exceptions that need a caller who
passes another request, image, lease or target than the journal's belong to
`LeasedApplications`.

`Recoveries` is the set of recovery requirements an attempt may have; the choice
is part of the initial state (`journal.recovery`), as the execution control is
part of the journal header.

The engine model takes a schedule as constants and a verdict on each observation
as a choice; `EffectSchedule` and `PathResult` are where these come from.

### How the schedule model corresponds to the code

A plan is a function from paths to decisions; a decision carries the object
observed before and the image entry it cites, because the code looks both up by
path.  Edges are a relation instead of adjacency sets and `indegree` counts them,
one edge per pair, as `add_edge` does.  `Place` is one turn of the loop.  Payload
and capture plans may refuse a plan before it is ordered (`Refuse`).  Image
entries are identified by their paths and listed in path order; the ascending
identifiers by which the code stages payloads are that order.  Which decisions
libpkgplan can reach is external: `Legal` in `MCEffectSchedule` states what an
outcome needs (something to retain, to remove, an entry to activate) and nothing
more, so plans that no planner would accept are scheduled too.  What the proofs need
of it is less and is `ObservedAssumption`: the objects observed form a tree, a path
that remains absent was absent, and what is removed if empty is a directory.
`TreeAtEveryStep` concerns the plans whose result is a tree.

### How the path model corresponds to the code

Mode, uid and gid are treated alike everywhere and are one fact; so are size and
content, and symlink target and device number, which belong to one kind each.
Values are compared only for equality with the one value the plan, the entry or
the admitted observation expects, so one expected and one other value are enough.
`failures` is the set of field and kind that `application_precondition_check`
records.  The backend may report any outcome, and the final observation may be
anything at all.

The backend contract is taken from `backend.h`: *failed* leaves the target
unchanged, *indeterminate* may leave anything, *completed* has changed the target
to something the final observation still compares with the plan; recovery that
completed has restored the prior state exactly when an exact capture or an
absent prior object makes that possible.

### How the receipt model corresponds to the code

`profile` is the `application_durability_profile` that the phase objects hand on;
`facts` is the sequence of terminal events with their replay facts, the only part
of the journal that durability and consequences are computed from.  One effect
with its intent, call and terminal event is one step here.  What a restart derives
is the functions `View`, `Rebuilt` and `RebuiltInterrupted` of the journal, compared
with the profile of the running session at every boundary between effects.  `Attempts` are all combinations of execution control
and decisions per path that the planner's outcomes allow; a path carries whether
an object was there before, which is all the consequences look at.  Validators are
predicates; where one is false the code throws and the model records in `refused`
what was being built.

`RestartedReceipts` crashes such a run before any step.  A crash keeps the terminal
events, may leave the intent of the next one-shot effect (`intended`; intents of
effects that a restart simply repeats make no difference), may leave a part of the
recorded verdicts (`seen`), and takes everything else away, a receipt of which the
seal was not yet appended included.  `stage` is the lifecycle state as far as
restart classifies it.  A restart then chooses, as `finish_replay` does, between
preparation, a failure found in the journal, the forward path and recovery.  Where
the resumed code decides differently from the fresh one there is an action of its
own: a failed capture is `unconfirmed` where it was `indeterminate`, one attempted
recovery makes the namespace visible where one completed recovery did, and full
recovery needs the recovered namespace to be confirmed where it needed nothing.

### How the authority model corresponds to the code

Identities are digests of canonical content; a request, a plan or a target is an
index into a constant function, injective because different content has different
identities (`IdentityAssumption`).  A comparison that fails throws before anything
changed, so a refused call is no step, except that a gate or an append that fails
in the middle of a call ends the call (`LosesLease`, `LosesCursor`).

A lease is an index into `acquired`; `held` are those for which `held()` is true.
The code reads `held()` only at the gates, so `Lapse` may happen between a gate and
a backend call.  `session` is one call of `apply` or `resume_application`: its
arguments, the phase (`pc`) and `memory`, the history it last saw.  One append is one
step that needs the exact cursor (`CursorMatches`), by the refinement of
`JournalStore`.  Each attempt has one active effect with its capture and staging;
the rejected phase is empty, recovery is best effort, and publication,
synchronization and seal of evidence are one append.  The effect graph is the
engine model's business.

External, and modelled as the headers and `DESIGN.md` describe it: leases exclude
each other per lock domain, never across domains; a controller reads the installed
state under its lease, keeps the lease until the state of a completed attempt is
published, and does not reuse the projection of a state it superseded; a store
compares cursors exactly; a backend binds a transaction to the target and the lease
it is given and keeps to its outcomes.  A crash between calls is a release.
Controllers may hand any request, archive and backend of the instance to any call,
requests that the constructors refuse included, and they may hold a projection
longer than its lease.

## Runs

Passing runs:

| Run | Instance | Properties |
|---|---|---|
| `journal_protocol` | two sessions, history of at most 6 steps, an active effect, its recovery, the seal, two receipts, one evidence | `TypeOK`, `SpineIntact`, `SessionsHoldPrefixes`, `CommittedSnapshotValid`, `RehydrationFindsExactHistory`, `ImplementsAppendOnlyJournal`, `AuthorityRetained` |
| `upgrade` | a (a directory removed if empty, captured, an object rejected) and b (new, with a staged payload), full durability, every recovery requirement, 2 crashes, 2 projections | `TypeOK`, `NeverIssuedTwice`, `ReceiptTruthful`, `DeterminateReceipts`, `OrderedEffects`, `MutationPrepared`, `SealedEvidenceDurable`, `JournalAccepts`, `ReceiptFinal`, `EventuallyResolved` |
| `effect_schedule` | a, a/b, a/b/c and d, decisions of every kind, any entry, any anchor, under recovery | `TypeOK`, `SafeOrder`, `CompleteOrder`, `CanonicalOrder`, `CycleOnlyIfMalformed`, `TreeAtEveryStep`, `SourcesReady`, `ResultReached` |
| `path_result` | every plan for one path, every partial observation before and after | `TypeOK`, `RetainedSatisfiesPlan`, `MatchedSealable`, `MatchExact` |
| `receipts` | plans of two paths under every recovery and durability requirement, fresh and restarted, within `Budget` 5 | `TypeOK`, `KnownRefusals`, `RestartRebuildsProfile`, `PathsAccounted`, `DurabilityEstablished` |
| `authority` | two controllers, an upgrade and the removal planned for its result, three requests that contradict themselves, two backends, two archives, leases of the right and of a wrong lock domain; 3 leases, 2 attempts, 1 lost lease | `TypeOK`, `PlanCurrent`, `IssuedOnce`, `AdmittedFactsHold`, `CaptureAccepted`, `DeclaredPlanExecuted` |

Bounds.  Two sessions are enough for every race on a step or a cursor, since a
third only repeats the role of one of them; the proofs cover any number.  Six
steps hold each way a history of one active effect resolves: completed and sealed;
of unknown outcome, recovered and given a receipt; of unknown outcome and given one
as it is.  Two paths give an order to violate; the phases treat every path alike.
Two crashes allow a crash during a restart.  Two projections are one change of
the state a restart is bound to.  The rules of the sort relate two paths, an ancestor or an
anchor to another path; a chain of three and a path beside it hold every
combination of two rules on one path.  Sort and schedule are proved for any number
of paths.  `Accepting` and `Rejecting` leave out decisions that differ from an included
one in nothing the schedule reads.  Receipts relate an effect to a later effect of
the same phase or to its recovery, so two paths per phase show each relation.
`Budget` bounds captures, rejected and active effects together with crashes, each
of which counts for two: plans of three or four effects crash once, of one or two
twice, so that a restarted session is interrupted again.  Three leases let a controller lose one, another finish the
work, and the first come back; two attempts are a plan and its successor, or two
attempts at one plan; one lost lease makes a stale session.  Bounds: `MaxSteps`,
`MaxCrashes`, `MaxProjections`, `PathCount`, `Budget`, `MaxLeases`, `MaxAttempts`,
`MaxLapses`.

`CHECK_DEADLOCK FALSE` is set for the engine, whose attempt really ends at its
receipt, for the schedule, the path and the receipts, which end when they
are done, and for the authority, where leases and attempts are used up.  The journal's sessions never run out of steps and are checked for
deadlock.

Fairness.  `FairSpec` assumes weak fairness of `EngineStep` as a whole: a live
process executes its next statement, and the transaction controller reopens a
journal that is classified as resumable.  No fairness is assumed of crashes or of
any backend outcome.  `EventuallyResolved` excuses sessions that ended in an
exception, so it says nothing about lost receipts: those are what `KnownRefusals`
enumerates, and the runs below show which of them are permanent.

Properties of `authority`.  `PlanCurrent`, `CaptureAccepted` and `AdmittedFactsHold`
hold because three things agree that are checked far apart: the plan names the
snapshot the projection carries, the projection names the lease it was read under,
and leases of one domain exclude each other.  The last two excuse runs in which a
lease was lost, since a stale session may then mutate the target behind the back of
the one that replaced it; `IssuedOnce` holds even then, because an intent is
appended under the exact cursor, and is the only property here that speaks of such
runs.

Properties of `receipts`.  `DurabilityEstablished` states two things that a fresh
attempt does and a restarted one does not.  A fresh recovery of unknown outcome is
left out of the profile; the property excuses this one event (`Unreported`) and no
other change, and `ConfirmedEstablished`, which excuses nothing, is what
`confirmed_durability` violates.  A fresh attempt is called fully recovered whatever
the synchronization of the recovered namespace reported; the property demands that
this synchronization came last and that the receipt says what it reported, and of a
restarted attempt also that it was confirmed.

Violations.  Six runs check a statement of the documentation and TLC finds a
behaviour of the code that contradicts it; `PROJECT.json` quotes the statements.

| Run | What happens |
|---|---|
| `retained_directory` | every active effect retains its directory under `all_application_domains`: the declared namespace synchronization is never executed and the journal refuses the completed receipt |
| `evidence_restart` | a crash between an unsuccessful evidence publication and its receipt: every restart throws |
| `effect_recovery` | a crash in the recovery that a failed effect caused, after a recovery result changed the retained durability: the interruption's constructor refuses it |
| `restaging` | a crash between the terminal events of two payloads and a second stage with other evidence: the restart view cannot be built |
| `revalidation` | a journal left prepared is resumed after another attempt changed the accepted path under the same installed state: mutation starts without a new observation |
| `confirmed_durability` | recovery after an unmatched observation ends with an unknown outcome: the receipt keeps reporting the namespace as confirmed, from before the recovery |

In the first four the target is left consistent with the journal; what is missing
is a receipt.  More of this kind is stated positively by `receipts`: `KnownRefusals`
lists every case in which a constructor refuses what the engine built, and each of
them occurs.  Beside the cases above they are: a directory is retained and a later
active effect fails, where nothing is to be recovered and `validate_failed_paths`
(`result.cpp:499`) counts the retained path as possibly applied; a resumed
synchronization of the active namespace that reports `visible`, which only the
fresh engine turns into `unconfirmed` (`application_engine.cpp:5106`); a restart in
the middle of recovery whose retained status does not fit the inferred cause; and a
recovery begun because two observations of one path disagree, of which the journal
keeps the first (`application_engine.cpp:5240`).

`EventuallyResolved` passes over two more behaviours of this kind, by the reason
in `thrown`.  `no_interrupted_effect`: a crash in the recovery that a
final observation caused, after which the restart cannot reconstruct the
interruption (`application_engine.cpp:5240`).  `unfinished_effects`: evidence
republished and confirmed for a new projection after a failed synchronization;
the journal still holds the failed event and refuses the completed receipt
(`application_engine.cpp:5655`).

## Proofs

`JournalStoreProofs` proves, for every set of sessions, effects and bodies and
every `MaxSteps`, the five invariants of `journal_protocol`, the action property
`AuthorityRetained` and the refinement `ImplementsAppendOnlyJournal`.

Assumptions: the kinds of effects are effect kinds, `Effects` is finite, bodies
are step bodies, and `None` is not a record.  TLC evaluates them in `journal_protocol`.

Argument.  `SpineIntact` is not inductive: that a session may publish a step at
its own head depends on its head being a prefix of the committed history, and that
an adopted orphan is the right one depends on what the session read before.
`ProtocolInvariant` therefore adds `SessionsHoldPrefixes`, that the cursor is
determined by the committed history (`CursorDetermined`), and what each protocol
position guarantees about `mem`, `snap` and `pending` (`SessionsPositioned`).  The
central fact is that an exact compare-and-publish succeeds only in a session whose
memory *is* the committed history.  `StoreGrows` abstracts what all actions do to
the store, so that the positions of the sessions that do not move are proved once.
The refinement maps the log to the history the cursor names: only
`AdvanceCursor` and `AdoptSuccessor` change it, by one valid step.
`CommittedAlwaysSnapshotValid` relates two validators that are written
independently in the code: the incremental one counts completion events of
required effects, the snapshot one looks at each required effect; equality of the
counts forces every required effect to be completed because each completes at most
once.

`EffectScheduleProofs` proves every property of `effect_schedule`, for every finite
set of paths, every ancestor relation, every total order, every recovery requirement
and every set of plans.  Assumptions, which TLC evaluates in that run: `Paths` is
finite, being an ancestor is irreflexive and transitive, `Rank` is injective, plans
map paths to decisions, and `ObservedAssumption`.

* The sort.  `SafeOrder` alone is not inductive, because `Place` looks only at
  counters: `LoopInvariant` adds that each counter is the number of predecessors not
  yet placed and that the ready set holds exactly the unplaced paths with none.  From
  the first, a counter at zero means all predecessors are placed (`FS_EmptySet`), and
  placing a path removes exactly one element from the pending set of each successor
  (`FS_RemoveElement`).  The second gives `CanonicalOrder`: a path that could have been
  placed is in the ready set.
* Cycles.  `CycleOnlyIfMalformed` says that among unplaced paths of a well formed image
  one always has no unplaced predecessor (`SomeNodeFree`).  It is found without
  following chains of edges: of the paths of one sort (incoming directories; entries
  that are not directories, with what is removed below them; hard links; the rest) a
  highest or a lowest one exists, since being an ancestor is well-founded on a finite
  set (`LowestAndHighest`), and the sorts are tried in an order in which no edge leads
  back.
* The frozen schedule.  `PathOrderListsAll`: sorting a set by rank lists all of it,
  because counting the members up to each one is an injection into as many numbers.
  `PrepareLists`: `prepare` holds exactly the steps that the plan needs, kind after
  kind, active effects as the sort placed them.
* Carrying it out.  `ScheduleInvariant` adds to the loop's invariant that the steps,
  once frozen, stay those of `prepare` (`ScheduleFrozen`), and that captures, stages,
  rejects, observations and the tree are functions of the steps executed so far
  (`WorldKept`).  What an effect left at a path is written `Left`, which for a directory
  removed if empty depends on what is below; it does not change later because
  everything below precedes it, which is what `PublishActiveStep` shows.
* Trees.  `TreeAtEveryStep` is not shown by induction over the run but for each
  state: for an object q below p take a lowest object r at or below q.  With nothing
  below it, r was observed or has been activated; whichever of the two, and whether the
  effect of p has run, either the tree observed, or the tree planned, or the order of
  the two effects makes p a directory.

`PathResultProofs` proves every property of `path_result`, for every set of values.
Assumption: the expected value is one of them and not the only one, and none of them
is a marker for a fact without a value (`ValuesAssumption`).  `PathInvariant` says on
what each stage rests: admission on a comparison without failures, the verdict on the
observation at hand, evidence on a matched verdict.  `MatchExact` speaks of all objects an
observation may stand for, while the code looks at one field after the other;
`MergeExact` joins the two: the facts of an object vary independently, so an object
that violates the plan exists exactly when one field can have a value that does.
`RetainedSatisfiesPlan` combines the exact verdict with the exact admission
(`PreconditionPassed`, `PreconditionFailed`), and `MatchSeals` shows for each planned
outcome that a matched result has what the constructor of its consequence demands.

The three engine modules prove every safety property that the engine runs check,
for every schedule of any length, every durability requirement, every set of
recovery requirements, and any number of crashes and projections; each module
extends the one before it.  Assumptions, which TLC evaluates in all engine runs:
`ScheduleAssumption` (a schedule names plan paths, each at most once per kind of
step; with recovery selected every active path that was present is captured),
`ControlAssumption` (the requirements are values of their enumerations),
`BoundsAssumption`.

* `ApplicationEngineProofs`: `TypeCorrect` is inductive by itself, `IssuedOnce` and
  `ReceiptEndsAttempt` are not.  That an effect is issued once depends on who may
  call the backend: `Discipline` adds that a call in progress belongs to the
  announced effect whose turn it is (`CallOwned`), and that a call still running has
  not reached the backend (`InFlight`).  `Turn` says whose turn it is at each
  position without mentioning `CHOOSE`: all before it in the schedule, or in recovery
  all candidates after it, completed.  The `...Forms` lemmas rewrite each loop of
  the engine with the chosen effect named, so that later proofs never see the
  choice.  `Advances` states what any step does to the progress of effects (one intent,
  then one terminal event, by a live session, for the effect whose turn it is); most
  later arguments use it instead of the thirty actions.
* `ApplicationOutcomeProofs`, first part: a restart trusts the journal's state where a fresh run
  trusts its own position.  `Lifecycle` says what each vouches for (`Vouched`,
  `Reached`): completed captures, staging, rejected phase, active phase.  Completed
  effects stay completed, so what is vouched for survives every step of every
  session.  `AppendsAccepted` follows: the state an append moves to is always one the
  lifecycle relation admits.
* `ApplicationOutcomeProofs`, second part: `StepKinds` separates the steps that reach the world.
  `MutationPrepared` needs that an announced active effect, not only an issued one,
  has everything behind it (`Guarded`) and that completed publications are in the
  store (`Shelved`).  `OrderedEffects` needs the same of order (`InOrder`), and that
  recovery is announced only when selected and in the recovering state
  (`RecoveryBegun`), during which the candidates cannot change.
  `SealedEvidenceDurable` needs what the session knows of the record between
  publication and seal (`EvidenceRecorded`), republished under a new projection or
  not.
* `PublishedReceiptProofs`: a receipt is computed from the journal and claims
  something about the target.  `ReceiptGrounds` ties the two, through the moment
  when an answer was given and is not yet recorded: a path whose effect failed or kept
  its directory is as it was found (`Untouched`), so is one recovered from an exact
  capture (`Restored`); what is on the shelf is not reported as failed (`ShelfKnown`);
  completion goes on only with a target observed as expected (`ObservationHeld`); and
  recovery entered for a known reason finds no unknown active effect
  (`CauseSound`), which for a restart is a property of the cause inferred from the
  journal.  `ReceiptSteps` classifies the places where a receipt is published, and one
  lemma for each shows that what it claims is `Justified`.

The invariants were checked by TLC on the constants of the engine runs before they
were proved.

`LeasedApplicationsProofs` proves, for any number of controllers and any requests,
backends, archives, acquisitions, lost leases and bounds, every property of
`authority`.  Assumptions, which
TLC evaluates in `authority` and `revalidation`: the bounds are natural numbers;
every backend has a managed target, and an absent value is no content
(`TargetsAssumption`); no journal header is the absent value
(`NotGivenAssumption`); all requests are for the lock domain of the one installed
state (`DomainAssumption`).  The last is needed for `PlanCurrent`: leases do not
exclude each other across domains, and the library has no check that two targets
with one state share a domain.

`IssueInvariant` is the invariant of journals and sessions.  That an effect was
issued at most once follows from two facts that `IssuedOnce` does not state: an
effect that was issued is announced in its journal, and of the sessions of one
attempt at most one is about to issue it (`OneIssuer`).  Both rest on `Follows`: a
session remembers its journal, or something with fewer steps, so the session whose
cursor matches remembers the journal itself, and an append makes every other
session of the attempt stale (`JournalAdvances`).  `Positioned` says what the
memory of a session looks like at each of its steps, `Coherent` what a history
without a receipt holds; with them a capture exists before anything is issued, so
`Answer` only puts content at the path.  `LeaseInvariant` is the invariant of leases
and projections.  A projection whose lease is held in the shared domain is of the
published state; publication needs a held lease of that domain, of which there is
one, so the only projection it makes stale is the publisher's own, and no call uses
it.

`DeclarationInvariant` is the invariant of what attempts declare.  At most one call
is on its way to declare an attempt, the header it declares is bound to its own
request and backend, and a restart goes on only with the request, archive and backend
of the header; so what a session stages and touches follows from the header, whatever
it was called with.  `ObservationInvariant` speaks of runs in which no lease was lost.  A
call then holds its lease until it ends, so no other controller is in a call of that
domain at all; what was observed at the path of a call is still there until the
call issues its own effect (`AdmittedFactsHold`), and what it captures is what its plan
accepted (`CaptureAccepted`), across restarts by way of the journal.

`RestartedReceiptsProofs` proves two properties of `receipts`, `TypeOK` and
`DurabilityEstablished`, for every number of paths, every plan and execution control
and every number of crashes.  Assumptions, which TLC evaluates in that run: there is at
least one path, and the bound on crashes and effects is a number.

* `Kept` is the invariant of the journal.  Every step between two crashes is a `Walk`:
  it moves the position of the engine along `QuietMoves` and records nothing, or
  appends one planned event that was not recorded before and belongs to that move
  (`EventMoves`).  All actions are reduced to that once (`FreshWalk`,
  `ResumedWalk`); a crash and a restart are reduced to `Crashing` and `Restarting` in
  the same way.  That no effect has two terminal events then needs to know what is not
  yet recorded at a position (`Ahead`), which differs between a fresh session and a
  resumed one, and what a crash left behind: an intent without a terminal event is
  assumed indeterminate at the front of the journal or at its end and is gone after the
  next crash (`Intents`).
* `Grounded` says what a status stands on.  A domain is called confirmed only if each
  of its changes is followed by a confirmed synchronization; a journal past
  preparation has both staging domains durable, although a restart that goes on from
  there does not look at their events again; a domain that a session going forward calls
  not attempted has not been changed, although the session may have rebuilt this from the
  journal.  `Gathered` (preparation synchronizes a domain after all its effects, in
  whichever session) and `Reversed` (the synchronization of the recovered namespace is
  the last event there) carry it across restarts.  A step changes the status of at
  most one domain (`Changes`), and relies at four positions on what a constructor
  checked (`Gated`); `StepGrounded` shows once that such a step keeps `Grounded`.
* `ViewDurable` is about the restart view, written as the last event that sets the
  status of a domain: if it says confirmed, every change comes before that event.
* `Concluding` says how a fresh recovery ends: a recovery of unknown outcome is the
  last event, and if every candidate was recovered the last one is the synchronization
  of the namespace, with the status that the profile has (`RecoveryMoves`).
* `DurabilityKept` follows: a completed receipt was preceded by `CompletedDurability`
  at the observation, a full recovery by the synchronization `Concluding` or `Reversed`
  find, and the status of every domain by what `Grounded` says of it, or `Concluding`
  for the namespace after a fresh recovery of unknown outcome.  The theorem is as strong
  as the property and no stronger: it does not claim that a fresh receipt counts such a
  recovery, nor that a fresh full recovery is durable, and neither is true of the code.

The invariants were checked by TLC on the instance of `receipts` before they were proved.

Only model-checked: the other three properties of `receipts`, and liveness.
`RestartRebuildsProfile` compares two computations of the same profile at every
boundary, `KnownRefusals` and `PathsAccounted` compare what is built with the
constructors field by field; each needs an exact description of every position of a
fresh and of a resumed session, much more than `Kept` holds.  What a receipt claims of
the target, the rejected store and unknown effects is proved, in
`PublishedReceiptProofs`.  `EventuallyResolved` rests on fairness, which is out of reach.

## Not modelled

* Codecs, digests, version, replay-fact encoding: bytes of immutable records.  They
  are strict decoders without state; what they decide is whether bytes are
  canonical, which no property here tells apart.  Models treat a value and its
  encoding as one.
* Accessors and the fields of identities; `incoming_package.cpp`, which only holds
  values.
* Of path consequences: rejected objects, ownership transitions, provenance.
* The constructors of `backend.cpp`, which validate arguments the engine computes.
* In `LeasedApplications`: more than one active effect, rejected objects, an
  installation (an upgrade without a prior object), recovery other than best effort.
* Cancellation policy and byte budgets: no code consumes them.
* Journal states `external_resolution_pending` and `finalized` are in the
  lifecycle relation and in the journal model; the engine never appends them.

## Plan

1. Done: journal protocol with proofs; engine with restart, checked.
2. Done: the sort of active effects with proofs; schedule, captures and payloads
   executed over a file tree; one path from admission to evidence.
3. Done: durability profile, recovery state and path consequences of each receipt,
   of fresh and of restarted attempts, against the constructors of `result.cpp` and
   of the phase objects; the restart view's durability against the live one.
4. Done: requests, target context, lease, projection, admission and restart
   bindings as predicates, composed with the phases of an attempt, several
   controllers, lost leases and foreign arguments.
5. Done: theorems about the engine for every schedule, one for each safety property
   its runs check.
6. Done: theorems about authority for every instance, one for each property of its
   run.
7. Done: theorems about the schedule and about path results, one for each property of
   their runs.
8. Done: theorems about the terminal events of an attempt and about the durability in
   its receipts, across crashes and restarts.
9. Left: theorems about the other properties of `receipts`, first
   `RestartRebuildsProfile`, for which `Kept` would say of each position which effects
   are recorded with which result.

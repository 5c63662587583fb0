------------------------ MODULE ApplicationAuthority ------------------------
(***************************************************************************)
(* What an application is allowed to act on: immutable requests, target    *)
(* contexts, leases, state projections, backends and journal headers, and  *)
(* the comparisons that bind them to each other at admission, at restart   *)
(* and at the entry of every phase.                                        *)
(*                                                                         *)
(* An identity is a digest of canonical content; here it is the index of   *)
(* the content in a function, and different contents have different        *)
(* identities.  A comparison that fails throws before anything changed, so *)
(* each check is a predicate and a refused call is no step.                *)
(***************************************************************************)
CONSTANTS Target,     \* target-context identity -> arguments of its make()
          Plan,       \* operation-plan identity -> accepted plan
          Submitted,  \* request identity -> arguments of its make()
          NotGiven    \* an absent optional value

Injective(f) == \A x, y \in DOMAIN f : f[x] = f[y] => x = y

ASSUME IdentityAssumption ==
  Injective(Target) /\ Injective(Plan) /\ Injective(Submitted)

----------------------------------------------------------------------------
(***************************************************************************)
(* Construction.                                                           *)
(***************************************************************************)
\* application_target_context::make: four distinct namespaces.
TargetMade(t) == Injective(Target[t].namespaces)

\* validate_incoming: the plan cites the release, candidate and control of the
\* incoming source, its artifact and its inspected image, and the same image
\* again as the archive precondition.
IncomingMatches(plan, incoming) ==
  /\ plan.source = incoming.source
  /\ plan.artifact = incoming.artifact
  /\ plan.image = incoming.image
  /\ plan.archive = incoming.image

\* The make() of the three request types.
RequestMade(q) ==
  LET r == Submitted[q]
      plan == Plan[r.plan]
  IN  /\ TargetMade(r.target)
      /\ plan.system = Target[r.target].system
      /\ IF r.kind = "remove"
         THEN r.incoming = NotGiven /\ plan.archive = NotGiven
         ELSE r.incoming # NotGiven /\ IncomingMatches(plan, r.incoming)

Requests == {q \in DOMAIN Submitted : RequestMade(q)}
PlanOf(q) == Plan[Submitted[q].plan]
TargetOf(q) == Submitted[q].target
BackendOf(q) == Target[TargetOf(q)].backend

\* application_attempt::make
Attempt(q, nonce) ==
  [request |-> q, target |-> TargetOf(q), backend |-> BackendOf(q), nonce |-> nonce]

\* application_journal_header::make
HeaderMade(h) ==
  /\ h.attempt.request = h.request
  /\ h.attempt.target = h.target
  /\ h.attempt.backend = h.backend
  /\ h.projection.lease = h.lease

\* journal_header
Header(q, nonce, projection, lease) ==
  [kind |-> Submitted[q].kind, request |-> q, plan |-> Submitted[q].plan,
   attempt |-> Attempt(q, nonce), target |-> TargetOf(q),
   control |-> Submitted[q].control, projection |-> projection,
   lease |-> lease.id, backend |-> BackendOf(q)]

----------------------------------------------------------------------------
(***************************************************************************)
(* The lease, at admission and again at every gate.                        *)
(***************************************************************************)
\* Slip: the lock domain is taken for granted once the target agrees.
LeaseOfTarget(t, lease) == lease.held /\ lease.target = t

\* validate_target_mutation_lease_scope
LeaseInScope(t, lease) ==
  /\ lease.held
  /\ lease.target = t
  /\ lease.domain = Target[t].domain

\* Slip: the scope of the lease is all that is checked.
LeaseScopeOnly(t, projection, lease) == LeaseInScope(t, lease)

\* validate_target_mutation_lease
LeaseBinds(t, projection, lease) ==
  LeaseInScope(t, lease) /\ lease.id = projection.lease

----------------------------------------------------------------------------
(***************************************************************************)
(* Admission and restart.                                                  *)
(***************************************************************************)
\* validate_backend
BackendMatches(t, b) ==
  /\ b.backend = Target[t].backend
  /\ b.observation = Target[t].observation
  /\ b.capabilities = Target[t].capabilities

\* validate_state
StateMatches(plan, projection) ==
  /\ projection.complete
  /\ projection.snapshot = plan.snapshot
  /\ projection.inventory = plan.inventory
  /\ projection.owners = plan.owners

\* Slip: an archive is accepted for the entries it has.
ArchiveHasEntries(q, archive) == PlanOf(q).entries \subseteq archive.entries

\* validate_incoming_archive; the plan's cited entries are in the image.
ArchiveMatches(q, archive) ==
  LET plan == PlanOf(q)
  IN  /\ plan.archive # NotGiven
      /\ archive.image = Submitted[q].incoming.image
      /\ archive.image = plan.archive
      /\ plan.entries \subseteq archive.entries

\* validate_application_admission; a removal is not given an archive.
Admissible(q, projection, lease, b, archive) ==
  /\ PlanOf(q).kind = Submitted[q].kind
  /\ PlanOf(q).system = Target[TargetOf(q)].system
  /\ LeaseBinds(TargetOf(q), projection, lease)
  /\ BackendMatches(TargetOf(q), b)
  /\ StateMatches(PlanOf(q), projection)
  /\ IF Submitted[q].kind = "remove"
     THEN archive = NotGiven /\ PlanOf(q).archive = NotGiven
     ELSE archive # NotGiven /\ ArchiveMatches(q, archive)

\* validate_backend_transaction
TransactionMatches(t, lease, b, x) ==
  /\ BackendMatches(t, b)
  /\ BackendMatches(t, x)
  /\ x.target = t
  /\ x.lease = lease.id

\* validate_journal_bindings
JournalMatches(q, h) ==
  /\ h.kind = Submitted[q].kind
  /\ h.request = q
  /\ h.plan = Submitted[q].plan
  /\ h.target = TargetOf(q)
  /\ h.control = Submitted[q].control
  /\ h.backend = BackendOf(q)

\* validate_application_restart, validate_restarted_backend_transaction,
\* finish_restart and reopened_application: the attempt is reproduced.
Restartable(q, projection, lease, b, archive, h, x) ==
  /\ Admissible(q, projection, lease, b, archive)
  /\ JournalMatches(q, h)
  /\ TransactionMatches(TargetOf(q), lease, b, x)
  /\ Attempt(q, x.nonce) = h.attempt

\* validate_preparation_binding and the binding of every later phase.
PhaseBound(states, q, projection, lease, h, state) ==
  /\ LeaseBinds(TargetOf(q), projection, lease)
  /\ state \in states
  /\ h.request = q
  /\ h.plan = Submitted[q].plan
  /\ h.target = TargetOf(q)
  /\ h.control = Submitted[q].control
  /\ h.attempt = Attempt(q, h.attempt.nonce)

=============================================================================

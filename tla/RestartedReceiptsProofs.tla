------------------------ MODULE RestartedReceiptsProofs ------------------------
(***************************************************************************)
(* Receipts across crashes and restarts, for every plan and every number   *)
(* of crashes.  Between two crashes an attempt walks through the positions *)
(* of the engine and appends one event at a time; what it has recorded, in *)
(* which order and for which planned effect, is an invariant that a crash  *)
(* and a restart keep.  On that stands what the durability profile says:   *)
(* confirmed is said of a domain only after its last change.               *)
(***************************************************************************)
EXTENDS RestartedReceipts, FiniteSetTheorems, WellFoundedInduction, TLAPS

----------------------------------------------------------------------------
(***************************************************************************)
(* The inductive invariant.                                                *)
(***************************************************************************)
Early == {"admit"} \cup InPreparation
Forward == InMutation \cup Completing
Recovering == {"recover", "conclude"}

Publishing == {"publish_rejected_object", "publish_active_object"}
Kind ==
  Preparing \cup Synchronizing \cup Publishing
    \cup {"recover_active_object", "publish_completed_evidence"}
Global == Synchronizing \cup {"stage_incoming_payload", "publish_completed_evidence"}

Fact ==
  [kind : Synchronizing, path : {NoPath}, fact : Synchronized, exact : BOOLEAN]
    \cup [kind : Kind \ Synchronizing, path : Paths \cup {NoPath},
          fact : Operated \cup {"conditional_retained"}, exact : BOOLEAN]

Intent ==
  {<<"publish_rejected_object", p>> : p \in Rejecteds}
    \cup {<<"publish_active_object", p>> : p \in Actives}
    \cup {<<"recover_active_object", p>> : p \in Actives}
    \cup {<<"synchronize_recovered_namespace", NoPath>>}

Typed ==
  /\ attempt \in Attempts
  /\ pc \in Early \cup Forward \cup Recovering \cup {"over", "crashed"}
  /\ profile \in [Domain -> Status]
  /\ facts \in Seq(Fact)
  /\ session \in {"fresh", "resumed"}
  /\ stage \in {"preparing", "mutating", "visible", "recovery", "external"}
  /\ intended \subseteq Intent
  /\ seen \in [Paths -> Verdict \cup {"none"}]

Once ==
  \A i, j \in DOMAIN facts :
    facts[i].kind = facts[j].kind /\ facts[i].path = facts[j].path => i = j

\* An attempt that is over left a receipt or an exception.
Ended ==
  /\ pc = "over" <=> (receipt # {} \/ refused # "none")
  /\ receipt = {} \/ refused = "none"
  /\ \A r \in receipt : receipt = {r} /\ r.durability = profile

\* Only planned effects are recorded.
Planned(f) ==
  /\ f.kind = "capture_old_object" => f.path \in Captures
  /\ f.kind = "stage_incoming_payload" => attempt.payload
  /\ f.kind = "publish_rejected_object" => f.path \in Rejecteds
  /\ f.kind \in {"publish_active_object", "recover_active_object"} =>
       f.path \in Actives
  /\ f.kind \in Global => f.path = NoPath

Unrecorded(kind) == \A i \in DOMAIN facts : facts[i].kind # kind

\* The lifecycle of the journal against the position of the engine, and what
\* is recorded in it.
Staged ==
  /\ pc \in Early => stage = "preparing"
  /\ pc \in InMutation => stage \in {"mutating", "visible"}
  /\ pc \in Completing => stage = "visible"
  /\ pc \in Recovering => stage # "preparing"
  /\ pc = "crashed" => stage # "external"
  /\ stage \in {"recovery", "external"} => pc \in Recovering \cup {"over", "crashed"}
  /\ \A i \in DOMAIN facts :
       /\ Planned(facts[i])
       /\ stage = "preparing" =>
            facts[i].kind \in Preparing \cup {"synchronize_incoming_staging",
                                              "synchronize_recovery_staging"}
       /\ facts[i].kind \in {"recover_active_object",
                             "synchronize_recovered_namespace"} =>
            stage \in {"recovery", "external"}

\* What no session has recorded when it gets to a position, and what a fresh
\* one has not.
Ahead ==
  /\ pc = "rejected" => Unrecorded("synchronize_rejected_store")
  /\ pc \in {"rejected", "rejected_published", "active"} =>
       Unrecorded("synchronize_active_namespace")
  /\ session = "fresh" =>
       /\ pc \in {"admit", "captures", "payloads"} =>
            Unrecorded("stage_incoming_payload")
       /\ pc \in {"admit", "captures", "payloads", "sync_incoming"} =>
            Unrecorded("synchronize_incoming_staging")
       /\ pc \in {"admit", "captures", "payloads", "sync_incoming",
                  "sync_recovery"} =>
            Unrecorded("synchronize_recovery_staging")
       /\ pc \in Early \cup InMutation \cup {"observe", "publish_evidence"} =>
            Unrecorded("publish_completed_evidence")
       /\ pc \in Early \cup Forward => Unrecorded("synchronize_completed_evidence")
       /\ pc \in Early \cup Forward \cup {"recover"} =>
            Unrecorded("synchronize_recovered_namespace")

\* Which intents are left without a terminal event, and where what a session
\* assumed of them stands.
Intents ==
  /\ pc \in Early \cup Forward => intended = {}
  /\ session = "fresh" /\ pc \in Recovering => intended = {}
  /\ stage = "preparing" => intended = {}
  /\ LostRejected # {} => pc \in {"over", "crashed"}
  /\ \A p, q \in LostActive : p = q
  /\ (\E e \in intended : e[1] \in {"recover_active_object",
                                    "synchronize_recovered_namespace"})
       => stage \in {"recovery", "external"}
  /\ \A i \in DOMAIN facts : Assumed(i) =>
       /\ facts[i].fact = "indeterminate"
       /\ pc # "crashed"
       /\ \/ i = 1 /\ facts[i].kind \in Publishing
          \/ i = Len(facts) /\ facts[i].kind = "recover_active_object" /\ pc # "recover"
  /\ pc \in Recovering => \A p \in LostActive : Recorded("publish_active_object", p)

\* Preparation synchronizes a domain after all its effects.
Gathered ==
  /\ pc \in {"payloads", "sync_incoming", "sync_recovery", "prepared"} =>
       Left("capture_old_object", Captures) = {}
  /\ pc = "sync_incoming" => Recorded("stage_incoming_payload", NoPath)
  /\ ~Unrecorded("synchronize_recovery_staging") =>
       Left("capture_old_object", Captures) = {}
  /\ ~Unrecorded("synchronize_incoming_staging") =>
       Recorded("stage_incoming_payload", NoPath)
  /\ \A i, j \in DOMAIN facts :
       \/ /\ facts[i].kind = "capture_old_object"
          /\ facts[j].kind = "synchronize_recovery_staging"
       \/ /\ facts[i].kind = "stage_incoming_payload"
          /\ facts[j].kind = "synchronize_incoming_staging"
       => i < j

\* Active effects that are done, without failure.
AllActive ==
  \A p \in Actives :
    /\ Recorded("publish_active_object", p)
    /\ <<"publish_active_object", p>> \notin intended
    /\ FactsOf("publish_active_object", p) \cap {"failed", "indeterminate"} = {}

Mutated ==
  /\ pc \in Forward =>
       \A p \in Actives :
         FactsOf("publish_active_object", p) \cap {"failed", "indeterminate"} = {}
  /\ pc = "active_mutated" => AllActive
  /\ stage = "visible" => AllActive
  /\ ~Unrecorded("synchronize_active_namespace") => AllActive

\* The synchronization of the recovered namespace is the last event there.
Reversed ==
  \A j \in DOMAIN facts : facts[j].kind = "synchronize_recovered_namespace" =>
    /\ \A i \in DOMAIN facts : DomainOf(facts[i].kind) = "active_namespace" => i <= j
    /\ \A p \in Candidates \cup LostActive : Recovered(p)

----------------------------------------------------------------------------
Unchanging(d) ==
  \A i \in DOMAIN facts :
    DomainOf(facts[i].kind) = d /\ facts[i].kind \notin Synchronizing =>
      facts[i].fact \notin {"completed", "indeterminate"}

\* What a status in the profile stands on.
Grounded ==
  /\ \A d \in Recordable :
       /\ profile[d] = "confirmed"
       /\ d = "active_namespace" /\ session = "fresh" =>
            ~(\E p \in Paths : "indeterminate" \in FactsOf("recover_active_object", p))
       => DurablyRecorded(d)
  /\ pc # "over" => profile["completed_evidence"] = "not_attempted"
  /\ session = "resumed" /\ pc = "captures" => profile["recovery_staging"] # "confirmed"
  /\ stage # "preparing" =>
       DurablyRecorded("incoming_staging") /\ DurablyRecorded("recovery_staging")
  /\ pc \in Forward =>
       \A d \in {"rejected_object_store", "active_namespace"} :
         profile[d] = "not_attempted" => Unchanging(d)
  /\ pc \in {"publish_evidence", "sync_evidence", "resync_evidence"} =>
       \A d \in MustBeDurable \ {"completed_evidence"} : DurablyRecorded(d)
  /\ pc = "conclude" /\ session = "resumed" /\ profile["active_namespace"] = "confirmed"
       => RecoveredNamespaceConfirmed

Kept ==
  /\ Typed /\ Once /\ Ended /\ Staged /\ Ahead /\ Intents /\ Gathered /\ Mutated
  /\ Reversed

----------------------------------------------------------------------------
(***************************************************************************)
(* Facts about the journal's events.                                       *)
(***************************************************************************)
\* Lowest and Highest find an element of every set of naturals that has a
\* bound, and it is the least, or the greatest.
LEMMA Extremes ==
  ASSUME NEW n \in Nat, NEW S, S \subseteq 0 .. n, S # {}
  PROVE  /\ Lowest(S) \in S /\ \A i \in S : Lowest(S) <= i
         /\ Highest(S) \in S /\ \A i \in S : i <= Highest(S)
<1>1. \A i, j \in Nat : <<j, i>> \in OpToRel(<, Nat) <=> j < i
  BY DEF OpToRel
<1>2. \E m \in S : \A i \in S : m <= i
  <2>0. S \subseteq Nat
    OBVIOUS
  <2>1. \E m \in S : \A i \in S : ~ (<<i, m>> \in OpToRel(<, Nat))
    BY <2>0, NatLessThanWellFounded, WFMin, Zenon
  <2>2. PICK m \in S : \A i \in S : ~ (<<i, m>> \in OpToRel(<, Nat))
    BY <2>1
  <2>3. \A i \in S : ~ (i < m)
    BY <1>1, <2>0, <2>2
  <2> QED BY <2>0, <2>3
<1>3. \E m \in S : \A i \in S : i <= m
  <2> DEFINE T == {n - i : i \in S}
  <2>1. T \subseteq Nat /\ T # {}
    <3>1. \A i \in S : n - i \in Nat
      BY S \subseteq 0 .. n
    <3> QED BY <3>1
  <2>2. \E m \in T : \A i \in T : ~ (<<i, m>> \in OpToRel(<, Nat))
    <3> HIDE DEF T
    <3> QED BY <2>1, NatLessThanWellFounded, WFMin, Zenon
  <2>3. PICK m \in T : \A i \in T : ~ (i < m)
    <3> HIDE DEF T
    <3> QED BY <1>1, <2>1, <2>2
  <2>4. PICK h \in S : m = n - h
    BY <2>3
  <2>5. ASSUME NEW i \in S PROVE i <= h
    <3>1. ~ (n - i < n - h)
      BY <2>3, <2>4
    <3> QED BY <3>1, <2>4
  <2> QED BY <2>4, <2>5
<1> QED BY <1>2, <1>3 DEF Lowest, Highest

\* An effect is recorded by an event, and a fact of it is that event's fact.
LEMMA RecordedByEvent ==
  /\ \A kind, p : Recorded(kind, p) <=>
       \E i \in DOMAIN facts : facts[i].kind = kind /\ facts[i].path = p
  /\ \A kind, p, s : s \in FactsOf(kind, p) <=>
       \E i \in DOMAIN facts :
         facts[i].kind = kind /\ facts[i].path = p /\ facts[i].fact = s
BY DEF Recorded, FactsOf

\* The events behind one more.
LEMMA Appended ==
  ASSUME facts \in Seq(Fact), NEW f \in Fact, facts' = Append(facts, f)
  PROVE  /\ facts' \in Seq(Fact)
         /\ DOMAIN facts = 1 .. Len(facts) /\ Len(facts) \in Nat
         /\ DOMAIN facts' = 1 .. (Len(facts) + 1) /\ Len(facts') = Len(facts) + 1
         /\ \A i \in DOMAIN facts : facts'[i] = facts[i]
         /\ facts'[Len(facts) + 1] = f
         /\ \A kind, p : Recorded(kind, p)' <=>
              Recorded(kind, p) \/ (kind = f.kind /\ p = f.path)
         /\ \A kind, p, s : s \in FactsOf(kind, p)' <=>
              s \in FactsOf(kind, p)
                \/ (kind = f.kind /\ p = f.path /\ s = f.fact)
<1>1. /\ facts' \in Seq(Fact)
      /\ DOMAIN facts = 1 .. Len(facts) /\ Len(facts) \in Nat
      /\ DOMAIN facts' = 1 .. (Len(facts) + 1) /\ Len(facts') = Len(facts) + 1
      /\ \A i \in DOMAIN facts : facts'[i] = facts[i]
      /\ facts'[Len(facts) + 1] = f
  OBVIOUS
<1>2. \A i : i \in DOMAIN facts' <=> i \in DOMAIN facts \/ i = Len(facts) + 1
  BY <1>1
<1>3. ASSUME NEW kind, NEW p
      PROVE  /\ Recorded(kind, p)' <=>
                  Recorded(kind, p) \/ (kind = f.kind /\ p = f.path)
             /\ \A s : s \in FactsOf(kind, p)' <=>
                  s \in FactsOf(kind, p)
                    \/ (kind = f.kind /\ p = f.path /\ s = f.fact)
  <2>1. ASSUME NEW i \in DOMAIN facts'
        PROVE  \/ facts'[i] = f
               \/ \E j \in DOMAIN facts : facts'[i] = facts[j]
    BY <1>1
  <2>2. ASSUME NEW i \in DOMAIN facts PROVE \E j \in DOMAIN facts' : facts'[j] = facts[i]
    BY <1>1, <1>2
  <2>3. \E j \in DOMAIN facts' : facts'[j] = f
    BY <1>1, <1>2
  <2>4. ASSUME NEW s, s \in FactsOf(kind, p)'
        PROVE  s \in FactsOf(kind, p) \/ (kind = f.kind /\ p = f.path /\ s = f.fact)
    <3>1. PICK i \in DOMAIN facts' :
            facts'[i].kind = kind /\ facts'[i].path = p /\ facts'[i].fact = s
      BY <2>4 DEF FactsOf
    <3> QED BY <3>1, <2>1 DEF FactsOf
  <2>5. ASSUME NEW s, s \in FactsOf(kind, p) PROVE s \in FactsOf(kind, p)'
    <3>1. PICK i \in DOMAIN facts :
            facts[i].kind = kind /\ facts[i].path = p /\ facts[i].fact = s
      BY <2>5 DEF FactsOf
    <3> QED BY <3>1, <2>2 DEF FactsOf
  <2>6. kind = f.kind /\ p = f.path => f.fact \in FactsOf(kind, p)'
    BY <2>3 DEF FactsOf
  <2>7. /\ Recorded(kind, p)' <=> \E s : s \in FactsOf(kind, p)'
        /\ Recorded(kind, p) <=> \E s : s \in FactsOf(kind, p)
    BY DEF Recorded
  <2> QED BY <2>4, <2>5, <2>6, <2>7, Zenon
<1> QED BY <1>1, <1>3

\* The events after one more.
LEMMA Prepended ==
  ASSUME facts \in Seq(Fact), NEW f \in Fact, facts' = <<f>> \o facts
  PROVE  /\ facts' \in Seq(Fact)
         /\ DOMAIN facts = 1 .. Len(facts) /\ Len(facts) \in Nat
         /\ DOMAIN facts' = 1 .. (Len(facts) + 1) /\ Len(facts') = Len(facts) + 1
         /\ \A i \in DOMAIN facts : facts'[i + 1] = facts[i]
         /\ \A i \in DOMAIN facts' : i # 1 => i - 1 \in DOMAIN facts /\ facts'[i] = facts[i - 1]
         /\ facts'[1] = f
         /\ \A kind, p : Recorded(kind, p)' <=>
              Recorded(kind, p) \/ (kind = f.kind /\ p = f.path)
         /\ \A kind, p, s : s \in FactsOf(kind, p)' <=>
              s \in FactsOf(kind, p)
                \/ (kind = f.kind /\ p = f.path /\ s = f.fact)
<1>1. /\ facts' \in Seq(Fact)
      /\ DOMAIN facts = 1 .. Len(facts) /\ Len(facts) \in Nat
      /\ DOMAIN facts' = 1 .. (Len(facts) + 1) /\ Len(facts') = Len(facts) + 1
      /\ \A i \in DOMAIN facts : facts'[i + 1] = facts[i]
      /\ \A i \in DOMAIN facts' : i # 1 => i - 1 \in DOMAIN facts /\ facts'[i] = facts[i - 1]
      /\ facts'[1] = f
  OBVIOUS
<1>2. /\ \A i \in DOMAIN facts : i + 1 \in DOMAIN facts'
      /\ 1 \in DOMAIN facts'
  BY <1>1
<1>3. ASSUME NEW kind, NEW p
      PROVE  /\ Recorded(kind, p)' <=>
                  Recorded(kind, p) \/ (kind = f.kind /\ p = f.path)
             /\ \A s : s \in FactsOf(kind, p)' <=>
                  s \in FactsOf(kind, p)
                    \/ (kind = f.kind /\ p = f.path /\ s = f.fact)
  <2>1. ASSUME NEW i \in DOMAIN facts'
        PROVE  \/ facts'[i] = f
               \/ \E j \in DOMAIN facts : facts'[i] = facts[j]
    BY <1>1
  <2>2. ASSUME NEW i \in DOMAIN facts PROVE \E j \in DOMAIN facts' : facts'[j] = facts[i]
    BY <1>1, <1>2
  <2>3. \E j \in DOMAIN facts' : facts'[j] = f
    BY <1>1, <1>2
  <2>4. ASSUME NEW s, s \in FactsOf(kind, p)'
        PROVE  s \in FactsOf(kind, p) \/ (kind = f.kind /\ p = f.path /\ s = f.fact)
    <3>1. PICK i \in DOMAIN facts' :
            facts'[i].kind = kind /\ facts'[i].path = p /\ facts'[i].fact = s
      BY <2>4 DEF FactsOf
    <3> QED BY <3>1, <2>1 DEF FactsOf
  <2>5. ASSUME NEW s, s \in FactsOf(kind, p) PROVE s \in FactsOf(kind, p)'
    <3>1. PICK i \in DOMAIN facts :
            facts[i].kind = kind /\ facts[i].path = p /\ facts[i].fact = s
      BY <2>5 DEF FactsOf
    <3> QED BY <3>1, <2>2 DEF FactsOf
  <2>6. kind = f.kind /\ p = f.path => f.fact \in FactsOf(kind, p)'
    BY <2>3 DEF FactsOf
  <2>7. /\ Recorded(kind, p)' <=> \E s : s \in FactsOf(kind, p)'
        /\ Recorded(kind, p) <=> \E s : s \in FactsOf(kind, p)
    BY DEF Recorded
  <2> QED BY <2>4, <2>5, <2>6, <2>7, Zenon
<1> QED BY <1>1, <1>3

\* A crash loses what was assumed, and nothing else.
LEMMA Durably ==
  ASSUME facts \in Seq(Fact), Intents, facts' = Durable
  PROVE  /\ facts' \in Seq(Fact)
         /\ \E shift \in {0, 1} :
              /\ \A i \in DOMAIN facts' :
                   i + shift \in DOMAIN facts /\ facts'[i] = facts[i + shift]
                     /\ ~Assumed(i + shift)
              /\ \A i \in DOMAIN facts :
                   Assumed(i) \/ (i - shift \in DOMAIN facts' /\ facts'[i - shift] = facts[i])
         /\ \A kind, p : Recorded(kind, p)' <=>
              Recorded(kind, p) /\ <<kind, p>> \notin intended
         /\ \A kind, p, s : s \in FactsOf(kind, p)' <=>
              s \in FactsOf(kind, p) /\ <<kind, p>> \notin intended
<1> DEFINE first == IF facts # << >> /\ Assumed(1) THEN 2 ELSE 1
           last == IF facts # << >> /\ Assumed(Len(facts)) THEN Len(facts) - 1
                   ELSE Len(facts)
<1>1. Len(facts) \in Nat /\ DOMAIN facts = 1 .. Len(facts)
      /\ (facts # << >> <=> Len(facts) > 0)
  OBVIOUS
<1>2. first \in {1, 2} /\ last \in Int /\ last <= Len(facts) /\ first - 1 \in {0, 1}
      /\ facts' = SubSeq(facts, first, last)
  BY <1>1 DEF Durable
<1>3. \A i \in DOMAIN facts : Assumed(i) => i = 1 \/ i = Len(facts)
  BY DEF Intents
<1>4. \A i \in DOMAIN facts : Assumed(i) <=> i < first \/ i > last
  BY <1>1, <1>3
<1> HIDE DEF first, last
<1>5. /\ facts' \in Seq(Fact)
      /\ DOMAIN facts' = 1 .. (IF first <= last THEN last - first + 1 ELSE 0)
      /\ \A i \in DOMAIN facts' : facts'[i] = facts[i + (first - 1)]
  <2>1. \A i \in first .. last : facts[i] \in Fact
    BY <1>1, <1>2
  <2>2. first \in Int /\ last \in Int
    BY <1>2
  <2>3. /\ DOMAIN facts' = 1 .. (IF first <= last THEN last - first + 1 ELSE 0)
        /\ \A i \in DOMAIN facts' : facts'[i] = facts[i + (first - 1)]
        /\ facts' \in Seq(Fact)
    BY <1>1, <1>2, <2>1, <2>2
  <2> QED BY <2>3
<1>6. \A i \in DOMAIN facts' :
        /\ i + (first - 1) \in DOMAIN facts /\ facts'[i] = facts[i + (first - 1)]
        /\ ~Assumed(i + (first - 1))
  BY <1>1, <1>2, <1>4, <1>5
<1>7. \A i \in DOMAIN facts :
        Assumed(i) \/ (i - (first - 1) \in DOMAIN facts'
                        /\ facts'[i - (first - 1)] = facts[i])
  BY <1>1, <1>2, <1>4, <1>5
<1>8. /\ \A kind, p : Recorded(kind, p)' <=>
           \E i \in DOMAIN facts' : facts'[i].kind = kind /\ facts'[i].path = p
      /\ \A kind, p, s : s \in FactsOf(kind, p)' <=>
           \E i \in DOMAIN facts' :
             facts'[i].kind = kind /\ facts'[i].path = p /\ facts'[i].fact = s
  BY DEF Recorded, FactsOf
<1>9. \A i \in DOMAIN facts : Assumed(i) <=> <<facts[i].kind, facts[i].path>> \in intended
  BY DEF Assumed
<1>10. \A kind, p : Recorded(kind, p)' <=>
              Recorded(kind, p) /\ <<kind, p>> \notin intended
  BY <1>6, <1>7, <1>8, <1>9, RecordedByEvent
<1>11. \A kind, p, s : s \in FactsOf(kind, p)' <=>
              s \in FactsOf(kind, p) /\ <<kind, p>> \notin intended
  BY <1>6, <1>7, <1>8, <1>9, RecordedByEvent
<1>12. first - 1 \in {0, 1}
  BY <1>2
<1> QED BY <1>5, <1>6, <1>7, <1>10, <1>11, <1>12

----------------------------------------------------------------------------
(***************************************************************************)
(* The shape of a step between two crashes: the positions it leads from    *)
(* and to, and the event it records.                                       *)
(***************************************************************************)
QuietMoves ==
  {<<"admit", "captures">>, <<"captures", "payloads">>,
   <<"payloads", "sync_incoming">>, <<"payloads", "sync_recovery">>,
   <<"sync_incoming", "sync_recovery">>, <<"sync_recovery", "prepared">>,
   <<"sync_recovery", "rejected">>, <<"prepared", "rejected">>,
   <<"rejected", "active">>, <<"rejected_published", "active">>,
   <<"active", "observe">>, <<"active_mutated", "observe">>,
   <<"observe", "publish_evidence">>, <<"observe", "recover">>,
   <<"publish_evidence", "sync_evidence">>, <<"publish_evidence", "resync_evidence">>,
   <<"recover", "conclude">>}
    \cup {<<p, "over">> : p \in Early \cup Forward \cup Recovering}

Quiet ==
  /\ facts' = facts
  /\ <<pc, pc'>> \in QuietMoves
  /\ pc = "captures" /\ pc' # "over" => Left("capture_old_object", Captures) = {}
  /\ pc = "payloads" /\ pc' = "sync_incoming" =>
       Recorded("stage_incoming_payload", NoPath)
  /\ pc = "active" /\ pc' # "over" => Left("publish_active_object", Actives) = {}
  /\ pc' \in {"sync_evidence", "resync_evidence"} => session = "resumed"

\* The event of a step, and where the step leads.
Records(f) ==
  \/ /\ f.kind = "capture_old_object" /\ pc = "captures"
     /\ pc' \in {"captures", "over"}
  \/ /\ f.kind = "stage_incoming_payload" /\ pc = "payloads"
     /\ pc' \in {"sync_incoming", "over"}
  \/ /\ f.kind = "synchronize_incoming_staging" /\ pc = "sync_incoming"
     /\ pc' \in {"sync_recovery", "over"}
  \/ /\ f.kind = "synchronize_recovery_staging" /\ pc = "sync_recovery"
     /\ pc' \in {"prepared", "over"}
  \/ /\ f.kind = "publish_rejected_object" /\ pc = "rejected"
     /\ pc' \in {"rejected", "over"}
  \/ /\ f.kind = "synchronize_rejected_store" /\ pc = "rejected"
     /\ pc' \in {"rejected_published", "over"}
  \/ /\ f.kind = "publish_active_object" /\ pc = "active"
     /\ \/ pc' = "active" /\ f.fact \in {"completed", "conditional_retained"}
        \/ pc' \in {"recover", "over"}
  \/ /\ f.kind = "synchronize_active_namespace" /\ pc = "active"
     /\ Left("publish_active_object", Actives) = {}
     /\ pc' \in {"active_mutated", "recover", "over"}
  \/ /\ f.kind = "publish_completed_evidence" /\ pc = "publish_evidence"
     /\ pc' \in {"sync_evidence", "over"}
  \/ /\ f.kind = "synchronize_completed_evidence"
     /\ pc \in {"sync_evidence", "resync_evidence"} /\ pc' = "over"
  \/ /\ f.kind = "recover_active_object" /\ pc = "recover" /\ f.path \in Candidates
     /\ pc' \in Recovering
     /\ <<f.kind, f.path>> \in intended => f.fact = "indeterminate" /\ pc' = "conclude"
  \/ /\ f.kind = "synchronize_recovered_namespace" /\ pc = "recover"
     /\ AllRecovered /\ <<f.kind, f.path>> \notin intended
     /\ pc' = "conclude"

Adding ==
  \E f \in Fact :
    /\ facts' = Append(facts, f)
    /\ ~Recorded(f.kind, f.path)
    /\ Planned(f)
    /\ Records(f)

StageMoves ==
  /\ pc' \in Early => stage' = "preparing"
  /\ pc' \in InMutation => stage' = IF stage = "preparing" THEN "mutating" ELSE stage
  /\ pc' \in Completing => stage' = "visible"
  /\ pc' \in Recovering =>
       stage' = IF pc = "recover" THEN "recovery" ELSE stage
  /\ pc' = "over" =>
       \/ stage' = stage
       \/ pc \in Forward \cup Recovering /\ stage' \in {"recovery", "external"}

Walk ==
  /\ UNCHANGED <<attempt, session, intended>>
  /\ pc \notin {"over", "crashed"}
  /\ StageMoves
  /\ Quiet \/ Adding

----------------------------------------------------------------------------
\* The effects of a plan.
LEMMA PlanPaths ==
  /\ PathCount \in Nat /\ Paths = 1 .. PathCount /\ NoPath = 0 /\ NoPath \notin Paths
  /\ Captures \subseteq Paths /\ Rejecteds \subseteq Paths /\ Actives \subseteq Paths
  /\ Candidates \subseteq Actives
BY CountAssumption DEF Paths, NoPath, Captures, Rejecteds, Actives, Candidates

\* What is left to do is found by Lowest and Highest.
LEMMA NextPath ==
  ASSUME NEW S, S \subseteq Paths, S # {}
  PROVE  Lowest(S) \in S /\ Highest(S) \in S
<1>1. S \subseteq 0 .. PathCount
  BY PlanPaths
<1> QED BY <1>1, PlanPaths, Extremes

\* A step that keeps the attempt keeps its plan.
LEMMA SamePlan ==
  ASSUME attempt' = attempt
  PROVE  /\ Captures' = Captures /\ Rejecteds' = Rejecteds /\ Actives' = Actives
         /\ AllDomains' = AllDomains /\ RecoverySelected' = RecoverySelected
         /\ attempt'.payload = attempt.payload
         /\ \A f : Planned(f)' <=> Planned(f)
<1>1. /\ Captures' = Captures /\ Rejecteds' = Rejecteds /\ Actives' = Actives
      /\ AllDomains' = AllDomains /\ RecoverySelected' = RecoverySelected
  BY DEF Captures, Rejecteds, Actives, AllDomains, RecoverySelected, ForRecovery, Plan
<1> QED BY <1>1 DEF Planned

\* The stage follows the position.
LEMMA StageFollows ==
  ASSUME Typed, Staged, Track, pc \notin {"over", "crashed"},
         \/ <<pc, pc'>> \in QuietMoves
         \/ \E f \in Fact : Records(f),
         refused' = "active_interrupted_application" =>
           pc \in {"active", "observe"} /\ pc' = "over"
  PROVE  StageMoves
<1> USE DEF Early, Forward, Recovering, InPreparation, InMutation, Completing
<1>1. pc' # "admit"
  BY DEF QuietMoves, Records
<1>2. pc' \in Early \cup Forward =>
        pc # "recover" /\ refused' # "active_interrupted_application"
  BY DEF QuietMoves, Records
<1>3. pc' \in Early => stage' = "preparing"
  BY <1>1, <1>2 DEF Track
<1>4. pc' \in InMutation => stage' = IF stage = "preparing" THEN "mutating" ELSE stage
  BY <1>2 DEF Track
<1>5. pc' \in Completing => stage' = "visible"
  BY <1>2 DEF Track
<1>6. pc' \in Recovering =>
       stage' = IF pc = "recover" THEN "recovery" ELSE stage
  BY DEF Track
<1>7. pc' = "over" =>
       \/ stage' = stage
       \/ pc \in Forward \cup Recovering /\ stage' \in {"recovery", "external"}
  BY DEF Track, QuietMoves
<1> QED BY <1>3, <1>4, <1>5, <1>6, <1>7 DEF StageMoves

Event(kind, p, s, e) == [kind |-> kind, path |-> p, fact |-> s, exact |-> e]
Operating ==
  {"capture_old_object", "stage_incoming_payload", "publish_rejected_object",
   "publish_active_object", "recover_active_object", "publish_completed_evidence"}

\* What an event may be.
LEMMA EventTyped ==
  /\ \A kind \in Synchronizing, s \in Synchronized, e \in BOOLEAN :
       Event(kind, NoPath, s, e) \in Fact
  /\ \A kind \in Operating, p \in Paths \cup {NoPath},
        s \in Operated \cup {"conditional_retained"}, e \in BOOLEAN :
       Event(kind, p, s, e) \in Fact
<1>1. Kind \ Synchronizing = Operating
  BY DEF Kind, Preparing, Synchronizing, Publishing, Operating
<1> QED BY <1>1 DEF Fact, Event

\* A terminal event that is recorded is a step of that shape.
LEMMA EventAdded ==
  ASSUME NEW kind, NEW p, NEW s, NEW e, Record(kind, p, s, e),
         Event(kind, p, s, e) \in Fact, Planned(Event(kind, p, s, e)),
         ~Recorded(kind, p), Records(Event(kind, p, s, e))
  PROVE  Adding
<1> DEFINE f == Event(kind, p, s, e)
<1>1. facts' = Append(facts, f) /\ f.kind = kind /\ f.path = p
  BY DEF Record, Event
<1> HIDE DEF f
<1>2. f \in Fact /\ Planned(f) /\ Records(f)
  BY DEF f
<1> QED BY <1>1, <1>2 DEF Adding

\* The same for a synchronization, which the attempt has once.
LEMMA SynchronizationAdded ==
  ASSUME NEW kind \in Synchronizing, NEW s \in Synchronized,
         Record(kind, NoPath, s, FALSE), ~Recorded(kind, NoPath),
         Records(Event(kind, NoPath, s, FALSE))
  PROVE  Adding
<1>1. Event(kind, NoPath, s, FALSE) \in Fact
  BY EventTyped
<1>2. Planned(Event(kind, NoPath, s, FALSE))
  BY DEF Planned, Event, Global, Synchronizing
<1> QED BY <1>1, <1>2, EventAdded

\* The same for an operation on a path.
LEMMA OperationAdded ==
  ASSUME NEW kind \in Operating, NEW p \in Paths \cup {NoPath},
         NEW s \in Operated \cup {"conditional_retained"}, NEW e \in BOOLEAN,
         Record(kind, p, s, e), ~Recorded(kind, p),
         Planned(Event(kind, p, s, e)), Records(Event(kind, p, s, e))
  PROVE  Adding
<1>1. Event(kind, p, s, e) \in Fact
  BY EventTyped
<1> QED BY <1>1, EventAdded

\* What has no event at any path has none at this one.
LEMMA UnrecordedKind ==
  ASSUME NEW kind, Unrecorded(kind)
  PROVE  \A p : ~Recorded(kind, p)
BY RecordedByEvent DEF Unrecorded

Shaped ==
  /\ attempt' = attempt
  /\ pc \notin {"over", "crashed"}
  /\ Quiet \/ Adding
  /\ refused' = "active_interrupted_application" =>
       pc \in {"active", "observe"} /\ pc' = "over"

\* The steps of a fresh session have this shape: preparation, ...
LEMMA PreparationShaped ==
  ASSUME Ended, Ahead, session = "fresh", Preparation
  PROVE  Shaped
<1> USE DEF Early, Forward, Recovering, InPreparation, InMutation, Completing, Shaped
<1>1. pc \notin {"over", "crashed"}
  BY DEF Preparation, RefusePreconditions, Admit, CaptureOldObject, CapturesDone,
         StageIncomingPayloads, NoPayloads, SynchronizeIncoming, SynchronizeRecovery,
         Prepared
<1>2. refused = "none" /\ receipt = {}
  BY <1>1 DEF Ended
<1>3. CASE RefusePreconditions
  BY <1>2, <1>3 DEF RefusePreconditions, Fail, Reject, Quiet, QuietMoves
<1>4. CASE Admit
  BY <1>2, <1>4 DEF Admit, Continue, Quiet, QuietMoves
<1>5. CASE CapturesDone \/ NoPayloads
  BY <1>2, <1>5 DEF CapturesDone, NoPayloads, HandOver, Quiet, QuietMoves
<1>6. CASE Prepared
  BY <1>2, <1>6 DEF Prepared, HandOver, Reject, Quiet, QuietMoves
<1>7. CASE CaptureOldObject
  <2> DEFINE p == Lowest(Left("capture_old_object", Captures))
  <2>1. p \in Captures /\ ~Recorded("capture_old_object", p) /\ p \in Paths
    BY <1>7, NextPath, PlanPaths DEF CaptureOldObject, Left
  <2> HIDE DEF p
  <2>2. PICK fact \in Operated, exact \in BOOLEAN :
          Record("capture_old_object", p, fact, exact)
    BY <1>7 DEF CaptureOldObject, p
  <2>3. pc = "captures" /\ pc' \in {"captures", "over"} /\ attempt' = attempt
        /\ refused' # "active_interrupted_application"
    BY <1>2, <1>7 DEF CaptureOldObject, FailPreparation, Fail, Continue, Reject
  <2>4. Records(Event("capture_old_object", p, fact, exact))
        /\ Planned(Event("capture_old_object", p, fact, exact))
    BY <2>1, <2>3 DEF Event, Planned, Global, Synchronizing, Records
  <2>5. Adding
    BY <2>1, <2>2, <2>4, OperationAdded DEF Operating
  <2> QED BY <1>1, <2>3, <2>5
<1>8. CASE StageIncomingPayloads
  <2>1. PICK fact \in Operated : Record("stage_incoming_payload", NoPath, fact, FALSE)
    BY <1>8 DEF StageIncomingPayloads
  <2>2. pc = "payloads" /\ pc' \in {"sync_incoming", "over"} /\ attempt' = attempt
        /\ refused' # "active_interrupted_application" /\ attempt.payload
    BY <1>2, <1>8 DEF StageIncomingPayloads, FailPreparation, Fail, Continue, Reject
  <2>3. Records(Event("stage_incoming_payload", NoPath, fact, FALSE))
        /\ Planned(Event("stage_incoming_payload", NoPath, fact, FALSE))
    BY <2>2 DEF Event, Planned, Global, Synchronizing, Records
  <2>4. ~Recorded("stage_incoming_payload", NoPath)
    BY <2>2, UnrecordedKind DEF Ahead
  <2>5. Adding
    BY <2>1, <2>3, <2>4, OperationAdded DEF Operating
  <2> QED BY <1>1, <2>2, <2>5
<1>9. CASE SynchronizeIncoming
  <2>1. PICK s \in Synchronized : Record("synchronize_incoming_staging", NoPath, s, FALSE)
    BY <1>9 DEF SynchronizeIncoming, SynchronizePreparation
  <2>2. pc = "sync_incoming" /\ pc' \in {"sync_recovery", "over"} /\ attempt' = attempt
        /\ refused' # "active_interrupted_application"
    BY <1>2, <1>9 DEF SynchronizeIncoming, SynchronizePreparation, FailPreparation, Fail,
         Continue, Reject
  <2>3. Records(Event("synchronize_incoming_staging", NoPath, s, FALSE))
    BY <2>2 DEF Event, Records
  <2>4. ~Recorded("synchronize_incoming_staging", NoPath)
    BY <2>2, UnrecordedKind DEF Ahead
  <2>5. Adding
    BY <2>1, <2>3, <2>4, SynchronizationAdded DEF Synchronizing
  <2> QED BY <1>1, <2>2, <2>5
<1>10. CASE SynchronizeRecovery
  <2>1. PICK s \in Synchronized : Record("synchronize_recovery_staging", NoPath, s, FALSE)
    BY <1>10 DEF SynchronizeRecovery, SynchronizePreparation
  <2>2. pc = "sync_recovery" /\ pc' \in {"prepared", "over"} /\ attempt' = attempt
        /\ refused' # "active_interrupted_application"
    BY <1>2, <1>10 DEF SynchronizeRecovery, SynchronizePreparation, FailPreparation, Fail,
         Continue, Reject
  <2>3. Records(Event("synchronize_recovery_staging", NoPath, s, FALSE))
    BY <2>2 DEF Event, Records
  <2>4. ~Recorded("synchronize_recovery_staging", NoPath)
    BY <2>2, UnrecordedKind DEF Ahead
  <2>5. Adding
    BY <2>1, <2>3, <2>4, SynchronizationAdded DEF Synchronizing
  <2> QED BY <1>1, <2>2, <2>5
<1> QED
  BY <1>3, <1>4, <1>5, <1>6, <1>7, <1>8, <1>9, <1>10, <1>1 DEF Preparation

\* ... the publication of rejected objects, also in a resumed one, ...
LEMMA RejectedShaped ==
  ASSUME Ended, Ahead, RejectedPhase
  PROVE  Shaped
<1> USE DEF Early, Forward, Recovering, InPreparation, InMutation, Completing, Shaped
<1>1. pc \notin {"over", "crashed"}
  BY DEF RejectedPhase, PublishRejected, SynchronizeRejected, RejectedPublished
<1>2. refused = "none" /\ receipt = {}
  BY <1>1 DEF Ended
<1>3. CASE PublishRejected
  <2> DEFINE p == Lowest(Left("publish_rejected_object", Rejecteds))
  <2>1. p \in Rejecteds /\ ~Recorded("publish_rejected_object", p) /\ p \in Paths
    BY <1>3, NextPath, PlanPaths DEF PublishRejected, Left
  <2> HIDE DEF p
  <2>2. PICK fact \in Operated : Record("publish_rejected_object", p, fact, FALSE)
    BY <1>3 DEF PublishRejected, p
  <2>3. pc = "rejected" /\ pc' \in {"rejected", "over"} /\ attempt' = attempt
        /\ refused' # "active_interrupted_application"
    BY <1>2, <1>3 DEF PublishRejected, FailRejected, Fail, Continue, Reject
  <2>4. Records(Event("publish_rejected_object", p, fact, FALSE))
        /\ Planned(Event("publish_rejected_object", p, fact, FALSE))
    BY <2>1, <2>3 DEF Event, Planned, Global, Synchronizing, Records
  <2>5. Adding
    BY <2>1, <2>2, <2>4, OperationAdded DEF Operating
  <2> QED BY <1>1, <2>3, <2>5
<1>4. CASE SynchronizeRejected
  <2>1. PICK s \in Synchronized : Record("synchronize_rejected_store", NoPath, s, FALSE)
    BY <1>4 DEF SynchronizeRejected
  <2>2. pc = "rejected" /\ pc' \in {"rejected_published", "over"} /\ attempt' = attempt
        /\ refused' # "active_interrupted_application"
    BY <1>2, <1>4 DEF SynchronizeRejected, FailRejected, Fail, Continue, Reject
  <2>3. Records(Event("synchronize_rejected_store", NoPath, s, FALSE))
    BY <2>2 DEF Event, Records
  <2>4. ~Recorded("synchronize_rejected_store", NoPath)
    BY <2>2, UnrecordedKind DEF Ahead
  <2>5. Adding
    BY <2>1, <2>3, <2>4, SynchronizationAdded DEF Synchronizing
  <2> QED BY <1>1, <2>2, <2>5
<1>5. CASE RejectedPublished
  BY <1>2, <1>5 DEF RejectedPublished, HandOver, Reject, Quiet, QuietMoves
<1> QED BY <1>3, <1>4, <1>5 DEF RejectedPhase

\* ... active execution, ...
LEMMA ActiveShaped ==
  ASSUME Ended, Ahead, ExecuteActive \/ ActiveMutated
  PROVE  Shaped
<1> USE DEF Early, Forward, Recovering, InPreparation, InMutation, Completing, Shaped
<1>1. pc \notin {"over", "crashed"}
  BY DEF ExecuteActive, ActiveMutated
<1>2. refused = "none" /\ receipt = {}
  BY <1>1 DEF Ended
<1>3. CASE ExecuteActive
  <2> DEFINE p == Lowest(Left("publish_active_object", Actives))
  <2>1. p \in Actives /\ ~Recorded("publish_active_object", p) /\ p \in Paths
    BY <1>3, NextPath, PlanPaths DEF ExecuteActive, Left
  <2> HIDE DEF p
  <2>2. pc = "active" /\ attempt' = attempt
        /\ (refused' = "active_interrupted_application" => pc' = "over")
    BY <1>2, <1>3 DEF ExecuteActive, Interrupt, Continue, Reject
  <2>3. PICK s \in Operated \cup {"conditional_retained"} :
          /\ Record("publish_active_object", p, s, FALSE)
          /\ \/ pc' = "active" /\ s \in {"completed", "conditional_retained"}
             \/ pc' \in {"recover", "over"}
    BY <1>3 DEF ExecuteActive, p, Operated, Interrupt, Continue, Reject
  <2>4. Records(Event("publish_active_object", p, s, FALSE))
        /\ Planned(Event("publish_active_object", p, s, FALSE))
    BY <2>1, <2>2, <2>3 DEF Event, Planned, Global, Synchronizing, Records
  <2>5. Adding
    BY <2>1, <2>3, <2>4, OperationAdded DEF Operating
  <2> QED BY <1>1, <2>2, <2>5
<1>4. CASE ActiveMutated
  BY <1>2, <1>4 DEF ActiveMutated, HandOver, Reject, Quiet, QuietMoves
<1> QED BY <1>3, <1>4

\* ... the synchronization of the active namespace, ...
LEMMA ActiveSynchronizationShaped ==
  ASSUME Ended, Ahead, SynchronizeActive \/ ResumeActiveSynchronization
  PROVE  Shaped
<1> USE DEF Early, Forward, Recovering, InPreparation, InMutation, Completing, Shaped
<1>1. pc = "active" /\ Left("publish_active_object", Actives) = {} /\ attempt' = attempt
  BY DEF SynchronizeActive, ResumeActiveSynchronization
<1>2. refused = "none" /\ receipt = {}
  BY <1>1 DEF Ended
<1>3. PICK s \in Synchronized :
        /\ Record("synchronize_active_namespace", NoPath, s, FALSE)
        /\ CASE s = "confirmed" -> Continue("active_mutated")
             [] s = "indeterminate" -> Interrupt("durability_indeterminate")
             [] OTHER -> Interrupt("durability_unconfirmed")
  BY DEF SynchronizeActive, ResumeActiveSynchronization
<1>4. /\ pc' \in {"active_mutated", "recover", "over"}
      /\ (refused' = "active_interrupted_application" => pc' = "over")
  BY <1>2, <1>3 DEF Interrupt, Continue, Reject
<1>5. Records(Event("synchronize_active_namespace", NoPath, s, FALSE))
  BY <1>1, <1>4 DEF Event, Records
<1>6. ~Recorded("synchronize_active_namespace", NoPath)
  BY <1>1, UnrecordedKind DEF Ahead
<1>7. Adding
  BY <1>3, <1>5, <1>6, SynchronizationAdded DEF Synchronizing
<1> QED BY <1>1, <1>4, <1>7

\* ... observations and evidence that is not recorded yet, ...
LEMMA CompletionShaped ==
  ASSUME Ended,
         \/ ObserveMatched \/ ObserveUnmatched
         \/ ~Recorded("publish_completed_evidence", NoPath) /\ PublishCompletedEvidence
         \/ ~Recorded("synchronize_completed_evidence", NoPath)
              /\ SynchronizeCompletedEvidence
  PROVE  Shaped
<1> USE DEF Early, Forward, Recovering, InPreparation, InMutation, Completing, Shaped
<1>1. pc \notin {"over", "crashed"}
  BY DEF ObserveMatched, ObserveUnmatched, PublishCompletedEvidence,
         SynchronizeCompletedEvidence
<1>2. refused = "none" /\ receipt = {}
  BY <1>1 DEF Ended
<1>3. CASE ObserveMatched
  BY <1>2, <1>3 DEF ObserveMatched, HandOver, Reject, Quiet, QuietMoves
<1>4. CASE ObserveUnmatched
  BY <1>2, <1>4 DEF ObserveUnmatched, Interrupt, Reject, Quiet, QuietMoves
<1>5. CASE ~Recorded("publish_completed_evidence", NoPath) /\ PublishCompletedEvidence
  <2>1. PICK s \in Operated : Record("publish_completed_evidence", NoPath, s, FALSE)
    BY <1>5 DEF PublishCompletedEvidence
  <2>2. pc = "publish_evidence" /\ pc' \in {"sync_evidence", "over"} /\ attempt' = attempt
        /\ refused' # "active_interrupted_application"
    BY <1>2, <1>5 DEF PublishCompletedEvidence, FailEvidence, Fail, Continue, Reject
  <2>3. Records(Event("publish_completed_evidence", NoPath, s, FALSE))
        /\ Planned(Event("publish_completed_evidence", NoPath, s, FALSE))
    BY <2>2 DEF Event, Planned, Global, Synchronizing, Records
  <2>4. Adding
    BY <1>5, <2>1, <2>3, OperationAdded DEF Operating
  <2> QED BY <1>1, <2>2, <2>4
<1>6. CASE /\ ~Recorded("synchronize_completed_evidence", NoPath)
           /\ SynchronizeCompletedEvidence
  <2>1. PICK s \in Synchronized :
          Record("synchronize_completed_evidence", NoPath, s, FALSE)
    BY <1>6 DEF SynchronizeCompletedEvidence
  <2>2. pc = "sync_evidence" /\ pc' = "over" /\ attempt' = attempt
        /\ refused' # "active_interrupted_application"
    BY <1>2, <1>6 DEF SynchronizeCompletedEvidence, FailEvidence, Complete, Fail, Reject
  <2>3. Records(Event("synchronize_completed_evidence", NoPath, s, FALSE))
    BY <2>2 DEF Event, Records
  <2>4. Adding
    BY <1>6, <2>1, <2>3, SynchronizationAdded DEF Synchronizing
  <2> QED BY <1>1, <2>2, <2>4
<1> QED BY <1>3, <1>4, <1>5, <1>6

\* ... and recovery.
LEMMA UnrecoveredShaped ==
  ASSUME Ended, RecoverNothing \/ RecoverUnselected
  PROVE  Shaped
<1> USE DEF Early, Forward, Recovering, InPreparation, InMutation, Completing, Shaped
<1>1. pc = "recover" /\ attempt' = attempt /\ facts' = facts
  BY DEF RecoverNothing, RecoverUnselected
<1>2. refused = "none" /\ receipt = {}
  BY <1>1 DEF Ended
<1>3. pc' = "over" /\ refused' # "active_interrupted_application"
  BY <1>2 DEF RecoverNothing, RecoverUnselected, SealRecoveryReceipt, Fail, Reject
<1> QED BY <1>1, <1>3 DEF Quiet, QuietMoves

\* Of a fresh recovery.
LEMMA RecoveryShaped ==
  ASSUME Ended, Ahead, Intents, session = "fresh",
         Recover \/ SynchronizeRecovered \/ ConcludeRecovery
  PROVE  Shaped
<1> USE DEF Early, Forward, Recovering, InPreparation, InMutation, Completing, Shaped
<1>1. pc \in {"recover", "conclude"} /\ attempt' = attempt
  BY DEF Recover, SynchronizeRecovered, ConcludeRecovery
<1>2. refused = "none" /\ receipt = {}
  BY <1>1 DEF Ended
<1>3. intended = {}
  BY <1>1 DEF Intents
<1>4. CASE Recover
  <2> DEFINE p == Highest(Left("recover_active_object", Candidates))
  <2>1. p \in Candidates /\ p \in Actives /\ ~Recorded("recover_active_object", p)
        /\ p \in Paths
    BY <1>4, NextPath, PlanPaths DEF Recover, Left
  <2> HIDE DEF p
  <2>2. PICK s \in Operated : Record("recover_active_object", p, s, FALSE)
    BY <1>4 DEF Recover, p
  <2>3. pc = "recover" /\ pc' \in {"recover", "conclude"}
        /\ refused' # "active_interrupted_application"
    BY <1>2, <1>4 DEF Recover, Continue
  <2>4. Records(Event("recover_active_object", p, s, FALSE))
        /\ Planned(Event("recover_active_object", p, s, FALSE))
    BY <1>3, <2>1, <2>3 DEF Event, Planned, Global, Synchronizing, Records
  <2>5. Adding
    BY <2>1, <2>2, <2>4, OperationAdded DEF Operating
  <2> QED BY <1>1, <2>3, <2>5
<1>5. CASE SynchronizeRecovered
  <2>1. PICK s \in Synchronized :
          Record("synchronize_recovered_namespace", NoPath, s, FALSE)
    BY <1>5 DEF SynchronizeRecovered
  <2>2. pc = "recover" /\ pc' = "conclude" /\ AllRecovered
        /\ refused' # "active_interrupted_application"
    BY <1>2, <1>5 DEF SynchronizeRecovered, Continue, AllCandidatesRecovered
  <2>3. Records(Event("synchronize_recovered_namespace", NoPath, s, FALSE))
    BY <1>3, <2>2 DEF Event, Records
  <2>4. ~Recorded("synchronize_recovered_namespace", NoPath)
    BY <2>2, UnrecordedKind DEF Ahead
  <2>5. Adding
    BY <2>1, <2>3, <2>4, SynchronizationAdded DEF Synchronizing
  <2> QED BY <1>1, <2>2, <2>5
<1>6. CASE ConcludeRecovery
  <2>1. facts' = facts /\ pc' = "over" /\ refused' # "active_interrupted_application"
    BY <1>2, <1>6 DEF ConcludeRecovery, SealRecoveryReceipt, Fail, Reject
  <2> QED BY <1>1, <2>1 DEF Quiet, QuietMoves
<1> QED BY <1>4, <1>5, <1>6

\* A step of a fresh session walks on in the journal.
LEMMA FreshWalk ==
  ASSUME Typed, Ended, Staged, Ahead, Intents, FreshStep
  PROVE  Walk
<1>1. session = "fresh" /\ FreshNext /\ Track /\ UNCHANGED <<session, intended, crashes>>
  BY DEF FreshStep, Journaling
<1>2. Unrecorded("publish_completed_evidence") \/ pc # "publish_evidence"
  BY <1>1 DEF Ahead
<1>3. Unrecorded("synchronize_completed_evidence") \/ pc # "sync_evidence"
  BY <1>1 DEF Ahead, Forward, Completing
<1>4. Completion =>
        \/ ObserveMatched \/ ObserveUnmatched
        \/ ~Recorded("publish_completed_evidence", NoPath) /\ PublishCompletedEvidence
        \/ ~Recorded("synchronize_completed_evidence", NoPath)
             /\ SynchronizeCompletedEvidence
  BY <1>2, <1>3, UnrecordedKind
     DEF Completion, PublishCompletedEvidence, SynchronizeCompletedEvidence
<1>5. Shaped
  BY <1>1, <1>4, PreparationShaped, RejectedShaped, ActiveShaped,
     ActiveSynchronizationShaped, CompletionShaped, UnrecoveredShaped, RecoveryShaped
     DEF FreshNext, ActivePhase, Recovery
<1>6. StageMoves
  BY <1>1, <1>5, StageFollows DEF Shaped, Quiet, Adding
<1> QED BY <1>1, <1>5, <1>6 DEF Walk, Shaped

----------------------------------------------------------------------------
\* So have the steps of a resumed session: preparation, ...
LEMMA ResumedPreparationShaped ==
  ASSUME Ended, session = "resumed",
         \/ ReplayFailedCapture \/ ResumeCapture \/ ResumePayloads
         \/ ResumeIncomingSynchronization \/ ResumeRecoverySynchronization
  PROVE  Shaped
<1> USE DEF Early, Forward, Recovering, InPreparation, InMutation, Completing, Shaped
<1>1. pc \notin {"over", "crashed"} /\ attempt' = attempt
  BY DEF ReplayFailedCapture, ResumeCapture, ResumePayloads,
         ResumeIncomingSynchronization, ResumeRecoverySynchronization,
         ResumeSynchronization
<1>2. refused = "none" /\ receipt = {}
  BY <1>1 DEF Ended
<1>3. CASE ReplayFailedCapture
  <2>1. pc = "captures" /\ pc' = "over" /\ facts' = facts
        /\ refused' # "active_interrupted_application"
    BY <1>2, <1>3 DEF ReplayFailedCapture, FailPreparation, Fail, Reject
  <2> QED BY <1>1, <2>1 DEF Quiet, QuietMoves
<1>4. CASE ResumeCapture
  <2> DEFINE p == Lowest(Left("capture_old_object", Captures))
  <2>1. p \in Captures /\ ~Recorded("capture_old_object", p) /\ p \in Paths
    BY <1>4, NextPath, PlanPaths DEF ResumeCapture, Left
  <2> HIDE DEF p
  <2>2. PICK fact \in Operated, exact \in BOOLEAN :
          Record("capture_old_object", p, fact, exact)
    BY <1>4 DEF ResumeCapture, p
  <2>3. pc = "captures" /\ pc' \in {"captures", "over"}
        /\ refused' # "active_interrupted_application"
    BY <1>2, <1>4 DEF ResumeCapture, FailPreparation, Fail, Continue, Reject
  <2>4. Records(Event("capture_old_object", p, fact, exact))
        /\ Planned(Event("capture_old_object", p, fact, exact))
    BY <2>1, <2>3 DEF Event, Planned, Global, Synchronizing, Records
  <2>5. Adding
    BY <2>1, <2>2, <2>4, OperationAdded DEF Operating
  <2> QED BY <1>1, <2>3, <2>5
<1>5. CASE ResumePayloads
  <2>1. PICK fact \in Operated :
          IF Recorded("stage_incoming_payload", NoPath) THEN UNCHANGED facts
          ELSE Record("stage_incoming_payload", NoPath, fact, FALSE)
    BY <1>5 DEF ResumePayloads
  <2>2. pc = "payloads" /\ pc' \in {"sync_incoming", "over"} /\ attempt.payload
        /\ refused' # "active_interrupted_application"
    BY <1>2, <1>5 DEF ResumePayloads, FailPreparation, Fail, Continue, Reject
  <2>3. CASE Recorded("stage_incoming_payload", NoPath)
    BY <1>1, <2>1, <2>2, <2>3 DEF Quiet, QuietMoves
  <2>4. CASE ~Recorded("stage_incoming_payload", NoPath)
    <3>1. Records(Event("stage_incoming_payload", NoPath, fact, FALSE))
          /\ Planned(Event("stage_incoming_payload", NoPath, fact, FALSE))
      BY <2>2 DEF Event, Planned, Global, Synchronizing, Records
    <3>2. Adding
      BY <2>1, <2>4, <3>1, OperationAdded DEF Operating
    <3> QED BY <1>1, <2>2, <3>2
  <2> QED BY <2>3, <2>4
<1>6. ASSUME NEW kind \in Synchronizing, NEW next,
             ResumeSynchronization(kind, next),
             pc \in {"sync_incoming", "sync_recovery"},
             next \in {"sync_recovery", "prepared"}, <<pc, next>> \in QuietMoves,
             pc' \in {next, "over"} => \A s : Records(Event(kind, NoPath, s, FALSE))
      PROVE  Shaped
  <2>1. PICK s \in Synchronized :
          IF Recorded(kind, NoPath) THEN UNCHANGED facts
          ELSE Record(kind, NoPath, s, FALSE)
    BY <1>6 DEF ResumeSynchronization
  <2>2. pc' \in {next, "over"} /\ refused' # "active_interrupted_application"
    BY <1>2, <1>6 DEF ResumeSynchronization, FailPreparation, Fail, Continue, Reject
  <2>3. CASE Recorded(kind, NoPath)
    <3>1. <<pc, "over">> \in QuietMoves
      BY <1>6 DEF QuietMoves
    <3> QED BY <1>1, <1>6, <2>1, <2>2, <2>3, <3>1 DEF Quiet
  <2>4. CASE ~Recorded(kind, NoPath)
    <3>1. Adding
      BY <1>6, <2>1, <2>2, <2>4, SynchronizationAdded
    <3> QED BY <1>1, <2>2, <3>1
  <2> QED BY <2>3, <2>4
<1>7. CASE ResumeIncomingSynchronization
  <2> DEFINE kind == "synchronize_incoming_staging"
  <2>1. ResumeSynchronization(kind, "sync_recovery") /\ pc = "sync_incoming"
    BY <1>7 DEF ResumeIncomingSynchronization
  <2>2. pc' \in {"sync_recovery", "over"} => \A s : Records(Event(kind, NoPath, s, FALSE))
    BY <2>1 DEF Records, Event
  <2>3. kind \in Synchronizing /\ <<pc, "sync_recovery">> \in QuietMoves
    BY <2>1 DEF Synchronizing, QuietMoves
  <2> HIDE DEF kind
  <2> QED BY <1>6, <2>1, <2>2, <2>3
<1>8. CASE ResumeRecoverySynchronization
  <2> DEFINE kind == "synchronize_recovery_staging"
  <2>1. ResumeSynchronization(kind, "prepared") /\ pc = "sync_recovery"
    BY <1>8 DEF ResumeRecoverySynchronization
  <2>2. pc' \in {"prepared", "over"} => \A s : Records(Event(kind, NoPath, s, FALSE))
    BY <2>1 DEF Records, Event
  <2>3. kind \in Synchronizing /\ <<pc, "prepared">> \in QuietMoves
    BY <2>1 DEF Synchronizing, QuietMoves
  <2> HIDE DEF kind
  <2> QED BY <1>6, <2>1, <2>2, <2>3
<1> QED BY <1>3, <1>4, <1>5, <1>7, <1>8

\* ... recovery, ...
LEMMA ResumedRecoveryShaped ==
  ASSUME Typed, Ended, Intents, session = "resumed",
         \/ ReplayUnsuccessful \/ ResumeRecover \/ ResumeRecoveredSynchronization
         \/ ResumeConclude
  PROVE  Shaped
<1> USE DEF Early, Forward, Recovering, InPreparation, InMutation, Completing, Shaped
<1>1. pc \in {"recover", "conclude"} /\ attempt' = attempt
  BY DEF ReplayUnsuccessful, ResumeRecover, ResumeRecoveredSynchronization,
         ResumeConclude, InRecovery
<1>2. refused = "none" /\ receipt = {}
  BY <1>1 DEF Ended
<1>3. CASE ReplayUnsuccessful
  <2>1. pc = "recover" /\ pc' = "conclude" /\ refused' # "active_interrupted_application"
    BY <1>2, <1>3 DEF ReplayUnsuccessful, InRecovery, Continue
  <2>2. CASE UNCHANGED facts
    BY <1>1, <2>1, <2>2 DEF Quiet, QuietMoves
  <2>3. CASE \E p \in LostRecovery : Assume("recover_active_object", p)
    <3>1. PICK p \in LostRecovery : Assume("recover_active_object", p)
      BY <2>3
    <3>2. p \in Candidates /\ p \in Actives /\ p \in Paths
          /\ <<"recover_active_object", p>> \in intended
      BY PlanPaths DEF LostRecovery
    <3>3. Record("recover_active_object", p, "indeterminate", FALSE)
      BY <3>1 DEF Assume, Record
    <3>4. ~Recorded("recover_active_object", p)
      <4>1. ASSUME NEW i \in DOMAIN facts, facts[i].kind = "recover_active_object",
                   facts[i].path = p
            PROVE  FALSE
        <5>1. Assumed(i)
          BY <3>2, <4>1 DEF Assumed
        <5> QED BY <2>1, <4>1, <5>1 DEF Intents, Publishing
      <4> QED BY <4>1, RecordedByEvent
    <3>5. Records(Event("recover_active_object", p, "indeterminate", FALSE))
          /\ Planned(Event("recover_active_object", p, "indeterminate", FALSE))
      BY <2>1, <3>2 DEF Event, Planned, Global, Synchronizing, Records
    <3>6. Adding
      BY <3>2, <3>3, <3>4, <3>5, OperationAdded DEF Operating, Operated
    <3> QED BY <1>1, <2>1, <3>6
  <2> QED BY <1>3, <2>2, <2>3 DEF ReplayUnsuccessful
<1>4. CASE ResumeRecover
  <2> DEFINE p == Highest(NextRecovery)
  <2>1. p \in Candidates /\ p \in Actives /\ ~Recorded("recover_active_object", p)
        /\ p \in Paths
    BY <1>4, NextPath, PlanPaths DEF ResumeRecover, NextRecovery, Left
  <2>2. <<"recover_active_object", p>> \notin intended
    BY <1>4, <2>1 DEF ResumeRecover, LostRecovery
  <2> HIDE DEF p
  <2>3. PICK s \in Operated : Record("recover_active_object", p, s, FALSE)
    BY <1>4 DEF ResumeRecover, p
  <2>4. pc = "recover" /\ pc' \in {"recover", "conclude"}
        /\ refused' # "active_interrupted_application"
    BY <1>2, <1>4 DEF ResumeRecover, InRecovery, Continue
  <2>5. Records(Event("recover_active_object", p, s, FALSE))
        /\ Planned(Event("recover_active_object", p, s, FALSE))
    BY <2>1, <2>2, <2>4 DEF Event, Planned, Global, Synchronizing, Records
  <2>6. Adding
    BY <2>1, <2>3, <2>5, OperationAdded DEF Operating
  <2> QED BY <1>1, <2>4, <2>6
<1>5. CASE ResumeRecoveredSynchronization
  <2>1. pc = "recover" /\ pc' = "conclude" /\ AllRecovered
        /\ refused' # "active_interrupted_application"
    BY <1>2, <1>5 DEF ResumeRecoveredSynchronization, InRecovery, Continue,
       AllCandidatesRecovered
  <2>2. PICK s \in Synchronized :
          \/ UNCHANGED facts
          \/ /\ ~Recorded("synchronize_recovered_namespace", NoPath) /\ ~RecoveredLost
             /\ Record("synchronize_recovered_namespace", NoPath, s, FALSE)
    BY <1>5 DEF ResumeRecoveredSynchronization
  <2>3. CASE UNCHANGED facts
    BY <1>1, <2>1, <2>3 DEF Quiet, QuietMoves
  <2>4. CASE /\ ~Recorded("synchronize_recovered_namespace", NoPath) /\ ~RecoveredLost
             /\ Record("synchronize_recovered_namespace", NoPath, s, FALSE)
    <3>1. Records(Event("synchronize_recovered_namespace", NoPath, s, FALSE))
      BY <2>1, <2>4 DEF Event, Records, RecoveredLost
    <3>2. Adding
      BY <2>4, <3>1, SynchronizationAdded DEF Synchronizing
    <3> QED BY <1>1, <2>1, <3>2
  <2> QED BY <2>2, <2>3, <2>4
<1>6. CASE ResumeConclude
  <2>1. facts' = facts /\ pc' = "over" /\ refused' # "active_interrupted_application"
    BY <1>2, <1>6 DEF ResumeConclude, SealRecoveryReceipt, Fail, Reject
  <2> QED BY <1>1, <2>1 DEF Quiet, QuietMoves
<1> QED BY <1>3, <1>4, <1>5, <1>6

\* ... and evidence that is recorded.
LEMMA ResumedCompletionShaped ==
  ASSUME Ended, session = "resumed",
         ReplayUnpublished \/ ReplayPublished \/ ReplayEvidenceSynchronization
  PROVE  Shaped
<1> USE DEF Early, Forward, Recovering, InPreparation, InMutation, Completing, Shaped
<1>1. pc \in Completing /\ attempt' = attempt
  BY DEF ReplayUnpublished, ReplayPublished, ReplayEvidenceSynchronization,
         ResumingEvidence
<1>2. refused = "none" /\ receipt = {}
  BY <1>1 DEF Ended
<1>3. CASE ReplayUnpublished
  BY <1>1, <1>3 DEF ReplayUnpublished, ResumingEvidence, Reject, Quiet, QuietMoves
<1>4. CASE ReplayPublished
  <2>1. pc = "publish_evidence" /\ pc' \in {"sync_evidence", "resync_evidence", "over"}
        /\ facts' = facts /\ refused' # "active_interrupted_application"
    BY <1>2, <1>4 DEF ReplayPublished, ResumingEvidence, FailEvidence, Fail, Continue,
       Reject
  <2> QED BY <1>1, <2>1 DEF Quiet, QuietMoves
<1>5. CASE ReplayEvidenceSynchronization
  <2>1. pc \in {"sync_evidence", "resync_evidence"} /\ pc' = "over"
        /\ refused' # "active_interrupted_application"
    BY <1>2, <1>5 DEF ReplayEvidenceSynchronization, FailEvidence, Complete, Fail, Reject
  <2>2. PICK s \in Synchronized :
          \/ UNCHANGED facts
          \/ /\ ~Recorded("synchronize_completed_evidence", NoPath)
             /\ Record("synchronize_completed_evidence", NoPath, s, FALSE)
    BY <1>5 DEF ReplayEvidenceSynchronization, ResumingEvidence
  <2>3. CASE UNCHANGED facts
    BY <1>1, <2>1, <2>3 DEF Quiet, QuietMoves
  <2>4. CASE /\ ~Recorded("synchronize_completed_evidence", NoPath)
             /\ Record("synchronize_completed_evidence", NoPath, s, FALSE)
    <3>1. Records(Event("synchronize_completed_evidence", NoPath, s, FALSE))
      BY <2>1 DEF Event, Records
    <3>2. Adding
      BY <2>4, <3>1, SynchronizationAdded DEF Synchronizing
    <3> QED BY <1>1, <2>1, <3>2
  <2> QED BY <2>2, <2>3, <2>4
<1> QED BY <1>3, <1>4, <1>5

\* So does one of a resumed session.
LEMMA ResumedWalk ==
  ASSUME Typed, Ended, Staged, Ahead, Intents, ResumedStep
  PROVE  Walk
<1>1. session = "resumed" /\ (CommonStep \/ ResumedPhase) /\ Track
      /\ UNCHANGED <<session, intended, crashes>>
  BY DEF ResumedStep, Journaling
<1>2. NoPayloads \/ Prepared \/ CapturesDone => Shaped
  <2> USE DEF Early, Forward, Recovering, InPreparation, InMutation, Completing, Shaped
  <2>1. CASE NoPayloads \/ CapturesDone
    BY <2>1 DEF NoPayloads, CapturesDone, HandOver, Quiet, QuietMoves, Ended
  <2>2. CASE Prepared
    BY <2>2 DEF Prepared, HandOver, Reject, Quiet, QuietMoves, Ended
  <2> QED BY <2>1, <2>2
<1>3. Shaped
  BY <1>1, <1>2, RejectedShaped, ActiveShaped,
     ActiveSynchronizationShaped, CompletionShaped, UnrecoveredShaped,
     ResumedPreparationShaped, ResumedRecoveryShaped, ResumedCompletionShaped
     DEF CommonStep, ResumedPhase
<1>4. StageMoves
  BY <1>1, <1>3, StageFollows DEF Shaped, Quiet, Adding
<1> QED BY <1>1, <1>3, <1>4 DEF Walk, Shaped

----------------------------------------------------------------------------
(***************************************************************************)
(* The shape of a restart and of a crash.                                  *)
(***************************************************************************)
Lost(kind, p) == Event(kind, p, "indeterminate", FALSE)

\* A preparation that is gone on with, or refused.
Reprepares ==
  stage = "preparing" /\ stage' = stage /\ facts' = facts /\ pc' \in {"captures", "over"}

\* Rejected objects that were not published.
Unpublished ==
  /\ stage # "preparing" /\ stage' = stage /\ pc' = "over"
  /\ \/ facts' = facts
     \/ \E p \in LostRejected : facts' = <<Lost("publish_rejected_object", p)>> \o facts

\* Execution that goes on.
Proceeds ==
  /\ stage # "preparing" /\ stage' = stage /\ facts' = facts
  /\ LostRejected = {} /\ ~RequiresRecovery
  /\ pc' \in InMutation
  /\ ~Unrecorded("synchronize_active_namespace") => pc' = "active_mutated"
  /\ ~Unrecorded("synchronize_rejected_store") => pc' # "rejected"
  /\ pc' = "active_mutated" => Recorded("synchronize_active_namespace", NoPath)

\* Execution that was interrupted.
Interrupts ==
  /\ stage # "preparing" /\ stage' \in {stage, "recovery"} /\ LostRejected = {}
  /\ pc' \in {"recover", "over"}
  /\ \/ LostActive = {} /\ facts' = facts
     \/ \E p \in LostActive : facts' = <<Lost("publish_active_object", p)>> \o facts

Restarting ==
  /\ pc = "crashed" /\ session' = "resumed" /\ UNCHANGED <<attempt, intended>>
  /\ Reprepares \/ Unpublished \/ Proceeds \/ Interrupts

\* A restart has this shape.
LEMMA RestartShaped ==
  ASSUME Typed, Ended, Staged, Intents, Mutated, Restart
  PROVE  Restarting
<1> USE DEF Early, Forward, Recovering, InPreparation, InMutation, Completing
<1>1. pc = "crashed" /\ session' = "resumed" /\ UNCHANGED <<attempt, intended>>
  BY DEF Restart, RefuseResumed, ResumePreparing, ReplayFailedRejected, ResumeForward,
         ReplayActiveSynchronization, ResumeInterrupted, Restarted
<1>2. refused = "none" /\ receipt = {}
  BY <1>1 DEF Ended
<1>3. CASE RefuseResumed \/ ResumePreparing
  <2>1. Reprepares
    BY <1>2, <1>3 DEF RefuseResumed, ResumePreparing, Restarted, FailPreparation, Fail,
       Reject, Reprepares
  <2> QED BY <1>1, <2>1 DEF Restarting
<1>4. CASE ReplayFailedRejected
  <2>1. stage # "preparing" /\ stage' = stage
    BY <1>4 DEF ReplayFailedRejected, Restarted, PastPreparation
  <2>2. pc' = "over"
    BY <1>4 DEF ReplayFailedRejected, FailRejected, Fail, Reject
  <2>3. \/ facts' = facts
        \/ \E p \in LostRejected : facts' = <<Lost("publish_rejected_object", p)>> \o facts
    BY <1>4 DEF ReplayFailedRejected, Assume, Lost, Event
  <2>4. Unpublished
    BY <2>1, <2>2, <2>3 DEF Unpublished
  <2> QED BY <1>1, <2>4 DEF Restarting
<1>5. CASE ResumeForward
  <2>1. /\ stage # "preparing" /\ stage' = stage /\ facts' = facts
        /\ LostRejected = {} /\ ~RequiresRecovery
        /\ pc' \in InMutation
        /\ Recorded("synchronize_active_namespace", NoPath) => pc' = "active_mutated"
        /\ Recorded("synchronize_rejected_store", NoPath) => pc' # "rejected"
        /\ pc' = "active_mutated" => Recorded("synchronize_active_namespace", NoPath)
    BY <1>5 DEF ResumeForward, Restarted, PastPreparation, RejectedFails
  <2>2. \A kind \in Synchronizing : ~Unrecorded(kind) => Recorded(kind, NoPath)
    BY RecordedByEvent DEF Unrecorded, Staged, Planned, Global
  <2>3. Proceeds
    BY <2>1, <2>2 DEF Proceeds, Synchronizing
  <2> QED BY <1>1, <2>3 DEF Restarting
<1>6. CASE ReplayActiveSynchronization
  <2>1. /\ stage # "preparing" /\ stage' \in {stage, "recovery"} /\ facts' = facts
        /\ LostRejected = {} /\ ~RequiresRecovery
        /\ pc' \in {"recover", "over"}
    BY <1>6 DEF ReplayActiveSynchronization, Restarted, PastPreparation, RejectedFails,
       Interrupt, Reject
  <2>2. stage \in {"mutating", "visible"}
    BY <1>1, <2>1 DEF Typed, Staged, RequiresRecovery
  <2>3. LostActive = {}
    BY <2>1, <2>2 DEF RequiresRecovery, Mutated, AllActive, LostActive
  <2>4. Interrupts
    BY <2>1, <2>3 DEF Interrupts
  <2> QED BY <1>1, <2>4 DEF Restarting
<1>7. CASE ResumeInterrupted
  <2>1. /\ stage # "preparing" /\ stage' \in {stage, "recovery"} /\ LostRejected = {}
        /\ pc' \in {"recover", "over"}
    BY <1>7 DEF ResumeInterrupted, Restarted, PastPreparation, RejectedFails,
       Interrupt, Reject
  <2>2. \/ LostActive = {} /\ facts' = facts
        \/ \E p \in LostActive : facts' = <<Lost("publish_active_object", p)>> \o facts
    BY <1>7 DEF ResumeInterrupted, Assume, Lost, Event
  <2>3. Interrupts
    BY <2>1, <2>2 DEF Interrupts
  <2> QED BY <1>1, <2>3 DEF Restarting
<1> QED BY <1>3, <1>4, <1>5, <1>6, <1>7 DEF Restart

\* A crash, and the intents that are published just before it.
Crashing ==
  /\ pc # "crashed" /\ pc' = "crashed" /\ facts' = Durable
  /\ UNCHANGED <<attempt, session>>
  /\ stage # "external" /\ stage' \in {stage, "recovery"}
  /\ stage' # stage => pc = "recover"
  /\ \/ intended' = intended
     \/ \E e \in Intent :
          /\ intended' = intended \cup {e}
          /\ ~Recorded(e[1], e[2])
          /\ \/ e[1] = "publish_rejected_object" /\ pc = "rejected"
             \/ e[1] = "publish_active_object" /\ pc = "active"
             \/ /\ e[1] = "recover_active_object" /\ pc = "recover"
                /\ stage' = "recovery"
             \/ /\ e[1] = "synchronize_recovered_namespace" /\ pc = "recover"
                /\ AllRecovered /\ stage' = "recovery"

\* What a crash does to the journal.
LEMMA CrashShaped ==
  ASSUME Crash
  PROVE  Crashing
<1>1. PICK s \in CrashStages, i \in {{}} \cup {{e} : e \in NextIntents} :
         /\ stage' = IF \E e \in i : e[1] \in {"recover_active_object",
                                               "synchronize_recovered_namespace"}
                     THEN "recovery" ELSE s
         /\ intended' = intended \cup i
  BY DEF Crash
<1>2. s \in {stage, "recovery"} /\ (s # stage => pc = "recover")
  BY DEF CrashStages
<1>3. ASSUME NEW e \in NextIntents
      PROVE  /\ e \in Intent /\ ~Recorded(e[1], e[2])
             /\ \/ e[1] = "publish_rejected_object" /\ pc = "rejected"
                \/ e[1] = "publish_active_object" /\ pc = "active"
                \/ e[1] = "recover_active_object" /\ pc = "recover"
                \/ /\ e[1] = "synchronize_recovered_namespace" /\ pc = "recover"
                   /\ AllRecovered
  <2>1. \/ /\ pc = "rejected" /\ Left("publish_rejected_object", Rejecteds) # {}
           /\ e = <<"publish_rejected_object",
                    Lowest(Left("publish_rejected_object", Rejecteds))>>
        \/ /\ pc = "active" /\ Left("publish_active_object", Actives) # {}
           /\ e = <<"publish_active_object",
                    Lowest(Left("publish_active_object", Actives))>>
        \/ /\ pc = "recover" /\ NextRecovery # {}
           /\ e = <<"recover_active_object", Highest(NextRecovery)>>
        \/ /\ pc = "recover" /\ AllRecovered
           /\ ~Recorded("synchronize_recovered_namespace", NoPath)
           /\ e = <<"synchronize_recovered_namespace", NoPath>>
    BY <1>3 DEF NextIntents, AllCandidatesRecovered
  <2>2. \A kind, S : S \subseteq Paths /\ Left(kind, S) # {} =>
          /\ Lowest(Left(kind, S)) \in S /\ ~Recorded(kind, Lowest(Left(kind, S)))
          /\ Highest(Left(kind, S)) \in S /\ ~Recorded(kind, Highest(Left(kind, S)))
    <3>1. \A kind, S : S \subseteq Paths => Left(kind, S) \subseteq Paths
      BY DEF Left
    <3>2. \A kind, S : S \subseteq Paths /\ Left(kind, S) # {} =>
            Lowest(Left(kind, S)) \in Left(kind, S) /\ Highest(Left(kind, S)) \in Left(kind, S)
      BY <3>1, NextPath
    <3>3. \A kind, S : \A p \in Left(kind, S) : p \in S /\ ~Recorded(kind, p)
      BY DEF Left
    <3> QED BY <3>2, <3>3
  <2>3. Candidates \subseteq Paths /\ Candidates \subseteq Actives
    BY PlanPaths
  <2>4. /\ \A p \in Rejecteds : <<"publish_rejected_object", p>> \in Intent
        /\ \A p \in Actives : <<"publish_active_object", p>> \in Intent
                             /\ <<"recover_active_object", p>> \in Intent
        /\ <<"synchronize_recovered_namespace", NoPath>> \in Intent
    BY DEF Intent
  <2>5. CASE pc = "rejected"
    <3> DEFINE p == Lowest(Left("publish_rejected_object", Rejecteds))
    <3>1. e = <<"publish_rejected_object", p>> /\ Left("publish_rejected_object", Rejecteds) # {}
      BY <2>1, <2>5
    <3>2. p \in Rejecteds /\ ~Recorded("publish_rejected_object", p)
      BY <2>2, <3>1, PlanPaths
    <3> HIDE DEF p
    <3> QED BY <2>4, <2>5, <3>1, <3>2
  <2>6. CASE pc = "active"
    <3> DEFINE p == Lowest(Left("publish_active_object", Actives))
    <3>1. e = <<"publish_active_object", p>> /\ Left("publish_active_object", Actives) # {}
      BY <2>1, <2>6
    <3>2. p \in Actives /\ ~Recorded("publish_active_object", p)
      BY <2>2, <3>1, PlanPaths
    <3> HIDE DEF p
    <3> QED BY <2>4, <2>6, <3>1, <3>2
  <2>7. CASE pc = "recover" /\ NextRecovery # {} /\ e = <<"recover_active_object", Highest(NextRecovery)>>
    <3> DEFINE p == Highest(NextRecovery)
    <3>1. p \in Candidates /\ ~Recorded("recover_active_object", p)
      BY <2>2, <2>3, <2>7 DEF NextRecovery
    <3> HIDE DEF p
    <3>2. e = <<"recover_active_object", p>>
      BY <2>7 DEF p
    <3>3. pc = "recover" /\ p \in Actives
      BY <2>3, <2>7, <3>1
    <3>4. e \in Intent /\ e[1] = "recover_active_object" /\ e[2] = p
      BY <2>4, <3>2, <3>3
    <3> QED BY <3>1, <3>3, <3>4
  <2>8. CASE /\ pc = "recover" /\ AllRecovered
             /\ ~Recorded("synchronize_recovered_namespace", NoPath)
             /\ e = <<"synchronize_recovered_namespace", NoPath>>
    BY <2>4, <2>8
  <2> QED BY <2>1, <2>5, <2>6, <2>7, <2>8
<1>4. i = {} \/ \E e \in NextIntents : i = {e}
  BY <1>1
<1>5. pc # "crashed" /\ pc' = "crashed" /\ facts' = Durable /\ stage # "external"
      /\ UNCHANGED <<attempt, session>>
  BY DEF Crash
<1>6. CASE i = {}
  BY <1>1, <1>2, <1>5, <1>6 DEF Crashing
<1>7. CASE \E e \in NextIntents : i = {e}
  <2>1. PICK e \in NextIntents : i = {e}
    BY <1>7
  <2>2. stage' = IF e[1] \in {"recover_active_object", "synchronize_recovered_namespace"}
                 THEN "recovery" ELSE s
    BY <1>1, <2>1
  <2> QED BY <1>1, <1>2, <1>3, <1>5, <2>1, <2>2 DEF Crashing
<1> QED BY <1>4, <1>6, <1>7

----------------------------------------------------------------------------
(***************************************************************************)
(* Steps between crashes keep the invariant.                               *)
(***************************************************************************)
Positions == Early \cup Forward \cup Recovering \cup {"over", "crashed"}

\* Without an event nothing that is read off the journal changes.
LEMMA SameFacts ==
  ASSUME facts' = facts, attempt' = attempt
  PROVE  /\ \A kind, p : FactsOf(kind, p)' = FactsOf(kind, p)
         /\ \A kind, p : Recorded(kind, p)' <=> Recorded(kind, p)
         /\ \A kind : Unrecorded(kind)' <=> Unrecorded(kind)
         /\ Captures' = Captures /\ Rejecteds' = Rejecteds /\ Actives' = Actives
         /\ Left("capture_old_object", Captures)' = Left("capture_old_object", Captures)
         /\ Left("publish_active_object", Actives)' = Left("publish_active_object", Actives)
         /\ Candidates' = Candidates
         /\ \A f : Planned(f)' <=> Planned(f)
         /\ \A p : Recovered(p)' <=> Recovered(p)
<1>1. /\ \A kind, p : FactsOf(kind, p)' = FactsOf(kind, p)
      /\ \A kind, p : Recorded(kind, p)' <=> Recorded(kind, p)
      /\ \A kind : Unrecorded(kind)' <=> Unrecorded(kind)
  BY DEF FactsOf, Recorded, Unrecorded
<1>2. /\ Left("capture_old_object", Captures)' = Left("capture_old_object", Captures)
      /\ Left("publish_active_object", Actives)' = Left("publish_active_object", Actives)
      /\ Candidates' = Candidates
      /\ \A p : Recovered(p)' <=> Recovered(p)
  BY <1>1, SamePlan DEF Left, Candidates, Changed, Recovered
<1> QED BY <1>1, <1>2, SamePlan

\* The positions a step leads to are positions, and follow the stage.
LEMMA WalkPositions ==
  ASSUME Typed, Staged, Walk
  PROVE  /\ pc \in Early \cup Forward \cup Recovering
         /\ pc' \in Early \cup Forward \cup Recovering \cup {"over"}
         /\ stage' \in {"preparing", "mutating", "visible", "recovery", "external"}
         /\ (pc \in Early => stage = "preparing")
         /\ (pc' \in Early => stage' = "preparing" /\ pc \in Early)
         /\ (pc' \in InMutation => stage' \in {"mutating", "visible"}
                                /\ (stage' = "visible" => stage = "visible"))
         /\ (pc' \in Completing => stage' = "visible")
         /\ (pc' \in Recovering => stage' # "preparing")
         /\ (stage' \in {"recovery", "external"} => pc' \in Recovering \cup {"over"})
         /\ (stage' = "preparing" => stage = "preparing")
         /\ (stage \in {"recovery", "external"} => stage' \in {"recovery", "external"})
         /\ (pc = "recover" /\ pc' # "over" => stage' = "recovery")
         /\ (stage' = "visible" => stage = "visible" \/ pc' = "observe")
         /\ (stage = "preparing" => pc \in Early)
         /\ (pc \in Forward => stage \in {"mutating", "visible"})
         /\ (pc' \in Forward => pc \in Forward \/ (pc' = "rejected" /\ stage = "preparing"))
<1> USE DEF Early, Forward, Recovering, InPreparation, InMutation, Completing
<1>1. pc \in Early \cup Forward \cup Recovering
  BY DEF Typed, Walk
<1>2. <<pc, pc'>> \in QuietMoves \/ \E f \in Fact : Records(f)
  BY DEF Walk, Quiet, Adding
<1>3. /\ pc' \in Early \cup Forward \cup Recovering \cup {"over"}
      /\ (pc' \in Early => pc \in Early)
      /\ (pc' \in InMutation => pc \in InMutation \/ (pc \in Early /\ pc' = "rejected"))
      /\ (pc' \in Recovering => pc \in InMutation \cup Completing \cup Recovering)
      /\ (pc \in Recovering => pc' \in Recovering \cup {"over"})
      /\ (pc' \in Completing => pc \in InMutation \cup Completing)
      /\ (pc' \in Completing /\ pc \in InMutation => pc' = "observe")
  BY <1>2 DEF QuietMoves, Records
<1>4. StageMoves
  BY DEF Walk
<1>5. /\ (pc \in Early => stage = "preparing")
      /\ (pc \in InMutation => stage \in {"mutating", "visible"})
      /\ (pc \in Completing => stage = "visible")
      /\ (pc \in Recovering => stage # "preparing")
      /\ (stage \in {"recovery", "external"} => pc \in Recovering)
      /\ stage \in {"preparing", "mutating", "visible", "recovery", "external"}
  BY <1>1 DEF Staged, Typed
<1>6. stage' \in {"preparing", "mutating", "visible", "recovery", "external"}
  BY <1>1, <1>3, <1>4, <1>5 DEF StageMoves
<1>7. /\ (pc' \in Early => stage' = "preparing")
      /\ (pc' \in InMutation => stage' \in {"mutating", "visible"}
                                /\ (stage' = "visible" => stage = "visible"))
      /\ (pc' \in Completing => stage' = "visible")
      /\ (pc' \in Recovering => stage' # "preparing")
      /\ (pc = "recover" /\ pc' # "over" => stage' = "recovery")
  BY <1>1, <1>3, <1>4, <1>5 DEF StageMoves
<1>8. (stage' \in {"recovery", "external"} => pc' \in Recovering \cup {"over"})
  BY <1>3, <1>7
<1>9. /\ (stage' = "preparing" => stage = "preparing")
      /\ (stage \in {"recovery", "external"} => stage' \in {"recovery", "external"})
      /\ (stage' = "visible" => stage = "visible" \/ pc' = "observe")
  BY <1>1, <1>3, <1>4, <1>5 DEF StageMoves
<1>10. /\ (stage = "preparing" => pc \in Early)
       /\ (pc \in Forward => stage \in {"mutating", "visible"})
  BY <1>1, <1>5
<1>11. (pc' \in Forward => pc \in Forward \/ (pc' = "rejected" /\ stage = "preparing"))
  <2>1. pc' \in InMutation => pc \in Forward \/ (pc' = "rejected" /\ stage = "preparing")
    BY <1>3, <1>5
  <2>2. pc' \in Completing => pc \in Forward
    BY <1>3
  <2> HIDE DEF InMutation, Completing
  <2> QED BY <2>1, <2>2
<1> HIDE DEF Early, Forward, Recovering, InPreparation, InMutation, Completing
<1> QED BY <1>1, <1>3, <1>5, <1>6, <1>7, <1>8, <1>9, <1>10, <1>11

\* What the stage says has not been recorded.
LEMMA StageUnrecorded ==
  ASSUME Staged
  PROVE  /\ stage = "preparing" =>
              \A kind \in {"synchronize_rejected_store", "synchronize_active_namespace",
                          "publish_completed_evidence", "synchronize_completed_evidence",
                          "publish_rejected_object", "publish_active_object"} :
                Unrecorded(kind)
         /\ stage \notin {"recovery", "external"} =>
              Unrecorded("synchronize_recovered_namespace")
                /\ Unrecorded("recover_active_object")
BY DEF Staged, Unrecorded, Preparing

\* Steps without an event.
LEMMA QuietKeeps ==
  ASSUME Typed, Once, Staged, Ahead, Intents, Gathered, Mutated, Reversed,
         Walk, Quiet
  PROVE  /\ Once' /\ Staged' /\ Ahead' /\ Intents' /\ Gathered' /\ Mutated' /\ Reversed'
<1> USE DEF Early, Forward, Recovering, InPreparation, InMutation, Completing
<1>1. facts' = facts /\ UNCHANGED <<attempt, session, intended>>
      /\ pc \notin {"over", "crashed"} /\ <<pc, pc'>> \in QuietMoves
  BY DEF Walk, Quiet
<1>2. /\ \A kind, p : FactsOf(kind, p)' = FactsOf(kind, p)
      /\ \A kind, p : Recorded(kind, p)' <=> Recorded(kind, p)
      /\ \A kind : Unrecorded(kind)' <=> Unrecorded(kind)
      /\ Captures' = Captures /\ Rejecteds' = Rejecteds /\ Actives' = Actives
      /\ Left("capture_old_object", Captures)' = Left("capture_old_object", Captures)
      /\ Candidates' = Candidates
      /\ \A f : Planned(f)' <=> Planned(f)
      /\ \A p : Recovered(p)' <=> Recovered(p)
  BY <1>1, SameFacts
<1>3. Once'
  BY <1>1 DEF Once
<1>4. Staged'
  BY <1>1, <1>2, WalkPositions DEF Staged
<1>5. Ahead'
  <2>1. pc' = "rejected" => Unrecorded("synchronize_rejected_store")
    BY <1>1, WalkPositions, StageUnrecorded DEF QuietMoves
  <2>2. pc' \in {"rejected", "rejected_published", "active"} =>
          Unrecorded("synchronize_active_namespace")
    BY <1>1, WalkPositions, StageUnrecorded DEF QuietMoves, Ahead
  <2>3. ASSUME session = "fresh"
        PROVE  /\ pc' \in {"admit", "captures", "payloads"} =>
                    Unrecorded("stage_incoming_payload")
               /\ pc' \in {"admit", "captures", "payloads", "sync_incoming"} =>
                    Unrecorded("synchronize_incoming_staging")
               /\ pc' \in {"admit", "captures", "payloads", "sync_incoming",
                           "sync_recovery"} =>
                    Unrecorded("synchronize_recovery_staging")
               /\ pc' \in Early \cup InMutation \cup {"observe", "publish_evidence"} =>
                    Unrecorded("publish_completed_evidence")
               /\ pc' \in Early \cup Forward => Unrecorded("synchronize_completed_evidence")
               /\ pc' \in Early \cup Forward \cup {"recover"} =>
                    Unrecorded("synchronize_recovered_namespace")
    <3>1. pc' = "sync_incoming" => Recorded("stage_incoming_payload", NoPath)
                                  /\ pc = "payloads"
      BY <1>1 DEF Quiet, QuietMoves
    <3>2. pc' # "sync_incoming"
      BY <2>3, <3>1, UnrecordedKind DEF Ahead
    <3> QED BY <1>1, <2>3, <3>2 DEF QuietMoves, Ahead
  <2> QED BY <1>1, <1>2, <2>1, <2>2, <2>3 DEF Ahead
<1>6. LostRejected' = LostRejected /\ LostActive' = LostActive
      /\ \A i : Assumed(i)' <=> Assumed(i)
  BY <1>1, <1>2 DEF LostRejected, LostActive, Assumed
<1>7. Intents'
  <2>0. facts' = facts /\ intended' = intended /\ session' = session
        /\ LostRejected' = LostRejected /\ LostActive' = LostActive
        /\ \A kind, p : Recorded(kind, p)' <=> Recorded(kind, p)
    BY <1>1, <1>2, <1>6
  <2>1. /\ pc' \in Early \cup Forward => intended = {}
        /\ session = "fresh" /\ pc' \in Recovering => intended = {}
        /\ stage' = "preparing" => intended = {}
        /\ (LostRejected # {} => pc' \in {"over", "crashed"})
        /\ pc' # "crashed"
        /\ pc' = "recover" => LostActive = {}
        /\ pc' \in Recovering => pc \in Recovering \/ intended = {}
        /\ (\E e \in intended : e[1] \in {"recover_active_object",
                                          "synchronize_recovered_namespace"})
             => stage' \in {"recovery", "external"}
    BY <1>1, WalkPositions DEF Intents, QuietMoves, LostActive
  <2>2. ASSUME NEW i \in DOMAIN facts, Assumed(i)
        PROVE  /\ facts[i].fact = "indeterminate"
               /\ \/ i = 1 /\ facts[i].kind \in Publishing
                  \/ i = Len(facts) /\ facts[i].kind = "recover_active_object"
                     /\ pc' # "recover"
    <3>1. intended # {}
      BY <2>2 DEF Assumed
    <3>2. pc' # "recover"
      BY <1>1, <3>1 DEF Intents, QuietMoves
    <3> QED BY <2>2, <3>2 DEF Intents
  <2>3. \A p, q \in LostActive : p = q
    BY DEF Intents
  <2>4. pc' \in Recovering => \A p \in LostActive : Recorded("publish_active_object", p)
    BY <2>1 DEF Intents, LostActive
  <2> QED BY <1>6, <2>0, <2>1, <2>2, <2>3, <2>4 DEF Intents
<1>8. Gathered'
  BY <1>1, <1>2 DEF Gathered, QuietMoves, Quiet
<1>9. AllActive' <=> AllActive
  BY <1>1, <1>2 DEF AllActive
<1>10. Mutated'
  <2>1. pc' = "active_mutated" => AllActive
    BY <1>1 DEF QuietMoves
  <2>2. stage' = "visible" => AllActive
    <3>1. CASE stage = "visible"
      BY <3>1 DEF Mutated
    <3>2. CASE pc' = "observe" /\ pc = "active_mutated"
      BY <3>2 DEF Mutated
    <3>3. CASE pc' = "observe" /\ pc = "active"
      <4>1. Left("publish_active_object", Actives) = {} /\ intended = {}
        BY <3>3 DEF Quiet, Intents
      <4>2. \A p \in Actives :
              FactsOf("publish_active_object", p) \cap {"failed", "indeterminate"} = {}
        BY <3>3 DEF Mutated
      <4> QED BY <4>1, <4>2 DEF AllActive, Left
    <3>4. pc' = "observe" => pc \in {"active", "active_mutated"}
      BY <1>1 DEF QuietMoves
    <3> QED BY <3>1, <3>2, <3>3, <3>4, WalkPositions
  <2>3. pc' \in Forward =>
          \A p \in Actives :
            FactsOf("publish_active_object", p) \cap {"failed", "indeterminate"} = {}
    <3>1. CASE pc \in Forward
      BY <3>1 DEF Mutated
    <3>2. CASE stage = "preparing"
      <4>1. \A p : FactsOf("publish_active_object", p) = {}
        BY <3>2, StageUnrecorded, UnrecordedKind DEF Recorded
      <4> QED BY <4>1
    <3> QED BY <3>1, <3>2, WalkPositions
  <2>4. ~Unrecorded("synchronize_active_namespace") => AllActive
    BY DEF Mutated
  <2> QED BY <1>2, <1>9, <2>1, <2>2, <2>3, <2>4 DEF Mutated
<1>11. Reversed'
  BY <1>1, <1>2, <1>6 DEF Reversed
<1> QED BY <1>3, <1>4, <1>5, <1>7, <1>8, <1>10, <1>11

\* Which event leads where, as far as positions and kinds go.
EventMoves ==
  {<<"capture_old_object", "captures", "captures">>,
   <<"stage_incoming_payload", "payloads", "sync_incoming">>,
   <<"synchronize_incoming_staging", "sync_incoming", "sync_recovery">>,
   <<"synchronize_recovery_staging", "sync_recovery", "prepared">>,
   <<"publish_rejected_object", "rejected", "rejected">>,
   <<"synchronize_rejected_store", "rejected", "rejected_published">>,
   <<"publish_active_object", "active", "active">>,
   <<"publish_active_object", "active", "recover">>,
   <<"synchronize_active_namespace", "active", "active_mutated">>,
   <<"synchronize_active_namespace", "active", "recover">>,
   <<"publish_completed_evidence", "publish_evidence", "sync_evidence">>,
   <<"recover_active_object", "recover", "recover">>,
   <<"recover_active_object", "recover", "conclude">>,
   <<"synchronize_recovered_namespace", "recover", "conclude">>,
   <<"capture_old_object", "captures", "over">>,
   <<"stage_incoming_payload", "payloads", "over">>,
   <<"synchronize_incoming_staging", "sync_incoming", "over">>,
   <<"synchronize_recovery_staging", "sync_recovery", "over">>,
   <<"publish_rejected_object", "rejected", "over">>,
   <<"synchronize_rejected_store", "rejected", "over">>,
   <<"publish_active_object", "active", "over">>,
   <<"synchronize_active_namespace", "active", "over">>,
   <<"publish_completed_evidence", "publish_evidence", "over">>,
   <<"synchronize_completed_evidence", "sync_evidence", "over">>,
   <<"synchronize_completed_evidence", "resync_evidence", "over">>}

\* Which event is recorded where, and where it leads.
LEMMA EventLeads ==
  ASSUME NEW f \in Fact, Records(f)
  PROVE  /\ <<f.kind, pc, pc'>> \in EventMoves
         /\ f.kind = "publish_active_object" /\ pc' = "active" =>
              f.fact \in {"completed", "conditional_retained"}
         /\ f.kind = "recover_active_object" =>
              /\ f.path \in Candidates
              /\ <<f.kind, f.path>> \in intended => f.fact = "indeterminate" /\ pc' = "conclude"
         /\ f.kind = "synchronize_recovered_namespace" =>
              AllRecovered /\ <<f.kind, f.path>> \notin intended
<1>1. \/ f.kind = "capture_old_object" /\ pc = "captures" /\ pc' \in {"captures", "over"}
      \/ f.kind = "stage_incoming_payload" /\ pc = "payloads"
           /\ pc' \in {"sync_incoming", "over"}
      \/ f.kind = "synchronize_incoming_staging" /\ pc = "sync_incoming"
           /\ pc' \in {"sync_recovery", "over"}
      \/ f.kind = "synchronize_recovery_staging" /\ pc = "sync_recovery"
           /\ pc' \in {"prepared", "over"}
      \/ f.kind = "publish_rejected_object" /\ pc = "rejected"
           /\ pc' \in {"rejected", "over"}
      \/ f.kind = "synchronize_rejected_store" /\ pc = "rejected"
           /\ pc' \in {"rejected_published", "over"}
      \/ f.kind = "publish_active_object" /\ pc = "active"
           /\ pc' \in {"active", "recover", "over"}
      \/ f.kind = "synchronize_active_namespace" /\ pc = "active"
           /\ pc' \in {"active_mutated", "recover", "over"}
      \/ f.kind = "publish_completed_evidence" /\ pc = "publish_evidence"
           /\ pc' \in {"sync_evidence", "over"}
      \/ f.kind = "synchronize_completed_evidence"
           /\ pc \in {"sync_evidence", "resync_evidence"} /\ pc' = "over"
      \/ f.kind = "recover_active_object" /\ pc = "recover" /\ pc' \in {"recover", "conclude"}
      \/ f.kind = "synchronize_recovered_namespace" /\ pc = "recover" /\ pc' = "conclude"
  BY DEF Records, Recovering
<1>2. <<f.kind, pc, pc'>> \in EventMoves
  BY <1>1 DEF EventMoves
<1>3. /\ f.kind = "publish_active_object" /\ pc' = "active" =>
           f.fact \in {"completed", "conditional_retained"}
      /\ f.kind = "recover_active_object" =>
           /\ f.path \in Candidates
           /\ <<f.kind, f.path>> \in intended => f.fact = "indeterminate" /\ pc' = "conclude"
      /\ f.kind = "synchronize_recovered_namespace" =>
           AllRecovered /\ <<f.kind, f.path>> \notin intended
  BY DEF Records
<1> QED BY <1>2, <1>3

\* Steps with one.
LEMMA AddingKeeps ==
  ASSUME Typed, Once, Staged, Ahead, Intents, Gathered, Mutated, Reversed,
         Walk, Adding
  PROVE  /\ facts' \in Seq(Fact)
         /\ Once' /\ Staged' /\ Ahead' /\ Intents' /\ Gathered' /\ Mutated' /\ Reversed'
<1>1. UNCHANGED <<attempt, session, intended>> /\ pc \notin {"over", "crashed"}
  BY DEF Walk
<1>2. PICK f \in Fact :
        facts' = Append(facts, f) /\ ~Recorded(f.kind, f.path) /\ Planned(f) /\ Records(f)
  BY DEF Adding
<1>3. facts \in Seq(Fact)
  BY DEF Typed
<1> DEFINE n == Len(facts) + 1
<1>4. /\ facts' \in Seq(Fact)
      /\ DOMAIN facts = 1 .. Len(facts) /\ Len(facts) \in Nat
      /\ DOMAIN facts' = 1 .. n /\ Len(facts') = n
      /\ \A i \in DOMAIN facts : facts'[i] = facts[i]
      /\ facts'[n] = f
      /\ \A kind, p : Recorded(kind, p)' <=>
           Recorded(kind, p) \/ (kind = f.kind /\ p = f.path)
      /\ \A kind, p, s : s \in FactsOf(kind, p)' <=>
           s \in FactsOf(kind, p)
             \/ (kind = f.kind /\ p = f.path /\ s = f.fact)
  BY <1>2, <1>3, Appended
<1>5. \A i : i \in DOMAIN facts' <=> i \in DOMAIN facts \/ i = n
  BY <1>4
<1>6. \A kind : Unrecorded(kind)' <=> (Unrecorded(kind) /\ f.kind # kind)
  BY <1>4, <1>5 DEF Unrecorded
<1>7. /\ Captures' = Captures /\ Rejecteds' = Rejecteds /\ Actives' = Actives
      /\ \A g : Planned(g)' <=> Planned(g)
      /\ LostRejected' = LostRejected /\ LostActive' = LostActive
  BY <1>1, SamePlan DEF LostRejected, LostActive
<1>8. \A i \in DOMAIN facts : ~(facts[i].kind = f.kind /\ facts[i].path = f.path)
  BY <1>2, RecordedByEvent
<1>9. Once'
  BY <1>4, <1>5, <1>8 DEF Once
<1>10. /\ f.kind \in {"capture_old_object", "stage_incoming_payload",
                      "synchronize_incoming_staging", "synchronize_recovery_staging"}
            <=> pc \in Early
       /\ f.kind \in {"recover_active_object", "synchronize_recovered_namespace"}
            <=> pc \in Recovering
       /\ pc \in Recovering => pc = "recover" /\ pc' # "over"
       /\ f.kind \in {"publish_active_object", "synchronize_active_namespace"} =>
            pc = "active" /\ pc \in Forward
       /\ f.kind = "publish_rejected_object" => f.path \in Rejecteds
       /\ f.kind \in {"publish_active_object", "recover_active_object"} =>
            f.path \in Actives
       /\ f.kind = "capture_old_object" => f.path \in Captures
       /\ f.kind = "stage_incoming_payload" => f.path = NoPath
       /\ f.kind \in Synchronizing => f.path = NoPath
       /\ f.kind = "synchronize_active_namespace" =>
            Left("publish_active_object", Actives) = {}
  BY <1>2 DEF Records, Planned, Global, Early, Forward, Recovering, InPreparation,
     InMutation, Completing
<1>18. <<f.kind, pc, pc'>> \in EventMoves
  BY <1>2, EventLeads
<1>11. Staged'
  <2>1. ASSUME NEW i \in DOMAIN facts'
        PROVE  /\ Planned(facts'[i])
               /\ stage' = "preparing" =>
                    facts'[i].kind \in Preparing \cup {"synchronize_incoming_staging",
                                                      "synchronize_recovery_staging"}
               /\ facts'[i].kind \in {"recover_active_object",
                                      "synchronize_recovered_namespace"} =>
                    stage' \in {"recovery", "external"}
    <3>1. CASE i = n
      <4>1. f.kind \in Preparing \cup {"synchronize_incoming_staging",
                                       "synchronize_recovery_staging"} <=> pc \in Early
        BY <1>10 DEF Preparing
      <4>2. stage' = "preparing" => pc \in Early
        BY WalkPositions
      <4>3. pc \in Recovering => stage' \in {"recovery", "external"}
        BY <1>10, WalkPositions
      <4> QED BY <1>2, <1>4, <1>10, <3>1, <4>1, <4>2, <4>3
    <3>2. CASE i \in DOMAIN facts
      BY <1>4, <3>2, WalkPositions DEF Staged
    <3> QED BY <1>5, <3>1, <3>2
  <2>2. /\ pc' \in Early => stage' = "preparing"
        /\ pc' \in InMutation => stage' \in {"mutating", "visible"}
        /\ pc' \in Completing => stage' = "visible"
        /\ pc' \in Recovering => stage' # "preparing"
        /\ pc' # "crashed"
        /\ stage' \in {"recovery", "external"} => pc' \in Recovering \cup {"over", "crashed"}
    BY <1>2, WalkPositions DEF Records, Recovering
  <2>3. \A g : Planned(g)' <=> Planned(g)
    BY <1>7
  <2> QED BY <1>7, <2>1, <2>2 DEF Staged
<1>12. Ahead'
  <2>1. /\ pc' = "rejected" => Unrecorded("synchronize_rejected_store")
                               /\ f.kind # "synchronize_rejected_store"
        /\ pc' \in {"rejected", "rejected_published", "active"} =>
             Unrecorded("synchronize_active_namespace")
               /\ f.kind # "synchronize_active_namespace"
    BY <1>18 DEF Ahead, EventMoves
  <2>2. ASSUME session = "fresh"
        PROVE  /\ pc' \in {"admit", "captures", "payloads"} =>
                    Unrecorded("stage_incoming_payload")
                      /\ f.kind # "stage_incoming_payload"
               /\ pc' \in {"admit", "captures", "payloads", "sync_incoming"} =>
                    Unrecorded("synchronize_incoming_staging")
                      /\ f.kind # "synchronize_incoming_staging"
               /\ pc' \in {"admit", "captures", "payloads", "sync_incoming",
                           "sync_recovery"} =>
                    Unrecorded("synchronize_recovery_staging")
                      /\ f.kind # "synchronize_recovery_staging"
    BY <1>18, <2>2 DEF Ahead, EventMoves
  <2>3. ASSUME session = "fresh"
        PROVE  /\ pc' \in Early \cup InMutation \cup {"observe", "publish_evidence"} =>
                    Unrecorded("publish_completed_evidence")
                      /\ f.kind # "publish_completed_evidence"
               /\ pc' \in Early \cup Forward => Unrecorded("synchronize_completed_evidence")
                                               /\ f.kind # "synchronize_completed_evidence"
               /\ pc' \in Early \cup Forward \cup {"recover"} =>
                    Unrecorded("synchronize_recovered_namespace")
                      /\ f.kind # "synchronize_recovered_namespace"
    BY <1>18, <2>3 DEF Ahead, EventMoves, Early, Forward, InPreparation, InMutation, Completing
  <2> QED BY <1>1, <1>6, <2>1, <2>2, <2>3 DEF Ahead
<1>13. Intents'
  <2>1. /\ pc' \in Early \cup Forward => pc \in Early \cup Forward
        /\ pc' \in Recovering => pc \in Recovering \/ intended = {}
        /\ pc' \in Recovering => pc = "recover" \/ LostActive = {}
        /\ session = "fresh" /\ pc' \in Recovering => intended = {}
        /\ pc \notin Recovering => intended = {}
        /\ LostRejected = {}
    <3>1. pc \in Recovering \/ intended = {}
      BY WalkPositions DEF Intents
    <3>2. pc' \in Early \cup Forward => pc \in Early \cup Forward
      BY WalkPositions
    <3>3. pc \in Recovering => pc = "recover"
      BY <1>10
    <3>4. LostRejected = {}
      BY <1>1 DEF Intents
    <3>5. intended = {} => LostActive = {}
      BY DEF LostActive
    <3>6. session = "fresh" => intended = {}
      BY <3>1 DEF Intents
    <3> QED BY <3>1, <3>2, <3>3, <3>4, <3>5, <3>6
  <2>2. ASSUME NEW i \in DOMAIN facts', <<facts'[i].kind, facts'[i].path>> \in intended
        PROVE  /\ facts'[i].fact = "indeterminate"
               /\ \/ i = 1 /\ facts'[i].kind \in Publishing
                  \/ i = Len(facts') /\ facts'[i].kind = "recover_active_object"
                     /\ pc' # "recover"
    <3>1. pc = "recover"
      BY <1>10, <2>1, <2>2 DEF Recovering
    <3>2. CASE i \in DOMAIN facts
      <4>1. Assumed(i)
        BY <1>4, <2>2, <3>2 DEF Assumed
      <4> QED BY <1>4, <3>1, <3>2, <4>1 DEF Intents
    <3>3. CASE i = n
      BY <1>2, <1>4, <2>2, <3>1, <3>3 DEF Records
    <3> QED BY <1>5, <3>2, <3>3
  <2>3. \A i : Assumed(i)' <=> <<facts'[i].kind, facts'[i].path>> \in intended
    BY <1>1 DEF Assumed
  <2>4. pc' \in Recovering => \A p \in LostActive : Recorded("publish_active_object", p)'
    BY <1>4, <2>1 DEF Intents, Recovering
  <2>5. /\ pc' \in Early \cup Forward => intended = {}
        /\ stage' = "preparing" => intended = {}
        /\ pc' # "crashed"
        /\ (\E e \in intended : e[1] \in {"recover_active_object",
                                          "synchronize_recovered_namespace"})
             => stage' \in {"recovery", "external"}
        /\ \A p, q \in LostActive : p = q
    BY <2>1, WalkPositions DEF Intents, Recovering, Early, Forward, InPreparation,
       InMutation, Completing
  <2> QED BY <1>1, <1>7, <2>1, <2>2, <2>3, <2>4, <2>5 DEF Intents
<1>14. Gathered'
  <2> DEFINE left == Left("capture_old_object", Captures)
             payload == Recorded("stage_incoming_payload", NoPath)
  <2>1. left' \subseteq left
    BY <1>4, <1>7 DEF Left
  <2>2. f.kind = "capture_old_object" => f.path \in left
    BY <1>2, <1>10 DEF Left
  <2>3. f.kind = "stage_incoming_payload" => ~payload
    BY <1>2, <1>10
  <2>4. pc' \in {"payloads", "sync_incoming", "sync_recovery", "prepared"} => left = {}
    BY <1>18 DEF EventMoves, Gathered
  <2>5. pc' = "sync_incoming" => payload'
    BY <1>4, <1>10, <1>18 DEF EventMoves
  <2>6. f.kind = "synchronize_recovery_staging" => left = {}
    BY <1>18 DEF EventMoves, Gathered
  <2>7. f.kind = "synchronize_incoming_staging" => payload
    BY <1>18 DEF EventMoves, Gathered
  <2>8. payload => payload'
    BY <1>4
  <2>9. ASSUME NEW i \in DOMAIN facts', NEW j \in DOMAIN facts',
               \/ /\ facts'[i].kind = "capture_old_object"
                  /\ facts'[j].kind = "synchronize_recovery_staging"
               \/ /\ facts'[i].kind = "stage_incoming_payload"
                  /\ facts'[j].kind = "synchronize_incoming_staging"
        PROVE  i < j
    <3>1. CASE i \in DOMAIN facts /\ j \in DOMAIN facts
      BY <1>4, <2>9, <3>1 DEF Gathered
    <3>2. CASE i \in DOMAIN facts /\ j = n
      BY <1>4, <3>2
    <3>3. CASE i = n /\ j \in DOMAIN facts
      BY <1>4, <2>2, <2>3, <2>9, <3>3 DEF Gathered, Unrecorded
    <3>4. CASE i = n /\ j = n
      BY <1>4, <2>9, <3>4
    <3> QED BY <1>5, <3>1, <3>2, <3>3, <3>4
  <2> HIDE DEF left, payload
  <2>10. /\ Gathered <=>
             /\ pc \in {"payloads", "sync_incoming", "sync_recovery", "prepared"} => left = {}
             /\ pc = "sync_incoming" => payload
             /\ ~Unrecorded("synchronize_recovery_staging") => left = {}
             /\ ~Unrecorded("synchronize_incoming_staging") => payload
             /\ \A i, j \in DOMAIN facts :
                  \/ /\ facts[i].kind = "capture_old_object"
                     /\ facts[j].kind = "synchronize_recovery_staging"
                  \/ /\ facts[i].kind = "stage_incoming_payload"
                     /\ facts[j].kind = "synchronize_incoming_staging"
                  => i < j
         /\ Gathered' <=>
             /\ pc' \in {"payloads", "sync_incoming", "sync_recovery", "prepared"} => left' = {}
             /\ pc' = "sync_incoming" => payload'
             /\ ~Unrecorded("synchronize_recovery_staging")' => left' = {}
             /\ ~Unrecorded("synchronize_incoming_staging")' => payload'
             /\ \A i, j \in DOMAIN facts' :
                  \/ /\ facts'[i].kind = "capture_old_object"
                     /\ facts'[j].kind = "synchronize_recovery_staging"
                  \/ /\ facts'[i].kind = "stage_incoming_payload"
                     /\ facts'[j].kind = "synchronize_incoming_staging"
                  => i < j
    BY DEF Gathered, left, payload
  <2> QED BY <1>6, <2>1, <2>4, <2>5, <2>6, <2>7, <2>8, <2>9, <2>10
<1>15. AllActive => AllActive' /\ f.kind # "publish_active_object"
  <2>1. AllActive => f.kind # "publish_active_object"
    BY <1>2, <1>10 DEF AllActive
  <2> QED BY <1>1, <1>4, <1>7, <2>1 DEF AllActive
<1>16. Mutated'
  <2>1. f.kind = "synchronize_active_namespace" => AllActive
    <3>1. SUFFICES ASSUME f.kind = "synchronize_active_namespace" PROVE AllActive
      OBVIOUS
    <3>2. pc = "active" /\ pc \in Forward /\ Left("publish_active_object", Actives) = {}
      BY <1>10, <3>1
    <3>3. intended = {} /\ \A p \in Actives :
            FactsOf("publish_active_object", p) \cap {"failed", "indeterminate"} = {}
      BY <3>2 DEF Intents, Mutated
    <3> QED BY <3>2, <3>3 DEF AllActive, Left
  <2>2. pc' = "active_mutated" => AllActive'
    BY <1>15, <1>18, <2>1 DEF EventMoves
  <2>3. stage' = "visible" => AllActive'
    BY <1>15, <1>18, WalkPositions DEF Mutated, EventMoves
  <2>4. ~Unrecorded("synchronize_active_namespace")' => AllActive'
    BY <1>6, <1>15, <2>1 DEF Mutated
  <2>5. ASSUME pc' \in Forward, NEW p \in Actives
        PROVE  "failed" \notin FactsOf("publish_active_object", p)'
               /\ "indeterminate" \notin FactsOf("publish_active_object", p)'
    <3>1. pc \in Forward
      BY <1>2, <2>5, WalkPositions DEF Records, Early, InPreparation
    <3>2. "failed" \notin FactsOf("publish_active_object", p)
          /\ "indeterminate" \notin FactsOf("publish_active_object", p)
      BY <3>1 DEF Mutated
    <3>3. f.kind = "publish_active_object" => f.fact \in {"completed", "conditional_retained"}
      BY <1>2, <2>5 DEF Records, Forward, InMutation, Completing
    <3> QED BY <1>4, <3>2, <3>3
  <2> QED BY <1>7, <2>2, <2>3, <2>4, <2>5 DEF Mutated
<1>17. Reversed'
  <2>1. ~Unrecorded("synchronize_recovered_namespace") =>
          f.kind \notin {"publish_active_object", "synchronize_active_namespace",
                         "recover_active_object", "synchronize_recovered_namespace"}
    <3>1. ASSUME NEW j \in DOMAIN facts, facts[j].kind = "synchronize_recovered_namespace"
          PROVE  f.kind \notin {"publish_active_object", "synchronize_active_namespace",
                                "recover_active_object", "synchronize_recovered_namespace"}
      <4>1. stage \in {"recovery", "external"}
        BY <3>1 DEF Staged
      <4>2. f.kind \notin {"publish_active_object", "synchronize_active_namespace"}
        BY <1>10, <4>1, WalkPositions
      <4>3. \A p \in Candidates : Recorded("recover_active_object", p)
        BY <3>1 DEF Reversed, Recovered, Recorded
      <4>4. f.kind # "recover_active_object"
        BY <1>2, <4>3 DEF Records
      <4>5. facts[j].path = NoPath
        BY <3>1 DEF Staged, Planned, Global, Synchronizing
      <4>6. f.kind # "synchronize_recovered_namespace"
        BY <1>8, <1>10, <3>1, <4>5 DEF Synchronizing
      <4> QED BY <4>2, <4>4, <4>6
    <3> QED BY <3>1 DEF Unrecorded
  <2>2. f.kind # "publish_active_object" => Candidates' = Candidates
    BY <1>4, <1>7 DEF Candidates, Changed
  <2>3. \A p : Recovered(p) => Recovered(p)'
    BY <1>4 DEF Recovered
  <2>4. f.kind = "synchronize_recovered_namespace" =>
          \A p \in Candidates \cup LostActive : Recovered(p)
    <3>1. SUFFICES ASSUME f.kind = "synchronize_recovered_namespace"
                   PROVE  \A p \in Candidates \cup LostActive : Recovered(p)
      OBVIOUS
    <3>2. pc = "recover" /\ pc \in Recovering /\ AllRecovered
      BY <1>2, <1>10, <3>1 DEF Records
    <3>3. ASSUME NEW p \in LostActive PROVE p \in Candidates
      <4>1. PICK i \in DOMAIN facts :
              facts[i].kind = "publish_active_object" /\ facts[i].path = p
        BY <3>2, <3>3, RecordedByEvent DEF Intents
      <4>2. Assumed(i)
        BY <3>3, <4>1 DEF LostActive, Assumed
      <4>3. facts[i].fact = "indeterminate"
        BY <4>1, <4>2 DEF Intents
      <4> QED BY <3>3, <4>1, <4>3 DEF LostActive, Candidates, FactsOf
    <3> QED BY <3>2, <3>3 DEF AllRecovered
  <2>5. ASSUME NEW j \in DOMAIN facts',
               facts'[j].kind = "synchronize_recovered_namespace"
        PROVE  /\ \A i \in DOMAIN facts' :
                    DomainOf(facts'[i].kind) = "active_namespace" => i <= j
               /\ \A p \in Candidates' \cup LostActive : Recovered(p)'
    <3>1. CASE j = n
      <4>1. f.kind = "synchronize_recovered_namespace"
        BY <1>4, <2>5, <3>1
      <4> QED BY <1>4, <2>2, <2>3, <2>4, <3>1, <4>1
    <3>2. CASE j \in DOMAIN facts
      <4>1. facts[j].kind = "synchronize_recovered_namespace"
        BY <1>4, <2>5, <3>2
      <4>2. f.kind \notin {"publish_active_object", "synchronize_active_namespace",
                           "recover_active_object", "synchronize_recovered_namespace"}
        BY <2>1, <3>2, <4>1 DEF Unrecorded
      <4>3. DomainOf(f.kind) # "active_namespace"
        BY <4>2 DEF DomainOf
      <4>4. Candidates' = Candidates
        BY <2>2, <4>2
      <4>5. \A i \in DOMAIN facts : DomainOf(facts[i].kind) = "active_namespace" => i <= j
        BY <3>2, <4>1 DEF Reversed
      <4>6. \A p \in Candidates \cup LostActive : Recovered(p)
        BY <3>2, <4>1 DEF Reversed
      <4> QED BY <1>4, <1>5, <2>3, <4>3, <4>4, <4>5, <4>6
    <3> QED BY <1>5, <2>5, <3>1, <3>2
  <2> QED BY <1>7, <2>5 DEF Reversed
<1> QED BY <1>4, <1>9, <1>11, <1>12, <1>13, <1>14, <1>16, <1>17

----------------------------------------------------------------------------
(***************************************************************************)
(* Restarts keep the invariant.                                            *)
(***************************************************************************)
\* An effect has the status of its one event.
LEMMA OneFact ==
  ASSUME Once, NEW kind, NEW p, NEW s, s \in FactsOf(kind, p)
  PROVE  FactsOf(kind, p) = {s} /\ EffectStatus(kind, p) = s
<1>1. PICK i \in DOMAIN facts :
        facts[i].kind = kind /\ facts[i].path = p /\ facts[i].fact = s
  BY RecordedByEvent
<1>2. ASSUME NEW t, t \in FactsOf(kind, p) PROVE t = s
  <2>1. PICK j \in DOMAIN facts :
          facts[j].kind = kind /\ facts[j].path = p /\ facts[j].fact = t
    BY <1>2, RecordedByEvent
  <2> QED BY <1>1, <2>1 DEF Once
<1>3. FactsOf(kind, p) = {s}
  BY <1>2
<1> QED BY <1>3 DEF EffectStatus, Recorded

\* What a crash leaves: no intent of an attempted effect.
LEMMA CrashedIntents ==
  ASSUME Typed, Staged, Intents, pc = "crashed"
  PROVE  /\ \A i \in DOMAIN facts : ~Assumed(i)
         /\ \A e \in intended : ~Recorded(e[1], e[2])
         /\ stage # "external"
         /\ stage \in {"preparing", "mutating", "visible"} =>
              \A e \in intended : e[1] \in Publishing
         /\ stage = "preparing" => intended = {}
         /\ LostRejected = {} /\ LostActive = {} /\ stage \in {"mutating", "visible"}
              => intended = {}
<1>1. \A i \in DOMAIN facts : ~Assumed(i)
  BY DEF Intents
<1>2. ASSUME NEW e \in intended PROVE ~Recorded(e[1], e[2])
  <2>1. e = <<e[1], e[2]>>
    BY DEF Typed, Intent
  <2> QED BY <1>1, <2>1, RecordedByEvent DEF Assumed
<1>3. ASSUME NEW e \in intended, stage \in {"preparing", "mutating", "visible"}
      PROVE  /\ e[1] \in Publishing
             /\ e[1] = "publish_rejected_object" => e[2] \in LostRejected
             /\ e[1] = "publish_active_object" => e[2] \in LostActive
  <2>1. e[1] \notin {"recover_active_object", "synchronize_recovered_namespace"}
    BY <1>3 DEF Intents
  <2>2. \/ \E p \in Rejecteds : e = <<"publish_rejected_object", p>>
        \/ \E p \in Actives : e = <<"publish_active_object", p>>
        \/ e[1] \in {"recover_active_object", "synchronize_recovered_namespace"}
    BY DEF Typed, Intent
  <2> QED BY <2>1, <2>2 DEF Publishing, LostRejected, LostActive
<1>4. /\ stage # "external"
      /\ stage = "preparing" => intended = {}
  BY DEF Staged, Intents
<1>5. LostRejected = {} /\ LostActive = {} /\ stage \in {"mutating", "visible"}
        => intended = {}
  BY <1>3 DEF Publishing
<1> QED BY <1>1, <1>2, <1>3, <1>4, <1>5

\* A restart that reads the journal and adds nothing.
LEMMA ReadingKeeps ==
  ASSUME Typed, Once, Staged, Ahead, Intents, Gathered, Mutated, Reversed,
         Restarting, facts' = facts
  PROVE  /\ Once' /\ Staged' /\ Ahead' /\ Intents' /\ Gathered' /\ Mutated' /\ Reversed'
<1> USE DEF Early, Forward, Recovering, InPreparation, InMutation, Completing
<1>1. pc = "crashed" /\ session' = "resumed" /\ attempt' = attempt /\ intended' = intended
  BY DEF Restarting
<1>2. /\ \A kind, p : FactsOf(kind, p)' = FactsOf(kind, p)
      /\ \A kind, p : Recorded(kind, p)' <=> Recorded(kind, p)
      /\ \A kind : Unrecorded(kind)' <=> Unrecorded(kind)
      /\ Captures' = Captures /\ Rejecteds' = Rejecteds /\ Actives' = Actives
      /\ Left("capture_old_object", Captures)' = Left("capture_old_object", Captures)
      /\ Candidates' = Candidates
      /\ \A f : Planned(f)' <=> Planned(f)
      /\ \A p : Recovered(p)' <=> Recovered(p)
  BY <1>1, SameFacts
<1>3. /\ \A i \in DOMAIN facts : ~Assumed(i)
      /\ stage # "external"
      /\ stage = "preparing" => intended = {}
      /\ LostRejected = {} /\ LostActive = {} /\ stage \in {"mutating", "visible"}
           => intended = {}
  BY <1>1, CrashedIntents
<1>4. LostRejected' = LostRejected /\ LostActive' = LostActive
      /\ (\A i : Assumed(i)' <=> Assumed(i)) /\ (AllActive' <=> AllActive)
  BY <1>1, <1>2 DEF LostRejected, LostActive, Assumed, AllActive
<1>5. stage \in {"preparing", "mutating", "visible", "recovery"}
  BY <1>3 DEF Typed
<1>6. stage = "visible" => LostActive = {} /\ AllActive
  BY DEF Mutated, AllActive, LostActive
<1>7. Proceeds => /\ stage \in {"mutating", "visible"} /\ stage' = stage
                  /\ LostRejected = {} /\ LostActive = {} /\ intended = {}
                  /\ pc' \in InMutation
                  /\ stage = "mutating" => FailedActive = {}
  BY <1>3, <1>5, <1>6 DEF Proceeds, RequiresRecovery
<1>8. /\ stage' \in {stage, "recovery"}
      /\ stage' = "preparing" <=> stage = "preparing"
      /\ stage' = "visible" => stage = "visible"
      /\ pc' \in {"captures", "over", "recover"} \cup InMutation
      /\ pc' = "captures" => stage = "preparing"
      /\ pc' = "recover" => stage # "preparing" /\ LostActive = {} /\ LostRejected = {}
      /\ pc' \in InMutation => Proceeds
  <2>1. facts' = facts /\ LostActive # {} => ~\E p \in LostActive :
          facts' = <<Lost("publish_active_object", p)>> \o facts
    <3>1. facts \in Seq(Fact)
      BY DEF Typed
    <3>2. ASSUME NEW f PROVE <<f>> \o facts # facts
      <4>1. Len(<<f>> \o facts) = Len(facts) + 1 /\ Len(facts) \in Nat
        BY <3>1
      <4> QED BY <4>1
    <3> QED BY <3>2
  <2>2. CASE Reprepares
    BY <1>5, <2>2 DEF Reprepares
  <2>3. CASE Unpublished
    BY <1>5, <2>3 DEF Unpublished
  <2>4. CASE Proceeds
    BY <1>5, <2>4 DEF Proceeds
  <2>5. CASE Interrupts
    BY <1>5, <2>1, <2>5 DEF Interrupts
  <2> QED BY <2>2, <2>3, <2>4, <2>5 DEF Restarting
<1>9. Once'
  BY <1>1 DEF Once
<1>10. Staged'
  <2>1. \A i \in DOMAIN facts :
       /\ Planned(facts[i])
       /\ stage' = "preparing" =>
            facts[i].kind \in Preparing \cup {"synchronize_incoming_staging",
                                              "synchronize_recovery_staging"}
       /\ facts[i].kind \in {"recover_active_object",
                             "synchronize_recovered_namespace"} =>
            stage' \in {"recovery", "external"}
    BY <1>8 DEF Staged
  <2>2. /\ pc' \in Early => stage' = "preparing"
        /\ pc' \in InMutation => stage' \in {"mutating", "visible"}
        /\ pc' \in Completing => stage' = "visible"
        /\ pc' \in Recovering => stage' # "preparing"
        /\ pc' # "crashed"
        /\ stage' \in {"recovery", "external"} => pc' \in Recovering \cup {"over", "crashed"}
    BY <1>5, <1>7, <1>8
  <2> QED BY <1>1, <1>2, <2>1, <2>2 DEF Staged
<1>11. Ahead'
  <2>1. pc' = "rejected" => Unrecorded("synchronize_rejected_store")
    BY <1>8 DEF Proceeds
  <2>2. pc' \in {"rejected", "rejected_published", "active"} =>
          Unrecorded("synchronize_active_namespace")
    BY <1>8 DEF Proceeds
  <2> QED BY <1>1, <1>2, <2>1, <2>2 DEF Ahead
<1>12. Intents'
  <2>1. /\ pc' \in Early \cup Forward => intended = {}
        /\ session' # "fresh"
        /\ stage' = "preparing" => intended = {}
        /\ LostRejected # {} => pc' = "over"
    <3>1. pc' \in Forward => intended = {}
      BY <1>7, <1>8
    <3>2. pc' \in Early => intended = {}
      BY <1>3, <1>8
    <3>3. intended = {} => LostRejected = {}
      BY DEF LostRejected
    <3> HIDE DEF Forward, Early
    <3>4. pc' \in Forward \cup Early \cup {"over", "recover"}
      BY <1>8 DEF Forward, Early
    <3> QED BY <1>1, <1>3, <1>8, <3>1, <3>2, <3>3, <3>4
  <2>2. (\E e \in intended : e[1] \in {"recover_active_object",
                                       "synchronize_recovered_namespace"})
          => stage' \in {"recovery", "external"}
    BY <1>8 DEF Intents
  <2>3. pc' \in Recovering => LostActive = {}
    BY <1>8
  <2> QED BY <1>1, <1>2, <1>3, <1>4, <2>1, <2>2, <2>3 DEF Intents
<1>13. Gathered'
  BY <1>1, <1>2, <1>8 DEF Gathered
<1>14. Mutated'
  <2>1. pc' \in Forward =>
          \A p \in Actives :
            FactsOf("publish_active_object", p) \cap {"failed", "indeterminate"} = {}
    <3>1. SUFFICES ASSUME pc' \in Forward, NEW p \in Actives
                   PROVE  FactsOf("publish_active_object", p)
                            \cap {"failed", "indeterminate"} = {}
      OBVIOUS
    <3>2. CASE stage = "visible"
      BY <1>6, <3>2 DEF AllActive
    <3>3. CASE stage = "mutating"
      <4>1. FailedActive = {}
        BY <1>7, <1>8, <3>1, <3>3
      <4>2. ASSUME NEW s \in FactsOf("publish_active_object", p),
                   s \in {"failed", "indeterminate"}
            PROVE  FALSE
        <5>1. ActiveStatus(p) = s
          BY OneFact DEF ActiveStatus
        <5> QED BY <4>1, <4>2, <5>1 DEF FailedActive
      <4> QED BY <4>2
    <3> QED BY <1>7, <1>8, <3>1, <3>2, <3>3
  <2>2. pc' = "active_mutated" => AllActive
    <3>1. pc' = "active_mutated" => Recorded("synchronize_active_namespace", NoPath)
      BY <1>8 DEF Proceeds
    <3>2. Recorded("synchronize_active_namespace", NoPath) =>
            ~Unrecorded("synchronize_active_namespace")
      BY UnrecordedKind
    <3> QED BY <3>1, <3>2 DEF Mutated
  <2>3. stage' = "visible" => AllActive
    BY <1>6, <1>8
  <2>4. ~Unrecorded("synchronize_active_namespace") => AllActive
    BY DEF Mutated
  <2> QED BY <1>2, <1>4, <2>1, <2>2, <2>3, <2>4 DEF Mutated
<1>15. Reversed'
  BY <1>1, <1>2, <1>4 DEF Reversed
<1> QED BY <1>9, <1>10, <1>11, <1>12, <1>13, <1>14, <1>15

\* A restart that adds what it assumes of a lost publication.
LEMMA AssumingKeeps ==
  ASSUME Typed, Once, Staged, Ahead, Intents, Gathered, Mutated, Reversed,
         Restarting, NEW kind, NEW q, facts' = <<Lost(kind, q)>> \o facts,
         \/ Unpublished /\ kind = "publish_rejected_object" /\ q \in LostRejected
         \/ Interrupts /\ kind = "publish_active_object" /\ q \in LostActive
  PROVE  /\ facts' \in Seq(Fact)
         /\ Once' /\ Staged' /\ Ahead' /\ Intents' /\ Gathered' /\ Mutated' /\ Reversed'
<1> DEFINE f == Lost(kind, q)
<1>1. pc = "crashed" /\ session' = "resumed" /\ attempt' = attempt /\ intended' = intended
  BY DEF Restarting
<1>2. /\ stage # "preparing" /\ stage' \in {stage, "recovery"}
      /\ pc' \in {"recover", "over"}
      /\ pc' = "recover" => kind = "publish_active_object" /\ LostRejected = {}
      /\ kind = "publish_active_object" => LostRejected = {}
  BY DEF Unpublished, Interrupts
<1>3. /\ \A i \in DOMAIN facts : ~Assumed(i)
      /\ stage # "external"
      /\ \A e \in intended : ~Recorded(e[1], e[2])
  BY <1>1, CrashedIntents
<1>4. <<kind, q>> \in intended /\ q \in Paths /\ kind \in Publishing
      /\ (kind = "publish_rejected_object" => q \in Rejecteds)
      /\ (kind = "publish_active_object" => q \in Actives /\ q \in LostActive)
  BY PlanPaths DEF LostRejected, LostActive, Publishing
<1>5. /\ f.kind = kind /\ f.path = q /\ f.fact = "indeterminate" /\ f \in Fact
  BY <1>4 DEF Lost, Event, Fact, Kind, Synchronizing, Operated, Publishing
<1>6. ~Recorded(kind, q)
  BY <1>3, <1>4
<1>7. facts \in Seq(Fact)
  BY DEF Typed
<1>8. facts' = <<f>> \o facts
  OBVIOUS
<1> HIDE DEF f
<1>9. /\ facts' \in Seq(Fact)
      /\ DOMAIN facts = 1 .. Len(facts) /\ Len(facts) \in Nat
      /\ DOMAIN facts' = 1 .. (Len(facts) + 1) /\ Len(facts') = Len(facts) + 1
      /\ \A i \in DOMAIN facts : facts'[i + 1] = facts[i]
      /\ \A i \in DOMAIN facts' : i # 1 => i - 1 \in DOMAIN facts /\ facts'[i] = facts[i - 1]
      /\ facts'[1] = f
      /\ \A k, p : Recorded(k, p)' <=>
           Recorded(k, p) \/ (k = f.kind /\ p = f.path)
      /\ \A k, p, s : s \in FactsOf(k, p)' <=>
           s \in FactsOf(k, p)
             \/ (k = f.kind /\ p = f.path /\ s = f.fact)
  BY <1>5, <1>7, <1>8, Prepended
<1>10. \A i \in DOMAIN facts' :
         \/ i = 1 /\ facts'[i] = f
         \/ \E j \in DOMAIN facts : i = j + 1 /\ facts'[i] = facts[j]
  BY <1>9
<1>11. \A j \in DOMAIN facts : j \in Nat /\ j >= 1 /\ j + 1 \in DOMAIN facts'
  BY <1>9
<1>12. \A k : Unrecorded(k)' => Unrecorded(k)
  BY <1>9, <1>11 DEF Unrecorded
<1>13. \A k : Unrecorded(k) /\ k # kind => Unrecorded(k)'
  BY <1>5, <1>10 DEF Unrecorded
<1>14. /\ Captures' = Captures /\ Rejecteds' = Rejecteds /\ Actives' = Actives
       /\ \A g : Planned(g)' <=> Planned(g)
       /\ LostRejected' = LostRejected /\ LostActive' = LostActive
  BY <1>1, SamePlan DEF LostRejected, LostActive
<1>15. Planned(f)
  BY <1>4, <1>5 DEF Planned, Publishing, Global, Synchronizing
<1>16. Once'
  <2>1. \A j \in DOMAIN facts : ~(facts[j].kind = kind /\ facts[j].path = q)
    BY <1>6, RecordedByEvent
  <2>2. ASSUME NEW i \in DOMAIN facts', NEW j \in DOMAIN facts',
               facts'[i].kind = facts'[j].kind, facts'[i].path = facts'[j].path
        PROVE  i = j
    <3>1. CASE facts'[i] = f /\ i = 1
      BY <1>5, <1>10, <2>1, <2>2, <3>1
    <3>2. CASE facts'[j] = f /\ j = 1
      BY <1>5, <1>10, <2>1, <2>2, <3>2
    <3>3. CASE /\ \E k \in DOMAIN facts : i = k + 1 /\ facts'[i] = facts[k]
               /\ \E k \in DOMAIN facts : j = k + 1 /\ facts'[j] = facts[k]
      BY <2>2, <3>3 DEF Once
    <3> QED BY <1>10, <3>1, <3>2, <3>3
  <2> QED BY <2>2 DEF Once
<1>17. Staged'
  <2>1. ASSUME NEW i \in DOMAIN facts'
        PROVE  /\ Planned(facts'[i])
               /\ stage' # "preparing"
               /\ facts'[i].kind \in {"recover_active_object",
                                      "synchronize_recovered_namespace"} =>
                    stage' \in {"recovery", "external"}
    <3>1. CASE facts'[i] = f
      BY <1>2, <1>4, <1>5, <1>15, <3>1 DEF Publishing
    <3>2. CASE \E j \in DOMAIN facts : facts'[i] = facts[j]
      BY <1>2, <3>2 DEF Staged
    <3> QED BY <1>10, <3>1, <3>2
  <2>2. stage' # "preparing"
    BY <1>2
  <2> QED BY <1>2, <1>14, <2>1, <2>2 DEF Staged, Early, InPreparation, InMutation,
          Completing, Recovering
<1>18. Ahead'
  BY <1>1, <1>2 DEF Ahead
<1>19. Intents'
  <2>1. ASSUME NEW i \in DOMAIN facts', <<facts'[i].kind, facts'[i].path>> \in intended
        PROVE  facts'[i].fact = "indeterminate" /\ i = 1 /\ facts'[i].kind \in Publishing
    <3>1. CASE \E j \in DOMAIN facts : facts'[i] = facts[j]
      BY <1>3, <2>1, <3>1 DEF Assumed
    <3> QED BY <1>4, <1>5, <1>10, <3>1
  <2>2. \A i : Assumed(i)' <=> <<facts'[i].kind, facts'[i].path>> \in intended
    BY <1>1 DEF Assumed
  <2>3. pc' \in Recovering => \A p \in LostActive : Recorded("publish_active_object", p)'
    <3>1. SUFFICES ASSUME pc' \in Recovering, NEW p \in LostActive
                   PROVE  Recorded("publish_active_object", p)'
      OBVIOUS
    <3>2. kind = "publish_active_object" /\ q \in LostActive
      BY <1>2, <1>4, <3>1 DEF Recovering
    <3>3. p = q
      BY <3>2 DEF Intents
    <3> QED BY <1>5, <1>9, <3>2, <3>3
  <2>4. (\E e \in intended : e[1] \in {"recover_active_object",
                                       "synchronize_recovered_namespace"})
          => stage' \in {"recovery", "external"}
    BY <1>2 DEF Intents
  <2>5. /\ pc' \notin Early \cup Forward
        /\ session' # "fresh"
        /\ stage' # "preparing"
        /\ LostRejected # {} => pc' \in {"over", "crashed"}
        /\ pc' # "crashed"
    BY <1>1, <1>2 DEF Early, Forward, InPreparation, InMutation, Completing
  <2>6. \A p, r \in LostActive : p = r
    BY DEF Intents
  <2> QED BY <1>1, <1>14, <2>1, <2>2, <2>3, <2>4, <2>5, <2>6 DEF Intents
<1>20. Gathered'
  <2>1. Unrecorded("synchronize_recovery_staging")' <=> Unrecorded("synchronize_recovery_staging")
    BY <1>4, <1>12, <1>13 DEF Publishing
  <2>2. Unrecorded("synchronize_incoming_staging")' <=> Unrecorded("synchronize_incoming_staging")
    BY <1>4, <1>12, <1>13 DEF Publishing
  <2>3. Left("capture_old_object", Captures)' = Left("capture_old_object", Captures)
        /\ (Recorded("stage_incoming_payload", NoPath)' <=> Recorded("stage_incoming_payload", NoPath))
    BY <1>4, <1>5, <1>9, <1>14 DEF Left, Publishing
  <2>4. ASSUME NEW i \in DOMAIN facts', NEW j \in DOMAIN facts',
               \/ /\ facts'[i].kind = "capture_old_object"
                  /\ facts'[j].kind = "synchronize_recovery_staging"
               \/ /\ facts'[i].kind = "stage_incoming_payload"
                  /\ facts'[j].kind = "synchronize_incoming_staging"
        PROVE  i < j
    <3>1. facts'[i] # f /\ facts'[j] # f
      BY <1>4, <1>5, <2>4 DEF Publishing
    <3>2. PICK k \in DOMAIN facts : i = k + 1 /\ facts'[i] = facts[k]
      BY <1>10, <3>1
    <3>3. PICK l \in DOMAIN facts : j = l + 1 /\ facts'[j] = facts[l]
      BY <1>10, <3>1
    <3>4. k < l
      BY <2>4, <3>2, <3>3 DEF Gathered
    <3> QED BY <1>11, <3>2, <3>3, <3>4
  <2>5. pc' \notin {"payloads", "sync_incoming", "sync_recovery", "prepared"}
    BY <1>2
  <2> QED BY <2>1, <2>2, <2>3, <2>4, <2>5 DEF Gathered
<1>21. kind = "publish_active_object" => ~AllActive
  BY <1>4 DEF AllActive
<1>22. kind # "publish_active_object" => (AllActive => AllActive')
  BY <1>1, <1>5, <1>9, <1>14 DEF AllActive
<1>23. Mutated'
  <2>1. stage' = "visible" => AllActive'
    BY <1>2, <1>21, <1>22 DEF Mutated
  <2>2. Unrecorded("synchronize_active_namespace") => Unrecorded("synchronize_active_namespace")'
    BY <1>4, <1>13 DEF Publishing
  <2>3. ~Unrecorded("synchronize_active_namespace")' => AllActive'
    BY <1>21, <1>22, <2>2 DEF Mutated
  <2>4. pc' \notin Forward
    BY <1>2 DEF Forward, InMutation, Completing
  <2> QED BY <1>2, <2>1, <2>3, <2>4 DEF Mutated
<1>24. Reversed'
  <2>1. Candidates' \cup LostActive = Candidates \cup LostActive
    <3>1. \A p \in Actives : p \in Candidates' <=>
            p \in Candidates \/ (kind = "publish_active_object" /\ p = q)
      BY <1>5, <1>9, <1>14 DEF Candidates, Changed
    <3>2. Candidates \subseteq Actives /\ Candidates' \subseteq Actives
      BY <1>14 DEF Candidates
    <3> QED BY <1>4, <3>1, <3>2
  <2>2. \A p : Recovered(p) => Recovered(p)'
    BY <1>9 DEF Recovered
  <2>3. ASSUME NEW j \in DOMAIN facts',
               facts'[j].kind = "synchronize_recovered_namespace"
        PROVE  /\ \A i \in DOMAIN facts' :
                    DomainOf(facts'[i].kind) = "active_namespace" => i <= j
               /\ \A p \in Candidates' \cup LostActive : Recovered(p)'
    <3>1. facts'[j] # f
      BY <1>4, <1>5, <2>3 DEF Publishing
    <3>2. PICK l \in DOMAIN facts : j = l + 1 /\ facts'[j] = facts[l]
      BY <1>10, <3>1
    <3>3. /\ \A i \in DOMAIN facts : DomainOf(facts[i].kind) = "active_namespace" => i <= l
          /\ \A p \in Candidates \cup LostActive : Recovered(p)
      BY <2>3, <3>2 DEF Reversed
    <3>4. ASSUME NEW i \in DOMAIN facts', DomainOf(facts'[i].kind) = "active_namespace"
          PROVE  i <= j
      <4>1. CASE i = 1
        BY <1>11, <3>2, <4>1
      <4>2. CASE \E k \in DOMAIN facts : i = k + 1 /\ facts'[i] = facts[k]
        BY <1>11, <3>2, <3>3, <3>4, <4>2
      <4> QED BY <1>10, <4>1, <4>2
    <3> QED BY <2>1, <2>2, <3>3, <3>4
  <2> QED BY <1>14, <2>3 DEF Reversed
<1> QED BY <1>9, <1>16, <1>17, <1>18, <1>19, <1>20, <1>23, <1>24

\* A restart keeps the journal's parts of the invariant.
LEMMA RestartKeeps ==
  ASSUME Typed, Once, Staged, Ahead, Intents, Gathered, Mutated, Reversed, Restarting
  PROVE  /\ facts' \in Seq(Fact)
         /\ Once' /\ Staged' /\ Ahead' /\ Intents' /\ Gathered' /\ Mutated' /\ Reversed'
<1>1. CASE facts' = facts
  BY <1>1, ReadingKeeps DEF Typed
<1>2. CASE Unpublished /\ facts' # facts
  <2>1. PICK p \in LostRejected : facts' = <<Lost("publish_rejected_object", p)>> \o facts
    BY <1>2 DEF Unpublished
  <2> QED BY <1>2, <2>1, AssumingKeeps
<1>3. CASE Interrupts /\ facts' # facts
  <2>1. PICK p \in LostActive : facts' = <<Lost("publish_active_object", p)>> \o facts
    BY <1>3 DEF Interrupts
  <2> QED BY <1>3, <2>1, AssumingKeeps
<1> QED BY <1>1, <1>2, <1>3 DEF Restarting, Reprepares, Proceeds

----------------------------------------------------------------------------
(***************************************************************************)
(* A crash keeps the invariant.                                            *)
(***************************************************************************)
LEMMA CrashKeeps ==
  ASSUME Typed, Once, Staged, Ahead, Intents, Gathered, Mutated, Reversed, Crashing
  PROVE  /\ facts' \in Seq(Fact) /\ intended' \subseteq Intent
         /\ Once' /\ Staged' /\ Ahead' /\ Intents' /\ Gathered' /\ Mutated' /\ Reversed'
<1> USE DEF Early, Forward, Recovering, InPreparation, InMutation, Completing
<1>1. /\ pc # "crashed" /\ pc' = "crashed" /\ facts' = Durable
      /\ attempt' = attempt /\ session' = session
      /\ stage # "external" /\ stage' \in {stage, "recovery"}
      /\ (stage' # stage => pc = "recover")
  BY DEF Crashing
<1>2. facts \in Seq(Fact) /\ intended \subseteq Intent
  BY DEF Typed
<1>3. ASSUME NEW e \in intended', e \notin intended
      PROVE  /\ e \in Intent /\ ~Recorded(e[1], e[2])
             /\ \A g \in intended' : g \in intended \/ g = e
             /\ \/ e[1] = "publish_rejected_object" /\ pc = "rejected"
                \/ e[1] = "publish_active_object" /\ pc = "active"
                \/ e[1] = "recover_active_object" /\ pc = "recover" /\ stage' = "recovery"
                \/ /\ e[1] = "synchronize_recovered_namespace" /\ pc = "recover"
                   /\ AllRecovered /\ stage' = "recovery"
  BY <1>3 DEF Crashing
<1>4. intended \subseteq intended' /\ intended' \subseteq Intent
  BY <1>2, <1>3 DEF Crashing
<1>5. PICK shift \in {0, 1} :
        /\ \A i \in DOMAIN facts' :
             i + shift \in DOMAIN facts /\ facts'[i] = facts[i + shift]
               /\ ~Assumed(i + shift)
        /\ \A i \in DOMAIN facts :
             Assumed(i) \/ (i - shift \in DOMAIN facts' /\ facts'[i - shift] = facts[i])
  BY <1>1, <1>2, Durably
<1>6. /\ facts' \in Seq(Fact)
      /\ \A kind, p : Recorded(kind, p)' <=> Recorded(kind, p) /\ <<kind, p>> \notin intended
      /\ \A kind, p, s : s \in FactsOf(kind, p)' <=>
           s \in FactsOf(kind, p) /\ <<kind, p>> \notin intended
  BY <1>1, <1>2, Durably
<1>7. /\ \A i \in DOMAIN facts' : i \in Nat /\ i + shift \in DOMAIN facts
                                  /\ facts'[i] = facts[i + shift]
  BY <1>5, <1>6
<1>8. ASSUME NEW kind PROVE ~Unrecorded(kind)' => ~Unrecorded(kind)
  BY <1>7 DEF Unrecorded
<1>9. /\ Captures' = Captures /\ Rejecteds' = Rejecteds /\ Actives' = Actives
      /\ \A g : Planned(g)' <=> Planned(g)
  BY <1>1, SamePlan
<1>10. Once'
  <2>1. ASSUME NEW i \in DOMAIN facts', NEW j \in DOMAIN facts',
               facts'[i].kind = facts'[j].kind, facts'[i].path = facts'[j].path
        PROVE  i = j
    <3>1. i + shift = j + shift
      BY <1>7, <2>1 DEF Once
    <3> QED BY <1>5, <1>7, <3>1
  <2> QED BY <2>1 DEF Once
<1>11. Staged'
  <2>1. ASSUME NEW i \in DOMAIN facts'
        PROVE  /\ Planned(facts'[i])
               /\ stage' = "preparing" =>
                    facts'[i].kind \in Preparing \cup {"synchronize_incoming_staging",
                                                      "synchronize_recovery_staging"}
               /\ facts'[i].kind \in {"recover_active_object",
                                      "synchronize_recovered_namespace"} =>
                    stage' \in {"recovery", "external"}
    BY <1>1, <1>7 DEF Staged
  <2> QED BY <1>1, <1>9, <2>1 DEF Staged
<1>12. Ahead'
  BY <1>1 DEF Ahead
<1>13. \A e \in intended : e[1] \in {"recover_active_object",
                                     "synchronize_recovered_namespace"}
                             => stage = "recovery"
  BY <1>1 DEF Intents
<1>14. ASSUME NEW i \in DOMAIN facts' PROVE ~Assumed(i)'
  <2> DEFINE e == <<facts'[i].kind, facts'[i].path>>
  <2>1. Assumed(i)' <=> e \in intended'
    BY DEF Assumed
  <2>2. e \notin intended
    BY <1>5, <1>7 DEF Assumed
  <2>3. Recorded(facts'[i].kind, facts'[i].path)
    BY <1>7, RecordedByEvent
  <2>4. e[1] = facts'[i].kind /\ e[2] = facts'[i].path
    OBVIOUS
  <2> HIDE DEF e
  <2>5. e \notin intended'
    BY <1>3, <2>2, <2>3, <2>4
  <2> QED BY <2>1, <2>5
<1>15. Intents'
  <2>1. stage' = "preparing" => intended' = {}
    <3>1. SUFFICES ASSUME stage' = "preparing" PROVE intended' = {}
      OBVIOUS
    <3>2. stage = "preparing"
      BY <1>1, <3>1
    <3>3. intended = {} /\ pc \notin {"rejected", "active", "recover"}
      BY <3>2 DEF Intents, Staged
    <3> QED BY <1>3, <3>3
  <2>2. ASSUME NEW e \in intended', e[1] \in {"recover_active_object",
                                              "synchronize_recovered_namespace"}
        PROVE  stage' = "recovery"
    <3>1. CASE e \in intended
      BY <1>1, <1>13, <2>2, <3>1
    <3>2. CASE e \notin intended
      BY <1>3, <2>2, <3>2
    <3> QED BY <3>1, <3>2
  <2>3. ASSUME NEW p \in LostActive', NEW q \in LostActive' PROVE p = q
    <3>1. <<"publish_active_object", p>> \in intended'
          /\ <<"publish_active_object", q>> \in intended' /\ p \in Actives /\ q \in Actives
      BY <1>9 DEF LostActive
    <3>2. CASE intended' = intended
      BY <3>1, <3>2 DEF Intents, LostActive
    <3>3. CASE pc = "active"
      <4>1. intended = {}
        BY <3>3 DEF Intents
      <4>2. <<"publish_active_object", p>> = <<"publish_active_object", q>>
        BY <1>3, <3>1, <4>1
      <4> QED BY <4>2
    <3>4. CASE pc # "active" /\ intended' # intended
      <4>1. ASSUME NEW r, <<"publish_active_object", r>> \in intended'
            PROVE  <<"publish_active_object", r>> \in intended
        <5>1. SUFFICES ASSUME <<"publish_active_object", r>> \notin intended PROVE FALSE
          OBVIOUS
        <5> QED BY <1>3, <3>4, <4>1, <5>1
      <4> QED BY <3>1, <4>1 DEF Intents, LostActive
    <3> QED BY <3>2, <3>3, <3>4
  <2> QED BY <1>1, <1>14, <2>1, <2>2, <2>3 DEF Intents
<1>16. \A e \in intended : e[1] \notin {"capture_old_object", "stage_incoming_payload"}
  BY <1>2 DEF Intent
<1>17. Gathered'
  <2>1. \A p : Recorded("capture_old_object", p)' <=> Recorded("capture_old_object", p)
    BY <1>6, <1>16
  <2>2. Left("capture_old_object", Captures)' = Left("capture_old_object", Captures)
    BY <1>9, <2>1 DEF Left
  <2>3. Recorded("stage_incoming_payload", NoPath)' <=> Recorded("stage_incoming_payload", NoPath)
    BY <1>6, <1>16
  <2>4. ASSUME NEW i \in DOMAIN facts', NEW j \in DOMAIN facts',
               \/ /\ facts'[i].kind = "capture_old_object"
                  /\ facts'[j].kind = "synchronize_recovery_staging"
               \/ /\ facts'[i].kind = "stage_incoming_payload"
                  /\ facts'[j].kind = "synchronize_incoming_staging"
        PROVE  i < j
    <3>1. i + shift < j + shift
      BY <1>7, <2>4 DEF Gathered
    <3> QED BY <1>5, <1>7, <3>1
  <2> QED BY <1>1, <1>8, <2>2, <2>3, <2>4 DEF Gathered
<1>18. AllActive => AllActive'
  <2>1. SUFFICES ASSUME AllActive, NEW p \in Actives
                 PROVE  /\ Recorded("publish_active_object", p)'
                        /\ <<"publish_active_object", p>> \notin intended'
                        /\ FactsOf("publish_active_object", p)'
                             \cap {"failed", "indeterminate"} = {}
    BY <1>9 DEF AllActive
  <2>2. /\ Recorded("publish_active_object", p)
        /\ <<"publish_active_object", p>> \notin intended
        /\ FactsOf("publish_active_object", p) \cap {"failed", "indeterminate"} = {}
    BY <2>1 DEF AllActive
  <2>3. <<"publish_active_object", p>> \notin intended'
    <3>1. SUFFICES ASSUME <<"publish_active_object", p>> \in intended' PROVE FALSE
      OBVIOUS
    <3> QED BY <1>3, <2>2, <3>1
  <2> QED BY <1>6, <2>2, <2>3
<1>19. Mutated'
  <2>1. stage' = "visible" => stage = "visible"
    BY <1>1
  <2> QED BY <1>1, <1>8, <1>18, <2>1 DEF Mutated
<1>20. \A p : Recovered(p) => Recovered(p)'
  <2>1. ASSUME NEW p, "completed" \in FactsOf("recover_active_object", p),
               <<"recover_active_object", p>> \in intended
        PROVE  FALSE
    <3>1. PICK i \in DOMAIN facts :
            /\ facts[i].kind = "recover_active_object" /\ facts[i].path = p
            /\ facts[i].fact = "completed"
      BY <2>1, RecordedByEvent
    <3>2. Assumed(i)
      BY <2>1, <3>1 DEF Assumed
    <3> QED BY <3>1, <3>2 DEF Intents
  <2> QED BY <1>6, <2>1 DEF Recovered
<1>21. Reversed'
  <2>1. ASSUME NEW j \in DOMAIN facts',
               facts'[j].kind = "synchronize_recovered_namespace"
        PROVE  /\ \A i \in DOMAIN facts' :
                    DomainOf(facts'[i].kind) = "active_namespace" => i <= j
               /\ \A p \in Candidates' \cup LostActive' : Recovered(p)'
    <3>1. /\ \A i \in DOMAIN facts :
               DomainOf(facts[i].kind) = "active_namespace" => i <= j + shift
          /\ \A p \in Candidates \cup LostActive : Recovered(p)
      BY <1>7, <2>1 DEF Reversed
    <3>2. stage \in {"recovery", "external"}
      BY <1>7, <2>1 DEF Staged
    <3>3. pc # "active"
      BY <3>2 DEF Staged
    <3>4. LostActive' \subseteq LostActive
      <4>1. ASSUME NEW p \in LostActive' PROVE p \in LostActive
        <5>1. p \in Actives /\ <<"publish_active_object", p>> \in intended'
          BY <1>9 DEF LostActive
        <5>2. <<"publish_active_object", p>> \in intended
          <6>1. SUFFICES ASSUME <<"publish_active_object", p>> \notin intended PROVE FALSE
            OBVIOUS
          <6> QED BY <1>3, <3>3, <5>1, <6>1
        <5> QED BY <5>1, <5>2 DEF LostActive
      <4> QED BY <4>1
    <3>5. Candidates' \subseteq Candidates
      BY <1>6, <1>9 DEF Candidates, Changed
    <3>6. \A i \in DOMAIN facts' : DomainOf(facts'[i].kind) = "active_namespace" => i <= j
      <4>1. ASSUME NEW i \in DOMAIN facts', DomainOf(facts'[i].kind) = "active_namespace"
            PROVE  i <= j
        <5>1. i + shift <= j + shift
          BY <1>7, <3>1, <4>1
        <5> QED BY <1>5, <1>7, <5>1
      <4> QED BY <4>1
    <3> QED BY <1>20, <3>1, <3>4, <3>5, <3>6
  <2> QED BY <2>1 DEF Reversed
<1> QED BY <1>4, <1>6, <1>10, <1>11, <1>12, <1>15, <1>17, <1>19, <1>21

----------------------------------------------------------------------------
(***************************************************************************)
(* Profiles and receipts: what a step leaves.                              *)
(***************************************************************************)
\* What an attempt that is called fully recovered ends from.
FullRecovery ==
  /\ pc = "conclude" /\ profile' = profile /\ facts' = facts /\ AllRecovered
  /\ session = "resumed" => profile["active_namespace"] = "confirmed"

\* An attempt goes on, ends with an exception, or ends with a receipt for the
\* profile it has reached.
Ending(r) ==
  /\ r.durability = profile'
  /\ r.outcome = "completed" =>
       pc \in {"sync_evidence", "resync_evidence"}
         /\ profile'["completed_evidence"] = "confirmed"
  /\ r.outcome = "failed_fully_recovered" /\ AllDomains => FullRecovery
Closes ==
  \/ pc' # "over" /\ UNCHANGED <<receipt, refused>>
  \/ pc' = "over" /\ refused' # "none" /\ UNCHANGED receipt
  \/ pc' = "over" /\ UNCHANGED refused /\ \E r : receipt' = {r} /\ Ending(r)

Profiled == profile' \in [Domain -> Status]

\* How the constructors and hand-overs of the engine end a step.
LEMMA Endings ==
  /\ \A what : Reject(what) /\ what # "none" => Closes
  /\ \A next : Continue(next) /\ next # "over" => Closes
  /\ \A next, accepted, what :
       HandOver(next, accepted, what) /\ next # "over" /\ what # "none"
         => Closes /\ profile' = profile
  /\ \A outcome, recovery, paths, journal :
       /\ Fail(outcome, recovery, paths, journal)
       /\ outcome # "completed" /\ outcome # "failed_fully_recovered"
       => Closes
  /\ \A recovery, paths, journal :
       /\ Fail("failed_fully_recovered", recovery, paths, journal)
       /\ AllDomains => FullRecovery
       => Closes
<1>1. \A what : Reject(what) /\ what # "none" => Closes
  BY DEF Reject, Closes
<1>2. \A next : Continue(next) /\ next # "over" => Closes
  BY DEF Continue, Closes
<1>3. \A next, accepted, what :
        HandOver(next, accepted, what) /\ next # "over" /\ what # "none"
          => Closes /\ profile' = profile
  BY <1>1 DEF HandOver, Closes
<1>4. ASSUME NEW outcome, NEW recovery, NEW paths, NEW journal,
             Fail(outcome, recovery, paths, journal),
             outcome # "completed",
             outcome = "failed_fully_recovered" /\ AllDomains => FullRecovery
      PROVE  Closes
  <2> DEFINE r == [outcome |-> outcome, recovery |-> recovery, paths |-> paths,
                   durability |-> profile', journal |-> journal]
  <2>1. Ending(r)
    BY <1>4 DEF Ending
  <2>2. \/ pc' = "over" /\ receipt' = {r} /\ UNCHANGED refused
        \/ Reject("receipt")
    BY <1>4 DEF Fail
  <2> HIDE DEF r
  <2> QED BY <1>1, <2>1, <2>2 DEF Closes
<1> QED BY <1>1, <1>2, <1>3, <1>4, Zenon

\* A status is established in a profile.
LEMMA StatusEstablished ==
  ASSUME profile \in [Domain -> Status]
  PROVE  /\ \A d, s : s \in Status /\ Establish(d, s) => Profiled
         /\ profile' = profile => Profiled
BY DEF Establish, Profiled

\* The statuses are statuses.
LEMMA Statuses ==
  /\ Synchronized \subseteq Status
  /\ {"not_attempted", "visible", "confirmed", "unconfirmed", "indeterminate"} \subseteq Status
BY DEF Synchronized, Status

\* Of a fresh preparation.
LEMMA PreparationEnds ==
  ASSUME Typed, Preparation, session = "fresh"
  PROVE  Closes /\ Profiled
<1>1. profile \in [Domain -> Status]
  BY DEF Typed
<1>2. FailPreparation => Closes
  BY Endings DEF FailPreparation
<1>3. CASE RefusePreconditions
  BY <1>1, <1>3, Endings, StatusEstablished DEF RefusePreconditions
<1>4. CASE Admit
  BY <1>1, <1>4, Endings, StatusEstablished, Statuses DEF Admit
<1>5. CASE CaptureOldObject
  <2>1. \E s \in {"visible", "indeterminate"} : Establish("recovery_staging", s)
    BY <1>5 DEF CaptureOldObject
  <2>2. Continue("captures") \/ FailPreparation
    BY <1>5 DEF CaptureOldObject
  <2> QED BY <1>1, <1>2, <2>1, <2>2, Endings, StatusEstablished, Statuses
<1>6. CASE StageIncomingPayloads
  <2>1. \E s \in {"visible", "indeterminate"} : Establish("incoming_staging", s)
    BY <1>6 DEF StageIncomingPayloads
  <2>2. Continue("sync_incoming") \/ FailPreparation
    BY <1>6 DEF StageIncomingPayloads
  <2> QED BY <1>1, <1>2, <2>1, <2>2, Endings, StatusEstablished, Statuses
<1>7. CASE SynchronizeIncoming \/ SynchronizeRecovery
  <2>1. ASSUME NEW kind, NEW next, next # "over", SynchronizePreparation(kind, next)
        PROVE  Closes /\ Profiled
    <3>1. \E s \in Synchronized : Establish(DomainOf(kind), s)
      BY <2>1 DEF SynchronizePreparation
    <3>2. Continue(next) \/ FailPreparation
      BY <2>1 DEF SynchronizePreparation
    <3> QED BY <1>1, <1>2, <2>1, <3>1, <3>2, Endings, StatusEstablished, Statuses
  <2> QED BY <1>7, <2>1 DEF SynchronizeIncoming, SynchronizeRecovery
<1>8. CASE CapturesDone \/ NoPayloads
  <2>1. pc' # "over" /\ UNCHANGED <<receipt, refused>> /\ profile' = profile
    BY <1>8 DEF CapturesDone, NoPayloads, HandOver
  <2> QED BY <1>1, <2>1, StatusEstablished DEF Closes
<1>9. CASE Prepared
  BY <1>1, <1>9, Endings, StatusEstablished DEF Prepared
<1> QED BY <1>3, <1>4, <1>5, <1>6, <1>7, <1>8, <1>9 DEF Preparation

\* Of rejected publication.
LEMMA RejectedEnds ==
  ASSUME Typed, RejectedPhase
  PROVE  Closes /\ Profiled
<1>1. profile \in [Domain -> Status]
  BY DEF Typed
<1>2. \A outcome, recovery : FailRejected(outcome, recovery)
        /\ outcome # "completed" /\ outcome # "failed_fully_recovered" => Closes
  BY Endings DEF FailRejected
<1>3. CASE PublishRejected
  <2>1. profile' = profile \/ \E s \in {"visible", "indeterminate"} :
          Establish("rejected_object_store", s)
    BY <1>3 DEF PublishRejected
  <2>2. Continue("rejected") \/ FailRejected("failed_before_target_mutation", "unchanged")
          \/ FailRejected("indeterminate", "requires_authoritative_observation")
    BY <1>3 DEF PublishRejected
  <2> QED BY <1>1, <1>2, <2>1, <2>2, Endings, StatusEstablished, Statuses
<1>4. CASE SynchronizeRejected
  <2>1. \E s \in Synchronized : Establish("rejected_object_store", s)
    BY <1>4 DEF SynchronizeRejected
  <2>2. Continue("rejected_published")
          \/ FailRejected("effects_visible_durability_unconfirmed", "recovery_assets_retained")
          \/ FailRejected("indeterminate", "requires_authoritative_observation")
    BY <1>4 DEF SynchronizeRejected
  <2> QED BY <1>1, <1>2, <2>1, <2>2, Endings, StatusEstablished, Statuses
<1>5. CASE RejectedPublished
  BY <1>1, <1>5, Endings, StatusEstablished DEF RejectedPublished
<1> QED BY <1>3, <1>4, <1>5 DEF RejectedPhase

\* Interrupted execution hands over or is refused.
LEMMA InterruptEnds == \A why : Interrupt(why) => Closes
BY Endings DEF Interrupt, Closes

\* Of active execution.
LEMMA ActiveEnds ==
  ASSUME Typed, ActivePhase \/ ResumeActiveSynchronization
  PROVE  Closes /\ Profiled
<1>1. profile \in [Domain -> Status]
  BY DEF Typed
<1>2. CASE ExecuteActive
  <2>1. profile' = profile \/ \E s \in {"visible", "indeterminate"} :
          Establish("active_namespace", s)
    BY <1>2 DEF ExecuteActive
  <2>2. Continue("active") \/ \E why : Interrupt(why)
    BY <1>2 DEF ExecuteActive
  <2> QED BY <1>1, <2>1, <2>2, Endings, InterruptEnds, StatusEstablished, Statuses
<1>3. CASE SynchronizeActive \/ ResumeActiveSynchronization
  <2>1. \E s \in Synchronized : Establish("active_namespace", s)
    <3>1. \A s \in Synchronized : InterruptedStatus(s) \in Synchronized
      BY DEF InterruptedStatus, Synchronized, Status
    <3> QED BY <1>3, <3>1 DEF SynchronizeActive, ResumeActiveSynchronization
  <2>2. Continue("active_mutated") \/ \E why : Interrupt(why)
    BY <1>3 DEF SynchronizeActive, ResumeActiveSynchronization
  <2> QED BY <1>1, <2>1, <2>2, Endings, InterruptEnds, StatusEstablished, Statuses
<1>4. CASE ActiveMutated
  BY <1>1, <1>4, Endings, StatusEstablished DEF ActiveMutated
<1> QED BY <1>2, <1>3, <1>4 DEF ActivePhase

\* The receipt of a completed application.
LEMMA CompleteEnds ==
  ASSUME Typed, Complete, pc \in {"sync_evidence", "resync_evidence"}
  PROVE  Closes /\ Profiled
<1> DEFINE r == [outcome |-> "completed",
                  recovery |-> IF Captures = {} THEN "unchanged"
                               ELSE "recovery_assets_retained",
                  paths |-> CompletedConsequences("eligible"),
                  durability |-> profile', journal |-> TRUE]
<1>1. receipt' = {r} /\ pc' = "over" /\ UNCHANGED refused
      /\ Establish("completed_evidence", "confirmed")
  BY DEF Complete
<1>2. profile'["completed_evidence"] = "confirmed"
  BY <1>1 DEF Establish, Typed, Domain
<1>3. Ending(r)
  BY <1>2 DEF Ending
<1> HIDE DEF r
<1>4. Closes
  BY <1>1, <1>3 DEF Closes
<1>5. Profiled
  BY <1>1, StatusEstablished, Statuses DEF Typed
<1> QED BY <1>4, <1>5

\* Evidence that is not published or not durable ends the attempt.
LEMMA EvidenceFails ==
  ASSUME Typed, NEW uncertain, FailEvidence(uncertain)
  PROVE  Closes /\ Profiled
<1>1. \E s \in {"indeterminate", "unconfirmed"} : Establish("completed_evidence", s)
  BY DEF FailEvidence
<1>2. Closes
  BY Endings DEF FailEvidence
<1> QED BY <1>1, <1>2, StatusEstablished, Statuses DEF Typed

\* Of completion.
LEMMA CompletionEnds ==
  ASSUME Typed,
         \/ Completion
         \/ ReplayUnpublished \/ ReplayPublished \/ ReplayEvidenceSynchronization
  PROVE  Closes /\ Profiled
<1>1. profile \in [Domain -> Status]
  BY DEF Typed
<1>2. CASE ObserveMatched
  BY <1>1, <1>2, Endings, StatusEstablished DEF ObserveMatched
<1>3. CASE ObserveUnmatched
  BY <1>1, <1>3, InterruptEnds, StatusEstablished DEF ObserveUnmatched
<1>4. CASE PublishCompletedEvidence
  <2>1. (Continue("sync_evidence") /\ profile' = profile) \/ \E uncertain : FailEvidence(uncertain)
    BY <1>4 DEF PublishCompletedEvidence
  <2> QED BY <1>1, <2>1, Endings, EvidenceFails, StatusEstablished
<1>5. CASE SynchronizeCompletedEvidence \/ ReplayEvidenceSynchronization
  <2>1. pc \in {"sync_evidence", "resync_evidence"}
    BY <1>5 DEF SynchronizeCompletedEvidence, ReplayEvidenceSynchronization
  <2>2. Complete \/ \E uncertain : FailEvidence(uncertain)
    BY <1>5 DEF SynchronizeCompletedEvidence, ReplayEvidenceSynchronization
  <2> QED BY <2>1, <2>2, CompleteEnds, EvidenceFails
<1>6. CASE ReplayUnpublished
  BY <1>1, <1>6, Endings, StatusEstablished DEF ReplayUnpublished
<1>7. CASE ReplayPublished
  <2>1. \/ /\ Continue("sync_evidence") \/ Continue("resync_evidence")
           /\ profile' = profile
        \/ \E uncertain : FailEvidence(uncertain)
    BY <1>7 DEF ReplayPublished
  <2> QED BY <1>1, <2>1, Endings, EvidenceFails, StatusEstablished
<1> QED BY <1>2, <1>3, <1>4, <1>5, <1>6, <1>7 DEF Completion

\* Of recovery without a candidate or without being selected.
LEMMA UnrecoveredEnds ==
  ASSUME Typed, RecoverNothing \/ RecoverUnselected
  PROVE  Closes /\ Profiled
<1>1. profile' = profile
  BY DEF RecoverNothing, RecoverUnselected
<1>2. \A outcome, recovery : SealRecoveryReceipt(outcome, recovery)
        /\ outcome # "completed" /\ outcome # "failed_fully_recovered" => Closes
  BY Endings DEF SealRecoveryReceipt
<1>3. Closes
  BY <1>2 DEF RecoverNothing, RecoverUnselected
<1> QED BY <1>1, <1>3, StatusEstablished DEF Typed

\* Of a fresh recovery.
LEMMA RecoveryEnds ==
  ASSUME Typed, Recovery, session = "fresh"
  PROVE  Closes /\ Profiled
<1>1. profile \in [Domain -> Status]
  BY DEF Typed
<1>2. CASE RecoverNothing \/ RecoverUnselected
  BY <1>2, UnrecoveredEnds
<1>3. CASE Recover
  <2>1. profile' = profile \/ Establish("active_namespace", "visible")
    BY <1>3 DEF Recover
  <2>2. Continue("recover") \/ Continue("conclude")
    BY <1>3 DEF Recover
  <2> QED BY <1>1, <2>1, <2>2, Endings, StatusEstablished, Statuses
<1>4. CASE SynchronizeRecovered
  <2>1. \E s \in Synchronized : Establish("active_namespace", s)
    BY <1>4 DEF SynchronizeRecovered
  <2>2. Continue("conclude")
    BY <1>4 DEF SynchronizeRecovered
  <2> QED BY <1>1, <2>1, <2>2, Endings, StatusEstablished, Statuses
<1>5. CASE ConcludeRecovery
  <2>1. profile' = profile
    BY <1>5 DEF ConcludeRecovery
  <2>2. \/ SealRecoveryReceipt("failed_fully_recovered", "exact_prior_state_restored")
           /\ AllRecovered
        \/ SealRecoveryReceipt("indeterminate", "requires_authoritative_observation")
        \/ SealRecoveryReceipt("failed_with_partial_effects", "known_residual_effects")
    BY <1>5 DEF ConcludeRecovery
  <2>3. AllDomains /\ AllRecovered => FullRecovery
    BY <1>5 DEF ConcludeRecovery, FullRecovery
  <2>4. Closes
    BY <2>2, <2>3, Endings DEF SealRecoveryReceipt
  <2> QED BY <1>1, <2>1, <2>4, StatusEstablished
<1> QED BY <1>2, <1>3, <1>4, <1>5 DEF Recovery

\* Of a resumed recovery.
LEMMA ResumedRecoveryEnds ==
  ASSUME Typed, session = "resumed",
         \/ ReplayUnsuccessful \/ ResumeRecover \/ ResumeRecoveredSynchronization
         \/ ResumeConclude
  PROVE  Closes /\ Profiled
<1>1. profile \in [Domain -> Status]
  BY DEF Typed
<1>2. CASE ReplayUnsuccessful
  BY <1>1, <1>2, Endings, StatusEstablished, Statuses DEF ReplayUnsuccessful
<1>3. CASE ResumeRecover
  <2>1. Establish("active_namespace", "visible")
    BY <1>3 DEF ResumeRecover
  <2>2. Continue("recover") \/ Continue("conclude")
    BY <1>3 DEF ResumeRecover
  <2> QED BY <1>1, <2>1, <2>2, Endings, StatusEstablished, Statuses
<1>4. CASE ResumeRecoveredSynchronization
  <2>1. \E s \in Synchronized : Establish("active_namespace", s)
    BY <1>4 DEF ResumeRecoveredSynchronization
  <2>2. Continue("conclude")
    BY <1>4 DEF ResumeRecoveredSynchronization
  <2> QED BY <1>1, <2>1, <2>2, Endings, StatusEstablished, Statuses
<1>5. CASE ResumeConclude
  <2>1. profile' = profile \/ Establish("active_namespace", "visible")
    BY <1>5 DEF ResumeConclude
  <2>2. \/ SealRecoveryReceipt("failed_fully_recovered", "exact_prior_state_restored")
           /\ RecoveredDurably
        \/ SealRecoveryReceipt("indeterminate", "requires_authoritative_observation")
        \/ SealRecoveryReceipt("failed_with_partial_effects", "known_residual_effects")
    BY <1>5 DEF ResumeConclude
  <2>3. AllDomains => pc = "conclude" /\ profile' = profile /\ facts' = facts
    BY <1>5 DEF ResumeConclude
  <2>4. RecoveredDurably /\ AllDomains => FullRecovery
    BY <2>3 DEF RecoveredDurably, FullRecovery
  <2>5. Closes
    BY <2>2, <2>4, Endings DEF SealRecoveryReceipt
  <2> QED BY <1>1, <2>1, <2>5, StatusEstablished, Statuses
<1> QED BY <1>2, <1>3, <1>4, <1>5

\* Of a resumed preparation.
LEMMA ResumedPreparationEnds ==
  ASSUME Typed,
         \/ ReplayFailedCapture \/ ResumeCapture \/ ResumePayloads
         \/ ResumeIncomingSynchronization \/ ResumeRecoverySynchronization
  PROVE  Closes /\ Profiled
<1>1. profile \in [Domain -> Status]
  BY DEF Typed
<1>2. FailPreparation => Closes
  BY Endings DEF FailPreparation
<1>3. \A u : PreparationFailure(u) \in Status
  BY Statuses DEF PreparationFailure
<1>4. CASE ReplayFailedCapture
  BY <1>1, <1>2, <1>3, <1>4, StatusEstablished DEF ReplayFailedCapture
<1>5. CASE ResumeCapture
  <2>1. profile' = profile \/ \E u : Establish("recovery_staging", PreparationFailure(u))
    BY <1>5 DEF ResumeCapture
  <2>2. Continue("captures") \/ FailPreparation
    BY <1>5 DEF ResumeCapture
  <2> QED BY <1>1, <1>2, <1>3, <2>1, <2>2, Endings, StatusEstablished
<1>6. CASE ResumePayloads
  <2>1. Establish("incoming_staging", "visible")
          \/ \E u : Establish("incoming_staging", PreparationFailure(u))
    BY <1>6 DEF ResumePayloads
  <2>2. Continue("sync_incoming") \/ FailPreparation
    BY <1>6 DEF ResumePayloads
  <2> QED BY <1>1, <1>2, <1>3, <2>1, <2>2, Endings, StatusEstablished, Statuses
<1>7. CASE ResumeIncomingSynchronization \/ ResumeRecoverySynchronization
  <2>1. ASSUME NEW kind, NEW next, next # "over", ResumeSynchronization(kind, next)
        PROVE  Closes /\ Profiled
    <3>1. \E s \in Synchronized : Establish(DomainOf(kind), s)
      BY <2>1 DEF ResumeSynchronization
    <3>2. Continue(next) \/ FailPreparation
      BY <2>1 DEF ResumeSynchronization
    <3> QED BY <1>1, <1>2, <2>1, <3>1, <3>2, Endings, StatusEstablished, Statuses
  <2> QED BY <1>7, <2>1 DEF ResumeIncomingSynchronization, ResumeRecoverySynchronization
<1> QED BY <1>4, <1>5, <1>6, <1>7

\* Of any step between two crashes.
LEMMA WalkEnds ==
  ASSUME Typed, FreshStep \/ ResumedStep
  PROVE  Closes /\ Profiled
<1>1. CASE FreshStep
  BY <1>1, PreparationEnds, RejectedEnds, ActiveEnds, CompletionEnds, RecoveryEnds
  DEF FreshStep, FreshNext
<1>2. CASE ResumedStep
  <2>1. session = "resumed" /\ (CommonStep \/ ResumedPhase)
    BY <1>2 DEF ResumedStep
  <2>2. CASE CommonStep
    <3>1. CASE CapturesDone \/ NoPayloads
      <4>1. pc' # "over" /\ UNCHANGED <<receipt, refused>> /\ profile' = profile
        BY <3>1 DEF CapturesDone, NoPayloads, HandOver
      <4> QED BY <4>1, StatusEstablished DEF Closes, Typed
    <3>2. CASE Prepared
      BY <3>2, Endings, StatusEstablished DEF Prepared, Typed
    <3>3. CASE RejectedPhase
      BY <3>3, RejectedEnds
    <3>4. CASE ExecuteActive \/ ActiveMutated
      BY <3>4, ActiveEnds DEF ActivePhase
    <3>5. CASE \/ ObserveMatched \/ ObserveUnmatched \/ PublishCompletedEvidence
               \/ SynchronizeCompletedEvidence
      BY <3>5, CompletionEnds DEF Completion
    <3>6. CASE RecoverNothing \/ RecoverUnselected
      BY <3>6, UnrecoveredEnds
    <3> QED BY <2>2, <3>1, <3>2, <3>3, <3>4, <3>5, <3>6 DEF CommonStep
  <2>3. CASE ResumedPhase
    BY <2>1, <2>3, ResumedPreparationEnds, ActiveEnds, ResumedRecoveryEnds, CompletionEnds
    DEF ResumedPhase
  <2> QED BY <2>1, <2>2, <2>3
<1> QED BY <1>1, <1>2

\* What the journal says of a domain is a status.
LEMMA ViewTyped ==
  ASSUME facts \in Seq(Fact), NEW d \in Domain
  PROVE  /\ View[d] \in Status
         /\ Moving(d) # {} =>
              /\ Highest(Moving(d)) \in Moving(d)
              /\ \A i \in Moving(d) : i <= Highest(Moving(d))
              /\ View[d] = Says(facts[Highest(Moving(d))])
         /\ Moving(d) = {} => View[d] = NothingAttempted[d]
<1>1. DOMAIN facts = 1 .. Len(facts) /\ Len(facts) \in Nat
  OBVIOUS
<1>2. Moving(d) \subseteq DOMAIN facts
  BY DEF Moving
<1>3. Moving(d) # {} =>
        Highest(Moving(d)) \in Moving(d) /\ \A i \in Moving(d) : i <= Highest(Moving(d))
  BY <1>1, <1>2, Extremes
<1>4. View[d] = IF Moving(d) = {} THEN NothingAttempted[d]
                ELSE Says(facts[Highest(Moving(d))])
  BY DEF View
<1>5. NothingAttempted[d] \in Status
  BY Statuses DEF NothingAttempted
<1>6. ASSUME NEW f \in Fact PROVE Says(f) \in Status
  <2>1. f.kind \in Synchronizing => f.fact \in Status
    BY Statuses DEF Fact
  <2> QED BY <2>1, Statuses DEF Says
<1>7. Moving(d) # {} => facts[Highest(Moving(d))] \in Fact
  BY <1>2, <1>3
<1> QED BY <1>3, <1>4, <1>5, <1>6, <1>7

\* What the journal holds of a synchronization is a status.
LEMMA SynchronizationTyped ==
  ASSUME facts \in Seq(Fact), NEW kind \in Synchronizing
  PROVE  /\ SynchronizationStatus(kind) \in Status
         /\ Recorded(kind, NoPath) =>
              SynchronizationStatus(kind) \in FactsOf(kind, NoPath)
<1>1. ASSUME NEW s \in FactsOf(kind, NoPath) PROVE s \in Status
  <2>1. PICK i \in DOMAIN facts : facts[i].kind = kind /\ facts[i].fact = s
    BY RecordedByEvent
  <2>2. facts[i] \in Fact
    OBVIOUS
  <2> QED BY <2>1, <2>2, Statuses DEF Fact
<1>2. Recorded(kind, NoPath) =>
        (CHOOSE f \in FactsOf(kind, NoPath) : TRUE) \in FactsOf(kind, NoPath)
  BY DEF Recorded
<1> QED BY <1>1, <1>2, Statuses DEF SynchronizationStatus

\* What the resumed phases rebuild is a profile.
LEMMA RebuiltTyped ==
  ASSUME facts \in Seq(Fact)
  PROVE  Rebuilt \in [Domain -> Status] /\ PreparedProfile \in [Domain -> Status]
<1>1. ASSUME NEW d \in Domain PROVE Rebuilt[d] \in Status
  BY ViewTyped, Statuses DEF Rebuilt
<1>2. Rebuilt \in [Domain -> Status]
  BY <1>1 DEF Rebuilt
<1> QED BY <1>2, Statuses DEF PreparedProfile

\* A restart.
LEMMA RestartEnds ==
  ASSUME Typed, Ended, Restart
  PROVE  /\ Closes /\ Profiled
         /\ \A r \in receipt' : r.outcome \notin {"completed", "failed_fully_recovered"}
<1>1. facts \in Seq(Fact)
  BY DEF Typed
<1>2. pc = "crashed" /\ receipt = {} /\ refused = "none"
  BY DEF Restart, RefuseResumed, ResumePreparing, ReplayFailedRejected, ResumeForward,
         ReplayActiveSynchronization, ResumeInterrupted, Restarted, Ended
<1>3. \A outcome, recovery, paths, journal :
        /\ Fail(outcome, recovery, paths, journal)
        /\ outcome # "completed" /\ outcome # "failed_fully_recovered"
        => /\ Closes
           /\ \A r \in receipt' : r.outcome \notin {"completed", "failed_fully_recovered"}
  <2>1. ASSUME NEW outcome, NEW recovery, NEW paths, NEW journal,
               Fail(outcome, recovery, paths, journal),
               outcome # "completed", outcome # "failed_fully_recovered"
        PROVE  \A r \in receipt' : r.outcome \notin {"completed", "failed_fully_recovered"}
    BY <1>2, <2>1 DEF Fail, Reject
  <2> QED BY <2>1, Endings
<1>4. FailPreparation => /\ Closes
           /\ \A r \in receipt' : r.outcome \notin {"completed", "failed_fully_recovered"}
  BY <1>3 DEF FailPreparation
<1>5. \A outcome, recovery : FailRejected(outcome, recovery)
        /\ outcome # "completed" /\ outcome # "failed_fully_recovered"
        => /\ Closes
           /\ \A r \in receipt' : r.outcome \notin {"completed", "failed_fully_recovered"}
  BY <1>3 DEF FailRejected
<1>6. \A d, s : s \in Status => [NothingAttempted EXCEPT ![d] = s] \in [Domain -> Status]
  BY Statuses DEF NothingAttempted
<1>7. CASE RefuseResumed
  <2>1. /\ SynchronizationStatus("synchronize_incoming_staging") \in Status
        /\ SynchronizationStatus("synchronize_recovery_staging") \in Status
    BY <1>1, SynchronizationTyped DEF Synchronizing
  <2>2. Profiled
    BY <1>7, <2>1, Statuses DEF RefuseResumed, Profiled, NothingAttempted
  <2> QED BY <1>4, <1>7, <2>2 DEF RefuseResumed
<1>8. CASE ResumePreparing
  <2>1. Profiled
    BY <1>8, Statuses DEF ResumePreparing, Profiled, NothingAttempted
  <2>2. pc' # "over" /\ UNCHANGED <<receipt, refused>>
    BY <1>8 DEF ResumePreparing
  <2> QED BY <1>2, <2>1, <2>2 DEF Closes
<1>9. CASE ReplayFailedRejected
  <2>1. \E s \in Status : profile' = [PreparedProfile EXCEPT !["rejected_object_store"] = s]
    <3>1. SynchronizationStatus("synchronize_rejected_store") \in Status
      BY <1>1, SynchronizationTyped DEF Synchronizing
    <3> QED BY <1>9, <3>1, Statuses DEF ReplayFailedRejected
  <2>2. Profiled
    BY <1>1, <2>1, RebuiltTyped DEF Profiled
  <2>3. \/ FailRejected("indeterminate", "requires_authoritative_observation")
        \/ FailRejected("failed_before_target_mutation", "unchanged")
        \/ FailRejected("effects_visible_durability_unconfirmed", "recovery_assets_retained")
    BY <1>9 DEF ReplayFailedRejected
  <2> QED BY <1>5, <2>2, <2>3
<1>10. CASE ResumeForward
  <2>1. Profiled
    BY <1>1, <1>10, RebuiltTyped DEF ResumeForward, Profiled
  <2>2. pc' # "over" /\ UNCHANGED <<receipt, refused>>
    BY <1>10 DEF ResumeForward
  <2> QED BY <1>2, <2>1, <2>2 DEF Closes
<1>11. \A why : Interrupt(why) => receipt' = {}
  BY <1>2 DEF Interrupt, Reject
<1>12. CASE ReplayActiveSynchronization
  <2>1. Profiled
    BY <1>1, <1>12, RebuiltTyped DEF ReplayActiveSynchronization, Profiled
  <2>2. \E why : Interrupt(why)
    BY <1>12 DEF ReplayActiveSynchronization
  <2> QED BY <1>11, <2>1, <2>2, InterruptEnds
<1>13. CASE ResumeInterrupted
  <2>1. InferredStatus(InferredCause) \in Status
    BY <1>1, ViewTyped, Statuses DEF InferredStatus, Domain
  <2>2. Profiled
    BY <1>1, <1>13, <2>1, RebuiltTyped DEF ResumeInterrupted, Profiled
  <2>3. Reject("interrupted_effect") \/ Interrupt(InferredCause)
    BY <1>13 DEF ResumeInterrupted
  <2>4. Reject("interrupted_effect") => receipt' = {}
    BY <1>2 DEF Reject
  <2> QED BY <1>11, <2>2, <2>3, <2>4, Endings, InterruptEnds
<1> QED BY <1>7, <1>8, <1>9, <1>10, <1>12, <1>13 DEF Restart

\* An attempt that is over left a receipt or an exception.
LEMMA ClosesEnded ==
  ASSUME Ended, pc # "over", Closes
  PROVE  Ended'
BY DEF Ended, Closes, Ending

\* A crash leaves a profile and no receipt.
LEMMA CrashProfiled ==
  ASSUME Crash
  PROVE  Profiled /\ Ended'
BY Statuses DEF Crash, Profiled, NothingAttempted, Ended

\* What has been observed of the paths.
LEMMA ObservedTyped ==
  ASSUME seen \in [Paths -> Verdict \cup {"none"}],
         Observing \/ seen' \in CrashVerdicts
  PROVE  seen' \in [Paths -> Verdict \cup {"none"}]
BY DEF Observing, CrashVerdicts

----------------------------------------------------------------------------
(***************************************************************************)
(* The invariant.                                                          *)
(***************************************************************************)
LEMMA InitKept == Init => Kept
<1> SUFFICES ASSUME Init PROVE Kept
  OBVIOUS
<1>1. /\ attempt \in Attempts /\ pc = "admit" /\ facts = << >>
      /\ profile = [d \in Domain |-> "not_attempted"]
      /\ receipt = {} /\ refused = "none" /\ session = "fresh" /\ stage = "preparing"
      /\ intended = {} /\ seen = Unseen
  BY DEF Init, FreshInit
<1>2. DOMAIN facts = {} /\ facts \in Seq(Fact)
  BY <1>1
<1>3. \A kind : Unrecorded(kind)
  BY <1>2 DEF Unrecorded
<1>4. Typed
  BY <1>1, <1>2, Statuses DEF Typed, Early, Unseen
<1>5. Once /\ Ended
  BY <1>1, <1>2 DEF Once, Ended
<1>6. Staged /\ Ahead
  BY <1>1, <1>2, <1>3 DEF Staged, Ahead, Early, InPreparation, InMutation, Completing,
     Recovering
<1>7. Intents
  BY <1>1, <1>2 DEF Intents, LostRejected, LostActive, Recovering
<1>8. Gathered
  BY <1>1, <1>2, <1>3 DEF Gathered
<1>9. Mutated
  BY <1>1, <1>3 DEF Mutated, Forward, InMutation, Completing
<1>10. Reversed
  BY <1>2 DEF Reversed
<1> QED BY <1>4, <1>5, <1>6, <1>7, <1>8, <1>9, <1>10 DEF Kept

\* Every step keeps the invariant.
LEMMA NextKept ==
  ASSUME Kept, [Next]_allVars
  PROVE  Kept'
<1>1. /\ Typed /\ Once /\ Ended /\ Staged /\ Ahead /\ Intents /\ Gathered /\ Mutated
      /\ Reversed
  BY DEF Kept
<1>2. CASE FreshStep \/ ResumedStep
  <2>1. Walk
    BY <1>1, <1>2, FreshWalk, ResumedWalk
  <2>2. /\ facts' \in Seq(Fact)
        /\ Once' /\ Staged' /\ Ahead' /\ Intents' /\ Gathered' /\ Mutated' /\ Reversed'
    <3>1. CASE Quiet
      <4>1. facts' \in Seq(Fact)
        BY <1>1, <3>1 DEF Typed, Quiet
      <4> QED BY <1>1, <2>1, <3>1, <4>1, QuietKeeps
    <3>2. CASE Adding
      BY <1>1, <2>1, <3>2, AddingKeeps
    <3> QED BY <2>1, <3>1, <3>2 DEF Walk
  <2>3. Closes /\ Profiled
    BY <1>1, <1>2, WalkEnds
  <2>4. attempt' = attempt /\ session' = session /\ intended' = intended /\ pc # "over"
    BY <2>1 DEF Walk
  <2>5. Ended'
    BY <1>1, <2>3, <2>4, ClosesEnded
  <2>6. /\ pc' \in Early \cup Forward \cup Recovering \cup {"over", "crashed"}
        /\ stage' \in {"preparing", "mutating", "visible", "recovery", "external"}
    BY <1>1, <2>1, WalkPositions
  <2>7. seen' \in [Paths -> Verdict \cup {"none"}]
    BY <1>1, <1>2, ObservedTyped DEF Typed, FreshStep, ResumedStep, Journaling
  <2>8. Typed'
    <3>1. Intent' = Intent
      BY <2>4, SamePlan DEF Intent
    <3> QED BY <1>1, <2>2, <2>3, <2>4, <2>6, <2>7, <3>1 DEF Typed, Profiled
  <2> QED BY <2>2, <2>5, <2>8 DEF Kept
<1>3. CASE Crash
  <2>1. Crashing
    BY <1>3, CrashShaped
  <2>2. /\ facts' \in Seq(Fact) /\ intended' \subseteq Intent
        /\ Once' /\ Staged' /\ Ahead' /\ Intents' /\ Gathered' /\ Mutated' /\ Reversed'
    BY <1>1, <2>1, CrashKeeps
  <2>3. Profiled /\ Ended'
    BY <1>3, CrashProfiled
  <2>4. attempt' = attempt /\ session' = session /\ pc' = "crashed"
        /\ stage' \in {stage, "recovery"}
    BY <2>1 DEF Crashing
  <2>5. seen' \in [Paths -> Verdict \cup {"none"}]
    BY <1>1, <1>3, ObservedTyped DEF Typed, Crash
  <2>6. Typed'
    <3>1. Intent' = Intent
      BY <2>4, SamePlan DEF Intent
    <3> QED BY <1>1, <2>2, <2>3, <2>4, <2>5, <3>1 DEF Typed, Profiled
  <2> QED BY <2>2, <2>3, <2>6 DEF Kept
<1>4. CASE Restart
  <2>1. Restarting
    BY <1>1, <1>4, RestartShaped
  <2>2. /\ facts' \in Seq(Fact)
        /\ Once' /\ Staged' /\ Ahead' /\ Intents' /\ Gathered' /\ Mutated' /\ Reversed'
    BY <1>1, <2>1, RestartKeeps
  <2>3. Closes /\ Profiled
    BY <1>1, <1>4, RestartEnds
  <2>4. attempt' = attempt /\ session' = "resumed" /\ intended' = intended /\ pc = "crashed"
    BY <2>1 DEF Restarting
  <2>5. Ended'
    BY <1>1, <2>3, <2>4, ClosesEnded
  <2>6. stage' \in {stage, "recovery"}
        /\ pc' \in {"captures", "over", "recover"} \cup InMutation
    BY <2>1 DEF Restarting, Reprepares, Unpublished, Proceeds, Interrupts
  <2>7. seen' = seen
    BY <1>4 DEF Restart, RefuseResumed, ResumePreparing, ReplayFailedRejected,
       ResumeForward, ReplayActiveSynchronization, ResumeInterrupted, Restarted
  <2>8. Typed'
    <3>1. Intent' = Intent
      BY <2>4, SamePlan DEF Intent
    <3>2. pc' \in Early \cup Forward \cup Recovering \cup {"over", "crashed"}
      BY <2>6 DEF Early, InPreparation, Forward, Recovering
    <3> QED BY <1>1, <2>2, <2>3, <2>4, <2>6, <2>7, <3>1, <3>2 DEF Typed, Profiled
  <2> QED BY <2>2, <2>5, <2>8 DEF Kept
<1>5. CASE UNCHANGED allVars
  <2>1. /\ attempt' = attempt /\ pc' = pc /\ profile' = profile /\ facts' = facts
        /\ receipt' = receipt /\ refused' = refused /\ session' = session
        /\ stage' = stage /\ intended' = intended /\ seen' = seen
    BY <1>5 DEF allVars, vars, restartVars
  <2>2. /\ \A kind, p : FactsOf(kind, p)' = FactsOf(kind, p)
        /\ \A kind, p : Recorded(kind, p)' <=> Recorded(kind, p)
        /\ \A kind : Unrecorded(kind)' <=> Unrecorded(kind)
        /\ Captures' = Captures /\ Rejecteds' = Rejecteds /\ Actives' = Actives
        /\ Left("capture_old_object", Captures)' = Left("capture_old_object", Captures)
        /\ Candidates' = Candidates
        /\ \A f : Planned(f)' <=> Planned(f)
        /\ \A p : Recovered(p)' <=> Recovered(p)
    BY <2>1, SameFacts
  <2>3. LostRejected' = LostRejected /\ LostActive' = LostActive
        /\ (\A i : Assumed(i)' <=> Assumed(i)) /\ (AllActive' <=> AllActive)
        /\ Intent' = Intent
    BY <2>1, <2>2 DEF LostRejected, LostActive, Assumed, AllActive, Intent
  <2>4. Typed' /\ Once' /\ Ended'
    BY <1>1, <2>1, <2>3 DEF Typed, Once, Ended
  <2>5. Staged'
    BY <1>1, <2>1, <2>2 DEF Staged
  <2>6. Ahead'
    BY <1>1, <2>1, <2>2 DEF Ahead
  <2>7. Intents'
    BY <1>1, <2>1, <2>2, <2>3 DEF Intents
  <2>8. Gathered'
    BY <1>1, <2>1, <2>2 DEF Gathered
  <2>9. Mutated' /\ Reversed'
    BY <1>1, <2>1, <2>2, <2>3 DEF Mutated, Reversed
  <2> QED BY <2>4, <2>5, <2>6, <2>7, <2>8, <2>9 DEF Kept
<1> QED BY <1>2, <1>3, <1>4, <1>5 DEF Next

\* The journal of an attempt, its position and what is left of it by a crash
\* stay consistent.
THEOREM JournalKept == Spec => []Kept
<1>1. Init => Kept
  BY InitKept
<1>2. Kept /\ [Next]_allVars => Kept'
  BY NextKept
<1> QED BY <1>1, <1>2, PTL DEF Spec

\* No effect has two terminal events, whatever is lost in between, and an
\* attempt that is over left one receipt or an exception.
THEOREM ReceiptsTyped == Spec => []TypeOK
<1>1. Kept => TypeOK
  <2> SUFFICES ASSUME Kept PROVE TypeOK
    OBVIOUS
  <2>1. Typed /\ Once /\ Ended
    BY DEF Kept
  <2>2. Cardinality(receipt) <= 1
    <3>1. CASE receipt = {}
      BY <3>1, FS_EmptySet
    <3>2. CASE receipt # {}
      <4>1. PICK r \in receipt : receipt = {r}
        BY <2>1, <3>2 DEF Ended
      <4>2. Cardinality({r}) = 1
        BY FS_Singleton, Zenon
      <4> QED BY <4>1, <4>2
    <3> QED BY <3>1, <3>2
  <2> QED BY <2>1, <2>2 DEF Typed, Once, Ended, TypeOK
<1> QED BY <1>1, JournalKept, PTL

----------------------------------------------------------------------------
(***************************************************************************)
(* What the durability profile stands on.                                  *)
(***************************************************************************)
Touches(f) == f.kind \notin Synchronizing /\ f.fact \in {"completed", "indeterminate"}

Doubtful ==
  session = "fresh"
    /\ \E p \in Paths : "indeterminate" \in FactsOf("recover_active_object", p)
Backed(d) ==
  profile[d] = "confirmed" /\ ~(d = "active_namespace" /\ Doubtful)
    => DurablyRecorded(d)

\* A step changes the status of one domain, by an event of this domain at most,
\* and says confirmed of it only if the journal shows it.
Changes(d) ==
  /\ d \in Domain
  /\ \A e \in Domain \ {d} : profile'[e] = profile[e]
  /\ \/ facts' = facts
     \/ \E f : facts' = Append(facts, f) /\ DomainOf(f.kind) = d
  /\ d \in Recordable => Backed(d)'
  /\ /\ pc \in Forward /\ d \in {"rejected_object_store", "active_namespace"}
     /\ profile'[d] = "not_attempted"
     => /\ profile[d] = "not_attempted"
        /\ \/ facts' = facts
           \/ \E f : facts' = Append(facts, f) /\ ~Touches(f)
  /\ d = "completed_evidence" => profile'[d] = profile[d] \/ pc' = "over"

\* What a step relies on when it goes into mutation, to publication of the
\* evidence, on with captures and out of recovery.
Gated ==
  /\ pc' = "rejected" =>
       \/ pc = "rejected"
       \/ PreparedBoundary(profile) /\ facts' = facts
  /\ pc' = "publish_evidence" =>
       CompletedDurability(EvidenceDurability("confirmed")) /\ facts' = facts
  /\ session = "resumed" /\ pc' = "captures" =>
       profile'["recovery_staging"] # "confirmed"
  /\ session = "resumed" /\ pc' = "conclude" /\ profile'["active_namespace"] = "confirmed"
       => RecoveredNamespaceConfirmed'

\* The parts of the invariant, by name.
LEMMA GroundedParts ==
  Grounded <=>
    /\ \A d \in Recordable : Backed(d)
    /\ pc # "over" => profile["completed_evidence"] = "not_attempted"
    /\ session = "resumed" /\ pc = "captures" => profile["recovery_staging"] # "confirmed"
    /\ stage # "preparing" =>
         DurablyRecorded("incoming_staging") /\ DurablyRecorded("recovery_staging")
    /\ pc \in Forward =>
         \A d \in {"rejected_object_store", "active_namespace"} :
           profile[d] = "not_attempted" => Unchanging(d)
    /\ pc \in {"publish_evidence", "sync_evidence", "resync_evidence"} =>
         \A d \in MustBeDurable \ {"completed_evidence"} : DurablyRecorded(d)
    /\ pc = "conclude" /\ session = "resumed" /\ profile["active_namespace"] = "confirmed"
         => RecoveredNamespaceConfirmed
BY DEF Grounded, Backed, Doubtful

\* A sequence with an element appended.
LEMMA AppendedAny ==
  ASSUME facts \in Seq(Fact), NEW f, facts' = Append(facts, f)
  PROVE  /\ DOMAIN facts = 1 .. Len(facts) /\ Len(facts) \in Nat
         /\ DOMAIN facts' = 1 .. (Len(facts) + 1)
         /\ \A i \in DOMAIN facts : i \in DOMAIN facts' /\ facts'[i] = facts[i]
         /\ \A i \in DOMAIN facts' : i \in DOMAIN facts \/ i = Len(facts) + 1
         /\ facts'[Len(facts) + 1] = f
         /\ \A i \in DOMAIN facts : i < Len(facts) + 1
OBVIOUS

\* A durable domain stays durable until something changes it.
LEMMA DurableAfter ==
  ASSUME facts \in Seq(Fact), NEW f, facts' = Append(facts, f), NEW d
  PROVE  /\ DurablyRecorded(d) /\ (DomainOf(f.kind) # d \/ ~Touches(f)) => DurablyRecorded(d)'
         /\ Unchanging(d) /\ (DomainOf(f.kind) # d \/ ~Touches(f)) => Unchanging(d)'
         /\ f.kind \in Synchronizing /\ f.fact = "confirmed" /\ DomainOf(f.kind) = d =>
              DurablyRecorded(d)'
<1>1. /\ DOMAIN facts = 1 .. Len(facts) /\ Len(facts) \in Nat
      /\ DOMAIN facts' = 1 .. (Len(facts) + 1)
      /\ \A i \in DOMAIN facts : i \in DOMAIN facts' /\ facts'[i] = facts[i]
      /\ \A i \in DOMAIN facts' : i \in DOMAIN facts \/ i = Len(facts) + 1
      /\ facts'[Len(facts) + 1] = f
      /\ \A i \in DOMAIN facts : i < Len(facts) + 1
  BY AppendedAny
<1>2. ASSUME DurablyRecorded(d), DomainOf(f.kind) # d \/ ~Touches(f)
      PROVE  DurablyRecorded(d)'
  <2>1. ASSUME NEW i \in DOMAIN facts',
               DomainOf(facts'[i].kind) = d, facts'[i].kind \notin Synchronizing,
               facts'[i].fact \in {"completed", "indeterminate"}
        PROVE  \E j \in DOMAIN facts' :
                 /\ i < j /\ facts'[j].kind \in Synchronizing
                 /\ DomainOf(facts'[j].kind) = d /\ facts'[j].fact = "confirmed"
    <3>1. i \in DOMAIN facts
      BY <1>1, <1>2, <2>1 DEF Touches
    <3>2. PICK j \in DOMAIN facts :
            /\ i < j /\ facts[j].kind \in Synchronizing
            /\ DomainOf(facts[j].kind) = d /\ facts[j].fact = "confirmed"
      BY <1>1, <1>2, <2>1, <3>1 DEF DurablyRecorded, ChangedAt, SynchronizedAfter
    <3> QED BY <1>1, <3>2
  <2> QED BY <2>1 DEF DurablyRecorded, ChangedAt, SynchronizedAfter
<1>3. ASSUME Unchanging(d), DomainOf(f.kind) # d \/ ~Touches(f)
      PROVE  Unchanging(d)'
  BY <1>1, <1>3 DEF Unchanging, Touches
<1>4. ASSUME f.kind \in Synchronizing, f.fact = "confirmed", DomainOf(f.kind) = d
      PROVE  DurablyRecorded(d)'
  <2>1. ASSUME NEW i \in DOMAIN facts', facts'[i].kind \notin Synchronizing
        PROVE  \E j \in DOMAIN facts' :
                 /\ i < j /\ facts'[j].kind \in Synchronizing
                 /\ DomainOf(facts'[j].kind) = d /\ facts'[j].fact = "confirmed"
    <3>1. i \in DOMAIN facts
      BY <1>1, <1>4, <2>1
    <3>2. Len(facts) + 1 \in DOMAIN facts' /\ i < Len(facts) + 1
      BY <1>1, <3>1
    <3> QED BY <1>1, <1>4, <3>2
  <2> QED BY <2>1 DEF DurablyRecorded, ChangedAt, SynchronizedAfter
<1> QED BY <1>2, <1>3, <1>4

\* What was never changed is durable.
LEMMA UnchangingDurable == \A d : Unchanging(d) => DurablyRecorded(d)
BY DEF Unchanging, DurablyRecorded, ChangedAt, SynchronizedAfter

\* The effects that change a domain.
LEMMA DomainEffects ==
  ASSUME NEW f \in Fact, f.kind \notin Synchronizing
  PROVE  /\ DomainOf(f.kind) = "incoming_staging" => f.kind = "stage_incoming_payload"
         /\ DomainOf(f.kind) = "recovery_staging" => f.kind = "capture_old_object"
         /\ DomainOf(f.kind) = "rejected_object_store" => f.kind = "publish_rejected_object"
         /\ DomainOf(f.kind) = "active_namespace" =>
              f.kind \in {"publish_active_object", "recover_active_object"}
<1>1. f.kind \in Preparing \cup Publishing
        \cup {"recover_active_object", "publish_completed_evidence"}
  BY DEF Fact, Kind
<1> QED BY <1>1 DEF DomainOf, Preparing, Publishing

\* A preparation domain is durable once its synchronization was confirmed.
LEMMA GatheredDurable ==
  ASSUME facts \in Seq(Fact), Gathered
  PROVE  /\ "confirmed" \in FactsOf("synchronize_incoming_staging", NoPath) =>
              DurablyRecorded("incoming_staging")
         /\ "confirmed" \in FactsOf("synchronize_recovery_staging", NoPath) =>
              DurablyRecorded("recovery_staging")
<1>1. ASSUME NEW kind, NEW d,
             \/ kind = "synchronize_incoming_staging" /\ d = "incoming_staging"
             \/ kind = "synchronize_recovery_staging" /\ d = "recovery_staging",
             "confirmed" \in FactsOf(kind, NoPath)
      PROVE  DurablyRecorded(d)
  <2>1. PICK j \in DOMAIN facts : facts[j].kind = kind /\ facts[j].fact = "confirmed"
    BY <1>1, RecordedByEvent
  <2>2. facts[j].kind \in Synchronizing /\ DomainOf(facts[j].kind) = d
    BY <1>1, <2>1 DEF Synchronizing, DomainOf
  <2>3. ASSUME NEW i \in DOMAIN facts,
               DomainOf(facts[i].kind) = d, facts[i].kind \notin Synchronizing
        PROVE  i < j
    <3>1. facts[i] \in Fact
      OBVIOUS
    <3>2. \/ facts[i].kind = "stage_incoming_payload" /\ d = "incoming_staging"
          \/ facts[i].kind = "capture_old_object" /\ d = "recovery_staging"
      BY <1>1, <2>3, <3>1, DomainEffects
    <3> QED BY <1>1, <2>1, <3>2 DEF Gathered
  <2> QED BY <2>1, <2>2, <2>3 DEF DurablyRecorded, ChangedAt, SynchronizedAfter
<1> QED BY <1>1

\* A domain that the journal calls confirmed is durable.
LEMMA ViewDurable ==
  ASSUME facts \in Seq(Fact), NEW d \in Domain \ {"journal", "completed_evidence"},
         View[d] = "confirmed"
  PROVE  /\ DurablyRecorded(d)
         /\ Moving(d) # {}
         /\ facts[Highest(Moving(d))].kind \in Synchronizing
         /\ facts[Highest(Moving(d))].fact = "confirmed"
<1> DEFINE h == Highest(Moving(d))
<1>1. Moving(d) # {}
  BY ViewTyped DEF NothingAttempted
<1>2. h \in Moving(d) /\ (\A i \in Moving(d) : i <= h) /\ Says(facts[h]) = "confirmed"
  BY <1>1, ViewTyped
<1> HIDE DEF h
<1>3. h \in DOMAIN facts /\ DomainOf(facts[h].kind) = d
  BY <1>2 DEF Moving, Moves
<1>4. facts[h].kind \in Synchronizing /\ facts[h].fact = "confirmed"
  BY <1>2 DEF Says
<1>5. ASSUME NEW i \in DOMAIN facts,
             DomainOf(facts[i].kind) = d, facts[i].kind \notin Synchronizing,
             facts[i].fact \in {"completed", "indeterminate"}
      PROVE  i < h
  <2>1. facts[i].kind # "publish_completed_evidence"
    BY <1>5 DEF DomainOf
  <2>2. Moves(facts[i], d)
    BY <1>5, <2>1 DEF Moves, MakesVisible, LeavesUnknown
  <2>3. i \in Moving(d)
    BY <2>2 DEF Moving
  <2>4. i # h
    BY <1>4, <1>5
  <2>5. i \in Nat /\ h \in Nat
    BY <1>3
  <2> QED BY <1>2, <2>3, <2>4, <2>5
<1>6. DurablyRecorded(d)
  BY <1>3, <1>4, <1>5 DEF DurablyRecorded, ChangedAt, SynchronizedAfter
<1> QED BY <1>1, <1>4, <1>6 DEF h

----------------------------------------------------------------------------
(***************************************************************************)
(* Kinds of change.                                                        *)
(***************************************************************************)
Marked == {"incoming_staging", "recovery_staging", "rejected_object_store",
           "active_namespace"}

\* The domains that are marked, and those that a receipt must show.
LEMMA MarkedDomains ==
  /\ Marked \subseteq Domain /\ "journal" \in Domain /\ "completed_evidence" \in Domain
  /\ "journal" \notin Recordable /\ "completed_evidence" \notin Marked
  /\ "journal" \notin Marked
  /\ Marked \subseteq Recordable
  /\ Recordable \subseteq Marked \cup {"completed_evidence"}
BY DEF Marked, Domain, Recordable

\* Nothing is recorded or established.
LEMMA Unmoved ==
  ASSUME profile' = profile, facts' = facts
  PROVE  Changes("journal")
<1>1. "journal" \notin Recordable
  BY MarkedDomains
<1> QED BY <1>1, MarkedDomains DEF Changes

\* A domain is no longer, or not yet, confirmed.
LEMMA Worsened ==
  ASSUME Typed, NEW d \in Marked, NEW s \in Status \ {"confirmed", "not_attempted"},
         Establish(d, s),
         \/ facts' = facts
         \/ \E f : facts' = Append(facts, f) /\ DomainOf(f.kind) = d
  PROVE  Changes(d)
<1>1. d \in Domain /\ d # "completed_evidence"
  BY MarkedDomains
<1>2. profile'[d] = s /\ \A e \in Domain \ {d} : profile'[e] = profile[e]
  BY <1>1 DEF Typed, Establish
<1> QED BY <1>1, <1>2 DEF Changes, Backed

\* A domain gets a status that the journal shows.
LEMMA Shown ==
  ASSUME Typed, NEW d \in Marked, NEW s \in Status \ {"not_attempted"},
         Establish(d, s),
         \/ facts' = facts
         \/ \E f : facts' = Append(facts, f) /\ DomainOf(f.kind) = d,
         s = "confirmed" => DurablyRecorded(d)'
  PROVE  Changes(d)
<1>1. d \in Domain /\ d # "completed_evidence"
  BY MarkedDomains
<1>2. profile'[d] = s /\ \A e \in Domain \ {d} : profile'[e] = profile[e]
  BY <1>1 DEF Typed, Establish
<1> QED BY <1>1, <1>2 DEF Changes, Backed

\* A synchronization is recorded with its status.
LEMMA Synchronizes ==
  ASSUME Typed, NEW kind \in Synchronizing, NEW status \in Synchronized, NEW s \in Status,
         Record(kind, NoPath, status, FALSE), DomainOf(kind) \in Marked,
         Establish(DomainOf(kind), s), s # "not_attempted",
         s = "confirmed" => status = "confirmed"
  PROVE  Changes(DomainOf(kind))
<1> DEFINE f == [kind |-> kind, path |-> NoPath, fact |-> status, exact |-> FALSE]
<1>1. facts' = Append(facts, f)
  BY DEF Record
<1>2. f.kind = kind /\ f.fact = status
  OBVIOUS
<1> HIDE DEF f
<1>3. s = "confirmed" => DurablyRecorded(DomainOf(kind))'
  BY <1>1, <1>2, DurableAfter DEF Typed
<1> QED BY <1>1, <1>2, <1>3, Shown

\* An effect leaves the domain as it was.
LEMMA Untouched ==
  ASSUME Typed, Grounded, session' = session, NEW kind, NEW p, NEW fact, NEW exact,
         Record(kind, p, fact, exact), DomainOf(kind) \in Marked,
         fact \notin {"completed", "indeterminate"}, profile' = profile
  PROVE  Changes(DomainOf(kind))
<1> DEFINE f == [kind |-> kind, path |-> p, fact |-> fact, exact |-> exact]
           d == DomainOf(kind)
<1>1. facts' = Append(facts, f)
  BY DEF Record
<1>2. f.kind = kind /\ f.fact = fact /\ f.path = p
  OBVIOUS
<1> HIDE DEF f
<1>3. ~Touches(f)
  BY <1>2 DEF Touches
<1>4. Backed(d) /\ d \in Domain
  BY MarkedDomains, GroundedParts
<1>5. DurablyRecorded(d) => DurablyRecorded(d)'
  BY <1>1, <1>3, DurableAfter DEF Typed
<1>6. ASSUME Doubtful PROVE Doubtful'
  <2>1. PICK q \in Paths : "indeterminate" \in FactsOf("recover_active_object", q)
    BY <1>6 DEF Doubtful
  <2>2. PICK i \in DOMAIN facts :
          /\ facts[i].kind = "recover_active_object" /\ facts[i].path = q
          /\ facts[i].fact = "indeterminate"
    BY <2>1, RecordedByEvent
  <2>3. i \in DOMAIN facts' /\ facts'[i] = facts[i]
    BY <1>1, AppendedAny DEF Typed
  <2>4. "indeterminate" \in FactsOf("recover_active_object", q)'
    BY <2>2, <2>3 DEF FactsOf
  <2> QED BY <1>6, <2>4 DEF Doubtful
<1>7. Backed(d)'
  BY <1>4, <1>5, <1>6 DEF Backed
<1> HIDE DEF d
<1>8. DomainOf(f.kind) = d
  BY <1>2 DEF d
<1>9. Changes(d)
  BY <1>1, <1>3, <1>4, <1>7, <1>8 DEF Changes
<1> QED BY <1>9 DEF d

----------------------------------------------------------------------------
\* A profile that is accepted as that of a prepared application.
LEMMA PreparedDurable ==
  ASSUME Typed, Staged, Grounded, PreparedBoundary(profile)
  PROVE  DurablyRecorded("incoming_staging") /\ DurablyRecorded("recovery_staging")
<1>1. /\ profile["incoming_staging"] = IF attempt.payload THEN "confirmed" ELSE "not_attempted"
      /\ profile["recovery_staging"] = IF Captures # {} THEN "confirmed" ELSE "not_attempted"
  BY DEF PreparedBoundary, NothingAttempted, Domain
<1>2. \A d \in {"incoming_staging", "recovery_staging"} :
        profile[d] = "confirmed" => DurablyRecorded(d)
  BY MarkedDomains, GroundedParts DEF Backed, Marked
<1>3. ~attempt.payload => Unchanging("incoming_staging")
  BY DomainEffects DEF Typed, Staged, Planned, Unchanging
<1>4. Captures = {} => Unchanging("recovery_staging")
  BY DomainEffects DEF Typed, Staged, Planned, Unchanging
<1>5. attempt.payload \in BOOLEAN
  BY DEF Typed, Attempts
<1> QED BY <1>1, <1>2, <1>3, <1>4, <1>5, UnchangingDurable

\* A profile that is accepted with the evidence of a completed application.
LEMMA EvidenceDurable ==
  ASSUME Typed, Staged, Grounded, pc = "observe",
         CompletedDurability(EvidenceDurability("confirmed"))
  PROVE  \A d \in MustBeDurable \ {"completed_evidence"} : DurablyRecorded(d)
<1>1. pc \in Forward /\ stage = "visible"
  BY DEF Staged, Forward, Completing
<1>2. DurablyRecorded("incoming_staging") /\ DurablyRecorded("recovery_staging")
  BY <1>1, GroundedParts
<1>3. ASSUME AllDomains, NEW d \in {"rejected_object_store", "active_namespace"}
      PROVE  DurablyRecorded(d)
  <2>1. profile[d] \in {"not_attempted", "confirmed"}
    <3>1. EvidenceDurability("confirmed")[d] \in {"not_attempted", "confirmed"}
      BY <1>3 DEF CompletedDurability, AllDomains, Domain
    <3> QED BY <3>1 DEF EvidenceDurability, Typed, Domain
  <2>2. CASE profile[d] = "not_attempted"
    BY <1>1, <1>3, <2>2, GroundedParts, UnchangingDurable
  <2>3. CASE profile[d] = "confirmed"
    <3>1. ~Doubtful
      BY <1>1, StageUnrecorded, UnrecordedKind DEF Doubtful, Recorded
    <3> QED BY <2>3, <3>1, MarkedDomains, GroundedParts DEF Backed, Marked
  <2> QED BY <2>1, <2>2, <2>3
<1> QED BY <1>2, <1>3 DEF MustBeDurable, Recordable, Domain

\* A step between two crashes keeps what the profile stands on.
LEMMA StepGrounded ==
  ASSUME Typed, Staged, Gathered, Grounded, Walk, Gated, NEW d, Changes(d)
  PROVE  Grounded'
<1>1. UNCHANGED <<attempt, session>> /\ facts \in Seq(Fact)
  BY DEF Walk, Typed
<1>2. Recordable' = Recordable /\ MustBeDurable' = MustBeDurable
  BY <1>1, SamePlan DEF Recordable, MustBeDurable
<1>3. ASSUME NEW e, e # d
      PROVE  /\ DurablyRecorded(e) => DurablyRecorded(e)'
             /\ Unchanging(e) => Unchanging(e)'
  <2>1. CASE facts' = facts
    BY <2>1 DEF DurablyRecorded, ChangedAt, SynchronizedAfter, Unchanging
  <2>2. CASE \E f : facts' = Append(facts, f) /\ DomainOf(f.kind) = d
    BY <1>1, <1>3, <2>2, DurableAfter
  <2> QED BY <2>1, <2>2 DEF Changes
<1>4. Doubtful => Doubtful'
  <2>1. SUFFICES ASSUME Doubtful PROVE Doubtful'
    OBVIOUS
  <2>2. PICK q \in Paths : "indeterminate" \in FactsOf("recover_active_object", q)
    BY <2>1 DEF Doubtful
  <2>3. PICK i \in DOMAIN facts :
          /\ facts[i].kind = "recover_active_object" /\ facts[i].path = q
          /\ facts[i].fact = "indeterminate"
    BY <2>2, RecordedByEvent
  <2>4. i \in DOMAIN facts' /\ facts'[i] = facts[i]
    <3>1. facts' = facts \/ \E f : facts' = Append(facts, f)
      BY DEF Changes
    <3> QED BY <1>1, <3>1, AppendedAny
  <2>5. "indeterminate" \in FactsOf("recover_active_object", q)'
    BY <2>3, <2>4 DEF FactsOf
  <2> QED BY <1>1, <2>1, <2>5 DEF Doubtful
<1>5. \A e \in Recordable' : Backed(e)'
  <2>1. SUFFICES ASSUME NEW e \in Recordable PROVE Backed(e)'
    BY <1>2
  <2>2. CASE e = d
    BY <2>2 DEF Changes
  <2>3. CASE e # d
    <3>1. profile'[e] = profile[e] /\ Backed(e)
      BY <2>3, MarkedDomains, GroundedParts DEF Changes
    <3> QED BY <1>3, <1>4, <2>3, <3>1 DEF Backed
  <2> QED BY <2>2, <2>3
<1>6. pc' # "over" => profile'["completed_evidence"] = "not_attempted"
  <2>1. pc # "over"
    BY DEF Walk
  <2>2. profile["completed_evidence"] = "not_attempted"
    BY <2>1, GroundedParts
  <2> QED BY <2>2, MarkedDomains DEF Changes
<1>7. session' = "resumed" /\ pc' = "captures" => profile'["recovery_staging"] # "confirmed"
  BY <1>1 DEF Gated
<1>8. stage' # "preparing" =>
        DurablyRecorded("incoming_staging")' /\ DurablyRecorded("recovery_staging")'
  <2>1. SUFFICES ASSUME stage' # "preparing"
                 PROVE  DurablyRecorded("incoming_staging")'
                          /\ DurablyRecorded("recovery_staging")'
    OBVIOUS
  <2>2. CASE stage = "preparing"
    <3>1. pc' = "rejected" /\ pc # "rejected"
      <4>1. pc \in Early
        BY <2>2, WalkPositions
      <4>2. pc' \in InMutation \cup Completing \cup Recovering \cup {"over"}
        BY <2>1, <4>1, WalkPositions DEF Early, Forward
      <4>3. pc # "rejected"
        BY <4>1 DEF Early, InPreparation
      <4>4. <<pc, pc'>> \in QuietMoves \/ \E f \in Fact : <<f.kind, pc, pc'>> \in EventMoves
        BY EventLeads DEF Walk, Quiet, Adding
      <4>5. pc' = "over" => stage' = stage
        BY <4>1 DEF Walk, StageMoves, Early, InPreparation, Forward, InMutation, Completing,
           Recovering
      <4>6. pc' = "rejected"
        BY <2>1, <2>2, <4>1, <4>2, <4>4, <4>5 DEF QuietMoves, EventMoves, Early, InPreparation,
           Forward, InMutation, Completing, Recovering
      <4> QED BY <4>3, <4>6
    <3>2. PreparedBoundary(profile) /\ facts' = facts
      BY <3>1 DEF Gated
    <3>3. DurablyRecorded("incoming_staging") /\ DurablyRecorded("recovery_staging")
      BY <3>2, PreparedDurable
    <3> QED BY <3>2, <3>3 DEF DurablyRecorded, ChangedAt, SynchronizedAfter
  <2>3. CASE stage # "preparing"
    <3>1. DurablyRecorded("incoming_staging") /\ DurablyRecorded("recovery_staging")
      BY <2>3, GroundedParts
    <3>2. CASE facts' = facts
      BY <3>1, <3>2 DEF DurablyRecorded, ChangedAt, SynchronizedAfter
    <3>3. CASE Adding
      <4>1. PICK f \in Fact : facts' = Append(facts, f) /\ Records(f)
        BY <3>3 DEF Adding
      <4>2. <<f.kind, pc, pc'>> \in EventMoves /\ pc \notin Early
        BY <2>3, <4>1, EventLeads, WalkPositions
      <4>3. DomainOf(f.kind) \notin {"incoming_staging", "recovery_staging"}
        BY <4>2 DEF EventMoves, Early, InPreparation, DomainOf
      <4> QED BY <1>1, <3>1, <4>1, <4>3, DurableAfter
    <3> QED BY <3>2, <3>3 DEF Walk, Quiet
  <2> QED BY <2>2, <2>3
<1>9. ASSUME pc' \in Forward, NEW e \in {"rejected_object_store", "active_namespace"},
             profile'[e] = "not_attempted"
      PROVE  Unchanging(e)'
  <2>1. CASE pc \in Forward /\ e = d
    <3>1. /\ profile[e] = "not_attempted"
          /\ \/ facts' = facts
             \/ \E f : facts' = Append(facts, f) /\ ~Touches(f)
      BY <1>9, <2>1 DEF Changes
    <3>2. Unchanging(e)
      BY <2>1, <3>1, GroundedParts
    <3>3. CASE facts' = facts
      BY <3>2, <3>3 DEF Unchanging
    <3>4. CASE \E f : facts' = Append(facts, f) /\ ~Touches(f)
      BY <1>1, <3>2, <3>4, DurableAfter
    <3> QED BY <3>1, <3>3, <3>4
  <2>2. CASE pc \in Forward /\ e # d
    <3>1. profile'[e] = profile[e]
      BY <2>2, MarkedDomains DEF Changes, Marked
    <3>2. Unchanging(e)
      BY <1>9, <2>2, <3>1, GroundedParts
    <3> QED BY <1>3, <2>2, <3>2
  <2>3. CASE pc \notin Forward
    <3>1. pc' = "rejected" /\ stage = "preparing"
      BY <1>9, <2>3, WalkPositions
    <3>2. pc # "rejected"
      BY <2>3 DEF Forward, InMutation
    <3>3. facts' = facts
      BY <3>1, <3>2 DEF Gated
    <3>4. \A i \in DOMAIN facts : facts[i].kind \in Preparing
            \cup {"synchronize_incoming_staging", "synchronize_recovery_staging"}
      BY <3>1 DEF Staged
    <3>5. \A i \in DOMAIN facts : DomainOf(facts[i].kind) # e
      BY <1>9, <3>4 DEF DomainOf, Preparing
    <3> QED BY <3>3, <3>5 DEF Unchanging
  <2> QED BY <2>1, <2>2, <2>3
<1>10. pc' \in {"publish_evidence", "sync_evidence", "resync_evidence"} =>
         \A e \in MustBeDurable' \ {"completed_evidence"} : DurablyRecorded(e)'
  <2>1. SUFFICES ASSUME pc' \in {"publish_evidence", "sync_evidence", "resync_evidence"},
                        NEW e \in MustBeDurable, e # "completed_evidence"
                 PROVE  DurablyRecorded(e)'
    BY <1>2
  <2>2. <<pc, pc'>> \in QuietMoves \/ \E f \in Fact : <<f.kind, pc, pc'>> \in EventMoves
    BY EventLeads DEF Walk, Quiet, Adding
  <2>3. \/ pc = "observe" /\ pc' = "publish_evidence"
        \/ pc = "publish_evidence"
    BY <2>1, <2>2 DEF QuietMoves, EventMoves
  <2>4. CASE pc = "observe" /\ pc' = "publish_evidence"
    <3>1. CompletedDurability(EvidenceDurability("confirmed")) /\ facts' = facts
      BY <2>4 DEF Gated
    <3>2. DurablyRecorded(e)
      BY <2>1, <2>4, <3>1, EvidenceDurable
    <3> QED BY <3>1, <3>2 DEF DurablyRecorded, ChangedAt, SynchronizedAfter
  <2>5. CASE pc = "publish_evidence"
    <3>1. DurablyRecorded(e)
      BY <2>1, <2>5, GroundedParts
    <3>2. CASE facts' = facts
      BY <3>1, <3>2 DEF DurablyRecorded, ChangedAt, SynchronizedAfter
    <3>3. CASE Adding
      <4>1. PICK f \in Fact : facts' = Append(facts, f) /\ Records(f)
        BY <3>3 DEF Adding
      <4>2. f.kind = "publish_completed_evidence"
        BY <2>5, <4>1, EventLeads DEF EventMoves
      <4>3. DomainOf(f.kind) = "completed_evidence"
        BY <4>2 DEF DomainOf
      <4> QED BY <1>1, <2>1, <3>1, <4>1, <4>3, DurableAfter
    <3> QED BY <3>2, <3>3 DEF Walk, Quiet
  <2> QED BY <2>3, <2>4, <2>5
<1>11. pc' = "conclude" /\ session' = "resumed" /\ profile'["active_namespace"] = "confirmed"
         => RecoveredNamespaceConfirmed'
  BY <1>1 DEF Gated
<1>12. Grounded' <=>
    /\ \A e \in Recordable' : Backed(e)'
    /\ pc' # "over" => profile'["completed_evidence"] = "not_attempted"
    /\ session' = "resumed" /\ pc' = "captures" => profile'["recovery_staging"] # "confirmed"
    /\ stage' # "preparing" =>
         DurablyRecorded("incoming_staging")' /\ DurablyRecorded("recovery_staging")'
    /\ pc' \in Forward =>
         \A e \in {"rejected_object_store", "active_namespace"} :
           profile'[e] = "not_attempted" => Unchanging(e)'
    /\ pc' \in {"publish_evidence", "sync_evidence", "resync_evidence"} =>
         \A e \in MustBeDurable' \ {"completed_evidence"} : DurablyRecorded(e)'
    /\ pc' = "conclude" /\ session' = "resumed" /\ profile'["active_namespace"] = "confirmed"
         => RecoveredNamespaceConfirmed'
  BY DEF Grounded, Backed, Doubtful
<1> QED BY <1>5, <1>6, <1>7, <1>8, <1>9, <1>10, <1>11, <1>12

----------------------------------------------------------------------------
(***************************************************************************)
(* Each step changes at most one status.                                   *)
(***************************************************************************)
Grounding == Gated /\ \E d : Changes(d)

\* Where the constructors and hand-overs lead.
LEMMA Nexts ==
  /\ \A next : Continue(next) => pc' = next
  /\ FailPreparation => pc' = "over"
  /\ \A outcome, recovery : FailRejected(outcome, recovery) => pc' = "over"
  /\ \A outcome, recovery : SealRecoveryReceipt(outcome, recovery) => pc' = "over"
  /\ \A uncertain : FailEvidence(uncertain) => pc' = "over"
  /\ \A why : Interrupt(why) => pc' \in {"recover", "over"}
  /\ Complete => pc' = "over"
  /\ \A next, accepted, what : HandOver(next, accepted, what) =>
       /\ pc' \in {next, "over"} /\ profile' = profile /\ facts' = facts
       /\ pc' # "over" => accepted
BY DEF Continue, FailPreparation, FailRejected, SealRecoveryReceipt, FailEvidence,
       Interrupt, Complete, HandOver, Fail, Reject

\* Steps that rely on nothing.
LEMMA Ungated ==
  /\ pc' \notin {"rejected", "publish_evidence", "captures", "conclude"} => Gated
  /\ session = "fresh" /\ pc' \notin {"rejected", "publish_evidence"} => Gated
  /\ pc = "rejected" /\ pc' = "rejected" => Gated
BY DEF Gated

\* Every kind of effect belongs to one domain.
LEMMA KindDomains ==
  /\ Synchronizing \ {"synchronize_completed_evidence"} =
       {"synchronize_incoming_staging", "synchronize_recovery_staging",
        "synchronize_active_namespace", "synchronize_recovered_namespace",
        "synchronize_rejected_store"}
  /\ DomainOf("synchronize_incoming_staging") = "incoming_staging"
  /\ DomainOf("synchronize_recovery_staging") = "recovery_staging"
  /\ DomainOf("synchronize_active_namespace") = "active_namespace"
  /\ DomainOf("synchronize_recovered_namespace") = "active_namespace"
  /\ DomainOf("synchronize_rejected_store") = "rejected_object_store"
  /\ DomainOf("synchronize_completed_evidence") = "completed_evidence"
  /\ DomainOf("stage_incoming_payload") = "incoming_staging"
  /\ DomainOf("capture_old_object") = "recovery_staging"
  /\ DomainOf("publish_rejected_object") = "rejected_object_store"
  /\ DomainOf("publish_active_object") = "active_namespace"
  /\ DomainOf("recover_active_object") = "active_namespace"
  /\ DomainOf("publish_completed_evidence") = "completed_evidence"
  /\ \A kind \in Synchronizing \ {"synchronize_completed_evidence"} :
       DomainOf(kind) \in Marked
BY DEF Synchronizing, DomainOf, Marked

\* The event of a step belongs to the domain of its kind.
LEMMA RecordDomain ==
  ASSUME NEW kind, NEW p, NEW fact, NEW exact, Record(kind, p, fact, exact)
  PROVE  \E f : facts' = Append(facts, f) /\ DomainOf(f.kind) = DomainOf(kind)
                /\ f.kind = kind /\ f.path = p /\ f.fact = fact
<1> DEFINE f == [kind |-> kind, path |-> p, fact |-> fact, exact |-> exact]
<1>1. facts' = Append(facts, f) /\ f.kind = kind /\ f.path = p /\ f.fact = fact
  BY DEF Record
<1> HIDE DEF f
<1> QED BY <1>1

\* Of a fresh preparation.
LEMMA PreparationGrounding ==
  ASSUME Typed, Grounded, session = "fresh", session' = session, Preparation
  PROVE  Grounding
<1>1. CASE RefusePreconditions
  <2>1. pc' = "over"
    BY <1>1 DEF RefusePreconditions, Fail, Reject
  <2> QED BY <1>1, <2>1, Unmoved, Ungated DEF RefusePreconditions, Grounding
<1>2. CASE Admit
  <2>1. Changes("journal")
    BY <1>2, MarkedDomains DEF Admit, Establish, Changes, Typed
  <2> QED BY <1>2, <2>1, Nexts, Ungated DEF Admit, Grounding
<1>3. CASE CaptureOldObject
  <2>1. \E p, fact, exact : Record("capture_old_object", p, fact, exact)
    BY <1>3 DEF CaptureOldObject
  <2>2. \E s \in {"visible", "indeterminate"} : Establish("recovery_staging", s)
    BY <1>3 DEF CaptureOldObject
  <2>3. pc' \in {"captures", "over"}
    BY <1>3, Nexts DEF CaptureOldObject
  <2>4. Changes("recovery_staging")
    BY <2>1, <2>2, RecordDomain, KindDomains, Worsened, Statuses DEF Marked
  <2> QED BY <2>3, <2>4, Ungated DEF Grounding
<1>4. CASE CapturesDone \/ NoPayloads
  <2>1. pc' \in {"payloads", "sync_recovery", "over"} /\ profile' = profile /\ facts' = facts
    BY <1>4, Nexts DEF CapturesDone, NoPayloads
  <2> QED BY <2>1, Unmoved, Ungated DEF Grounding
<1>5. CASE StageIncomingPayloads
  <2>1. \E p, fact, exact : Record("stage_incoming_payload", p, fact, exact)
    BY <1>5 DEF StageIncomingPayloads
  <2>2. \E s \in {"visible", "indeterminate"} : Establish("incoming_staging", s)
    BY <1>5 DEF StageIncomingPayloads
  <2>3. pc' \in {"sync_incoming", "over"}
    BY <1>5, Nexts DEF StageIncomingPayloads
  <2>4. Changes("incoming_staging")
    BY <2>1, <2>2, RecordDomain, KindDomains, Worsened, Statuses DEF Marked
  <2> QED BY <2>3, <2>4, Ungated DEF Grounding
<1>6. CASE SynchronizeIncoming \/ SynchronizeRecovery
  <2>1. ASSUME NEW kind \in Synchronizing \ {"synchronize_completed_evidence"},
               NEW next \in {"sync_recovery", "prepared"},
               SynchronizePreparation(kind, next)
        PROVE  Grounding
    <3>1. PICK status \in Synchronized :
            Record(kind, NoPath, status, FALSE) /\ Establish(DomainOf(kind), status)
      BY <2>1 DEF SynchronizePreparation
    <3>2. pc' \in {next, "over"}
      BY <2>1, Nexts DEF SynchronizePreparation
    <3>3. status \in Status /\ status # "not_attempted"
      BY DEF Synchronized
    <3>4. Changes(DomainOf(kind))
      BY <3>1, <3>3, KindDomains, Synchronizes
    <3> QED BY <3>2, <3>4, Ungated DEF Grounding
  <2> QED BY <1>6, <2>1, KindDomains DEF SynchronizeIncoming, SynchronizeRecovery
<1>7. CASE Prepared
  <2>1. HandOver("rejected", PreparedBoundary(profile), "prepared_application")
    BY <1>7 DEF Prepared
  <2>2. Gated
    BY <2>1, Nexts DEF Gated
  <2> QED BY <2>1, <2>2, Nexts, Unmoved DEF Grounding
<1> QED BY <1>1, <1>2, <1>3, <1>4, <1>5, <1>6, <1>7 DEF Preparation

\* Of rejected publication.
LEMMA RejectedGrounding ==
  ASSUME Typed, Grounded, session' = session, RejectedPhase
  PROVE  Grounding
<1>1. CASE PublishRejected
  <2>1. pc' \in {"rejected", "over"} /\ pc = "rejected"
    BY <1>1, Nexts DEF PublishRejected
  <2>2. \E p, fact :
          /\ Record("publish_rejected_object", p, fact, FALSE)
          /\ \/ \E s \in {"visible", "indeterminate"} : Establish("rejected_object_store", s)
             \/ fact = "failed" /\ profile' = profile
    BY <1>1 DEF PublishRejected
  <2>3. PICK p, fact :
          /\ Record("publish_rejected_object", p, fact, FALSE)
          /\ \/ \E s \in {"visible", "indeterminate"} : Establish("rejected_object_store", s)
             \/ fact = "failed" /\ profile' = profile
    BY <2>2
  <2>4. CASE \E s \in {"visible", "indeterminate"} : Establish("rejected_object_store", s)
    <3>1. Changes("rejected_object_store")
      <4>0. Record("publish_rejected_object", p, fact, FALSE)
        BY <2>3
      <4>2. \E f : facts' = Append(facts, f) /\ DomainOf(f.kind) = DomainOf("publish_rejected_object")
        BY <4>0, RecordDomain
      <4>1. \E f : facts' = Append(facts, f) /\ DomainOf(f.kind) = "rejected_object_store"
        BY <4>2, KindDomains
      <4> QED BY <2>4, <4>1, Worsened, Statuses DEF Marked
    <3> QED BY <2>1, <3>1, Ungated DEF Grounding
  <2>5. CASE fact = "failed" /\ profile' = profile
    <3>1. Changes("rejected_object_store")
      <4>1. /\ Record("publish_rejected_object", p, fact, FALSE)
            /\ DomainOf("publish_rejected_object") = "rejected_object_store"
            /\ DomainOf("publish_rejected_object") \in Marked
            /\ fact \notin {"completed", "indeterminate"} /\ profile' = profile
        BY <2>3, <2>5, KindDomains DEF Marked
      <4> HIDE DEF Marked
      <4>2. Changes(DomainOf("publish_rejected_object"))
        BY <4>1, Untouched
      <4> QED BY <4>1, <4>2
    <3> QED BY <2>1, <3>1, Ungated DEF Grounding
  <2> QED BY <2>3, <2>4, <2>5
<1>2. CASE SynchronizeRejected
  <2>1. PICK status \in Synchronized :
          /\ Record("synchronize_rejected_store", NoPath, status, FALSE)
          /\ Establish("rejected_object_store", status)
    BY <1>2 DEF SynchronizeRejected
  <2>2. pc' \in {"rejected_published", "over"}
    BY <1>2, Nexts DEF SynchronizeRejected
  <2>3. status \in Status /\ status # "not_attempted"
    BY DEF Synchronized
  <2>4. Changes("rejected_object_store")
    BY <2>1, <2>3, KindDomains, Synchronizes
  <2> QED BY <2>2, <2>4, Ungated DEF Grounding
<1>3. CASE RejectedPublished
  BY <1>3, Nexts, Unmoved, Ungated DEF RejectedPublished, Grounding
<1> QED BY <1>1, <1>2, <1>3 DEF RejectedPhase

\* Of active execution.
LEMMA ActiveGrounding ==
  ASSUME Typed, Grounded, session' = session, ActivePhase \/ ResumeActiveSynchronization
  PROVE  Grounding
<1>1. CASE ExecuteActive
  <2>1. pc' \in {"active", "recover", "over"}
    BY <1>1, Nexts DEF ExecuteActive
  <2>2. \E p, fact :
          /\ Record("publish_active_object", p, fact, FALSE)
          /\ \/ \E s \in {"visible", "indeterminate"} : Establish("active_namespace", s)
             \/ fact \in {"failed", "conditional_retained"} /\ profile' = profile
    BY <1>1 DEF ExecuteActive
  <2>3. PICK p, fact :
          /\ Record("publish_active_object", p, fact, FALSE)
          /\ \/ \E s \in {"visible", "indeterminate"} : Establish("active_namespace", s)
             \/ fact \in {"failed", "conditional_retained"} /\ profile' = profile
    BY <2>2
  <2>4. CASE \E s \in {"visible", "indeterminate"} : Establish("active_namespace", s)
    <3>1. Changes("active_namespace")
      <4>0. Record("publish_active_object", p, fact, FALSE)
        BY <2>3
      <4>2. \E f : facts' = Append(facts, f) /\ DomainOf(f.kind) = DomainOf("publish_active_object")
        BY <4>0, RecordDomain
      <4>1. \E f : facts' = Append(facts, f) /\ DomainOf(f.kind) = "active_namespace"
        BY <4>2, KindDomains
      <4> QED BY <2>4, <4>1, Worsened, Statuses DEF Marked
    <3> QED BY <2>1, <3>1, Ungated DEF Grounding
  <2>5. CASE fact \in {"failed", "conditional_retained"} /\ profile' = profile
    <3>1. Changes("active_namespace")
      <4>1. /\ Record("publish_active_object", p, fact, FALSE)
            /\ DomainOf("publish_active_object") = "active_namespace"
            /\ DomainOf("publish_active_object") \in Marked
            /\ fact \notin {"completed", "indeterminate"} /\ profile' = profile
        BY <2>3, <2>5, KindDomains DEF Marked
      <4> HIDE DEF Marked
      <4>2. Changes(DomainOf("publish_active_object"))
        BY <4>1, Untouched
      <4> QED BY <4>1, <4>2
    <3> QED BY <2>1, <3>1, Ungated DEF Grounding
  <2> QED BY <2>3, <2>4, <2>5
<1>2. CASE SynchronizeActive \/ ResumeActiveSynchronization
  <2>1. PICK status \in Synchronized :
          /\ Record("synchronize_active_namespace", NoPath, status, FALSE)
          /\ Establish("active_namespace", status)
               \/ Establish("active_namespace", InterruptedStatus(status))
    BY <1>2 DEF SynchronizeActive, ResumeActiveSynchronization
  <2>2. pc' \in {"active_mutated", "recover", "over"}
    BY <1>2, Nexts DEF SynchronizeActive, ResumeActiveSynchronization
  <2>3. PICK s \in {status, InterruptedStatus(status)} : Establish("active_namespace", s)
    BY <2>1
  <2>4. s \in Status /\ s # "not_attempted" /\ (s = "confirmed" => status = "confirmed")
    BY Statuses DEF Synchronized, InterruptedStatus
  <2>5. Changes("active_namespace")
    BY <2>1, <2>3, <2>4, KindDomains, Synchronizes
  <2> QED BY <2>2, <2>5, Ungated DEF Grounding
<1>3. CASE ActiveMutated
  BY <1>3, Nexts, Unmoved, Ungated DEF ActiveMutated, Grounding
<1> QED BY <1>1, <1>2, <1>3 DEF ActivePhase

\* The evidence is confirmed only at the end.
LEMMA EvidenceChanges ==
  ASSUME Typed, session' = session, NEW s, Establish("completed_evidence", s), pc' = "over",
         \/ facts' = facts
         \/ \E f : facts' = Append(facts, f) /\ DomainOf(f.kind) = "completed_evidence",
         \/ s # "confirmed"
         \/ DurablyRecorded("completed_evidence")'
         \/ session = "resumed"
  PROVE  Grounding
<1>1. /\ profile'["completed_evidence"] = s
      /\ \A e \in Domain \ {"completed_evidence"} : profile'[e] = profile[e]
  BY MarkedDomains DEF Typed, Establish
<1>2. session = "resumed" => "completed_evidence" \notin Recordable
  BY DEF Recordable
<1>3. session # "resumed" => Backed("completed_evidence")'
  BY <1>1 DEF Backed
<1>4. Changes("completed_evidence")
  BY <1>1, <1>2, <1>3, MarkedDomains DEF Changes
<1> QED BY <1>4, Ungated DEF Grounding

\* Of a failed completion.
LEMMA EvidenceUnconfirmed ==
  ASSUME Typed, session' = session, NEW uncertain, FailEvidence(uncertain),
         \/ facts' = facts
         \/ \E f : facts' = Append(facts, f) /\ DomainOf(f.kind) = "completed_evidence"
  PROVE  Grounding
<1>1. \E s : Establish("completed_evidence", s) /\ s # "confirmed"
  BY DEF FailEvidence
<1>2. pc' = "over"
  BY Nexts
<1> QED BY <1>1, <1>2, EvidenceChanges

\* Of completion.
LEMMA CompletionGrounding ==
  ASSUME Typed, Grounded, session' = session, Completion
  PROVE  Grounding
<1>1. CASE ObserveMatched
  <2>1. HandOver("publish_evidence",
                 EvidenceAccepted(CompletedConsequences("eligible"),
                                  EvidenceDurability("confirmed")),
                 "completed_application_evidence")
    BY <1>1 DEF ObserveMatched
  <2>2. /\ pc' \in {"publish_evidence", "over"} /\ profile' = profile /\ facts' = facts
        /\ pc' # "over" => EvidenceAccepted(CompletedConsequences("eligible"),
                                           EvidenceDurability("confirmed"))
    BY <2>1, Nexts
  <2>3. pc' # "over" => CompletedDurability(EvidenceDurability("confirmed"))
    BY <2>2 DEF EvidenceAccepted
  <2>4. Gated
    BY <2>2, <2>3 DEF Gated
  <2> QED BY <2>2, <2>4, Unmoved DEF Grounding
<1>2. CASE ObserveUnmatched
  <2>1. pc' \in {"recover", "over"} /\ profile' = profile /\ facts' = facts
    BY <1>2, Nexts DEF ObserveUnmatched
  <2> QED BY <2>1, Unmoved, Ungated DEF Grounding
<1>3. CASE PublishCompletedEvidence
  <2>1. \E p, fact, exact : Record("publish_completed_evidence", p, fact, exact)
    BY <1>3 DEF PublishCompletedEvidence
  <2>2. \E f : facts' = Append(facts, f) /\ DomainOf(f.kind) = DomainOf("publish_completed_evidence")
    BY <2>1, RecordDomain
  <2>3. \E f : facts' = Append(facts, f) /\ DomainOf(f.kind) = "completed_evidence"
    BY <2>2, KindDomains
  <2>4. \/ pc' = "sync_evidence" /\ profile' = profile
        \/ \E uncertain : FailEvidence(uncertain)
    BY <1>3, Nexts DEF PublishCompletedEvidence
  <2>5. CASE pc' = "sync_evidence" /\ profile' = profile
    <3>1. profile["completed_evidence"] = "not_attempted"
      BY <1>3, GroundedParts DEF PublishCompletedEvidence
    <3>2. Changes("completed_evidence")
      BY <2>3, <2>5, <3>1, MarkedDomains DEF Changes, Backed
    <3> QED BY <2>5, <3>2, Ungated DEF Grounding
  <2> QED BY <2>3, <2>4, <2>5, EvidenceUnconfirmed
<1>4. CASE SynchronizeCompletedEvidence
  <2>1. PICK status \in Synchronized :
          /\ Record("synchronize_completed_evidence", NoPath, status, FALSE)
          /\ \/ status = "confirmed" /\ Complete
             \/ \E uncertain : FailEvidence(uncertain)
    BY <1>4 DEF SynchronizeCompletedEvidence
  <2> DEFINE f == [kind |-> "synchronize_completed_evidence", path |-> NoPath,
                   fact |-> status, exact |-> FALSE]
  <2>2. /\ facts' = Append(facts, f)
        /\ f.kind = "synchronize_completed_evidence" /\ f.fact = status
    BY <2>1 DEF Record
  <2> HIDE DEF f
  <2>3. DomainOf(f.kind) = "completed_evidence"
    BY <2>2, KindDomains
  <2>4. CASE status = "confirmed" /\ Complete
    <3>1. DurablyRecorded("completed_evidence")'
      BY <2>2, <2>3, <2>4, DurableAfter DEF Typed, Synchronizing
    <3>2. Establish("completed_evidence", "confirmed") /\ pc' = "over"
      BY <2>4, Nexts DEF Complete
    <3> QED BY <2>2, <2>3, <3>1, <3>2, EvidenceChanges
  <2>5. CASE \E uncertain : FailEvidence(uncertain)
    BY <2>2, <2>3, <2>5, EvidenceUnconfirmed
  <2> QED BY <2>1, <2>4, <2>5
<1> QED BY <1>1, <1>2, <1>3, <1>4 DEF Completion

\* Of a resumed completion.
LEMMA ResumedCompletionGrounding ==
  ASSUME Typed, Grounded, session = "resumed", session' = session,
         ReplayUnpublished \/ ReplayPublished \/ ReplayEvidenceSynchronization
  PROVE  Grounding
<1>1. CASE ReplayUnpublished
  <2>1. pc' = "over" /\ profile' = profile /\ facts' = facts
    BY <1>1 DEF ReplayUnpublished, ResumingEvidence, Reject
  <2> QED BY <2>1, Unmoved, Ungated DEF Grounding
<1>2. CASE ReplayPublished
  <2>1. facts' = facts
    BY <1>2 DEF ReplayPublished, ResumingEvidence
  <2>2. \/ pc' \in {"sync_evidence", "resync_evidence"} /\ profile' = profile
        \/ \E uncertain : FailEvidence(uncertain)
    BY <1>2, Nexts DEF ReplayPublished
  <2>3. CASE pc' \in {"sync_evidence", "resync_evidence"} /\ profile' = profile
    BY <2>1, <2>3, Unmoved, Ungated DEF Grounding
  <2> QED BY <2>1, <2>2, <2>3, EvidenceUnconfirmed
<1>3. CASE ReplayEvidenceSynchronization
  <2>1. \/ facts' = facts
        \/ \E p, fact, exact : Record("synchronize_completed_evidence", p, fact, exact)
    BY <1>3 DEF ReplayEvidenceSynchronization, ResumingEvidence
  <2>2. \/ facts' = facts
        \/ \E f : /\ facts' = Append(facts, f)
                  /\ DomainOf(f.kind) = DomainOf("synchronize_completed_evidence")
    BY <2>1, RecordDomain
  <2>3. \/ facts' = facts
        \/ \E f : facts' = Append(facts, f) /\ DomainOf(f.kind) = "completed_evidence"
    BY <2>2, KindDomains
  <2>4. Complete \/ \E uncertain : FailEvidence(uncertain)
    BY <1>3 DEF ReplayEvidenceSynchronization
  <2>5. CASE Complete
    <3>1. Establish("completed_evidence", "confirmed") /\ pc' = "over"
      BY <2>5, Nexts DEF Complete
    <3> QED BY <2>3, <3>1, EvidenceChanges
  <2> QED BY <2>3, <2>4, <2>5, EvidenceUnconfirmed
<1> QED BY <1>1, <1>2, <1>3

\* Of an interruption without recovery.
LEMMA UnrecoveredGrounding ==
  ASSUME RecoverNothing \/ RecoverUnselected
  PROVE  Grounding
<1>1. pc' = "over" /\ profile' = profile /\ facts' = facts
  BY Nexts DEF RecoverNothing, RecoverUnselected
<1> QED BY <1>1, Unmoved, Ungated DEF Grounding

\* Of a fresh recovery.
LEMMA RecoveryGrounding ==
  ASSUME Typed, Grounded, session = "fresh", session' = session, Recovery
  PROVE  Grounding
<1>1. CASE RecoverNothing \/ RecoverUnselected
  BY <1>1, UnrecoveredGrounding
<1>2. CASE Recover
  <2>1. Left("recover_active_object", Candidates) # {} /\ pc' \in {"recover", "conclude"}
    BY <1>2, Nexts DEF Recover
  <2>2. Highest(Left("recover_active_object", Candidates)) \in Paths
    <3>1. Left("recover_active_object", Candidates) \subseteq Paths
      BY PlanPaths DEF Left
    <3>2. Highest(Left("recover_active_object", Candidates))
            \in Left("recover_active_object", Candidates)
      BY <2>1, <3>1, NextPath
    <3> QED BY <3>1, <3>2
  <2>3. PICK p \in Paths, fact \in Operated :
          /\ Record("recover_active_object", p, fact, FALSE)
          /\ \/ fact = "completed" /\ Establish("active_namespace", "visible")
             \/ fact # "completed" /\ profile' = profile
    BY <1>2, <2>2 DEF Recover
  <2> DEFINE f == [kind |-> "recover_active_object", path |-> p, fact |-> fact,
                   exact |-> FALSE]
  <2>4. /\ facts' = Append(facts, f)
        /\ f.kind = "recover_active_object" /\ f.path = p /\ f.fact = fact
    BY <2>3 DEF Record
  <2> HIDE DEF f
  <2>5. DomainOf(f.kind) = "active_namespace"
    BY <2>4, KindDomains
  <2>6. CASE Establish("active_namespace", "visible")
    <3>1. Changes("active_namespace")
      BY <2>4, <2>5, <2>6, Worsened, Statuses DEF Marked
    <3> QED BY <2>1, <3>1, Ungated DEF Grounding
  <2>7. CASE fact = "failed" /\ profile' = profile
    <3>1. DomainOf("recover_active_object") \in Marked
      BY KindDomains DEF Marked
    <3>2. fact \notin {"completed", "indeterminate"} /\ profile' = profile
      BY <2>7
    <3>3. Changes(DomainOf("recover_active_object"))
      BY <2>3, <3>1, <3>2, Untouched
    <3> QED BY <2>1, <3>3, Ungated DEF Grounding
  <2>8. CASE fact = "indeterminate" /\ profile' = profile
    <3>1. Len(facts) + 1 \in DOMAIN facts' /\ facts'[Len(facts) + 1] = f
      BY <2>4, AppendedAny DEF Typed
    <3>2. "indeterminate" \in FactsOf("recover_active_object", p)'
      <4>1. /\ facts'[Len(facts) + 1].kind = "recover_active_object"
            /\ facts'[Len(facts) + 1].path = p
            /\ facts'[Len(facts) + 1].fact = "indeterminate"
        BY <2>4, <2>8, <3>1
      <4>2. \A q : FactsOf("recover_active_object", q)' =
              {facts'[i].fact : i \in {j \in DOMAIN facts' :
                 facts'[j].kind = "recover_active_object" /\ facts'[j].path = q}}
        BY DEF FactsOf
      <4> QED BY <3>1, <4>1, <4>2
    <3>3. Doubtful'
      <4>1. session' = "fresh"
        OBVIOUS
      <4>2. \E q \in Paths : "indeterminate" \in FactsOf("recover_active_object", q)'
        BY <2>2, <3>2
      <4>3. Paths' = Paths
        BY DEF Paths
      <4> QED BY <4>1, <4>2, <4>3 DEF Doubtful
    <3>4. pc \notin Forward
      BY <1>2 DEF Recover, Forward, InMutation, Completing
    <3>5. Changes("active_namespace")
      BY <2>4, <2>5, <2>8, <3>3, <3>4, MarkedDomains DEF Changes, Backed, Marked
    <3> QED BY <2>1, <3>5, Ungated DEF Grounding
  <2> QED BY <2>3, <2>6, <2>7, <2>8 DEF Operated
<1>3. CASE SynchronizeRecovered
  <2>1. PICK status \in Synchronized :
          /\ Record("synchronize_recovered_namespace", NoPath, status, FALSE)
          /\ Establish("active_namespace", status)
    BY <1>3 DEF SynchronizeRecovered
  <2>2. pc' = "conclude"
    BY <1>3, Nexts DEF SynchronizeRecovered
  <2>3. status \in Status /\ status # "not_attempted"
    BY DEF Synchronized
  <2>4. Changes("active_namespace")
    BY <2>1, <2>3, KindDomains, Synchronizes
  <2> QED BY <2>2, <2>4, Ungated DEF Grounding
<1>4. CASE ConcludeRecovery
  <2>1. pc' = "over" /\ profile' = profile /\ facts' = facts
    BY <1>4, Nexts DEF ConcludeRecovery
  <2> QED BY <2>1, Unmoved, Ungated DEF Grounding
<1> QED BY <1>1, <1>2, <1>3, <1>4 DEF Recovery

\* Of the hand-overs in preparation.
LEMMA HandedOverGrounding ==
  ASSUME CapturesDone \/ NoPayloads \/ Prepared
  PROVE  Grounding
<1>1. CASE CapturesDone \/ NoPayloads
  <2>1. pc' \in {"payloads", "sync_recovery", "over"} /\ profile' = profile /\ facts' = facts
    BY <1>1, Nexts DEF CapturesDone, NoPayloads
  <2> QED BY <2>1, Unmoved, Ungated DEF Grounding
<1>2. CASE Prepared
  <2>1. HandOver("rejected", PreparedBoundary(profile), "prepared_application")
    BY <1>2 DEF Prepared
  <2>2. Gated
    BY <2>1, Nexts DEF Gated
  <2> QED BY <2>1, <2>2, Nexts, Unmoved DEF Grounding
<1> QED BY <1>1, <1>2

\* Of a resumed preparation.
LEMMA ResumedPreparationGrounding ==
  ASSUME Typed, Gathered, Grounded, session = "resumed", session' = session,
         \/ ReplayFailedCapture \/ ResumeCapture \/ ResumePayloads
         \/ ResumeIncomingSynchronization \/ ResumeRecoverySynchronization
  PROVE  Grounding
<1>1. \A unknown : PreparationFailure(unknown) \in Status \ {"confirmed", "not_attempted"}
  BY Statuses DEF PreparationFailure
<1>2. "recovery_staging" \in Marked /\ "incoming_staging" \in Marked
  BY DEF Marked
<1>3. CASE ReplayFailedCapture
  <2>1. \E s \in Status \ {"confirmed", "not_attempted"} : Establish("recovery_staging", s)
    BY <1>1, <1>3 DEF ReplayFailedCapture
  <2>2. pc' = "over" /\ facts' = facts
    BY <1>3, Nexts DEF ReplayFailedCapture
  <2>3. Changes("recovery_staging")
    BY <1>2, <2>1, <2>2, Worsened
  <2> QED BY <2>2, <2>3, Ungated DEF Grounding
<1>4. CASE ResumeCapture
  <2>1. \E p, fact, exact : Record("capture_old_object", p, fact, exact)
    BY <1>4 DEF ResumeCapture
  <2>2. \E f : facts' = Append(facts, f) /\ DomainOf(f.kind) = DomainOf("capture_old_object")
    BY <2>1, RecordDomain
  <2>3. \E f : facts' = Append(facts, f) /\ DomainOf(f.kind) = "recovery_staging"
    BY <2>2, KindDomains
  <2>4. \/ pc' = "captures" /\ profile' = profile
        \/ /\ pc' = "over"
           /\ \E s \in Status \ {"confirmed", "not_attempted"} :
                Establish("recovery_staging", s)
    BY <1>1, <1>4, Nexts DEF ResumeCapture
  <2>5. CASE pc' = "captures" /\ profile' = profile
    <3>1. pc = "captures"
      BY <1>4 DEF ResumeCapture
    <3>2. profile'["recovery_staging"] # "confirmed"
      BY <2>5, <3>1, GroundedParts
    <3>3. Changes("recovery_staging")
      BY <1>2, <2>3, <2>5, <3>1, <3>2, MarkedDomains
         DEF Changes, Backed, Forward, InMutation, Completing
    <3>4. Gated
      BY <2>5, <3>2 DEF Gated
    <3> QED BY <3>3, <3>4 DEF Grounding
  <2>6. CASE /\ pc' = "over"
             /\ \E s \in Status \ {"confirmed", "not_attempted"} :
                  Establish("recovery_staging", s)
    <3>1. Changes("recovery_staging")
      BY <1>2, <2>3, <2>6, Worsened
    <3> QED BY <2>6, <3>1, Ungated DEF Grounding
  <2> QED BY <2>4, <2>5, <2>6
<1>5. CASE ResumePayloads
  <2>1. \/ facts' = facts
        \/ \E p, fact, exact : Record("stage_incoming_payload", p, fact, exact)
    BY <1>5 DEF ResumePayloads
  <2>2. \/ facts' = facts
        \/ \E f : facts' = Append(facts, f)
                  /\ DomainOf(f.kind) = DomainOf("stage_incoming_payload")
    BY <2>1, RecordDomain
  <2>3. \/ facts' = facts
        \/ \E f : facts' = Append(facts, f) /\ DomainOf(f.kind) = "incoming_staging"
    BY <2>2, KindDomains
  <2>4. \E s \in Status \ {"confirmed", "not_attempted"} : Establish("incoming_staging", s)
    BY <1>1, <1>5, Statuses DEF ResumePayloads
  <2>5. pc' \in {"sync_incoming", "over"}
    BY <1>5, Nexts DEF ResumePayloads
  <2>6. Changes("incoming_staging")
    BY <1>2, <2>3, <2>4, Worsened
  <2> QED BY <2>5, <2>6, Ungated DEF Grounding
<1>6. ASSUME NEW kind \in {"synchronize_incoming_staging", "synchronize_recovery_staging"},
             NEW next \in {"sync_recovery", "prepared"},
             ResumeSynchronization(kind, next)
      PROVE  Grounding
  <2>1. pc' \in {next, "over"}
    BY <1>6, Nexts DEF ResumeSynchronization
  <2>2. PICK status \in Synchronized :
          /\ \/ facts' = facts
                  /\ \E f \in FactsOf(kind, NoPath) : status = ReplayedStatus(f)
             \/ Record(kind, NoPath, status, FALSE)
          /\ Establish(DomainOf(kind), status)
    BY <1>6 DEF ResumeSynchronization
  <2>3. status \in Status /\ status # "not_attempted"
    BY DEF Synchronized
  <2>4. kind \in Synchronizing /\ DomainOf(kind) \in Marked
    BY KindDomains DEF Synchronizing
  <2>5. CASE Record(kind, NoPath, status, FALSE)
    <3>1. Changes(DomainOf(kind))
      BY <2>2, <2>3, <2>4, <2>5, Synchronizes
    <3> QED BY <2>1, <3>1, Ungated DEF Grounding
  <2>6. CASE facts' = facts /\ \E f \in FactsOf(kind, NoPath) : status = ReplayedStatus(f)
    <3>1. status = "confirmed" => "confirmed" \in FactsOf(kind, NoPath)
      BY <2>6 DEF ReplayedStatus
    <3>2. status = "confirmed" => DurablyRecorded(DomainOf(kind))
      BY <3>1, GatheredDurable, KindDomains DEF Typed
    <3>3. status = "confirmed" => DurablyRecorded(DomainOf(kind))'
      BY <2>6, <3>2 DEF DurablyRecorded, ChangedAt, SynchronizedAfter
    <3>4. Changes(DomainOf(kind))
      BY <2>2, <2>3, <2>4, <2>6, <3>3, Shown
    <3> QED BY <2>1, <3>4, Ungated DEF Grounding
  <2> QED BY <2>2, <2>5, <2>6
<1> QED BY <1>3, <1>4, <1>5, <1>6 DEF ResumeIncomingSynchronization,
           ResumeRecoverySynchronization

\* Of a resumed recovery.
LEMMA ResumedRecoveryGrounding ==
  ASSUME Typed, Reversed, Grounded, session = "resumed", session' = session,
         \/ ReplayUnsuccessful \/ ResumeRecover \/ ResumeRecoveredSynchronization
         \/ ResumeConclude
  PROVE  Grounding
<1>1. "active_namespace" \in Marked /\ "visible" \in Status
  BY Statuses DEF Marked
<1>2. Establish("active_namespace", "visible") => profile'["active_namespace"] = "visible"
  BY MarkedDomains DEF Establish, Typed, Marked
<1>3. CASE ReplayUnsuccessful
  <2>1. /\ Establish("active_namespace", "visible") /\ pc' = "conclude"
        /\ facts' = facts \/ \E p : Assume("recover_active_object", p)
    BY <1>3, Nexts DEF ReplayUnsuccessful
  <2>2. \/ facts' = facts
        \/ \E f : facts' = Append(facts, f) /\ DomainOf(f.kind) = "active_namespace"
    <3>1. ASSUME NEW p, Assume("recover_active_object", p)
          PROVE  \E f : facts' = Append(facts, f) /\ DomainOf(f.kind) = "active_namespace"
      <4> DEFINE f == [kind |-> "recover_active_object", path |-> p,
                       fact |-> "indeterminate", exact |-> FALSE]
      <4>1. facts' = Append(facts, f) /\ f.kind = "recover_active_object"
        BY <3>1 DEF Assume
      <4> HIDE DEF f
      <4> QED BY <4>1, KindDomains
    <3> QED BY <2>1, <3>1
  <2>3. Changes("active_namespace")
    BY <1>1, <2>1, <2>2, Worsened
  <2>4. Gated
    BY <1>2, <2>1 DEF Gated
  <2> QED BY <2>3, <2>4 DEF Grounding
<1>4. CASE ResumeRecover
  <2>1. /\ Establish("active_namespace", "visible") /\ pc' \in {"recover", "conclude"}
        /\ \E p, fact, exact : Record("recover_active_object", p, fact, exact)
    BY <1>4, Nexts DEF ResumeRecover
  <2>2. \E f : facts' = Append(facts, f)
               /\ DomainOf(f.kind) = DomainOf("recover_active_object")
    BY <2>1, RecordDomain
  <2>3. \E f : facts' = Append(facts, f) /\ DomainOf(f.kind) = "active_namespace"
    BY <2>2, KindDomains
  <2>4. Changes("active_namespace")
    BY <1>1, <2>1, <2>3, Worsened
  <2>5. Gated
    BY <1>2, <2>1 DEF Gated
  <2> QED BY <2>4, <2>5 DEF Grounding
<1>5. CASE ResumeRecoveredSynchronization
  <2> DEFINE kind == "synchronize_recovered_namespace"
  <2>1. pc' = "conclude"
    BY <1>5, Nexts DEF ResumeRecoveredSynchronization
  <2>2. PICK status \in Synchronized :
          /\ \/ Recorded(kind, NoPath) /\ status = View["active_namespace"] /\ facts' = facts
             \/ status = "indeterminate" /\ facts' = facts
             \/ Record(kind, NoPath, status, FALSE)
          /\ Establish("active_namespace", status)
    BY <1>5 DEF ResumeRecoveredSynchronization
  <2>3. status \in Status /\ status # "not_attempted"
    BY DEF Synchronized
  <2>4. profile'["active_namespace"] = status
    BY <2>2, MarkedDomains DEF Establish, Typed, Marked
  <2>5. CASE Record(kind, NoPath, status, FALSE)
    <3>1. Changes("active_namespace")
      BY <2>2, <2>3, <2>5, KindDomains, Synchronizes
    <3> DEFINE f == [kind |-> kind, path |-> NoPath, fact |-> status, exact |-> FALSE]
    <3>2. facts' = Append(facts, f) /\ f.kind = kind /\ f.path = NoPath /\ f.fact = status
      BY <2>5 DEF Record
    <3> HIDE DEF f
    <3>3. Len(facts) + 1 \in DOMAIN facts' /\ facts'[Len(facts) + 1] = f
      BY <3>2, AppendedAny DEF Typed
    <3>4. status \in FactsOf(kind, NoPath)'
      BY <3>2, <3>3 DEF FactsOf, NoPath
    <3>5. Gated
      BY <2>1, <2>4, <3>4 DEF Gated, RecoveredNamespaceConfirmed
    <3> QED BY <3>1, <3>5 DEF Grounding
  <2>6. CASE status = "indeterminate" /\ facts' = facts
    <3>1. Changes("active_namespace")
      BY <1>1, <2>2, <2>3, <2>6, Worsened
    <3>2. Gated
      BY <2>1, <2>4, <2>6 DEF Gated
    <3> QED BY <3>1, <3>2 DEF Grounding
  <2>7. CASE Recorded(kind, NoPath) /\ status = View["active_namespace"] /\ facts' = facts
    <3>1. ASSUME status = "confirmed"
          PROVE  DurablyRecorded("active_namespace") /\ RecoveredNamespaceConfirmed
      <4> DEFINE h == Highest(Moving("active_namespace"))
      <4>1. /\ DurablyRecorded("active_namespace")
            /\ Moving("active_namespace") # {}
            /\ facts[h].kind \in Synchronizing /\ facts[h].fact = "confirmed"
        BY <2>7, <3>1, MarkedDomains, ViewDurable DEF Typed, Marked
      <4>2. h \in Moving("active_namespace")
              /\ \A i \in Moving("active_namespace") : i <= h
        BY <4>1, ViewTyped, MarkedDomains DEF Typed, Marked
      <4>3. PICK j \in DOMAIN facts : facts[j].kind = kind /\ facts[j].path = NoPath
        BY <2>7, RecordedByEvent
      <4>4. \A i \in DOMAIN facts : DomainOf(facts[i].kind) = "active_namespace" => i <= j
        BY <4>3 DEF Reversed
      <4>5. j \in Moving("active_namespace")
        BY <4>3, KindDomains DEF Moving, Moves, Synchronizing
      <4>6. h \in DOMAIN facts /\ DomainOf(facts[h].kind) = "active_namespace"
        BY <4>2 DEF Moving, Moves
      <4>7. h = j
        <5>1. h <= j /\ j <= h
          BY <4>2, <4>4, <4>5, <4>6
        <5>2. h \in Nat /\ j \in Nat
          BY <4>3, <4>6 DEF Typed
        <5> QED BY <5>1, <5>2
      <4>8. "confirmed" \in FactsOf(kind, NoPath)
        BY <4>1, <4>3, <4>7, RecordedByEvent
      <4> QED BY <4>1, <4>8 DEF RecoveredNamespaceConfirmed
    <3>2. status = "confirmed" =>
            DurablyRecorded("active_namespace")' /\ RecoveredNamespaceConfirmed'
      BY <2>7, <3>1 
         DEF DurablyRecorded, ChangedAt, SynchronizedAfter, RecoveredNamespaceConfirmed,
             FactsOf, NoPath
    <3>3. Changes("active_namespace")
      BY <1>1, <2>2, <2>3, <2>7, <3>2, Shown
    <3>4. Gated
      BY <2>1, <2>4, <3>2 DEF Gated
    <3> QED BY <3>3, <3>4 DEF Grounding
  <2> QED BY <2>2, <2>5, <2>6, <2>7
<1>6. CASE ResumeConclude
  <2>1. pc' = "over" /\ facts' = facts
    BY <1>6, Nexts DEF ResumeConclude
  <2>2. profile' = profile \/ Establish("active_namespace", "visible")
    BY <1>6 DEF ResumeConclude
  <2>3. CASE profile' = profile
    BY <2>1, <2>3, Unmoved, Ungated DEF Grounding
  <2>4. CASE Establish("active_namespace", "visible")
    <3>1. Changes("active_namespace")
      BY <1>1, <2>1, <2>4, Worsened
    <3> QED BY <2>1, <3>1, Ungated DEF Grounding
  <2> QED BY <2>2, <2>3, <2>4
<1> QED BY <1>3, <1>4, <1>5, <1>6

\* Of every step between two crashes.
LEMMA WalkGrounding ==
  ASSUME Typed, Gathered, Reversed, Grounded, FreshStep \/ ResumedStep
  PROVE  Grounding
<1>1. session' = session
  BY DEF FreshStep, ResumedStep, Journaling
<1>2. CASE FreshStep
  <2>1. session = "fresh" /\ FreshNext
    BY <1>2 DEF FreshStep
  <2> QED BY <1>1, <2>1, PreparationGrounding, RejectedGrounding, ActiveGrounding,
             CompletionGrounding, RecoveryGrounding DEF FreshNext
<1>3. CASE ResumedStep
  <2>1. session = "resumed" /\ (CommonStep \/ ResumedPhase)
    BY <1>3 DEF ResumedStep
  <2>2. CASE CommonStep
    <3>1. CASE CapturesDone \/ NoPayloads \/ Prepared
      BY <3>1, HandedOverGrounding
    <3>2. CASE RejectedPhase
      BY <1>1, <3>2, RejectedGrounding
    <3>3. CASE ExecuteActive \/ ActiveMutated
      BY <1>1, <3>3, ActiveGrounding DEF ActivePhase
    <3>4. CASE \/ ObserveMatched \/ ObserveUnmatched
               \/ PublishCompletedEvidence \/ SynchronizeCompletedEvidence
      BY <1>1, <3>4, CompletionGrounding DEF Completion
    <3>5. CASE RecoverNothing \/ RecoverUnselected
      BY <3>5, UnrecoveredGrounding
    <3> QED BY <2>2, <3>1, <3>2, <3>3, <3>4, <3>5 DEF CommonStep
  <2>3. CASE ResumedPhase
    BY <1>1, <2>1, <2>3, ResumedPreparationGrounding, ResumedRecoveryGrounding,
       ResumedCompletionGrounding, ActiveGrounding DEF ResumedPhase
  <2> QED BY <2>1, <2>2, <2>3
<1> QED BY <1>2, <1>3

----------------------------------------------------------------------------
(***************************************************************************)
(* What a restart and a crash leave of it.                                 *)
(***************************************************************************)
\* What stands before the events of other domains does not matter.
LEMMA PrependedDurable ==
  ASSUME facts \in Seq(Fact), NEW f, facts' = <<f>> \o facts,
         NEW d, DomainOf(f.kind) # d, DurablyRecorded(d)
  PROVE  DurablyRecorded(d)'
<1>1. /\ DOMAIN facts = 1 .. Len(facts) /\ Len(facts) \in Nat
      /\ DOMAIN facts' = 1 .. (Len(facts) + 1)
      /\ \A i \in DOMAIN facts : i + 1 \in DOMAIN facts' /\ facts'[i + 1] = facts[i]
      /\ \A i \in DOMAIN facts' : i # 1 =>
           i - 1 \in DOMAIN facts /\ facts'[i] = facts[i - 1]
      /\ facts'[1] = f
  OBVIOUS
<1>2. ASSUME NEW i \in DOMAIN facts',
             DomainOf(facts'[i].kind) = d, facts'[i].kind \notin Synchronizing,
             facts'[i].fact \in {"completed", "indeterminate"}
      PROVE  \E j \in DOMAIN facts' :
               /\ i < j /\ facts'[j].kind \in Synchronizing
               /\ DomainOf(facts'[j].kind) = d /\ facts'[j].fact = "confirmed"
  <2>1. i # 1
    BY <1>1, <1>2
  <2>2. i - 1 \in DOMAIN facts /\ facts'[i] = facts[i - 1]
    BY <1>1, <2>1
  <2>3. PICK j \in DOMAIN facts :
          /\ i - 1 < j /\ facts[j].kind \in Synchronizing
          /\ DomainOf(facts[j].kind) = d /\ facts[j].fact = "confirmed"
    BY <1>2, <2>2 DEF DurablyRecorded, ChangedAt, SynchronizedAfter
  <2>4. j + 1 \in DOMAIN facts' /\ facts'[j + 1] = facts[j]
    BY <1>1
  <2>5. i < j + 1
    BY <1>1, <2>3
  <2> QED BY <2>3, <2>4, <2>5
<1> QED BY <1>2 DEF DurablyRecorded, ChangedAt, SynchronizedAfter

\* What a crash takes away was only assumed, and never a synchronization.
LEMMA CrashDurable ==
  ASSUME facts \in Seq(Fact), Intents, facts' = Durable, NEW d, DurablyRecorded(d)
  PROVE  DurablyRecorded(d)'
<1>1. PICK shift \in {0, 1} :
        /\ \A i \in DOMAIN facts' :
             i + shift \in DOMAIN facts /\ facts'[i] = facts[i + shift]
        /\ \A i \in DOMAIN facts :
             Assumed(i) \/ (i - shift \in DOMAIN facts' /\ facts'[i - shift] = facts[i])
  BY Durably
<1>2. \A i \in DOMAIN facts : Assumed(i) => facts[i].fact = "indeterminate"
  BY DEF Intents
<1>3. DOMAIN facts \subseteq Nat /\ DOMAIN facts' \subseteq Nat
  <2>1. facts' \in Seq(Fact)
    BY Durably
  <2> QED BY <2>1
<1>4. ASSUME NEW i \in DOMAIN facts',
             DomainOf(facts'[i].kind) = d, facts'[i].kind \notin Synchronizing,
             facts'[i].fact \in {"completed", "indeterminate"}
      PROVE  \E j \in DOMAIN facts' :
               /\ i < j /\ facts'[j].kind \in Synchronizing
               /\ DomainOf(facts'[j].kind) = d /\ facts'[j].fact = "confirmed"
  <2>1. i + shift \in DOMAIN facts /\ facts'[i] = facts[i + shift]
    BY <1>1
  <2>2. PICK j \in DOMAIN facts :
          /\ i + shift < j /\ facts[j].kind \in Synchronizing
          /\ DomainOf(facts[j].kind) = d /\ facts[j].fact = "confirmed"
    BY <1>4, <2>1 DEF DurablyRecorded, ChangedAt, SynchronizedAfter
  <2>3. j - shift \in DOMAIN facts' /\ facts'[j - shift] = facts[j]
    BY <1>1, <1>2, <2>2
  <2>4. i < j - shift
    BY <1>3, <2>2
  <2> QED BY <2>2, <2>3, <2>4
<1> QED BY <1>4 DEF DurablyRecorded, ChangedAt, SynchronizedAfter

\* A domain with an event that moves it is not called not attempted.
LEMMA ViewAttempted ==
  ASSUME facts \in Seq(Fact), NEW d \in Domain, Moving(d) # {}
  PROVE  View[d] # "not_attempted"
<1>1. Highest(Moving(d)) \in Moving(d) /\ View[d] = Says(facts[Highest(Moving(d))])
  BY ViewTyped
<1>2. facts[Highest(Moving(d))] \in Fact
  BY <1>1 DEF Moving
<1>3. \A f \in Fact : f.kind \in Synchronizing => f.fact \in Synchronized
  BY DEF Fact
<1> QED BY <1>1, <1>2, <1>3 DEF Says, Synchronized

\* What the resumed phases rebuild is backed by the journal.
LEMMA RebuiltBacked ==
  ASSUME Typed, Grounded, stage # "preparing"
  PROVE  /\ DurablyRecorded("incoming_staging") /\ DurablyRecorded("recovery_staging")
         /\ \A d \in Marked : Rebuilt[d] = "confirmed" => DurablyRecorded(d)
         /\ Rebuilt["completed_evidence"] = "not_attempted"
<1>1. DurablyRecorded("incoming_staging") /\ DurablyRecorded("recovery_staging")
  BY GroundedParts
<1>2. ASSUME NEW d \in {"rejected_object_store", "active_namespace"},
             Rebuilt[d] = "confirmed"
      PROVE  DurablyRecorded(d)
  <2>1. View[d] = "confirmed"
    BY <1>2 DEF Rebuilt, Domain
  <2> QED BY <2>1, ViewDurable DEF Typed, Domain
<1>3. Rebuilt["completed_evidence"] = "not_attempted"
  BY DEF Rebuilt, Domain
<1> QED BY <1>1, <1>2, <1>3 DEF Marked

\* When execution goes on, a domain that is rebuilt as not attempted has not
\* been changed.
LEMMA RebuiltUnchanging ==
  ASSUME Typed, Once, Staged, Mutated, pc = "crashed", stage # "preparing",
         ~RequiresRecovery,
         NEW d \in {"rejected_object_store", "active_namespace"},
         Rebuilt[d] = "not_attempted"
  PROVE  Unchanging(d)
<1>1. \A i \in DOMAIN facts : facts[i] \in Fact /\ Planned(facts[i])
  BY DEF Typed, Staged
<1>2. ASSUME d = "rejected_object_store", NEW i \in DOMAIN facts,
             DomainOf(facts[i].kind) = d, facts[i].kind \notin Synchronizing
      PROVE  FALSE
  <2>1. facts[i].kind = "publish_rejected_object" /\ facts[i].path \in Rejecteds
    BY <1>1, <1>2, DomainEffects DEF Planned
  <2>2. Recorded("publish_rejected_object", facts[i].path)
    BY <2>1, RecordedByEvent
  <2>3. Rebuilt[d] = IF Recorded("synchronize_rejected_store", NoPath)
                     THEN View[d] ELSE "visible"
    BY <1>2, <2>1, <2>2 DEF Rebuilt, Domain
  <2>4. Recorded("synchronize_rejected_store", NoPath) /\ View[d] = "not_attempted"
    BY <2>3
  <2>5. PICK j \in DOMAIN facts : facts[j].kind = "synchronize_rejected_store"
    BY <2>4, RecordedByEvent
  <2>6. j \in Moving(d)
    BY <1>2, <2>5, KindDomains DEF Moving, Moves, Synchronizing
  <2> QED BY <2>4, <2>6, ViewAttempted DEF Typed, Domain
<1>3. ASSUME d = "active_namespace", NEW i \in DOMAIN facts,
             DomainOf(facts[i].kind) = d, facts[i].kind \notin Synchronizing,
             facts[i].fact \in {"completed", "indeterminate"}
      PROVE  FALSE
  <2>1. stage \in {"mutating", "visible"}
    BY DEF Staged, Typed, RequiresRecovery
  <2>2. facts[i].kind # "recover_active_object"
    BY <2>1 DEF Staged
  <2>3. facts[i].kind = "publish_active_object" /\ facts[i].path \in Actives
    BY <1>1, <1>3, <2>2, DomainEffects DEF Planned
  <2> DEFINE p == facts[i].path
  <2>4. facts[i].fact \in FactsOf("publish_active_object", p)
    BY <2>3, RecordedByEvent
  <2>5. CASE facts[i].fact = "completed"
    <3>1. SomeChanged
      BY <2>3, <2>4, <2>5 DEF SomeChanged, Changed
    <3>2. Rebuilt[d] = IF Recorded("synchronize_active_namespace", NoPath)
                       THEN View[d] ELSE "visible"
      BY <1>3, <3>1 DEF Rebuilt, Domain
    <3>3. Recorded("synchronize_active_namespace", NoPath) /\ View[d] = "not_attempted"
      BY <3>2
    <3>4. PICK j \in DOMAIN facts : facts[j].kind = "synchronize_active_namespace"
      BY <3>3, RecordedByEvent
    <3>5. j \in Moving(d)
      BY <1>3, <3>4, KindDomains DEF Moving, Moves, Synchronizing
    <3> QED BY <3>3, <3>5, ViewAttempted DEF Typed, Domain
  <2>6. CASE facts[i].fact = "indeterminate"
    <3>1. ActiveStatus(p) = "indeterminate"
      BY <2>4, <2>6, OneFact DEF ActiveStatus
    <3>2. p \in FailedActive
      BY <2>3, <3>1 DEF FailedActive
    <3>3. stage = "visible"
      BY <2>1, <3>2 DEF RequiresRecovery
    <3> QED BY <2>3, <2>4, <2>6, <3>3 DEF Mutated, AllActive
  <2> QED BY <1>3, <2>5, <2>6
<1>4. d = "rejected_object_store" => Unchanging(d)
  BY <1>2 DEF Unchanging
<1>5. d = "active_namespace" => Unchanging(d)
  BY <1>3 DEF Unchanging
<1> QED BY <1>4, <1>5

\* A restart leaves a position of preparation, mutation or recovery, or ends.
LEMMA RestartedGrounded ==
  ASSUME session' = "resumed", attempt' = attempt, pc' \in {"captures", "over", "recover"} \cup InMutation,
         \A d \in Marked : profile'[d] = "confirmed" => DurablyRecorded(d)',
         profile'["completed_evidence"] = "not_attempted",
         pc' = "captures" => profile'["recovery_staging"] # "confirmed",
         stage' # "preparing" =>
           DurablyRecorded("incoming_staging")' /\ DurablyRecorded("recovery_staging")',
         pc' \in InMutation =>
           \A d \in {"rejected_object_store", "active_namespace"} :
             profile'[d] = "not_attempted" => Unchanging(d)'
  PROVE  Grounded'
<1>1. Recordable' = Marked
  BY DEF Recordable, Marked, Domain
<1>2. pc' \notin {"publish_evidence", "sync_evidence", "resync_evidence", "conclude"}
  BY DEF InMutation
<1>3. pc' \in Forward => pc' \in InMutation
  BY DEF Forward, Completing, InMutation
<1> QED BY <1>1, <1>2, <1>3 DEF Grounded

\* Every restart starts from what the journal backs.
LEMMA RestartGrounded ==
  ASSUME Typed, Once, Staged, Gathered, Mutated, Grounded, Restart
  PROVE  Grounded'
<1>1. /\ pc = "crashed" /\ session' = "resumed" /\ attempt' = attempt
      /\ facts \in Seq(Fact)
  BY DEF Restart, RefuseResumed, ResumePreparing, ReplayFailedRejected, ResumeForward,
         ReplayActiveSynchronization, ResumeInterrupted, Restarted, Typed
<1>2. ASSUME facts' = facts
      PROVE  \A d : /\ DurablyRecorded(d)' <=> DurablyRecorded(d)
                    /\ Unchanging(d)' <=> Unchanging(d)
  BY <1>2 DEF DurablyRecorded, ChangedAt, SynchronizedAfter, Unchanging
<1>3. ASSUME NEW kind, NEW p, facts' = <<Lost(kind, p)>> \o facts,
             NEW d, DomainOf(kind) # d, DurablyRecorded(d)
      PROVE  DurablyRecorded(d)'
  <2> DEFINE f == Lost(kind, p)
  <2>1. facts' = <<f>> \o facts /\ f.kind = kind
    BY <1>3 DEF Lost, Event
  <2> HIDE DEF f
  <2> QED BY <1>1, <1>3, <2>1, PrependedDurable
<1>4. CASE RefuseResumed
  <2>1. pc' = "over" /\ facts' = facts /\ stage' = "preparing"
    BY <1>4, Nexts DEF RefuseResumed, Restarted
  <2>2. profile' = [NothingAttempted EXCEPT
          !["incoming_staging"] = SynchronizationStatus("synchronize_incoming_staging"),
          !["recovery_staging"] = SynchronizationStatus("synchronize_recovery_staging")]
    BY <1>4 DEF RefuseResumed
  <2>3. /\ profile'["incoming_staging"] = SynchronizationStatus("synchronize_incoming_staging")
        /\ profile'["recovery_staging"] = SynchronizationStatus("synchronize_recovery_staging")
        /\ profile'["rejected_object_store"] = "not_attempted"
        /\ profile'["active_namespace"] = "not_attempted"
        /\ profile'["completed_evidence"] = "not_attempted"
    BY <2>2 DEF NothingAttempted, Domain
  <2>4. ASSUME NEW kind \in {"synchronize_incoming_staging", "synchronize_recovery_staging"},
               SynchronizationStatus(kind) = "confirmed"
        PROVE  DurablyRecorded(DomainOf(kind))
    <3>1. Recorded(kind, NoPath)
      BY <2>4 DEF SynchronizationStatus
    <3>2. "confirmed" \in FactsOf(kind, NoPath)
      BY <1>1, <2>4, <3>1, SynchronizationTyped DEF Synchronizing
    <3> QED BY <1>1, <3>2, GatheredDurable, KindDomains
  <2>5. \A d \in Marked : profile'[d] = "confirmed" => DurablyRecorded(d)'
    BY <1>2, <2>1, <2>3, <2>4, KindDomains DEF Marked
  <2> QED BY <1>1, <2>1, <2>3, <2>5, RestartedGrounded DEF InMutation
<1>5. CASE ResumePreparing
  <2>1. pc' = "captures" /\ stage' = "preparing"
    BY <1>5 DEF ResumePreparing, Restarted
  <2>2. profile' = [NothingAttempted EXCEPT
          !["recovery_staging"] = IF Captures = {} THEN "not_attempted" ELSE "visible"]
    BY <1>5 DEF ResumePreparing
  <2>3. \A d \in Marked \cup {"completed_evidence"} : profile'[d] # "confirmed"
    BY <2>2 DEF NothingAttempted, Domain, Marked
  <2>4. profile'["completed_evidence"] = "not_attempted"
    BY <2>2 DEF NothingAttempted, Domain
  <2> QED BY <1>1, <2>1, <2>3, <2>4, RestartedGrounded DEF InMutation, Marked
<1>6. CASE ReplayFailedRejected
  <2>1. stage # "preparing" /\ pc' = "over"
    BY <1>6, Nexts DEF ReplayFailedRejected, PastPreparation
  <2>2. \E s : s # "confirmed"
               /\ profile' = [PreparedProfile EXCEPT !["rejected_object_store"] = s]
    BY <1>6 DEF ReplayFailedRejected, RejectedUnsynchronized
  <2>3. /\ profile'["rejected_object_store"] # "confirmed"
        /\ profile'["active_namespace"] # "confirmed"
        /\ profile'["completed_evidence"] = "not_attempted"
    <3>1. /\ PreparedProfile["active_namespace"] = "not_attempted"
          /\ PreparedProfile["completed_evidence"] = Rebuilt["completed_evidence"]
          /\ DOMAIN PreparedProfile = Domain
      BY <1>1, RebuiltTyped DEF PreparedProfile, Domain
    <3>2. PreparedProfile["completed_evidence"] = "not_attempted"
      BY <2>1, <3>1, RebuiltBacked
    <3> QED BY <1>1, <2>2, <3>1, <3>2, RebuiltTyped DEF Domain
  <2>4. \/ facts' = facts
        \/ \E p : facts' = <<Lost("publish_rejected_object", p)>> \o facts
    BY <1>6 DEF ReplayFailedRejected, Assume, Lost, Event
  <2>5. DurablyRecorded("incoming_staging")' /\ DurablyRecorded("recovery_staging")'
    <3>1. DurablyRecorded("incoming_staging") /\ DurablyRecorded("recovery_staging")
      BY <2>1, RebuiltBacked
    <3> QED BY <1>2, <1>3, <2>4, <3>1, KindDomains
  <2> QED BY <1>1, <2>1, <2>3, <2>5, RestartedGrounded DEF InMutation, Marked
<1>7. CASE ResumeForward
  <2>1. /\ stage # "preparing" /\ ~RequiresRecovery /\ facts' = facts /\ profile' = Rebuilt
    BY <1>7 DEF ResumeForward, PastPreparation
  <2>2. pc' \in InMutation
    BY <1>7 DEF ResumeForward, InMutation
  <2>3. \A d \in {"rejected_object_store", "active_namespace"} :
          profile'[d] = "not_attempted" => Unchanging(d)'
    BY <1>1, <1>2, <2>1, RebuiltUnchanging
  <2>4. /\ DurablyRecorded("incoming_staging")' /\ DurablyRecorded("recovery_staging")'
        /\ \A d \in Marked : profile'[d] = "confirmed" => DurablyRecorded(d)'
        /\ profile'["completed_evidence"] = "not_attempted"
    BY <1>2, <2>1, RebuiltBacked
  <2> QED BY <1>1, <2>2, <2>3, <2>4, RestartedGrounded DEF InMutation
<1>8. CASE ReplayActiveSynchronization
  <2>1. stage # "preparing" /\ facts' = facts /\ profile' = Rebuilt
    BY <1>8 DEF ReplayActiveSynchronization, PastPreparation
  <2>2. pc' \in {"recover", "over"}
    BY <1>8, Nexts DEF ReplayActiveSynchronization
  <2>3. /\ DurablyRecorded("incoming_staging")' /\ DurablyRecorded("recovery_staging")'
        /\ \A d \in Marked : profile'[d] = "confirmed" => DurablyRecorded(d)'
        /\ profile'["completed_evidence"] = "not_attempted"
    BY <1>2, <2>1, RebuiltBacked
  <2> QED BY <1>1, <2>2, <2>3, RestartedGrounded DEF InMutation
<1>9. CASE ResumeInterrupted
  <2>1. stage # "preparing"
        /\ profile' = [Rebuilt EXCEPT !["active_namespace"] = InferredStatus(InferredCause)]
    BY <1>9 DEF ResumeInterrupted, PastPreparation
  <2>2. pc' \in {"recover", "over"}
    BY <1>9, Nexts DEF ResumeInterrupted, Reject
  <2>3. \/ LostActive = {} /\ facts' = facts
        \/ /\ LostActive # {}
           /\ \E p : facts' = <<Lost("publish_active_object", p)>> \o facts
    BY <1>9 DEF ResumeInterrupted, Assume, Lost, Event
  <2>4. /\ profile'["active_namespace"] = InferredStatus(InferredCause)
        /\ \A d \in Domain \ {"active_namespace"} : profile'[d] = Rebuilt[d]
    BY <1>1, <2>1, RebuiltTyped DEF Domain
  <2>5. ASSUME NEW d \in Marked, d # "active_namespace", DurablyRecorded(d)
        PROVE  DurablyRecorded(d)'
    BY <1>2, <1>3, <2>3, <2>5, KindDomains
  <2>6. ASSUME profile'["active_namespace"] = "confirmed"
        PROVE  DurablyRecorded("active_namespace")'
    <3>1. View["active_namespace"] = "confirmed" /\ InferredCause # "effect_indeterminate"
      BY <2>4, <2>6 DEF InferredStatus
    <3>2. LostActive = {}
      BY <3>1 DEF InferredCause
    <3>3. DurablyRecorded("active_namespace")
      BY <1>1, <3>1, ViewDurable DEF Domain
    <3> QED BY <1>2, <2>3, <3>2, <3>3
  <2>7. \A d \in Marked : profile'[d] = "confirmed" => DurablyRecorded(d)'
    BY <2>1, <2>4, <2>5, <2>6, RebuiltBacked, MarkedDomains
  <2>8. DurablyRecorded("incoming_staging")' /\ DurablyRecorded("recovery_staging")'
    BY <2>1, <2>5, RebuiltBacked DEF Marked
  <2>9. profile'["completed_evidence"] = "not_attempted"
    BY <2>1, <2>4, RebuiltBacked DEF Domain
  <2> QED BY <1>1, <2>2, <2>7, <2>8, <2>9, RestartedGrounded DEF InMutation
<1> QED BY <1>4, <1>5, <1>6, <1>7, <1>8, <1>9 DEF Restart

\* A crash leaves nothing but the journal.
LEMMA CrashGrounded ==
  ASSUME Typed, Staged, Intents, Grounded, Crash
  PROVE  Grounded'
<1>1. Crashing
  BY CrashShaped
<1>2. /\ pc' = "crashed" /\ facts' = Durable /\ attempt' = attempt /\ facts \in Seq(Fact)
      /\ stage' # "preparing" => stage # "preparing"
  BY <1>1 DEF Crashing, Staged, Recovering, Typed
<1>3. profile' = [NothingAttempted EXCEPT !["journal"] = "confirmed"]
  BY DEF Crash
<1>4. \A d \in Domain \ {"journal"} : profile'[d] = "not_attempted"
  BY <1>3 DEF NothingAttempted, Domain
<1>5. \A d \in Recordable' : profile'[d] # "confirmed"
  BY <1>4 DEF Recordable
<1>6. stage' # "preparing" =>
        DurablyRecorded("incoming_staging")' /\ DurablyRecorded("recovery_staging")'
  BY <1>2, GroundedParts, CrashDurable
<1>7. profile'["completed_evidence"] = "not_attempted"
  BY <1>4 DEF Domain
<1> QED BY <1>2, <1>5, <1>6, <1>7 DEF Grounded, Forward, InMutation, Completing

\* Admission starts with nothing attempted.
LEMMA InitGrounded == Init => Grounded
<1> SUFFICES ASSUME Init PROVE Grounded
  OBVIOUS
<1>1. pc = "admit" /\ stage = "preparing" /\ profile = [d \in Domain |-> "not_attempted"]
      /\ session = "fresh"
  BY DEF Init, FreshInit
<1>2. \A d \in Domain : profile[d] = "not_attempted"
  BY <1>1
<1> QED BY <1>1, <1>2 DEF Grounded, Recordable, Forward, InMutation, Completing, Domain

\* What the durability profile stands on is kept by every step.
LEMMA NextGrounded ==
  ASSUME Kept, Grounded, [Next]_allVars
  PROVE  Grounded'
<1>1. /\ Typed /\ Once /\ Ended /\ Staged /\ Ahead /\ Intents /\ Gathered /\ Mutated
      /\ Reversed
  BY DEF Kept
<1>2. CASE FreshStep \/ ResumedStep
  <2>1. Walk
    BY <1>1, <1>2, FreshWalk, ResumedWalk
  <2>2. Grounding
    BY <1>1, <1>2, WalkGrounding
  <2> QED BY <1>1, <2>1, <2>2, StepGrounded DEF Grounding
<1>3. CASE Crash
  BY <1>1, <1>3, CrashGrounded
<1>4. CASE Restart
  BY <1>1, <1>4, RestartGrounded
<1>5. CASE UNCHANGED allVars
  <2>1. /\ attempt' = attempt /\ pc' = pc /\ profile' = profile /\ facts' = facts
        /\ session' = session /\ stage' = stage
    BY <1>5 DEF allVars, vars, restartVars
  <2>2. /\ Recordable' = Recordable /\ MustBeDurable' = MustBeDurable
        /\ \A d : DurablyRecorded(d)' <=> DurablyRecorded(d)
        /\ \A d : Unchanging(d)' <=> Unchanging(d)
        /\ \A kind, p : FactsOf(kind, p)' = FactsOf(kind, p)
        /\ RecoveredNamespaceConfirmed' <=> RecoveredNamespaceConfirmed
    BY <2>1 DEF Recordable, MustBeDurable, AllDomains, DurablyRecorded,
       ChangedAt, SynchronizedAfter, Unchanging,
       FactsOf, RecoveredNamespaceConfirmed, NoPath
  <2>3. Paths' = Paths
    BY DEF Paths
  <2> QED BY <2>1, <2>2, <2>3 DEF Grounded
<1> QED BY <1>2, <1>3, <1>4, <1>5 DEF Next

----------------------------------------------------------------------------
(***************************************************************************)
(* How a fresh recovery is concluded.                                      *)
(***************************************************************************)
\* A recovery of unknown outcome is the last event of a fresh attempt, and
\* recovery is complete only when the namespace was synchronized after it.
Concluding ==
  /\ Doubtful => pc \in {"conclude", "over", "crashed"}
  /\ session = "fresh" /\ pc = "conclude" =>
       /\ AllRecovered => NamespaceSynchronizedLast(profile["active_namespace"])
       /\ profile["active_namespace"] = "confirmed" => ReportedDurable("active_namespace")

\* What is durable is reported durable.
LEMMA DurableReported == \A d : DurablyRecorded(d) => ReportedDurable(d)
BY DEF DurablyRecorded, ReportedDurable

\* The steps of a fresh recovery.
LEMMA RecoveryMoves ==
  ASSUME Typed, FreshNext, pc = "recover"
  PROVE  \/ pc' = "over" /\ facts' = facts
         \/ /\ pc' = "recover"
            /\ \E p : Record("recover_active_object", p, "completed", FALSE)
         \/ /\ pc' = "conclude" /\ profile' = profile
            /\ \E p \in Left("recover_active_object", Candidates) :
                 \E fact \in {"failed", "indeterminate"} :
                   Record("recover_active_object", p, fact, FALSE)
         \/ /\ pc' = "conclude"
            /\ \E status \in Synchronized :
                 /\ Record("synchronize_recovered_namespace", NoPath, status, FALSE)
                 /\ Establish("active_namespace", status)
<1>1. ~Preparation
  BY DEF Preparation, RefusePreconditions, Admit, CaptureOldObject, CapturesDone,
     StageIncomingPayloads, NoPayloads, SynchronizeIncoming, SynchronizeRecovery, Prepared
<1>2. ~RejectedPhase /\ ~ActivePhase /\ ~Completion
  BY DEF RejectedPhase, ActivePhase, Completion, PublishRejected, SynchronizeRejected,
     RejectedPublished, ExecuteActive, SynchronizeActive, ActiveMutated, ObserveMatched,
     ObserveUnmatched, PublishCompletedEvidence, SynchronizeCompletedEvidence
<1>3. Recovery
  BY <1>1, <1>2 DEF FreshNext
<1>4. CASE RecoverNothing \/ RecoverUnselected \/ ConcludeRecovery
  BY <1>4, Nexts DEF RecoverNothing, RecoverUnselected, ConcludeRecovery
<1>5. CASE Recover
  <2> DEFINE p == Highest(Left("recover_active_object", Candidates))
  <2>1. p \in Left("recover_active_object", Candidates)
    <3>1. Left("recover_active_object", Candidates) # {}
      BY <1>5 DEF Recover
    <3>2. Left("recover_active_object", Candidates) \subseteq Paths
      BY PlanPaths DEF Left
    <3> QED BY <3>1, <3>2, NextPath
  <2>2. PICK fact \in Operated :
          /\ Record("recover_active_object", p, fact, FALSE)
          /\ \/ fact = "completed" /\ Continue("recover")
             \/ fact # "completed" /\ profile' = profile /\ Continue("conclude")
    BY <1>5 DEF Recover
  <2>3. CASE fact = "completed"
    BY <2>2, <2>3, Nexts
  <2>4. CASE fact \in {"failed", "indeterminate"}
    BY <2>1, <2>2, <2>4, Nexts
  <2> QED BY <2>3, <2>4 DEF Operated
<1>6. CASE SynchronizeRecovered
  BY <1>6, Nexts DEF SynchronizeRecovered
<1> QED BY <1>3, <1>4, <1>5, <1>6 DEF Recovery

\* What an appended event adds to the facts of an effect.
LEMMA AppendedFacts ==
  ASSUME facts \in Seq(Fact), NEW f, facts' = Append(facts, f)
  PROVE  \A kind, p :
           FactsOf(kind, p)' = IF f.kind = kind /\ f.path = p
                               THEN FactsOf(kind, p) \cup {f.fact} ELSE FactsOf(kind, p)
<1> TAKE kind, p
<1> DEFINE here == {j \in DOMAIN facts : facts[j].kind = kind /\ facts[j].path = p}
           next == {j \in DOMAIN facts' : facts'[j].kind = kind /\ facts'[j].path = p}
<1>1. FactsOf(kind, p) = {facts[i].fact : i \in here}
  BY DEF FactsOf
<1>2. FactsOf(kind, p)' = {facts'[i].fact : i \in next}
  BY DEF FactsOf
<1>3. \A i \in here : i \in next /\ facts'[i].fact = facts[i].fact
  BY AppendedAny
<1>4. \A i \in next :
        \/ i \in here /\ facts'[i].fact = facts[i].fact
        \/ i = Len(facts) + 1 /\ f.kind = kind /\ f.path = p /\ facts'[i].fact = f.fact
  BY AppendedAny
<1>5. f.kind = kind /\ f.path = p =>
        Len(facts) + 1 \in next /\ facts'[Len(facts) + 1].fact = f.fact
  BY AppendedAny
<1> HIDE DEF here, next
<1> QED BY <1>1, <1>2, <1>3, <1>4, <1>5

\* A recovery that does not complete leaves candidates unrecovered, and changes
\* nothing that is reported.
LEMMA UnrecoveredConcluding ==
  ASSUME Typed, Grounded, ~Doubtful, session' = "fresh",
         profile' = profile, attempt' = attempt,
         NEW p \in Left("recover_active_object", Candidates),
         NEW fact \in {"failed", "indeterminate"},
         Record("recover_active_object", p, fact, FALSE)
  PROVE  /\ ~AllRecovered'
         /\ profile'["active_namespace"] = "confirmed" => ReportedDurable("active_namespace")'
<1> DEFINE f == Event("recover_active_object", p, fact, FALSE)
<1>1. /\ facts' = Append(facts, f)
      /\ f.kind = "recover_active_object" /\ f.path = p /\ f.fact = fact
  BY DEF Record, Event
<1> HIDE DEF f
<1>2. \A kind, q :
        FactsOf(kind, q)' = IF f.kind = kind /\ f.path = q
                            THEN FactsOf(kind, q) \cup {f.fact} ELSE FactsOf(kind, q)
  BY <1>1, AppendedFacts DEF Typed
<1>3. p \in Candidates'
  <2>1. \A q : FactsOf("publish_active_object", q)' = FactsOf("publish_active_object", q)
    BY <1>1, <1>2
  <2>2. Actives' = Actives
    BY SamePlan
  <2> QED BY <2>1, <2>2 DEF Candidates, Changed, Left
<1>4. ~Recovered(p)'
  <2>1. FactsOf("recover_active_object", p) = {}
    BY DEF Left, Recorded
  <2>2. FactsOf("recover_active_object", p)' = {fact}
    BY <1>1, <1>2, <2>1
  <2> QED BY <2>2 DEF Recovered
<1>5. ASSUME profile'["active_namespace"] = "confirmed"
      PROVE  ReportedDurable("active_namespace")'
  <2>1. DurablyRecorded("active_namespace")
    BY <1>5, GroundedParts, MarkedDomains DEF Backed, Marked
  <2>2. SUFFICES ASSUME NEW i \in DOMAIN facts', ChangedAt(i, "active_namespace")',
                        ~Unreported(i)'
                 PROVE  SynchronizedAfter(i, "active_namespace")'
    BY DEF ReportedDurable
  <2>3. i \in DOMAIN facts /\ facts'[i] = facts[i]
    <3>1. CASE i = Len(facts) + 1
      <4>1. facts'[i] = f
        BY <1>1, <3>1, AppendedAny DEF Typed
      <4> QED BY <1>1, <2>2, <4>1 DEF ChangedAt, Unreported
    <3> QED BY <1>1, <3>1, AppendedAny DEF Typed
  <2>4. PICK j \in DOMAIN facts :
          /\ i < j /\ facts[j].kind \in Synchronizing
          /\ DomainOf(facts[j].kind) = "active_namespace" /\ facts[j].fact = "confirmed"
    BY <2>1, <2>2, <2>3 DEF DurablyRecorded, ChangedAt, SynchronizedAfter
  <2>5. j \in DOMAIN facts' /\ facts'[j] = facts[j]
    BY <1>1, AppendedAny DEF Typed
  <2> QED BY <2>4, <2>5 DEF SynchronizedAfter
<1> QED BY <1>3, <1>4, <1>5 DEF AllRecovered

\* A synchronization is the last event, and confirms all before it.
LEMMA SynchronizedConcluding ==
  ASSUME Typed, NEW status \in Synchronized,
         Record("synchronize_recovered_namespace", NoPath, status, FALSE),
         Establish("active_namespace", status)
  PROVE  /\ NamespaceSynchronizedLast(profile["active_namespace"])'
         /\ profile'["active_namespace"] = "confirmed" => ReportedDurable("active_namespace")'
<1> DEFINE f == Event("synchronize_recovered_namespace", NoPath, status, FALSE)
<1>1. /\ facts' = Append(facts, f) /\ f.fact = status
      /\ f.kind = "synchronize_recovered_namespace"
  BY DEF Record, Event
<1> HIDE DEF f
<1>2. profile'["active_namespace"] = status
  BY MarkedDomains DEF Establish, Typed, Marked
<1> DEFINE last == Len(facts) + 1
<1>3. /\ last \in DOMAIN facts' /\ facts'[last] = f
      /\ \A i \in DOMAIN facts' : i <= last /\ (i # last => i < last)
  BY <1>1, AppendedAny DEF Typed
<1> HIDE DEF last
<1>4. NamespaceSynchronizedLast(profile["active_namespace"])'
  BY <1>1, <1>2, <1>3 DEF NamespaceSynchronizedLast
<1>5. /\ "synchronize_recovered_namespace" \in Synchronizing
      /\ DomainOf("synchronize_recovered_namespace") = "active_namespace"
  BY KindDomains
<1>6. ASSUME status = "confirmed", NEW i \in DOMAIN facts', ChangedAt(i, "active_namespace")'
      PROVE  SynchronizedAfter(i, "active_namespace")'
  <2>1. i < last
    BY <1>1, <1>3, <1>5, <1>6 DEF ChangedAt
  <2> QED BY <1>1, <1>3, <1>5, <1>6, <2>1 DEF SynchronizedAfter
<1> QED BY <1>2, <1>4, <1>6 DEF ReportedDurable

\* A fresh recovery that is concluded changes nothing any more.
LEMMA FreshConclusion ==
  ASSUME session = "fresh", pc = "conclude", FreshStep \/ ResumedStep
  PROVE  profile' = profile /\ facts' = facts
<1>1. FreshNext
  BY DEF FreshStep, ResumedStep
<1>2. ~Preparation
  BY DEF Preparation, RefusePreconditions, Admit, CaptureOldObject, CapturesDone,
     StageIncomingPayloads, NoPayloads, SynchronizeIncoming, SynchronizeRecovery, Prepared
<1>3. ~RejectedPhase /\ ~ActivePhase /\ ~Completion
  BY DEF RejectedPhase, ActivePhase, Completion, PublishRejected, SynchronizeRejected,
     RejectedPublished, ExecuteActive, SynchronizeActive, ActiveMutated, ObserveMatched,
     ObserveUnmatched, PublishCompletedEvidence, SynchronizeCompletedEvidence
<1>4. Recovery
  BY <1>1, <1>2, <1>3 DEF FreshNext
<1> QED BY <1>4 DEF Recovery, RecoverNothing, RecoverUnselected, Recover,
        SynchronizeRecovered, ConcludeRecovery

\* Each step of a session keeps how recovery is concluded.
LEMMA WalkConcluding ==
  ASSUME Kept, Grounded, Concluding, FreshStep \/ ResumedStep
  PROVE  Concluding'
<1>1. /\ Typed /\ Ended /\ Staged /\ Ahead /\ Intents
  BY DEF Kept
<1>2. Walk
  BY <1>1, FreshWalk, ResumedWalk
<1>3. attempt' = attempt /\ session' = session /\ pc \notin {"over", "crashed"}
  BY <1>2 DEF Walk
<1>4. CASE session # "fresh"
  BY <1>3, <1>4 DEF Concluding, Doubtful
<1>5. CASE session = "fresh" /\ pc = "conclude"
  <2>1. CASE Quiet
    BY <1>5, <2>1 DEF Quiet, QuietMoves, Concluding
  <2>2. CASE Adding
    <3>1. PICK f \in Fact : Records(f)
      BY <2>2 DEF Adding
    <3> QED BY <1>5, <3>1, EventLeads DEF EventMoves
  <2> QED BY <1>2, <2>1, <2>2 DEF Walk
<1>6. CASE session = "fresh" /\ pc # "conclude"
  <2>1. ~Doubtful /\ session' = "fresh"
    BY <1>3, <1>6 DEF Concluding
  <2>2. FreshNext
    BY <1>6 DEF FreshStep, ResumedStep
  <2>3. CASE pc # "recover"
    <3>1. pc' # "conclude"
      <4>1. CASE Quiet
        BY <1>6, <2>3, <4>1 DEF Quiet, QuietMoves
      <4>2. CASE Adding
        <5>1. PICK f \in Fact : Records(f)
          BY <4>2 DEF Adding
        <5> QED BY <1>6, <2>3, <5>1, EventLeads DEF EventMoves
      <4> QED BY <1>2, <4>1, <4>2 DEF Walk
    <3>2. \A p : FactsOf("recover_active_object", p)' = FactsOf("recover_active_object", p)
      <4>1. CASE Quiet
        BY <4>1 DEF Quiet, FactsOf
      <4>2. CASE Adding
        <5>1. PICK f \in Fact : facts' = Append(facts, f) /\ Records(f)
          BY <4>2 DEF Adding
        <5>2. f.kind # "recover_active_object"
          BY <2>3, <5>1, EventLeads DEF EventMoves
        <5> QED BY <1>1, <5>1, <5>2, AppendedFacts DEF Typed
      <4> QED BY <1>2, <4>1, <4>2 DEF Walk
    <3>3. Paths' = Paths
      BY DEF Paths
    <3>4. ~Doubtful'
      BY <1>6, <2>1, <3>2, <3>3 DEF Doubtful
    <3> QED BY <3>1, <3>4 DEF Concluding
  <2>4. CASE pc = "recover" /\ pc' = "over"
    BY <2>4 DEF Concluding
  <2>5. CASE /\ pc' = "recover"
             /\ \E p : Record("recover_active_object", p, "completed", FALSE)
    <3>1. PICK p : Record("recover_active_object", p, "completed", FALSE)
      BY <2>5
    <3> DEFINE f == Event("recover_active_object", p, "completed", FALSE)
    <3>2. facts' = Append(facts, f) /\ f.fact = "completed"
      BY <3>1 DEF Record, Event
    <3> HIDE DEF f
    <3>3. \A q : "indeterminate" \in FactsOf("recover_active_object", q)'
                 => "indeterminate" \in FactsOf("recover_active_object", q)
      BY <1>1, <3>2, AppendedFacts DEF Typed
    <3>4. Paths' = Paths
      BY DEF Paths
    <3>5. ~Doubtful'
      BY <1>6, <2>1, <3>3, <3>4 DEF Doubtful
    <3> QED BY <2>5, <3>5 DEF Concluding
  <2>6. CASE /\ pc' = "conclude" /\ profile' = profile
             /\ \E p \in Left("recover_active_object", Candidates) :
                  \E fact \in {"failed", "indeterminate"} :
                    Record("recover_active_object", p, fact, FALSE)
    <3>1. /\ ~AllRecovered'
          /\ profile'["active_namespace"] = "confirmed"
               => ReportedDurable("active_namespace")'
      BY <1>1, <1>3, <2>1, <2>6, UnrecoveredConcluding
    <3> QED BY <2>6, <3>1 DEF Concluding
  <2>7. CASE /\ pc' = "conclude"
             /\ \E status \in Synchronized :
                  /\ Record("synchronize_recovered_namespace", NoPath, status, FALSE)
                  /\ Establish("active_namespace", status)
    <3>1. /\ NamespaceSynchronizedLast(profile["active_namespace"])'
          /\ profile'["active_namespace"] = "confirmed"
               => ReportedDurable("active_namespace")'
      BY <1>1, <2>7, SynchronizedConcluding
    <3> QED BY <2>7, <3>1 DEF Concluding
  <2> QED BY <1>1, <2>2, <2>3, <2>4, <2>5, <2>6, <2>7, RecoveryMoves
<1> QED BY <1>4, <1>5, <1>6

----------------------------------------------------------------------------
(***************************************************************************)
(* Receipts.                                                               *)
(***************************************************************************)
\* A step that issues a receipt issues one whose durability is established.
LEMMA WalkEstablished ==
  ASSUME Kept, Grounded, Concluding, Grounded', FreshStep \/ ResumedStep
  PROVE  DurabilityEstablished'
<1>1. /\ Typed /\ Ended /\ Staged /\ Ahead /\ Intents /\ Reversed
  BY DEF Kept
<1>2. Walk /\ Closes
  BY <1>1, FreshWalk, ResumedWalk, WalkEnds
<1>3. attempt' = attempt /\ session' = session /\ pc \notin {"over", "crashed"}
  BY <1>2 DEF Walk
<1>4. receipt = {}
  BY <1>1, <1>3 DEF Ended
<1>5. Recordable' = Recordable /\ MustBeDurable' = MustBeDurable /\ (AllDomains' <=> AllDomains)
  BY <1>3, SamePlan DEF Recordable, MustBeDurable
<1> SUFFICES ASSUME NEW r \in receipt'
             PROVE  /\ r.outcome = "completed" => \A d \in MustBeDurable' : DurablyRecorded(d)'
                    /\ \A d \in Recordable' :
                         r.durability[d] = "confirmed" => ReportedDurable(d)'
                    /\ r.outcome = "failed_fully_recovered" /\ AllDomains' =>
                         /\ NamespaceSynchronizedLast(r.durability["active_namespace"])'
                         /\ session' = "resumed" => r.durability["active_namespace"] = "confirmed"
  BY DEF DurabilityEstablished
<1>6. pc' = "over" /\ Ending(r)
  BY <1>2, <1>4 DEF Closes
<1>7. r.durability = profile'
  BY <1>6 DEF Ending
<1>8. ASSUME NEW d \in Recordable', profile'[d] = "confirmed"
      PROVE  ReportedDurable(d)'
  <2>1. CASE ~(d = "active_namespace" /\ Doubtful')
    <3>1. DurablyRecorded(d)'
      BY <1>8, <2>1 DEF Grounded, Doubtful
    <3> QED BY <3>1 DEF DurablyRecorded, ReportedDurable
  <2>2. CASE d = "active_namespace" /\ Doubtful' /\ pc = "conclude"
    <3>1. session = "fresh"
      BY <1>3, <2>2 DEF Doubtful
    <3>2. profile' = profile /\ facts' = facts
      BY <2>2, <3>1, FreshConclusion
    <3>3. ReportedDurable("active_namespace")
      BY <1>8, <2>2, <3>1, <3>2 DEF Concluding
    <3> QED BY <1>3, <2>2, <3>2, <3>3
        DEF ReportedDurable, ChangedAt, SynchronizedAfter, Unreported
  <2>3. CASE Doubtful' /\ pc # "conclude"
    <3>1. ~Doubtful
      BY <1>3, <2>3 DEF Concluding
    <3>2. ~Quiet
      BY <1>3, <2>3, <3>1 DEF Quiet, Doubtful, FactsOf, Paths
    <3>3. PICK f \in Fact : facts' = Append(facts, f) /\ Records(f)
      BY <1>2, <3>2 DEF Walk, Adding
    <3>4. f.kind # "recover_active_object"
      BY <1>6, <3>3, EventLeads DEF EventMoves
    <3>5. \A p : FactsOf("recover_active_object", p)' = FactsOf("recover_active_object", p)
      BY <1>1, <3>3, <3>4, AppendedFacts DEF Typed
    <3> QED BY <1>3, <2>3, <3>1, <3>5 DEF Doubtful, Paths
  <2> QED BY <2>1, <2>2, <2>3
<1>9. ASSUME r.outcome = "completed", NEW d \in MustBeDurable
      PROVE  DurablyRecorded(d)'
  <2>1. /\ pc \in {"sync_evidence", "resync_evidence"}
        /\ profile'["completed_evidence"] = "confirmed"
    BY <1>6, <1>9 DEF Ending
  <2>2. CASE d = "completed_evidence"
    <3>1. "completed_evidence" \in Recordable'
      BY <1>5, <1>9, <2>2 DEF MustBeDurable
    <3> QED BY <2>1, <2>2, <3>1 DEF Grounded
  <2>3. CASE d # "completed_evidence"
    <3>1. DurablyRecorded(d)
      BY <1>9, <2>1, <2>3, GroundedParts
    <3>2. CASE facts' = facts
      BY <3>1, <3>2 DEF DurablyRecorded, ChangedAt, SynchronizedAfter
    <3>3. CASE Adding
      <4>1. PICK f \in Fact : facts' = Append(facts, f) /\ Records(f)
        BY <3>3 DEF Adding
      <4>2. f.kind = "synchronize_completed_evidence"
        BY <2>1, <4>1, EventLeads DEF EventMoves
      <4>3. DomainOf(f.kind) # d
        BY <2>3, <4>2, KindDomains
      <4> QED BY <1>1, <3>1, <4>1, <4>3, DurableAfter DEF Typed
    <3> QED BY <1>2, <3>2, <3>3 DEF Walk, Quiet
  <2> QED BY <2>2, <2>3
<1>10. ASSUME r.outcome = "failed_fully_recovered", AllDomains
       PROVE  /\ NamespaceSynchronizedLast(profile["active_namespace"])'
              /\ session' = "resumed" => profile'["active_namespace"] = "confirmed"
  <2>1. /\ pc = "conclude" /\ profile' = profile /\ facts' = facts /\ AllRecovered
        /\ session = "resumed" => profile["active_namespace"] = "confirmed"
    BY <1>6, <1>10 DEF Ending, FullRecovery
  <2>2. NamespaceSynchronizedLast(profile["active_namespace"])
    <3>1. CASE session = "fresh"
      BY <2>1, <3>1 DEF Concluding
    <3>2. CASE session = "resumed"
      <4>1. RecoveredNamespaceConfirmed
        BY <2>1, <3>2, GroundedParts
      <4>2. PICK j \in DOMAIN facts :
              /\ facts[j].kind = "synchronize_recovered_namespace"
              /\ facts[j].fact = "confirmed"
        BY <4>1 DEF RecoveredNamespaceConfirmed, FactsOf
      <4>3. \A i \in DOMAIN facts :
              DomainOf(facts[i].kind) = "active_namespace" => i <= j
        BY <1>1, <4>2 DEF Reversed
      <4> QED BY <2>1, <3>2, <4>2, <4>3 DEF NamespaceSynchronizedLast
    <3> QED BY <1>1, <3>1, <3>2 DEF Typed
  <2> QED BY <1>3, <2>1, <2>2 DEF NamespaceSynchronizedLast
<1> QED BY <1>3, <1>5, <1>7, <1>8, <1>9, <1>10

\* So does a restart, which neither completes nor fully recovers.
LEMMA RestartEstablished ==
  ASSUME Kept, Grounded', Ended', Restart
  PROVE  DurabilityEstablished'
<1>1. \A r \in receipt' : r.outcome \notin {"completed", "failed_fully_recovered"}
  BY RestartEnds DEF Kept
<1>2. \A r \in receipt' : r.durability = profile'
  BY DEF Ended
<1>3. session' = "resumed"
  BY DEF Restart, Restarted, RefuseResumed, ResumePreparing, ReplayFailedRejected,
     ResumeForward, ReplayActiveSynchronization, ResumeInterrupted
<1>4. \A d \in Recordable' : profile'[d] = "confirmed" => ReportedDurable(d)'
  BY <1>3 DEF Grounded, DurablyRecorded, ReportedDurable
<1> QED BY <1>1, <1>2, <1>4 DEF DurabilityEstablished

\* Each step keeps how recovery is concluded.
LEMMA NextConcluding ==
  ASSUME Kept, Grounded, Concluding, [Next]_allVars
  PROVE  Concluding'
<1>1. CASE FreshStep \/ ResumedStep
  BY <1>1, WalkConcluding
<1>2. CASE Restart
  <2>1. session' = "resumed"
    BY <1>2 DEF Restart, Restarted, RefuseResumed, ResumePreparing, ReplayFailedRejected,
       ResumeForward, ReplayActiveSynchronization, ResumeInterrupted
  <2> QED BY <2>1 DEF Concluding, Doubtful
<1>3. CASE Crash
  BY <1>3 DEF Crash, Concluding
<1>4. CASE UNCHANGED allVars
  <2>1. /\ attempt' = attempt /\ facts' = facts /\ session' = session /\ pc' = pc
        /\ profile' = profile
    BY <1>4 DEF allVars, vars, restartVars
  <2>2. /\ Doubtful' <=> Doubtful
        /\ AllRecovered' <=> AllRecovered
    BY <2>1, SamePlan DEF Doubtful, FactsOf, Paths, AllRecovered, Candidates, Changed, Recovered
  <2>3. /\ \A s : NamespaceSynchronizedLast(s) => NamespaceSynchronizedLast(s)'
        /\ ReportedDurable("active_namespace") => ReportedDurable("active_namespace")'
    BY <2>1 DEF NamespaceSynchronizedLast, ReportedDurable, ChangedAt, SynchronizedAfter,
       Unreported
  <2> QED BY <2>1, <2>2, <2>3 DEF Concluding
<1> QED BY <1>1, <1>2, <1>3, <1>4 DEF Next

\* Whatever was interrupted and resumed on the way to it, a receipt says
\* confirmed only of domains whose changes were all followed by a confirmed
\* synchronization, except that a fresh attempt leaves a recovery of unknown
\* outcome out of account; completed receipts are durable in the domains that
\* their execution control names.  With every domain durable, a fully recovered
\* one says what the last synchronization of the namespace reported, which was
\* confirmed in a restarted attempt and anything in a fresh one.
THEOREM DurabilityKept == Spec => []DurabilityEstablished
<1>1. Init => Kept /\ Grounded /\ Concluding /\ DurabilityEstablished
  <2> SUFFICES ASSUME Init PROVE Concluding /\ DurabilityEstablished
    BY InitKept, InitGrounded
  <2>1. facts = << >> /\ pc = "admit" /\ receipt = {}
    BY DEF Init, FreshInit
  <2>2. \A p : FactsOf("recover_active_object", p) = {}
    BY <2>1 DEF FactsOf
  <2> QED BY <2>1, <2>2 DEF Concluding, Doubtful, DurabilityEstablished
<1>2. Kept /\ Grounded /\ Concluding /\ DurabilityEstablished /\ [Next]_allVars
        => (Kept /\ Grounded /\ Concluding /\ DurabilityEstablished)'
  <2> SUFFICES ASSUME Kept, Grounded, Concluding, DurabilityEstablished, [Next]_allVars
               PROVE  (Kept /\ Grounded /\ Concluding /\ DurabilityEstablished)'
    OBVIOUS
  <2>1. Kept' /\ Grounded' /\ Concluding' /\ Ended'
    BY NextKept, NextGrounded, NextConcluding DEF Kept
  <2>2. CASE FreshStep \/ ResumedStep
    BY <2>1, <2>2, WalkEstablished
  <2>3. CASE Restart
    BY <2>1, <2>3, RestartEstablished
  <2>4. CASE Crash
    <3>1. receipt' = {}
      BY <2>4 DEF Crash
    <3> QED BY <2>1, <3>1 DEF DurabilityEstablished
  <2>5. CASE UNCHANGED allVars
    <3>1. /\ attempt' = attempt /\ facts' = facts /\ session' = session /\ receipt' = receipt
      BY <2>5 DEF allVars, vars, restartVars
    <3>2. /\ Recordable' = Recordable /\ MustBeDurable' = MustBeDurable
          /\ \A d : DurablyRecorded(d)' <=> DurablyRecorded(d)
          /\ \A d : ReportedDurable(d)' <=> ReportedDurable(d)
          /\ \A s : NamespaceSynchronizedLast(s)' <=> NamespaceSynchronizedLast(s)
          /\ AllDomains' <=> AllDomains
      BY <3>1 DEF Recordable, MustBeDurable, AllDomains, DurablyRecorded, ReportedDurable,
         ChangedAt, SynchronizedAfter, Unreported, NamespaceSynchronizedLast
    <3>3. DurabilityEstablished'
      BY <3>1, <3>2 DEF DurabilityEstablished
    <3> QED BY <2>1, <3>3
  <2> QED BY <2>2, <2>3, <2>4, <2>5 DEF Next
<1> QED BY <1>1, <1>2, PTL DEF Spec

=============================================================================

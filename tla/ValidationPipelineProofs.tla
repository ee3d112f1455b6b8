---------------------- MODULE ValidationPipelineProofs ----------------------
(***************************************************************************)
(* Proofs about ReplayGate and ValidationPipeline: for every bundle, every *)
(* set of flaws and faults, and every judgement.                           *)
(***************************************************************************)
EXTENDS ValidationPipeline, WellFoundedInduction, SequenceTheorems, TLAPS

(***************************************************************************)
(* Every set of natural numbers that is not empty has a least element: the *)
(* form in which the proofs use induction.                                 *)
(***************************************************************************)
LEMMA HasLeast ==
  ASSUME NEW T, T \subseteq Nat, T # {}
  PROVE  \E m \in T : \A k \in T : m <= k
<1> DEFINE R == {ss \in Nat \X Nat : ss[1] < ss[2]}
<1>1. IsWellFoundedOn(R, Nat)
  BY NatLessThanWellFounded DEF OpToRel
<1> HIDE DEF R
<1>2. PICK m \in T : \A k \in T : <<k, m>> \notin R
  BY <1>1, WFMin
<1>3. ASSUME NEW k \in T PROVE m <= k
  <2>1. <<k, m>> \in Nat \X Nat /\ <<k, m>>[1] = k /\ <<k, m>>[2] = m
    OBVIOUS
  <2>2. ~ (k < m)
    BY <1>2, <2>1 DEF R
  <2> QED BY <2>2
<1> QED BY <1>3

ReplayStage == {"Canonicalize", "SchemaValidate", "ReferenceResolve",
                "GuardEvaluate", "KernelCheck", "AuthorityEmit"}

ReplayCode == {"missing_ref", "artifact_conflict", "digest_mismatch",
               "checker_unknown", "schema_invalid", "trace_conflict",
               "validity_unknown", "completion_missing",
               "canonicalization_mismatch"}

Failure == [kind : {"failure"}, stage : ReplayStage, code : ReplayCode]

CheckName ==
  {"embedded_source", "unresolved", "pointer", "digest", "role",
   "obligation_scope", "waiver_reason", "proof_status", "transcript_status",
   "artifact", "signature_policy", "manifest_digest", "confluence_proof_ref",
   "signature_verifier_result_ref", "log_root_ref", "causal_cut_ref",
   "trace_class_ref", "event_manifest_ref", "manifest_digest_ref",
   "required_field", "transcript_label", "transcript", "no_obligations",
   "obligation_label", "obligation", "no_monitor", "monitor_label",
   "monitor", "record_array", "no_records", "record_typed", "record_scope",
   "record_source", "record", "reason_array", "no_reasons", "reason_typed",
   "reason_source", "reason", "contract_payload", "evidence_payload",
   "payload_typed", "contract_target", "contract_clause",
   "contract_transcript", "evidence_identity", "reference_digest",
   "validity_status", "monitor_status", "evidence_ref", "contract_ref",
   "checker_transcript_ref", "reason_label", "target_label", "target",
   "target_object", "target_status", "target_kind", "target_field_absent",
   "target_field", "no_transcript", "proof_ref"}

CheckRecord == [name : CheckName, stage : ReplayStage, codes : SUBSET ReplayCode]

LEMMA FailedIs ==
  ASSUME NEW s \in ReplayStage, NEW c \in ReplayCode
  PROVE  /\ Failed(s, c) \in Failure /\ Failed(s, c).kind = "failure"
         /\ Failed(s, c).stage = s /\ Failed(s, c).code = c
BY DEF Failed, Failure

LEMMA FailureIsVerdict ==
  /\ Failure \subseteq Verdict
  /\ \A f \in Failure : f # None /\ f # Raised /\ f.kind = "failure"
                        /\ f.code # "pass"
<1>1. Failure \subseteq Verdict
  BY DEF Failure, Verdict, ReplayStage, ReplayCode
<1>2. \A f \in Failure : f.kind = "failure" /\ f.code # "pass"
  BY DEF Failure, ReplayCode
<1>3. Raised.kind = "raised"
  BY DEF Raised
<1> QED BY <1>1, <1>2, <1>3, NoneIsNoVerdict

-----------------------------------------------------------------------------
(* The lists of checks.                                                    *)

LEMMA CheckTyped ==
  ASSUME NEW n \in CheckName, NEW s \in ReplayStage, NEW c \in SUBSET ReplayCode
  PROVE  Check(n, s, c) \in CheckRecord
BY DEF Check, CheckRecord

LEMMA ListsTyped ==
  /\ LedgerChecks \in Seq(CheckRecord) /\ Len(LedgerChecks) > 0
  /\ EventChecks \in Seq(CheckRecord)
  /\ ContractChecks \in Seq(CheckRecord)
  /\ ClauseChecks \in Seq(CheckRecord)
  /\ TrustChecks \in Seq(CheckRecord)
  /\ KernelChecks \in Seq(CheckRecord)
<1> USE DEF ReplayStage, ReplayCode, CheckName
<1>1. AbsenceChecks \in Seq(CheckRecord)
  BY CheckTyped DEF AbsenceChecks
<1>2. TargetArtifactChecks \in Seq(CheckRecord)
  BY CheckTyped DEF TargetArtifactChecks
<1>3. ScopeChecks \in Seq(CheckRecord)
  BY CheckTyped DEF ScopeChecks
<1>4. LedgerChecks \in Seq(CheckRecord) /\ Len(LedgerChecks) > 0
  <2>1. <<Check("artifact", "AuthorityEmit", {"artifact_conflict"})>>
          \in Seq(CheckRecord)
    BY CheckTyped
  <2> QED BY <1>1, <1>2, <1>3, <2>1, ConcatProperties, LenProperties DEF LedgerChecks
<1>5. EventChecks \in Seq(CheckRecord)
  BY CheckTyped DEF EventChecks, ProofProblem
<1>6. ContractChecks \in Seq(CheckRecord)
  BY CheckTyped DEF ContractChecks, RefProblem
<1>7. ObligationRecordChecks \in Seq(CheckRecord)
  BY CheckTyped DEF ObligationRecordChecks, RefProblem, DigestProblem
<1>8. ReasonRecordChecks \in Seq(CheckRecord)
  BY CheckTyped DEF ReasonRecordChecks, RefProblem, DigestProblem
<1>9. ProvenanceChecks \in Seq(CheckRecord)
  BY CheckTyped DEF ProvenanceChecks
<1>10. TrustChecks \in Seq(CheckRecord)
  BY CheckTyped DEF TrustChecks, RefProblem, DigestProblem
<1>11. TargetChecks \in Seq(CheckRecord)
  BY CheckTyped DEF TargetChecks
<1>12. ClauseChecks \in Seq(CheckRecord)
  <2> DEFINE guard(name, codes) == Check(name, "GuardEvaluate", codes)
             asked == <<guard("validity_status", {"validity_unknown"}),
                        guard("monitor_status", {"validity_unknown"}),
                        guard("no_monitor", {"validity_unknown"}),
                        guard("monitor", RefProblem)>>
             named == <<guard("evidence_ref", RefProblem),
                        guard("contract_ref", RefProblem),
                        guard("checker_transcript_ref", RefProblem)>>
             last == <<guard("no_obligations", {"missing_ref"}),
                       guard("obligation_label", {"checker_unknown"}),
                       guard("obligation", RefProblem),
                       guard("reason_label", {"checker_unknown"})>>
  <2>1. asked \in Seq(CheckRecord)
    BY CheckTyped DEF RefProblem
  <2>2. named \in Seq(CheckRecord)
    BY CheckTyped DEF RefProblem
  <2>3. last \in Seq(CheckRecord)
    BY CheckTyped DEF RefProblem
  <2>4. ClauseChecks = asked \o ObligationRecordChecks \o ReasonRecordChecks
                         \o named \o ProvenanceChecks \o last
    BY Zenon DEF ClauseChecks
  <2> HIDE DEF asked, named, last
  <2> QED BY <1>7, <1>8, <1>9, <2>1, <2>2, <2>3, <2>4, ConcatProperties
<1>13. KernelChecks \in Seq(CheckRecord)
  <2> DEFINE kernel(name, codes) == Check(name, "KernelCheck", codes)
             first == <<kernel("proof_status", {"checker_unknown"}),
                        kernel("no_transcript", {"missing_ref"}),
                        kernel("transcript", {"missing_ref"}),
                        kernel("proof_ref", {"missing_ref"})>>
  <2>1. first \in Seq(CheckRecord)
    BY CheckTyped
  <2>2. KernelChecks = first \o TargetChecks
    BY Zenon DEF KernelChecks
  <2> HIDE DEF first
  <2> QED BY <1>11, <2>1, <2>2, ConcatProperties
<1> QED BY <1>4, <1>5, <1>6, <1>10, <1>12, <1>13

\* The first check that has a flaw decides; without flaws none does.
LEMMA FirstFailureIs ==
  ASSUME NEW checks \in Seq(CheckRecord), NEW flaws,
         flaws \subseteq [check : CheckName, code : ReplayCode]
  PROVE  /\ FirstFailure(checks, flaws) \in {None} \cup Failure
         /\ flaws = {} => FirstFailure(checks, flaws) = None
         /\ flaws # {} /\ flaws \subseteq Flaws(checks) =>
              FirstFailure(checks, flaws) \in Failure
<1> DEFINE failing == {i \in DOMAIN checks :
                         \E f \in flaws : f.check = checks[i].name}
           first == CHOOSE i \in failing : \A j \in failing : i <= j
           code == (CHOOSE f \in flaws : f.check = checks[first].name).code
<1>1. FirstFailure(checks, flaws) =
        IF failing = {} THEN None ELSE Failed(checks[first].stage, code)
  BY Zenon DEF FirstFailure
<1>2. DOMAIN checks = 1..Len(checks) /\ Len(checks) \in Nat
  BY LenProperties
<1>3. ASSUME failing # {} PROVE FirstFailure(checks, flaws) \in Failure
  <2>1. failing \subseteq Nat
    BY <1>2
  <2>2. first \in failing
    <3>1. \E i \in failing : \A j \in failing : i <= j
      BY <1>3, <2>1, HasLeast, Zenon
    <3> QED BY <3>1, Zenon
  <2>3. checks[first] \in CheckRecord
    BY <1>2, <2>2, ElementOfSeq
  <2>4. checks[first].stage \in ReplayStage
    BY <2>3 DEF CheckRecord
  <2> HIDE DEF first
  <2>5. \E f \in flaws : f.check = checks[first].name
    BY <2>2
  <2>6. code \in ReplayCode
    <3>1. (CHOOSE f \in flaws : f.check = checks[first].name) \in flaws
      BY <2>5, Zenon
    <3> QED BY <3>1
  <2> HIDE DEF code, failing
  <2> QED BY <1>1, <1>3, <2>4, <2>6, FailedIs
<1>4. flaws = {} => failing = {}
  OBVIOUS
<1>5. flaws # {} /\ flaws \subseteq Flaws(checks) => failing # {}
  <2> SUFFICES ASSUME NEW f \in flaws, f \in Flaws(checks) PROVE failing # {}
    OBVIOUS
  <2>1. PICK i \in DOMAIN checks :
          f \in [check : {checks[i].name}, code : checks[i].codes]
    BY DEF Flaws
  <2> QED BY <2>1
<1> HIDE DEF failing, first, code
<1> QED BY <1>1, <1>3, <1>4, <1>5

LEMMA FlawsTyped ==
  ASSUME NEW checks \in Seq(CheckRecord)
  PROVE  Flaws(checks) \subseteq [check : CheckName, code : ReplayCode]
<1> SUFFICES ASSUME NEW i \in DOMAIN checks,
                    NEW f \in [check : {checks[i].name}, code : checks[i].codes]
             PROVE  f \in [check : CheckName, code : ReplayCode]
  BY DEF Flaws
<1>1. checks[i] \in CheckRecord
  BY ElementOfSeq, LenProperties
<1>2. checks[i].name \in CheckName /\ checks[i].codes \subseteq ReplayCode
  BY <1>1 DEF CheckRecord
<1> QED BY <1>2

LEMMA FailureOfIs ==
  ASSUME NEW checks \in Seq(CheckRecord), NEW x,
         x # None => x.flaws \subseteq Flaws(checks)
  PROVE  /\ FailureOf(x, checks) \in {None} \cup Failure
         /\ FailureOf(x, checks) = None <=> (x = None \/ x.flaws = {})
<1>1. CASE x = None
  BY <1>1 DEF FailureOf
<1>2. CASE x # None
  <2>1. x.flaws \subseteq [check : CheckName, code : ReplayCode]
    BY <1>2, FlawsTyped
  <2> QED BY <1>2, <2>1, FirstFailureIs, FailureIsVerdict DEF FailureOf
<1> QED BY <1>1, <1>2

-----------------------------------------------------------------------------
(* What the checks find: None exactly if their condition holds.            *)

Answer == {None} \cup Failure

LEMMA BundleIs ==
  ASSUME NEW b \in Bundles
  PROVE  /\ b \in Bundle
         /\ b.certificate = "issued" => b.sources \in {"agree", "differ", "absent"}
         /\ b.context \in BOOLEAN /\ b.compiles \in BOOLEAN /\ b.use \in BOOLEAN
         /\ b.certificate \in {"issued", "claims"}
         /\ b.sources \in Sources
BY BundlesAreTyped DEF Bundle

LEMMA ContextIs ==
  ASSUME NEW b \in Bundles
  PROVE  /\ ContextFailure(b) \in Answer
         /\ ContextFailure(b) = None <=> b.context
         /\ UseFailure(b) \in Answer
         /\ UseFailure(b) = None <=> b.use
<1>1. Failed("AuthorityEmit", "missing_ref") \in Failure
  BY FailedIs DEF ReplayStage, ReplayCode
<1> QED BY <1>1, BundleIs, FailureIsVerdict DEF ContextFailure, UseFailure, Answer

LEMMA LedgerIs ==
  ASSUME NEW b \in Bundles, NEW s \in BOOLEAN
  PROVE  /\ LedgerFailure(b, s) \in Answer
         /\ s => (LedgerFailure(b, s) = None <=> b.ledger = {})
<1>1. b.ledger \subseteq Flaws(LedgerChecks)
  BY BundleIs DEF Bundle
<1>2. b.ledger \subseteq [check : CheckName, code : ReplayCode]
  BY <1>1, FlawsTyped, ListsTyped
<1>3. <<LedgerChecks[1]>> \in Seq(CheckRecord)
  <2>1. LedgerChecks[1] \in CheckRecord
    BY ListsTyped, ElementOfSeq, LenProperties
  <2> QED BY <2>1
<1>4. CASE s
  BY <1>1, <1>2, <1>4, ListsTyped, FirstFailureIs, FailureIsVerdict
     DEF LedgerFailure, Answer
<1>5. CASE ~ s
  BY <1>2, <1>3, <1>5, FirstFailureIs DEF LedgerFailure, Answer
<1> QED BY <1>4, <1>5

LEMMA ConfluenceIs ==
  ASSUME NEW p
  PROVE  /\ ConfluenceFailure(p) \in Answer
         /\ ConfluenceFailure(p) = None <=> p \in {None, "good"}
<1>1. /\ Failed("AuthorityEmit", "missing_ref") \in Failure
      /\ Failed("AuthorityEmit", "trace_conflict") \in Failure
      /\ Failed("AuthorityEmit", "checker_unknown") \in Failure
  BY FailedIs DEF ReplayStage, ReplayCode
<1> QED BY <1>1, FailureIsVerdict, NoneIsNoWord DEF ConfluenceFailure, Answer, Proof

LEMMA FlawedParts ==
  ASSUME NEW b \in Bundles
  PROVE  /\ b.event # None => b.event.flaws \subseteq Flaws(EventChecks)
         /\ b.clause # None => b.clause.flaws \subseteq Flaws(ClauseChecks)
         /\ b.contract # None => b.contract.flaws \subseteq Flaws(ContractChecks)
         /\ b.trust # None => b.trust.flaws \subseteq Flaws(TrustChecks)
         /\ b.kernelProof # None =>
              b.kernelProof.flaws \subseteq Flaws(KernelChecks)
<1>1. b.event # None => b.event.flaws \subseteq Flaws(EventChecks)
  BY BundleIs DEF Bundle
<1>2. b.clause # None => b.clause.flaws \subseteq Flaws(ClauseChecks)
  BY BundleIs DEF Bundle
<1>3. b.contract # None => b.contract.flaws \subseteq Flaws(ContractChecks)
  BY BundleIs DEF Bundle
<1>4. b.trust # None => b.trust.flaws \subseteq Flaws(TrustChecks)
  BY BundleIs DEF Bundle
<1>5. b.kernelProof # None => b.kernelProof.flaws \subseteq Flaws(KernelChecks)
  BY BundleIs DEF Bundle
<1> QED BY <1>1, <1>2, <1>3, <1>4, <1>5

Flawless(x) == x = None \/ x.flaws = {}

LEMMA FlawedAre ==
  ASSUME NEW b \in Bundles
  PROVE  /\ FailureOf(b.event, EventChecks) \in Answer
         /\ FailureOf(b.event, EventChecks) = None <=> Flawless(b.event)
         /\ FailureOf(b.clause, ClauseChecks) \in Answer
         /\ FailureOf(b.clause, ClauseChecks) = None <=> Flawless(b.clause)
         /\ FailureOf(b.contract, ContractChecks) \in Answer
         /\ FailureOf(b.contract, ContractChecks) = None <=> Flawless(b.contract)
         /\ FailureOf(b.trust, TrustChecks) \in Answer
         /\ FailureOf(b.trust, TrustChecks) = None <=> Flawless(b.trust)
         /\ FailureOf(b.kernelProof, KernelChecks) \in Answer
         /\ FailureOf(b.kernelProof, KernelChecks) = None
              <=> Flawless(b.kernelProof)
BY FlawedParts, FailureOfIs, ListsTyped DEF Answer, Flawless

LEMMA LifecycleIs ==
  ASSUME NEW b \in Bundles
  PROVE  /\ LifecycleFailure(b) \in Answer
         /\ LifecycleFailure(b) = None <=>
              b.confluence \in {None, "good"} /\ Flawless(b.event)
BY ConfluenceIs, FlawedAre DEF LifecycleFailure

LEMMA ProofCodeIs == \A p : ProofCode(p) \in ReplayCode
BY DEF ProofCode, ReplayCode

Related(r) == r # None /\ r.typed => r.accepted /\ r.proof = "good"

LEMMA RelationIs ==
  ASSUME NEW r \in {None} \cup Relation
  PROVE  /\ RelationFailure(r) \in Answer
         /\ RelationFailure(r) = None <=> Related(r)
<1>1. /\ Failed("GuardEvaluate", "checker_unknown") \in Failure
      /\ \A p : Failed("GuardEvaluate", ProofCode(p)) \in Failure
  BY FailedIs, ProofCodeIs DEF ReplayStage, ReplayCode
<1>2. r # None => r.typed \in BOOLEAN /\ r.accepted \in BOOLEAN
  BY DEF Relation
<1> QED BY <1>1, <1>2, FailureIsVerdict DEF RelationFailure, Related, Answer

Bound(r) == r # None /\ r.typed => r.bound

LEMMA RelationsIs ==
  ASSUME NEW b \in Bundles
  PROVE  /\ RelationsFailure(b) \in Answer
         /\ RelationsFailure(b) = None <=>
              Related(b.measurement) /\ Bound(b.measurement)
              /\ Related(b.representation)
<1>1. /\ b.measurement \in {None} \cup Relation
      /\ b.representation \in {None} \cup Relation
  BY BundleIs DEF Bundle
<1>2. Failed("GuardEvaluate", "checker_unknown") \in Failure
  BY FailedIs DEF ReplayStage, ReplayCode
<1>3. b.measurement # None =>
        b.measurement.typed \in BOOLEAN /\ b.measurement.bound \in BOOLEAN
  BY <1>1 DEF Relation
<1>4. /\ MeasurementFailure(b.measurement) \in Answer
      /\ MeasurementFailure(b.measurement) = None <=>
           Related(b.measurement) /\ Bound(b.measurement)
  <2> DEFINE m == b.measurement
  <2>1. /\ RelationFailure(m) \in Answer
        /\ RelationFailure(m) = None <=> Related(m)
    BY <1>1, RelationIs
  <2>2. CASE m = None
    BY <2>2 DEF MeasurementFailure, Related, Bound, Answer
  <2>3. CASE m # None /\ RelationFailure(m) # None
    BY <2>1, <2>3 DEF MeasurementFailure
  <2>4. CASE m # None /\ RelationFailure(m) = None /\ m.typed /\ ~ m.bound
    <3>1. MeasurementFailure(m) = Failed("GuardEvaluate", "checker_unknown")
      BY <2>4 DEF MeasurementFailure
    <3>2. ~ Bound(m)
      BY <2>4 DEF Bound
    <3> QED BY <1>2, <3>1, <3>2, FailureIsVerdict DEF Answer
  <2>5. CASE m # None /\ RelationFailure(m) = None /\ ~ (m.typed /\ ~ m.bound)
    <3>1. MeasurementFailure(m) = None
      BY <2>5 DEF MeasurementFailure
    <3>2. Bound(m)
      BY <1>3, <2>5 DEF Bound
    <3> QED BY <2>1, <2>5, <3>1, <3>2 DEF Answer
  <2> QED BY <2>2, <2>3, <2>4, <2>5
<1> QED BY <1>1, <1>4, RelationIs DEF RelationsFailure

Complete(c) == c.status = "pass" => c.named /\ c.proof = "good"

LEMMA CompletionIs ==
  ASSUME NEW b \in Bundles
  PROVE  /\ CompletionFailure(b) \in Answer
         /\ CompletionFailure(b) = None <=> Complete(b.completion)
<1>1. /\ Failed("GuardEvaluate", "completion_missing") \in Failure
      /\ \A p : Failed("GuardEvaluate", ProofCode(p)) \in Failure
  BY FailedIs, ProofCodeIs DEF ReplayStage, ReplayCode
<1>2. b.completion.named \in BOOLEAN
  BY BundleIs DEF Bundle
<1> QED BY <1>1, <1>2, FailureIsVerdict DEF CompletionFailure, Complete, Answer

\* What the proof of one value must be, next to its declaration.
Proved(said, declared) ==
  said.proof # None =>
    /\ said.proof.accepted
    /\ said.proof.value \in Answers
    /\ declared \in {None, said.proof.value}

LEMMA ValueIs ==
  ASSUME NEW said \in Said, NEW declared
  PROVE  /\ ValueFailure(said.proof, declared) \in Answer
         /\ ValueFailure(said.proof, declared) = None <=> Proved(said, declared)
<1> DEFINE v == ProofValue(said.proof)
<1>1. /\ Failed("GuardEvaluate", "checker_unknown") \in Failure
      /\ Failed("GuardEvaluate", "schema_invalid") \in Failure
      /\ Failed("GuardEvaluate", "artifact_conflict") \in Failure
  BY FailedIs DEF ReplayStage, ReplayCode
<1>2. CASE said.proof = None
  BY <1>2 DEF ValueFailure, Proved, Answer
<1>3. CASE said.proof # None
  <2>1. said.proof.accepted \in BOOLEAN
        /\ said.proof.value \in {None, "bogus"} \cup Answers
    BY <1>3 DEF Said
  <2>2. v = IF said.proof.accepted THEN said.proof.value ELSE None
    BY <1>3 DEF ProofValue
  <2>3. CASE v = None
    <3>1. ValueFailure(said.proof, declared)
            = Failed("GuardEvaluate", "checker_unknown")
      BY <1>3, <2>3, NoneIsNoWord DEF ValueFailure
    <3>2. ~ Proved(said, declared)
      BY <1>3, <2>1, <2>2, <2>3, AnswersAreValues DEF Proved
    <3> QED BY <1>1, <3>1, <3>2, FailureIsVerdict DEF Answer
  <2>4. CASE v # None /\ v = "bogus"
    <3>1. ValueFailure(said.proof, declared)
            = Failed("GuardEvaluate", "schema_invalid")
      BY <1>3, <2>4 DEF ValueFailure
    <3>2. ~ Proved(said, declared)
      BY <1>3, <2>1, <2>2, <2>4, AnswersAreValues DEF Proved
    <3> QED BY <1>1, <3>1, <3>2, FailureIsVerdict DEF Answer
  <2>5. CASE v \notin {None, "bogus"} /\ declared \notin {None, v}
    <3>1. ValueFailure(said.proof, declared)
            = Failed("GuardEvaluate", "artifact_conflict")
      BY <1>3, <2>5 DEF ValueFailure
    <3>2. ~ Proved(said, declared)
      BY <1>3, <2>2, <2>5 DEF Proved
    <3> QED BY <1>1, <3>1, <3>2, FailureIsVerdict DEF Answer
  <2>6. CASE v \notin {None, "bogus"} /\ declared \in {None, v}
    <3>1. ValueFailure(said.proof, declared) = None
      BY <1>3, <2>6 DEF ValueFailure
    <3>2. Proved(said, declared)
      BY <1>3, <2>1, <2>2, <2>6 DEF Proved
    <3> QED BY <3>1, <3>2 DEF Answer
  <2> QED BY <2>3, <2>4, <2>5, <2>6
<1> QED BY <1>2, <1>3

LEMMA ValuesIs ==
  ASSUME NEW b \in Bundles, NEW c
  PROVE  /\ ValuesFailure(b, c) \in Answer
         /\ ValuesFailure(b, c) = None <=>
              \A v \in Value : Proved(b.values[v], c.values[v])
<1> DEFINE Fails(v) == ValueFailure(b.values[v].proof, c.values[v]) # None
           failing == {i \in DOMAIN ValueOrder : Fails(ValueOrder[i])}
           first == CHOOSE i \in DOMAIN ValueOrder :
                      /\ Fails(ValueOrder[i])
                      /\ \A j \in DOMAIN ValueOrder :
                           Fails(ValueOrder[j]) => i <= j
<1>1. \A v \in Value : b.values[v] \in Said
  BY BundleIs DEF Bundle
<1>2. \A v \in Value : /\ ValueFailure(b.values[v].proof, c.values[v]) \in Answer
                       /\ Fails(v) <=> ~ Proved(b.values[v], c.values[v])
  BY <1>1, ValueIs
<1>3. DOMAIN ValueOrder = 1..4
      /\ Value = {ValueOrder[i] : i \in DOMAIN ValueOrder}
  <2>1. DOMAIN ValueOrder = 1..4
    BY DEF ValueOrder
  <2>2. /\ ValueOrder[1] = "prefix_adjudication"
        /\ ValueOrder[2] = "target_adjudication"
        /\ ValueOrder[3] = "adequacy_direction"
        /\ ValueOrder[4] = "frame_adequacy"
    BY DEF ValueOrder
  <2>3. 1..4 = {1, 2, 3, 4}
    OBVIOUS
  <2> QED BY <2>1, <2>2, <2>3 DEF Value
<1>4. ValuesFailure(b, c) =
        IF \E i \in DOMAIN ValueOrder : Fails(ValueOrder[i])
        THEN ValueFailure(b.values[ValueOrder[first]].proof,
                          c.values[ValueOrder[first]])
        ELSE None
  BY Zenon DEF ValuesFailure
<1>5. CASE failing = {}
  <2>1. \A v \in Value : ~ Fails(v)
    BY <1>3, <1>5
  <2>2. ValuesFailure(b, c) = None
    BY <1>4, <1>5
  <2> QED BY <1>2, <2>1, <2>2 DEF Answer
<1>6. CASE failing # {}
  <2>1. failing \subseteq Nat
    BY <1>3
  <2>2. \E i \in failing : \A j \in failing : i <= j
    BY <1>6, <2>1, HasLeast, Zenon
  <2>3. \E i \in DOMAIN ValueOrder :
          /\ Fails(ValueOrder[i])
          /\ \A j \in DOMAIN ValueOrder : Fails(ValueOrder[j]) => i <= j
    BY <2>2
  <2>4. first \in DOMAIN ValueOrder /\ Fails(ValueOrder[first])
    BY <2>3, Zenon
  <2> HIDE DEF first
  <2>5. ValueOrder[first] \in Value
    BY <1>3, <2>4
  <2>6. ValuesFailure(b, c) = ValueFailure(b.values[ValueOrder[first]].proof,
                                           c.values[ValueOrder[first]])
    BY <1>4, <2>4
  <2> QED BY <1>2, <2>4, <2>5, <2>6
<1> QED BY <1>5, <1>6

LEMMA ProofsIs ==
  ASSUME NEW b \in Bundles, NEW c
  PROVE  /\ ProofsFailure(b, c) \in Answer
         /\ ProofsFailure(b, c) = None <=>
              /\ Complete(b.completion)
              /\ \A v \in Value : Proved(b.values[v], c.values[v])
BY CompletionIs, ValuesIs DEF ProofsFailure

LEMMA ClauseSchemaIs ==
  ASSUME NEW b \in Bundles
  PROVE  /\ ClauseSchemaFailure(b) \in Answer
         /\ ClauseSchemaFailure(b) = None <=>
              (b.clause # None => b.clause.schema)
<1>1. Failed("SchemaValidate", "schema_invalid") \in Failure
  BY FailedIs DEF ReplayStage, ReplayCode
<1>2. b.clause # None => b.clause.schema \in BOOLEAN
  BY BundleIs DEF Bundle
<1> QED BY <1>1, <1>2, FailureIsVerdict DEF ClauseSchemaFailure, Answer

Sourced(b) == \/ b.sources = "agree"
              \/ b.certificate = "claims" /\ b.sources = "differ"

\* What a gate may find: nothing, a failure, or an exception.
Ending == Answer \cup {Raised}

LEMMA CertificateIs ==
  ASSUME NEW b \in Bundles, NEW s \in BOOLEAN
  PROVE  /\ CertificateFailure(b, s) \in Ending
         /\ s => (CertificateFailure(b, s) = None <=>
                    /\ Sourced(b) /\ FALSE \notin Clauses(b)
                    /\ HasClauses(b) => b.compiles)
<1>1. /\ Failed("GuardEvaluate", "artifact_conflict") \in Failure
      /\ Failed("AuthorityEmit", "artifact_conflict") \in Failure
      /\ Failed("AuthorityEmit", "missing_ref") \in Failure
      /\ Uncanonical \in Failure /\ Malformed \in Failure
  BY FailedIs DEF ReplayStage, ReplayCode, Uncanonical, Malformed
<1>2. Raised # None
  BY NoneIsNoVerdict DEF Verdict
<1>3. /\ TargetFailure(b) \in Ending
      /\ TargetFailure(b) = None <=>
           FALSE \notin Clauses(b) /\ (HasClauses(b) => b.compiles)
  BY <1>1, <1>2, FailureIsVerdict, BundleIs DEF TargetFailure, Answer, Ending
<1>4. /\ CertifyFailure(b) \in Ending
      /\ CertifyFailure(b) = None <=> b.sources \in {"agree", "differ"}
  BY <1>1, <1>2, FailureIsVerdict, BundleIs
     DEF CertifyFailure, Answer, Ending, Sources
<1>5. /\ IssuedFailure(b, s) \in Ending
      /\ s => (IssuedFailure(b, s) = None <=>
                 b.sources \notin {"differ", "absent"})
  BY <1>1, FailureIsVerdict DEF IssuedFailure, Answer, Ending
<1>6. /\ SourceFailure(b, s) \in Ending
      /\ s => (SourceFailure(b, s) = None <=> Sourced(b))
  BY <1>4, <1>5, BundleIs DEF SourceFailure, Sourced
<1> QED BY <1>3, <1>6 DEF CertificateFailure

-----------------------------------------------------------------------------
(* The gates: what each opens for, and what lies behind one.               *)

\* The gates that open for a bundle, in a strict replay.
Opens(b, g) ==
  CASE g = "ledger" -> b.ledger = {}
    [] g = "context" -> b.context
    [] g = "lifecycle" -> b.confluence \in {None, "good"} /\ Flawless(b.event)
    [] g = "relation_check" -> /\ Related(b.measurement) /\ Bound(b.measurement)
                               /\ Related(b.representation)
    [] g = "proof_check" ->
         /\ Complete(b.completion)
         /\ \A v \in Value : Proved(b.values[v], b.values[v].declared)
    [] g = "clause_schema" -> b.clause # None => b.clause.schema
    [] g = "contracts" -> Flawless(b.contract)
    [] g = "clauses" -> Flawless(b.clause)
    [] g = "trust" -> Flawless(b.trust)
    [] g = "kernel_proof" -> Flawless(b.kernelProof)
    [] g = "certificate" -> /\ Sourced(b) /\ FALSE \notin Clauses(b)
                            /\ HasClauses(b) => b.compiles
    [] g = "use" -> b.use
    [] OTHER -> TRUE

Passing == GateName \ {"done"}

\* A bundle is sound exactly if every gate opens for it.
LEMMA SoundOpens ==
  ASSUME NEW b
  PROVE  Sound(b) <=> \A g \in Passing : Opens(b, g)
<1>1. (\A g \in Passing : Opens(b, g)) <=>
        /\ Opens(b, "ledger") /\ Opens(b, "context") /\ Opens(b, "lifecycle")
        /\ Opens(b, "relation_check") /\ Opens(b, "proof_check")
        /\ Opens(b, "clause_schema") /\ Opens(b, "contracts")
        /\ Opens(b, "clauses") /\ Opens(b, "trust") /\ Opens(b, "kernel_proof")
        /\ Opens(b, "certificate") /\ Opens(b, "use")
  BY DEF Opens, Passing, GateName
<1>2. (\A x \in {b.event, b.clause, b.contract, b.trust, b.kernelProof} \ {None} :
         x.flaws = {}) <=>
        /\ Flawless(b.event) /\ Flawless(b.clause) /\ Flawless(b.contract)
        /\ Flawless(b.trust) /\ Flawless(b.kernelProof)
  BY DEF Flawless
<1>3. (\A r \in {b.measurement, b.representation} \ {None} :
         r.typed => r.accepted /\ r.proof = "good") <=>
        Related(b.measurement) /\ Related(b.representation)
  BY DEF Related
<1>4. (\A v \in Value : b.values[v].proof # None =>
         /\ b.values[v].proof.accepted
         /\ b.values[v].proof.value \in Answers
         /\ b.values[v].declared \in {None, b.values[v].proof.value}) <=>
        \A v \in Value : Proved(b.values[v], b.values[v].declared)
  BY DEF Proved
<1> QED BY <1>1, <1>2, <1>3, <1>4, Zenon DEF Sound, Opens, Bound, Complete, Sourced

Rank ==
  [g \in Passing |->
     CASE g = "ledger" -> 1
       [] g = "context" -> 2
       [] g = "lifecycle" -> 3
       [] g = "confluence" -> 4
       [] g = "relation_check" -> 5
       [] g = "relations" -> 6
       [] g = "completion_set" -> 7
       [] g = "proof_check" -> 8
       [] g = "proofs" -> 9
       [] g = "clause_schema" -> 10
       [] g = "contracts" -> 11
       [] g = "clauses" -> 12
       [] g = "trust" -> 13
       [] g = "kernel_proof" -> 14
       [] g = "certificate" -> 15
       [] g = "use" -> 16
       [] OTHER -> 17]

LEMMA Ranks ==
  /\ \A g \in Passing : Rank[g] \in 1..17
  /\ \A g, h \in Passing : Rank[g] = Rank[h] => g = h
  /\ Rank["ledger"] = 1
  /\ \A g \in Passing : Rank[g] > 16 => g = "judge"
BY DEF Rank, Passing, GateName

\* What has been built of the status context when a gate is reached.
Joined(b, s) ==
  IF s THEN JoinConfluence(b, FreshContext(b)) ELSE FreshContext(b)

Enriched(b, s) == TakeCompletionSet(b, TakeRelations(b, Joined(b, s)))

Taken(b, s) == TakeProofs(b, Enriched(b, s))

Built(b, s, g) ==
  CASE g \in {"lifecycle", "confluence"} -> FreshContext(b)
    [] g \in {"relation_check", "relations"} -> Joined(b, s)
    [] g = "completion_set" -> TakeRelations(b, Joined(b, s))
    [] g \in {"proof_check", "proofs"} -> Enriched(b, s)
    [] g \in {"clause_schema", "contracts", "clauses", "trust",
              "kernel_proof", "certificate"} -> Taken(b, s)
    [] OTHER -> Certified(b, Taken(b, s))

\* The value the judgement sees.
Final(b, v) == IF ProofValue(b.values[v].proof) # None
               THEN ProofValue(b.values[v].proof) ELSE b.values[v].declared

LEMMA BuiltIs ==
  ASSUME NEW b, NEW s \in BOOLEAN
  PROVE  LET declared == [v \in Value |-> b.values[v].declared]
             final == [v \in Value |-> Final(b, v)]
             certified == Certified(b, Taken(b, s))
         IN /\ FreshContext(b).values = declared
            /\ FreshContext(b).semantics = None
            /\ Joined(b, s).values = declared
            /\ Joined(b, s).semantics = None
            /\ TakeRelations(b, Joined(b, s)).values = declared
            /\ TakeRelations(b, Joined(b, s)).semantics = None
            /\ Enriched(b, s).values = declared
            /\ Enriched(b, s).semantics = None
            /\ Taken(b, s).values = final
            /\ Taken(b, s).semantics = None
            /\ certified.values = final
            /\ certified.semantics = IF HasClauses(b) THEN "compiled"
                                     ELSE IF b.sources = "absent" THEN "embedded"
                                     ELSE "artifacts"
            /\ certified.trusted = (~ HasClauses(b) /\ b.trust # None)
<1> DEFINE declared == [v \in Value |-> b.values[v].declared]
           final == [v \in Value |-> Final(b, v)]
           Shape(v) == [confluence : {"context", "event"},
                        measurement : {"record", "accepted", "refused"},
                        representation : {"record", "taken"},
                        completions : {"record", "set"},
                        values : {v}, semantics : {None}, trusted : BOOLEAN]
<1>1. FreshContext(b) \in Shape(declared)
  BY DEF FreshContext
<1>2. Joined(b, s) \in Shape(declared)
  BY <1>1 DEF Joined, JoinConfluence
<1>3. TakeRelations(b, Joined(b, s)) \in Shape(declared)
  BY <1>2 DEF TakeRelations
<1>4. Enriched(b, s) \in Shape(declared)
  BY <1>3 DEF Enriched, TakeCompletionSet
<1>5. Taken(b, s) \in Shape(final)
  <2>1. \A v \in Value : Enriched(b, s).values[v] = b.values[v].declared
    BY <1>4
  <2>2. [v \in Value |-> IF ProofValue(b.values[v].proof) # None
                         THEN ProofValue(b.values[v].proof)
                         ELSE Enriched(b, s).values[v]] = final
    BY <2>1 DEF Final
  <2>3. Taken(b, s) = [Enriched(b, s) EXCEPT !.values = final]
    BY <2>2, Zenon DEF Taken, TakeProofs
  <2> HIDE DEF declared, final
  <2> QED BY <1>4, <2>3
<1> HIDE DEF declared, final
<1>6. /\ Certified(b, Taken(b, s)).values = final
      /\ Certified(b, Taken(b, s)).semantics =
           IF HasClauses(b) THEN "compiled"
           ELSE IF b.sources = "absent" THEN "embedded" ELSE "artifacts"
      /\ Certified(b, Taken(b, s)).trusted = (~ HasClauses(b) /\ b.trust # None)
  BY <1>5 DEF Certified
<1>7. FreshContext(b).values = declared /\ FreshContext(b).semantics = None
  BY <1>1
<1>8. Joined(b, s).values = declared /\ Joined(b, s).semantics = None
  BY <1>2
<1>9. /\ TakeRelations(b, Joined(b, s)).values = declared
      /\ TakeRelations(b, Joined(b, s)).semantics = None
  BY <1>3
<1>10. Enriched(b, s).values = declared /\ Enriched(b, s).semantics = None
  BY <1>4
<1>11. Taken(b, s).values = final /\ Taken(b, s).semantics = None
  BY <1>5
<1> QED BY <1>6, <1>7, <1>8, <1>9, <1>10, <1>11, Zenon DEF declared, final

-----------------------------------------------------------------------------
(* The invariant of a replay.                                              *)

Behind(g) == HasView \/ (at # "done" /\ Rank[g] < Rank[at])

ReplayInvariant ==
  /\ bundle \in Bundles /\ strict \in BOOLEAN
  /\ at \in GateName
  /\ verdict \in {None} \cup Verdict
  /\ at = "done" <=> verdict # None
  /\ at \notin {"ledger", "context", "done"} => ctx = Built(bundle, strict, at)
  /\ HasView => ctx = Built(bundle, strict, "judge")
  /\ strict => \A g \in Passing : Behind(g) => Opens(bundle, g)

\* The step that ends a replay tells whether the bundle is sound.
EndTells ==
  strict /\ at # "done" /\ at' = "done" => (at = "judge" <=> Sound(bundle))

\* One gate: it stops for a reason, or hands on the context it built.
LEMMA EndingKeeps ==
  ASSUME ReplayInvariant,
         NEW here \in Passing, NEW next \in Passing, Rank[next] = Rank[here] + 1,
         NEW failure \in Ending, NEW c,
         Gate(here, next, failure, c),
         failure = None /\ next # "context" => c = Built(bundle, strict, next),
         strict => (failure = None <=> Opens(bundle, here))
  PROVE  ReplayInvariant' /\ EndTells
<1>1. at = here /\ here # "done" /\ next # "done" /\ next # "ledger"
      /\ here \in GateName /\ next \in GateName
  <2>1. Rank["ledger"] = 1 /\ Rank[here] \in 1..17
    BY Ranks
  <2>2. next # "ledger"
    BY <2>1
  <2> QED BY <2>2 DEF Gate, Passing
<1>2. verdict = None
  BY <1>1 DEF ReplayInvariant
<1>3. CASE failure # None
  <2>1. /\ verdict' = failure /\ at' = "done"
        /\ UNCHANGED <<bundle, strict, ctx>>
    BY <1>3 DEF Gate, Stop
  <2>2. failure \in Verdict /\ failure.kind # "view"
    BY <1>3, FailureIsVerdict DEF Ending, Answer, Verdict, Raised
  <2>3. ~ HasView'
    BY <2>1, <2>2 DEF HasView
  <2>4. strict => ~ Sound(bundle)
    BY <1>3, SoundOpens
  <2>5. \A g \in Passing : ~ Behind(g)'
    BY <2>1, <2>3 DEF Behind
  <2>6. bundle' \in Bundles /\ strict' \in BOOLEAN /\ at' \in GateName
    BY <2>1 DEF ReplayInvariant, GateName
  <2>7. at # "judge"
    <3>1. Rank["judge"] = 17 /\ Rank[next] \in 1..17
      BY Ranks DEF Rank, Passing, GateName
    <3> QED BY <1>1, <3>1, Ranks
  <2> QED BY <1>3, <2>1, <2>2, <2>3, <2>4, <2>5, <2>6, <2>7
          DEF ReplayInvariant, EndTells
<1>4. CASE failure = None
  <2>1. at' = next /\ ctx' = c /\ UNCHANGED <<bundle, strict, verdict>>
    BY <1>4 DEF Gate, Go
  <2>2. ~ HasView /\ ~ HasView'
    BY <1>2, <2>1 DEF HasView
  <2>3. ASSUME NEW g \in Passing, Behind(g)', strict'
        PROVE  Opens(bundle', g)
    <3>1. Rank[g] < Rank[next]
      BY <2>1, <2>2, <2>3 DEF Behind
    <3>2. Rank[g] \in 1..17 /\ Rank[here] \in 1..17
      BY Ranks
    <3>3. CASE g = here
      BY <1>4, <2>1, <2>3, <3>3
    <3>4. CASE g # here
      <4>1. Rank[g] # Rank[here]
        BY <3>4, Ranks
      <4>2. Rank[g] < Rank[here]
        BY <3>1, <3>2, <4>1
      <4>3. Behind(g)
        BY <1>1, <4>2 DEF Behind
      <4> QED BY <2>1, <2>3, <4>3 DEF ReplayInvariant
    <3> QED BY <3>3, <3>4
  <2>4. bundle' \in Bundles /\ strict' \in BOOLEAN /\ at' \in GateName
        /\ verdict' = None
    BY <1>1, <1>2, <2>1 DEF ReplayInvariant
  <2>5. at' \notin {"ledger", "context", "done"} =>
          ctx' = Built(bundle', strict', at')
    BY <1>4, <2>1
  <2> QED BY <1>1, <2>1, <2>2, <2>3, <2>4, <2>5 DEF ReplayInvariant, EndTells
<1> QED BY <1>3, <1>4

LEMMA GateKeeps ==
  ASSUME ReplayInvariant,
         NEW here \in Passing, NEW next \in Passing, Rank[next] = Rank[here] + 1,
         NEW failure \in Answer, NEW c,
         Gate(here, next, failure, c),
         failure = None /\ next # "context" => c = Built(bundle, strict, next),
         strict => (failure = None <=> Opens(bundle, here))
  PROVE  ReplayInvariant' /\ EndTells
BY EndingKeeps DEF Ending

\* All gates lie behind the judgement, so the bundle is sound.
LEMMA JudgeKeeps ==
  ASSUME ReplayInvariant, Judge
  PROVE  ReplayInvariant' /\ EndTells
<1>1. at = "judge" /\ at' = "done" /\ UNCHANGED <<bundle, strict, ctx>>
  BY DEF Judge
<1>2. ctx = Built(bundle, strict, "judge")
  BY <1>1 DEF ReplayInvariant
<1>3. bundle' \in Bundles /\ strict' \in BOOLEAN /\ at' \in GateName
  BY <1>1 DEF ReplayInvariant, GateName
<1>4. ASSUME NEW g \in Passing, strict PROVE Opens(bundle, g)
  <2>1. CASE g = "judge"
    BY <2>1 DEF Opens
  <2>2. CASE g # "judge"
    <3>1. Rank[g] \in 1..17 /\ Rank["judge"] = 17
      BY Ranks DEF Rank, Passing, GateName
    <3>2. Rank[g] < Rank["judge"]
      BY <2>2, <3>1, Ranks
    <3>3. Behind(g)
      BY <1>1, <3>2 DEF Behind
    <3> QED BY <1>4, <3>3 DEF ReplayInvariant
  <2> QED BY <2>1, <2>2
<1>5. EndTells
  BY <1>1, <1>4, SoundOpens DEF EndTells
<1>6. verdict' \in Verdict /\ verdict' # None
  <2>1. CASE verdict' \in {Uncanonical, Malformed, Raised}
    <3>1. Uncanonical \in Failure /\ Malformed \in Failure
      BY FailedIs DEF ReplayStage, ReplayCode, Uncanonical, Malformed
    <3> QED BY <2>1, <3>1, FailureIsVerdict, NoneIsNoVerdict DEF Verdict
  <2>2. CASE verdict' \notin {Uncanonical, Malformed, Raised}
    BY <2>2, NoneIsNoVerdict DEF Judge, Verdict
  <2> QED BY <2>1, <2>2
<1>7. strict' => \A g \in Passing : Behind(g)' => Opens(bundle', g)
  BY <1>1, <1>4
<1>8. HasView' => ctx' = Built(bundle', strict', "judge")
  BY <1>1, <1>2
<1> QED BY <1>1, <1>3, <1>5, <1>6, <1>7, <1>8 DEF ReplayInvariant

LEMMA NextGate ==
  /\ Rank["context"] = Rank["ledger"] + 1
  /\ Rank["lifecycle"] = Rank["context"] + 1
  /\ Rank["confluence"] = Rank["lifecycle"] + 1
  /\ Rank["relation_check"] = Rank["confluence"] + 1
  /\ Rank["relations"] = Rank["relation_check"] + 1
  /\ Rank["completion_set"] = Rank["relations"] + 1
  /\ Rank["proof_check"] = Rank["completion_set"] + 1
  /\ Rank["clause_schema"] = Rank["proofs"] + 1
  /\ Rank["contracts"] = Rank["clause_schema"] + 1
  /\ Rank["clauses"] = Rank["contracts"] + 1
  /\ Rank["trust"] = Rank["clauses"] + 1
  /\ Rank["kernel_proof"] = Rank["trust"] + 1
  /\ Rank["certificate"] = Rank["kernel_proof"] + 1
  /\ Rank["judge"] = Rank["use"] + 1
  /\ Rank["proofs"] = Rank["proof_check"] + 1
  /\ Rank["use"] = Rank["certificate"] + 1
  /\ \A g \in GateName \ {"done"} : g \in Passing
BY DEF Rank, Passing, GateName

LEMMA ReplayKeeps ==
  ASSUME ReplayInvariant, ReplayStep
  PROVE  ReplayInvariant' /\ EndTells
<1> USE NextGate
<1>0. /\ bundle \in Bundles /\ strict \in BOOLEAN /\ None \in Answer
  BY DEF ReplayInvariant, Answer
<1>00. at \notin {"ledger", "context", "done"} => ctx = Built(bundle, strict, at)
  BY DEF ReplayInvariant
<1>1. CASE BuildLedger
  <2>1. Gate("ledger", "context", LedgerFailure(bundle, strict),
             ctx)
    BY <1>1 DEF BuildLedger
  <2>2. LedgerFailure(bundle, strict) \in Answer
    BY <1>0, LedgerIs
  <2>3. strict => (LedgerFailure(bundle, strict) = None
                     <=> Opens(bundle, "ledger"))
    BY <1>0, LedgerIs DEF Opens
  <2> QED BY <2>1, <2>2, <2>3, GateKeeps DEF GateName
<1>2. CASE ReadContext
  <2>1. Gate("context", "lifecycle", ContextFailure(bundle),
             FreshContext(bundle))
    BY <1>2 DEF ReadContext
  <2>2. ContextFailure(bundle) \in Answer
    BY <1>0, ContextIs
  <2>3. strict => (ContextFailure(bundle) = None
                     <=> Opens(bundle, "context"))
    BY <1>0, ContextIs DEF Opens
  <2>4. (FreshContext(bundle))
          = Built(bundle, strict, "lifecycle")
    BY <1>00, <2>1 DEF Gate, Built
  <2> QED BY <2>1, <2>2, <2>3, <2>4, GateKeeps DEF GateName
<1>3. CASE CheckLifecycle
  <2> DEFINE found == LifecycleFailure(bundle)
  <2>1. Gate("lifecycle", "confluence", Strictly(found), ctx)
    BY <1>3 DEF CheckLifecycle
  <2>2. found \in Answer /\ (found = None <=> Opens(bundle, "lifecycle"))
    BY <1>0, LifecycleIs DEF Opens
  <2>3. ctx = Built(bundle, strict, "confluence")
    BY <1>00, <2>1 DEF Gate, Built
  <2> HIDE DEF found
  <2>4. /\ Strictly(found) \in Answer
        /\ strict => (Strictly(found) = None <=> Opens(bundle, "lifecycle"))
    BY <1>0, <2>2 DEF Strictly
  <2> QED BY <2>1, <2>3, <2>4, GateKeeps DEF GateName
<1>4. CASE TakeConfluence
  <2>1. Gate("confluence", "relation_check", None,
             IF strict THEN JoinConfluence(bundle, ctx) ELSE ctx)
    BY <1>4 DEF TakeConfluence
  <2>2. None \in Answer
    BY <1>0
  <2>3. strict => (None = None
                     <=> Opens(bundle, "confluence"))
    BY <1>0 DEF Opens
  <2>4. (IF strict THEN JoinConfluence(bundle, ctx) ELSE ctx)
          = Built(bundle, strict, "relation_check")
    BY <1>00, <2>1 DEF Gate, Built, Joined
  <2> QED BY <2>1, <2>2, <2>3, <2>4, GateKeeps DEF GateName
<1>5. CASE CheckRelations
  <2> DEFINE found == RelationsFailure(bundle)
  <2>1. Gate("relation_check", "relations", Strictly(found), ctx)
    BY <1>5 DEF CheckRelations
  <2>2. found \in Answer /\ (found = None <=> Opens(bundle, "relation_check"))
    BY <1>0, RelationsIs DEF Opens
  <2>3. ctx = Built(bundle, strict, "relations")
    BY <1>00, <2>1 DEF Gate, Built
  <2> HIDE DEF found
  <2>4. /\ Strictly(found) \in Answer
        /\ strict => (Strictly(found) = None <=> Opens(bundle, "relation_check"))
    BY <1>0, <2>2 DEF Strictly
  <2> QED BY <2>1, <2>3, <2>4, GateKeeps DEF GateName
<1>6. CASE EnrichRelations
  <2>1. Gate("relations", "completion_set", None,
             TakeRelations(bundle, ctx))
    BY <1>6 DEF EnrichRelations
  <2>2. None \in Answer
    BY <1>0
  <2>3. strict => (None = None
                     <=> Opens(bundle, "relations"))
    BY <1>0 DEF Opens
  <2>4. (TakeRelations(bundle, ctx))
          = Built(bundle, strict, "completion_set")
    BY <1>00, <2>1 DEF Gate, Built
  <2> QED BY <2>1, <2>2, <2>3, <2>4, GateKeeps DEF GateName
<1>7. CASE EnrichCompletions
  <2>1. Gate("completion_set", "proof_check", None,
             TakeCompletionSet(bundle, ctx))
    BY <1>7 DEF EnrichCompletions
  <2>2. None \in Answer
    BY <1>0
  <2>3. strict => (None = None
                     <=> Opens(bundle, "completion_set"))
    BY <1>0 DEF Opens
  <2>4. (TakeCompletionSet(bundle, ctx))
          = Built(bundle, strict, "proof_check")
    BY <1>00, <2>1 DEF Gate, Built, Enriched
  <2> QED BY <2>1, <2>2, <2>3, <2>4, GateKeeps DEF GateName
<1>8. CASE EnrichProofs
  <2>1. Gate("proofs", "clause_schema", None,
             TakeProofs(bundle, ctx))
    BY <1>8 DEF EnrichProofs
  <2>2. None \in Answer
    BY <1>0
  <2>3. strict => (None = None
                     <=> Opens(bundle, "proofs"))
    BY <1>0 DEF Opens
  <2>4. (TakeProofs(bundle, ctx))
          = Built(bundle, strict, "clause_schema")
    BY <1>00, <2>1 DEF Gate, Built, Taken
  <2> QED BY <2>1, <2>2, <2>3, <2>4, GateKeeps DEF GateName
<1>9. CASE CheckClauseSchema
  <2>1. Gate("clause_schema", "contracts", ClauseSchemaFailure(bundle),
             ctx)
    BY <1>9 DEF CheckClauseSchema
  <2>2. ClauseSchemaFailure(bundle) \in Answer
    BY <1>0, ClauseSchemaIs
  <2>3. strict => (ClauseSchemaFailure(bundle) = None
                     <=> Opens(bundle, "clause_schema"))
    BY <1>0, ClauseSchemaIs DEF Opens
  <2>4. (ctx)
          = Built(bundle, strict, "contracts")
    BY <1>00, <2>1 DEF Gate, Built
  <2> QED BY <2>1, <2>2, <2>3, <2>4, GateKeeps DEF GateName
<1>10. CASE CheckContracts
  <2> DEFINE found == FailureOf(bundle.contract, ContractChecks)
  <2>1. Gate("contracts", "clauses", Strictly(found), ctx)
    BY <1>10 DEF CheckContracts
  <2>2. found \in Answer /\ (found = None <=> Opens(bundle, "contracts"))
    BY <1>0, FlawedAre DEF Opens
  <2>3. ctx = Built(bundle, strict, "clauses")
    BY <1>00, <2>1 DEF Gate, Built
  <2> HIDE DEF found
  <2>4. /\ Strictly(found) \in Answer
        /\ strict => (Strictly(found) = None <=> Opens(bundle, "contracts"))
    BY <1>0, <2>2 DEF Strictly
  <2> QED BY <2>1, <2>3, <2>4, GateKeeps DEF GateName
<1>11. CASE CheckClauses
  <2> DEFINE found == FailureOf(bundle.clause, ClauseChecks)
  <2>1. Gate("clauses", "trust", Strictly(found), ctx)
    BY <1>11 DEF CheckClauses
  <2>2. found \in Answer /\ (found = None <=> Opens(bundle, "clauses"))
    BY <1>0, FlawedAre DEF Opens
  <2>3. ctx = Built(bundle, strict, "trust")
    BY <1>00, <2>1 DEF Gate, Built
  <2> HIDE DEF found
  <2>4. /\ Strictly(found) \in Answer
        /\ strict => (Strictly(found) = None <=> Opens(bundle, "clauses"))
    BY <1>0, <2>2 DEF Strictly
  <2> QED BY <2>1, <2>3, <2>4, GateKeeps DEF GateName
<1>12. CASE CheckTrust
  <2> DEFINE found == FailureOf(bundle.trust, TrustChecks)
  <2>1. Gate("trust", "kernel_proof", Strictly(found), ctx)
    BY <1>12 DEF CheckTrust
  <2>2. found \in Answer /\ (found = None <=> Opens(bundle, "trust"))
    BY <1>0, FlawedAre DEF Opens
  <2>3. ctx = Built(bundle, strict, "kernel_proof")
    BY <1>00, <2>1 DEF Gate, Built
  <2> HIDE DEF found
  <2>4. /\ Strictly(found) \in Answer
        /\ strict => (Strictly(found) = None <=> Opens(bundle, "trust"))
    BY <1>0, <2>2 DEF Strictly
  <2> QED BY <2>1, <2>3, <2>4, GateKeeps DEF GateName
<1>13. CASE CheckKernelProofs
  <2> DEFINE found == FailureOf(bundle.kernelProof, KernelChecks)
  <2>1. Gate("kernel_proof", "certificate", Strictly(found), ctx)
    BY <1>13 DEF CheckKernelProofs
  <2>2. found \in Answer /\ (found = None <=> Opens(bundle, "kernel_proof"))
    BY <1>0, FlawedAre DEF Opens
  <2>3. ctx = Built(bundle, strict, "certificate")
    BY <1>00, <2>1 DEF Gate, Built
  <2> HIDE DEF found
  <2>4. /\ Strictly(found) \in Answer
        /\ strict => (Strictly(found) = None <=> Opens(bundle, "kernel_proof"))
    BY <1>0, <2>2 DEF Strictly
  <2> QED BY <2>1, <2>3, <2>4, GateKeeps DEF GateName
<1>14. CASE ReadUse
  <2>1. Gate("use", "judge", UseFailure(bundle),
             ctx)
    BY <1>14 DEF ReadUse
  <2>2. UseFailure(bundle) \in Answer
    BY <1>0, ContextIs
  <2>3. strict => (UseFailure(bundle) = None
                     <=> Opens(bundle, "use"))
    BY <1>0, ContextIs DEF Opens
  <2>4. (ctx)
          = Built(bundle, strict, "judge")
    BY <1>00, <2>1 DEF Gate, Built
  <2> QED BY <2>1, <2>2, <2>3, <2>4, GateKeeps DEF GateName
<1>15. CASE CheckProofs
  <2> DEFINE found == ProofsFailure(bundle, ctx)
  <2>1. Gate("proof_check", "proofs", Strictly(found), ctx)
    BY <1>15 DEF CheckProofs
  <2>2. ctx = Enriched(bundle, strict)
    BY <1>00, <2>1 DEF Gate, Built
  <2>3. ctx.values = [v \in Value |-> bundle.values[v].declared]
    BY <1>0, <2>2, BuiltIs, Zenon
  <2>4. \A v \in Value : ctx.values[v] = bundle.values[v].declared
    BY <2>3
  <2>5. found \in Answer /\ (found = None <=> Opens(bundle, "proof_check"))
    BY <1>0, <2>4, ProofsIs DEF Opens
  <2>6. ctx = Built(bundle, strict, "proofs")
    BY <2>2 DEF Built
  <2> HIDE DEF found
  <2>7. /\ Strictly(found) \in Answer
        /\ strict => (Strictly(found) = None <=> Opens(bundle, "proof_check"))
    BY <1>0, <2>5 DEF Strictly
  <2> QED BY <2>1, <2>6, <2>7, GateKeeps DEF GateName
<1>16. CASE MakeCertificate
  <2> DEFINE failure == CertificateFailure(bundle, strict)
  <2>1. Gate("certificate", "use", failure, Certified(bundle, ctx))
    BY <1>16 DEF MakeCertificate
  <2>2. /\ failure \in Ending
        /\ strict => (failure = None <=> Opens(bundle, "certificate"))
    BY <1>0, CertificateIs DEF Opens
  <2>3. Certified(bundle, ctx) = Built(bundle, strict, "use")
    BY <1>00, <2>1 DEF Gate, Built
  <2> HIDE DEF failure
  <2> QED BY <2>1, <2>2, <2>3, EndingKeeps DEF GateName
<1>17. CASE Judge
  BY <1>17, JudgeKeeps
<1> QED
  BY <1>1, <1>2, <1>3, <1>4, <1>5, <1>6, <1>7, <1>8, <1>9, <1>10, <1>11,
     <1>12, <1>13, <1>14, <1>15, <1>16, <1>17 DEF ReplayStep

LEMMA StartKeeps ==
  ASSUME NEW b \in Bundles, NEW s \in BOOLEAN, StartReplay(b, s)
  PROVE  ReplayInvariant'
<1>1. at' = "ledger" /\ verdict' = None /\ bundle' = b /\ strict' = s
  BY DEF StartReplay
<1>2. ~ HasView'
  BY <1>1 DEF HasView
<1>3. \A g \in Passing : ~ Behind(g)'
  <2>1. \A g \in Passing : ~ (Rank[g] < Rank["ledger"])
    BY Ranks
  <2> QED BY <1>1, <1>2, <2>1 DEF Behind
<1> QED BY <1>1, <1>2, <1>3 DEF ReplayInvariant, GateName

\* A replay step is one of the call it began with.
LEMMA StepsKeepCall == ReplayStep => UNCHANGED <<bundle, strict>>
BY DEF ReplayStep, BuildLedger, ReadContext, CheckLifecycle, TakeConfluence,
       CheckRelations, EnrichRelations, EnrichCompletions, CheckProofs,
       EnrichProofs, CheckClauseSchema, CheckContracts, CheckClauses, CheckTrust,
       CheckKernelProofs, MakeCertificate, ReadUse, Judge, Gate, Stop, Go

LEMMA JudgedProved ==
  ASSUME ReplayInvariant
  PROVE  JudgedIsProved
<1> SUFFICES ASSUME strict, HasView PROVE JudgedIsProved
  BY DEF JudgedIsProved
<1> DEFINE final == [v \in Value |-> Final(bundle, v)]
<1>1. \A g \in Passing : Opens(bundle, g)
  BY DEF ReplayInvariant, Behind
<1>2. \A v \in Value : Proved(bundle.values[v], bundle.values[v].declared)
  BY <1>1 DEF Opens, Passing, GateName
<1>3. Sourced(bundle)
  <2>1. Opens(bundle, "certificate")
    BY <1>1 DEF Passing, GateName
  <2> QED BY <2>1 DEF Opens
<1>4. bundle \in Bundles /\ strict \in BOOLEAN
      /\ ctx = Certified(bundle, Taken(bundle, strict))
  BY DEF ReplayInvariant, Built
<1>5. /\ ctx.values = final
      /\ ctx.semantics = IF HasClauses(bundle) THEN "compiled"
                         ELSE IF bundle.sources = "absent" THEN "embedded"
                         ELSE "artifacts"
      /\ ctx.trusted = (~ HasClauses(bundle) /\ bundle.trust # None)
  BY <1>4, BuiltIs, Zenon
<1>6. bundle.sources # "absent"
  BY <1>3 DEF Sourced
<1>7. ASSUME NEW v \in Value
      PROVE  LET said == bundle.values[v] IN
             /\ said.proof # None =>
                  said.proof.accepted /\ ctx.values[v] = said.proof.value
             /\ said.declared # None => ctx.values[v] = said.declared
  <2> DEFINE said == bundle.values[v]
  <2>1. ctx.values[v] = Final(bundle, v)
    BY <1>5
  <2>2. Proved(said, said.declared)
    BY <1>2
  <2>3. CASE said.proof = None
    BY <2>1, <2>3 DEF Final, ProofValue
  <2>4. CASE said.proof # None
    <3>1. said.proof.accepted /\ said.proof.value # None
      BY <2>2, <2>4, AnswersAreValues DEF Proved
    <3>2. Final(bundle, v) = said.proof.value
      BY <2>4, <3>1 DEF Final, ProofValue
    <3> QED BY <2>1, <2>2, <2>4, <3>1, <3>2 DEF Proved
  <2> QED BY <2>3, <2>4
<1> QED BY <1>5, <1>6, <1>7, Zenon DEF JudgedIsProved

-----------------------------------------------------------------------------
(* The stages.                                                             *)

LEMMA StageOrderIs ==
  /\ StageOrder[1] = "Parse"
  /\ StageOrder[2] = "Canonicalize"
  /\ StageOrder[3] = "SchemaValidate"
  /\ StageOrder[4] = "DigestCheck"
  /\ StageOrder[5] = "ReferenceResolve"
  /\ StageOrder[6] = "ProfileResolve"
  /\ StageOrder[7] = "Replay"
  /\ StageOrder[8] = "GuardEvaluate"
  /\ StageOrder[9] = "KernelCheck"
  /\ StageOrder[10] = "AuthorityEmit"
  /\ DOMAIN StageOrder = 1..10
BY DEF StageOrder

LEMMA OneToTen == 1..10 = {1, 2, 3, 4, 5, 6, 7, 8, 9, 10}
OBVIOUS

LEMMA StagesDiffer ==
  \A i, j \in 1..10 : StageOrder[i] = StageOrder[j] => i = j
BY StageOrderIs, OneToTen

LEMMA IndexIs == \A i \in 1..10 : Index(StageOrder[i]) = i
<1> SUFFICES ASSUME NEW i \in 1..10 PROVE Index(StageOrder[i]) = i
  OBVIOUS
<1>1. \A j \in 1..10 : StageOrder[j] = StageOrder[i] <=> j = i
  BY StagesDiffer
<1> QED BY <1>1 DEF Index

LEMMA IndexNames ==
  /\ Index("Parse") = 1
  /\ Index("Canonicalize") = 2
  /\ Index("SchemaValidate") = 3
  /\ Index("DigestCheck") = 4
  /\ Index("ReferenceResolve") = 5
  /\ Index("ProfileResolve") = 6
  /\ Index("Replay") = 7
  /\ Index("GuardEvaluate") = 8
  /\ Index("KernelCheck") = 9
  /\ Index("AuthorityEmit") = 10
BY IndexIs, StageOrderIs, OneToTen

LEMMA StageIs == \A s \in Stage : \E i \in 1..10 : s = StageOrder[i] /\ Index(s) = i
BY IndexIs DEF Stage

LEMMA StageNames == \A i \in 1..10 : StageOrder[i] \in Stage
BY DEF Stage

LEMMA NamesAreStages ==
  Stage = {"Parse", "Canonicalize", "SchemaValidate", "DigestCheck",
           "ReferenceResolve", "ProfileResolve", "Replay", "GuardEvaluate",
           "KernelCheck", "AuthorityEmit"}
BY StageOrderIs, OneToTen DEF Stage

FaultCode ==
  {"schema_invalid", "artifact_conflict", "missing_ref",
   "canonicalization_mismatch", "clock_boundary_unknown",
   "unsupported_profile", "digest_mismatch", "trace_conflict",
   "checker_unknown", "policy_block", "validity_unknown"}

\* A fault is reported under its own stage, an earlier one or the next.
Fault ==
  {f \in [at : Stage, label : Stage, code : FaultCode,
          needs : {"any", "full", "shallow"}] :
     Index(f.label) <= Index(f.at) + 1}

LEMMA FindsFaults ==
  ASSUME NEW a \in Stage, NEW l \in Stage, NEW c \in SUBSET FaultCode,
         Index(l) <= Index(a) + 1
  PROVE  Finds(a, l, c) \subseteq Fault
BY DEF Finds, Fault

LEMMA OnlyInFaults ==
  ASSUME NEW calls \in {"full", "shallow"}, NEW F \in SUBSET Fault
  PROVE  OnlyIn(calls, F) \subseteq Fault
BY DEF OnlyIn, Fault

LEMMA FaultsAre == PreflightFault \subseteq Fault
<1> USE NamesAreStages, IndexNames DEF FaultCode
<1>1. ParseFinds \subseteq Fault /\ CanonicalizeFinds \subseteq Fault
      /\ SchemaFinds \subseteq Fault /\ WireFinds \subseteq Fault
  BY FindsFaults DEF ParseFinds, CanonicalizeFinds, SchemaFinds, WireFinds
<1>2. ArtifactRefFinds \subseteq Fault
  BY FindsFaults DEF ArtifactRefFinds
<1>3. SetRefFinds \subseteq Fault
  BY FindsFaults DEF SetRefFinds
<1>4. ManifestFinds \subseteq Fault
  BY FindsFaults, OnlyInFaults DEF ManifestFinds
<1>5. ReferenceFinds \subseteq Fault /\ ProfileFinds \subseteq Fault
  BY FindsFaults DEF ReferenceFinds, ProfileFinds
<1>6. ReplayFinds \subseteq Fault
  <2> DEFINE finds == Finds("Replay", "Replay", {"schema_invalid", "trace_conflict"})
                      \cup Finds("Replay", "GuardEvaluate", {"checker_unknown"})
  <2>1. finds \subseteq Fault
    BY FindsFaults
  <2>2. ReplayFinds = OnlyIn("shallow", finds)
    BY DEF ReplayFinds
  <2> HIDE DEF finds
  <2> QED BY <2>1, <2>2, OnlyInFaults
<1>7. GuardFinds \subseteq Fault
  BY FindsFaults, OnlyInFaults DEF GuardFinds
<1>8. KernelFinds \subseteq Fault
  BY FindsFaults, OnlyInFaults DEF KernelFinds
<1>9. AuthorityFinds \subseteq Fault
  <2> DEFINE finds == Finds("AuthorityEmit", "AuthorityEmit",
                       {"schema_invalid", "missing_ref", "artifact_conflict",
                        "policy_block", "validity_unknown", "checker_unknown"})
                      \cup Finds("AuthorityEmit", "GuardEvaluate",
                                 {"checker_unknown"})
  <2>1. finds \subseteq Fault
    BY FindsFaults
  <2>2. AuthorityFinds = OnlyIn("shallow", finds)
    BY DEF AuthorityFinds
  <2> HIDE DEF finds
  <2> QED BY <2>1, <2>2, OnlyInFaults
<1> QED
  BY <1>1, <1>2, <1>3, <1>4, <1>5, <1>6, <1>7, <1>8, <1>9, Zenon
     DEF PreflightFault

LEMMA SinglesAre ==
  \A r \in SingleFaults : r = [stage |-> r.stage, code |-> r.code]
                          /\ r.stage \in Stage /\ r.code \in FaultCode
<1>1. SingleFinds \subseteq Fault
  <2> USE NamesAreStages, IndexNames DEF FaultCode
  <2>1. Finds("Parse", "Parse", {"schema_invalid"}) \subseteq Fault
        /\ Finds("DigestCheck", "DigestCheck",
                 {"missing_ref", "artifact_conflict"}) \subseteq Fault
    BY FindsFaults
  <2>2. CanonicalizeFinds \cup SchemaFinds \cup WireFinds \cup ArtifactRefFinds
        \cup SetRefFinds \cup ReferenceFinds \cup ProfileFinds \subseteq Fault
    BY FaultsAre DEF PreflightFault
  <2> QED BY <2>1, <2>2, Zenon DEF SingleFinds
<1> QED BY <1>1, SinglesAreFaults DEF Fault

-----------------------------------------------------------------------------
(* The report.                                                             *)

Code == {"pass", "blocked"} \cup FaultCode \cup ReplayCode \cup DefectCode

Result == [stage : Stage, code : Code]

\* The first n stages have passed.
PassedSoFar(results, n) ==
  /\ results \in Seq(Result) /\ Len(results) = n
  /\ \A i \in 1..n : results[i] = [stage |-> StageOrder[i], code |-> "pass"]

\* The results before the m-th passed; it and the later ones did not, and
\* the later stages are reported.
BlockedFrom(results, m) ==
  /\ results \in Seq(Result) /\ m \in 1..Len(results)
  /\ \A j \in 1..(m - 1) : results[j].code = "pass"
  /\ \A j \in m..Len(results) : results[j].code # "pass"
  /\ Len(results) > 1 =>
       \A k \in (m + 1)..10 : \E j \in m..Len(results) :
         results[j].stage = StageOrder[k]

LEMMA BlockedIs ==
  ASSUME NEW n \in 0..9, NEW f \in Fault, f.at = StageOrder[n + 1]
  PROVE  LET blocked == Blocked(f.at, f.label) IN
         /\ blocked \in Seq(Result)
         /\ \A j \in 1..Len(blocked) : blocked[j].code = "blocked"
         /\ f.at # "AuthorityEmit" =>
              /\ Len(blocked) = 10 - Index(f.label)
              /\ \A j \in 1..Len(blocked) :
                   blocked[j].stage = StageOrder[Index(f.label) + j]
<1>1. Index(f.label) \in 1..10
  BY StageIs DEF Fault
<1>2. CASE f.at = "AuthorityEmit"
  BY <1>2 DEF Blocked
<1>3. CASE f.at # "AuthorityEmit"
  <2> SUFFICES ASSUME NEW l \in 1..10, l = Index(f.label)
               PROVE  LET blocked == Blocked(f.at, f.label) IN
                      /\ blocked \in Seq(Result)
                      /\ \A j \in 1..Len(blocked) : blocked[j].code = "blocked"
                      /\ Len(blocked) = 10 - l
                      /\ \A j \in 1..Len(blocked) :
                           blocked[j].stage = StageOrder[l + j]
    BY <1>1, <1>3
  <2>1. Blocked(f.at, f.label) =
          [i \in 1..(10 - l) |-> [stage |-> StageOrder[l + i], code |-> "blocked"]]
    BY <1>3 DEF Blocked
  <2>2. 10 - l \in Nat
    OBVIOUS
  <2>3. \A i \in 1..(10 - l) :
          [stage |-> StageOrder[l + i], code |-> "blocked"] \in Result
    <3> SUFFICES ASSUME NEW i \in 1..(10 - l) PROVE StageOrder[l + i] \in Stage
      BY DEF Result, Code
    <3>1. l + i \in 1..10
      OBVIOUS
    <3> QED BY <3>1, StageNames
  <2> QED BY <2>1, <2>2, <2>3
<1> QED BY <1>2, <1>3

\* A fault found by the stage after those that passed blocks the rest.
LEMMA FaultBlocks ==
  ASSUME NEW results, NEW n \in 0..9, PassedSoFar(results, n),
         NEW f \in Fault, f.at = StageOrder[n + 1]
  PROVE  BlockedFrom(Append(results, [stage |-> f.label, code |-> f.code])
                       \o Blocked(f.at, f.label), n + 1)
<1> DEFINE r == [stage |-> f.label, code |-> f.code]
           B == Blocked(f.at, f.label)
<1>1. r \in Result /\ r.code # "pass"
  BY DEF Fault, Result, Code, FaultCode
<1>2. PICK first : first = Append(results, r)
  OBVIOUS
<1>3. /\ first \in Seq(Result) /\ Len(first) = n + 1
      /\ first[n + 1] = r
      /\ \A i \in 1..n : first[i] = results[i]
  BY <1>1, <1>2, AppendProperties DEF PassedSoFar
<1>4. /\ B \in Seq(Result)
      /\ \A j \in 1..Len(B) : B[j].code = "blocked"
      /\ f.at # "AuthorityEmit" =>
           /\ Len(B) = 10 - Index(f.label)
           /\ \A j \in 1..Len(B) : B[j].stage = StageOrder[Index(f.label) + j]
  BY BlockedIs, Zenon
<1>5. PICK k0 \in Nat : k0 = Len(B)
  BY <1>4, LenProperties
<1>6. PICK new : new = first \o B
  OBVIOUS
<1>7. /\ new \in Seq(Result) /\ Len(new) = (n + 1) + k0
      /\ \A i \in 1..(n + 1) : new[i] = first[i]
      /\ \A j \in 1..k0 : new[(n + 1) + j] = B[j]
  <2>1. /\ new \in Seq(Result) /\ Len(new) = Len(first) + Len(B)
        /\ \A i \in 1..Len(first) : new[i] = first[i]
        /\ \A i \in Len(first)+1 .. Len(first)+Len(B) : new[i] = B[i - Len(first)]
    BY <1>3, <1>4, <1>6, ConcatProperties
  <2>2. ASSUME NEW j \in 1..k0 PROVE new[(n + 1) + j] = B[j]
    <3>1. /\ (n + 1) + j \in (n + 1) + 1 .. (n + 1) + k0
          /\ ((n + 1) + j) - (n + 1) = j
      OBVIOUS
    <3> QED BY <1>3, <1>5, <2>1, <3>1
  <2> QED BY <1>3, <1>5, <2>1, <2>2
<1>8. new[n + 1] = r /\ n + 1 \in 1..Len(new)
  BY <1>3, <1>7
<1>9. ASSUME NEW j \in 1..((n + 1) - 1) PROVE new[j].code = "pass"
  <2>1. j \in 1..n /\ j \in 1..(n + 1)
    OBVIOUS
  <2> QED BY <1>3, <1>7, <2>1 DEF PassedSoFar
<1>10. ASSUME NEW j \in (n + 1)..Len(new) PROVE new[j].code # "pass"
  <2>1. CASE j = n + 1
    BY <1>1, <1>8, <2>1
  <2>2. CASE j # n + 1
    <3>1. j - (n + 1) \in 1..k0 /\ (n + 1) + (j - (n + 1)) = j
      BY <1>7, <2>2
    <3>2. new[j] = B[j - (n + 1)]
      BY <1>7, <3>1
    <3> QED BY <1>4, <1>5, <3>1, <3>2
  <2> QED BY <2>1, <2>2
<1>11. ASSUME NEW k \in ((n + 1) + 1)..10
       PROVE  \E j \in (n + 1)..Len(new) : new[j].stage = StageOrder[k]
  <2>1. f.at # "AuthorityEmit"
    <3>1. n + 1 \in 1..10 /\ n + 1 # 10
      OBVIOUS
    <3> QED BY <3>1, StagesDiffer, StageOrderIs
  <2>2. PICK l \in 1..10 : l = Index(f.label) /\ f.label = StageOrder[l]
    BY StageIs DEF Fault
  <2>3. l <= (n + 1) + 1
    <3>1. n + 1 \in 1..10
      OBVIOUS
    <3>2. Index(f.at) = n + 1
      BY <3>1, IndexIs
    <3> QED BY <2>2, <3>2 DEF Fault
  <2>4. k0 = 10 - l
    BY <1>4, <1>5, <2>1, <2>2
  <2>5. CASE k = l
    BY <1>8, <2>2, <2>5
  <2>6. CASE k # l
    <3>1. /\ k - l \in 1..k0 /\ l + (k - l) = k
          /\ (n + 1) + (k - l) \in (n + 1)..((n + 1) + k0)
      BY <2>3, <2>4, <2>6
    <3>2. new[(n + 1) + (k - l)] = B[k - l]
      BY <1>7, <3>1
    <3>3. B[k - l].stage = StageOrder[k]
      BY <1>4, <1>5, <2>1, <2>2, <3>1
    <3> QED BY <1>7, <3>1, <3>2, <3>3
  <2> QED BY <2>5, <2>6
<1>12. BlockedFrom(new, n + 1)
  BY <1>7, <1>8, <1>9, <1>10, <1>11 DEF BlockedFrom
<1> QED BY <1>2, <1>6, <1>12

LEMMA BlockedSaysSo ==
  ASSUME NEW results, NEW m, BlockedFrom(results, m)
  PROVE  LET failing == CHOOSE i \in DOMAIN results :
               /\ results[i].code # "pass"
               /\ \A j \in 1..(i - 1) : results[j].code = "pass"
         IN /\ \A j \in DOMAIN results :
                 j > failing => results[j].code # "pass"
            /\ Len(results) > 1 =>
                 \A k \in (failing + 1)..10 : \E j \in DOMAIN results :
                   j >= failing /\ results[j].stage = StageOrder[k]
<1> DEFINE failing == CHOOSE i \in DOMAIN results :
             /\ results[i].code # "pass"
             /\ \A j \in 1..(i - 1) : results[j].code = "pass"
<1>1. DOMAIN results = 1..Len(results) /\ Len(results) \in Nat
  BY LenProperties DEF BlockedFrom
<1>2. m \in DOMAIN results /\ m \in Nat
  BY <1>1 DEF BlockedFrom
<1>3. /\ results[m].code # "pass"
      /\ \A j \in 1..(m - 1) : results[j].code = "pass"
  <2>1. m \in m..Len(results)
    BY <1>1, <1>2
  <2> QED BY <2>1 DEF BlockedFrom
<1>4. failing \in DOMAIN results
      /\ results[failing].code # "pass"
      /\ \A j \in 1..(failing - 1) : results[j].code = "pass"
  BY <1>2, <1>3, Zenon
<1> HIDE DEF failing
<1>5. failing = m
  <2>1. failing \in Nat /\ failing >= 1 /\ m >= 1
    BY <1>1, <1>2, <1>4
  <2>2. CASE failing < m
    <3>1. failing \in 1..(m - 1)
      BY <1>2, <2>1, <2>2
    <3> QED BY <1>3, <1>4, <3>1
  <2>3. CASE failing > m
    <3>1. m \in 1..(failing - 1)
      BY <1>2, <2>1, <2>3
    <3> QED BY <1>3, <1>4, <3>1
  <2> QED BY <1>2, <2>1, <2>2, <2>3
<1>6. \A j \in DOMAIN results : j > failing => results[j].code # "pass"
  <2> SUFFICES ASSUME NEW j \in DOMAIN results, j > m
               PROVE  results[j].code # "pass"
    BY <1>5
  <2>1. j \in m..Len(results)
    BY <1>1, <1>2
  <2> QED BY <2>1 DEF BlockedFrom
<1>7. Len(results) > 1 =>
        \A k \in (failing + 1)..10 : \E j \in DOMAIN results :
          j >= failing /\ results[j].stage = StageOrder[k]
  <2> SUFFICES ASSUME Len(results) > 1, NEW k \in (m + 1)..10
               PROVE  \E j \in DOMAIN results :
                        j >= m /\ results[j].stage = StageOrder[k]
    BY <1>5
  <2>1. PICK j \in m..Len(results) : results[j].stage = StageOrder[k]
    BY DEF BlockedFrom
  <2>2. j \in DOMAIN results /\ j >= m
    BY <1>1, <1>2, <2>1
  <2> QED BY <2>1, <2>2
<1> QED BY <1>6, <1>7, Zenon DEF failing

LEMMA StageCodeIs ==
  ASSUME NEW stage, NEW v
  PROVE  /\ StageCode(stage, v) \in Code
         /\ StageCode(stage, v) = "pass" <=>
              {b.code : b \in StageBlocks(stage, v)} \cap DefectCode = {}
<1> DEFINE defects == {b.code : b \in StageBlocks(stage, v)} \cap DefectCode
<1>1. CASE defects = {}
  BY <1>1 DEF StageCode, Code
<1>2. CASE defects # {}
  <2>1. (CHOOSE c \in defects : TRUE) \in defects
    BY <1>2
  <2>2. StageCode(stage, v) \in defects
    BY <1>2, <2>1, Zenon DEF StageCode
  <2>3. StageCode(stage, v) \in DefectCode /\ "pass" \notin DefectCode
    BY <2>2 DEF DefectCode
  <2> QED BY <1>2, <2>3 DEF Code
<1> QED BY <1>1, <1>2

\* The trace of a replay passes exactly if no block of the view is a defect.
LEMMA TraceTells ==
  ASSUME verdict \in Verdict, verdict # Raised
  PROVE  /\ TraceResults \in Seq(Result)
         /\ (\A i \in DOMAIN TraceResults : TraceResults[i].code = "pass") <=>
              HasView /\ {b.code : b \in verdict.blocks} \cap DefectCode = {}
<1>1. CASE HasView
  <2>1. TraceResults = [i \in 1..4 |->
          [stage |-> StageOrder[6 + i],
           code |-> StageCode(StageOrder[6 + i], verdict)]]
    BY <1>1 DEF TraceResults
  <2>2. \A i \in 1..4 : StageOrder[6 + i] \in Stage
    <3>1. \A i \in 1..4 : 6 + i \in 1..10
      OBVIOUS
    <3> QED BY <3>1, StageNames
  <2>3. TraceResults \in Seq(Result)
    <3>1. \A i \in 1..4 : [stage |-> StageOrder[6 + i],
                           code |-> StageCode(StageOrder[6 + i], verdict)]
                            \in Result
      BY <2>2, StageCodeIs DEF Result
    <3> QED BY <2>1, <3>1
  <2>4. \A s : StageBlocks(s, verdict) \subseteq verdict.blocks
    BY DEF StageBlocks
  <2>5. StageBlocks(StageOrder[6 + 4], verdict) = verdict.blocks
    <3>1. 6 + 4 = 10
      OBVIOUS
    <3> QED BY <3>1, StageOrderIs DEF StageBlocks
  <2>6. DOMAIN TraceResults = 1..4
        /\ \A i \in 1..4 : TraceResults[i].code
                             = StageCode(StageOrder[6 + i], verdict)
    BY <2>1
  <2>7. ASSUME {b.code : b \in verdict.blocks} \cap DefectCode = {},
               NEW i \in 1..4
        PROVE  TraceResults[i].code = "pass"
    <3>1. {b.code : b \in StageBlocks(StageOrder[6 + i], verdict)}
            \cap DefectCode = {}
      BY <2>4, <2>7
    <3> QED BY <2>6, <3>1, StageCodeIs
  <2>8. ASSUME \A i \in 1..4 : TraceResults[i].code = "pass"
        PROVE  {b.code : b \in verdict.blocks} \cap DefectCode = {}
    <3>1. 4 \in 1..4
      OBVIOUS
    <3>2. StageCode(StageOrder[6 + 4], verdict) = "pass"
      BY <2>6, <2>8, <3>1
    <3> QED BY <2>5, <3>2, StageCodeIs
  <2> QED BY <1>1, <2>3, <2>6, <2>7, <2>8
<1>2. CASE ~ HasView
  <2>1. TraceResults = <<[stage |-> verdict.stage, code |-> verdict.code]>>
    BY <1>2 DEF TraceResults
  <2>2. verdict \in Failure
    BY <1>2, NoneIsNoVerdict DEF HasView, Verdict, Failure, ReplayStage, ReplayCode
  <2>3. /\ [stage |-> verdict.stage, code |-> verdict.code] \in Result
        /\ verdict.code # "pass"
    BY <2>2, NamesAreStages DEF Failure, ReplayStage, ReplayCode, Result, Code
  <2>4. 1 \in DOMAIN TraceResults /\ TraceResults[1].code # "pass"
    BY <2>1, <2>3
  <2> QED BY <1>2, <2>1, <2>3, <2>4
<1> QED BY <1>1, <1>2

-----------------------------------------------------------------------------
(* The invariant of the pipeline: while a call goes on, what the report    *)
(* has so far passed, in the order of the stages.                          *)

PipelineInvariant ==
  /\ ReplayInvariant
  /\ faults \in SUBSET Fault /\ full \in BOOLEAN
  /\ phase \in {"idle", "preflight", "replay", "report", "raised"}
  /\ report \in Seq(Result)
  /\ phase = "preflight" =>
       /\ at = "ledger" /\ view = None /\ Len(report) <= Stages
       /\ PassedSoFar(report, Len(report))
  /\ phase = "replay" =>
       /\ strict = full /\ Len(report) = Stages
       /\ PassedSoFar(report, Len(report))
  /\ FailureBlocksTheRest
  /\ PassMeansJudged

LEMMA StagesIs == full \in BOOLEAN => Stages \in {6, 10}
BY DEF Stages

LEMMA NextStage ==
  \A n \in Nat, s \in {6, 10} :
    n < s => n \in 0..9 /\ n + 1 \in 1..10 /\ n + 1 <= s
OBVIOUS

\* A call in progress has nothing to say of its report yet.
LEMMA Unreported ==
  ASSUME phase' # "report"
  PROVE  FailureBlocksTheRest' /\ PassMeansJudged'
BY Zenon DEF FailureBlocksTheRest, PassMeansJudged

\* A report of stages that have all passed blames none.
LEMMA AllPassed ==
  ASSUME PassedSoFar(report, Len(report))
  PROVE  Passed(report) /\ FailureBlocksTheRest
<1>1. DOMAIN report = 1..Len(report)
  BY LenProperties DEF PassedSoFar
<1>2. Passed(report)
  BY <1>1 DEF PassedSoFar, Passed
<1> QED BY <1>2, Zenon DEF FailureBlocksTheRest

LEMMA InitHolds == Init => PipelineInvariant
<1> SUFFICES ASSUME Init PROVE PipelineInvariant
  OBVIOUS
<1>1. ReplayInvariant
  <2>1. ~ HasView
    BY DEF Init, HasView
  <2>2. \A g \in Passing : ~ Behind(g)
    <3>1. \A g \in Passing : ~ (Rank[g] < Rank["ledger"])
      BY Ranks
    <3> QED BY <2>1, <3>1 DEF Init, Behind
  <2> QED BY <2>1, <2>2 DEF Init, ReplayInvariant, GateName
<1>2. faults \in SUBSET Fault
  BY FaultsAre, FaultsAreTyped DEF Init
<1>3. FailureBlocksTheRest /\ PassMeansJudged
  BY Zenon DEF Init, FailureBlocksTheRest, PassMeansJudged
<1>4. report = <<>> /\ <<>> \in Seq(Result) /\ phase = "idle" /\ full = FALSE
  BY DEF Init
<1> QED BY <1>1, <1>2, <1>3, <1>4 DEF PipelineInvariant

LEMMA ReplaySame ==
  ASSUME ReplayInvariant, UNCHANGED replayVars
  PROVE  ReplayInvariant' /\ (HasView <=> HasView')
BY DEF ReplayInvariant, replayVars, HasView, Behind

LEMMA PreflightKeeps ==
  ASSUME PipelineInvariant, Preflight
  PROVE  PipelineInvariant'
<1> PICK n \in Nat : n = Len(report)
  BY LenProperties DEF PipelineInvariant
<1> DEFINE stage == StageOrder[n + 1]
<1>1. /\ phase = "preflight" /\ n < Stages /\ Stages \in {6, 10}
      /\ at = "ledger" /\ view = None /\ PassedSoFar(report, n)
      /\ UNCHANGED <<replayVars, faults, full, view>>
  BY StagesIs DEF Preflight, PipelineInvariant
<1>2. n \in 0..9 /\ n + 1 \in 1..10 /\ n + 1 <= Stages
  BY <1>1, NextStage, Zenon
<1>3. ReplayInvariant' /\ at' = at
  BY <1>1, ReplaySame DEF PipelineInvariant, replayVars
<1>4. faults' \in SUBSET Fault /\ full' \in BOOLEAN /\ Stages' = Stages
  BY <1>1 DEF PipelineInvariant, Stages
<1>5. CASE /\ Found(stage) = {}
           /\ report' = Append(report, [stage |-> stage, code |-> "pass"])
           /\ UNCHANGED phase
  <2> DEFINE r == [stage |-> stage, code |-> "pass"]
  <2>1. r \in Result
    BY <1>2, StageNames DEF Result, Code
  <2>2. /\ report' \in Seq(Result) /\ Len(report') = n + 1
        /\ report'[n + 1] = r
        /\ \A i \in 1..n : report'[i] = report[i]
    BY <1>1, <1>5, <2>1, AppendProperties DEF PassedSoFar
  <2>3. PassedSoFar(report', n + 1)
    <3>1. ASSUME NEW i \in 1..(n + 1)
          PROVE  report'[i] = [stage |-> StageOrder[i], code |-> "pass"]
      <4>1. CASE i = n + 1
        BY <2>2, <4>1
      <4>2. CASE i # n + 1
        <5>1. i \in 1..n
          BY <4>2
        <5> QED BY <1>1, <2>2, <5>1 DEF PassedSoFar
      <4> QED BY <4>1, <4>2
    <3> QED BY <2>2, <3>1 DEF PassedSoFar
  <2>4. phase' = "preflight"
    BY <1>1, <1>5
  <2> QED
    BY <1>1, <1>2, <1>3, <1>4, <2>2, <2>3, <2>4, Unreported DEF PipelineInvariant
<1>6. ASSUME NEW f \in Found(stage),
             report' = Append(report, [stage |-> f.label, code |-> f.code])
                       \o Blocked(stage, f.label),
             phase' = "report"
      PROVE  PipelineInvariant'
  <2>1. f \in Fault /\ f.at = stage
    BY DEF Found, PipelineInvariant
  <2>2. BlockedFrom(report', n + 1)
    <3>1. f.at = StageOrder[n + 1]
      BY <2>1
    <3>2. BlockedFrom(Append(report, [stage |-> f.label, code |-> f.code])
                        \o Blocked(f.at, f.label), n + 1)
      BY <1>1, <1>2, <2>1, <3>1, FaultBlocks
    <3> QED BY <1>6, <2>1, <3>2
  <2>3. view' = None
    BY <1>1
  <2>4. FailureBlocksTheRest'
    <3>1. LET failing == CHOOSE i \in DOMAIN report' :
                /\ report'[i].code # "pass"
                /\ \A j \in 1..(i - 1) : report'[j].code = "pass"
          IN /\ \A j \in DOMAIN report' :
                  j > failing => report'[j].code # "pass"
             /\ Len(report') > 1 =>
                  \A k \in (failing + 1)..10 : \E j \in DOMAIN report' :
                    j >= failing /\ report'[j].stage = StageOrder[k]
      BY <2>2, BlockedSaysSo, Zenon
    <3> QED BY <2>3, <3>1, Zenon DEF FailureBlocksTheRest
  <2>5. PassMeansJudged'
    BY <1>1, <1>3 DEF PassMeansJudged
  <2>6. report' \in Seq(Result)
    BY <2>2 DEF BlockedFrom
  <2> QED BY <1>3, <1>4, <1>6, <2>4, <2>5, <2>6 DEF PipelineInvariant
<1> QED BY <1>5, <1>6 DEF Preflight

LEMMA BeginKeeps ==
  ASSUME PipelineInvariant, BeginReplay
  PROVE  PipelineInvariant'
<1>1. /\ phase = "preflight" /\ Len(report) = Stages /\ at = "ledger"
      /\ PassedSoFar(report, Len(report)) /\ report \in Seq(Result)
      /\ bundle \in Bundles /\ full \in BOOLEAN /\ faults \in SUBSET Fault
      /\ UNCHANGED <<faults, full, report, view>>
  BY DEF BeginReplay, PipelineInvariant, ReplayInvariant
<1>2. Stages' = Stages
  BY <1>1 DEF Stages
<1>3. CASE StartReplay(bundle, full) /\ phase' = "replay"
  <2>1. ReplayInvariant' /\ strict' = full
    BY <1>1, <1>3, StartKeeps DEF StartReplay
  <2> QED BY <1>1, <1>2, <1>3, <2>1, Unreported DEF PipelineInvariant
<1>4. CASE UNCHANGED replayVars /\ phase' = "report"
  <2>1. ReplayInvariant' /\ at' = "ledger"
    BY <1>1, <1>4, ReplaySame DEF PipelineInvariant, replayVars
  <2>2. DOMAIN report = 1..Len(report)
    BY <1>1, LenProperties
  <2>3. Passed(report')
    BY <1>1, <2>2 DEF PassedSoFar, Passed
  <2>4. FailureBlocksTheRest'
    BY <2>3, Zenon DEF FailureBlocksTheRest
  <2>5. PassMeansJudged'
    BY <2>1 DEF PassMeansJudged
  <2> QED BY <1>1, <1>4, <2>1, <2>4, <2>5 DEF PipelineInvariant
<1> QED BY <1>3, <1>4 DEF BeginReplay

LEMMA ReplayingKeeps ==
  ASSUME PipelineInvariant, Replaying
  PROVE  PipelineInvariant'
<1>1. /\ phase = "replay" /\ ReplayStep /\ ReplayInvariant
      /\ UNCHANGED <<faults, full, phase, report, view>>
  BY DEF Replaying, PipelineInvariant
<1>2. ReplayInvariant' /\ strict' = strict
  BY <1>1, ReplayKeeps, StepsKeepCall
<1>3. Stages' = Stages
  BY <1>1 DEF Stages
<1>4. FailureBlocksTheRest' /\ PassMeansJudged'
  BY <1>1, Unreported
<1> QED BY <1>1, <1>2, <1>3, <1>4 DEF PipelineInvariant

LEMMA EndKeeps ==
  ASSUME PipelineInvariant, EndReplay
  PROVE  PipelineInvariant'
<1>1. /\ phase = "replay" /\ at = "done" /\ verdict # Raised
      /\ report' = IF full THEN report \o TraceResults ELSE report
      /\ view' = IF HasView THEN verdict ELSE None
      /\ phase' = "report"
      /\ UNCHANGED <<replayVars, faults, full>>
  BY DEF EndReplay
<1>2. verdict \in Verdict /\ verdict # None
  BY <1>1 DEF PipelineInvariant, ReplayInvariant
<1>3. ReplayInvariant' /\ at' = "done"
  BY <1>1, ReplaySame DEF PipelineInvariant, replayVars
<1>4. PassedSoFar(report, Len(report)) /\ report \in Seq(Result)
  BY <1>1 DEF PipelineInvariant
<1>5. /\ TraceResults \in Seq(Result)
      /\ (\A i \in DOMAIN TraceResults : TraceResults[i].code = "pass") <=>
           HasView /\ {b.code : b \in verdict.blocks} \cap DefectCode = {}
  BY <1>1, <1>2, TraceTells
<1>6. report \o TraceResults \in Seq(Result)
  BY <1>4, <1>5, ConcatProperties
<1>7. Passed(report \o TraceResults) <=>
        \A i \in DOMAIN TraceResults : TraceResults[i].code = "pass"
  <2> PICK n \in Nat, m \in Nat : n = Len(report) /\ m = Len(TraceResults)
    BY <1>4, <1>5, LenProperties
  <2> PICK new : new = report \o TraceResults
    OBVIOUS
  <2>1. /\ DOMAIN new = 1..(n + m) /\ DOMAIN TraceResults = 1..m
        /\ \A i \in 1..n : new[i] = report[i]
        /\ \A i \in (n + 1)..(n + m) : new[i] = TraceResults[i - n]
    <3>1. /\ Len(new) = n + m /\ new \in Seq(Result)
          /\ \A i \in 1..n : new[i] = report[i]
          /\ \A i \in (n + 1)..(n + m) : new[i] = TraceResults[i - n]
      BY <1>4, <1>5, <1>6, ConcatProperties
    <3> QED BY <1>5, <3>1, LenProperties
  <2>2. ASSUME NEW i \in 1..n PROVE new[i].code = "pass"
    <3>1. report[i] = [stage |-> StageOrder[i], code |-> "pass"]
      BY <1>4, Zenon DEF PassedSoFar
    <3>2. new[i] = report[i]
      BY <2>1
    <3> QED BY <3>1, <3>2
  <2>3. ASSUME \A i \in 1..m : TraceResults[i].code = "pass",
               NEW i \in 1..(n + m)
        PROVE  new[i].code = "pass"
    <3>1. CASE i \in 1..n
      BY <2>2, <3>1
    <3>2. CASE i \notin 1..n
      <4>1. i \in (n + 1)..(n + m) /\ i - n \in 1..m
        BY <3>2
      <4> QED BY <2>1, <2>3, <4>1
    <3> QED BY <3>1, <3>2
  <2>4. ASSUME \A i \in 1..(n + m) : new[i].code = "pass",
               NEW i \in 1..m
        PROVE  TraceResults[i].code = "pass"
    <3>1. /\ n + i \in (n + 1)..(n + m) /\ n + i \in 1..(n + m)
          /\ (n + i) - n = i
      OBVIOUS
    <3>2. new[n + i] = TraceResults[(n + i) - n]
      BY <2>1, <3>1, Zenon
    <3> QED BY <2>4, <3>1, <3>2
  <2>5. Passed(new) <=> \A i \in 1..m : TraceResults[i].code = "pass"
    BY <2>1, <2>3, <2>4 DEF Passed
  <2> QED BY <2>1, <2>5
<1>8. FailureBlocksTheRest'
  <2>1. at' # "ledger"
    BY <1>3
  <2> QED BY <2>1, Zenon DEF FailureBlocksTheRest
<1>9. PassMeansJudged'
  <2> SUFFICES ASSUME full
               PROVE  Passed(report') <=>
                        /\ view' # None
                        /\ {b.code : b \in view'.blocks} \cap DefectCode = {}
    BY <1>1 DEF PassMeansJudged
  <2>1. report' = report \o TraceResults
    BY <1>1
  <2>2. view' # None <=> HasView
    BY <1>1, <1>2
  <2>3. HasView => view' = verdict
    BY <1>1
  <2>4. Passed(report') <=>
          HasView /\ {b.code : b \in verdict.blocks} \cap DefectCode = {}
    BY <1>5, <1>7, <2>1
  <2> QED BY <2>2, <2>3, <2>4
<1>10. /\ faults' \in SUBSET Fault /\ full' \in BOOLEAN
       /\ report' \in Seq(Result)
  BY <1>1, <1>4, <1>6 DEF PipelineInvariant
<1> QED BY <1>1, <1>3, <1>8, <1>9, <1>10 DEF PipelineInvariant

LEMMA RaiseEnds ==
  ASSUME PipelineInvariant, Raise
  PROVE  PipelineInvariant'
<1>1. phase' = "raised" /\ UNCHANGED <<replayVars, faults, full, report, view>>
  BY DEF Raise
<1>2. ReplayInvariant'
  BY <1>1, ReplaySame DEF PipelineInvariant
<1> QED BY <1>1, <1>2, Unreported DEF PipelineInvariant

LEMMA ValidateKeeps ==
  ASSUME PipelineInvariant, Validate
  PROVE  PipelineInvariant'
<1>1. /\ phase' = "preflight" /\ full' \in BOOLEAN
      /\ report' = <<>> /\ view' = None /\ at' = "ledger"
      /\ StartReplay(bundle, strict) /\ faults' = faults
  BY DEF Validate, StartReplay
<1>2. bundle \in Bundles /\ strict \in BOOLEAN
  BY DEF PipelineInvariant, ReplayInvariant
<1>3. ReplayInvariant'
  BY <1>1, <1>2, StartKeeps
<1>4. report' \in Seq(Result) /\ Len(report') = 0 /\ PassedSoFar(report', 0)
  BY <1>1 DEF PassedSoFar
<1>5. 0 <= Stages'
  BY <1>1 DEF Stages
<1> QED BY <1>1, <1>3, <1>4, <1>5, Unreported DEF PipelineInvariant

LEMMA SingleKeeps ==
  ASSUME PipelineInvariant, ValidateSingle
  PROVE  PipelineInvariant'
<1>1. /\ full' \in BOOLEAN /\ phase' = "report" /\ view' = None
      /\ UNCHANGED <<replayVars, faults>>
  BY DEF ValidateSingle
<1>2. PICK found \in {None} \cup SingleFaults :
        report' = IF full' THEN <<[stage |-> "Replay", code |-> "missing_ref"]>>
                  ELSE IF found = None
                  THEN <<[stage |-> "AuthorityEmit", code |-> "pass"]>>
                  ELSE <<found>>
  BY DEF ValidateSingle
<1>3. ReplayInvariant'
  BY <1>1, ReplaySame DEF PipelineInvariant
<1>4. PICK r \in Result :
        report' = <<r>> /\ (full' => r.code = "missing_ref")
  <2>1. /\ [stage |-> "Replay", code |-> "missing_ref"] \in Result
        /\ [stage |-> "AuthorityEmit", code |-> "pass"] \in Result
    BY NamesAreStages DEF Result, Code, FaultCode
  <2>2. found # None => found \in Result
    BY SinglesAre DEF Result, Code
  <2> QED BY <1>2, <2>1, <2>2
<1>5. report' \in Seq(Result) /\ Len(report') = 1 /\ DOMAIN report' = {1}
      /\ report'[1] = r
  BY <1>4
<1>6. FailureBlocksTheRest'
  <2> DEFINE failing == CHOOSE i \in DOMAIN report' :
               /\ report'[i].code # "pass"
               /\ \A j \in 1..(i - 1) : report'[j].code = "pass"
  <2> SUFFICES ASSUME ~ Passed(report')
               PROVE  /\ view' = None
                      /\ \A j \in DOMAIN report' :
                           j > failing => report'[j].code # "pass"
                      /\ Len(report') > 1 =>
                           \A k \in (failing + 1)..10 :
                             \E j \in DOMAIN report' :
                               j >= failing /\ report'[j].stage = StageOrder[k]
    BY Zenon DEF FailureBlocksTheRest
  <2>1. report'[1].code # "pass"
    BY <1>5 DEF Passed
  <2> HIDE DEF failing
  <2> QED BY <1>1, <1>5, <2>1
<1>7. PassMeansJudged'
  <2>1. full' => ~ Passed(report')
    BY <1>4, <1>5 DEF Passed
  <2> QED BY <1>1, <2>1 DEF PassMeansJudged
<1>8. faults' \in SUBSET Fault
  BY <1>1 DEF PipelineInvariant
<1> QED BY <1>1, <1>3, <1>5, <1>6, <1>7, <1>8 DEF PipelineInvariant

LEMMA SameKeeps ==
  ASSUME PipelineInvariant, UNCHANGED vars
  PROVE  PipelineInvariant'
<1>1. UNCHANGED <<replayVars, faults, full, phase, report, view>>
  BY DEF vars
<1>2. ReplayInvariant' /\ at' = at /\ strict' = strict
  BY <1>1, ReplaySame DEF PipelineInvariant, replayVars
<1>3. Stages' = Stages
  BY <1>1 DEF Stages
<1>4. FailureBlocksTheRest' = FailureBlocksTheRest
  BY <1>1, <1>2, Zenon DEF FailureBlocksTheRest
<1>5. PassMeansJudged' = PassMeansJudged
  BY <1>1, <1>2, Zenon DEF PassMeansJudged
<1> QED BY <1>1, <1>2, <1>3, <1>4, <1>5 DEF PipelineInvariant

LEMMA StepKeeps == PipelineInvariant /\ [Next]_vars => PipelineInvariant'
<1> SUFFICES ASSUME PipelineInvariant, [Next]_vars PROVE PipelineInvariant'
  OBVIOUS
<1>1. CASE Preflight
  BY <1>1, PreflightKeeps
<1>2. CASE BeginReplay
  BY <1>2, BeginKeeps
<1>3. CASE Replaying
  BY <1>3, ReplayingKeeps
<1>4. CASE EndReplay
  BY <1>4, EndKeeps
<1>5. CASE Raise
  BY <1>5, RaiseEnds
<1>6. CASE Validate
  BY <1>6, ValidateKeeps
<1>7. CASE ValidateSingle
  BY <1>7, SingleKeeps
<1>8. CASE UNCHANGED vars
  BY <1>8, SameKeeps
<1> QED BY <1>1, <1>2, <1>3, <1>4, <1>5, <1>6, <1>7, <1>8 DEF Next, Running

LEMMA InvariantTyped == PipelineInvariant => TypeOK
<1> SUFFICES ASSUME PipelineInvariant PROVE TypeOK
  OBVIOUS
<1>1. /\ bundle \in Bundles /\ bundle \in Bundle /\ strict \in BOOLEAN
      /\ at \in GateName /\ verdict \in {None} \cup Verdict
      /\ (at = "done") = (verdict # None)
  BY BundlesAreTyped DEF PipelineInvariant, ReplayInvariant
<1>2. \A i \in DOMAIN report : report[i].stage \in Stage
  <2>1. \A i \in DOMAIN report : report[i] \in Result
    BY ElementOfSeq, LenProperties DEF PipelineInvariant
  <2> QED BY <2>1 DEF Result
<1>3. ASSUME at \notin {"ledger", "context", "done"}
      PROVE  /\ DOMAIN ctx.values = Value
             /\ ctx.semantics \in {None, "compiled", "embedded", "artifacts"}
  <2>1. ctx = Built(bundle, strict, at)
    BY <1>3 DEF PipelineInvariant, ReplayInvariant
  <2>2. \A c \in {FreshContext(bundle), Joined(bundle, strict),
                  TakeRelations(bundle, Joined(bundle, strict)),
                  Enriched(bundle, strict), Taken(bundle, strict),
                  Certified(bundle, Taken(bundle, strict))} :
          /\ DOMAIN c.values = Value
          /\ c.semantics \in {None, "compiled", "embedded", "artifacts"}
    <3> DEFINE declared == [v \in Value |-> bundle.values[v].declared]
               final == [v \in Value |-> Final(bundle, v)]
    <3>1. DOMAIN declared = Value /\ DOMAIN final = Value
      OBVIOUS
    <3>2. FreshContext(bundle).values = declared
      BY <1>1, BuiltIs, Zenon
    <3>3. Joined(bundle, strict).values = declared
      BY <1>1, BuiltIs, Zenon
    <3>4. TakeRelations(bundle, Joined(bundle, strict)).values = declared
      BY <1>1, BuiltIs, Zenon
    <3>5. Enriched(bundle, strict).values = declared
      BY <1>1, BuiltIs, Zenon
    <3>6. Taken(bundle, strict).values = final
      BY <1>1, BuiltIs, Zenon
    <3>7. Certified(bundle, Taken(bundle, strict)).values = final
      BY <1>1, BuiltIs, Zenon
    <3>8. \A c \in {FreshContext(bundle), Joined(bundle, strict),
                  TakeRelations(bundle, Joined(bundle, strict)),
                  Enriched(bundle, strict), Taken(bundle, strict)} :
            c.semantics = None
      <4>1. FreshContext(bundle).semantics = None
        BY <1>1, BuiltIs, Zenon
      <4>2. Joined(bundle, strict).semantics = None
        BY <1>1, BuiltIs, Zenon
      <4>3. TakeRelations(bundle, Joined(bundle, strict)).semantics = None
        BY <1>1, BuiltIs, Zenon
      <4>4. Enriched(bundle, strict).semantics = None
        BY <1>1, BuiltIs, Zenon
      <4>5. Taken(bundle, strict).semantics = None
        BY <1>1, BuiltIs, Zenon
      <4> QED BY <4>1, <4>2, <4>3, <4>4, <4>5
    <3>9. Certified(bundle, Taken(bundle, strict)).semantics
            \in {"compiled", "embedded", "artifacts"}
      BY DEF Certified, Taken, TakeProofs, Enriched, TakeCompletionSet,
             TakeRelations, Joined, JoinConfluence, FreshContext
    <3> HIDE DEF declared, final
    <3> QED BY <3>1, <3>2, <3>3, <3>4, <3>5, <3>6, <3>7, <3>8, <3>9
  <2>3. Built(bundle, strict, at) \in
          {FreshContext(bundle), Joined(bundle, strict),
           TakeRelations(bundle, Joined(bundle, strict)),
           Enriched(bundle, strict), Taken(bundle, strict),
           Certified(bundle, Taken(bundle, strict))}
    BY <1>1 DEF Built
  <2> QED BY <2>1, <2>2, <2>3
<1> QED BY <1>1, <1>2, <1>3 DEF TypeOK, PipelineInvariant

-----------------------------------------------------------------------------
(* How long a call lasts.                                                  *)

\* The steps a call may still take: the stages, the gates and the report.
Left(p, gate, n) ==
  CASE p = "preflight" -> 29 - n
    [] p = "replay" /\ gate # "done" -> 19 - Rank[gate]
    [] p = "replay" /\ gate = "done" -> 1
    [] OTHER -> 0

StepsLeft == Left(phase, at, Len(report))

Advances == phase \in {"preflight", "replay"} => StepsLeft' \in 0..(StepsLeft - 1)

LEMMA LeftIs ==
  ASSUME NEW p, NEW gate, NEW n
  PROVE  /\ p = "preflight" => Left(p, gate, n) = 29 - n
         /\ p = "replay" /\ gate # "done" => Left(p, gate, n) = 19 - Rank[gate]
         /\ p = "replay" /\ gate = "done" => Left(p, gate, n) = 1
         /\ p \notin {"preflight", "replay"} => Left(p, gate, n) = 0
<1>1. "preflight" # "replay"
  OBVIOUS
<1> QED BY <1>1, Zenon DEF Left

\* A replay step leaves a gate for the next one, or for the end.
LEMMA GateAdvances ==
  ASSUME NEW here \in Passing, NEW next \in Passing, Rank[next] = Rank[here] + 1,
         NEW failure, NEW c, Gate(here, next, failure, c)
  PROVE  /\ at \in Passing
         /\ at' = "done" \/ (at' \in Passing /\ Rank[at'] = Rank[at] + 1)
BY DEF Gate, Stop, Go

LEMMA ReplayAdvances ==
  ASSUME ReplayStep
  PROVE  /\ at \in Passing
         /\ at' = "done" \/ (at' \in Passing /\ Rank[at'] = Rank[at] + 1)
<1> USE NextGate
<1>1. CASE BuildLedger \/ ReadContext \/ CheckLifecycle \/ TakeConfluence
  BY <1>1, GateAdvances DEF BuildLedger, ReadContext, CheckLifecycle,
     TakeConfluence, GateName
<1>2. CASE CheckRelations \/ EnrichRelations \/ EnrichCompletions \/ CheckProofs
  BY <1>2, GateAdvances DEF CheckRelations, EnrichRelations,
     EnrichCompletions, CheckProofs, GateName
<1>3. CASE EnrichProofs \/ CheckClauseSchema \/ CheckContracts \/ CheckClauses
  BY <1>3, GateAdvances DEF EnrichProofs, CheckClauseSchema, CheckContracts,
     CheckClauses, GateName
<1>4. CASE CheckTrust \/ CheckKernelProofs \/ MakeCertificate \/ ReadUse
  BY <1>4, GateAdvances DEF CheckTrust, CheckKernelProofs, MakeCertificate,
     ReadUse, GateName
<1>5. CASE Judge
  BY <1>5 DEF Judge, GateName
<1> QED BY <1>1, <1>2, <1>3, <1>4, <1>5 DEF ReplayStep

LEMMA LeftIsBounded ==
  ASSUME PipelineInvariant
  PROVE  StepsLeft \in 0..29
<1>1. CASE phase = "preflight"
  <2>1. Len(report) \in Nat /\ Len(report) <= Stages /\ Stages \in {6, 10}
    BY <1>1, StagesIs, LenProperties DEF PipelineInvariant
  <2>2. StepsLeft = 29 - Len(report)
    BY <1>1, LeftIs DEF StepsLeft
  <2>3. \A n \in Nat, m \in {6, 10} : n <= m => 29 - n \in 0..29
    OBVIOUS
  <2> QED BY <2>1, <2>2, <2>3
<1>2. CASE phase = "replay"
  <2>1. at # "done" => Rank[at] \in 1..17
    BY Ranks, NextGate DEF PipelineInvariant, ReplayInvariant
  <2>2. StepsLeft = IF at = "done" THEN 1 ELSE 19 - Rank[at]
    BY <1>2, LeftIs DEF StepsLeft
  <2>3. \A k \in 1..17 : 19 - k \in 0..29
    OBVIOUS
  <2> QED BY <2>1, <2>2, <2>3
<1>3. CASE phase \notin {"preflight", "replay"}
  BY <1>3, LeftIs DEF StepsLeft
<1> QED BY <1>1, <1>2, <1>3

LEMMA StepAdvances ==
  ASSUME PipelineInvariant, Next
  PROVE  Advances
<1> SUFFICES ASSUME phase \in {"preflight", "replay"}
             PROVE  StepsLeft' \in 0..(StepsLeft - 1)
  BY DEF Advances
<1>1. CASE Preflight
  <2>1. /\ phase = "preflight" /\ report \in Seq(Result) /\ Len(report) \in Nat
        /\ Len(report) < Stages /\ Stages \in {6, 10}
    BY <1>1, StagesIs, LenProperties DEF Preflight, PipelineInvariant
  <2>2. \/ phase' = "report"
        \/ phase' = "preflight" /\ Len(report') = Len(report) + 1
    <3>1. CASE UNCHANGED phase
               /\ \E r : report' = Append(report, r)
      BY <2>1, <3>1, AppendProperties
    <3>2. CASE phase' = "report"
      BY <3>2
    <3> QED BY <1>1, <3>1, <3>2 DEF Preflight
  <2>3. StepsLeft = 29 - Len(report)
        /\ (phase' = "report" => StepsLeft' = 0)
        /\ (phase' = "preflight" => StepsLeft' = 29 - Len(report'))
    BY <2>1, LeftIs DEF StepsLeft
  <2> QED BY <2>1, <2>2, <2>3
<1>2. CASE BeginReplay
  <2>1. /\ phase = "preflight" /\ Len(report) = Stages /\ Stages \in {6, 10}
        /\ phase' = "report" \/ (phase' = "replay" /\ at' = "ledger")
    BY <1>2, StagesIs DEF BeginReplay, StartReplay, PipelineInvariant
  <2>2. Rank["ledger"] = 1 /\ "ledger" # "done"
    BY Ranks
  <2>3. StepsLeft = 29 - Len(report)
        /\ (phase' = "report" => StepsLeft' = 0)
        /\ (phase' = "replay" /\ at' # "done" => StepsLeft' = 19 - Rank[at'])
    BY <2>1, LeftIs DEF StepsLeft
  <2> QED BY <2>1, <2>2, <2>3
<1>3. CASE Replaying
  <2>1. phase = "replay" /\ phase' = "replay" /\ ReplayStep
    BY <1>3 DEF Replaying
  <2>2. /\ at \in Passing
        /\ at' = "done" \/ (at' \in Passing /\ Rank[at'] = Rank[at] + 1)
    BY <2>1, ReplayAdvances
  <2>3. at # "done" /\ (at' \in Passing => at' # "done")
    BY <2>2 DEF Passing
  <2>4. Rank[at] \in 1..17 /\ (at' \in Passing => Rank[at'] \in 1..17)
    BY <2>2, Ranks
  <2>5. /\ StepsLeft = 19 - Rank[at]
        /\ at' # "done" => StepsLeft' = 19 - Rank[at']
        /\ at' = "done" => StepsLeft' = 1
    BY <2>1, <2>3, LeftIs DEF StepsLeft
  <2> QED BY <2>2, <2>3, <2>4, <2>5
<1>4. CASE EndReplay
  <2>1. phase = "replay" /\ at = "done" /\ phase' = "report"
    BY <1>4 DEF EndReplay
  <2>2. StepsLeft = 1 /\ StepsLeft' = 0
    BY <2>1, LeftIs DEF StepsLeft
  <2> QED BY <2>2
<1>5. CASE Raise
  <2>1. Raised # None
    BY NoneIsNoVerdict DEF Verdict
  <2>2. at = "done" /\ phase = "replay" /\ phase' = "raised"
    BY <1>5, <2>1 DEF Raise, PipelineInvariant, ReplayInvariant
  <2>3. StepsLeft = 1 /\ StepsLeft' = 0
    BY <2>2, LeftIs DEF StepsLeft
  <2> QED BY <2>3
<1>6. CASE Validate \/ ValidateSingle
  BY <1>6 DEF Validate, ValidateSingle
<1> QED BY <1>1, <1>2, <1>3, <1>4, <1>5, <1>6 DEF Next, Running

-----------------------------------------------------------------------------
(* The theorems.                                                           *)

\* For every bundle, every set of faults and every judgement, the state of
\* the pipeline keeps its types, and the invariant above holds.
THEOREM PipelineTypeCorrect == Spec => []TypeOK
<1>1. Init => PipelineInvariant
  BY InitHolds
<1>2. PipelineInvariant /\ [Next]_vars => PipelineInvariant'
  BY StepKeeps
<1>3. PipelineInvariant => TypeOK
  BY InvariantTyped
<1> QED BY <1>1, <1>2, <1>3, PTL DEF Spec

LEMMA AlwaysInvariant == Spec => []PipelineInvariant
<1> QED BY InitHolds, StepKeeps, PTL DEF Spec

\* A strict replay comes to the judgement for the sound bundles and for no
\* others.
THEOREM GatesOpenForTheSound == Spec => OpensForTheSound
<1>1. PipelineInvariant /\ [Next]_vars => [EndTells]_vars
  <2> SUFFICES ASSUME PipelineInvariant, Next, ~ EndTells PROVE FALSE
    OBVIOUS
  <2>1. ~ (at' = at) /\ at' = "done"
    BY DEF EndTells
  <2>2. Replaying
    BY <2>1 DEF Next, Running, Preflight, BeginReplay, StartReplay, EndReplay,
       Raise, Validate, ValidateSingle, replayVars
  <2> QED BY <2>2, ReplayKeeps DEF Replaying, PipelineInvariant
<1> QED BY <1>1, AlwaysInvariant, PTL DEF Spec, OpensForTheSound, EndTells

\* What a strict replay judges is what proofs and artifacts say.
THEOREM OnlyProvedIsJudged == Spec => []JudgedIsProved
<1>1. PipelineInvariant => JudgedIsProved
  BY JudgedProved DEF PipelineInvariant
<1> QED BY <1>1, AlwaysInvariant, PTL

\* A call that fails before its replay reports nothing as passed behind the
\* first failure.
THEOREM FirstFailureBlocks == Spec => []FailureBlocksTheRest
<1>1. PipelineInvariant => FailureBlocksTheRest
  BY DEF PipelineInvariant
<1> QED BY <1>1, AlwaysInvariant, PTL

\* The report of a full replay passes exactly with a view without defects.
THEOREM ReportTellsTheView == Spec => []PassMeansJudged
<1>1. PipelineInvariant => PassMeansJudged
  BY DEF PipelineInvariant
<1> QED BY <1>1, AlwaysInvariant, PTL

\* A call is over after at most twenty-nine steps, whatever the bundle: the ten
\* stages, the start of the replay, its seventeen gates and the report; each
\* step takes one, none is repeated, and no other call comes between
\* (validate_pipeline, replay_authority_from_bundle).  It is the safe half of
\* Answered, which says besides that the next step is taken.
THEOREM CallsAreBounded ==
  Spec => [](StepsLeft \in 0..29) /\ [][Advances]_vars
<1>1. PipelineInvariant => StepsLeft \in 0..29
  BY LeftIsBounded
<1>2. PipelineInvariant /\ [Next]_vars => [Advances]_vars
  BY StepAdvances
<1> QED BY <1>1, <1>2, AlwaysInvariant, PTL DEF Spec
=============================================================================

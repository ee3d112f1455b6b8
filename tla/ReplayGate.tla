----------------------------- MODULE ReplayGate -----------------------------
(***************************************************************************)
(* dfcc.replay.replay_authority_from_bundle: the gates a bundle passes     *)
(* before its authority is judged.  Some gates check what the bundle says, *)
(* others write into the status context what the bundle's artifacts say;   *)
(* which comes first decides what the checks see.  A strict replay runs    *)
(* every check, a lenient one only those marked so here.                   *)
(*                                                                         *)
(* A bundle is what the gates can tell of it, one field for each thing     *)
(* they look at; its records are taken to parse (their from_json raises    *)
(* otherwise).  The judgement, _check_authority_core, is the module        *)
(* AuthorityCheck; here it gives any view, fails or raises.                *)
(***************************************************************************)
EXTENDS Naturals, Sequences

CONSTANTS
  None,
  Bundles,        \* the bundles that may be replayed
  Answers,        \* the values an operational proof may give
  Blocks          \* the blocking records the judgement may give

\* A reference to a proof: how it fails, or that it is good.
Proof == {"none", "symbolic", "unresolved", "rejected", "unpurposed",
          "silent", "other", "good"}

Value == {"prefix_adjudication", "target_adjudication", "adequacy_direction",
          "frame_adequacy"}

-----------------------------------------------------------------------------
(* The long checks go through a list, and the first that fails is the      *)
(* answer.  What is wrong with an artifact is a set of flaws.              *)

Check(name, stage, codes) == [name |-> name, stage |-> stage, codes |-> codes]

Flaws(checks) ==
  UNION {[check : {checks[i].name}, code : checks[i].codes] :
           i \in DOMAIN checks}

\* what _ledger_ref_problem says of a reference that is not good
RefProblem == {"missing_ref", "artifact_conflict"}
DigestProblem == RefProblem \cup {"digest_mismatch"}
ProofProblem == {"checker_unknown", "missing_ref", "trace_conflict"}

\* _resolve_ledger_ref, for the first reference that has a flaw: is there an
\* artifact, is it as referred to, and does it stand?
AbsenceChecks ==
  <<Check("embedded_source", "AuthorityEmit", {"missing_ref"}),
    Check("unresolved", "AuthorityEmit", {"missing_ref"})>>

TargetArtifactChecks ==
  <<Check("pointer", "ReferenceResolve", {"artifact_conflict", "missing_ref"}),
    Check("digest", "AuthorityEmit", {"digest_mismatch"}),
    Check("role", "AuthorityEmit", {"artifact_conflict"})>>

ScopeChecks ==
  LET emit(name) == Check(name, "AuthorityEmit", {"checker_unknown"}) IN
  <<emit("obligation_scope"), emit("waiver_reason"), emit("proof_status"),
    emit("transcript_status")>>

\* build_reference_ledger
LedgerChecks ==
  <<Check("artifact", "AuthorityEmit", {"artifact_conflict"})>>
  \o AbsenceChecks \o TargetArtifactChecks \o ScopeChecks

EventChecks ==
  LET emit(name, codes) == Check(name, "AuthorityEmit", codes) IN
  <<emit("signature_policy", {"missing_ref"}),
    emit("manifest_digest", {"checker_unknown"}),
    emit("confluence_proof_ref", ProofProblem),
    emit("signature_verifier_result_ref", ProofProblem),
    emit("log_root_ref", ProofProblem),
    emit("causal_cut_ref", ProofProblem),
    emit("trace_class_ref", ProofProblem),
    emit("event_manifest_ref", ProofProblem \cup {"digest_mismatch"}),
    emit("manifest_digest_ref", ProofProblem \cup {"digest_mismatch"})>>

\* admission_contract_result
ContractChecks ==
  LET guard(name, codes) == Check(name, "GuardEvaluate", codes) IN
  <<Check("required_field", "SchemaValidate", {"schema_invalid"}),
    guard("transcript_label", {"checker_unknown"}),
    guard("transcript", RefProblem),
    guard("no_obligations", {"missing_ref"}),
    guard("obligation_label", {"checker_unknown"}),
    guard("obligation", RefProblem),
    guard("obligation_scope", {"validity_unknown", "checker_unknown"}),
    guard("no_monitor", {"validity_unknown"}),
    guard("monitor_label", {"checker_unknown"}),
    guard("monitor", RefProblem)>>

\* accepted_clause_obligation_record_result
ObligationRecordChecks ==
  LET guard(name, codes) == Check(name, "GuardEvaluate", codes) IN
  <<guard("record_array", {"schema_invalid"}),
    guard("no_records", {"missing_ref"}),
    guard("record_typed", {"schema_invalid"}),
    guard("record_scope", {"validity_unknown"}),
    guard("record_source", {"missing_ref"}),
    guard("record", DigestProblem),
    guard("waiver_reason", RefProblem)>>

\* accepted_clause_reason_record_result
ReasonRecordChecks ==
  LET guard(name, codes) == Check(name, "GuardEvaluate", codes) IN
  <<guard("reason_array", {"schema_invalid"}),
    guard("no_reasons", {"missing_ref"}),
    guard("reason_typed", {"schema_invalid"}),
    guard("reason_source", {"missing_ref"}),
    guard("reason", DigestProblem)>>

\* _accepted_clause_provenance_failure
ProvenanceChecks ==
  LET guard(name, codes) == Check(name, "GuardEvaluate", codes) IN
  <<guard("contract_payload", {"missing_ref"}),
    guard("evidence_payload", {"missing_ref"}),
    guard("payload_typed", {"schema_invalid"}),
    guard("contract_target", {"artifact_conflict"}),
    guard("contract_clause", {"artifact_conflict"}),
    guard("contract_transcript", {"artifact_conflict"}),
    guard("evidence_identity", {"artifact_conflict"}),
    guard("reference_digest", {"digest_mismatch"})>>

\* _direct_accepted_clause_failure
ClauseChecks ==
  LET guard(name, codes) == Check(name, "GuardEvaluate", codes) IN
  <<guard("validity_status", {"validity_unknown"}),
    guard("monitor_status", {"validity_unknown"}),
    guard("no_monitor", {"validity_unknown"}),
    guard("monitor", RefProblem)>>
  \o ObligationRecordChecks \o ReasonRecordChecks
  \o <<guard("evidence_ref", RefProblem), guard("contract_ref", RefProblem),
       guard("checker_transcript_ref", RefProblem)>>
  \o ProvenanceChecks
  \o <<guard("no_obligations", {"missing_ref"}),
       guard("obligation_label", {"checker_unknown"}),
       guard("obligation", RefProblem),
       guard("reason_label", {"checker_unknown"})>>

\* trust_assumption_result
TrustChecks ==
  LET guard(name, codes) == Check(name, "GuardEvaluate", codes) IN
  <<guard("transcript_label", {"checker_unknown"}),
    guard("transcript", RefProblem),
    guard("record_array", {"schema_invalid"}),
    guard("no_records", {"missing_ref"}),
    guard("record_typed", {"schema_invalid"}),
    guard("record_source", {"missing_ref"}),
    guard("record", DigestProblem),
    guard("no_reasons", {"missing_ref"}),
    guard("reason_label", {"checker_unknown"}),
    guard("reason", RefProblem),
    guard("no_obligations", {"missing_ref"}),
    guard("obligation_label", {"checker_unknown"}),
    guard("obligation", RefProblem),
    guard("obligation_scope", {"validity_unknown", "checker_unknown"})>>

\* _kernel_proof_target_failure
TargetChecks ==
  LET kernel(name, codes) == Check(name, "KernelCheck", codes) IN
  <<kernel("target_label", {"checker_unknown"}),
    kernel("target", {"missing_ref"}),
    kernel("target_object", {"checker_unknown"}),
    kernel("target_status", {"checker_unknown"}),
    kernel("target_kind", {"artifact_conflict"}),
    kernel("target_field_absent", {"checker_unknown"}),
    kernel("target_field", {"artifact_conflict"})>>

\* _kernel_proof_failure
KernelChecks ==
  LET kernel(name, codes) == Check(name, "KernelCheck", codes) IN
  <<kernel("proof_status", {"checker_unknown"}),
    kernel("no_transcript", {"missing_ref"}),
    kernel("transcript", {"missing_ref"}),
    kernel("proof_ref", {"missing_ref"})>> \o TargetChecks

\* What admit_evidence asks of a contract and its evidence.
AdmissionAsks ==
  {"evidence_present", "evidence_identity", "checker_status", "transcript_bound",
   "reference_digest", "validity", "expiry_rule", "monitor"}

Relation ==
  [typed : BOOLEAN, accepted : BOOLEAN, proof : Proof, bound : BOOLEAN]

Said ==
  [declared : {None} \cup Answers,
   proof : {None} \cup [accepted : BOOLEAN, value : {None, "bogus"} \cup Answers]]

\* The claim, base bundle, anchor and time basis: how they stand to the issued
\* certificate, or the first thing that keeps a claim from being certified:
\* it is not canonical, its horizon is not the anchor's, or something of the
\* four does not compile, which is an exception.
Sources ==
  {"agree", "differ", "absent", "uncanonical", "mismatched", "uncompilable"}

Bundle ==
  [ledger : SUBSET Flaws(LedgerChecks),
   context : BOOLEAN,              \* there is a status context
   confluence : {None} \cup Proof, \* the proof the context names
   event : {None} \cup [confluence : BOOLEAN,  \* it names a proof
                        flaws : SUBSET Flaws(EventChecks)],
   measurement : {None} \cup Relation,
   representation : {None} \cup Relation,
   completion : [status : {"pass", "unknown"}, named : BOOLEAN,
                 proof : Proof, members : BOOLEAN],
   values : [Value -> Said],
   clause : {None} \cup [schema : BOOLEAN, target : BOOLEAN,
                         flaws : SUBSET Flaws(ClauseChecks)],
   contract : {None} \cup [target : BOOLEAN, refused : SUBSET AdmissionAsks,
                           flaws : SUBSET Flaws(ContractChecks)],
   compiles : BOOLEAN,             \* the accepted clauses compile
   trust : {None} \cup [flaws : SUBSET Flaws(TrustChecks)],
   kernelProof : {None} \cup [flaws : SUBSET Flaws(KernelChecks)],
   certificate : {"issued", "claims"},
   sources : Sources,
   use : BOOLEAN]                  \* there is a proposed use

\* A certificate that was issued is not certified again.
ASSUME BundlesAreTyped ==
  Bundles \subseteq {b \in Bundle : b.certificate = "issued" =>
                      b.sources \in {"agree", "differ", "absent"}}

ASSUME NoneIsNoWord == None \notin Proof \cup {"bogus"}

ASSUME AnswersAreValues == {None, "bogus"} \cap Answers = {}

-----------------------------------------------------------------------------
VARIABLES
  bundle,         \* the bundle being replayed
  strict,         \* strict_ledger
  at,             \* the gate the replay has reached
  ctx,            \* the status context and the certificate as built so far
  verdict         \* None, a failure, a view, or Raised

replayVars == <<bundle, strict, at, ctx, verdict>>

Failed(stage, code) == [kind |-> "failure", stage |-> stage, code |-> code]

Raised == [kind |-> "raised"]

Verdict ==
  [kind : {"failure"},
   stage : {"Canonicalize", "SchemaValidate", "ReferenceResolve",
            "GuardEvaluate", "KernelCheck", "AuthorityEmit"},
   code : {"missing_ref", "artifact_conflict", "digest_mismatch",
           "checker_unknown", "schema_invalid", "trace_conflict",
           "validity_unknown", "completion_missing",
           "canonicalization_mismatch"}]
  \cup [kind : {"view"}, blocks : SUBSET Blocks, guardFailed : BOOLEAN]
  \cup {Raised}

ASSUME NoneIsNoVerdict == None \notin Verdict

GateName ==
  {"ledger", "context", "lifecycle", "confluence", "relation_check",
   "relations", "completion_set", "proof_check", "proofs", "clause_schema",
   "contracts", "clauses", "trust", "kernel_proof", "certificate", "use",
   "judge", "done"}

-----------------------------------------------------------------------------
(* What each check finds: None or a failure.                               *)

ContextFailure(b) ==
  IF b.context THEN None ELSE Failed("AuthorityEmit", "missing_ref")

\* what a bad proof is reported as
ProofCode(p) ==
  CASE p \in {"none", "unresolved"} -> "missing_ref"
    [] p = "other" -> "artifact_conflict"
    [] OTHER -> "checker_unknown"

\* A confluence proof that commits to a log root is "other".
ConfluenceFailure(p) ==
  CASE p \in {None, "good"} -> None
    [] p \in {"none", "unresolved"} -> Failed("AuthorityEmit", "missing_ref")
    [] p = "other" -> Failed("AuthorityEmit", "trace_conflict")
    [] OTHER -> Failed("AuthorityEmit", "checker_unknown")

\* The first check of the list that has a flaw.
FirstFailure(checks, flaws) ==
  LET failing == {i \in DOMAIN checks :
                    \E f \in flaws : f.check = checks[i].name}
      first == CHOOSE i \in failing : \A j \in failing : i <= j
  IN IF failing = {} THEN None
     ELSE Failed(checks[first].stage,
                 (CHOOSE f \in flaws : f.check = checks[first].name).code)

FailureOf(x, checks) == IF x = None THEN None ELSE FirstFailure(checks, x.flaws)

\* A lenient replay only needs the artifacts to be what their references say.
LedgerFailure(b, s) ==
  FirstFailure(IF s THEN LedgerChecks ELSE <<LedgerChecks[1]>>, b.ledger)

LifecycleFailure(b) ==
  IF ConfluenceFailure(b.confluence) # None THEN ConfluenceFailure(b.confluence)
  ELSE FailureOf(b.event, EventChecks)

\* Only an artifact with the role or type of a relation is looked at.  A
\* representation with the proof "none" has no relation records.
RelationFailure(r) ==
  CASE r = None -> None
    [] r # None /\ ~ r.typed -> None
    [] r # None /\ r.typed /\ ~ r.accepted ->
         Failed("GuardEvaluate", "checker_unknown")
    [] r # None /\ r.typed /\ r.accepted /\ r.proof # "good" ->
         Failed("GuardEvaluate", ProofCode(r.proof))
    [] OTHER -> None

\* The measurement's own references must be bound to artifacts too.
MeasurementFailure(m) ==
  CASE m = None -> None
    [] m # None /\ RelationFailure(m) # None -> RelationFailure(m)
    [] m # None /\ RelationFailure(m) = None /\ m.typed /\ ~ m.bound ->
         Failed("GuardEvaluate", "checker_unknown")
    [] OTHER -> None

RelationsFailure(b) ==
  IF MeasurementFailure(b.measurement) # None
  THEN MeasurementFailure(b.measurement)
  ELSE RelationFailure(b.representation)

CompletionFailure(b) ==
  CASE b.completion.status # "pass" -> None
    [] b.completion.status = "pass" /\ ~ b.completion.named ->
         Failed("GuardEvaluate", "completion_missing")
    [] b.completion.status = "pass" /\ b.completion.named
       /\ b.completion.proof # "good" ->
         Failed("GuardEvaluate", ProofCode(b.completion.proof))
    [] OTHER -> None

\* The value of an accepted proof, or None.
ProofValue(p) == IF p = None THEN None
                 ELSE IF p.accepted THEN p.value ELSE None

\* A variant: the declaration is not compared with the proof.
ValueFailure_undeclared(proof, declared) ==
  CASE proof = None -> None
    [] proof # None /\ ProofValue(proof) = None ->
         Failed("GuardEvaluate", "checker_unknown")
    [] OTHER -> None

ValueFailure(proof, declared) ==
  CASE proof = None -> None
    [] proof # None /\ ProofValue(proof) = None ->
         Failed("GuardEvaluate", "checker_unknown")
    [] proof # None /\ ProofValue(proof) = "bogus" ->
         Failed("GuardEvaluate", "schema_invalid")
    [] /\ proof # None /\ ProofValue(proof) \notin {None, "bogus"}
       /\ declared \notin {None, ProofValue(proof)} ->
         Failed("GuardEvaluate", "artifact_conflict")
    [] OTHER -> None

ValueOrder == <<"prefix_adjudication", "target_adjudication",
                "adequacy_direction", "frame_adequacy">>

\* The first that fails; the declarations are those of the context.
ValuesFailure(b, c) ==
  LET fails(v) == ValueFailure(b.values[v].proof, c.values[v]) # None IN
  IF \E i \in DOMAIN ValueOrder : fails(ValueOrder[i])
  THEN LET i == CHOOSE i \in DOMAIN ValueOrder :
                  /\ fails(ValueOrder[i])
                  /\ \A j \in DOMAIN ValueOrder :
                       fails(ValueOrder[j]) => i <= j
       IN ValueFailure(b.values[ValueOrder[i]].proof, c.values[ValueOrder[i]])
  ELSE None

ProofsFailure(b, c) ==
  IF CompletionFailure(b) # None THEN CompletionFailure(b)
  ELSE ValuesFailure(b, c)

ClauseSchemaFailure(b) ==
  IF b.clause = None THEN None
  ELSE IF b.clause.schema THEN None
  ELSE Failed("SchemaValidate", "schema_invalid")

\* the direct clauses, and those the contracts admit
Clauses(b) ==
  (IF b.clause = None THEN {} ELSE {b.clause.target})
  \cup (IF b.contract = None THEN {}
        ELSE IF b.contract.refused = {} THEN {b.contract.target} ELSE {})

HasClauses(b) == Clauses(b) # {}

\* What validate_pipeline says of a record that is not canonical, and of one
\* that does not have the form it should.
Uncanonical == Failed("Canonicalize", "canonicalization_mismatch")
Malformed == Failed("SchemaValidate", "schema_invalid")

\* Without a certificate the claim is certified here.
CertifyFailure(b) ==
  CASE b.sources = "absent" -> Failed("AuthorityEmit", "missing_ref")
    [] b.sources = "uncanonical" -> Uncanonical
    [] b.sources = "mismatched" -> Malformed
    [] b.sources = "uncompilable" -> Raised
    [] OTHER -> None

\* With one, a strict replay wants its embedded sources as artifacts too.
IssuedFailure(b, s) ==
  CASE s /\ b.sources = "differ" -> Failed("AuthorityEmit", "artifact_conflict")
    [] s /\ b.sources = "absent" -> Failed("AuthorityEmit", "missing_ref")
    [] OTHER -> None

SourceFailure(b, s) ==
  IF b.certificate = "claims" THEN CertifyFailure(b) ELSE IssuedFailure(b, s)

\* Every accepted clause must be meant for this bundle; clauses that do not
\* compile are an exception.
TargetFailure(b) ==
  CASE FALSE \in Clauses(b) -> Failed("GuardEvaluate", "artifact_conflict")
    [] FALSE \notin Clauses(b) /\ HasClauses(b) /\ ~ b.compiles -> Raised
    [] OTHER -> None

\* How making the certificate ends the replay: a failure, Raised, or None.
CertificateFailure(b, s) ==
  IF SourceFailure(b, s) # None THEN SourceFailure(b, s) ELSE TargetFailure(b)

UseFailure(b) == IF b.use THEN None ELSE Failed("AuthorityEmit", "missing_ref")

-----------------------------------------------------------------------------
(* What the other gates write.                                             *)

FreshContext(b) ==
  [confluence |-> "context", measurement |-> "record",
   representation |-> "record", completions |-> "record",
   values |-> [v \in Value |-> b.values[v].declared],
   semantics |-> None, trusted |-> FALSE]

JoinConfluence(b, c) ==
  IF b.confluence # None \/ b.event = None THEN c
  ELSE IF b.event.confluence THEN [c EXCEPT !.confluence = "event"] ELSE c

\* The references of the record are followed whatever the artifact's role.
TakeRelations(b, c) ==
  [c EXCEPT !.measurement = IF b.measurement = None THEN @
                            ELSE IF b.measurement.accepted THEN "accepted"
                            ELSE "refused",
            !.representation =
              IF b.representation = None THEN @
              ELSE IF b.representation.proof = "none" THEN @ ELSE "taken"]

TakeCompletionSet(b, c) ==
  IF b.completion.members THEN [c EXCEPT !.completions = "set"] ELSE c

TakeProofs(b, c) ==
  [c EXCEPT !.values = [v \in Value |->
      IF ProofValue(b.values[v].proof) # None
      THEN ProofValue(b.values[v].proof) ELSE c.values[v]]]

\* The accepted clauses replace the certificate's semantics; trust
\* assumptions count only where there is no accepted clause.
Certified(b, c) ==
  [c EXCEPT !.semantics = IF HasClauses(b) THEN "compiled"
                          ELSE IF b.sources = "absent" THEN "embedded"
                          ELSE "artifacts",
            !.trusted = ~ HasClauses(b) /\ b.trust # None]

-----------------------------------------------------------------------------
(* The gates.                                                              *)

\* A variant: the replay goes on.
Stop_on(f) ==
  /\ verdict' = f
  /\ UNCHANGED <<bundle, strict, at, ctx>>

Stop(f) ==
  /\ verdict' = f
  /\ at' = "done"
  /\ UNCHANGED <<bundle, strict, ctx>>

Go(next, c) ==
  /\ at' = next
  /\ ctx' = c
  /\ UNCHANGED <<bundle, strict, verdict>>

Gate(here, next, failure, c) ==
  /\ at = here
  /\ IF failure # None THEN Stop(failure) ELSE Go(next, c)

Strictly(failure) == IF strict THEN failure ELSE None

BuildLedger == Gate("ledger", "context", LedgerFailure(bundle, strict), ctx)

ReadContext ==
  Gate("context", "lifecycle", ContextFailure(bundle), FreshContext(bundle))

CheckLifecycle ==
  Gate("lifecycle", "confluence", Strictly(LifecycleFailure(bundle)), ctx)

TakeConfluence ==
  Gate("confluence", "relation_check", None,
       IF strict THEN JoinConfluence(bundle, ctx) ELSE ctx)

CheckRelations ==
  Gate("relation_check", "relations", Strictly(RelationsFailure(bundle)), ctx)

EnrichRelations ==
  Gate("relations", "completion_set", None, TakeRelations(bundle, ctx))

\* A variant: what the proofs say is taken before it is compared.
EnrichCompletions_proofs ==
  Gate("completion_set", "proof_check", None,
       TakeProofs(bundle, TakeCompletionSet(bundle, ctx)))

EnrichCompletions ==
  Gate("completion_set", "proof_check", None, TakeCompletionSet(bundle, ctx))

CheckProofs ==
  Gate("proof_check", "proofs", Strictly(ProofsFailure(bundle, ctx)), ctx)

EnrichProofs == Gate("proofs", "clause_schema", None, TakeProofs(bundle, ctx))

CheckClauseSchema ==
  Gate("clause_schema", "contracts", ClauseSchemaFailure(bundle), ctx)

CheckContracts ==
  Gate("contracts", "clauses",
       Strictly(FailureOf(bundle.contract, ContractChecks)), ctx)

CheckClauses ==
  Gate("clauses", "trust",
       Strictly(FailureOf(bundle.clause, ClauseChecks)), ctx)

CheckTrust ==
  Gate("trust", "kernel_proof",
       Strictly(FailureOf(bundle.trust, TrustChecks)), ctx)

CheckKernelProofs ==
  Gate("kernel_proof", "certificate",
       Strictly(FailureOf(bundle.kernelProof, KernelChecks)), ctx)

MakeCertificate ==
  Gate("certificate", "use", CertificateFailure(bundle, strict),
       Certified(bundle, ctx))

ReadUse == Gate("use", "judge", UseFailure(bundle), ctx)

\* It fails if the certificate, or the view made of it, has a profile that is
\* not canonical or not what its schema says; it raises if the certificate's
\* sources do not compile, or if the prefix view it was given is not enclosed.
Judge ==
  /\ at = "judge"
  /\ \/ \E blocks \in SUBSET Blocks, guardFailed \in BOOLEAN :
          verdict' = [kind |-> "view", blocks |-> blocks,
                      guardFailed |-> guardFailed]
     \/ verdict' \in {Uncanonical, Malformed, Raised}
  /\ at' = "done"
  /\ UNCHANGED <<bundle, strict, ctx>>

ReplayStep ==
  \/ BuildLedger \/ ReadContext \/ CheckLifecycle \/ TakeConfluence
  \/ CheckRelations \/ EnrichRelations \/ EnrichCompletions
  \/ CheckProofs \/ EnrichProofs
  \/ CheckClauseSchema \/ CheckContracts \/ CheckClauses
  \/ CheckTrust \/ CheckKernelProofs \/ MakeCertificate \/ ReadUse
  \/ Judge

StartReplay(b, s) ==
  /\ bundle' = b
  /\ strict' = s
  /\ at' = "ledger"
  /\ ctx' = None
  /\ verdict' = None

HasView == verdict # None /\ verdict.kind = "view"
=============================================================================

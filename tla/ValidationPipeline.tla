------------------------- MODULE ValidationPipeline -------------------------
(***************************************************************************)
(* dfcc.validation.validate_artifact_bundle and validate_pipeline: the     *)
(* stages of validation, the first failing one blocking those behind it,   *)
(* then the replay of the bundle's authority, and the report of it all.    *)
(* One program runs one call after another; the environment chooses the    *)
(* bundles.                                                                *)
(***************************************************************************)
EXTENDS ReplayGate

CONSTANTS
  PreflightFaults,  \* what may be wrong with a bundle before its replay
  SingleFaults      \* what may be wrong with a single artifact

VARIABLES
  faults,         \* what is wrong with the bundle
  full,           \* full_replay
  phase,          \* "idle", "preflight", "replay" or "report"
  report,         \* the stage results, in order
  view            \* the authority view of the report, or None

vars == <<replayVars, faults, full, phase, report, view>>

StageOrder == <<"Parse", "Canonicalize", "SchemaValidate", "DigestCheck",
                "ReferenceResolve", "ProfileResolve", "Replay",
                "GuardEvaluate", "KernelCheck", "AuthorityEmit">>

Stage == {StageOrder[i] : i \in 1..10}

Index(stage) == CHOOSE i \in 1..10 : StageOrder[i] = stage

\* A fault is found by the stage "at" and reported under a label, which is
\* another stage's for some faults.
Finds(stage, label, codes) ==
  [at : {stage}, label : {label}, code : codes, needs : {"any"}]

OnlyIn(calls, finds) == {[f EXCEPT !.needs = calls] : f \in finds}

ParseFinds ==
  Finds("Parse", "Parse", {"schema_invalid", "artifact_conflict", "missing_ref"})

CanonicalizeFinds ==
  Finds("Canonicalize", "Canonicalize", {"canonicalization_mismatch"})

SchemaFinds == Finds("SchemaValidate", "SchemaValidate", {"schema_invalid"})

\* _validate_wire_artifact: scalars, intervals and timestamps
WireFinds ==
  Finds("SchemaValidate", "SchemaValidate",
        {"schema_invalid", "clock_boundary_unknown"})

\* validate_artifact_ref
ArtifactRefFinds ==
  Finds("DigestCheck", "DigestCheck",
        {"unsupported_profile", "artifact_conflict", "digest_mismatch",
         "missing_ref"})
  \cup Finds("DigestCheck", "Canonicalize", {"canonicalization_mismatch"})
  \cup Finds("DigestCheck", "ReferenceResolve", {"artifact_conflict"})
  \cup Finds("DigestCheck", "SchemaValidate", {"schema_invalid"})

SetRefFinds ==
  Finds("DigestCheck", "DigestCheck", {"schema_invalid", "digest_mismatch"})
  \cup Finds("DigestCheck", "ReferenceResolve", {"missing_ref"})

\* validate_manifest_dependencies, _validate_manifest_digest
ManifestFinds ==
  Finds("DigestCheck", "DigestCheck",
        {"missing_ref", "artifact_conflict", "digest_mismatch"})
  \cup OnlyIn("full", Finds("DigestCheck", "DigestCheck", {"missing_ref"}))

ReferenceFinds ==
  Finds("ReferenceResolve", "ReferenceResolve",
        {"artifact_conflict", "missing_ref"})

ProfileFinds ==
  Finds("ProfileResolve", "ProfileResolve", {"unsupported_profile"})

\* The checker reports what it does not know under GuardEvaluate.
ReplayFinds ==
  OnlyIn("shallow", Finds("Replay", "Replay", {"schema_invalid", "trace_conflict"})
                    \cup Finds("Replay", "GuardEvaluate", {"checker_unknown"}))

GuardFinds ==
  OnlyIn("shallow", Finds("GuardEvaluate", "GuardEvaluate",
         {"schema_invalid", "checker_unknown", "artifact_conflict"}))

KernelFinds ==
  OnlyIn("shallow", Finds("KernelCheck", "KernelCheck",
         {"schema_invalid", "missing_ref", "checker_unknown"}))

AuthorityFinds ==
  OnlyIn("shallow", Finds("AuthorityEmit", "AuthorityEmit",
           {"schema_invalid", "missing_ref", "artifact_conflict", "policy_block",
            "validity_unknown", "checker_unknown"})
         \cup Finds("AuthorityEmit", "GuardEvaluate", {"checker_unknown"}))

PreflightFault ==
  ParseFinds \cup CanonicalizeFinds \cup SchemaFinds \cup WireFinds
  \cup ArtifactRefFinds \cup SetRefFinds \cup ManifestFinds
  \cup ReferenceFinds \cup ProfileFinds
  \cup ReplayFinds \cup GuardFinds \cup KernelFinds \cup AuthorityFinds

\* What may be found of a single artifact: _field_presence, and for its
\* references _validate_artifacts, _validate_wire_records, _resolve_references
SingleFinds ==
  Finds("Parse", "Parse", {"schema_invalid"})
  \cup Finds("DigestCheck", "DigestCheck", {"missing_ref", "artifact_conflict"})
  \cup CanonicalizeFinds \cup SchemaFinds \cup WireFinds
  \cup ArtifactRefFinds \cup SetRefFinds \cup ReferenceFinds \cup ProfileFinds

ASSUME FaultsAreTyped == PreflightFaults \subseteq SUBSET PreflightFault

ASSUME SinglesAreFaults ==
  SingleFaults \subseteq {[stage |-> f.label, code |-> f.code] : f \in SingleFinds}

Passed(results) == \A i \in DOMAIN results : results[i].code = "pass"

-----------------------------------------------------------------------------
(* The stages before the replay.                                           *)

\* The stages of this call: with full replay the last four are replayed.
Stages == IF full THEN 6 ELSE 10

Found(stage) ==
  {f \in faults : f.at = stage
                  /\ f.needs \in {"any", IF full THEN "full" ELSE "shallow"}}

\* A variant: none is blocked.
Blocked_none(stage, label) == <<>>

\* _append_blocked_stages counts from the label of the failing result; it is
\* not called for the last stage.
Blocked(stage, label) ==
  IF stage = "AuthorityEmit" THEN <<>>
  ELSE [i \in 1..(10 - Index(label)) |->
          [stage |-> StageOrder[Index(label) + i], code |-> "blocked"]]

\* Each stage gives one result; the first failure ends them.
Preflight ==
  LET stage == StageOrder[Len(report) + 1] IN
  /\ phase = "preflight"
  /\ Len(report) < Stages
  /\ \/ /\ Found(stage) = {}
        /\ report' = Append(report, [stage |-> stage, code |-> "pass"])
        /\ UNCHANGED phase
     \/ \E f \in Found(stage) :
          /\ report' = Append(report, [stage |-> f.label, code |-> f.code])
                       \o Blocked(stage, f.label)
          /\ phase' = "report"
  /\ UNCHANGED <<replayVars, faults, full, view>>

\* Without full replay, only a bundle with all three inputs is replayed.
ShouldReplay ==
  full \/ (bundle.certificate = "issued" /\ bundle.use /\ bundle.context)

BeginReplay ==
  /\ phase = "preflight"
  /\ Len(report) = Stages
  /\ IF ShouldReplay
     THEN StartReplay(bundle, full) /\ phase' = "replay"
     ELSE UNCHANGED replayVars /\ phase' = "report"
  /\ UNCHANGED <<faults, full, report, view>>

Replaying ==
  /\ phase = "replay"
  /\ ReplayStep
  /\ UNCHANGED <<faults, full, phase, report, view>>

-----------------------------------------------------------------------------
(* The report.                                                             *)

DefectCode == {"artifact_conflict", "canonicalization_mismatch",
               "checker_unknown", "digest_mismatch", "missing_ref",
               "schema_invalid", "trace_conflict", "unsupported_profile",
               "validity_conflict"}

\* A variant: the last stage is judged by the operational blocks only.
StageBlocks_layers(stage, v) ==
  CASE stage = "Replay" -> {b \in v.blocks : b.layer = "status"}
    [] stage = "GuardEvaluate" -> {b \in v.blocks : b.layer = "operational"}
    [] stage = "KernelCheck" -> {b \in v.blocks : b.layer = "represented"}
    [] OTHER -> {b \in v.blocks : b.layer = "operational"}

\* the blocks a replayed stage is judged by
StageBlocks(stage, v) ==
  CASE stage = "Replay" -> {b \in v.blocks : b.layer = "status"}
    [] stage = "GuardEvaluate" ->
         {b \in v.blocks : \/ b.layer = "operational"
                           \/ v.guardFailed /\ b.layer = "validation"}
    [] stage = "KernelCheck" -> {b \in v.blocks : b.layer = "represented"}
    [] OTHER -> v.blocks

StageCode(stage, v) ==
  LET defects == {b.code : b \in StageBlocks(stage, v)} \cap DefectCode IN
  IF defects = {} THEN "pass" ELSE CHOOSE c \in defects : TRUE

\* The trace of a replay with a view has its four stages, that of a failure
\* one.
TraceResults ==
  IF HasView
  THEN [i \in 1..4 |-> [stage |-> StageOrder[6 + i],
                        code |-> StageCode(StageOrder[6 + i], verdict)]]
  ELSE <<[stage |-> verdict.stage, code |-> verdict.code]>>

\* A variant: a failure is tried again.
EndReplay_retry ==
  /\ phase = "replay" /\ at = "done" /\ verdict # Raised
  /\ IF HasView
     THEN /\ report' = IF full THEN report \o TraceResults ELSE report
          /\ view' = verdict
          /\ phase' = "report"
          /\ UNCHANGED replayVars
     ELSE StartReplay(bundle, strict) /\ UNCHANGED <<report, view, phase>>
  /\ UNCHANGED <<faults, full>>

EndReplay ==
  /\ phase = "replay" /\ at = "done" /\ verdict # Raised
  /\ report' = IF full THEN report \o TraceResults ELSE report
  /\ view' = IF HasView THEN verdict ELSE None
  /\ phase' = "report"
  /\ UNCHANGED <<replayVars, faults, full>>

\* An exception leaves the call without a report.
Raise ==
  /\ phase = "replay" /\ verdict = Raised
  /\ phase' = "raised"
  /\ UNCHANGED <<replayVars, faults, full, report, view>>

-----------------------------------------------------------------------------
(* Calls.                                                                  *)

\* validate_pipeline on a bundle.  Every call begins anew.
Validate ==
  /\ phase \in {"idle", "report", "raised"}
  /\ full' \in BOOLEAN
  /\ phase' = "preflight"
  /\ report' = <<>> /\ view' = None
  /\ at' = "ledger" /\ ctx' = None /\ verdict' = None
  /\ UNCHANGED <<bundle, strict, faults>>

\* validate_pipeline on a single artifact: the first check that fails, in
\* the order of the stages except that the artifact's digests, its wire
\* records and its references follow each other.
ValidateSingle ==
  /\ phase \in {"idle", "report", "raised"}
  /\ full' \in BOOLEAN
  /\ \E found \in {None} \cup SingleFaults :
       report' = IF full' THEN <<[stage |-> "Replay", code |-> "missing_ref"]>>
                 ELSE IF found = None
                 THEN <<[stage |-> "AuthorityEmit", code |-> "pass"]>>
                 ELSE <<found>>
  /\ phase' = "report" /\ view' = None
  /\ UNCHANGED <<replayVars, faults>>

Init ==
  /\ bundle \in Bundles
  /\ faults \in PreflightFaults
  /\ strict = FALSE /\ at = "ledger" /\ ctx = None /\ verdict = None
  /\ full = FALSE /\ phase = "idle" /\ report = <<>> /\ view = None

Running == Preflight \/ BeginReplay \/ Replaying \/ EndReplay \/ Raise

Next == Running \/ Validate \/ ValidateSingle

\* The program runs on by itself; the calls are the environment's.
Spec == Init /\ [][Next]_vars /\ WF_vars(Running)

-----------------------------------------------------------------------------
(* Properties.                                                             *)

\* The state holds what it should: the gates and phases there are, results
\* with a stage, a verdict once the replay is done.
TypeOK ==
  /\ bundle \in Bundle
  /\ strict \in BOOLEAN /\ full \in BOOLEAN
  /\ at \in GateName
  /\ phase \in {"idle", "preflight", "replay", "report", "raised"}
  /\ \A i \in DOMAIN report : report[i].stage \in Stage
  /\ verdict \in {None} \cup Verdict
  /\ (at = "done") = (verdict # None)
  /\ at \notin {"ledger", "context", "done"} =>
       /\ DOMAIN ctx.values = Value
       /\ ctx.semantics \in {None, "compiled", "embedded", "artifacts"}

\* What a bundle must be for a strict replay to judge it.
Sound(b) ==
  /\ b.ledger = {} /\ b.context /\ b.use
  /\ b.confluence \in {None, "good"}
  /\ \A r \in {b.measurement, b.representation} \ {None} :
       r.typed => r.accepted /\ r.proof = "good"
  /\ (b.measurement # None /\ b.measurement.typed) => b.measurement.bound
  /\ b.completion.status = "pass" =>
       b.completion.named /\ b.completion.proof = "good"
  /\ \A v \in Value : b.values[v].proof # None =>
       /\ b.values[v].proof.accepted
       /\ b.values[v].proof.value \in Answers
       /\ b.values[v].declared \in {None, b.values[v].proof.value}
  /\ b.clause # None => b.clause.schema
  /\ \A x \in {b.event, b.clause, b.contract, b.trust, b.kernelProof} \ {None} :
       x.flaws = {}
  /\ \/ b.sources = "agree"
     \/ b.certificate = "claims" /\ b.sources = "differ"
  /\ FALSE \notin Clauses(b)
  /\ HasClauses(b) => b.compiles

\* The gates in their order, reading what earlier ones wrote, open for the
\* sound bundles and no others: a strict replay of a sound bundle ends in the
\* judgement, whatever that says, and one of any other bundle ends before it,
\* in a failure or an exception (replay_authority_from_bundle).
OpensForTheSound ==
  [][strict /\ at # "done" /\ at' = "done" =>
       (at = "judge" <=> Sound(bundle))]_vars

\* What a strict replay judges is proved and nothing else: a value with a
\* proof is the value the accepted proof gives, no declaration was silently
\* replaced, and the semantics come from artifacts or accepted clauses
\* (_operational_proof_content_failure against
\* _enrich_status_context_from_proof_artifacts, _certificate_from_bundle).
JudgedIsProved ==
  strict /\ HasView =>
    /\ \A v \in Value :
         LET said == bundle.values[v] IN
         /\ said.proof # None =>
              said.proof.accepted /\ ctx.values[v] = said.proof.value
         /\ said.declared # None => ctx.values[v] = said.declared
    /\ ctx.semantics = IF HasClauses(bundle) THEN "compiled" ELSE "artifacts"
    /\ ctx.trusted => ~ HasClauses(bundle)

\* A call that fails before its replay says so to the end, also when the
\* failure is reported under another stage's name: nothing passes behind the
\* first failure, every stage behind the failing one is reported, and there
\* is no view (_append_blocked_stages).
FailureBlocksTheRest ==
  phase = "report" /\ at = "ledger" /\ ~ Passed(report) =>
    LET failing == CHOOSE i \in DOMAIN report :
          /\ report[i].code # "pass"
          /\ \A j \in 1..(i - 1) : report[j].code = "pass"
    IN /\ view = None
       /\ \A j \in DOMAIN report : j > failing => report[j].code # "pass"
       /\ Len(report) > 1 =>
            \A k \in (failing + 1)..10 : \E j \in DOMAIN report :
              j >= failing /\ report[j].stage = StageOrder[k]

\* The report of a full replay passes exactly if there is a view and nothing
\* in the view is a defect; in particular a replay that failed, at whichever
\* gate, does not leave the stages before it to pass alone
\* (_stage_result_from_blocks, _failure_replay_trace).
PassMeansJudged ==
  phase = "report" /\ full /\ at = "done" =>
    (Passed(report) <=>
       view # None /\ {b.code : b \in view.blocks} \cap DefectCode = {})

\* Every call is answered, with a report or an exception.
Answered == phase = "preflight" ~> phase \in {"report", "raised"}

\* protocol-mapping: "relation artifacts must also be accepted by checker
\* status, measurement relation artifacts must carry resolved proof refs, and
\* representation relation proof refs must resolve before the relation
\* payload can construct prefix or fiber records".
RelationTakenIsChecked ==
  strict /\ HasView =>
    /\ ctx.measurement = "accepted" =>
         bundle.measurement.proof = "good"
    /\ ctx.representation = "taken" =>
         bundle.representation.accepted /\ bundle.representation.proof = "good"
=============================================================================

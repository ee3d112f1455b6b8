--------------------------- MODULE AuthorityCheck ---------------------------
(***************************************************************************)
(* dfcc.authority._check_authority_core for one certificate, one action    *)
(* per stage.  Calls follow one another: status time goes forward, the     *)
(* lifecycle log grows, everything else a caller supplies is new in each   *)
(* call and is chosen in the stage that reads it.  A stage that finds a    *)
(* fault returns a view at once; the last stage builds the outcome, checks *)
(* it and passes the view through the schema.                              *)
(*                                                                         *)
(* Two components are used by what is proved of them.  fold_status is any  *)
(* result LifecycleFold allows: blocks exactly when it is not "active"     *)
(* (ActiveIffUnblocked), and never "active" once the log has a status      *)
(* event of the certificate (NothingLost).  The clock is StatusClock's,    *)
(* its constants and variables included; ClockSpec is not part of this.    *)
(***************************************************************************)
EXTENDS AuthorityOutcome, StatusClock

CONSTANTS
  Prefix,         \* represented prefixes
  Operationals,   \* the operational objects that may be derived or stated
  None            \* an absent optional value

VARIABLES
  certificate,    \* what the certificate lists: [artifacts, sets]
  marked,         \* has the log a status event of the certificate?
  withdrawn,      \* has an earlier view said so? (a history variable)
  stage,          \* the stage about to run, or "ready"
  operational,    \* is the proposed mode an operational one?
  dominant,       \* fold.dominant_status
  prefix,         \* the admitted prefix, or None
  verdict,        \* kernel.verdict, after the kernel proof was compared
  proof_blocks,   \* kernel_proof_blocks
  gate,           \* gate and policy_blocks, the answer of gate_decision
  guards,         \* guard_records: guard name -> "pass" or "fail"
  result          \* what the last call returned, or None

request == <<operational, dominant, prefix, verdict, proof_blocks, gate, guards>>
fixed == <<anchors, uncertainty, certificate>>
history == <<marked, withdrawn>>
vars == <<fixed, status_time, clock, history, stage, request, result>>

StatusCode == {"active", "unknown", "out_of_frame", "expired", "superseded",
               "revoked", "conflict", "invalid"}

-----------------------------------------------------------------------------
Record(name, ok) ==
  [g \in DOMAIN guards \cup {name} |->
     IF g = name THEN (IF ok THEN "pass" ELSE "fail") ELSE guards[g]]

\* The records of _identity_guards, the faults among them failing.
Identity(faults) ==
  [g \in {"ProfileResolved", "FieldPresence", "ReferenceResolved",
          "ContextWellFormed", "policy_gate"} |->
     IF g \in faults THEN "fail" ELSE "pass"]

base_guards ==
  {"ProfileResolved", "FieldPresence", "ReferenceResolved", "SetRefSound",
   "ContextWellFormed", "ArtifactConsistent", "ExactPrefixEnclosure",
   "status_active", "clock_inside", "validity_pass", "checker_obligations"}

required_guard_set(isOperational) ==
  base_guards \cup
    (IF isOperational
     THEN {"completion_admission", "fiber_association", "prefix_adjudication",
           "usage_adjudication", "target_adjudication", "adequacy",
           "agreement", "policy_gate"}
     ELSE {})

\* A view, or the exception validate_authority_outcome raises for it.
View(outcome, status, guardPass) ==
  IF validate_authority_outcome(outcome)
  THEN [kind |-> "view", outcome |-> outcome, dominant |-> status,
        guardPass |-> guardPass]
  ELSE [kind |-> "refused", outcome |-> outcome, dominant |-> status,
        guardPass |-> guardPass]

NoView(kind) ==
  [kind |-> kind, outcome |-> None, dominant |-> None, guardPass |-> FALSE]

\* return _status_outcome(...): the call is over.  blocks holds the failure
\* codes of the blocks; "lifecycle" stands for those of the fold.
ReturnStatus(status, blocks) ==
  /\ result' = View(status_outcome(status, blocks), status, FALSE)
  /\ stage' = "ready"

GoOn(next) == stage' = next /\ result' = None

-----------------------------------------------------------------------------
Init ==
  /\ anchors \in HorizonAnchors
  /\ uncertainty \in Uncertainties
  /\ status_time \in StatusTimes /\ \A t \in StatusTimes : status_time <= t
  /\ clock = None
  /\ certificate \in [artifacts : BOOLEAN, sets : BOOLEAN]
  /\ marked = FALSE
  /\ withdrawn = FALSE
  /\ stage = "ready"
  /\ operational = FALSE
  /\ dominant = None
  /\ prefix = None
  /\ verdict = None
  /\ proof_blocks = {}
  /\ gate = None
  /\ guards = Identity({})
  /\ result = None

\* A status event of the certificate reaches the log.
Mark ==
  /\ stage = "ready"
  /\ ~ marked
  /\ marked' = TRUE
  /\ UNCHANGED <<fixed, status_time, clock, withdrawn, stage, request, result>>

\* The last view said that the certificate is withdrawn.
SaysWithdrawn ==
  /\ result # None
  /\ result.kind = "view"
  /\ result.dominant \in {"expired", "revoked", "superseded"}

\* A call at the same status time or a later one.
Call ==
  /\ stage = "ready"
  /\ status_time' \in {t \in StatusTimes : t >= status_time}
  /\ operational' \in BOOLEAN
  /\ clock' = None /\ dominant' = None /\ prefix' = None
  /\ verdict' = None /\ proof_blocks' = {} /\ gate' = None /\ guards' = Identity({})
  /\ withdrawn' = (withdrawn \/ SaysWithdrawn)
  /\ GoOn("certificate")
  /\ UNCHANGED <<fixed, marked>>

\* The certificate's own profile does not validate.
InvalidCertificate ==
  /\ stage = "certificate"
  /\ result' = NoView("invalid")
  /\ stage' = "ready"
  /\ UNCHANGED <<fixed, status_time, clock, history, request>>

\* Direct input that the caller has not allowed to count.
SyntheticTrust ==
  /\ stage = "certificate"
  /\ guards' = Record("SyntheticTrustExplicit", FALSE)
  /\ ReturnStatus("unknown", {"checker_unknown"})
  /\ UNCHANGED <<fixed, status_time, clock, history, operational, dominant,
                 prefix, verdict, proof_blocks, gate>>

ProposedUse ==
  /\ stage = "certificate"
  /\ \E faults \in SUBSET {"ReferenceResolved", "ContextWellFormed", "policy_gate"} :
       /\ guards' = Identity(faults)
       /\ IF faults = {} THEN GoOn("fold")
          ELSE ReturnStatus("out_of_frame",
                 {IF g = "policy_gate" THEN "policy_block" ELSE "out_of_frame" :
                    g \in faults})
  /\ UNCHANGED <<fixed, status_time, clock, history, operational, dominant,
                 prefix, verdict, proof_blocks, gate>>

\* A variant: only the events new to this call are folded.
FoldStatuses_of_new == StatusCode

\* Without a status event the fold can only find a conflict or an event of
\* another policy version.
FoldStatuses ==
  IF marked THEN StatusCode \ {"active"} ELSE {"active", "unknown", "conflict"}

Fold ==
  /\ stage = "fold"
  /\ \E status \in FoldStatuses :
       /\ dominant' = status
       /\ guards' = Record("status_active", status = "active")
       /\ IF status = "active" THEN GoOn("clock")
          ELSE ReturnStatus(status, {"lifecycle"})
  /\ UNCHANGED <<fixed, status_time, clock, history, operational, prefix,
                 verdict, proof_blocks, gate>>

\* A variant: the clock's status is returned as it is.
ClockStatus_raw(c) == c.status

ClockStatus(c) == IF c.status = "expired" THEN "expired" ELSE "unknown"

Clock ==
  /\ stage = "clock"
  /\ clock' = status_clock(status_time, uncertainty, anchors)
  /\ guards' = Record("clock_inside", clock'.status = "active")
  /\ IF clock'.status = "active" THEN GoOn("prefix")
     ELSE ReturnStatus(ClockStatus(clock'),
                       {IF clock'.status = "expired" THEN "expired"
                        ELSE "clock_boundary_unknown"})
  /\ UNCHANGED <<fixed, status_time, history, operational, dominant, prefix,
                 verdict, proof_blocks, gate>>

-----------------------------------------------------------------------------
(* The prefix stage.  A prefix that passes is [r, p_star, p_out, p_in,     *)
(* observed]; a prefix that does not is the failure code it blocks with.   *)

PrefixViews ==
  [r : 0..MaxHorizon, p_star : SUBSET Prefix, p_out : SUBSET Prefix,
   p_in : {None} \cup SUBSET Prefix]

\* p_star, empty while the outer prefix is not.
ExactPrefixEmpty(p) == p.p_star = {} /\ p.p_out # {}

\* _observation_runtime: checker.observation_cut, the strict evidence of the
\* records, then frame.admit_prefix.
admit_prefix(checked, p) ==
  IF checked # "pass" THEN checked
  ELSE IF ExactPrefixEmpty(p) THEN "exact_prefix_empty"
  ELSE IF ~ (p.p_star \subseteq p.p_out) THEN "prefix_unsound"
  ELSE "prefix"

\* _prefix_from_context, for a context that has a prefix view.
prefix_from_context(p, passed) ==
  IF p.r # clock.index \/ ~ passed THEN "prefix_unsound"
  ELSE IF ExactPrefixEmpty(p) THEN "exact_prefix_empty"
  ELSE "prefix"

\* Some decision of one of the above, for a prefix p.
PrefixStage(decision, p, observed) ==
  /\ stage = "prefix"
  /\ guards' = Record("ExactPrefixEnclosure", decision = "prefix")
  /\ IF decision = "prefix"
     THEN /\ prefix' = [r |-> p.r, p_star |-> p.p_star, p_out |-> p.p_out,
                        p_in |-> p.p_in, observed |-> observed]
          /\ GoOn("validity")
     ELSE /\ ReturnStatus("unknown", {decision})
          /\ UNCHANGED prefix
  /\ UNCHANGED <<fixed, status_time, clock, history, operational, dominant,
                 verdict, proof_blocks, gate>>

\* admit_prefix reads the index out of the observation policy, which may
\* override the clock's.
ObservedPrefix ==
  \E p \in [r : 0..MaxHorizon, p_star : SUBSET Prefix, p_out : SUBSET Prefix,
            p_in : {None}] :
    \E checked \in {"pass", "checker_unknown", "artifact_conflict"} :
      PrefixStage(admit_prefix(checked, p), p, TRUE)

SuppliedPrefix ==
  \E p \in PrefixViews, passed \in BOOLEAN :
    PrefixStage(prefix_from_context(p, passed), p, FALSE)

\* No prefix view: at index 0 the initial set stands for it.
DefaultPrefix ==
  LET p == [r |-> 0, p_star |-> Prefix, p_out |-> Prefix, p_in |-> None] IN
  PrefixStage(IF clock.index = 0 THEN "prefix" ELSE "prefix_unsound", p, FALSE)

-----------------------------------------------------------------------------
Validity ==
  /\ stage = "validity"
  /\ \E validity \in {"pass", "conflict", "unknown", "expired"} :
       /\ guards' = Record("validity_pass", validity = "pass")
       /\ CASE validity = "pass" -> GoOn("sets")
            [] validity = "conflict" ->
                 ReturnStatus("conflict", {"validity_conflict"})
            [] OTHER -> ReturnStatus("unknown", {"validity_unknown"})
  /\ UNCHANGED <<fixed, status_time, clock, history, operational, dominant,
                 prefix, verdict, proof_blocks, gate>>

\* ArtifactConsistent is recorded and does not stop the call.
Sets ==
  /\ stage = "sets"
  /\ \E sound \in IF certificate.sets THEN BOOLEAN ELSE {FALSE} :
       /\ guards' = [g \in DOMAIN guards \cup {"ArtifactConsistent", "SetRefSound"} |->
                       CASE g = "ArtifactConsistent" ->
                              IF certificate.artifacts THEN "pass" ELSE "fail"
                         [] g = "SetRefSound" -> IF sound THEN "pass" ELSE "fail"
                         [] OTHER -> guards[g]]
       /\ IF sound THEN GoOn("kernel")
          ELSE ReturnStatus("unknown", {IF certificate.sets THEN "checker_unknown"
                                        ELSE "missing_ref"})
  /\ UNCHANGED <<fixed, status_time, clock, history, operational, dominant,
                 prefix, verdict, proof_blocks, gate>>

\* build_residual_context refuses a prefix that is not enclosed.
Enclosed(p) ==
  /\ p.p_star \subseteq p.p_out
  /\ p.p_in # None => p.p_in \subseteq p.p_star

UnsoundPrefix ==
  /\ stage = "kernel"
  /\ ~ Enclosed(prefix)
  /\ result' = NoView("raised")
  /\ stage' = "ready"
  /\ UNCHANGED <<fixed, status_time, clock, history, request>>

\* What kernel_verdict can answer.  A trajectory is kept when its first r + 1
\* states, r the clock's index, are a prefix of p_out; none is when the
\* prefixes have another length.
NothingResidual == prefix.p_out = {} \/ prefix.r # clock.index

Answers ==
  IF NothingResidual THEN {"infeasible", "abstain", "unknown"} ELSE VerdictCode

\* A kernel proof that is missing or disagrees makes the verdict unknown.
compared(answer, faults) == IF faults # {} THEN "unknown" ELSE answer

Kernel ==
  /\ stage = "kernel"
  /\ Enclosed(prefix)
  /\ \E answer \in Answers,
        faults \in SUBSET {"checker_unknown", "artifact_conflict"} :
       /\ verdict' = compared(answer, faults)
       /\ proof_blocks' = faults
       /\ guards' = Record("checker_obligations",
                           verdict' \notin {"unknown", "conflict"} /\ faults = {})
  /\ GoOn("gate")
  /\ UNCHANGED <<fixed, status_time, clock, history, operational, dominant, prefix,
                 gate>>

-----------------------------------------------------------------------------
Policies == [lowGrade : BOOLEAN, modeBlocked : BOOLEAN, unknown : BOOLEAN]

Gate ==
  /\ stage = "gate"
  /\ \E policy \in Policies : gate' = gate_decision(policy, {})
  /\ GoOn("outcome")
  /\ UNCHANGED <<fixed, status_time, clock, history, operational, dominant, prefix,
                 verdict, proof_blocks, guards>>

OperationalGuards(ops, outcome) ==
  [completion_admission |-> ops.completion,
   fiber_association |-> ops.fiber \in {"positive", "negative"},
   prefix_adjudication |-> ops.prefixAdj = "accept",
   usage_adjudication |-> ops.usageAdj = "accept",
   target_adjudication |-> ops.targetAdj \in {"accept", "reject"},
   adequacy |-> ops.adequacy \in {"positive", "negative"},
   agreement |-> outcome.code \in {"accept", "reject"} /\ outcome.blocks = {}]

\* A variant: the view is returned whatever the schema says.
emit_unchecked(outcome, guardPass) == View(outcome, "active", guardPass)

\* The view, unless the outcome or the schema refuses it.
emit(outcome, guardPass) ==
  IF validate_authority_outcome(outcome) /\ ~ SchemaAccepts(outcome, "active")
  THEN NoView("schema_invalid")
  ELSE View(outcome, "active", guardPass)

\* A variant: the guards decide alone.
guard_pass_alone(records, required, blocks) ==
  \A g \in DOMAIN records : records[g] = "pass"

\* The GuardPass record; a required guard nobody recorded fails.
guard_pass(records, required, blocks) ==
  /\ \A g \in DOMAIN records : records[g] = "pass"
  /\ required \subseteq DOMAIN records
  /\ blocks = {}

Represented ==
  /\ stage = "outcome"
  /\ ~ operational
  /\ \E kernelReasons \in BOOLEAN :
       LET outcome == represented_outcome(verdict, gate.gate,
                                          gate.blocks \cup proof_blocks, kernelReasons)
       IN result' = emit(outcome,
                         guard_pass(guards, required_guard_set(FALSE), outcome.blocks))
  /\ stage' = "ready"
  /\ UNCHANGED <<fixed, status_time, clock, history, request>>

\* The objects are derived exactly when there is an accepted observation.
Operational ==
  /\ stage = "outcome"
  /\ operational
  /\ \E ops \in {o \in Operationals : o.derived = prefix.observed} :
       LET outcome == operational_outcome(verdict, gate.gate,
                                          gate.blocks \cup proof_blocks, ops)
           more == OperationalGuards(ops, outcome)
           records == [g \in DOMAIN guards \cup DOMAIN more |->
                         IF g \in DOMAIN more
                         THEN (IF more[g] THEN "pass" ELSE "fail")
                         ELSE guards[g]]
       IN result' = emit(outcome,
                         guard_pass(records, required_guard_set(TRUE), outcome.blocks))
  /\ stage' = "ready"
  /\ UNCHANGED <<fixed, status_time, clock, history, request>>

Next ==
  \/ Mark \/ Call
  \/ InvalidCertificate \/ SyntheticTrust \/ ProposedUse \/ Fold \/ Clock
  \/ ObservedPrefix \/ SuppliedPrefix \/ DefaultPrefix
  \/ Validity \/ Sets \/ UnsoundPrefix \/ Kernel \/ Gate
  \/ Represented \/ Operational

Spec == Init /\ [][Next]_vars
-----------------------------------------------------------------------------
(***************************************************************************)
(* Type invariant.  The guard records grow with the stages, and a call     *)
(* that has returned a view shows the status it stopped at.                *)
(***************************************************************************)
Stages == {"ready", "certificate", "fold", "clock", "prefix", "validity", "sets",
           "kernel", "gate", "outcome"}

TypeOK ==
  /\ anchors \in HorizonAnchors
  /\ uncertainty \in Uncertainties
  /\ status_time \in StatusTimes
  /\ certificate \in [artifacts : BOOLEAN, sets : BOOLEAN]
  /\ marked \in BOOLEAN /\ withdrawn \in BOOLEAN /\ operational \in BOOLEAN
  /\ stage \in Stages
  /\ dominant \in StatusCode \cup {None}
  /\ prefix # None => prefix.r \in 0..MaxHorizon /\ prefix.p_out \subseteq Prefix
  /\ verdict \in VerdictCode \cup {None}
  /\ gate # None => gate.gate \in GateDecision
  /\ \A g \in DOMAIN guards : guards[g] \in {"pass", "fail"}
  /\ result # None => result.dominant \in StatusCode \cup {None}

Returned(kind) == result # None /\ result.kind = kind

Decisive == Returned("view") /\ result.outcome.code \in decisive_codes

(***************************************************************************)
(* A decisive outcome is earned: no stage of the call found a fault, the   *)
(* gate allows, nothing blocks, and the code is that of the kernel's       *)
(* verdict on a prefix of the clock's index.  An operational decision also *)
(* had an accepted observation.  policy.unknown is stopped by nothing but  *)
(* the schema, after the outcome is built.                                 *)
(***************************************************************************)
DecisiveIsEarned ==
  Decisive =>
    /\ dominant = "active" /\ clock.status = "active"
    /\ \A g \in base_guards \ {"ArtifactConsistent"} :
         g \in DOMAIN guards /\ guards[g] = "pass"
    /\ proof_blocks = {} /\ gate.gate = "allow"
    /\ result.outcome.gate = "allow" /\ result.outcome.blocks = {}
    /\ verdict = CASE result.outcome.code = "accept" -> "assert"
                   [] result.outcome.code = "reject" -> "deny"
                   [] OTHER -> result.outcome.code
    /\ verdict # "infeasible" => prefix.r = clock.index /\ prefix.p_star # {}
    /\ operational => prefix.observed

(***************************************************************************)
(* The outcome builders never offend the checks they are followed by:      *)
(* whatever the stages found, validate_authority_outcome does not raise.   *)
(***************************************************************************)
NeverRefused == ~ Returned("refused")

(***************************************************************************)
(* Every view satisfies the conditionals of the schema, the views that     *)
(* return early and are never put to the schema included.                  *)
(***************************************************************************)
ViewsConform == Returned("view") => SchemaAccepts(result.outcome, result.dominant)

(***************************************************************************)
(* A consumer may read the outcome off the GuardPass record: of the views  *)
(* of a certificate that lists artifacts, those with a passing record are  *)
(* those with a decisive outcome.  (Without artifacts the record fails     *)
(* and the outcome can still be decisive.)                                 *)
(***************************************************************************)
GuardPassTells ==
  Returned("view") => (result.guardPass <=> Decisive /\ certificate.artifacts)

(***************************************************************************)
(* Authority is not regained.  Once a view has said that the certificate   *)
(* is expired, revoked or superseded, no later call decides, whatever is   *)
(* proposed, observed or supplied to it.  (A consequence of                *)
(* ImplementsStanding, told by the history of the calls.)                  *)
(***************************************************************************)
NotRegained == withdrawn => ~ Decisive

-----------------------------------------------------------------------------
(* The call seen from outside.                                             *)

\* Is the clock past the last anchor at time t?
Expired(t) == status_clock(t, uncertainty, anchors).status = "expired"

Standing == ~ marked /\ ~ Expired(status_time)

Told ==
  IF stage # "ready" THEN "waiting"
  ELSE IF Decisive THEN "decided"
  ELSE IF SaysWithdrawn THEN "withdrawn" ELSE "withheld"

Abstract == INSTANCE CertificateStanding WITH standing <- Standing, answer <- Told

(***************************************************************************)
(* The stages together answer one question about the certificate's         *)
(* standing, for the moment of the call: whatever stage a call ends in, it *)
(* does not decide once the log has a status event or the clock is past    *)
(* the last anchor, and it does not say withdrawn before that; and no      *)
(* later call finds the standing restored.                                 *)
(***************************************************************************)
ImplementsStanding == Abstract!SSpec
=============================================================================

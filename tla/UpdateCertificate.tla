-------------------------- MODULE UpdateCertificate --------------------------
(***************************************************************************)
(* dfcc.certificate.update_certificate: lifecycle events arrive one at a   *)
(* time and each is decided on its own, by folding the one event and       *)
(* checking the evidence the update policy and the event call for.  The    *)
(* holder of the certificate keeps the log, of the events as they arrived; *)
(* authority is decided later from a fold of the whole log, under a policy *)
(* of its own.  What the update answered must be borne out by it.          *)
(*                                                                         *)
(* A request is an event of LifecycleRules with what else the update reads *)
(* of it, and the evidence that came with it: one record for each field    *)
(* that may need proof, or None where there is no reference.               *)
(***************************************************************************)
EXTENDS LifecycleMeaning

CONSTANTS
  Requests,       \* the update requests that may be made
  Policies,       \* the update policies
  Authorities,    \* the proofs and policy versions authority is checked with
  BareDigests,    \* manifest digests that name no algorithm
  MaxLog          \* bound: length of the log

\* The fields of an event that are read.
EventField == {"id", "certificate", "clock", "time", "kind", "ancestry",
  "conflictsWith", "policyVersion", "sigRequired", "signed", "sigResult",
  "sigProofMatches", "verified", "eventHash", "hashes", "previousHash",
  "manifestDigest"}

ASSUME RequestsAssumption ==
  \A r \in Requests : r.event = [x \in EventField |-> r.event[x]]

ASSUME MaxLogAssumption == MaxLog \in Nat

VARIABLES
  policy,         \* the policy argument, the same in every call
  log,            \* the events so far, in order of arrival
  request,        \* the last request, or None
  decision,       \* the LifecycleDecision it got, or None
  maintained      \* history: has every event in the log been maintained?

vars == <<policy, log, request, decision, maintained>>

-----------------------------------------------------------------------------
(* Evidence: what _accepted_status looks at.                               *)

Field == {"accepted_event_ids", "trace_class", "causal_cut", "log_root",
          "event_manifest_digest", "manifest_digest", "signature",
          "dependency_transfer", "frame_transfer", "proof_preservation"}

Evidence ==
  [accepted : BOOLEAN,                     \* its status is pass or accepted
   kind     : {"purpose", "other", "none"},
   sameRef  : BOOLEAN,                     \* names the reference given
   bound    : BOOLEAN,                     \* reference and digest are bound
   event    : {"this", "other", "none"},   \* the event_id its payload binds
   value    : {"this", "other", "none"}]   \* the field its payload binds

AcceptedFor(v) == v.accepted /\ v.kind = "purpose" /\ v.sameRef /\ v.bound

_accepted_status(v) == AcceptedFor(v) /\ v.event = "this" /\ v.value = "this"

\* A variant: what the payload binds is not compared.
Failure_unbound(v) ==
  IF v = None THEN {"checker_unknown"}
  ELSE IF AcceptedFor(v) THEN {} ELSE {"checker_unknown"}

\* _accepted_status_failure_code, as a set of at most one code
Failure(v) ==
  CASE v = None -> {"checker_unknown"}
    [] v # None /\ _accepted_status(v) -> {}
    [] /\ v # None /\ v.accepted /\ v.bound
       /\ \/ v.kind = "other" /\ v.sameRef
          \/ /\ v.kind = "purpose"
             /\ ~ v.sameRef \/ "other" \in {v.event, v.value}
         -> {"artifact_conflict"}
    [] OTHER -> {"checker_unknown"}

-----------------------------------------------------------------------------
(* The arguments of the fold.                                              *)

\* A variant: without a list in the policy any event is folded.
event_order_open(p, e) ==
  [accepted |-> IF p.accepted = None THEN {} ELSE p.accepted,
   proof |-> p.proof,
   conflictOnDisagreement |-> p.conflictOnDisagreement,
   logRoot |-> p.logRoot,
   traceClass |-> IF p.traceClass = None THEN {} ELSE p.traceClass,
   causalCut |-> IF p.causalCut = None THEN e.ancestry ELSE p.causalCut,
   policyVersion |-> p.policyVersion]

event_order(p, e) ==
  [accepted |-> IF p.accepted = None THEN {e.id} ELSE p.accepted,
   proof |-> p.proof,
   conflictOnDisagreement |-> p.conflictOnDisagreement,
   logRoot |-> p.logRoot,
   traceClass |-> IF p.traceClass = None THEN {} ELSE p.traceClass,
   causalCut |-> IF p.causalCut = None THEN e.ancestry ELSE p.causalCut,
   policyVersion |-> p.policyVersion]

\* A missing verifier result is taken from an accepted verifier proof, which
\* need not name this event; the fold then looks at the proof again.
parsed(r) ==
  LET v == r.evidence["signature"] IN
  IF /\ r.event.sigRequired /\ r.event.sigResult = None
     /\ v # None /\ AcceptedFor(v) /\ r.verifierSaid # None
  THEN [r.event EXCEPT !.sigResult = r.verifierSaid,
                       !.sigProofMatches = v.event = "this"]
  ELSE r.event

\* Variants: the kind of the event is believed without folding it; only what
\* would withdraw the certificate is folded.
FoldOne_trusting(e, order) ==
  [dominant |-> IF e.kind \in StatusKind THEN EVENT_TO_STATUS[e.kind]
                ELSE "active",
   blocks |-> IF e.kind \in StatusKind THEN {<<FailureOf[e.kind], e.id>>}
              ELSE {}]

FoldOne_withdrawals(e, order) ==
  IF e.kind \in {"revoke", "supersede", "expire"}
  THEN FoldResult(FoldEvent(EmptyFold, e, order), order)
  ELSE [dominant |-> "active", blocks |-> {}]

FoldOne(e, order) == FoldResult(FoldEvent(EmptyFold, e, order), order)

-----------------------------------------------------------------------------
(* What has to be proved, and what goes wrong.                             *)

\* The fields the event or the policy make claims about.
Claimed(p, r) ==
  {f \in Field :
     CASE f = "accepted_event_ids" -> p.accepted # None
       [] f = "trace_class" -> p.traceClass \notin {None, {}}
       [] f = "causal_cut" -> p.causalCut \notin {None, {}}
       [] f = "log_root" -> p.logRoot # None
       [] f = "event_manifest_digest" -> p.manifestDigest # None
       [] f = "manifest_digest" -> r.event.manifestDigest # None
       [] f = "signature" -> r.event.sigRequired
       [] f = "dependency_transfer" -> r.dependencyUpdates
       [] f = "frame_transfer" -> r.frameChanged
       [] f = "proof_preservation" -> r.needsPreservation}

\* Transfers and preservation that are offered are checked, asked for or not.
Offered(r) ==
  {f \in {"dependency_transfer", "frame_transfer", "proof_preservation"} :
     r.evidence[f] # None}

\* The policy's proof of the manifest digest serves for the event's own.
EvidenceFor(p, r, f) ==
  IF /\ f = "manifest_digest" /\ r.evidence[f] = None
     /\ p.manifestDigest = r.event.manifestDigest
  THEN r.evidence["event_manifest_digest"]
  ELSE r.evidence[f]

Unproved(p, r) ==
  UNION {IF f = "frame_transfer" /\ r.evidence[f] = None
         THEN {"out_of_frame"} ELSE Failure(EvidenceFor(p, r, f)) :
           f \in Claimed(p, r) \cup Offered(r)}

\* The event against the policy's own lists and digests.
Incoherent(p, e, order) ==
  (IF /\ p.accepted # None
      /\ \/ e.id \notin p.accepted
         \/ ~ (p.accepted \ {e.id} \subseteq order.causalCut)
   THEN {"trace_conflict"} ELSE {})
  \cup
  (IF \/ p.manifestDigest # None /\ e.manifestDigest # p.manifestDigest
      \/ e.manifestDigest \in BareDigests
   THEN {"digest_mismatch"} ELSE {})
  \cup
  (IF p.requirePolicyVersion /\ e.policyVersion = None
   THEN {"policy_block"} ELSE {})

Withdrawn == {"revoked", "superseded", "expired"}

\* Variants: blocks do not count; the dominant status is the decision.
decide_blocks(dominant, blocks) ==
  IF dominant \in Withdrawn THEN dominant ELSE "maintain"

decide_raw(dominant, blocks) ==
  IF blocks = {} THEN "maintain" ELSE dominant

decide(dominant, blocks) ==
  CASE dominant \in {"conflict", "unknown", "out_of_frame"} -> "recompute"
    [] dominant \in Withdrawn -> dominant
    [] OTHER -> IF blocks # {} THEN "recompute" ELSE "maintain"

update_certificate(p, r) ==
  IF ~ r.wellFormed
  THEN [decision |-> "reject", dominant |-> "invalid", accepted |-> FALSE,
        blocks |-> {"schema_invalid"}]
  ELSE LET e == parsed(r)
           order == event_order(p, e)
           fold == FoldOne(e, order)
           blocks == {b[1] : b \in fold.blocks}
                       \cup Incoherent(p, e, order) \cup Unproved(p, r)
       IN [decision |-> decide(fold.dominant, blocks),
           dominant |-> fold.dominant,
           accepted |-> blocks = {},
           blocks |-> blocks]

-----------------------------------------------------------------------------
Init ==
  /\ policy \in Policies
  /\ log = << >>
  /\ request = None
  /\ decision = None
  /\ maintained = TRUE

\* A call for an event that reaches the log, whatever is decided about it.
\* What is filled in for the fold stays in the call.
Update(r) ==
  /\ r.wellFormed
  /\ Len(log) < MaxLog
  /\ request' = r
  /\ decision' = update_certificate(policy, r)
  /\ log' = Append(log, r.event)
  /\ maintained' = (maintained /\ decision'.decision = "maintain")
  /\ UNCHANGED policy

\* A call for something that is no event; there is nothing to log.
Malformed(r) ==
  /\ ~ r.wellFormed
  /\ request' = r
  /\ decision' = update_certificate(policy, r)
  /\ UNCHANGED <<policy, log, maintained>>

Next == \E r \in Requests : Update(r) \/ Malformed(r)

Spec == Init /\ [][Next]_vars

-----------------------------------------------------------------------------
UpdateCode == FailureCode \cup
  {"checker_unknown", "artifact_conflict", "digest_mismatch", "schema_invalid"}

TypeOK ==
  /\ policy \in Policies
  /\ Len(log) <= MaxLog
  /\ request \in Requests \cup {None}
  /\ maintained \in BOOLEAN
  /\ decision # None =>
       /\ decision.decision \in {"reject", "recompute", "maintain"} \cup Withdrawn
       /\ decision.dominant \in StatusCode
       /\ decision.accepted \in BOOLEAN
       /\ decision.blocks \subseteq UpdateCode

\* The fold of an authority check: a confluence proof and a policy version of
\* its own, and nothing else in the order.
WholeOrder(a) ==
  [accepted |-> {}, proof |-> a.proof, conflictOnDisagreement |-> TRUE,
   logRoot |-> None, traceClass |-> {}, causalCut |-> {},
   policyVersion |-> a.policyVersion]

\* By ImplementsMeaning the fold of a log is its meaning, whatever the order
\* of arrival.
WholeStatus(l, a) == Meaning(LedgerOf(l), WholeOrder(a))

(***************************************************************************)
(* A withdrawal decided from one event is a withdrawal of the log: however *)
(* the log looks and whatever else is in it, every fold that decides       *)
(* authority ends at least as strong as the decision, except that an event *)
(* of another policy version than the fold's only ends it at "unknown" or  *)
(* above (certificate.py:1405 folds the one event, authority.py:1251 the   *)
(* log).                                                                   *)
(***************************************************************************)
WithdrawalStands ==
  request # None /\ decision.decision \in Withdrawn =>
    \A a \in Authorities :
      STATUS_PRIORITY[WholeStatus(log, a)] >=
        IF OtherPolicy(request.event, WholeOrder(a))
        THEN STATUS_PRIORITY["unknown"]
        ELSE STATUS_PRIORITY[decision.decision]

(***************************************************************************)
(* An event an update maintains takes no authority away when the log is    *)
(* replayed: the fold with it ends as the fold without it, unless the two  *)
(* do not fit together, which is a conflict, or it resolves one, or it was *)
(* admitted under another policy version, which is unknown at most.        *)
(***************************************************************************)
MaintainedIsNeutral ==
  [][decision'.decision = "maintain" =>
       \A a \in Authorities :
         \/ WholeStatus(log', a) \in {WholeStatus(log, a), "conflict"}
         \/ WholeStatus(log, a) = "conflict"
         \/ /\ OtherPolicy(request'.event, WholeOrder(a))
            /\ WholeStatus(log, a) = "active"
            /\ WholeStatus(log', a) = "unknown"
    ]_<<log, request, decision>>

(***************************************************************************)
(* A log whose every event was maintained on arrival is active, or the     *)
(* events do not fit together, or one was admitted under another policy    *)
(* version; it is never expired, superseded or revoked by something every  *)
(* update let pass.                                                        *)
(***************************************************************************)
MaintainedLog ==
  maintained =>
    \A a \in Authorities :
      \/ WholeStatus(log, a) \in {"active", "conflict"}
      \/ /\ WholeStatus(log, a) = "unknown"
         /\ \E i \in DOMAIN log : OtherPolicy(log[i], WholeOrder(a))

(***************************************************************************)
(* docs/protocol-mapping.md: accepted update proofs are bound to the event *)
(* id and to the field they discharge.  Nothing the event or the policy    *)
(* claims is maintained on evidence for another event or another value.    *)
(***************************************************************************)
MaintainedIsProved ==
  request # None /\ decision.decision = "maintain" =>
    \A f \in Claimed(policy, request) :
      LET v == EvidenceFor(policy, request, f) IN
      v # None /\ v.accepted /\ v.event = "this" /\ v.value = "this"

(***************************************************************************)
(* An event of another certificate, or one the policy's list leaves out,   *)
(* is not a silent no-op: the fold skips it, and the update must not       *)
(* maintain the certificate because of it, nor withdraw it.  An empty list *)
(* bounds nothing in the fold (lifecycle.py:441), so a revocation it       *)
(* leaves out still counts; such an event is not maintained either.        *)
(***************************************************************************)
NoSilentSkip ==
  request # None /\ request.wellFormed =>
    LET e == request.event
        leftOut == policy.accepted # None /\ e.id \notin policy.accepted
    IN /\ leftOut => decision.decision # "maintain"
       /\ \/ e.certificate # CertificateId
          \/ leftOut /\ policy.accepted # {}
          => decision.decision = "recompute"
=============================================================================

--------------------------- MODULE LifecycleRules ---------------------------
(***************************************************************************)
(* The rules of dfcc.lifecycle.fold_status for one event: which events the *)
(* fold considers, which checks reject one, and what an event leaves       *)
(* behind in the locals of the loop.  No state here; LifecycleFold runs    *)
(* the loop over a log, UpdateCertificate folds a single event.            *)
(*                                                                         *)
(* An order is what the caller folds with: the fields of its EventOrder    *)
(* and the policy_version of its FoldContext.                              *)
(*                                                                         *)
(* An event is a record of the fields the fold reads.  Digests are tokens; *)
(* a commitment is the tuple of the fields it hashes (a collision-free     *)
(* digest).  A proof is the three facts accepted_proof_evidence reads off  *)
(* it, and the ids it covers.                                              *)
(***************************************************************************)
EXTENDS Integers, FiniteSets

CONSTANTS
  EventId,        \* event ids; numbers stand for the ids in sorting order
  CertificateId,  \* the certificate being replayed
  None            \* an absent optional field

StatusCode == {"active", "unknown", "out_of_frame", "expired", "superseded",
               "revoked", "conflict", "invalid"}

STATUS_PRIORITY ==
  [s \in StatusCode |->
     CASE s = "active" -> 0       [] s = "unknown" -> 1
       [] s = "out_of_frame" -> 2 [] s = "expired" -> 3
       [] s = "superseded" -> 4   [] s = "revoked" -> 5
       [] s = "conflict" -> 6     [] s = "invalid" -> 7]

StatusKind == {"mark-unknown", "mark-conflict", "mark-out-of-frame",
               "trigger-block", "supersede", "expire", "revoke", "conflict"}

\* "issue" stands for every kind EVENT_TO_STATUS does not map.
EventKind == StatusKind \cup {"issue"}

EVENT_TO_STATUS ==
  [k \in StatusKind |->
     CASE k \in {"mark-unknown", "trigger-block"} -> "unknown"
       [] k \in {"mark-conflict", "conflict"} -> "conflict"
       [] k = "mark-out-of-frame" -> "out_of_frame"
       [] k = "supersede" -> "superseded"
       [] k = "expire" -> "expired"
       [] k = "revoke" -> "revoked"]

FailureOf ==
  [k \in StatusKind |->
     CASE k = "mark-unknown" -> "validity_unknown"
       [] k = "trigger-block" -> "policy_block"
       [] k \in {"mark-conflict", "conflict"} -> "trace_conflict"
       [] OTHER -> EVENT_TO_STATUS[k]]

FailureCode == {"trace_conflict", "policy_block", "validity_unknown",
                "out_of_frame", "superseded", "expired", "revoked"}

-----------------------------------------------------------------------------
\* A strongest status of S, by STATUS_PRIORITY; it is one to one.
dominant_status(S) ==
  CHOOSE s \in S : \A t \in S : STATUS_PRIORITY[t] <= STATUS_PRIORITY[s]

accepted_proof_evidence(proof, purpose) ==
  /\ proof # None
  /\ proof.status = "pass"
  /\ proof.bound
  /\ proof.purpose = purpose

confluence_proof_covers(proof, ids) ==
  /\ ids # {}
  /\ accepted_proof_evidence(proof, "confluence")
  /\ ids \subseteq proof.ids

\* event_commitment leaves event_hash, previous_hash and signature_policy out,
\* so an event may carry its own commitment.
event_commitment(e) ==
  <<e.id, e.certificate, e.time, e.clock, e.kind, e.ancestry,
    e.conflictsWith, e.policyVersion>>

\* sorted() by (logical_clock, time, event_id); it is stable, so the place in
\* the log, i and j, decides between events with equal keys.
SortsBefore(e, i, f, j) ==
  \/ e.clock < f.clock
  \/ e.clock = f.clock /\ e.time < f.time
  \/ e.clock = f.clock /\ e.time = f.time /\ e.id < f.id
  \/ e.clock = f.clock /\ e.time = f.time /\ e.id = f.id /\ i < j

-----------------------------------------------------------------------------
(* The locals of fold_status.  clocks[c] is seen_clocks.get(c).            *)

\* A variant: no status holds until an event sets one.
EmptyFold_undecided ==
  [seenIds |-> {}, seenHashes |-> {}, clocks |-> [c \in {} |-> None],
   statuses |-> {}, coordinates |-> {}, blocks |-> {}, acceptedSeen |-> {}]

EmptyFold ==
  [seenIds |-> {}, seenHashes |-> {}, clocks |-> [c \in {} |-> None],
   statuses |-> {"active"}, coordinates |-> {}, blocks |-> {},
   acceptedSeen |-> {}]

Relevant(e, order) ==
  /\ e.certificate = CertificateId
  /\ order.accepted # {} => e.id \in order.accepted

OutsideTrace(e, order) ==
  \/ order.traceClass # {} /\ e.kind \notin order.traceClass
  \/ order.causalCut # {} /\ ~ (e.ancestry \subseteq order.causalCut)

MissingAncestry(e, seen) == e.ancestry \ seen

Unlinked(e, order, seen) ==
  \/ e.id \in seen
  \/ LET missing == MissingAncestry(e, seen) IN
       /\ missing # {}
       /\ ~ confluence_proof_covers(order.proof, {e.id} \cup missing)
  \/ /\ e.conflictsWith \in seen
     /\ ~ confluence_proof_covers(order.proof, {e.id, e.conflictsWith})

\* e.verified is what SignatureVerifier.verify answers for e; the default
\* verifier answers "unknown".
signature_result(e) ==
  IF e.sigRequired /\ e.sigResult = None THEN e.verified ELSE e.sigResult

Unsigned(e) ==
  \/ e.sigRequired /\ ~ e.signed
  \/ e.sigRequired /\ e.sigResult = "pass" /\ ~ e.sigProofMatches
  \/ signature_result(e) \in {"fail", "conflict", "unknown"}

Uncommitted(e, hashes) ==
  \/ e.eventHash # None /\ e.eventHash # event_commitment(e)
  \/ e.eventHash # None /\ e.eventHash \notin e.hashes
  \/ e.previousHash # None /\ e.previousHash \notin hashes
  \/ e.manifestDigest # None /\ e.manifestDigest \notin e.hashes

OtherPolicy(e, order) == e.policyVersion \notin {None, order.policyVersion}

OffLog(e, order) == order.logRoot # None /\ order.logRoot \notin e.hashes

Disagrees(e, order, clocks) ==
  /\ e.clock \in DOMAIN clocks
  /\ clocks[e.clock].status # EVENT_TO_STATUS[e.kind]
  /\ order.conflictOnDisagreement
  /\ ~ confluence_proof_covers(order.proof, {e.id, clocks[e.clock].id})

\* Variants of Branch with a plausible bug: a repeated id, or a disagreement,
\* is passed over instead of being recorded.
BranchIgnoringRepeats(acc, e, order) ==
  IF ~ Relevant(e, order) \/ e.id \in acc.seenIds THEN "skip"
  ELSE IF OutsideTrace(e, order) THEN "exclude"
  ELSE IF e.kind \notin StatusKind THEN "note" ELSE "apply"

BranchKeepingFirst(acc, e, order) ==
  IF ~ Relevant(e, order) THEN "skip"
  ELSE IF Unlinked(e, order, acc.seenIds) THEN "reject"
  ELSE IF e.kind \notin StatusKind THEN "note"
  ELSE IF Disagrees(e, order, acc.clocks) THEN "note"
  ELSE "apply"

\* The branch the loop body takes for e, in the order of its tests.
Branch(acc, e, order) ==
  IF ~ Relevant(e, order) THEN "skip"
  ELSE IF OutsideTrace(e, order) THEN "exclude"
  ELSE IF \/ Unlinked(e, order, acc.seenIds)
          \/ Unsigned(e)
          \/ Uncommitted(e, acc.seenHashes) THEN "reject"
  ELSE IF OtherPolicy(e, order) THEN "other_policy"
  ELSE IF OffLog(e, order) THEN "reject"
  ELSE IF e.kind \notin StatusKind THEN "note"
  ELSE IF Disagrees(e, order, acc.clocks) THEN "disagree"
  ELSE "apply"

-----------------------------------------------------------------------------
(* What each branch leaves behind.  blocks holds <<failure code, event>>.  *)

\* accepted_seen.add, only when the caller names accepted ids
Saw(acc, e, order) ==
  [acc EXCEPT !.acceptedSeen = IF order.accepted = {} THEN @ ELSE @ \cup {e.id}]

\* A variant: the block is recorded and the status is not.
BlockWithoutStatus(acc, e, code, status) ==
  [acc EXCEPT !.blocks = @ \cup {<<code, e.id>>}]

Block(acc, e, code, status) ==
  [acc EXCEPT !.blocks = @ \cup {<<code, e.id>>},
              !.statuses = @ \cup {status}]

Remember(acc, e) == [acc EXCEPT !.seenIds = @ \cup {e.id}]

Admit(acc, e) ==
  [Remember(acc, e) EXCEPT
     !.seenHashes = @ \cup {event_commitment(e)} \cup e.hashes]

Apply(acc, e) ==
  LET status == EVENT_TO_STATUS[e.kind] IN
  [Block(acc, e, FailureOf[e.kind], status) EXCEPT
     !.clocks = [c \in DOMAIN @ \cup {e.clock} |->
                   IF c = e.clock THEN [id |-> e.id, status |-> status]
                                  ELSE @[c]],
     !.coordinates = @ \cup {<<e.kind, status, e.id>>}]

\* One turn of the loop.
FoldEvent(acc, e, order) ==
  LET seen == Saw(acc, e, order)
      branch == Branch(acc, e, order)
  IN CASE branch = "skip" -> acc
       [] branch = "exclude" -> Block(seen, e, "trace_conflict", "conflict")
       [] branch = "reject" ->
            Remember(Block(seen, e, "trace_conflict", "conflict"), e)
       [] branch = "other_policy" ->
            Remember(Block(seen, e, "policy_block", "unknown"), e)
       [] branch = "note" -> Admit(seen, e)
       [] branch = "disagree" ->
            Block(Admit(seen, e), e, "trace_conflict", "conflict")
       [] branch = "apply" -> Apply(Admit(seen, e), e)

\* After the loop: accepted ids the log did not contain.
Absent(acc, order) == order.accepted \ acc.acceptedSeen

FoldResult(acc, order) ==
  LET absent == Absent(acc, order)
      statuses == acc.statuses \cup (IF absent = {} THEN {} ELSE {"conflict"})
  IN [dominant |-> dominant_status(statuses),
      blocks |-> acc.blocks \cup ({"trace_conflict"} \X absent),
      coordinates |-> acc.coordinates]
=============================================================================

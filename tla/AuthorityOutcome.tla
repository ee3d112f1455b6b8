-------------------------- MODULE AuthorityOutcome --------------------------
(***************************************************************************)
(* How dfcc.authority builds an AuthorityOutcome, what                     *)
(* types.validate_authority_outcome accepts and what the conditionals of   *)
(* status-authority-view.schema.json accept.  No state here.               *)
(*                                                                         *)
(* An outcome is a record: blocks is the set of failure codes of its       *)
(* blocking records, each of which carries a reason; reasons says whether  *)
(* it has reason refs of its own.                                          *)
(***************************************************************************)
EXTENDS Integers

VerdictCode == {"assert", "deny", "infeasible", "abstain", "unknown", "conflict"}

GateDecision == {"allow", "block", "unknown"}

AssociationStatus == {"out_of_frame", "unknown", "conflict", "empty", "mixed",
                      "positive", "negative", "undetermined"}

AdjudicationCode == {"accept", "reject", "indeterminate", "out_of_frame"}

AdequacyDirection == {"positive", "negative", "unknown", "conflict", "out_of_frame"}

allow_codes == {"allow", "accept", "assert", "active"}

decisive_codes == allow_codes \cup {"reject", "deny", "infeasible"}

\* kernel._direction
direction(verdict) ==
  CASE verdict = "assert" -> "positive"
    [] verdict = "deny" -> "negative"
    [] verdict = "infeasible" -> "infeasible"
    [] verdict = "abstain" -> "neutral"
    [] OTHER -> "none"

\* The <<code, direction>> pairs of a layer.
ALLOWED_OUTCOME_DIRECTIONS(layer) ==
  CASE layer = "represented" -> {<<v, direction(v)>> : v \in VerdictCode}
    [] layer = "operational" ->
         {<<"accept", "positive">>, <<"reject", "negative">>,
          <<"indeterminate", "neutral">>, <<"unknown", "none">>,
          <<"conflict", "none">>, <<"out_of_frame", "none">>}
    [] layer = "status" ->
         {"active", "unknown", "conflict", "out_of_frame", "expired",
          "revoked", "superseded", "invalid"} \X {"none"}
    [] layer = "policy" -> GateDecision \X {"none"}

\* FALSE where validate_authority_outcome raises a ValueError.
validate_authority_outcome(o) ==
  /\ <<o.code, o.direction>> \in ALLOWED_OUTCOME_DIRECTIONS(o.layer)
  /\ o.code \in allow_codes => o.blocks = {}
  /\ o.code \notin allow_codes => o.reasons \/ o.blocks # {}
  /\ o.code \notin decisive_codes => o.blocks # {}

\* The conditionals of the schema for a view of the given dominant status.
SchemaAccepts(o, dominant) ==
  /\ dominant # "active" =>
       o.layer = "status" /\ o.code = dominant /\ o.direction = "none"
  /\ o.code \in allow_codes => o.blocks = {}
  /\ o.code \notin allow_codes => o.reasons
  /\ o.gate # "allow" \/ o.code \notin decisive_codes =>
       o.code \notin decisive_codes /\ o.reasons /\ o.blocks # {}

-----------------------------------------------------------------------------
\* policy.gate_decision.  policy is what it finds: a grade below the minimum,
\* a blocked mode, an unknown policy.
gate_decision(policy, blocking_set) ==
  LET blocks == blocking_set
                  \cup (IF policy.lowGrade \/ policy.modeBlocked
                        THEN {"policy_block"} ELSE {})
  IN [gate |-> IF blocks # {} THEN "block"
               ELSE IF policy.unknown THEN "unknown" ELSE "allow",
      blocks |-> blocks]

\* A variant: the reasons of the blocks are not handed on.
status_outcome_unexplained(status, blocks) ==
  [layer |-> "status", code |-> status, direction |-> "none",
   blocks |-> blocks,
   gate |-> IF blocks # {} THEN "block" ELSE "unknown",
   reasons |-> FALSE]

status_outcome(status, blocks) ==
  [layer |-> "status", code |-> status, direction |-> "none",
   blocks |-> blocks,
   gate |-> IF blocks # {} THEN "block" ELSE "unknown",
   reasons |-> blocks # {}]

\* A variant: an undecided verdict is passed on without a block.
represented_outcome_unblocked(verdict, gate, blocks, kernelReasons) ==
  [layer |-> "represented", code |-> verdict, direction |-> direction(verdict),
   blocks |-> blocks,
   gate |-> IF blocks # {} THEN "block" ELSE gate,
   reasons |-> kernelReasons \/ blocks # {}]

represented_outcome(verdict, gate, blocks, kernelReasons) ==
  LET undecided == verdict \notin {"assert", "deny", "infeasible"} /\ blocks = {}
      local_blocks == blocks \cup (IF undecided THEN {"checker_unknown"} ELSE {})
  IN IF gate = "block"
     THEN [layer |-> "policy", code |-> "block", direction |-> "none",
           blocks |-> blocks, gate |-> gate, reasons |-> blocks # {}]
     ELSE [layer |-> "represented", code |-> verdict,
           direction |-> direction(verdict),
           blocks |-> local_blocks,
           gate |-> IF local_blocks # {} THEN "block" ELSE gate,
           reasons |-> \/ kernelReasons
                       \/ local_blocks # {}
                       \/ verdict \in {"deny", "infeasible"}]

\* The operational objects agree on a direction: ok is the adjudication of the
\* target that goes with it.
Agree(ops, way, ok) ==
  /\ ops.completion
  /\ ops.fiber = way
  /\ ops.prefixAdj = "accept" /\ ops.usageAdj = "accept" /\ ops.targetAdj = ok
  /\ ops.adequacy = way

\* The blocks _operational_outcome adds before it decides.
Shortfall(ops) ==
  (IF ops.derived THEN ops.blocks ELSE {"checker_unknown"})
  \cup (IF ops.completion THEN {} ELSE {"completion_missing"})
  \cup (IF \/ ops.fiber \in {"unknown", "undetermined"}
           \/ "indeterminate" \in {ops.prefixAdj, ops.usageAdj, ops.targetAdj}
           \/ ops.adequacy = "unknown"
        THEN {"checker_unknown"} ELSE {})

\* The code it decides on, and the blocks of the last alternatives.
Decide(verdict, gate, ops, blocks) ==
  IF gate = "block" THEN <<"unknown", "none", {}>>
  ELSE IF verdict = "assert" /\ Agree(ops, "positive", "accept") /\ blocks = {}
    THEN <<"accept", "positive", {}>>
  ELSE IF verdict = "deny" /\ Agree(ops, "negative", "reject") /\ blocks = {}
    THEN <<"reject", "negative", {}>>
  ELSE IF ops.fiber = "mixed" THEN <<"indeterminate", "neutral", {"assoc_mixed"}>>
  ELSE IF ops.fiber = "empty" THEN <<"unknown", "none", {"assoc_empty"}>>
  ELSE <<"unknown", "none", IF blocks = {} THEN {"artifact_conflict"} ELSE {}>>

operational_outcome(verdict, gate, blocks, ops) ==
  LET before == blocks \cup Shortfall(ops)
      decided == Decide(verdict, gate, ops, before)
      local_blocks == before \cup decided[3]
  IN [layer |-> "operational", code |-> decided[1], direction |-> decided[2],
      blocks |-> local_blocks,
      gate |-> IF local_blocks # {} THEN "block" ELSE gate,
      reasons |-> local_blocks # {} \/ decided[1] = "reject"]
=============================================================================

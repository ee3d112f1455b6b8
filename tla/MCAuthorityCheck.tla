-------------------------- MODULE MCAuthorityCheck --------------------------
(***************************************************************************)
(* The operational objects of the small instance: those that differ from   *)
(* one of the two agreements in at most one place, and in the fiber        *)
(* association, which _operational_outcome looks at again after the        *)
(* agreements.                                                             *)
(***************************************************************************)
EXTENDS AuthorityCheck, FiniteSets

Accepting ==
  [blocks |-> {}, completion |-> TRUE, fiber |-> "positive", prefixAdj |-> "accept",
   usageAdj |-> "accept", targetAdj |-> "accept", adequacy |-> "positive"]

Rejecting ==
  [Accepting EXCEPT !.fiber = "negative", !.targetAdj = "reject",
                    !.adequacy = "negative"]

Choices ==
  [blocks |-> SUBSET {"checker_unknown"}, completion |-> BOOLEAN,
   fiber |-> AssociationStatus, prefixAdj |-> AdjudicationCode,
   usageAdj |-> AdjudicationCode, targetAdj |-> AdjudicationCode,
   adequacy |-> AdequacyDirection]

Change(o, f, v) == [x \in DOMAIN o |-> IF x = f THEN v ELSE o[x]]

Changes(S) ==
  S \cup UNION {{Change(o, f, v) : v \in Choices[f]} : o \in S, f \in DOMAIN Choices}

Near == {Change(o, "fiber", v) : o \in Changes({Accepting, Rejecting}),
                                 v \in AssociationStatus}

MCOperationals ==
  {[derived |-> d, blocks |-> o.blocks, completion |-> o.completion,
    fiber |-> o.fiber, prefixAdj |-> o.prefixAdj, usageAdj |-> o.usageAdj,
    targetAdj |-> o.targetAdj, adequacy |-> o.adequacy] :
     d \in BOOLEAN, o \in Near}
=============================================================================

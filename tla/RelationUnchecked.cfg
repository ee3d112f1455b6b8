SPECIFICATION MCSpec
CONSTANTS
  None = None
  Bundles <- MCBundles
  Answers <- MCAnswers
  Blocks <- MCBlocks
  PreflightFaults <- MCPreflightFaults
  SingleFaults <- MCSingleFaults
INVARIANT RelationTakenIsChecked

SPECIFICATION Spec
CONSTANTS
  off = off
  on = on
  State <- MCState
  Predicate <- MCPredicate
  Horizon = 2
  Formulas <- MCFormulas
INVARIANTS
  AnswerIsFinal
  WithinHorizonEvaluates
CHECK_DEADLOCK FALSE

SPECIFICATION Spec
CONSTANTS
  off = off
  on = on
  State <- MCState
  Predicate <- MCPredicate
  Horizon = 2
  Formulas <- MCFormulas
INVARIANT CompiledClaimsEvaluate
CHECK_DEADLOCK FALSE

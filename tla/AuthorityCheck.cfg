SPECIFICATION Spec
CONSTANTS
  None = None
  MaxHorizon = 1
  Instants = {2, 4}
  Uncertainties = {1}
  StatusTimes = {0, 2, 3, 5, 6}
  Prefix = {p}
  Operationals <- MCOperationals
INVARIANTS
  TypeOK
  DecisiveIsEarned
  NeverRefused
  ViewsConform
  GuardPassTells
PROPERTY
  ImplementsStanding

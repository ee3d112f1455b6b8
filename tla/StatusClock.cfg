SPECIFICATION ClockSpec
CONSTANTS
  MaxHorizon = 3
  Instants = {4, 5, 6, 8, 9}
  Uncertainties = {0, 1, 2}
  StatusTimes = {0, 1, 2, 3, 4, 5, 6, 7, 8, 9, 10, 11, 12, 13}
INVARIANTS
  ClockTypeOK
  IndexNotInDoubt
PROPERTIES
  OneWay
CHECK_DEADLOCK FALSE

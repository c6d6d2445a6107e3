CONSTANTS
  Subject <- MCSubject
SPECIFICATION Spec
CHECK_DEADLOCK FALSE
INVARIANT
  EveryResponseIdentified

CONSTANTS
  Subject <- MCSubject
SPECIFICATION Spec
CHECK_DEADLOCK FALSE
INVARIANTS
  TypeOK
  AnsweredOnce
  ActsForTokenOwner
  LoggedAsAnswered
  ErrorsCarryId

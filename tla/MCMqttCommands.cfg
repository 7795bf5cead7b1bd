\* two commands, restarts, and another client that uses the first number
SPECIFICATION FairSpec
CONSTANTS
  Calls = {c1, c2}
  MaxCompleted = 1
  ForeignReports <- MCForeignReports
  MaxConnections = 2
  Restarts = TRUE
  NoCall = NoCall
INVARIANTS IndInv
PROPERTIES SettledOnce AnsweredOnItsConnection CallsEnd ImplementsOutcome
CHECK_DEADLOCK FALSE

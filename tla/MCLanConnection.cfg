SPECIFICATION FairSpec
CONSTANTS
  Requests = {r1, r2}
  Closers = {c1}
  MaxFailures = 1
  Cancels = TRUE
  Nobody = Nobody
INVARIANTS IndInv AwaitedAnswersCanCome ConnectedIsWatched
PROPERTIES PublishedWhenSubscribed RequestsEnd
CHECK_DEADLOCK FALSE

SPECIFICATION FairSpec
CONSTANTS
  Jobs = {j1, j2}
  Requests <- ManyRequests
  Sightings <- ManySightings
  Restarts = TRUE
  Cancels = TRUE
  None = None
  NoJob = NoJob
  NoPlan = NoPlan

INVARIANTS ApprovableIsComplete PlanRoutesAsAsked ErrorMeansEnded
PROPERTIES ImplementsLifecycle PreparationEnds
CHECK_DEADLOCK FALSE

SPECIFICATION Spec
CONSTANTS
  Jobs = {j1, j2}
  Calls = {c1, c2}
  Artifacts = {a1, a2}
  SizeOf <- Sizes
  Output <- Outputs
  UsesAms = {j1}
  RemoteName <- RemoteNames
  Names = {n1, n2}
  ToolFiles <- NameOfJ1
  SizeNamed = TRUE
  Outside = {"CANCELLED"}
  Sparse <- SparseReports
  NoJob = NoJob
  NoArtifact = NoArtifact
  NoCall = NoCall
  j1 = j1
  j2 = j2
  a1 = a1
  a2 = a2
  n1 = n1
  n2 = n2
SYMMETRY Symmetry
INVARIANTS VerifiedIsStored PrintsThePlan MergedIsLastWord
PROPERTIES BusyPrinterIsRefused
CHECK_DEADLOCK FALSE

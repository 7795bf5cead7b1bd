SPECIFICATION Spec
CONSTANTS
  Jobs = {j1, j2}
  Printers = {p1}
  Tokens = {t1, t2}
  Calls = {c1, c2}
  Kinds = {"execute", "cancel"}
  Cancellable = {c1, c2}
  Firmwares = {f1}
  Writable = {p1}
  p1 = p1
  f1 = f1
  PrinterOf <- OnePrinterOf
  PlanFirmware <- OnePlanFirmware
  NoJob = NoJob
  NoToken = NoToken
SYMMETRY Symmetry
INVARIANTS StartedAtMostOnce InFlightJobIsOwned IndInv CancelledWasStopped NoJobAheadOfItsApproval EffectsAreApproved
PROPERTIES ImplementsLifecycle RunningFailureExplained
CHECK_DEADLOCK FALSE

SPECIFICATION FairSpec
CONSTANTS
  Jobs = {j1}
  Printers = {p1}
  Tokens = {t1}
  Calls = {c1, c2}
  Kinds = {"execute", "pause", "resume", "cancel", "stop_printer"}
  Cancellable = {}
  Firmwares = {f1, f2}
  Writable = {p1}
  c1 = c1
  c2 = c2
  j1 = j1
  t1 = t1
  p1 = p1
  f1 = f1
  PrinterOf <- OnePrinterOf
  PlanFirmware <- OnePlanFirmware
  NoJob = NoJob
  NoToken = NoToken

PROPERTIES RequestsEnd InterruptedStatesAreLeft EndIsNoticed
CHECK_DEADLOCK FALSE

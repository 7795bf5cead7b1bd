SPECIFICATION Spec
CONSTANTS
  Jobs = {j1}
  Printers = {p1}
  Tokens = {t1, t2}
  Calls = {c1, c2}
  Kinds = {"execute", "cancel"}
  Cancellable = {}
  Firmwares = {f1}
  Writable = {p1}
  c1 = c1
  c2 = c2
  j1 = j1
  t1 = t1
  t2 = t2
  p1 = p1
  f1 = f1
  PrinterOf <- OnePrinterOf
  PlanFirmware <- OnePlanFirmware
  NoJob = NoJob
  NoToken = NoToken

INVARIANTS CancelledIsNotPrinting
CHECK_DEADLOCK FALSE

SPECIFICATION Spec
CONSTANTS
  Jobs = {j1}
  Printers = {p1}
  Tokens = {t1}
  Calls = {c1}
  Kinds = {"execute"}
  Cancellable = {}
  Firmwares = {f1}
  Writable = {p1}
  c1 = c1
  j1 = j1
  t1 = t1
  p1 = p1
  f1 = f1
  PrinterOf <- OnePrinterOf
  PlanFirmware <- OnePlanFirmware
  NoJob = NoJob
  NoToken = NoToken

PROPERTIES AcknowledgementMeansRunning
CHECK_DEADLOCK FALSE

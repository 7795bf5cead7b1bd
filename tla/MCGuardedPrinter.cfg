SPECIFICATION Spec
CONSTANTS
  Jobs = {j1}
  Printers = {p1, p2}
  Tokens = {t1, t2}
  Calls = {c1, c2}
  Actions = {erase}
  Operation <- SomeOperations
  NeverExposed = {}
  PrinterOf <- OnePrinterOf
  Registered <- BothWritable
  NoJob = NoJob
  p1 = p1
  lights = lights
  erase = erase
  raw = raw
  upgrade = upgrade
  gcode = gcode
INVARIANTS PerformedOnTheJobsPrinter
CHECK_DEADLOCK FALSE

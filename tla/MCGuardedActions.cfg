SPECIFICATION Spec
CONSTANTS
  Jobs = {j1, j2}
  Printers = {p1, p2}
  Tokens = {t1}
  Calls = {c1, c2}
  Actions = {lights, gcode, raw, upgrade}
  Operation <- SomeOperations
  NeverExposed = {upgrade}
  PrinterOf <- OnePrinterOf
  Registered <- BothWritable
  NoJob = NoJob
  p1 = p1
  lights = lights
  erase = erase
  raw = raw
  upgrade = upgrade
  gcode = gcode
SYMMETRY Symmetry
INVARIANTS OneActionPerApproval PerformedAsApproved
PROPERTIES RunInTheApprovedState ExposedWhenPerformed
CHECK_DEADLOCK FALSE

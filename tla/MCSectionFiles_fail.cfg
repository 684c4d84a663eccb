SPECIFICATION Spec
CONSTANTS
  ma = ma  mb = mb  mc = mc  SsfA = A  SsfB = B  sx = sx  sy = sy
  OtherProc = other
  Requests = {r1, r2, r3}
  Handles = {h1, h2, h3}
  Slots = {sx}
  SlotSize = 4
  Files = {f1, f2}
  Members = {ma, mc}
  Archive <- ArchiveOfTwo
  Units <- UnitsOfTwo
  Cluster = 2
  Main = Main
  Loader = loader
  Procs = {loader}
  SlotsOf <- OneProcess
  SavesAnytime = FALSE
  MaxFailures = 1
  Nil = Nil
SYMMETRY Interchange
INVARIANT RequestsAccounted
CHECK_DEADLOCK FALSE

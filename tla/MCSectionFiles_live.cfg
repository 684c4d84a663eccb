SPECIFICATION FairSpec
CONSTANTS
  ma = ma  mb = mb  mc = mc  SsfA = A  SsfB = B  sx = sx  sy = sy
  OtherProc = other
  Requests = {r1, r2}
  Handles = {h1, h2}
  Slots = {sx, sy}
  SlotSize = 4
  Files = {f1}
  Members = {ma, mc}
  Archive <- ArchiveOfTwo
  Units <- UnitsOfTwo
  Cluster = 2
  Main = Main
  Loader = loader
  Procs = {loader, other}
  SlotsOf <- OneSlotEach
  SavesAnytime = FALSE
  MaxFailures = 0
  Nil = Nil
PROPERTIES EveryCallEnds

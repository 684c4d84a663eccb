SPECIFICATION Spec
CONSTANTS
  ma = ma  mb = mb  mc = mc  SsfA = A  SsfB = B  sx = sx  sy = sy
  OtherProc = other
  Requests = {r1, r2, r3}
  Handles = {h1, h2}
  Slots = {sx, sy}
  SlotSize = 3
  Files = {f1, f2}
  Members = {ma, mb, mc}
  Archive <- ArchiveOf
  Units <- UnitsOf
  Cluster = 2
  Main = Main
  Loader = loader
  Procs = {loader, other}
  SlotsOf <- OneSlotEach
  SavesAnytime = FALSE
  MaxFailures = 0
  Nil = Nil
SYMMETRY Interchange
INVARIANTS HandlesAccounted BuffersKept RightMember RequestsAccounted

SPECIFICATION Spec
CONSTANTS
  Links = {k1, k2, k3, k4}
  Active = active
  Lists = {active}
  Free = free
  Hdrs = {b1, b2, b3}
  Nil = Nil
  Priorities = {1, 2}
  Kinds <- Flagged
  MaxSleep = 1
  MaxInstance = 3
SYMMETRY Interchange
INVARIANTS CursorOnList LinksAccounted
PROPERTIES ProcScheduleSpec

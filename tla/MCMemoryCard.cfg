CONSTANTS
  Cards = {a, b}
  Nil = Nil
  Regions = 1
  Versions = {2}
  MaxFaults = 2
SPECIFICATION Spec
INVARIANTS NewFileComplete OwnData
PROPERTIES FormatTold CardStoreSpec
SYMMETRY Either

SPECIFICATION Spec
CONSTANTS
  Links = {k1, k2, k3}
  Lists = {la, lb}
  Free = free
  Hdrs = {h1, h2}
  Nil = Nil
  MaxInstance = 2
SYMMETRY Interchange
INVARIANT ListsSound
PROPERTIES LinkListsSpec SearchComplete

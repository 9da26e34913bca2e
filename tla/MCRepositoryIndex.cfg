SPECIFICATION Spec
CONSTANTS
  a = a
  b = b
  c = c
  plain = plain
  user = user
  large = large
  Paths = {a, b, c}
  PathOrder <- MCPathOrder
  Blobs = {plain, user, large}
  NoBlob = NoBlob
  Imports <- MCImports
  Size <- MCSize
  Trees <- MCTrees
  NoTree = NoTree
  Workers = {w1, w2}
  MaxFiles = 2
  MaxBytes = 3
  MaxPushes = 3
INVARIANTS
  GraphIsSound
  SerialIndexIsFull
  SerialIndexIsCurrent
  SerialIndexIsLimited
PROPERTIES
  FilesSelfHeal
\* When every push is indexed nothing is left to do.
CHECK_DEADLOCK FALSE

SPECIFICATION Spec
CONSTANTS
  HeapStart = 1
  HeapEnd = 15
  HeadSize = 2
  MinimumFreeBlockSize = 1
  MaximumPaddingAlignment = 4
  Sizes = {1, 2, 5}
  Alignments = {1, 4}
  NewSizes = {0, 1, 2, 5}
INVARIANTS FreeSucceeds

SPECIFICATION Spec
CONSTANTS
  HeapStart = 1
  HeapEnd = 17
  HeadSize = 2
  MinimumFreeBlockSize = 1
  MaximumPaddingAlignment = 4
  Sizes = {1, 2, 5}
  Alignments = {1, 4}
  NewSizes = {0, 1, 2, 5}
INVARIANTS HeapInv BytesAreAccounted AllocatableIsFound
PROPERTIES AllocatorSpec

\* Two disks of five inodes and three blocks, mirrored and striped: directories and
\* files outgrow their first blocks, and both bitmaps fill.
CONSTANTS
  NDisks = 2
  NumInodes = 5
  NumBlocks = 3
  InodeShift = 2
  NDirect = 2
  NIndirect = 1
  NSlots = 1
  Names = {a, b}
  Values = {v, w}
  Hole = Hole
  MaxLength = 2
  ArraySizes <- MCArraySizes
  Sums <- MCSums
SPECIFICATION Spec
INVARIANT ImagesExact
 
 
PROPERTY ImplementsFileTree
SYMMETRY MCSymmetry
CHECK_DEADLOCK FALSE

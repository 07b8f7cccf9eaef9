\* A tensor of thirteen kinds, types and shapes and one of two, with all of their contents
\* of two numbers and two strings; the ints are those of the build.
CONSTANTS
  Tensors = {t1, t2}
  T1 = t1
  Makes <- MCMakes
  Values <- MCValues
  Vectors <- MCVectors
  Ranges <- MCRanges
  Unit = 2
  Blank = Blank
  A = A
  Null = Null
  IntMax = 2147483647
  Careful = TRUE
SPECIFICATION Spec
INVARIANT AccessorsReachAllCells
PROPERTY ImplementsContents

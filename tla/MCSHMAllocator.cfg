CONSTANTS
  main = main
  worker = worker
  m1 = m1
  m2 = m2
  w1 = w1
  w2 = w2
  b1 = b1
  NoID = NoID
  Procs <- MCProcs
  Slots <- MCSlots
  ProcOf <- MCProcOf
  Blocks <- MCBlocks
  SizeOf <- MCSizeOf
  MaxReuse = 1
SYMMETRY Symmetry
SPECIFICATION Spec
INVARIANT TypeOK
INVARIANT CountsExact
INVARIANT HeldMemoryIsStable
INVARIANT NoLeak
PROPERTY ImplementsSharedBlocks

CONSTANTS
  n1 = n1
  n2 = n2
  i1 = i1
  o1 = o1
  d1 = d1
  x1 = x1
  b1 = b1
  b2 = b2
  small = small
  large = large
  Nodes <- OneNode
  Inputs <- OneInput
  Outputs <- TwoOutputs
  ShapeInputs = {}
  DDSOutputs <- OneDDS
  Tensors <- TwoTensors
  Buffers <- TwoBuffers
  Shapes <- TwoShapes
  Profiles = {0, 1}
  DefaultProfile = 0
  Budgets = {0, 1}
  Automatic = 1
  Need <- ScratchNeed
  EngineNeed <- LargestNeed
  Sessions <- OwnOrKept
  None = None
  Scalar = Scalar
  Deferred = Deferred
SPECIFICATION Spec
INVARIANTS BindingsFresh ContextMemoryCovers ContextOutlivesWork
SYMMETRY BufferSymmetry

CONSTANTS
  n1 = n1
  n2 = n2
  i1 = i1
  o1 = o1
  d1 = d1
  x1 = x1
  b1 = b1
  b2 = b2
  small = small
  large = large
  Nodes <- TwoNodes
  Inputs <- OneInput
  Outputs <- OneOutput
  ShapeInputs <- OneInput
  DDSOutputs = {}
  Tensors <- OneTensor
  Buffers <- OneBuffer
  Shapes <- OneShape
  Profiles = {0}
  DefaultProfile = 0
  Budgets = {0, 1}
  Automatic = 1
  Need <- ScratchNeed
  EngineNeed <- LargestNeed
  Sessions <- UserStream
  None = None
  Scalar = Scalar
  Deferred = Deferred
SPECIFICATION Spec
INVARIANTS UpdateReportsTruth
PROPERTIES BudgetOnlyWithoutContext


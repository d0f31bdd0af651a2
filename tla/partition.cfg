SPECIFICATION Spec
CONSTANTS
  Worlds <- MCWorlds
INVARIANTS
  ClaimsAreReported
  FusedGraphAcyclic
  ControlFlowWhole
PROPERTY
  OnlyCyclesBroken
CHECK_DEADLOCK FALSE

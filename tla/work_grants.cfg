\* Two EXPLORE stages and a bundle of two, with room for all of them only if none overruns.
CONSTANTS
  Solo = {e1, e2}
  Bundle = {v1, v2}
  SoloCost = 2
  MemberCost = 1
  AnchorCost = 2
  CpuMs = 7
  SolverCap = 4
  VerifyCap = 2
  ControllerCap = 1
  MaxActual = 3
  MaxCharge = 2
SPECIFICATION Spec
CHECK_DEADLOCK FALSE
INVARIANTS ReplayAgrees WorkIsPaid NothingLeftOpen ClaimIsBacked

SPECIFICATION Spec
CONSTANTS
  gw0 = gw0
  gw1 = gw1
  gw2 = gw2
  t1 = t1
  t2 = t2
  t3 = t3
  t4 = t4
  Nobody = Nobody
  Workers <- MCWorkers
  Tests <- MCTests
  FunctionOf <- MCFunctionOf
  ModuleOf <- MCModuleOf
  FlushInterval = 2
  MaxFaults = 2
SYMMETRY Perms
CHECK_DEADLOCK FALSE
INVARIANTS OthersSurvive Complete

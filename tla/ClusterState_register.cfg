SPECIFICATION FairSpec
CONSTANTS
  w1 = w1
  w2 = w2
  w3 = w3
  old = old
  new = new
  Free = Free
  Callers <- MCCallers
  Operators = {old, new}
  Home <- MCHome
  Keys = {"kubeconfig", "access"}
  MaxCalls = 2
  MaxFaults = 1
INVARIANTS ServiceTypeOK LockInv CopyInv
PROPERTIES KeepsRegister CallsReturn
CHECK_DEADLOCK FALSE

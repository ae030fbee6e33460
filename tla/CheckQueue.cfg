\* Two workers, any number of controls.
SPECIFICATION Spec
CONSTANTS
  Worker = {"w1", "w2"}
  Master = "m"
  Check = {1, 2, 3, 4}
  Fails = {1, 2}
  nBatchSize = 2
INVARIANTS ControlAsserts ResultExact
PROPERTY WaitReturns

SPECIFICATION Spec
CONSTANTS
  Tasks = {write, review}
  Agents = {g1, g2}
  Accounts = {"acct"}
  WorkModels <- Models
  TaskModel <- TaskModels
  Requests = {r1, r2}
  CompletionTasks = {review}
  Environments <- AllEnvironments
  LeaseTTL = 1
  StartCost = 2
  None = None
  MaxTime = 2
  MaxAttempts = 2
SYMMETRY Symmetry
INVARIANTS
  StartsArePaced
  OneLiveAttemptPerTask
  GrantsAreOwned
  AssigneeHoldsNewestPermit
PROPERTIES
  StartsWithinSlots
CHECK_DEADLOCK FALSE

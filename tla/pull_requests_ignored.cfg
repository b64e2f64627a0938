SPECIFICATION Spec
CONSTANTS
  Tasks = {"t1", "t2"}
  PRs = {"p1", "p2"}
  Owners = {"o1"}
  OwnerOf <- OneOwner
  Mergers = {"m1", "m2"}
  Environments <- WrittenOnly
  BackoffInterval = 1
  MaxRows = 2
PROPERTIES
  RequestedChangesBounce
CHECK_DEADLOCK FALSE

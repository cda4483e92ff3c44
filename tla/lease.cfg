SPECIFICATION LeaseSpec
CONSTANTS
  Processes = {p1, p2, p3}
  None = None
INVARIANTS
  OneOwner
CHECK_DEADLOCK FALSE

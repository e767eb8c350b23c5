SPECIFICATION Spec
CONSTANTS
  c1 = c1
  c2 = c2
  Callers = {c1, c2}
  NONE = NONE
  QUEUE_SIZE = 2
  Kinds = {"read", "write"}
  Sizes = {1}
  Counts = {1}
  Faults = {"error reply", "bad tag", "bad type", "too big", "0 byte", "big count", "flush"}
  MaxFaults = 1
  MaxReqs = 2
  SockCap = 2
SYMMETRY Symmetry
INVARIANTS TypeOK SlotOwners RepliesMatch BufferOwned

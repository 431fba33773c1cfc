SPECIFICATION Spec
CONSTANTS
  Clients = {a, b}
  Slots = {s1, s2, s3, s4}
  NoClient = NoClient
  NoSlot = NoSlot
  ErrorCodes = {}
  Paths = {"path"}
  Addrs = {49}
  DefaultAddr = 48
  TimeoutValues = {0}
  DefaultTimeout = 0
SYMMETRY Symmetry
CONSTRAINT NothingLost
INVARIANTS
  FlagNotStuck
  InstancesNotShared

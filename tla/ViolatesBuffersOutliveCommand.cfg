SPECIFICATION CommandsSpec
CONSTANTS
  Clients = {a}
  Slots = {s1, s2}
  NoClient = NoClient
  NoSlot = NoSlot
  ErrorCodes = {2}
  Paths = {"path"}
  Addrs = {49}
  DefaultAddr = 48
  TimeoutValues = {0}
  DefaultTimeout = 0
  U32Size = 131072
  Lengths = {32}
  Draws = {8}
  Oids = {57568}
  Counts = {1}
  Usages <- SomeUsages
SYMMETRY SlotSymmetry
INVARIANT
  BuffersOutliveCommand

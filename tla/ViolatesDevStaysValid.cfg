SPECIFICATION Spec
CONSTANTS
  Clients = {a, b}
  Slots = {s1, s2, s3}
  NoClient = NoClient
  NoSlot = NoSlot
  ErrorCodes = {2}
  Paths = {"path", "empty", "nul"}
  Addrs = {49}
  DefaultAddr = 48
  TimeoutValues = {0}
  DefaultTimeout = 0
SYMMETRY Symmetry
INVARIANT
  DevStaysValid

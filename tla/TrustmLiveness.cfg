SPECIFICATION FairSpec
CONSTANTS
  Clients = {a}
  Slots = {s1, s2, s3}
  NoClient = NoClient
  NoSlot = NoSlot
  ErrorCodes = {}
  Paths = {"path", "empty", "nul"}
  Addrs = {0, 49}
  DefaultAddr = 48
  TimeoutValues = {0, 1}
  DefaultTimeout = 0
INVARIANTS
  TypeOK
  UsesWhatWasAsked
PROPERTIES
  EveryCallReturns

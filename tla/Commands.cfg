SPECIFICATION CommandsSpec
CONSTANTS
  Clients = {a}
  Slots = {s1, s2}
  NoClient = NoClient
  NoSlot = NoSlot
  ErrorCodes = {2}
  Paths = {"path"}
  Addrs = {49}
  DefaultAddr = 48
  TimeoutValues = {0}
  DefaultTimeout = 0
  U32Size = 131072
  Lengths <- SliceLengths
  Draws <- OutputLengths
  Oids = {57568}
  Counts = {0, 255}
  Usages <- SomeUsages
SYMMETRY SlotSymmetry
INVARIANTS
  CSeesWhatWasAsked
  PointersAreWhatTheyAreReadAs
  WritesStayInside
  AnswersFit
  OkMeansDone
  OkIsTheChipsAnswer

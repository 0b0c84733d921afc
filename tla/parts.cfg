CONSTANTS
  r0 = r0
  r1 = r1
  b0 = b0
  b1 = b1
  Ranks = {r0, r1}
  Blocks = 4
  Steps = 4
  Requests = 2
  Candidates <- Settings
  Shares = {0, 1}
  Branches = {b0, b1}
  Layers = 2
  MaxChunks = 4
  Clips <- SomeClips
  BatchSizes = {1, 2, 4}
  MaxVerified = 2
  MaxClips = 3
  MaxResets = 1
  MaxFrames = 7
  Chunks = {2, 3, 5}
  Inputs <- SmallInputs
  Names = {"rope", "text"}
  Addresses = {1, 2}
  Contents = {"x", "y"}
  MaxVersion = 1
  MaxRequests = 1
SPECIFICATION Spec
INVARIANTS ReuseIsSound RequestsAreApart RaceFree BatchesAreSound AsReference CopiesAsReference ConstantsAreCurrent
PROPERTIES PartEnds
CHECK_DEADLOCK FALSE

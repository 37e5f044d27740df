SPECIFICATION Spec
CONSTANTS
  Rich = Rich
  Empty = Empty
  W = W
  X = X
  Code = Code
  None = None
  Zero = Zero
  Addresses = {1, 2}
  Slots = {1, 2}
  Words = {W, X}
  Infos = {Rich, Empty}
  EmptyInfo = Empty
  Codes = {Code}
  InitWorlds <- MCInitWorlds
  InitPosts <- MCInitPosts
INVARIANTS
  TypeOK
  ReadsAreOfPreState
  UpdateIsReference
  MapsInSync
  ValidBlockAccepted
  AcceptedOnlyIfValid

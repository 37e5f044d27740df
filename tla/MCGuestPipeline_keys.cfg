SPECIFICATION Spec
CONSTANTS
  Rich = Rich
  Empty = Empty
  W = W
  X = X
  Code = Code
  None = None
  Zero = Zero
  Addresses = {1, 2}
  Slots = {1, 2}
  Words = {W, X}
  Infos = {Rich, Empty}
  EmptyInfo = Empty
  Codes = {}
  InitWorlds <- MCInitWorlds
  InitPosts <- MCInitPosts
INVARIANTS
  KeysNotUsed

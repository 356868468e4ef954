SPECIFICATION Spec
CONSTANTS
  Keys = {1, 2, 3}
  Vals = {v1, v2}
  MaxHeight = 2
  None = None
  Addresses = {a1, a2, a3}
  Null = Null
  HeadNode = HeadNode
SYMMETRY AnyAddress
INVARIANTS ListsAreNested SearchFindsEntries
PROPERTY ActsLikeMap

SPECIFICATION Spec
CONSTANTS
  Keys = {k1, k2}
  Payloads <- MCPayloads
  TTLs = {0, 1}
  KeyLists <- MCKeyLists
  Absent = Absent
  Forever = Forever
  MaxTime = 2
  MaxBytes = 2
INVARIANT BytesCountData
PROPERTY ImplementsExpiringMap
SYMMETRY KeySymmetry

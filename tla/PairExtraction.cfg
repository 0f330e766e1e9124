CONSTANTS
  a = a
  b = b
  c = c
  d = d
  m1 = m1
  m2 = m2
  m3 = m3
  NewGate = {n1, n2, n3, n4, n5, n6, n7, n8}
  Gate <- MCGate
  Kind <- MCKind
  Network <- MCNetwork
  Assignment <- MCAssignment
SPECIFICATION Spec
INVARIANTS Inv ReplaceSafe OneInputLeft SameFunction
PROPERTIES SortKeysStable MostFrequentFirst ImplementsSharing

CONSTANTS
  a = a
  b = b
  c = c
  p = p
  q = q
  u = u
  v = v
  t = t
  NewGate = {n1, n2, n3, n4, n5, n6, n7, n8, n9}
  Gate <- MCGate
  Kind <- MCKind
  Network <- MCNetwork
  Assignment <- MCAssignment
SPECIFICATION ConvertSpec
INVARIANTS NoReversedKey

CONSTANTS
  p1 = p1
  p2 = p2
  p3 = p3
  p4 = p4
  UintMax = 1000
  Implicant <- MCImplicant
  Charts <- MCCharts
SPECIFICATION Spec
INVARIANTS SearchInv Minimum
PROPERTIES SearchEnds

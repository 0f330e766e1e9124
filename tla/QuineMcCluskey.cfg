CONSTANTS
  x = x
  y = y
  z = z
  UintMax = 1000
  Variable <- MCVariable
  Implicant <- MCImplicant
  Dnfs <- MCDnfs
  Charts = {}
SPECIFICATION MinimizeSpec
INVARIANTS NumbersExact ChartOfPrimes ResultEquivalent ResultMinimum

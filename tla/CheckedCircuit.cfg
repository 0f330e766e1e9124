CONSTANTS
 NumOfInputs = 3
 NumOfGates = 3
 Number = {0, 1}
SPECIFICATION CheckedSpec
INVARIANTS OutputReachesAll GateBound ResultExact

CONSTANTS
 NumOfInputs = 3
 Circuits <- MCCircuits
 Addresses <- MCAddresses
 Gate <- MCGate
 Kind <- MCKind
 Network <- MCNetwork
 Assignment <- MCAssignment
 NewGate = {n1, n2, n3, n4, n5, n6, n7, n8, n9}
SPECIFICATION ConvertSpec
INVARIANTS OutputPreserved
PROPERTIES SizeNeverGrows ReturnsTwoInputCircuit

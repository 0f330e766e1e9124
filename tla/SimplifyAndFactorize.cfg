CONSTANTS
 NumOfInputs = 3
 Circuits <- SharingCircuits
SPECIFICATION Spec
INVARIANTS FunctionKept FactorsAlive FlagsClean
PROPERTIES OptimizeEnds

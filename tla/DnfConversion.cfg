CONSTANTS
 NumOfInputs = 3
 Circuits <- ConvertedCircuits
SPECIFICATION Spec
INVARIANTS FunctionKept ReadBack NoDnfError

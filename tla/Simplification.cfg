CONSTANTS
 NumOfInputs = 3
 Circuits <- Nets
SPECIFICATION Spec
INVARIANTS FunctionKept NoMarkLeft
PROPERTIES KeyKept SimplifyEnds

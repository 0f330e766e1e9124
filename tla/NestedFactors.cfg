CONSTANTS
 NumOfInputs = 3
 Circuits <- NestedFactors
SPECIFICATION Spec
INVARIANTS FactorsAlive


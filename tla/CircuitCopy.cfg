CONSTANTS
  NumOfInputs = 2
  MaxCircuits = 3
  Circuits <- MCCircuits
SPECIFICATION Spec
INVARIANTS FunctionKept NoExpiredTwin NotsAtInputs CopiesDisjoint NothingLeft

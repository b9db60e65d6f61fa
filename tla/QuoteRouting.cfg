SPECIFICATION Spec
CONSTANTS
    Amounts = {1, 2, 3, 4, 5, 6, 7}
INVARIANTS
    BestExecution

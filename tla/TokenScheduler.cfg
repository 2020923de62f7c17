SPECIFICATION Spec
CONSTANTS
    Modulus = 8
    Budgets <- EveryBudget
INVARIANTS
    TypeOK
    DecidesBest

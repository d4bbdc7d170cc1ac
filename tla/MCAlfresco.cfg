SPECIFICATION Spec
CONSTANTS
    Names = {"a", "b"}
    Docs = {1, 2, 3, 4, 5}
    Ids = {1, 2, 3}
    None = None
    Budgets <- MCBudgets
INVARIANTS
    Kept
    Settles
CHECK_DEADLOCK FALSE

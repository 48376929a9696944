CONSTANTS
    PageSize = 1
    Overlapping = FALSE
    Budgets <- MCBudgets
SPECIFICATION ChatSpec
CHECK_DEADLOCK FALSE
INVARIANTS
    NothingIsHidden

SPECIFICATION Spec
CONSTANTS
  MaxAttempts = 2
  MaxHead = 1
  MaxDisturbed = 0
INVARIANT BudgetIncludesInitialAttempt

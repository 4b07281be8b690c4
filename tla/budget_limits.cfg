SPECIFICATION FairSpec
CONSTANTS
  Workers = 2
  BatchSize = 2
  MaxBatches = 3
  MaxAttempts = 5
  MaxCost = 12
  Charges = {1, 3}
  MaxTries = 3
  MaxGroups = 3
  MaxRounds = 2
  Reservation <- MCReservation
INVARIANTS BudgetRespected CompleteCostCovered GroupsAnswered
PROPERTIES BreakerLatches JudgeReturns
\* The bound on assessments is reached.
CHECK_DEADLOCK FALSE

SPECIFICATION FairDeploySpec
CONSTANTS
  Workers <- MCWorkers
  MaxFaults = 3
INVARIANT AdmittedCanLogIn
INVARIANT OutcomeIsTrue
PROPERTY TransactionSettles
CHECK_DEADLOCK FALSE

CONSTANTS
  p1 = p1
  p2 = p2
  p3 = p3
  NoProc = NoProc
  Proc = {p1, p2, p3}
  Gen = {1, 2}
  GenOf <- Rollout
  MaxEpoch = 3
  MaxFaults = 1
CHECK_DEADLOCK FALSE
SPECIFICATION RegistrationFairSpec
PROPERTY RevokedGrantIsPowerless
PROPERTY ImplementsWorkerLease
PROPERTY AdmittedGenerationServes

CONSTANTS
  r1 = r1
  r2 = r2
  r3 = r3
  Recorders = {r1, r2, r3}
  Quorums <- MCQuorums
  Proposers = {1, 2}
  Offers <- OwnValue
  Sampled = {1}
  Failing = {}
  Restarting = {}
  Preferred = 9
  MAX = 3
  StepLimit <- LimitTen
  MaxSeq = 1
  Disseminate = FALSE
VIEW InspectRelevant
SYMMETRY Symmetry
SPECIFICATION InspectSpec
INVARIANT InspectionAgreement
CHECK_DEADLOCK FALSE

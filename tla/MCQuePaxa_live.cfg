\* A competitor that may restart again and again or stop for good.
CONSTANTS
  r1 = r1
  r2 = r2
  Recorders = {r1, r2}
  Quorums <- MCQuorums
  Proposers = {1, 2}
  Preferred = 9
  Offers <- OwnValue
  Sampled = {1, 2}
  MAX = 3
  StepLimit <- LimitLive
  MaxSeq = 1
  Failing = {}
  Restarting = {2}
  Disseminate = FALSE
SPECIFICATION FairSpec
PROPERTY LoneProposerDecides
CHECK_DEADLOCK FALSE

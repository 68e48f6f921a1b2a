\* A preferred proposer and a competitor that may give up, through two full rounds;
\* decision proofs get installed at recorders.
CONSTANTS
  r1 = r1
  r2 = r2
  r3 = r3
  Recorders = {r1, r2, r3}
  Quorums <- MCQuorums
  Proposers = {1, 2}
  Preferred = 1
  Offers <- OwnValue
  Sampled = {1}
  MAX = 3
  StepLimit <- LimitTen
  MaxSeq = 1
  Failing = {2}
  Restarting = {}
  Disseminate = TRUE
SPECIFICATION Spec
INVARIANTS OutcomesAgree  LaterRoundsKeepValue PhaseThreeHasAggregate
PROPERTY ImplementsConsensus
VIEW Relevant
SYMMETRY Symmetry
CHECK_DEADLOCK FALSE

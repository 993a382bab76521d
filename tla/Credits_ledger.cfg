SPECIFICATION FairSpec
CONSTANTS
  u1 = u1  h1 = h1  h2 = h2
  Users <- OneUser
  LastDay = 2
  Threads <- TwoThreads
  Allowance = 3
  Costs <- MixedCosts
  MaxAttempts = 5
  Durable = FALSE
INVARIANTS
  WithinAllowance
  TwoPassesSuffice
  StatusAfterSpending
PROPERTIES
  ImplementsAccount
  EverySpendAnswered

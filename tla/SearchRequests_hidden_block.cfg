SPECIFICATION RequestsSpec
CONSTANTS
  u1 = u1  h1 = h1  h2 = h2
  Users <- OneUser
  Callers <- TwoHandlers
  LastDay = 1
  Allowance = 3
  Costs <- SmallCosts
  Durable = TRUE
  LiveLimit = 1
  Lookups = 1
  Anonymous = Anonymous
CHECK_DEADLOCK FALSE
SYMMETRY HandlerSymmetry
INVARIANTS
  BlockNeverHidden

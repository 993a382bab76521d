SPECIFICATION PricingSpec
CONSTANTS
  s1 = s1  s2 = s2  t1 = t1
  Searches <- TwoSearches
  Trips <- OneTrip
  Keys <- AllKeys
  Airports = 2
  HasKey = TRUE
  Calls = 3
  MaxEntries = 2
  TTL = 1
  MaxFetch = 1
  LastInstant = 2
CHECK_DEADLOCK FALSE
SYMMETRY Interchangeable
INVARIANTS
  ServedIsRecent
  EstimateOnlyWhenExhausted
  RefusalIsToldApart
PROPERTIES
  PaidOnlyWhenNeeded
  ImplementsCache

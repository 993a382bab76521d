SPECIFICATION LimiterSpec
CONSTANTS
  i1 = i1  k1 = k1  h1 = h1  h2 = h2  h3 = h3
  Instances <- OneInstance
  Keys <- OneKey
  Threads <- ThreeThreads
  MaxRequests = 2
  Window = 3
  Delay = 2
  LastInstant = 8
SYMMETRY ThreadSymmetry
INVARIANTS
  AtMostMaxPerWindow
PROPERTIES
  RejectedOnlyWhenFull

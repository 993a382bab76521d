SPECIFICATION SessionSpec
CONSTANTS
  a = a  tab1 = tab1  tab2 = tab2  c1 = c1  c2 = c2
  Garbage = Garbage
  NoToken = NoToken
  Nobody = Nobody
  Users <- OneUser
  Tokens <- ThreeTokens
  Owner <- AllOfA
  Calls <- TwoCalls
  Tabs <- TwoTabs
  Reloading = TRUE
  Lossy = TRUE
  CallsPerTab = 1
  BusyTabs = 1
  Expiring = {}
SYMMETRY Interchangeable
INVARIANTS
  LiveTokenIsStored
PROPERTIES
  OnlyARefusalSignsOut
  RenewalStopsOnlyByFailure

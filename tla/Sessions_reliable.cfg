SPECIFICATION FairSessionSpec
CONSTANTS
  a = a  tab1 = tab1  tab2 = tab2  c1 = c1  c2 = c2
  Garbage = Garbage
  NoToken = NoToken
  Nobody = Nobody
  Users <- OneUser
  Tokens <- ThreeTokens
  Owner <- AllOfA
  Calls <- TwoCalls
  Tabs <- OneTab
  Reloading = TRUE
  Lossy = FALSE
  CallsPerTab = 2
  BusyTabs = 1
  Expiring = {1, 2}
PROPERTIES
  EndIsNoticed

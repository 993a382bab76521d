SPECIFICATION FairSpec
CONSTANTS
  a = a  h1 = h1  h2 = h2
  Garbage = Garbage
  NoToken = NoToken
  Users <- OneUser
  Tokens <- ThreeTokens
  Owner <- AllOfA
  Handlers <- TwoHandlers
  Databases = {"SQLite", "PostgreSQL"}
  Expiring = {"SQLite"}
INVARIANTS
  OneLiveTokenPerSignIn
  ReuseEndsEverySession
PROPERTIES
  ImplementsFamily
  RevokedForGood
  EveryRequestAnswered

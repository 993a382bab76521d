SPECIFICATION Spec
CONSTANTS
  g = g  k = k  p = p  q = q  h1 = h1  h2 = h2
  Requests = {h1, h2}
  Spellings = {"Dor", "dor", "dan", "ann"}
  Lower <- LowerOf
  Subjects = {g, k}
  Holder <- HolderOf
  Movable = {"dan"}
  Passwords = {p, q}
  Ids = {1, 2, 3}
  Ephemeral = TRUE
  AllowAnonymousSearch = FALSE
  None = None
SYMMETRY Symmetric
CHECK_DEADLOCK FALSE
INVARIANTS
  NeverShared
  SubjectKeepsAccount
  OneAccountPerAddress

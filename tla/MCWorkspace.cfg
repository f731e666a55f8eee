SPECIFICATION Spec
CONSTANTS
  R1 = R1
  R2 = R2
  R3 = R3
  Requests = {R1, R2, R3}
  Operations <- AllRequests
  Engines = {"sqlite", "postgres"}
  Identities <- MCIdentities
  Home <- BobB
  Columns = {"enabled", "strategy"}
  Settings <- MCSettings
  Default <- MCDefault
  Codes = {"s1", "s2"}
  Universe <- MCUniverse
  NoUser = NoUser
  Keep = Keep
  Founder = Founder
SYMMETRY Symmetry
INVARIANTS
  TypeOK
  UniqueRows
  WholeWorkspaces
  AllOrNothing
CHECK_DEADLOCK FALSE

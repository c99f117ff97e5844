CONSTANTS
  User = {u1, u2}
  NoUser = none
  App = {a1}
  Uri = {"callback"}
  UriOf <- MCUriOf
  Handler = {h1, h2}
  CodeLife = 1
  TokenLife = 2
  SessionLife = 2
  MaxTrouble = 2
  MaxClients = 3
  MaxFlows = 9
  MaxCodes = 9
  MaxTime = 3
SPECIFICATION FairSpec
INVARIANTS
  OneTokenPerCode
  TokenForOwnFlow
PROPERTY Connected
CHECK_DEADLOCK FALSE

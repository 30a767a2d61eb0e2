SPECIFICATION Spec
CONSTANTS
  s1 = s1
  s2 = s2
  admin = admin
  Scope = {s1, s2}
  API = API
  Internal = Internal
  Permission = {admin}
  Tokens <- MCTokens
  NoToken = NoToken
  Configs <- MCConfigs
  MaxGates = 2
  Caller = {c1, c2}
  Audience = {a1, a2}
  NoAudience = NoAudience
  MaxMints = 3
  Good = {g1, g2}
  Bad = {x1}
  Unnamed = {u1}
  NoBearer = NoBearer
  MaxProtocols = 2
INVARIANTS ReachedAsGated  SocketHasOneOwner
PROPERTIES MintedForAudience
CHECK_DEADLOCK FALSE

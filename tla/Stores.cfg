SPECIFICATION Spec
CONSTANTS
  Proc = {p1, p2, p3}
  NoOne = NoOne
  Reader = {r1, r2}
  MaxPushes = 4
  Instance = {i1, i2}
  Version = {1, 2, 3}
  Limits = {1, 9}
  MaxUps = 2
  Pipeline = {w1, w2}
  Key = {k1, k2}
  Branch = {b1, b2, b3}
  GitHubPage = 2
  GiteaPage = 1
  MaxComments = 4
  MaxPulls = 4
SYMMETRY Symmetry
INVARIANTS  AtMostOnceInOrder InOrderAndOnce RerunStopsThere
  OneSticky 

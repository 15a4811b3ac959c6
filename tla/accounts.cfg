SPECIFICATION Spec
CONSTANTS
  ann = ann
  bob = bob
  s1 = s1
  s2 = s2
  r1 = r1
  r2 = r2
  i1 = i1
  i2 = i2
  Requests = {ann, bob}
  Sessions = {s1, s2}
  Resets = {r1, r2}
  Invites = {i1, i2}
  MaxFailed = 2
  MaxGen = 2
  MaxLockouts = 1
SYMMETRY Symmetry
INVARIANT TypeOK
INVARIANT TriesBounded
INVARIANT SecretsCurrent

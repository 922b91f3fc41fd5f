CONSTANTS
  operator = operator
  admin = admin
  r1 = r1
  r2 = r2
  Keys = {operator, admin}
  Scopes <- MCScopes
  Expiring = {operator}
  Requests = {r1, r2}
  Sockets = {s1}
SYMMETRY MCSymmetry
SPECIFICATION Spec
INVARIANT EffectsAuthorised
PROPERTY EndedKeysHaveNoEffect

SPECIFICATION Spec
CONSTANTS
  Never = Never
  Keys = {a, b}
  BadKeys = {blank}
  Values = {v1, v2}
  Ttls <- MCTtls
  MaxTime = 4
INVARIANT TypeOK
PROPERTY ImplementsEagerMap
PROPERTY SetReclaims

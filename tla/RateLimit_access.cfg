SPECIFICATION Spec
CONSTANTS
  a = a
  Tenants = {a, b, c}
  EmailOf <- MCEmailOf
  Registered = {a}
  Creates = {k}
  Revokes = {v, w}
  Calls = {p, q, r}
  NoKey = NoKey
  NoTenant = NoTenant
  MaxActors = 4
  max = 1
SYMMETRY MCSymmetry
INVARIANTS
  TypeOK
  TenantsAreSound
  RevokedByItsTenant
  SecondRevocationConflicts
  WindowNeverOverfull
  LimitedForAReason
  CounterExpires
PROPERTIES
  LockoutStays
CHECK_DEADLOCK FALSE

SPECIFICATION Spec
CONSTANTS
  r1 = r1
  r2 = r2
  t1 = t1
  t2 = t2
  closed = closed
  open = open
  Requests = {r1, r2}
  Routes = {closed, open}
  Guarded = {closed}
  Tokens = {t1}
  MaxStarts = 1
  None = None
INVARIANT
  RevokedTokensRefused

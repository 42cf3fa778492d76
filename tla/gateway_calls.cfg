SPECIFICATION FairSpec
CONSTANTS
  r1 = r1
  r2 = r2
  t1 = t1
  t2 = t2
  closed = closed
  open = open
  Requests = {r1, r2}
  Routes = {closed, open}
  Guarded = {closed}
  Tokens = {t1}
  MaxStarts = 2
  None = None
INVARIANTS
  TypeOK
  AnswersMatchUpstream
PROPERTIES
  DeadTokensNeverPass
  EveryCallAnswered

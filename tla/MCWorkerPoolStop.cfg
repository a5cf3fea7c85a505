CONSTANTS
  c1 = c1
  c2 = c2
  t3 = t3
  NumThreads = 2
  Client = {c1, c2}
  Task = {t1, t2, t3}
  Domain = {code}
  ClientOf <- MCClientOf
  DomainOf <- MCDomainOf
  None = None
  MaxSpurious = 1
SPECIFICATION FairSpec
CHECK_DEADLOCK FALSE
PROPERTY StopReturns

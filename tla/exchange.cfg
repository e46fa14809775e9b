SPECIFICATION Spec
CONSTANTS
  Tasks = {t1, t2, t3}
  Hosts = {a, x}
  InScope = {a}
  None = None
  Concurrency = 2
  Delay = 1
  MaxAttempts = 3
  MaxHops = 1
  MaxRequests = 3
  MaxIdleTime = 0
INVARIANTS LoadIsBounded ScopeKept NoReplay AccountsAdd NobodyIsStuck
SYMMETRY TaskSymmetry
CHECK_DEADLOCK FALSE

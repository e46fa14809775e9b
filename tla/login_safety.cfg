SPECIFICATION Spec
CONSTANTS
  Tasks = {t1, t2, t3}
  Urls = {page, home, bounce}
  Bouncers = {bounce}
  CheckUrls = {home, None}
  Landings = {home, None}
  None = None
  MaxRelogins = 1
  ReplacesCookie = TRUE
  MaxRequests = 3
  MaxDrops = 2
  MaxFaults = 1
INVARIANTS RecoveryIsOrderly
PROPERTY CommitsTheLogin
SYMMETRY TaskSymmetry
CHECK_DEADLOCK FALSE

SPECIFICATION FairSpec
CONSTANTS
  Tasks = {t1, t2}
  Urls = {page, home, bounce}
  Bouncers = {bounce}
  CheckUrls = {home, None}
  Landings = {page, home, None}
  None = None
  MaxRelogins = 2
  ReplacesCookie = FALSE
  MaxRequests = 3
  MaxDrops = 2
  MaxFaults = 1
INVARIANTS OneLoginPerDrop AnswersAreAuthenticated
PROPERTY RequestsEnd
CHECK_DEADLOCK FALSE

SPECIFICATION Spec
CONSTANTS
  seed = seed  a = a  b = b  out = out  logout = logout  buy = buy
  search = search  wipe = wipe  login = login  order = order  remove = remove  op = op
  Urls <- MCUrls
  Seed = seed
  Outside = {out}
  Logout = {logout}
  Destructive = {buy}
  Disallowed = {b}
  None = None
  GetForms = {search, wipe, login}
  Action <- MCAction
  Withheld = {login}
  DestructiveForms = {wipe}
  PostForms = {order, remove}
  Operations <- MCOperations
  Eligible = {order, op}
  ExtraSeeds <- MCExtraSeeds
  Configs <- MCConfigs
  LinksPerPage = 2
  MaxForms = 3
  MaxSitemaps = 1
  MaxSitemapUrls = 3
  LinkLists <- MCLinkLists
  FormLists <- MCFormLists
INVARIANTS AsksOnceAndSafely TallyAdds
PROPERTIES CrawlRefinesSearch CrawlEnds
CHECK_DEADLOCK FALSE

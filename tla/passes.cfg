SPECIFICATION AllSpec
CONSTANT Ask <- SiteAnswer
CONSTANT MaxForms1 = 1
CONSTANT MaxDelay = 8
CONSTANT RequestCap = 8
CONSTANT MaxDerivedDirs = 2
INVARIANTS SafeIsNotReported UnsafeIsFound PassesAccount
CHECK_DEADLOCK FALSE

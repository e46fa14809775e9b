SPECIFICATION Spec
CONSTANTS
  Surfaces <- MCSurfaces
  Selected <- MCSelected
  BaseOrder <- MCBaseOrder
  Likes <- MCLikes
  NameTable <- MCNameTable
  ValueShape <- MCValueShape
  Script <- MCScript
  Markers = 3
  MaxPoints = 4
  RequestLimit = 11
  PointLimit = 6
  SleepLimit = 2
  RefetchLimit = 3
  NewLinks = 2
INVARIANTS BudgetsAreShared StopsAreTold EachKindOnce
CHECK_DEADLOCK FALSE

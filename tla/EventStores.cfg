\* Three rows of three kinds and two times, pages of one or two rows, traces of two.
SPECIFICATION StoresFairSpec
CONSTANTS
  Kind <- ThreeKinds
  MaxTime = 2
  MaxRows = 3
  MaxLimit = 2
  DefaultLimit = 2
  Absent = absent
  Asked <- Walks
INVARIANTS
  PagesGiveTheMatches
  StoresAgree
  ReadsAgree
PROPERTY EveryWalkEnds
\* The walk is done and no row is appended any more.
CHECK_DEADLOCK FALSE

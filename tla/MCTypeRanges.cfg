SPECIFICATION EitherSpec
CONSTANTS
  INT_MAX = 7
  LONG_MAX = 7
  SIZE_MAX = 8
  Restrictions <- RestrictionsValue
  Numbers <- Defaults
  NULL = NULL
  Name <- Names
  Char <- Chars
  IpAddress = "IpAddress"
  OctetBits = 2
  Word = 2
  Ascii = 2
  Printable = {1, 2}
  MaxDecimals = 4
  MaxGroups = 5
  Calls <- SomeCalls
INVARIANTS
  ListsSorted
  ListsNormalized
  RangesJudged
  ValuesJudged
  HintFollowed
  ValuesTold
CHECK_DEADLOCK FALSE
PROPERTIES
  GetsAhead

SPECIFICATION Spec
CONSTANTS
  Word <- MCWord
  ModelNumbers = {"a32", "a33"}
  Stopwords = {"de"}
  HARD_REJECT = {"funda"}
  SOFT = {"vidrio"}
  PART_WORDS = {"modulo", "flex"}
  PART_WORDS_LEADING = {"bateria"}
  Alike <- MCAlike
  Signals <- MCSignals
  MIN_STORES_FOR_OUTLIERS = 4
  TREND_TOLERANCE_DAYS = 1
  Source = {"s1", "s2", "s3", "s4"}
  Query <- MCQuery
  ItemKind = "part"
  Answers <- MCAnswersOn
  TREND_WINDOWS = {2}
  LastDay = 3
INVARIANTS
  TypeOK
  NeverAllOutliers
  FairPriceIsMedian
  MarginRestsOnSure
  PhoneIsStricter
  TrendIsNearest
CHECK_DEADLOCK FALSE

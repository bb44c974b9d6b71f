CONSTANTS
  Item = {1, 2}
  Source = {"catalog", "shop"}
  Product = {"a", "b"}
  Price = {1, 2}
  Kind = {"part"}
  Label = {"match"}
  Classify <- MCClassify
  ChunkSize = 2
  LastDay = 2
  Registry <- MCRegistry
  DailyBlocked = {"catalog"}
  Crawled = {"catalog"}
  Offers <- MCOffers
  Elsewhere <- MCElsewhere
  MaxRuns = 2
SPECIFICATION FairSpec
INVARIANT FullMeansWhole
CHECK_DEADLOCK FALSE

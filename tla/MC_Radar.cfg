CONSTANTS
  app = app
  NoStore = NoStore
  Item = {1}
  Source = {"shop"}
  Product = {"a"}
  Price = {1, 2}
  Kind = {"part", "phone"}
  Label = {"match", "accessory"}
  Classify <- MCClassify
  ChunkSize = 1
  LastDay = 2
  Offers <- MCOffers
  Registry <- MCRegistry
  DailyBlocked = {}
  Crawled = {}
  MaxRuns = 1
  Session = {1}
  Process = {app}
  ProcessOf <- OneProcess
  Searchable = {"shop"}
  Watching = {}
  DAILY_CAP = 1
  Passes = 1
SPECIFICATION Spec
INVARIANTS
  TypeOK
  RelabelSticks
PROPERTIES
  KeepsSnapshots
CHECK_DEADLOCK FALSE

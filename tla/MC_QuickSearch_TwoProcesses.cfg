CONSTANTS
  app = app
  cli = cli
  NoStore = NoStore
  Item = {1}
  Source = {"north", "south"}
  Product = {"a"}
  Price = {1}
  Kind = {"part"}
  Label = {"match"}
  Classify <- MCClassify
  ChunkSize = 1
  LastDay = 2
  Offers <- MCOffers
  Elsewhere <- MCElsewhere
  Session = {1, 2}
  Process = {app, cli}
  ProcessOf <- TwoProcesses
  Searchable = {"north", "south"}
  Watching = {1}
  DAILY_CAP = 1
SPECIFICATION Spec
INVARIANT CapHolds
CHECK_DEADLOCK FALSE

CONSTANTS
  robotsUrl = robotsUrl
  homeUrl = homeUrl
  map1 = map1
  map2 = map2
  blogMap = blogMap
  api = api
  tokenUrl = tokenUrl
  NoUrl = NoUrl
  NoRobots = NoRobots
  NoCatalog = NoCatalog
  NoPage = NoPage
  Url <- MCUrl
  RobotsUrl = robotsUrl
  HomeUrl = homeUrl
  MapUrl = {map1, map2, blogMap}
  Unfit = {blogMap}
  Category <- MCCategory
  Alphabetical <- MCAlphabetical
  PriorityCategories <- MCPriority
  Product = {"p", "q", "r", "s", "f"}
  MaxCatalogPages = 4
  MAX_SITEMAPS = 2
  MAX_CANDIDATES = 2
  Api = api
  TokenUrl = tokenUrl
  PerPage = 2
  MAX_PAGES = 2
  MAX_RETRIES = 1
  MAX_REDIRECTS = 1
  COURTESY_DELAY = 1
  MaxFetches = 2
  Sites <- MCSites
SPECIFICATION Spec
INVARIANTS
  TypeOK
  RequestsBounded
  PagesAllowed
  BestFirst
  FullCrawlIsWhole
  SkipsReportedOnce
  SearchIsWhole
PROPERTIES
  AttemptsSpaced
CHECK_DEADLOCK FALSE

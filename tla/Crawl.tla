-------------------------------- MODULE Crawl --------------------------------
(***************************************************************************)
(* TiendanubeAdapter: the category pages of the store are discovered from  *)
(* its sitemaps, or else from its homepage, and crawled in order of        *)
(* priority until the page budget is spent.  The catalog is kept: later    *)
(* fetches ask the store nothing.  A category is its path, a sequence of   *)
(* segments; a page is the set of its product blocks.                      *)
(***************************************************************************)
EXTENDS Adapter

CONSTANTS
  Category, HomeUrl, MapUrl,     \* URLs; MapUrl the sitemaps a robots.txt may name
  Unfit,                         \* sitemaps of the blog, or of no web scheme
  Alphabetical,                  \* place of a category among all, as text
  PriorityCategories,            \* Source.priority_categories
  MaxCatalogPages,               \* Source.max_catalog_pages
  MAX_SITEMAPS, MAX_CANDIDATES,
  Product, NoCatalog, NoPage

VARIABLES
  maps,              \* sitemaps still to read, the one asked for included
  found,             \* categories discovered
  order,             \* categories still to crawl, the current one included
  page,              \* the page of the current category
  previous,          \* ids of the category's previous page
  pages_fetched, budget_exhausted,
  listings,          \* products of the crawl in progress
  catalog,           \* the catalog kept
  catalog_skipped,   \* malformed products the crawl met
  crawled            \* history: categories of which a page was asked for

ASSUME CrawlAssumption ==
  /\ Category \cup MapUrl \cup {HomeUrl} \subseteq Url
  /\ IsFiniteSet(Category)
  /\ \A c \in Category : Len(c) \in Nat /\ Alphabetical[c] \in Int
  /\ \A c, d \in Category : Alphabetical[c] = Alphabetical[d] => c = d
  /\ DOMAIN PriorityCategories = 1..Len(PriorityCategories) /\ Len(PriorityCategories) \in Nat
  /\ \A products \in SUBSET Product : products # NoPage /\ products # NoCatalog
  /\ MaxCatalogPages \in Nat \ {0} /\ MAX_SITEMAPS \in Nat /\ MAX_CANDIDATES \in Nat

crawlVars == <<maps, found, order, page, previous, pages_fetched, budget_exhausted,
               listings, catalog, catalog_skipped, crawled>>

CrawlInit ==
  /\ maps = <<>>
  /\ found = {}
  /\ order = <<>>
  /\ page = 0
  /\ previous = NoPage
  /\ pages_fetched = 0
  /\ budget_exhausted = FALSE
  /\ listings = {}
  /\ catalog = NoCatalog
  /\ catalog_skipped = 0
  /\ crawled = {}

-----------------------------------------------------------------------------
(* The order of the crawl: shallow paths first... *)
Broader ==
  {pair \in Category \X Category :
     \/ Len(pair[1]) < Len(pair[2])
     \/ Len(pair[1]) = Len(pair[2]) /\ Alphabetical[pair[1]] < Alphabetical[pair[2]]}

(* ...but the categories that match a slug, a run of segments of their      *)
(* path, before all others, slug by slug...                                 *)
Matches(slug, category) ==
  \E n \in 0..Len(category) - Len(slug) : SubSeq(category, n + 1, n + Len(slug)) = slug

MoveToFront(split, slug) ==
  LET matched == {c \in Category : Matches(slug, c)}
  IN  [front     |-> split.front \o Kept(split.remaining, matched),
       remaining |-> Kept(split.remaining, Category \ matched)]

Prioritized(ordered) ==
  LET split[n \in 0..Len(PriorityCategories)] ==
        IF n = 0 THEN [front |-> <<>>, remaining |-> ordered]
        ELSE MoveToFront(split[n - 1], PriorityCategories[n])
      last == split[Len(PriorityCategories)]
  IN  last.front \o last.remaining

Allowed == {c \in Category : Allows(c)}

(* Mutant: the cap cuts before the slugs move their categories to the front. *)
Candidates_CapFirst(categories) ==
  Kept(Prioritized(FirstOf(Sorted(categories, Broader), MAX_CANDIDATES)), Allowed)

(* ...cut at the cap, less what robots.txt disallows. *)
Candidates(categories) ==
  Kept(FirstOf(Prioritized(Sorted(categories, Broader)), MAX_CANDIDATES), Allowed)

(* The sitemaps to read: the first few fit ones robots.txt names. *)
SitemapsToRead == FirstOf(Kept(site.maps, MapUrl \ Unfit), MAX_SITEMAPS)

(* What a page of a category shows: past its last page nothing, unless the  *)
(* theme falls back to recommended products.                                *)
Shown(category, n) ==
  LET pages == site.pages[category]
  IN  IF n <= Len(pages) THEN pages[n] ELSE site.fallback

Ids(blocks) == {b.ext : b \in {x \in blocks : x.state = "on_sale"}}

Malformed(blocks) == Cardinality({b \in blocks : b.state = "malformed"})

-----------------------------------------------------------------------------
(* Mutant: the crawl's count stays, and every later fetch reports it again. *)
CacheHit_SkippedKept ==
  /\ Begin
  /\ catalog # NoCatalog
  /\ skipped' = skipped
  /\ Return
  /\ UNCHANGED <<robots, made, sent, waited, crawlVars>>

(* fetch with a catalog kept: the store is asked nothing. *)
CacheHit ==
  /\ Begin
  /\ catalog # NoCatalog
  /\ skipped' = 0
  /\ Return
  /\ UNCHANGED <<robots, made, sent, waited, crawlVars>>

StartCrawl ==
  /\ Begin
  /\ catalog = NoCatalog
  /\ skipped' = 0
  /\ Await("robots", RobotsUrl)
  /\ UNCHANGED <<robots, made, sent, waited, reported, crawlVars>>

(* The categories are known: the first page of the first one is asked for, *)
(* or there is nothing to crawl.                                           *)
StartPages(categories) ==
  LET candidates == Candidates(categories)
  IN  /\ order' = candidates
      /\ IF candidates = <<>>
         THEN Raise /\ UNCHANGED <<page, crawled>>
         ELSE /\ Await("pages", Head(candidates))
              /\ page' = 1
              /\ crawled' = {Head(candidates)}

(* The next sitemap; after the last, the homepage if they named nothing. *)
Discover(left, categories) ==
  /\ maps' = left
  /\ found' = categories
  /\ IF left # <<>> THEN Await("maps", Head(left)) /\ UNCHANGED <<order, page, crawled>>
     ELSE IF categories = {} THEN Await("home", HomeUrl) /\ UNCHANGED <<order, page, crawled>>
     ELSE StartPages(categories)

Discovering == UNCHANGED <<made, sent, waited, fetches, skipped, reported, previous,
                           pages_fetched, budget_exhausted, listings, catalog, catalog_skipped>>

ReadRobots ==
  /\ Response("robots")
  /\ LoadRobots
  /\ Discover(SitemapsToRead, {})
  /\ Discovering

ReadSitemap ==
  /\ Response("maps")
  /\ Discover(Tail(maps), found \cup (IF reply = "ok" THEN site.linked[Head(maps)] ELSE {}))
  /\ UNCHANGED robots
  /\ Discovering

ReadHome ==
  /\ Response("home")
  /\ found' = IF reply = "ok" THEN site.linked[HomeUrl] ELSE {}
  /\ StartPages(found')
  /\ UNCHANGED <<robots, maps>>
  /\ Discovering

-----------------------------------------------------------------------------
(* The crawl ends, and fetch returns. *)
Finish(exhausted) ==
  /\ budget_exhausted' = exhausted
  /\ catalog' = listings'
  /\ skipped' = catalog_skipped'
  /\ Return
  /\ UNCHANGED crawled

(* On with the page at hand, if any category is left, within the budget. *)
GoOn ==
  IF order' = <<>> THEN Finish(FALSE)
  ELSE IF pages_fetched' >= MaxCatalogPages THEN Finish(TRUE)
  ELSE /\ Await("pages", Head(order'))
       /\ crawled' = crawled \cup {Head(order')}
       /\ UNCHANGED <<skipped, reported, budget_exhausted, catalog>>

Blocks == IF reply = "ok" THEN Shown(Head(order), page) ELSE {}

(* Mutant: a page whose products are all sold out ends its category. *)
CategoryEnds_OnListings == Ids(Blocks) = {} \/ Ids(Blocks) = previous

(* No product blocks, no such page, or the previous page again. *)
CategoryEnds ==
  \/ Blocks = {}
  \/ Ids(Blocks) # {} /\ Ids(Blocks) = previous

ReadPage ==
  /\ Response("pages")
  /\ pages_fetched' = pages_fetched + 1
  /\ catalog_skipped' = catalog_skipped + Malformed(Blocks)
  /\ IF CategoryEnds
     THEN /\ order' = Tail(order)
          /\ page' = 1
          /\ previous' = NoPage
          /\ UNCHANGED listings
     ELSE /\ page' = page + 1
          /\ previous' = Ids(Blocks)
          /\ listings' = listings \cup Ids(Blocks)
          /\ UNCHANGED order
  /\ GoOn
  /\ UNCHANGED <<robots, made, sent, waited, fetches, maps, found>>

CrawlStep ==
  \/ CacheHit \/ StartCrawl
  \/ ReadRobots \/ ReadSitemap \/ ReadHome \/ ReadPage

=============================================================================

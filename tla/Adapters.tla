------------------------------- MODULE Adapters -------------------------------
(***************************************************************************)
(* One adapter of one store, of whatever platform, fetching item after     *)
(* item over its polite client.                                            *)
(***************************************************************************)
EXTENDS Crawl, Paging

CONSTANT Sites      \* the stores it may meet, per platform

(* What a store serves: Tiendanube's pages hold finitely many products, each *)
(* of a state, and name categories; a search API matches size products, a    *)
(* page of at least one at a time.                                           *)
IsPage(blocks) ==
  /\ IsFiniteSet(blocks)
  /\ \A b \in blocks : b.ext \in Product

ASSUME SitesAssumption ==
  \A p \in Platform : \A s \in Sites[p] :
    /\ s.disallowed \subseteq Url
    /\ IF p = "tiendanube"
       THEN /\ s.maps \in Seq(MapUrl)
            /\ \A u \in (MapUrl \ Unfit) \cup {HomeUrl} : s.linked[u] \subseteq Category
            /\ IsPage(s.fallback)
            /\ \A c \in Category : /\ Len(s.pages[c]) \in Nat
                                  /\ DOMAIN s.pages[c] = 1..Len(s.pages[c])
                                  /\ \A n \in 1..Len(s.pages[c]) : IsPage(s.pages[c][n])
       ELSE /\ s.size \in Nat /\ s.serves \in Nat \ {0}
            /\ p = "wix" => s.total \in Nat

vars == <<site, clientVars, adapterVars, crawlVars, pagingVars>>

Init ==
  /\ ClientInit /\ AdapterInit /\ CrawlInit /\ PagingInit
  /\ site \in Sites[platform]

Next ==
  /\ \/ Attempt /\ UNCHANGED <<at, fetches, skipped, reported, crawlVars, pagingVars>>
     \/ ClientGaveUp /\ UNCHANGED <<crawlVars, pagingVars>>
     \/ platform = "tiendanube" /\ CrawlStep /\ UNCHANGED pagingVars
     \/ platform # "tiendanube" /\ PagingStep /\ UNCHANGED crawlVars
  /\ UNCHANGED <<site, platform>>

Spec == Init /\ [][Next]_vars

-----------------------------------------------------------------------------
TypeOK ==
  /\ AdapterTypeOK
  /\ maps \in Seq(MapUrl)
  /\ found \subseteq Category
  /\ order \in Seq(Category)
  /\ page \in Nat
  /\ previous \in (SUBSET Product) \cup {NoPage}
  /\ pages_fetched \in 0..MaxCatalogPages
  /\ budget_exhausted \in BOOLEAN
  /\ listings \in SUBSET Product
  /\ catalog \in (SUBSET Product) \cup {NoCatalog}
  /\ catalog_skipped \in Nat
  /\ crawled \subseteq Category
  /\ token \in BOOLEAN
  /\ cursor \in Nat
  /\ too_many \in BOOLEAN

(* The requests of a call at most, its hops included, and the calls of the  *)
(* client: a Tiendanube store is crawled once for all fetches, a Wix store  *)
(* may clamp its pages to a single product.                                 *)
PerCall == (MAX_RETRIES + 1) * (MAX_REDIRECTS + 1)

MaxCalls ==
  CASE platform = "tiendanube"  -> 2 + MAX_SITEMAPS + MaxCatalogPages
    [] platform = "woocommerce" -> 1 + MAX_PAGES * fetches
    [] platform = "wix"         -> 2 + MAX_PAGES * PerPage * fetches

(* Courtesy in numbers: however often fetch is called, whatever the store   *)
(* answers and wherever it redirects, it is sent no more requests than the  *)
(* retries, the redirects followed, the page budget and the caps on         *)
(* sitemaps and pages allow.                                                *)
RequestsBounded == sent <= PerCall * MaxCalls

(* The category pages, the API and the token are asked for only with        *)
(* robots.txt read and allowing them.                                       *)
PagesAllowed == at \in {"pages", "token"} => robots # NoRobots /\ Allows(url)

(* What the courtesy rules say of every request: robots.txt is checked      *)
(* before fetching.                                                         *)
RobotsHonoured == robots # NoRobots /\ url \in Url \ {RobotsUrl} => Allows(url)

(* When the budget or the cap on candidates cuts the crawl short, what it   *)
(* left out is what mattered least: categories of the slugs first, in the   *)
(* order configured, and broad ones before their subcategories.             *)
Rank(category) ==
  LET slugs == {n \in DOMAIN PriorityCategories : Matches(PriorityCategories[n], category)}
  IN  IF slugs = {} THEN Len(PriorityCategories) + 1
      ELSE CHOOSE n \in slugs : \A m \in slugs : n <= m

BestFirst ==
  \A c \in crawled, d \in found :
    /\ Allows(d)
    /\ \/ Rank(d) < Rank(c)
       \/ Rank(d) = Rank(c) /\ Len(d) < Len(c)
    => d \in crawled

(* A category that turns its pages as the platform does: one after another, *)
(* nothing after the last.  A crawl that says it was not cut short has      *)
(* every product on sale in every such category it may visit.               *)
OrderlyPages(category) ==
  LET pages == site.pages[category]
  IN  /\ category \notin site.gone
      /\ {} \notin {pages[n] : n \in DOMAIN pages}
      /\ \A n \in 2..Len(pages) : Ids(pages[n]) # Ids(pages[n - 1]) \/ Ids(pages[n]) = {}

FullCrawlIsWhole ==
  catalog # NoCatalog /\ ~budget_exhausted /\ Cardinality(found) <= MAX_CANDIDATES =>
    \A c \in found :
      Allows(c) /\ OrderlyPages(c) =>
        \A n \in DOMAIN site.pages[c] : Ids(site.pages[c][n]) \subseteq catalog

(* A malformed product is reported once, by the fetch that crawled, and     *)
(* not again by the fetches the kept catalog serves.                        *)
SkipsReportedOnce ==
  platform = "tiendanube" /\ at = "returned" => reported = catalog_skipped

(* A store that pages as its API says: every matching product is returned,  *)
(* once and in order, also when Wix clamps its pages, and a fetch is given  *)
(* up at the cap only if there are that many products.                      *)
Paginates ==
  /\ ~site.stuck
  /\ IF platform = "wix" THEN site.total = site.size ELSE site.serves >= PerPage

SearchIsWhole ==
  platform # "tiendanube" /\ Paginates =>
    /\ at = "returned" =>
         got = Kept([n \in 1..site.size |-> n], Nat \ site.odd)
    /\ too_many => site.size >= MAX_PAGES * PerPage

=============================================================================

-------------------------------- MODULE Paging --------------------------------
(***************************************************************************)
(* WooCommerceAdapter and WixAdapter: the store's search API is asked page *)
(* after page.  WooCommerce counts pages and may state their number in a   *)
(* header; Wix takes an offset, states the number of products, and needs   *)
(* the storefront's token, which is kept.  site.size products match, and   *)
(* the store serves at most site.serves of them at a time.                 *)
(***************************************************************************)
EXTENDS Adapter

CONSTANTS Api, TokenUrl, PerPage, MAX_PAGES

VARIABLES
  token,       \* Wix: the storefront's token is kept
  cursor,      \* WooCommerce: the page asked for; Wix: the offset
  got,         \* products parsed by the fetch, in order
  too_many     \* history: the fetch was given up at the cap on pages

ASSUME PagingAssumption ==
  /\ {Api, TokenUrl} \subseteq Url
  /\ PerPage \in Nat \ {0} /\ MAX_PAGES \in Nat \ {0}

pagingVars == <<token, cursor, got, too_many>>

PagingInit == token = FALSE /\ cursor = 0 /\ got = <<>> /\ too_many = FALSE

-----------------------------------------------------------------------------
(* The store: a page it serves, as the numbers of its products. *)
PageSize == IF site.serves < PerPage THEN site.serves ELSE PerPage

TotalPages == (site.size + PageSize - 1) \div PageSize

Start ==
  IF site.stuck THEN 0
  ELSE IF platform = "wix" THEN cursor
  ELSE (cursor - 1) * PageSize

Served ==
  LET last == IF Start + PageSize < site.size THEN Start + PageSize ELSE site.size
  IN  [n \in 1..(IF last < Start THEN 0 ELSE last - Start) |-> Start + n]

-----------------------------------------------------------------------------
FirstCursor == IF platform = "wix" THEN 0 ELSE 1

Needed == IF platform = "wix" THEN {TokenUrl, Api} ELSE {Api}

(* Mutant: the page that hands out the token is not checked. *)
AskStore_ApiOnly ==
  IF Api \in robots' THEN Raise
  ELSE IF platform = "wix" /\ ~token THEN Await("token", TokenUrl)
  ELSE Await("pages", Api)

(* robots.txt is known (it is robots' that counts). *)
AskStore ==
  IF Needed \cap robots' # {} THEN Raise
  ELSE IF platform = "wix" /\ ~token THEN Await("token", TokenUrl)
  ELSE Await("pages", Api)

StartSearch ==
  /\ Begin
  /\ skipped' = 0
  /\ got' = <<>>
  /\ cursor' = FirstCursor
  /\ UNCHANGED robots
  /\ IF robots = NoRobots THEN Await("robots", RobotsUrl) ELSE AskStore
  /\ UNCHANGED <<made, sent, waited, reported, token, too_many>>

CheckRobots ==
  /\ Response("robots")
  /\ LoadRobots
  /\ AskStore
  /\ UNCHANGED <<made, sent, waited, fetches, skipped, reported, pagingVars>>

ReadToken ==
  /\ Response("token")
  /\ reply = "ok"
  /\ token' = TRUE
  /\ Await("pages", Api)
  /\ UNCHANGED <<robots, made, sent, waited, fetches, skipped, reported, cursor, got, too_many>>

(* A 4xx, or a body that is not what the API promises. *)
BadResponse ==
  /\ Response("token") \/ Response("pages")
  /\ Raise
  /\ UNCHANGED <<robots, made, sent, waited, fetches, skipped, reported, pagingVars>>

TooMany == Raise /\ too_many' = TRUE /\ UNCHANGED reported

NextPage == Await("pages", Api) /\ UNCHANGED <<too_many, reported>>

(* The products of a page; malformed ones are counted and left out. *)
Parse(products) ==
  /\ got' = got \o Kept(products, Nat \ site.odd)
  /\ skipped' = skipped + Cardinality({n \in DOMAIN products : products[n] \in site.odd})

(* Mutant: the cap is compared before the page is turned. *)
ReadWooPage_CapLate ==
  /\ platform = "woocommerce"
  /\ Response("pages") /\ reply = "ok"
  /\ Parse(Served)
  /\ IF Len(Served) < PerPage \/ (site.counts /\ cursor >= TotalPages)
     THEN Return /\ UNCHANGED <<cursor, too_many>>
     ELSE /\ cursor' = cursor + 1
          /\ IF cursor > MAX_PAGES THEN TooMany ELSE NextPage
  /\ UNCHANGED <<robots, made, sent, waited, fetches, token>>

ReadWooPage ==
  /\ platform = "woocommerce"
  /\ Response("pages") /\ reply = "ok"
  /\ Parse(Served)
  /\ IF Len(Served) < PerPage \/ (site.counts /\ cursor >= TotalPages)
     THEN Return /\ UNCHANGED <<cursor, too_many>>
     ELSE /\ cursor' = cursor + 1
          /\ IF cursor' > MAX_PAGES THEN TooMany ELSE NextPage
  /\ UNCHANGED <<robots, made, sent, waited, fetches, token>>

(* Mutant: the offset advances by the page size asked for. *)
ReadWixPage_PageSize ==
  /\ platform = "wix"
  /\ Response("pages") /\ reply = "ok"
  /\ Parse(Served)
  /\ cursor' = cursor + PerPage
  /\ IF cursor' >= site.total \/ Served = <<>> THEN Return /\ UNCHANGED too_many
     ELSE IF cursor' >= MAX_PAGES * PerPage THEN TooMany
     ELSE NextPage
  /\ UNCHANGED <<robots, made, sent, waited, fetches, token>>

ReadWixPage ==
  /\ platform = "wix"
  /\ Response("pages") /\ reply = "ok"
  /\ Parse(Served)
  /\ cursor' = cursor + Len(Served)
  /\ IF cursor' >= site.total \/ Served = <<>> THEN Return /\ UNCHANGED too_many
     ELSE IF cursor' >= MAX_PAGES * PerPage THEN TooMany
     ELSE NextPage
  /\ UNCHANGED <<robots, made, sent, waited, fetches, token>>

PagingStep ==
  \/ StartSearch \/ CheckRobots \/ ReadToken \/ BadResponse
  \/ ReadWooPage \/ ReadWixPage

=============================================================================

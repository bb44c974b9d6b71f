------------------------------- MODULE Prices -------------------------------
(***************************************************************************)
(* The prices of one tracked item as the pages and the report show them,   *)
(* day by day, while the stores answer: analysis.py on the rows stored so  *)
(* far, with the labels and tiers their titles were given.                 *)
(***************************************************************************)
EXTENDS Titles, Analysis

CONSTANTS
  Source,
  Query, ItemKind,    \* of the tracked item
  Answers,            \* what each store may answer on each day
  TREND_WINDOWS,
  LastDay             \* bounds the calendar

VARIABLES
  rows,     \* the item's listings
  today

vars == <<rows, today>>

Day == 0..LastDay

(* In what is stored of an answer a listing's id comes once. *)
ASSUME PricesAssumption ==
  /\ LastDay \in Nat /\ TREND_WINDOWS \subseteq Nat
  /\ Query \in Seq(Word) /\ ItemKind \in {"part", "phone"}
  /\ \A d \in Day, s \in Source : \A answer \in Answers[d][s] : \A listing \in answer :
       listing.price \in Nat \ {0} /\ listing.title \in Seq(Word)
  /\ \A d \in Day, s \in Source : \A answer \in Answers[d][s] :
       IsFiniteSet(answer) /\ \A l, m \in answer : l.id = m.id => l = m

Init == rows = {} /\ today = 0

SameKey(r, q) == r.source = q.source /\ r.id = q.id /\ r.day = q.day

(* The rows of an answer, labelled as they are stored. *)
Labelled(s, answer) ==
  {[source |-> s, id |-> l.id, day |-> today, title |-> l.title, price |-> l.price,
    relevance |-> Classify(Query, l.title, ItemKind)] : l \in answer}

(* Mutant: a row that is stored already is stored again. *)
StoreAnswers_Again(s) ==
  /\ \E answer \in Answers[today][s] : rows' = rows \cup Labelled(s, answer)
  /\ UNCHANGED today

(* The daily run or a quick search stores what a store answers; it may ask  *)
(* again the same day, and what is stored stays.                            *)
StoreAnswers(s) ==
  /\ \E answer \in Answers[today][s] :
       rows' = rows \cup {r \in Labelled(s, answer) : \A q \in rows : ~SameKey(r, q)}
  /\ UNCHANGED today

NextDay == today < LastDay /\ today' = today + 1 /\ UNCHANGED rows

Next == NextDay \/ \E s \in Source : StoreAnswers(s)

Spec == Init /\ [][Next]_vars

-----------------------------------------------------------------------------
(* listings_for_day: the relevant rows of a day, each with its tier. *)
RowsOf(day) ==
  Relevant({[source |-> r.source, tier |-> LabelTier(r.title), price |-> r.price, relevance |-> r.relevance] :
              r \in {q \in rows : q.day = day}})

StoredDays == {r.day : r \in rows}

NoDay == -1

(* latest_day counts the rejected rows, too. *)
LatestDay == IF StoredDays = {} THEN NoDay ELSE CHOOSE d \in StoredDays : \A e \in StoredDays : e <= d

(* The analyses of a tier on a day; its fair price is the same in all. *)
TiersOf(day) == {t \in Tier : \E r \in RowsOf(day) : r.tier = t}

FairPriceOn(tier, day) ==
  IF tier \in TiersOf(day) THEN FairPrice(CHOOSE offers \in AnalyzeTier(RowsOf(day), tier) : TRUE) ELSE NoPrice

Gap(d, e) == IF d < e THEN e - d ELSE d - e

Nearer(target, d, e) == Gap(d, target) < Gap(e, target) \/ (Gap(d, target) = Gap(e, target) /\ d < e)

InReach(target) == {d \in StoredDays : Gap(d, target) <= TREND_TOLERANCE_DAYS}

(* The stored days in reach, the nearest first. *)
NearestFirst(target) ==
  Sorted(InReach(target), {pair \in InReach(target) \X InReach(target) : Nearer(target, pair[1], pair[2])})

(* Mutant: the nearest stored day is taken, whether or not it has a price. *)
NearestFairPrice_FirstStored(tier, target) ==
  LET days == NearestFirst(target)
  IN  IF days = <<>> \/ FairPriceOn(tier, days[1]) = NoPrice THEN NoDay ELSE days[1]

(* The first of them with a price. *)
NearestFairPrice(tier, target) ==
  LET days   == NearestFirst(target)
      priced == {n \in DOMAIN days : FairPriceOn(tier, days[n]) # NoPrice}
  IN  IF priced = {} THEN NoDay ELSE days[CHOOSE n \in priced : \A m \in priced : n <= m]

(* A change is flat when, rounded to a tenth of a percent, it is under one; *)
(* a half is rounded to even, so 0.95 percent is no longer flat.            *)
Flat(now, past) == 10000 * Gap(now, past) < 95 * past

(* A TrendPoint: the day compared with, and the direction. *)
TrendPoint(tier, day, window) ==
  LET now      == FairPriceOn(tier, day)
      compared == NearestFairPrice(tier, day - window)
      past     == FairPriceOn(tier, compared)
  IN  IF now = NoPrice \/ compared = NoDay
      THEN [compared |-> NoDay, direction |-> "none"]
      ELSE [compared |-> compared,
            direction |-> IF Flat(now, past) THEN "=" ELSE IF now > past THEN "up" ELSE "down"]

-----------------------------------------------------------------------------
Id == {l.id : l \in UNION UNION {Answers[d][s] : d \in Day, s \in Source}}

StoredRow == [source : Source, id : Id, day : Day, title : Seq(Word), price : Nat, relevance : Label]

TypeOK ==
  /\ rows \subseteq StoredRow
  /\ \A r, q \in rows : SameKey(r, q) => r = q
  /\ today \in Day

(* What the pages show: the latest day, every way to break the ties of its  *)
(* rows.  Every day is the latest while its rows are stored.                *)
Shown(tier) == IF LatestDay = NoDay THEN {} ELSE AnalyzeTier(RowsOf(LatestDay), tier)

Analyses == UNION {Shown(t) : t \in TiersOf(LatestDay)}

(* The report takes the first offer that is no outlier without asking       *)
(* whether there is one: a group is never all outliers.                     *)
NeverAllOutliers == \A offers \in Analyses : \E n \in DOMAIN offers : ~offers[n].outlier

(* A doubled median of the offers that are no outliers: the sum of two      *)
(* neighbouring prices, at most half of the offers below the one and at     *)
(* most half above the other; twice the middle one of an odd number.        *)
IsMedian(doubled, offers) ==
  LET sure == {n \in DOMAIN offers : ~offers[n].outlier}
      below(price) == {n \in sure : offers[n].price < price}
      above(price) == {n \in sure : offers[n].price > price}
  IN  \E low, high \in sure :
        /\ doubled = offers[low].price + offers[high].price
        /\ offers[low].price <= offers[high].price
        /\ 2 * Cardinality(below(offers[high].price)) <= Cardinality(sure)
        /\ 2 * Cardinality(above(offers[low].price)) <= Cardinality(sure)
        /\ Cardinality(below(offers[low].price)) < Cardinality(sure) - Cardinality(above(offers[high].price))
        /\ \A n \in sure : ~(offers[low].price < offers[n].price /\ offers[n].price < offers[high].price)
        /\ Cardinality(sure) % 2 = 1 => offers[low].price = offers[high].price

(* The fair price is the median of the offers nobody has to doubt, however  *)
(* the group was sorted and whatever was flagged.                           *)
FairPriceIsMedian ==
  \A offers \in Analyses : FairPrice(offers) # NoPrice => IsMedian(FairPrice(offers), offers)

(* What a listing must say to be sold as the part: every telling word of    *)
(* the query, the model numbers to the letter, no accessory and no word     *)
(* that may be one, and, for a whole phone, no part.                        *)
Sure(query, title, kind) ==
  /\ \A n \in Significant(query) :
       LET w == query[n]
       IN  w \in ToSet(title) \/ (w \notin ModelNumbers /\ \E v \in ToSet(title) : <<w, v>> \in Alike)
  /\ ToSet(query) \cap ModelNumbers \subseteq ToSet(title)
  /\ ToSet(title) \cap (HARD_REJECT \cup SOFT) \subseteq ToSet(query)
  /\ kind = "phone" => ToSet(title) \cap PART_WORDS \subseteq ToSet(query)

(* A margin is a promise of money: the part it is reckoned with is on sale  *)
(* that day at that store, in that tier, under a title that is sure, at a   *)
(* price that is not out of line with the other stores'.                    *)
MarginRestsOnSure ==
  \A t \in TiersOf(LatestDay) : \A offers \in Shown(t) :
    Trustworthy(offers) # {} =>
      LET best == Best(offers)
      IN  /\ \E r \in rows :
               /\ r.day = LatestDay /\ r.source = best.source /\ r.price = best.price
               /\ LabelTier(r.title) = t /\ Sure(Query, r.title, ItemKind)
          /\ Len(offers) >= MIN_STORES_FOR_OUTLIERS => ~FarFrom(best.price, DoubleMedian(Prices(offers)))

(* Making an item a phone only ever takes listings away: relabelled, none   *)
(* stands better than it did as a part.                                     *)
Standing(label) == CASE label = "match" -> 2 [] label = "low_confidence" -> 1 [] label = "reject" -> 0

PhoneIsStricter ==
  \A r \in rows :
    Standing(Classify(Query, r.title, "phone")) <= Standing(Classify(Query, r.title, "part"))

(* A trend compares the day with the nearest day in reach that has a fair   *)
(* price, the earlier of two; a failed daily run costs no trend that a day  *)
(* beside it could give; and its arrow points where the price went.         *)
TrendIsNearest ==
  \A t \in TiersOf(LatestDay), w \in TREND_WINDOWS :
    LET d      == LatestDay
        point  == TrendPoint(t, d, w)
        priced == {e \in InReach(d - w) : FairPriceOn(t, e) # NoPrice}
    IN  /\ point.direction # "none" =>
             /\ point.compared \in priced
             /\ \A e \in priced : ~Nearer(d - w, e, point.compared)
             /\ LET change == FairPriceOn(t, d) - FairPriceOn(t, point.compared)
                IN  CASE point.direction = "up"   -> change > 0
                      [] point.direction = "down" -> change < 0
                      [] point.direction = "="    -> 100 * Gap(change, 0) < FairPriceOn(t, point.compared)
        /\ point.direction = "none" => priced = {} \/ FairPriceOn(t, d) = NoPrice

=============================================================================

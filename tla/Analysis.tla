------------------------------ MODULE Analysis ------------------------------
(***************************************************************************)
(* The analysis of one item's rows of one day: analysis.py and margin.py.  *)
(* Nothing is stored; every page and the report compute it when asked.     *)
(* A row here has a source, a tier (of its title), a price and a relevance *)
(* label.  Prices are whole centavos and so are kept exact; a median may   *)
(* fall half-way, so medians are kept doubled.                             *)
(***************************************************************************)
EXTENDS Lists

CONSTANTS MIN_STORES_FOR_OUTLIERS, TREND_TOLERANCE_DAYS

ASSUME AnalysisAssumption == MIN_STORES_FOR_OUTLIERS \in Nat /\ TREND_TOLERANCE_DAYS \in Nat

(* StoreOffer: a store's row with the flag; TierAnalysis is the sequence of *)
(* a tier's offers, cheapest first, and what follows from it.               *)
Offer(row, flag) ==
  [source |-> row.source, price |-> row.price, relevance |-> row.relevance, outlier |-> flag]

Relevant(rows) == {r \in rows : r.relevance \in {"match", "low_confidence"}}

(* Rows of a tier from which each store's cheapest is taken; of rows with   *)
(* one price the query's order decides, and it states none.                 *)
CheapestRows(rows, tier) ==
  {r \in rows : r.tier = tier /\ \A q \in rows : q.tier = tier /\ q.source = r.source => r.price <= q.price}

PerStore(rows, tier) ==
  LET cheapest == CheapestRows(rows, tier)
  IN  {kept \in SUBSET cheapest :
         /\ {r.source : r \in kept} = {r.source : r \in cheapest}
         /\ \A r, q \in kept : r.source = q.source => r = q}

(* Between stores that ask the same price the order decides nothing below.  *)
ByPrice(kept) ==
  Sorted(kept, {pair \in kept \X kept : pair[1] # pair[2] /\ pair[1].price <= pair[2].price})

DoubleMedian(prices) ==
  LET n == Len(prices) IN prices[(n + 1) \div 2] + prices[n \div 2 + 1]

Prices(offers) == [n \in DOMAIN offers |-> offers[n].price]

FarFrom(price, doubled) == 4 * price < doubled \/ price > doubled

(* Mutant: the candidate is compared with the median of the others. *)
FlagOutliers_LeaveOneOut(offers) ==
  LET others(n) == SelectSeq([k \in DOMAIN offers |-> IF k = n THEN -1 ELSE offers[k].price], LAMBDA p : p >= 0)
  IN  [n \in DOMAIN offers |->
         Offer(offers[n], Len(offers) >= MIN_STORES_FOR_OUTLIERS /\ FarFrom(offers[n].price, DoubleMedian(others(n))))]

FlagOutliers(offers) ==
  LET doubled == DoubleMedian(Prices(offers))
  IN  [n \in DOMAIN offers |->
         Offer(offers[n], Len(offers) >= MIN_STORES_FOR_OUTLIERS /\ FarFrom(offers[n].price, doubled))]

(* The analyses of a tier that the rows allow, one for each way to break    *)
(* the ties; none when the tier has no row.                                 *)
AnalyzeTier(rows, tier) == {FlagOutliers(ByPrice(kept)) : kept \in PerStore(rows, tier) \ {{}}}

(* The positions of the offers that count for the fair price, in order. *)
Contributing(offers) ==
  LET sure == {n \in DOMAIN offers : ~offers[n].outlier}
  IN  Sorted(sure, {pair \in sure \X sure : pair[1] < pair[2]})

NoPrice == -1

(* Mutant: the flagged offers count as well. *)
FairPrice_Everyone(offers) ==
  IF Len(Contributing(offers)) <= 1 THEN NoPrice ELSE DoubleMedian(Prices(offers))

(* fair_price, doubled; none when a single store contributes. *)
FairPrice(offers) ==
  LET contributing == Contributing(offers)
  IN  IF Len(contributing) <= 1 THEN NoPrice
      ELSE DoubleMedian([n \in DOMAIN contributing |-> offers[contributing[n]].price])

(* Mutant: only the flag is looked at. *)
Trustworthy_Unsure(offers) == {n \in DOMAIN offers : ~offers[n].outlier}

(* margins_for takes the first of these, and skips the tier without any. *)
Trustworthy(offers) == {n \in DOMAIN offers : ~offers[n].outlier /\ offers[n].relevance = "match"}

Best(offers) == offers[CHOOSE n \in Trustworthy(offers) : \A m \in Trustworthy(offers) : n <= m]

=============================================================================

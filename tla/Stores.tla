-------------------------------- MODULE Stores --------------------------------
(***************************************************************************)
(* The stores as the callers of an adapter see them: fetch(query) returns  *)
(* the listings the store sells that the query finds, each dated           *)
(* date.today() when its page was parsed, so that a fetch across midnight  *)
(* can return two dates.                                                   *)
(***************************************************************************)
EXTENDS Storage

CONSTANT Offers     \* what a source may be selling: for each, a set of catalogs

(* A catalog gives, per tracked item, the listings its query finds. *)
Catalog == [Item -> Seq([ext : Product, price : Price])]

ASSUME StoresAssumption == Offers \in [Source -> SUBSET Catalog]

(* The products on sale, and the days their pages may be parsed on. *)
OnSale(sells) == UNION {{sells[i][n].ext : n \in DOMAIN sells[i]} : i \in Item}

Stamps(sells, from, to) == [OnSale(sells) -> from..to]

(* What fetch returns for one item... *)
Fetched(sells, stamp, i) ==
  [n \in DOMAIN sells[i] |-> [ext   |-> sells[i][n].ext,
                              price |-> sells[i][n].price,
                              day   |-> stamp[sells[i][n].ext]]]

(* ...and as rows, classified under a kind (apply_relevance, _to_row). *)
Classified(i, s, kind, sells, stamp) == ToRows(i, s, kind, Fetched(sells, stamp, i))

=============================================================================

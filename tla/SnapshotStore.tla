---------------------------- MODULE SnapshotStore ----------------------------
(***************************************************************************)
(* What the listings table promises its readers (the tiers, the trends and *)
(* the charts), whoever writes it: a day's snapshot is written once.  A    *)
(* transaction publishes fresh rows of one tracked item at one source, or  *)
(* rewrites labels; no row is ever removed, and no stored price changes.   *)
(***************************************************************************)
EXTENDS Storage

VARIABLE table

Init == table = NoRows

SameRows == DOMAIN table' = DOMAIN table

(* Fresh rows of one (item, source) pair, beside everything stored. *)
Publish ==
  /\ IsTable(table')
  /\ \A k \in DOMAIN table : k \in DOMAIN table' /\ table'[k] = table[k]
  /\ \E i \in Item, s \in Source :
       \A k \in DOMAIN table' \ DOMAIN table : k.item = i /\ k.source = s

(* Labels rewritten in place, the price of every row kept. *)
Relabel ==
  /\ IsTable(table')
  /\ SameRows
  /\ \A k \in DOMAIN table : table'[k].price = table[k].price

Next == Publish \/ Relabel

Spec == Init /\ [][Next]_table

=============================================================================

------------------------------ MODULE MC_Radar ------------------------------
(***************************************************************************)
(* One item whose kind may change, one store that both the daily run and a *)
(* quick search ask, one product.                                          *)
(***************************************************************************)
EXTENDS Radar

CONSTANT app

(* Listed as a phone, the item finds only an accessory. *)
MCClassify ==
  [i \in Item |-> [k \in Kind |-> [p \in Product |-> IF k = "part" THEN "match" ELSE "accessory"]]]

MCOffers == [s \in Source |-> {[i \in Item |-> <<[ext |-> "a", price |-> n]>>] : n \in Price}]

MCRegistry == <<"shop">>

OneProcess == [s \in Session |-> app]

=============================================================================

------------------------------ MODULE MC_Ingest ------------------------------
(***************************************************************************)
(* Two tracked items and two stores.  The shop answers a search for the    *)
(* first item with three listings, the first product twice, and one        *)
(* INSERT carries two rows: a batch takes two statements and repeats a key *)
(* within one.  The catalog holds one product that both items find.        *)
(***************************************************************************)
EXTENDS Ingest

MCClassify == [i \in Item |-> [k \in Kind |-> [p \in Product |-> "match"]]]

L(p, price) == [ext |-> p, price |-> price]

MCOffers ==
  [s \in Source |->
     IF s \in Crawled
     THEN {[i \in Item |-> <<L("a", 2)>>]}
     ELSE {[i \in Item |-> IF i = 1 THEN <<L("a", 1), L("a", 2), L("b", 1)>>
                                    ELSE <<>>]}]

(* A quick search stored the row this run is about to insert. *)
MCElsewhere ==
  {[k \in {[item |-> 1, source |-> "shop", ext |-> "a", day |-> 1]} |->
      [price |-> 2, label |-> "match"]]}

MCRegistry == <<"shop", "catalog">>

=============================================================================

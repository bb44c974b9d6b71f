---------------------------- MODULE MC_QuickSearch ----------------------------
(***************************************************************************)
(* Two callers and two searchable stores that sell the one product of the  *)
(* one tracked item.                                                       *)
(***************************************************************************)
EXTENDS QuickSearch

CONSTANTS app, cli

MCClassify == [i \in Item |-> [k \in Kind |-> [p \in Product |-> "match"]]]

MCOffers == [s \in Source |-> {[i \in Item |-> <<[ext |-> "a", price |-> 1]>>]}]

(* The daily run stored the row a call is about to insert. *)
MCElsewhere ==
  {[k \in {[item |-> 1, source |-> "north", ext |-> "a", day |-> 1]} |->
      [price |-> 1, label |-> "match"]]}

(* Both callers are browser sessions of the one app process... *)
OneProcess == [s \in Session |-> app]

(* ...or the second one runs the command line. *)
TwoProcesses == [s \in Session |-> IF s = 1 THEN app ELSE cli]

=============================================================================

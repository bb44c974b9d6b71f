------------------------------ MODULE Dashboard ------------------------------
(***************************************************************************)
(* The dashboard and the price list's command line over one database: each *)
(* process sets the database up, then its writers edit; any of them may be *)
(* stopped at any moment.                                                  *)
(***************************************************************************)
EXTENDS PriceList

vars == <<setUpVars, listVars>>

Init == SetUpInit /\ PriceListInit

(* A process is stopped; what its writers had not committed is lost. *)
Stop(p) ==
  /\ StopsRunning(p)
  /\ edit' = [w \in Writer |-> IF ProcessOf[w] = p THEN Rest ELSE edit[w]]
  /\ told' = [w \in Writer |-> IF ProcessOf[w] = p THEN "nothing" ELSE told[w]]
  /\ confirm' = [w \in Admin |-> IF ProcessOf[w] = p THEN NoId ELSE confirm[w]]
  /\ UNCHANGED <<service, next_id, edits>>

Next ==
  \/ \E p \in Process : SetUpStep(p) /\ UNCHANGED listVars
  \/ \E w \in Writer : EditStep(w) /\ UNCHANGED setUpVars
  \/ \E p \in Process : Stop(p)

(* A process that is starting goes on, and PostgreSQL hands its locks out   *)
(* in the order they were asked for.  Nobody has to start or to edit.       *)
GoesOn(p) == CreateTables(p) \/ LookForColumn(p) \/ CommitColumn(p) \/ LookAgain(p)

Fairness ==
  \A p \in Process :
    /\ WF_vars(GoesOn(p) /\ UNCHANGED listVars)
    /\ SF_vars(AddColumn(p) /\ UNCHANGED listVars)

Spec == Init /\ [][Next]_vars /\ Fairness

-----------------------------------------------------------------------------
TypeOK ==
  /\ SetUpTypeOK
  /\ service \in [id : 1..MaxEdits, item : Item, price : Nat \ {0}] \cup {NoService}
  /\ next_id \in 1..MaxEdits + 1
  /\ told \in [Writer -> Outcome]
  /\ confirm \in [Admin -> 0..MaxEdits]
  /\ edits \in 0..MaxEdits
  /\ \A w \in Writer : edit[w] # Rest => starting[ProcessOf[w]] = "up"
  /\ service # NoService => schema.tables

(* A start ends: nobody waits for ever behind another one's migration,      *)
(* which may fail or be stopped while it holds the table.                   *)
StartEnds ==
  \A p \in Process :
    starting[p] \notin {"off", "up", "aborted"} ~> starting[p] \in {"off", "up", "aborted"}

(* The edit that an answer ends, and what the answer says it did to the row: *)
(* "added" gives what was asked for; "updated" leaves a column that the      *)
(* editor read as it wanted it, whatever that column is by now; "changed"    *)
(* sets the price and leaves the part; "removed" takes the row it was asked  *)
(* for.                                                                      *)
Told(w) ==
  /\ edit[w] # Rest /\ edit'[w] = Rest
  /\ \/ /\ told'[w] = "added"
        /\ service = NoService
        /\ service' = [id |-> next_id, item |-> edit[w].item, price |-> edit[w].price]
     \/ /\ told'[w] = "updated"
        /\ service # NoService
        /\ service' \in [id : {service.id}, item : {service.item, edit[w].item},
                         price : {service.price, edit[w].price}]
        /\ service'.item = edit[w].item \/ edit[w].item = edit[w].seen.item
        /\ service'.price = edit[w].price \/ edit[w].price = edit[w].seen.price
     \/ /\ told'[w] = "changed"
        /\ service # NoService
        /\ service' = [service EXCEPT !.price = edit[w].price]
     \/ /\ told'[w] = "removed"
        /\ service # NoService /\ service.id = edit[w].seen.id
        /\ service' = NoService

(* A change is told: whoever else edits the row, a price or a part is        *)
(* replaced only by an edit that says so and that was given them, "added"    *)
(* takes nobody's place, a removed row never comes back, and an edit that    *)
(* failed, was refused or found nothing to do changed nothing.  The other    *)
(* way round it is not promised: an answer may speak of a row that somebody  *)
(* else has changed or removed by then.                                      *)
ChangesAreTold == [][service' # service => \E w \in Writer : Told(w)]_vars

=============================================================================

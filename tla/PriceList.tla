------------------------------ MODULE PriceList ------------------------------
(***************************************************************************)
(* What the shop charges for one repair: the row of service_prices with    *)
(* its label, edited by the admin page (admin.py) and the command line     *)
(* (services.py).  Every edit is a transaction that reads the row, then    *)
(* writes and commits; the ORM writes only the columns whose value differs *)
(* from the one it read, and keeps one object per row within a run.        *)
(***************************************************************************)
EXTENDS SetUp

CONSTANTS
  Writer, Admin,    \* those who edit; the admin sessions among them
  ProcessOf,
  Item,             \* tracked items
  Typed,            \* prices as typed, in tenths of a centavo; 0 for no number
  NoService,
  MaxEdits          \* bounds the edits

ASSUME PriceListAssumption ==
  /\ Admin \subseteq Writer /\ ProcessOf \in [Writer -> Process]
  /\ Typed \subseteq Int /\ MaxEdits \in Nat
  /\ NoService \notin [id : Nat, item : Item, price : Nat]

VARIABLES
  service,    \* the row, or none
  next_id,
  edit,       \* per writer: the edit it is at
  confirm,    \* per admin session: the id it has to confirm the removal of
  told,       \* per writer: what its last edit answered
  edits

listVars == <<service, next_id, edit, confirm, told, edits>>

Rest == [op |-> "none"]

NoId == 0

Outcome == {"nothing", "refused", "added", "updated", "changed", "unchanged", "not_found", "removed", "failed"}

PriceListInit ==
  /\ service = NoService
  /\ next_id = 1
  /\ edit = [w \in Writer |-> Rest]
  /\ confirm = [w \in Admin |-> NoId]
  /\ told = [w \in Writer |-> "nothing"]
  /\ edits = 0

-----------------------------------------------------------------------------
(* parse_price: positive, then rounded half up to whole centavos. *)
Centavos(typed) == (typed + 5) \div 10

(* The row is read: by the admin page, which lists the price list before    *)
(* its buttons act, or by a command line's own SELECT.                      *)
Look(w) ==
  /\ edit[w] = Rest
  /\ starting[ProcessOf[w]] = "up"
  /\ edits < MaxEdits
  /\ edit' = [edit EXCEPT ![w] = [op |-> "looked", seen |-> service]]
  /\ UNCHANGED <<service, next_id, confirm, told, edits>>

(* Nothing is tapped on the page. *)
LookAway(w) ==
  /\ w \in Admin
  /\ edit[w].op = "looked"
  /\ edit' = [edit EXCEPT ![w] = Rest]
  /\ UNCHANGED <<service, next_id, confirm, told, edits>>

Looked(w) == edit[w].op = "looked" /\ edits < MaxEdits

(* An edit that is over, and one that has still to write. *)
Answers(w, outcome) ==
  /\ edit' = [edit EXCEPT ![w] = Rest]
  /\ told' = [told EXCEPT ![w] = outcome]

Decides(w, what) ==
  /\ IF what.op = "done" THEN Answers(w, what.outcome)
     ELSE edit' = [edit EXCEPT ![w] = what] /\ told' = [told EXCEPT ![w] = "nothing"]
  /\ edits' = edits + 1
  /\ UNCHANGED <<service, next_id>>

Done(outcome) == [op |-> "done", outcome |-> outcome]

(* No number or not above zero; an empty label or an item that is not       *)
(* tracked is refused likewise.                                             *)
RefusePrice(w, typed) ==
  /\ Looked(w)
  /\ typed <= 0
  /\ Decides(w, Done("refused"))
  /\ UNCHANGED confirm

Still(seen) == seen # NoService /\ service # NoService /\ service.id = seen.id

(* add_service asks for the label's row.  On the page it is the object that *)
(* was listed if that row is still there, with the values read then.        *)
Labelled(w) == IF w \in Admin /\ ~Still(edit[w].seen) THEN service ELSE edit[w].seen

Add(w, item, typed) ==
  /\ Looked(w)
  /\ typed > 0
  /\ LET seen == Labelled(w)
     IN  Decides(w, IF seen # NoService /\ seen.item = item /\ seen.price = Centavos(typed)
                    THEN Done("unchanged")
                    ELSE [op |-> "add", item |-> item, price |-> Centavos(typed), seen |-> seen])
  /\ UNCHANGED confirm

(* set_price and remove_service get the row by its id, which on the page is *)
(* that of a listed row, and again the object that was listed.              *)
SetPrice(w, id, typed) ==
  /\ Looked(w)
  /\ typed > 0
  /\ LET seen == edit[w].seen
     IN  /\ w \in Admin => seen # NoService /\ id = seen.id
         /\ Decides(w, IF seen = NoService \/ seen.id # id THEN Done("not_found")
                       ELSE IF seen.price = Centavos(typed) THEN Done("unchanged")
                       ELSE [op |-> "set", price |-> Centavos(typed), seen |-> seen])
  /\ UNCHANGED confirm

(* The admin page asks before it removes; the question stays with the       *)
(* session until it is answered, on whatever later run lists the row.       *)
TapRemove(w) ==
  /\ w \in Admin /\ Looked(w)
  /\ edit[w].seen # NoService /\ confirm[w] # edit[w].seen.id
  /\ confirm' = [confirm EXCEPT ![w] = edit[w].seen.id]
  /\ Decides(w, Done("nothing"))

TapNo(w) ==
  /\ w \in Admin /\ Looked(w)
  /\ edit[w].seen # NoService /\ confirm[w] = edit[w].seen.id
  /\ confirm' = [confirm EXCEPT ![w] = NoId]
  /\ Decides(w, Done("nothing"))

TapYes(w) ==
  /\ w \in Admin /\ Looked(w)
  /\ edit[w].seen # NoService /\ confirm[w] = edit[w].seen.id
  /\ confirm' = [confirm EXCEPT ![w] = NoId]
  /\ Decides(w, [op |-> "remove", seen |-> edit[w].seen])

(* The command line asks nothing. *)
Remove(w, id) ==
  /\ w \notin Admin /\ Looked(w)
  /\ LET seen == edit[w].seen
     IN  Decides(w, IF seen = NoService \/ seen.id # id THEN Done("not_found")
                    ELSE [op |-> "remove", seen |-> seen])
  /\ UNCHANGED confirm

-----------------------------------------------------------------------------
(* Mutant: the table's check lets a price of nothing through. *)
Storable_Zero(price) == price >= 0

(* The database's constraints: one row per label, prices above zero. *)
Storable(price) == price > 0

(* Mutant: the insert takes the row over if the label is there by now. *)
Insert_OrReplace(w) ==
  /\ edit[w].op = "add" /\ edit[w].seen = NoService
  /\ IF Storable(edit[w].price)
     THEN /\ service' = [id |-> next_id, item |-> edit[w].item, price |-> edit[w].price]
          /\ Answers(w, "added")
     ELSE UNCHANGED service /\ Answers(w, "failed")
  /\ next_id' = next_id + 1
  /\ UNCHANGED <<confirm, edits>>

Insert(w) ==
  /\ edit[w].op = "add" /\ edit[w].seen = NoService
  /\ IF service = NoService /\ Storable(edit[w].price)
     THEN /\ service' = [id |-> next_id, item |-> edit[w].item, price |-> edit[w].price]
          /\ Answers(w, "added")
     ELSE UNCHANGED service /\ Answers(w, "failed")
  /\ next_id' = next_id + 1
  /\ UNCHANGED <<confirm, edits>>

(* What UPDATE makes of a column: only a value other than the one read is   *)
(* written.                                                                 *)
Written(wanted, read, stored) == IF wanted = read THEN stored ELSE wanted

UpdateBoth(w) ==
  /\ edit[w].op = "add" /\ edit[w].seen # NoService
  /\ IF Still(edit[w].seen) /\ Storable(edit[w].price)
     THEN /\ service' = [service EXCEPT !.item = Written(edit[w].item, edit[w].seen.item, @),
                                        !.price = Written(edit[w].price, edit[w].seen.price, @)]
          /\ Answers(w, "updated")
     ELSE UNCHANGED service /\ Answers(w, "failed")
  /\ UNCHANGED <<next_id, confirm, edits>>

UpdatePrice(w) ==
  /\ edit[w].op = "set"
  /\ IF Still(edit[w].seen) /\ Storable(edit[w].price)
     THEN service' = [service EXCEPT !.price = edit[w].price] /\ Answers(w, "changed")
     ELSE UNCHANGED service /\ Answers(w, "failed")
  /\ UNCHANGED <<next_id, confirm, edits>>

(* A delete that finds nothing is no error. *)
Delete(w) ==
  /\ edit[w].op = "remove"
  /\ service' = IF Still(edit[w].seen) THEN NoService ELSE service
  /\ Answers(w, "removed")
  /\ UNCHANGED <<next_id, confirm, edits>>

Commit(w) == Insert(w) \/ UpdateBoth(w) \/ UpdatePrice(w) \/ Delete(w)

EditStep(w) ==
  \/ Look(w) \/ LookAway(w)
  \/ \E typed \in Typed :
       \/ RefusePrice(w, typed)
       \/ \E item \in Item : Add(w, item, typed)
       \/ \E id \in 1..next_id : SetPrice(w, id, typed)
  \/ \E id \in 1..next_id : Remove(w, id)
  \/ TapRemove(w) \/ TapYes(w) \/ TapNo(w)
  \/ Commit(w)

=============================================================================

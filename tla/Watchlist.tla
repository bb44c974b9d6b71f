------------------------------ MODULE Watchlist ------------------------------
(***************************************************************************)
(* The tracked-items watchlist and the commands that edit it: tracked.py,  *)
(* also used by the admin page.  Every command is one short transaction,   *)
(* hence one action.  Items are paused, never deleted.                     *)
(***************************************************************************)
EXTENDS Storage

VARIABLE watch     \* tracked_items: listed (the row exists), active, kind

DefaultKind == CHOOSE kind \in Kind : TRUE

(* A new database tracks nothing. *)
WatchInit == watch = [i \in Item |-> [listed |-> FALSE, active |-> FALSE, kind |-> DefaultKind]]

WatchTypeOK == watch \in [Item -> [listed : BOOLEAN, active : BOOLEAN, kind : Kind]]

Listed == {i \in Item : watch[i].listed}
Active == {i \in Listed : watch[i].active}

(* add_item for a query that is not listed: ids grow with creation. *)
AddItem(kind) ==
  \E i \in Item \ Listed :
    /\ \A j \in Item \ Listed : i <= j
    /\ watch' = [watch EXCEPT ![i] = [listed |-> TRUE, active |-> TRUE, kind |-> kind]]

(* pause, resume, and add for a query that is listed and paused (its kind  *)
(* stays); an item already in the state asked for is left alone.           *)
SetActive(i, active) ==
  /\ i \in Listed
  /\ watch[i].active # active
  /\ watch' = [watch EXCEPT ![i].active = active]

(* kind: the stored rows keep the labels they have. *)
SetKind(i, kind) ==
  /\ i \in Listed
  /\ watch[i].kind # kind
  /\ watch' = [watch EXCEPT ![i].kind = kind]

Edit ==
  \/ \E kind \in Kind : AddItem(kind)
  \/ \E i \in Item, active \in BOOLEAN : SetActive(i, active)
  \/ \E i \in Item, kind \in Kind : SetKind(i, kind)

=============================================================================

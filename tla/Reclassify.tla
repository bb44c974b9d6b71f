------------------------------ MODULE Reclassify ------------------------------
(***************************************************************************)
(* tracked reclassify: the relevance filter run again over the stored rows *)
(* of some items, labels rewritten in place.  It is one long transaction:  *)
(* the items (and so their kinds) are read first, then the rows of each    *)
(* item in turn, and the rewritten labels reach the table at the commit.   *)
(* The watchlist and the table's other writers go on meanwhile.            *)
(***************************************************************************)
EXTENDS Watchlist

CONSTANT Passes    \* reclassify commands started (bounds the model)

VARIABLES
  table,     \* listings, as committed
  passes,    \* commands started
  kinds,     \* per item the command loaded: its kind, as loaded
  left,      \* loaded items whose rows are still to be read
  edits,     \* rows it read whose label it rewrote: the new label
  read,      \* history: keys of the rows it read
  clean      \* history: rows relabelled under their item's kind of today

ASSUME ReclassifyAssumption == Passes \in Nat

passVars == <<passes, kinds, left, edits, read, clean>>

Relabelling == DOMAIN kinds # {}

RowsOf(i) == {k \in DOMAIN table : k.item = i}

ReclassifyInit ==
  /\ passes = 0
  /\ kinds = NoRows
  /\ left = {}
  /\ edits = NoRows
  /\ read = {}
  /\ clean = {}

(* The items are loaded: those asked for by id, or all; paused ones too.    *)
(* An unknown id aborts before anything is touched.                         *)
LoadItems(items) ==
  /\ ~Relabelling
  /\ passes < Passes
  /\ items # {} /\ items \subseteq Listed
  /\ passes' = passes + 1
  /\ kinds' = [i \in items |-> watch[i].kind]
  /\ left' = items
  /\ UNCHANGED <<watch, table, edits, read, clean>>

(* One item's rows are read and classified under the kind loaded. *)
ScanItem(i) ==
  LET wrong == {k \in RowsOf(i) : table[k].label # Classify[i][kinds[i]][k.ext]}
  IN  /\ i \in left
      /\ left' = left \ {i}
      /\ edits' = Over([k \in wrong |-> Classify[i][kinds[i]][k.ext]], edits)
      /\ read' = read \cup RowsOf(i)
      /\ UNCHANGED <<watch, table, passes, kinds, clean>>

Forget ==
  /\ kinds' = NoRows
  /\ left' = {}
  /\ edits' = NoRows
  /\ read' = {}

(* Every item is read: the labels, and nothing else of a row, are written.  *)
CommitLabels ==
  /\ Relabelling
  /\ left = {}
  /\ table' = [k \in DOMAIN table |->
                 IF k \in DOMAIN edits THEN [table[k] EXCEPT !.label = edits[k]] ELSE table[k]]
  /\ clean' = {k \in clean : k \notin read \/ watch[k.item].kind = kinds[k.item]}
              \cup {k \in read : watch[k.item].kind = kinds[k.item]}
  /\ Forget
  /\ UNCHANGED <<watch, passes>>

(* --dry-run, a database error, or the process dies: rolled back. *)
RollBackLabels ==
  /\ Relabelling
  /\ Forget
  /\ UNCHANGED <<watch, table, passes, clean>>

(* A command of the tracked CLI or the admin page: what was relabelled      *)
(* under another kind is no longer counted as clean.                        *)
EditKinds ==
  /\ Edit
  /\ clean' = {k \in clean : watch'[k.item].kind = watch[k.item].kind}
  /\ UNCHANGED <<table, passes, kinds, left, edits, read>>

ReclassifyStep ==
  \/ \E items \in SUBSET Item : LoadItems(items)
  \/ \E i \in Item : ScanItem(i)
  \/ CommitLabels
  \/ RollBackLabels

-----------------------------------------------------------------------------
ReclassifyTypeOK ==
  /\ passes \in 0..Passes
  /\ DOMAIN kinds \subseteq Listed
  /\ \A i \in DOMAIN kinds : kinds[i] \in Kind
  /\ left \subseteq DOMAIN kinds
  /\ DOMAIN edits \subseteq read
  /\ \A k \in DOMAIN edits : edits[k] \in Label
  /\ read \subseteq DOMAIN table
  /\ clean \subseteq DOMAIN table

(* What reclassify cleaned stays clean: as long as its item's kind is not   *)
(* changed, a relabelled row keeps the label that kind gives it, whatever   *)
(* the daily run or a quick search, started under the old kind, still       *)
(* stores, and however often they fetch that row again.                     *)
RelabelSticks ==
  \A k \in clean : table[k].label = Classify[k.item][watch[k.item].kind][k.ext]

=============================================================================

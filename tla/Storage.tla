------------------------------- MODULE Storage -------------------------------
(***************************************************************************)
(* The listings table and the one statement that fills it: storage.py on   *)
(* top of models.py.  A row is identified by its snapshot key (tracked     *)
(* item, source, external id, day), and                                    *)
(* INSERT ... ON CONFLICT DO NOTHING leaves a stored key alone.            *)
(* The table is a function from the stored keys to their cells.            *)
(***************************************************************************)
EXTENDS Integers, Sequences, FiniteSets

CONSTANTS
  Item,       \* tracked item ids (the id order is the order of creation)
  Source,     \* slugs of the registry
  Product,    \* external ids of the stores' products
  Price,      \* what a listing may cost
  Kind,       \* TRACKED_KINDS: part, phone
  Label,      \* relevance labels
  Classify,   \* the relevance filter, as the label of each (item, kind, product)
  ChunkSize,  \* rows per INSERT statement (_CHUNK_SIZE)
  LastDay     \* the calendar is 1..LastDay (bounds the model)

Day == 1..LastDay

ASSUME StorageAssumption ==
  /\ Item \subseteq Nat /\ Item # {} /\ Kind # {}
  /\ IsFiniteSet(Item)
  /\ Classify \in [Item -> [Kind -> [Product -> Label]]]
  /\ ChunkSize \in Nat \ {0}
  /\ LastDay \in Nat \ {0}

-----------------------------------------------------------------------------
(* Keys, cells and rows.  title, currency, condition and url travel with   *)
(* the price and decide nothing; the score follows from what the label     *)
(* follows from.                                                           *)

Key     == [item : Item, source : Source, ext : Product, day : Day]
Cell    == [price : Price, label : Label]
Row     == [key : Key, cell : Cell]
Listing == [ext : Product, price : Price, day : Day]

IsTable(t) ==
  /\ t = [k \in DOMAIN t |-> t[k]]
  /\ DOMAIN t \subseteq Key
  /\ \A k \in DOMAIN t : t[k] \in Cell

NoRows == [k \in {} |-> 0]

(* A fetched listing, classified under the item's kind, as a row. *)
ToRow(i, s, kind, listing) ==
  [key  |-> [item |-> i, source |-> s, ext |-> listing.ext, day |-> listing.day],
   cell |-> [price |-> listing.price, label |-> Classify[i][kind][listing.ext]]]

ToRows(i, s, kind, listings) ==
  [n \in DOMAIN listings |-> ToRow(i, s, kind, listings[n])]

KeysOf(rows) == {rows[n].key : n \in DOMAIN rows}

-----------------------------------------------------------------------------
(* One table laid over another: the cells of the first win. *)
Over(front, back) ==
  [k \in DOMAIN front \cup DOMAIN back |->
     IF k \in DOMAIN front THEN front[k] ELSE back[k]]

(* Labels rewritten in place, and nothing else of a row. *)
Relabelled(table) ==
  {[k \in DOMAIN table |-> [table[k] EXCEPT !.label = labels[k]]] : labels \in [DOMAIN table -> Label]}

(* The keys one statement really inserts (what RETURNING yields). *)
Fresh(stored, rows) == KeysOf(rows) \ DOMAIN stored

(* The rows one statement adds to an open transaction that already holds   *)
(* pending, given the rows it sees: of two rows with one key in the same   *)
(* statement, the first is kept.                                           *)
CellFor(rows, k) ==
  rows[CHOOSE n \in DOMAIN rows :
         /\ rows[n].key = k
         /\ \A m \in DOMAIN rows : rows[m].key = k => n <= m].cell

(* Mutant: ON CONFLICT DO UPDATE. *)
InsertRows_Upsert(table, pending, rows) ==
  Over([k \in KeysOf(rows) |-> CellFor(rows, k)], pending)

InsertRows(table, pending, rows) ==
  LET fresh == Fresh(Over(pending, table), rows)
  IN  Over(pending, [k \in fresh |-> CellFor(rows, k)])

(* Mutant: only full chunks are sent. *)
Chunk_FullOnly(rows, sent) ==
  IF sent + ChunkSize <= Len(rows) THEN SubSeq(rows, sent + 1, sent + ChunkSize) ELSE <<>>

(* batched(rows, _CHUNK_SIZE): the statement that follows the first sent rows. *)
Chunk(rows, sent) ==
  SubSeq(rows, sent + 1, IF sent + ChunkSize < Len(rows) THEN sent + ChunkSize ELSE Len(rows))

=============================================================================

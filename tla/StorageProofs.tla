---------------------------- MODULE StorageProofs ----------------------------
(***************************************************************************)
(* What the operators on the listings table return, preserve and bound,    *)
(* for every table, every batch of rows and every answer of a store, and   *)
(* what the commands on tracked_items keep.                                *)
(***************************************************************************)
EXTENDS Stores, Watchlist, SequenceTheorems, WellFoundedInduction, TLAPS

(* The empty table is a table. *)
LEMMA NoRowsIsTable == IsTable(NoRows) /\ DOMAIN NoRows = {}
  BY DEF IsTable, NoRows

(* One table laid over another is a table with the keys of both; below the *)
(* first, the second shows through unchanged.                              *)
LEMMA OverTables ==
  ASSUME NEW front, NEW back, IsTable(front), IsTable(back)
  PROVE  /\ IsTable(Over(front, back))
         /\ DOMAIN Over(front, back) = DOMAIN front \cup DOMAIN back
         /\ \A k \in DOMAIN front : Over(front, back)[k] = front[k]
         /\ \A k \in DOMAIN back \ DOMAIN front : Over(front, back)[k] = back[k]
  BY DEF IsTable, Over

(* Rewriting labels keeps the rows of a table and their prices. *)
LEMMA RelabelledTable ==
  ASSUME NEW table, IsTable(table), NEW new \in Relabelled(table)
  PROVE  /\ IsTable(new)
         /\ DOMAIN new = DOMAIN table
         /\ \A k \in DOMAIN table : new[k].price = table[k].price
<1>1. PICK labels \in [DOMAIN table -> Label] :
        new = [k \in DOMAIN table |-> [table[k] EXCEPT !.label = labels[k]]]
  BY DEF Relabelled
<1>2. \A k \in DOMAIN table : /\ [table[k] EXCEPT !.label = labels[k]] \in Cell
                              /\ [table[k] EXCEPT !.label = labels[k]].price = table[k].price
  BY DEF IsTable, Cell
<1> QED BY <1>1, <1>2 DEF IsTable

(* The statement that follows the first sent rows is a part of the batch,  *)
(* never empty while there is something to send.                           *)
LEMMA ChunkOfRows ==
  ASSUME NEW rows \in Seq(Row), NEW sent \in 0..Len(rows)
  PROVE  /\ Chunk(rows, sent) \in Seq(Row)
         /\ sent + Len(Chunk(rows, sent)) \in 0..Len(rows)
         /\ sent < Len(rows) => Chunk(rows, sent) # <<>>
         /\ \A n \in 1..Len(Chunk(rows, sent)) : Chunk(rows, sent)[n] = rows[sent + n]
         /\ KeysOf(Chunk(rows, sent)) \subseteq KeysOf(rows)
<1> DEFINE last == IF sent + ChunkSize < Len(rows) THEN sent + ChunkSize ELSE Len(rows)
           chunk == SubSeq(rows, sent + 1, last)
<1>1. ChunkSize \in Nat /\ ChunkSize > 0
  BY StorageAssumption
<1>2. /\ Len(rows) \in Nat
      /\ last \in sent..Len(rows)
      /\ sent < Len(rows) => last > sent
  BY <1>1
<1>3. /\ chunk \in Seq(Row)
      /\ Len(chunk) = last - sent
      /\ \A n \in 1..(last - sent) : chunk[n] = rows[sent + n]
  <2>1. last - (sent + 1) + 1 = last - sent /\ \A n : (sent + 1) + n - 1 = sent + n \/ n \notin Int
    BY <1>2
  <2> QED BY <1>2, <2>1
<1>4. KeysOf(chunk) \subseteq KeysOf(rows)
  <2>1. \A n \in 1..(last - sent) : sent + n \in DOMAIN rows
    BY <1>2
  <2>2. DOMAIN chunk = 1..(last - sent)
    BY <1>2, <1>3
  <2> QED BY <1>3, <2>1, <2>2 DEF KeysOf
<1>5. Chunk(rows, sent) = chunk
  BY DEF Chunk
<1> HIDE DEF chunk, last
<1> QED BY <1>2, <1>3, <1>4, <1>5

(* The rows of a statement give every key they mention a cell, that of a   *)
(* row with that key.                                                      *)
LEMMA CellForIsOfRow ==
  ASSUME NEW rows \in Seq(Row), NEW k \in KeysOf(rows)
  PROVE  /\ CellFor(rows, k) \in Cell
         /\ \E n \in DOMAIN rows : rows[n].key = k /\ CellFor(rows, k) = rows[n].cell
<1> DEFINE places == {n \in DOMAIN rows : rows[n].key = k}
           First(n) == /\ rows[n].key = k
                       /\ \A m \in DOMAIN rows : rows[m].key = k => n <= m
<1>1. places \subseteq Nat /\ places # {} /\ DOMAIN rows \subseteq Nat
  BY DEF KeysOf
<1>2. PICK n \in places : \A m \in places : ~ (<<m, n>> \in OpToRel(<, Nat))
  BY <1>1, WFMin, NatLessThanWellFounded, Zenon
<1>3. \A m \in places : n <= m
  <2> TAKE m \in places
  <2>1. ~ (m < n)
    BY <1>1, <1>2 DEF OpToRel
  <2> QED BY <1>1, <2>1
<1>4. n \in DOMAIN rows /\ First(n)
  BY <1>3
<1>5. PICK x \in DOMAIN rows : First(x) /\ x = CHOOSE y \in DOMAIN rows : First(y)
  BY <1>4, Zenon
<1>6. CellFor(rows, k) = rows[x].cell
  BY <1>5 DEF CellFor
<1>7. rows[x] \in Row
  BY <1>5
<1> QED BY <1>5, <1>6, <1>7 DEF Row

(* ON CONFLICT DO NOTHING, at the level of an open transaction: what it    *)
(* already inserted stays as it is, every other key it gains is new to the *)
(* table and comes from the statement, and every key of the statement is   *)
(* then in the one or the other.                                           *)
THEOREM InsertRowsThm ==
  ASSUME NEW table, NEW pending, IsTable(table), IsTable(pending),
         NEW rows \in Seq(Row)
  PROVE  LET new == InsertRows(table, pending, rows)
         IN  /\ IsTable(new)
             /\ DOMAIN new \subseteq DOMAIN pending \cup KeysOf(rows)
             /\ DOMAIN pending \subseteq DOMAIN new
             /\ \A k \in DOMAIN pending : new[k] = pending[k]
             /\ DOMAIN new \cap DOMAIN table \subseteq DOMAIN pending
             /\ KeysOf(rows) \subseteq DOMAIN new \cup DOMAIN table
<1> DEFINE fresh == Fresh(Over(pending, table), rows)
           added == [k \in fresh |-> CellFor(rows, k)]
<1>1. KeysOf(rows) \subseteq Key
  <2>1. \A n \in DOMAIN rows : rows[n] \in Row
    OBVIOUS
  <2> QED BY <2>1 DEF KeysOf, Row
<1>2. /\ fresh \subseteq KeysOf(rows)
      /\ fresh \cap (DOMAIN pending \cup DOMAIN table) = {}
      /\ KeysOf(rows) \subseteq fresh \cup DOMAIN pending \cup DOMAIN table
  BY OverTables DEF Fresh
<1>3. IsTable(added)
  <2>1. DOMAIN added = fresh /\ added = [k \in DOMAIN added |-> added[k]]
    OBVIOUS
  <2>2. \A k \in fresh : added[k] \in Cell
    BY <1>2, CellForIsOfRow
  <2> HIDE DEF added
  <2> QED BY <1>1, <1>2, <2>1, <2>2 DEF IsTable
<1>4. InsertRows(table, pending, rows) = Over(pending, added) /\ DOMAIN added = fresh
  BY DEF InsertRows
<1>5. /\ IsTable(Over(pending, added))
      /\ DOMAIN Over(pending, added) = DOMAIN pending \cup DOMAIN added
      /\ \A k \in DOMAIN pending : Over(pending, added)[k] = pending[k]
  <2> HIDE DEF added
  <2> QED BY <1>3, OverTables
<1> HIDE DEF fresh, added
<1> QED BY <1>2, <1>4, <1>5

(* Each key a statement gains comes with the cell of one of its rows. *)
LEMMA InsertedCells ==
  ASSUME NEW table, NEW pending, NEW rows \in Seq(Row),
         NEW k \in DOMAIN InsertRows(table, pending, rows), k \notin DOMAIN pending
  PROVE  \E n \in DOMAIN rows : /\ rows[n].key = k
                               /\ InsertRows(table, pending, rows)[k] = rows[n].cell
<1>1. k \in KeysOf(rows) /\ InsertRows(table, pending, rows)[k] = CellFor(rows, k)
  BY DEF InsertRows, Over, Fresh
<1> QED BY <1>1, CellForIsOfRow

(* A batch of listings, classified, is a batch of rows of that item at     *)
(* that source.                                                            *)
LEMMA ToRowsAreRows ==
  ASSUME NEW i \in Item, NEW s \in Source, NEW kind \in Kind, NEW listings \in Seq(Listing)
  PROVE  /\ ToRows(i, s, kind, listings) \in Seq(Row)
         /\ \A k \in KeysOf(ToRows(i, s, kind, listings)) : k.item = i /\ k.source = s
<1> DEFINE rows == ToRows(i, s, kind, listings)
<1>1. DOMAIN listings = 1..Len(listings) /\ Len(listings) \in Nat
  OBVIOUS
<1>2. ASSUME NEW n \in DOMAIN listings
      PROVE  rows[n] \in Row /\ rows[n].key.item = i /\ rows[n].key.source = s
  <2>1. listings[n] \in Listing
    OBVIOUS
  <2>2. Classify[i][kind][listings[n].ext] \in Label
    BY <2>1, StorageAssumption DEF Listing
  <2> QED BY <2>1, <2>2 DEF ToRows, ToRow, Row, Key, Cell, Listing
<1>3. rows \in [1..Len(listings) -> Row]
  BY <1>1, <1>2 DEF ToRows
<1>4. rows \in Seq(Row)
  BY <1>1, <1>3, SeqDef
<1> QED BY <1>2, <1>3, <1>4, <1>1 DEF KeysOf

(* Whatever a store answers for an item, and on whichever days its pages   *)
(* were parsed, the classified batch is a batch of rows of that pair.      *)
LEMMA ClassifiedAreRows ==
  ASSUME NEW i \in Item, NEW s \in Source, NEW kind \in Kind, NEW sells \in Catalog,
         NEW from \in Day, NEW to \in Day, NEW stamp \in Stamps(sells, from, to)
  PROVE  /\ Classified(i, s, kind, sells, stamp) \in Seq(Row)
         /\ \A k \in KeysOf(Classified(i, s, kind, sells, stamp)) : k.item = i /\ k.source = s
<1> DEFINE listings == Fetched(sells, stamp, i)
<1>1. sells[i] \in Seq([ext : Product, price : Price])
  BY DEF Catalog
<1>2. DOMAIN sells[i] = 1..Len(sells[i]) /\ Len(sells[i]) \in Nat
  BY <1>1
<1>3. ASSUME NEW n \in DOMAIN sells[i]
      PROVE  listings[n] \in Listing
  <2>1. sells[i][n] \in [ext : Product, price : Price]
    BY <1>1, <1>2, ElementOfSeq
  <2>2. sells[i][n].ext \in OnSale(sells)
    BY DEF OnSale
  <2>3. stamp[sells[i][n].ext] \in from..to
    BY <2>2 DEF Stamps
  <2>4. from..to \subseteq Day
    BY StorageAssumption DEF Day
  <2> QED BY <2>1, <2>3, <2>4 DEF Fetched, Listing
<1>4. listings \in [1..Len(sells[i]) -> Listing]
  BY <1>2, <1>3 DEF Fetched
<1>5. listings \in Seq(Listing)
  BY <1>2, <1>4, SeqDef
<1> HIDE DEF listings
<1>6. Classified(i, s, kind, sells, stamp) = ToRows(i, s, kind, listings)
  BY DEF Classified, listings
<1> QED BY <1>5, <1>6, ToRowsAreRows

-----------------------------------------------------------------------------
(* An item that names no kind has one. *)
LEMMA DefaultKindTyped == DefaultKind \in Kind
  BY StorageAssumption DEF DefaultKind

(* An empty watchlist is a watchlist. *)
LEMMA WatchInitTyped == WatchInit => WatchTypeOK
<1> SUFFICES ASSUME WatchInit PROVE WatchTypeOK
  OBVIOUS
<1> QED BY DefaultKindTyped DEF WatchInit, WatchTypeOK

(* A command on the watchlist leaves a watchlist. *)
LEMMA EditTyped == WatchTypeOK /\ Edit => WatchTypeOK'
<1> SUFFICES ASSUME WatchTypeOK, Edit PROVE WatchTypeOK'
  OBVIOUS
<1> USE DEF WatchTypeOK
<1>1. CASE \E k \in Kind : AddItem(k)
  BY <1>1 DEF AddItem
<1>2. CASE \E i \in Item, active \in BOOLEAN : SetActive(i, active)
  BY <1>2 DEF SetActive
<1>3. CASE \E i \in Item, k \in Kind : SetKind(i, k)
  BY <1>3 DEF SetKind
<1> QED BY <1>1, <1>2, <1>3 DEF Edit

=============================================================================

----------------------------- MODULE IngestProofs -----------------------------
(***************************************************************************)
(* Proofs about the daily run, for any stores, catalogs, items, registry   *)
(* and days, and any rows that other writers commit.  First its types and  *)
(* what it does to the table; then the order in which it visits its pairs  *)
(* of store and item, each once, and what follows from it: a pair's batch  *)
(* is stored whole or not at all, and a source that failed is left alone;  *)
(* then what it reports.                                                   *)
(***************************************************************************)
EXTENDS Ingest, StorageProofs, FiniteSetTheorems

(* The catalogs that adapters keep are what their stores were selling. *)
CrawlOK ==
  /\ crawl = [s \in Source |-> crawl[s]]
  /\ \A s \in Source :
       crawl[s].done => /\ crawl[s].sells \in Catalog
                        /\ crawl[s].stamp \in [OnSale(crawl[s].sells) -> Day]

(* A run at work has a store and an item in hand. *)
BusyOK == Running => queue # <<>> /\ stores # <<>> /\ todo # <<>>

(* Outside the transaction of a pair no rows are in hand. *)
RestOK == phase # "save" => rows = <<>>

IngestTyped == TypeOK /\ CrawlOK /\ BusyOK /\ RestOK

-----------------------------------------------------------------------------
(* What an ascending enumeration of a finite set is. *)
LEMMA AscendingIsSeq ==
  ASSUME NEW T, NEW S, S \subseteq T, IsFiniteSet(S), NEW q \in Ascending(S)
  PROVE  /\ q \in Seq(T)
         /\ \A m, n \in DOMAIN q : m < n => q[m] < q[n]
<1>1. Cardinality(S) \in Nat
  BY FS_CardinalityType
<1>2. q \in [1..Cardinality(S) -> S] /\ DOMAIN q = 1..Cardinality(S)
  BY DEF Ascending
<1>3. \A m, n \in 1..Cardinality(S) : m < n => q[m] < q[n]
  BY DEF Ascending
<1> QED BY <1>1, <1>2, <1>3

(* The first state has the types. *)
LEMMA InitTyped == Init => IngestTyped
<1> SUFFICES ASSUME Init PROVE IngestTyped
  OBVIOUS
<1>1. WatchTypeOK
  BY WatchInitTyped DEF Init
<1>2. 1 \in Day /\ DefaultKind \in Kind
  BY StorageAssumption, DefaultKindTyped DEF Day
<1>3. IsTable(table) /\ IsTable(pending)
  BY NoRowsIsTable DEF Init
<1>4. queue \in Seq(Item) /\ stores \in Seq(Source) /\ todo \in Seq(Item) /\ rows \in Seq(Row)
  BY DEF Init
<1>5. TypeOK
  BY <1>1, <1>2, <1>3, <1>4, IngestAssumption DEF Init, TypeOK, Phases
<1>6. CrawlOK
  BY DEF Init, CrawlOK, NotCrawled
<1>7. BusyOK
  BY DEF Init, BusyOK, Running
<1> QED BY <1>5, <1>6, <1>7 DEF IngestTyped, RestOK, Init

(* The loops move on inside the sequences they were given. *)
LEMMA NextStoreTyped ==
  ASSUME TypeOK, BusyOK, Running, NextStore
  PROVE  /\ stores' \in Seq(Source) /\ todo' \in Seq(Item)
         /\ phase' \in {"done", "pair"}
         /\ phase' = "pair" => stores' # <<>> /\ todo' # <<>>
<1>1. queue \in Seq(Item) /\ queue # <<>> /\ stores \in Seq(Source) /\ stores # <<>>
  BY DEF TypeOK, BusyOK
<1>2. stores' = Tail(stores) /\ todo' = queue
  BY DEF NextStore
<1>3. stores' \in Seq(Source) /\ Len(stores') = Len(stores) - 1
  BY <1>1, <1>2, HeadTailProperties
<1>4. phase' = IF Len(stores) = 1 THEN "done" ELSE "pair"
  BY DEF NextStore
<1>5. Len(stores) \in Nat \ {0} /\ (Len(stores) # 1 => stores' # <<>>)
  BY <1>1, <1>3, EmptySeq
<1> QED BY <1>1, <1>2, <1>3, <1>4, <1>5

(* Going on to the next pair, item or end of the run keeps the types. *)
LEMMA NextPairTyped ==
  ASSUME TypeOK, BusyOK, Running, NextPair
  PROVE  /\ stores' \in Seq(Source) /\ todo' \in Seq(Item)
         /\ phase' \in {"done", "pair"}
         /\ phase' = "pair" => stores' # <<>> /\ todo' # <<>>
<1>1. CASE Len(todo) = 1
  BY <1>1, NextStoreTyped DEF NextPair
<1>2. CASE Len(todo) # 1
  <2>1. todo \in Seq(Item) /\ todo # <<>> /\ stores \in Seq(Source) /\ stores # <<>>
    BY DEF TypeOK, BusyOK
  <2>2. todo' = Tail(todo) /\ phase' = "pair" /\ stores' = stores
    BY <1>2 DEF NextPair
  <2>3. todo' \in Seq(Item) /\ Len(todo') = Len(todo) - 1
    BY <2>1, <2>2, HeadTailProperties
  <2>4. todo' # <<>>
    BY <1>2, <2>1, <2>3, EmptySeq
  <2> QED BY <2>1, <2>2, <2>3, <2>4
<1> QED BY <1>1, <1>2

(* The pair in hand. *)
LEMMA InHandTyped == ASSUME TypeOK, BusyOK, Running PROVE Store \in Source /\ Current \in Item
<1>1. stores \in Seq(Source) /\ stores # <<>> /\ todo \in Seq(Item) /\ todo # <<>>
  BY DEF TypeOK, BusyOK
<1>2. Head(stores) \in Source /\ Head(todo) \in Item
  BY <1>1, HeadTailProperties
<1> QED BY <1>2 DEF Store, Current

(* What a transaction leaves when it ends. *)
LEMMA EndTyped ==
  EndTransaction => rows' \in Seq(Row) /\ sent' \in 0..Len(rows') /\ IsTable(pending')
<1> SUFFICES ASSUME EndTransaction PROVE rows' \in Seq(Row) /\ sent' \in 0..Len(rows') /\ IsTable(pending')
  OBVIOUS
<1>1. rows' = <<>> /\ sent' = 0 /\ pending' = NoRows
  BY DEF EndTransaction
<1> QED BY <1>1, NoRowsIsTable

(* A failure gives the source up, whatever became of the table. *)
LEMMA AbandonTyped ==
  ASSUME IngestTyped, Running, NEW failure, Abandon(failure),
         IsTable(table'), mine' \subseteq Key
  PROVE  IngestTyped'
<1>1. /\ stores' \in Seq(Source) /\ todo' \in Seq(Item)
      /\ phase' \in {"done", "pair"}
      /\ phase' = "pair" => stores' # <<>> /\ todo' # <<>>
  BY NextStoreTyped DEF IngestTyped, Abandon
<1>2. rows' \in Seq(Row) /\ sent' \in 0..Len(rows') /\ IsTable(pending')
  BY EndTyped DEF Abandon
<1>3. TypeOK'
  BY <1>1, <1>2 DEF Abandon, IngestTyped, TypeOK, WatchTypeOK, Phases
<1>4. CrawlOK'
  BY DEF Abandon, IngestTyped, CrawlOK
<1>5. BusyOK'
  BY <1>1 DEF Abandon, IngestTyped, BusyOK, Running
<1>6. RestOK'
  BY DEF Abandon, EndTransaction, RestOK
<1> QED BY <1>3, <1>4, <1>5, <1>6 DEF IngestTyped

(* The keys of a batch of rows are snapshot keys. *)
LEMMA KeysAreKeys == ASSUME NEW batch \in Seq(Row) PROVE KeysOf(batch) \subseteq Key
<1>1. \A n \in DOMAIN batch : batch[n] \in Row
  OBVIOUS
<1> QED BY <1>1 DEF KeysOf, Row

(* An answer becomes classified rows of the pair in hand. *)
LEMMA ReceivedTyped ==
  ASSUME IngestTyped, phase = "fetch",
         NEW sells \in Catalog, NEW stamp \in [OnSale(sells) -> Day], Received(sells, stamp)
  PROVE  /\ TypeOK' /\ BusyOK' /\ RestOK'
         /\ \A k \in KeysOf(rows') : k.item = Current /\ k.source = Store
<1>1. Store \in Source /\ Current \in Item /\ kind \in Kind
  BY InHandTyped DEF IngestTyped, Running, TypeOK
<1>2. stamp \in Stamps(sells, 1, LastDay) /\ 1 \in Day /\ LastDay \in Day
  BY StorageAssumption DEF Stamps, Day
<1>3. rows' = Classified(Current, Store, kind, sells, stamp)
  BY DEF Received
<1>4. /\ rows' \in Seq(Row)
      /\ \A k \in KeysOf(rows') : k.item = Current /\ k.source = Store
  BY <1>1, <1>2, <1>3, ClassifiedAreRows
<1>5. sent' = 0 /\ Len(rows') \in Nat
  BY <1>4 DEF Received, IngestTyped, RestOK, TypeOK
<1>6. KeysOf(rows') \subseteq Key
  BY <1>4, KeysAreKeys
<1>7. answers' \in [Source -> [Item -> SUBSET Key]]
  BY <1>1, <1>6 DEF Received, IngestTyped, TypeOK
<1>8. TypeOK'
  BY <1>4, <1>5, <1>7 DEF Received, IngestTyped, TypeOK, WatchTypeOK, Phases
<1>9. BusyOK' /\ RestOK'
  BY DEF Received, IngestTyped, BusyOK, RestOK, Running
<1> QED BY <1>4, <1>8, <1>9

-----------------------------------------------------------------------------
(* The start of a run: the plan is a list of distinct registry sources. *)
LEMMA StartTyped ==
  ASSUME IngestTyped, NEW requested \in SUBSET Source, StartRun(requested)
  PROVE  IngestTyped'
<1>1. PICK items \in Ascending(Active), places \in Ascending(Selected(requested)) :
        /\ queue' = items /\ todo' = items
        /\ stores' = [n \in DOMAIN places |-> Registry[places[n]]]
        /\ plan' = Members(stores')
        /\ IF items = <<>> \/ places = <<>>
           THEN phase' = "done" /\ kind' = kind /\ asks' = [s \in Source |-> 0]
           ELSE /\ phase' = "fetch"
                /\ kind' = watch[Head(items)].kind
                /\ asks' = [s \in Source |-> IF s = Registry[Head(places)] THEN 1 ELSE 0]
  BY DEF StartRun
<1>2. Active \subseteq Item /\ IsFiniteSet(Active)
  BY StorageAssumption, FS_Subset DEF Active, Listed
<1>3. items \in Seq(Item)
  BY <1>2, AscendingIsSeq
<1>4. DOMAIN Registry = 1..Len(Registry) /\ Len(Registry) \in Nat
  BY IngestAssumption
<1>5. Selected(requested) \subseteq DOMAIN Registry /\ IsFiniteSet(Selected(requested))
  <2>1. Selected(requested) \in SUBSET (1..Len(Registry))
    BY <1>4 DEF Selected
  <2>2. IsFiniteSet(1..Len(Registry))
    BY <1>4, FS_Interval
  <2> QED BY <1>4, <2>1, <2>2, FS_Subset
<1>6. places \in Seq(DOMAIN Registry)
  BY <1>5, AscendingIsSeq
<1>7. stores' \in Seq(Source) /\ Len(stores') = Len(places)
  <2>1. DOMAIN places = 1..Len(places) /\ Len(places) \in Nat
    BY <1>6
  <2>2. \A n \in DOMAIN places : Registry[places[n]] \in Source
    BY <1>6, IngestAssumption
  <2> QED BY <1>1, <2>1, <2>2
<1>8. plan' \subseteq Source
  BY <1>1, <1>7 DEF Members
<1>9. phase' = "fetch" => /\ queue' # <<>> /\ todo' # <<>> /\ stores' # <<>>
                          /\ Head(items) \in Item
  <2> SUFFICES ASSUME phase' = "fetch"
               PROVE  queue' # <<>> /\ todo' # <<>> /\ stores' # <<>> /\ Head(items) \in Item
    OBVIOUS
  <2>1. items # <<>> /\ places # <<>>
    BY <1>1
  <2> QED BY <1>1, <1>3, <1>6, <1>7, <2>1
<1>10. /\ phase' \in {"done", "fetch"}
       /\ kind' \in Kind
       /\ asks' \in [Source -> Nat]
  BY <1>1, <1>9 DEF IngestTyped, TypeOK, WatchTypeOK
<1>11. IsTable(pending') /\ rows' = <<>> /\ sent' = 0
  BY NoRowsIsTable DEF StartRun
<1>12. runs' \in 0..MaxRuns
  BY IngestAssumption DEF StartRun, IngestTyped, TypeOK
<1>13. /\ DOMAIN report' = Source /\ mine' \subseteq Key
       /\ answers' \in [Source -> [Item -> SUBSET Key]]
  BY DEF StartRun
<1>14. WatchTypeOK' /\ IsTable(table') /\ today' \in Day /\ began' \in Day
  BY DEF StartRun, IngestTyped, TypeOK, WatchTypeOK
<1>15. rows' \in Seq(Row) /\ sent' \in 0..Len(rows')
  BY <1>11
<1>16. TypeOK'
  BY <1>1, <1>3, <1>7, <1>8, <1>10, <1>11, <1>12, <1>13, <1>14, <1>15 DEF TypeOK, Phases
<1>17. CrawlOK'
  BY DEF StartRun, CrawlOK, NotCrawled
<1>18. BusyOK' /\ RestOK'
  BY <1>9, <1>10, <1>11 DEF BusyOK, RestOK, Running
<1> QED BY <1>16, <1>17, <1>18 DEF IngestTyped

(* What another writer commits leaves a table. *)
LEMMA OtherWriterTyped == ASSUME TypeOK, OtherWriter PROVE IsTable(table')
<1>1. CASE \E new \in Elsewhere : table' = Over(table, new)
  <2>1. PICK new \in Elsewhere : table' = Over(table, new)
    BY <1>1
  <2>2. IsTable(new) /\ IsTable(table)
    BY IngestAssumption DEF TypeOK
  <2> QED BY <2>1, <2>2, OverTables
<1>2. CASE table' \in Relabelled(table)
  BY <1>2, RelabelledTable DEF TypeOK
<1> QED BY <1>1, <1>2 DEF OtherWriter

(* One INSERT. *)
LEMMA SaveChunkTyped ==
  ASSUME IngestTyped, NEW held, SaveChunk(held)
  PROVE  /\ IngestTyped'
         /\ DOMAIN pending' \subseteq DOMAIN pending \cup KeysOf(rows)
         /\ DOMAIN pending' \cap DOMAIN table \subseteq DOMAIN pending
<1> DEFINE chunk == Chunk(rows, sent)
           new   == InsertRows(table, pending, chunk)
<1>1. rows \in Seq(Row) /\ sent \in 0..Len(rows) /\ IsTable(table) /\ IsTable(pending)
  BY DEF IngestTyped, TypeOK
<1>2. chunk \in Seq(Row) /\ sent + Len(chunk) \in 0..Len(rows) /\ KeysOf(chunk) \subseteq KeysOf(rows)
  BY <1>1, ChunkOfRows
<1>3. /\ IsTable(new)
      /\ DOMAIN new \subseteq DOMAIN pending \cup KeysOf(chunk)
      /\ DOMAIN new \cap DOMAIN table \subseteq DOMAIN pending
  BY <1>1, <1>2, InsertRowsThm
<1>4. pending' = new /\ sent' = sent + Len(chunk) /\ rows' = rows
  BY DEF SaveChunk
<1> HIDE DEF chunk, new
<1>5. TypeOK'
  BY <1>2, <1>3, <1>4 DEF SaveChunk, IngestTyped, TypeOK, WatchTypeOK
<1>6. CrawlOK' /\ BusyOK' /\ RestOK'
  BY DEF SaveChunk, IngestTyped, CrawlOK, BusyOK, RestOK, Running
<1> QED BY <1>2, <1>3, <1>4, <1>5, <1>6 DEF IngestTyped

-----------------------------------------------------------------------------
(* What a source answers, and the days it dates it with. *)
LEMMA OffersTyped ==
  ASSUME IngestTyped, phase = "fetch", NEW sells \in Offers[Store],
         NEW stamp \in Stamps(sells, began, today)
  PROVE  sells \in Catalog /\ stamp \in [OnSale(sells) -> Day]
<1>1. Store \in Source /\ began..today \subseteq Day
  BY InHandTyped, StorageAssumption DEF IngestTyped, Running, TypeOK, Day
<1>2. sells \in Catalog
  BY <1>1, StoresAssumption
<1>3. stamp \in [OnSale(sells) -> began..today]
  BY DEF Stamps
<1> QED BY <1>1, <1>2, <1>3

(* A first crawl is kept as it was answered. *)
LEMMA CrawlAnswersTyped == IngestTyped /\ CrawlAnswers => IngestTyped'
<1> SUFFICES ASSUME IngestTyped, CrawlAnswers PROVE IngestTyped'
  OBVIOUS
<1>1. PICK sells \in Offers[Store], exhausted \in BOOLEAN :
        \E stamp \in Stamps(sells, began, today) :
          /\ crawl' = [crawl EXCEPT ![Store] =
               [done |-> TRUE, exhausted |-> exhausted, sells |-> sells, stamp |-> stamp]]
          /\ Received(sells, stamp)
  BY DEF CrawlAnswers
<1>2. PICK stamp \in Stamps(sells, began, today) :
        /\ crawl' = [crawl EXCEPT ![Store] =
             [done |-> TRUE, exhausted |-> exhausted, sells |-> sells, stamp |-> stamp]]
        /\ Received(sells, stamp)
  BY <1>1
<1>3. phase = "fetch"
  BY DEF CrawlAnswers
<1>4. sells \in Catalog /\ stamp \in [OnSale(sells) -> Day]
  BY <1>3, OffersTyped
<1>5. TypeOK' /\ BusyOK' /\ RestOK'
  BY <1>2, <1>3, <1>4, ReceivedTyped
<1>6. CrawlOK'
  BY <1>2, <1>4 DEF IngestTyped, CrawlOK
<1> QED BY <1>5, <1>6 DEF IngestTyped

(* The rows that COMMIT makes visible, whether or not the answer arrives. *)
LEMMA CommittedTyped ==
  ASSUME TypeOK, Committed PROVE IsTable(table') /\ mine' \subseteq Key
<1>1. IsTable(table) /\ IsTable(pending) /\ mine \subseteq Key
  BY DEF TypeOK
<1>2. IsTable(table')
  BY <1>1, OverTables DEF Committed
<1>3. mine' \subseteq Key
  BY <1>1 DEF Committed, IsTable
<1> QED BY <1>2, <1>3

(* A commit, whose table is the transaction laid over the old one. *)
LEMMA CommitTyped == IngestTyped /\ Commit => IngestTyped'
<1> SUFFICES ASSUME IngestTyped, Commit PROVE IngestTyped'
  OBVIOUS
<1>1. Running
  BY DEF Commit, Running
<1>2. /\ stores' \in Seq(Source) /\ todo' \in Seq(Item)
      /\ phase' \in {"done", "pair"}
      /\ phase' = "pair" => stores' # <<>> /\ todo' # <<>>
  BY <1>1, NextPairTyped DEF Commit, IngestTyped
<1>3. rows' \in Seq(Row) /\ sent' \in 0..Len(rows') /\ IsTable(pending') /\ rows' = <<>>
  BY EndTyped DEF Commit, EndTransaction
<1>4. IsTable(table') /\ mine' \subseteq Key
  BY CommittedTyped DEF Commit, IngestTyped
<1>7. DOMAIN report' = Source
  BY DEF Commit, IngestTyped, TypeOK
<1>8. TypeOK'
  BY <1>2, <1>3, <1>4, <1>7 DEF Commit, IngestTyped, TypeOK, WatchTypeOK, Phases
<1>9. CrawlOK'
  BY DEF Commit, IngestTyped, CrawlOK
<1>10. BusyOK' /\ RestOK'
  BY <1>2, <1>3 DEF Commit, IngestTyped, BusyOK, RestOK, Running
<1> QED BY <1>8, <1>9, <1>10 DEF IngestTyped

(* A killed run drops all it held. *)
LEMMA KillTyped == IngestTyped /\ Kill => IngestTyped'
<1> SUFFICES ASSUME IngestTyped, Kill PROVE IngestTyped'
  OBVIOUS
<1>1. rows' \in Seq(Row) /\ sent' \in 0..Len(rows') /\ IsTable(pending') /\ rows' = <<>>
  BY EndTyped DEF Kill, EndTransaction
<1>2. 1 \in Day /\ DefaultKind \in Kind
  BY StorageAssumption, DefaultKindTyped DEF Day
<1>3. queue' \in Seq(Item) /\ stores' \in Seq(Source) /\ todo' \in Seq(Item)
  BY DEF Kill
<1>4. TypeOK'
  BY <1>1, <1>2, <1>3 DEF Kill, IngestTyped, TypeOK, WatchTypeOK, Phases
<1>5. CrawlOK' /\ BusyOK' /\ RestOK'
  BY <1>1 DEF Kill, CrawlOK, BusyOK, RestOK, Running, NotCrawled
<1> QED BY <1>4, <1>5 DEF IngestTyped

(* Every step of the run and of its environment keeps the invariant. *)
LEMMA TypedStep == IngestTyped /\ [Next]_vars => IngestTyped'
<1> SUFFICES ASSUME IngestTyped, [Next]_vars PROVE IngestTyped'
  OBVIOUS
<1>1. CASE \E requested \in SUBSET Source : StartRun(requested)
  BY <1>1, StartTyped
<1>2. CASE BeginFetch
  <2>1. kind' \in Kind /\ asks' \in [Source -> Nat]
    BY <1>2, InHandTyped DEF BeginFetch, Running, IngestTyped, TypeOK, WatchTypeOK
  <2>2. TypeOK'
    BY <1>2, <2>1 DEF BeginFetch, IngestTyped, TypeOK, WatchTypeOK, Phases
  <2>3. CrawlOK' /\ BusyOK' /\ RestOK'
    BY <1>2 DEF BeginFetch, IngestTyped, CrawlOK, BusyOK, RestOK, Running
  <2> QED BY <2>2, <2>3 DEF IngestTyped
<1>3. CASE SearchAnswers
  <2>1. PICK sells \in Offers[Store] : \E stamp \in Stamps(sells, began, today) :
               Received(sells, stamp)
    BY <1>3 DEF SearchAnswers
  <2>2. PICK stamp \in Stamps(sells, began, today) : Received(sells, stamp)
    BY <2>1
  <2>3. phase = "fetch" /\ crawl' = crawl
    BY <1>3 DEF SearchAnswers
  <2>4. TypeOK' /\ BusyOK' /\ RestOK'
    BY <2>2, <2>3, OffersTyped, ReceivedTyped
  <2> QED BY <2>3, <2>4 DEF IngestTyped, CrawlOK
<1>4. CASE CrawlAnswers
  BY <1>4, CrawlAnswersTyped
<1>5. CASE CatalogAnswers
  <2>1. /\ phase = "fetch" /\ crawl' = crawl
        /\ crawl[Store].done /\ Received(crawl[Store].sells, crawl[Store].stamp)
    BY <1>5 DEF CatalogAnswers
  <2>2. /\ crawl[Store].sells \in Catalog
        /\ crawl[Store].stamp \in [OnSale(crawl[Store].sells) -> Day]
    BY <2>1, InHandTyped DEF IngestTyped, CrawlOK, Running
  <2>3. TypeOK' /\ BusyOK' /\ RestOK'
    BY <2>1, <2>2, ReceivedTyped
  <2> QED BY <2>1, <2>3 DEF IngestTyped, CrawlOK
<1>6. CASE SaveChunk({})
  BY <1>6, SaveChunkTyped
<1>7. CASE Commit
  BY <1>7, CommitTyped
<1>8. CASE FetchFails
  BY <1>8, AbandonTyped DEF FetchFails, Running, IngestTyped, TypeOK
<1>9. CASE DatabaseFails
  BY <1>9, AbandonTyped DEF DatabaseFails, Running, IngestTyped, TypeOK
<1>10. CASE CommitAnswerLost
  BY <1>10, CommittedTyped, AbandonTyped DEF CommitAnswerLost, Running, IngestTyped
<1>11. CASE Kill
  BY <1>11, KillTyped
<1>12. CASE Midnight
  <2>1. today' \in Day
    BY <1>12, StorageAssumption DEF Midnight, Day, IngestTyped, TypeOK
  <2> QED BY <1>12, <2>1 DEF Midnight, runVars, IngestTyped, TypeOK, WatchTypeOK, CrawlOK,
                              BusyOK, RestOK, Running
<1>13. CASE EditWatchlist
  <2>1. WatchTypeOK'
    BY <1>13, EditTyped DEF EditWatchlist, IngestTyped, TypeOK
  <2> QED BY <1>13, <2>1 DEF EditWatchlist, runVars, IngestTyped, TypeOK, CrawlOK, BusyOK,
                              RestOK, Running
<1>14. CASE OtherWriter
  <2>1. IsTable(table')
    BY <1>14, OtherWriterTyped DEF IngestTyped
  <2> QED BY <1>14, <2>1 DEF OtherWriter, runVars, IngestTyped, TypeOK, WatchTypeOK, CrawlOK,
                              BusyOK, RestOK, Running
<1>15. CASE UNCHANGED vars
  BY <1>15 DEF vars, runVars, IngestTyped, TypeOK, WatchTypeOK, CrawlOK, BusyOK, RestOK, Running
<1> QED
  BY <1>1, <1>2, <1>3, <1>4, <1>5, <1>6, <1>7, <1>8, <1>9, <1>10, <1>11, <1>12, <1>13, <1>14,
     <1>15 DEF Next, Step

(* Every state the daily run reaches is well formed, whatever fails,       *)
(* whenever it is killed, and whatever is edited or written beside it.     *)
THEOREM IngestIsTyped == Spec => []TypeOK
<1>1. IngestTyped => TypeOK
  BY DEF IngestTyped
<1> QED BY <1>1, InitTyped, TypedStep, PTL DEF Spec

-----------------------------------------------------------------------------
(* The rows of the open transaction belong to the pair in hand, and none   *)
(* of them is in the table: what other writers commit meanwhile stays      *)
(* clear of the keys it holds.                                             *)
OwnRows ==
  /\ DOMAIN pending \cap DOMAIN table = {}
  /\ DOMAIN pending \subseteq KeysOf(rows)
  /\ \A k \in KeysOf(rows) : k.item = Current /\ k.source = Store

(* Between two transactions. *)
LEMMA NothingHeld == ASSUME DOMAIN pending = {}, rows = <<>> PROVE OwnRows
  BY DEF OwnRows, KeysOf

(* With no transaction open there is nothing to own. *)
LEMMA EndOwns == EndTransaction => OwnRows'
<1> SUFFICES ASSUME EndTransaction PROVE OwnRows'
  OBVIOUS
<1>1. rows' = <<>> /\ DOMAIN pending' = {}
  BY NoRowsIsTable DEF EndTransaction
<1> QED BY <1>1 DEF OwnRows, KeysOf

(* An answer opens a transaction that holds nothing yet. *)
LEMMA ReceivedOwns ==
  ASSUME IngestTyped, OwnRows, phase = "fetch",
         NEW sells \in Catalog, NEW stamp \in [OnSale(sells) -> Day], Received(sells, stamp)
  PROVE  OwnRows'
<1>1. KeysOf(rows) = {}
  BY DEF IngestTyped, RestOK, KeysOf
<1>2. DOMAIN pending = {}
  BY <1>1 DEF OwnRows
<1>3. \A k \in KeysOf(rows') : k.item = Current /\ k.source = Store
  BY ReceivedTyped
<1>4. pending' = pending /\ Current' = Current /\ Store' = Store
  BY DEF Received, Current, Store
<1>5. KeysOf(rows') = KeysOf(rows)'
  OBVIOUS
<1> QED BY <1>2, <1>3, <1>4, <1>5 DEF OwnRows

(* Every step keeps the open transaction clear of the table. *)
LEMMA OwnStep == IngestTyped /\ OwnRows /\ [Next]_vars => OwnRows'
<1> SUFFICES ASSUME IngestTyped, OwnRows, [Next]_vars PROVE OwnRows'
  OBVIOUS
<1>1. CASE \E requested \in SUBSET Source : StartRun(requested)
  <2>1. rows' = <<>> /\ pending' = NoRows
    BY <1>1 DEF StartRun
  <2> QED BY <2>1, NoRowsIsTable DEF OwnRows, KeysOf
<1>2. CASE BeginFetch
  BY <1>2 DEF BeginFetch, OwnRows, KeysOf, Current, Store
<1>3. CASE SearchAnswers
  <2>1. PICK sells \in Offers[Store] : \E stamp \in Stamps(sells, began, today) :
               Received(sells, stamp)
    BY <1>3 DEF SearchAnswers
  <2>2. PICK stamp \in Stamps(sells, began, today) : Received(sells, stamp)
    BY <2>1
  <2>3. phase = "fetch"
    BY <1>3 DEF SearchAnswers
  <2> QED BY <2>2, <2>3, OffersTyped, ReceivedOwns
<1>4. CASE CrawlAnswers
  <2>1. PICK sells \in Offers[Store], exhausted \in BOOLEAN :
               \E stamp \in Stamps(sells, began, today) : Received(sells, stamp)
    BY <1>4 DEF CrawlAnswers
  <2>2. PICK stamp \in Stamps(sells, began, today) : Received(sells, stamp)
    BY <2>1
  <2>3. phase = "fetch"
    BY <1>4 DEF CrawlAnswers
  <2> QED BY <2>2, <2>3, OffersTyped, ReceivedOwns
<1>5. CASE CatalogAnswers
  <2>1. /\ phase = "fetch"
        /\ crawl[Store].done /\ Received(crawl[Store].sells, crawl[Store].stamp)
    BY <1>5 DEF CatalogAnswers
  <2>2. /\ crawl[Store].sells \in Catalog
        /\ crawl[Store].stamp \in [OnSale(crawl[Store].sells) -> Day]
    BY <2>1, InHandTyped DEF IngestTyped, CrawlOK, Running
  <2> QED BY <2>1, <2>2, ReceivedOwns
<1>6. CASE SaveChunk({})
  <2>1. /\ DOMAIN pending' \subseteq DOMAIN pending \cup KeysOf(rows)
        /\ DOMAIN pending' \cap DOMAIN table \subseteq DOMAIN pending
    BY <1>6, SaveChunkTyped
  <2>2. table' = table /\ rows' = rows /\ todo' = todo /\ stores' = stores
    BY <1>6 DEF SaveChunk
  <2> QED BY <2>1, <2>2 DEF OwnRows, KeysOf, Current, Store
<1>7. CASE Commit
  BY <1>7, EndOwns DEF Commit
<1>8. CASE FetchFails
  BY <1>8, EndOwns DEF FetchFails, Abandon
<1>9. CASE DatabaseFails
  BY <1>9, EndOwns DEF DatabaseFails, Abandon
<1>10. CASE CommitAnswerLost
  BY <1>10, EndOwns DEF CommitAnswerLost, Abandon
<1>11. CASE Kill
  BY <1>11, EndOwns DEF Kill
<1>12. CASE Midnight
  BY <1>12 DEF Midnight, runVars, OwnRows, KeysOf, Current, Store
<1>13. CASE EditWatchlist
  BY <1>13 DEF EditWatchlist, runVars, OwnRows, KeysOf, Current, Store
<1>14. CASE OtherWriter
  <2>1. DOMAIN table' \cap DOMAIN pending = {}
    <3>1. CASE \E new \in Elsewhere : /\ DOMAIN new \cap (DOMAIN table \cup DOMAIN pending) = {}
                                      /\ table' = Over(table, new)
      BY <3>1 DEF OwnRows, Over
    <3>2. CASE table' \in Relabelled(table)
      BY <3>2 DEF OwnRows, Relabelled
    <3> QED BY <1>14, <3>1, <3>2 DEF OtherWriter
  <2> QED BY <1>14, <2>1 DEF OtherWriter, runVars, OwnRows, KeysOf, Current, Store
<1>15. CASE UNCHANGED vars
  BY <1>15 DEF vars, runVars, OwnRows, KeysOf, Current, Store
<1> QED
  BY <1>1, <1>2, <1>3, <1>4, <1>5, <1>6, <1>7, <1>8, <1>9, <1>10, <1>11, <1>12, <1>13, <1>14,
     <1>15 DEF Next, Step

-----------------------------------------------------------------------------
(* The commit of a pair publishes the rows the transaction holds. *)
LEMMA CommittedPublishes ==
  ASSUME IngestTyped, OwnRows, phase = "save", Committed PROVE Snapshots!Publish
<1>1. IsTable(table) /\ IsTable(pending)
  BY DEF IngestTyped, TypeOK
<1>2. IsTable(table')
  BY CommittedTyped DEF IngestTyped
<1>3. /\ DOMAIN table' = DOMAIN pending \cup DOMAIN table
      /\ \A k \in DOMAIN table \ DOMAIN pending : table'[k] = table[k]
  <2>1. table' = Over(pending, table)
    BY DEF Committed
  <2>2. DOMAIN Over(pending, table) = DOMAIN pending \cup DOMAIN table
    BY <1>1, OverTables
  <2>3. \A k \in DOMAIN table \ DOMAIN pending : Over(pending, table)[k] = table[k]
    BY <1>1, OverTables
  <2> QED BY <2>1, <2>2, <2>3
<1>4. \A k \in DOMAIN table : k \in DOMAIN table' /\ table'[k] = table[k]
  BY <1>3 DEF OwnRows
<1>5. Current \in Item /\ Store \in Source
  BY InHandTyped DEF IngestTyped, Running
<1>6. \A k \in DOMAIN table' \ DOMAIN table : k.item = Current /\ k.source = Store
  BY <1>3 DEF OwnRows
<1> QED BY <1>2, <1>4, <1>5, <1>6 DEF Snapshots!Publish, Snapshots!IsTable, IsTable,
                                      Snapshots!Key, Key, Snapshots!Day, Day,
                                      Snapshots!Cell, Cell

(* What other writers commit is a publication or a relabelling too. *)
LEMMA OtherWriterKeeps ==
  ASSUME IngestTyped, OtherWriter PROVE [Snapshots!Next]_table
<1>1. IsTable(table) /\ IsTable(table')
  BY OtherWriterTyped DEF IngestTyped, TypeOK
<1>2. Snapshots!IsTable(table')
  BY <1>1 DEF Snapshots!IsTable, IsTable, Snapshots!Key, Key, Snapshots!Day, Day,
              Snapshots!Cell, Cell
<1>3. CASE \E new \in Elsewhere : /\ DOMAIN new \cap (DOMAIN table \cup DOMAIN pending) = {}
                                  /\ table' = Over(table, new)
  <2>1. PICK new \in Elsewhere : /\ DOMAIN new \cap (DOMAIN table \cup DOMAIN pending) = {}
                                 /\ table' = Over(table, new)
    BY <1>3
  <2>2. IsTable(new) /\ \A j, k \in DOMAIN new : j.item = k.item /\ j.source = k.source
    BY IngestAssumption
  <2>3. DOMAIN table' = DOMAIN table \cup DOMAIN new /\ \A k \in DOMAIN table : table'[k] = table[k]
    <3>1. DOMAIN Over(table, new) = DOMAIN table \cup DOMAIN new
      BY <1>1, <2>2, OverTables
    <3>2. \A k \in DOMAIN table : Over(table, new)[k] = table[k]
      BY <1>1, <2>2, OverTables
    <3> QED BY <2>1, <3>1, <3>2
  <2>4. CASE DOMAIN new = {}
    <3>1. table' = table
      BY <1>1, <2>3, <2>4 DEF IsTable
    <3> QED BY <3>1
  <2>5. CASE DOMAIN new # {}
    <3>1. PICK j \in DOMAIN new : TRUE
      BY <2>5
    <3>2. j.item \in Item /\ j.source \in Source
      BY <2>2, <3>1 DEF IsTable, Key
    <3>3. \A k \in DOMAIN new : k.item = j.item /\ k.source = j.source
      BY <2>2, <3>1
    <3> QED BY <1>2, <2>3, <3>2, <3>3 DEF Snapshots!Next, Snapshots!Publish
  <2> QED BY <2>4, <2>5
<1>4. CASE table' \in Relabelled(table)
  <2>1. DOMAIN table' = DOMAIN table /\ \A j \in DOMAIN table : table'[j].price = table[j].price
    BY <1>1, <1>4, RelabelledTable
  <2> QED BY <1>2, <2>1 DEF Snapshots!Next, Snapshots!Relabel, Snapshots!SameRows
<1> QED BY <1>3, <1>4 DEF OtherWriter

(* Every step of the daily run and of its environment is a publication, a  *)
(* relabelling, or nothing to the table.                                   *)
LEMMA SnapshotStep == IngestTyped /\ OwnRows /\ [Next]_vars => [Snapshots!Next]_table
<1> SUFFICES ASSUME IngestTyped, OwnRows, [Next]_vars PROVE [Snapshots!Next]_table
  OBVIOUS
<1>1. CASE Commit \/ CommitAnswerLost
  BY <1>1, CommittedPublishes DEF Commit, CommitAnswerLost, Snapshots!Next
<1>2. CASE OtherWriter
  BY <1>2, OtherWriterKeeps
<1>3. CASE \E requested \in SUBSET Source : StartRun(requested)
  BY <1>3 DEF StartRun
<1>4. CASE BeginFetch \/ SaveChunk({}) \/ FetchFails \/ DatabaseFails \/ Kill
  BY <1>4 DEF BeginFetch, SaveChunk, FetchFails, DatabaseFails, Kill
<1>5. CASE SearchAnswers \/ CrawlAnswers \/ CatalogAnswers
  BY <1>5 DEF SearchAnswers, CrawlAnswers, CatalogAnswers, Received
<1>6. CASE Midnight \/ EditWatchlist \/ UNCHANGED vars
  BY <1>6 DEF Midnight, EditWatchlist, vars
<1> QED BY <1>1, <1>2, <1>3, <1>4, <1>5, <1>6 DEF Next, Step

(* The daily run keeps the promise of the snapshots (module SnapshotStore): *)
(* no row it or another writer stored is ever removed or repriced, and each *)
(* commit publishes the rows of a single item at a single source.           *)
THEOREM IngestKeepsSnapshots == Spec => KeepsSnapshots
<1>1. Init => OwnRows
  BY NothingHeld, NoRowsIsTable DEF Init
<1>2. Init => Snapshots!Init
  BY DEF Init, Snapshots!Init, Snapshots!NoRows, NoRows
<1> QED BY <1>1, <1>2, InitTyped, TypedStep, OwnStep, SnapshotStep, PTL
        DEF Spec, KeepsSnapshots, Snapshots!Spec

-----------------------------------------------------------------------------
(* The order of the pairs. *)

Distinct(seq) == \A m, n \in DOMAIN seq : seq[m] = seq[n] => m = n

(* The sources and the items of a run, and those still ahead. *)
ListsOK == Distinct(queue) /\ Distinct(stores) /\ Distinct(todo)

(* A report has all its fields, and no source ahead has failed. *)
ReportOK ==
  /\ \A s \in Source : DOMAIN report[s] = DOMAIN NewReport
  /\ Running => \A n \in DOMAIN stores : report[stores[n]].failure = "none"

(* What is committed belongs to pairs behind the one in hand. *)
BehindOK ==
  Running => \A k \in mine :
    /\ \A n \in DOMAIN stores : stores[n] = k.source => n = 1
    /\ Store = k.source => \A n \in DOMAIN todo : todo[n] # k.item

(* The batch in hand is what the source answered, and the part of it that  *)
(* was sent is in the table or in the open transaction.                    *)
BatchOK ==
  phase = "save" =>
    /\ answers[Store][Current] = KeysOf(rows)
    /\ \A n \in 1..sent : rows[n].key \in DOMAIN pending \cup DOMAIN table

VisitsOK  == ListsOK /\ ReportOK /\ BehindOK /\ BatchOK /\ PairStoredWhole
IngestInv == IngestTyped /\ OwnRows /\ VisitsOK

-----------------------------------------------------------------------------
(* The rest of a list that names nothing twice names nothing twice. *)
LEMMA TailOfDistinct ==
  ASSUME NEW T, NEW seq \in Seq(T), seq # <<>>, Distinct(seq)
  PROVE  /\ 1 \in DOMAIN seq /\ Head(seq) = seq[1]
         /\ \A n \in DOMAIN Tail(seq) : n + 1 \in DOMAIN seq /\ Tail(seq)[n] = seq[n + 1]
         /\ \A n \in DOMAIN Tail(seq) : Tail(seq)[n] # Head(seq)
         /\ Distinct(Tail(seq))
<1>1. DOMAIN seq = 1..Len(seq) /\ Len(seq) \in Nat \ {0}
  BY EmptySeq
<1>2. Tail(seq) \in Seq(T) /\ Len(Tail(seq)) = Len(seq) - 1
  BY HeadTailProperties
<1>3. DOMAIN Tail(seq) = 1..(Len(seq) - 1)
  BY <1>2
<1>4. \A n \in DOMAIN Tail(seq) : n + 1 \in DOMAIN seq /\ Tail(seq)[n] = seq[n + 1]
  BY <1>1, <1>3
<1>5. 1 \in DOMAIN seq /\ Head(seq) = seq[1]
  BY <1>1
<1>6. \A n \in DOMAIN Tail(seq) : n \in Nat /\ n + 1 # 1
  BY <1>3
<1> QED BY <1>4, <1>5, <1>6 DEF Distinct

(* An ascending enumeration of numbers repeats none. *)
LEMMA AscendingIsDistinct ==
  ASSUME NEW S, S \subseteq Nat, IsFiniteSet(S), NEW q \in Ascending(S)
  PROVE  Distinct(q)
<1>1. q \in Seq(Nat) /\ \A m, n \in DOMAIN q : m < n => q[m] < q[n]
  BY AscendingIsSeq
<1>2. \A m \in DOMAIN q : m \in Nat /\ q[m] \in Nat
  BY <1>1
<1> QED BY <1>1, <1>2 DEF Distinct

(* On to the next source: the source given up or finished is behind. *)
LEMMA NextStoreVisits ==
  ASSUME IngestTyped, ListsOK, BehindOK, Running, NextStore,
         \A k \in mine' : k \in mine \/ k.source = Store
  PROVE  /\ Distinct(stores') /\ Distinct(todo')
         /\ \A n \in DOMAIN stores' :
              stores'[n] # Store /\ \E m \in DOMAIN stores : stores'[n] = stores[m]
         /\ BehindOK'
<1>1. stores \in Seq(Source) /\ stores # <<>> /\ Distinct(stores)
  BY DEF IngestTyped, TypeOK, BusyOK, ListsOK
<1>2. stores' = Tail(stores) /\ todo' = queue
  BY DEF NextStore
<1>3. \A n \in DOMAIN stores' :
        n + 1 \in DOMAIN stores /\ stores'[n] = stores[n + 1] /\ stores'[n] # Store
  BY <1>1, <1>2, TailOfDistinct DEF Store
<1>4. Distinct(stores') /\ Distinct(todo')
  BY <1>1, <1>2, TailOfDistinct DEF ListsOK
<1>5. \A k \in mine', n \in DOMAIN stores' : stores'[n] # k.source
  <2> TAKE k \in mine', n \in DOMAIN stores'
  <2>1. CASE k \in mine
    <3>1. n \in Nat /\ n + 1 # 1
      <4>1. stores' \in Seq(Source)
        BY <1>1, <1>2, HeadTailProperties
      <4> QED BY <4>1
    <3>2. stores[n + 1] # k.source
      BY <1>3, <2>1, <3>1 DEF BehindOK
    <3> QED BY <1>3, <3>2
  <2>2. CASE k.source = Store
    BY <1>3, <2>2
  <2> QED BY <2>1, <2>2
<1>6. BehindOK'
  <2> SUFFICES ASSUME Running', NEW k \in mine'
               PROVE  /\ \A n \in DOMAIN stores' : stores'[n] = k.source => n = 1
                      /\ Store' = k.source => \A n \in DOMAIN todo' : todo'[n] # k.item
    BY DEF BehindOK
  <2>1. phase' = "pair"
    BY DEF NextStore, Running
  <2>2. stores' \in Seq(Source) /\ stores' # <<>>
    BY <2>1, NextStoreTyped DEF IngestTyped
  <2>3. 1 \in DOMAIN stores' /\ Store' = stores'[1]
    BY <1>4, <2>2, TailOfDistinct DEF Store
  <2> QED BY <1>5, <2>3
<1> QED BY <1>3, <1>4, <1>6

(* On to the next pair: the pair in hand is behind. *)
LEMMA NextPairVisits ==
  ASSUME IngestTyped, ListsOK, BehindOK, Running, NextPair,
         \A k \in mine' : k \in mine \/ (k.source = Store /\ k.item = Current)
  PROVE  /\ Distinct(stores') /\ Distinct(todo')
         /\ \A n \in DOMAIN stores' : \E m \in DOMAIN stores : stores'[n] = stores[m]
         /\ BehindOK'
<1>1. CASE Len(todo) = 1
  BY <1>1, NextStoreVisits DEF NextPair
<1>2. CASE Len(todo) # 1
  <2>1. todo' = Tail(todo) /\ stores' = stores
    BY <1>2 DEF NextPair
  <2>2. todo \in Seq(Item) /\ todo # <<>> /\ Distinct(todo)
    BY DEF IngestTyped, TypeOK, BusyOK, ListsOK
  <2>3. \A n \in DOMAIN todo' :
          n + 1 \in DOMAIN todo /\ todo'[n] = todo[n + 1] /\ todo'[n] # Current
    BY <2>1, <2>2, TailOfDistinct DEF Current
  <2>4. Distinct(todo') /\ Distinct(stores')
    BY <2>1, <2>2, TailOfDistinct DEF ListsOK
  <2>5. stores \in Seq(Source) /\ stores # <<>> /\ Distinct(stores)
    BY DEF IngestTyped, TypeOK, BusyOK, ListsOK
  <2>6. 1 \in DOMAIN stores /\ Store = stores[1] /\ Store' = Store
    BY <2>1, <2>5, TailOfDistinct DEF Store
  <2>7. BehindOK'
    <3> SUFFICES ASSUME NEW k \in mine'
                 PROVE  /\ \A n \in DOMAIN stores : stores[n] = k.source => n = 1
                        /\ Store = k.source => \A n \in DOMAIN todo' : todo'[n] # k.item
      BY <2>1, <2>6 DEF BehindOK
    <3>1. CASE k \in mine
      BY <2>3, <3>1 DEF BehindOK
    <3>2. CASE k.source = Store /\ k.item = Current
      BY <2>3, <2>5, <2>6, <3>2 DEF Distinct
    <3> QED BY <3>1, <3>2
  <2> QED BY <2>1, <2>4, <2>7
<1> QED BY <1>1, <1>2

-----------------------------------------------------------------------------
(* COMMIT after the last INSERT stores the whole batch of the pair.        *)
LEMMA CommittedWhole ==
  ASSUME IngestInv, phase = "save", sent = Len(rows), Committed, UNCHANGED answers
  PROVE  /\ PairStoredWhole'
         /\ answers[Store][Current] \subseteq DOMAIN table'
         /\ \A k \in mine' : k \in mine \/ (k.source = Store /\ k.item = Current)
<1>1. rows \in Seq(Row) /\ IsTable(table) /\ IsTable(pending)
  BY DEF IngestInv, IngestTyped, TypeOK
<1>2. DOMAIN table' = DOMAIN pending \cup DOMAIN table
  <2>1. table' = Over(pending, table)
    BY DEF Committed
  <2>2. DOMAIN Over(pending, table) = DOMAIN pending \cup DOMAIN table
    BY <1>1, OverTables
  <2> QED BY <2>1, <2>2
<1>3. KeysOf(rows) \subseteq DOMAIN table'
  <2>1. \A n \in DOMAIN rows : rows[n].key \in DOMAIN pending \cup DOMAIN table
    BY <1>1 DEF IngestInv, VisitsOK, BatchOK
  <2> QED BY <1>2, <2>1 DEF KeysOf
<1>4. answers[Store][Current] \subseteq DOMAIN table'
  BY <1>3 DEF IngestInv, VisitsOK, BatchOK
<1>5. \A k \in mine' : k \in mine \/ (k.source = Store /\ k.item = Current)
  BY DEF Committed, IngestInv, OwnRows
<1>6. PairStoredWhole'
  <2> SUFFICES ASSUME NEW s \in Source, NEW i \in Item,
                      NEW k \in mine', k.source = s, k.item = i
               PROVE  answers[s][i] \subseteq DOMAIN table'
    BY DEF PairStoredWhole
  <2>1. CASE k \in mine
    <3>1. answers[s][i] \subseteq DOMAIN table
      BY <2>1 DEF IngestInv, VisitsOK, PairStoredWhole
    <3> QED BY <1>2, <3>1
  <2>2. CASE k.source = Store /\ k.item = Current
    BY <1>4, <2>2
  <2> QED BY <1>5, <2>1, <2>2
<1> QED BY <1>4, <1>5, <1>6

(* The pair a commit has stored is the pair just left behind. *)
LEMMA CommitVisits == IngestInv /\ Commit => VisitsOK'
<1> SUFFICES ASSUME IngestInv, Commit PROVE VisitsOK'
  OBVIOUS
<1>1. /\ phase = "save" /\ Running /\ sent = Len(rows) /\ Committed /\ NextPair
      /\ UNCHANGED answers /\ queue' = queue
  BY DEF Commit, Running
<1>2. /\ PairStoredWhole'
      /\ \A k \in mine' : k \in mine \/ (k.source = Store /\ k.item = Current)
  BY <1>1, CommittedWhole
<1>3. /\ Distinct(stores') /\ Distinct(todo')
      /\ \A n \in DOMAIN stores' : \E m \in DOMAIN stores : stores'[n] = stores[m]
      /\ BehindOK'
  BY <1>1, <1>2, NextPairVisits DEF IngestInv, VisitsOK
<1>4. ListsOK'
  BY <1>1, <1>3 DEF IngestInv, VisitsOK, ListsOK
<1>5. \A s \in Source : /\ DOMAIN report'[s] = DOMAIN report[s]
                        /\ report'[s].failure = report[s].failure
  <2>1. report' = [report EXCEPT ![Store] = Counted(report[Store])]
    BY DEF Commit
  <2>2. Store \in Source /\ DOMAIN report = Source
    BY <1>1, InHandTyped DEF IngestInv, IngestTyped, TypeOK
  <2>3. DOMAIN report[Store] = DOMAIN NewReport
    BY <2>2 DEF IngestInv, VisitsOK, ReportOK
  <2>4. /\ DOMAIN Counted(report[Store]) = DOMAIN report[Store]
        /\ Counted(report[Store]).failure = report[Store].failure
    BY <2>3 DEF Counted, NewReport
  <2> QED BY <2>1, <2>2, <2>4
<1>6. ReportOK'
  <2>1. stores \in Seq(Source)
    BY DEF IngestInv, IngestTyped, TypeOK
  <2> QED BY <1>1, <1>3, <1>5, <2>1 DEF IngestInv, VisitsOK, ReportOK
<1>7. BatchOK'
  <2>1. phase' \in {"done", "pair"}
    BY <1>1, NextPairTyped DEF IngestInv, IngestTyped
  <2> QED BY <2>1 DEF BatchOK
<1> QED BY <1>2, <1>3, <1>4, <1>6, <1>7 DEF VisitsOK

(* A source given up: whatever the failure left in the table is whole.     *)
LEMMA AbandonVisits ==
  ASSUME IngestInv, Running, NEW failure, Abandon(failure), PairStoredWhole',
         \A k \in mine' : k \in mine \/ k.source = Store
  PROVE  VisitsOK'
<1>1. NextStore /\ queue' = queue
  BY DEF Abandon
<1>2. /\ Distinct(stores') /\ Distinct(todo')
      /\ \A n \in DOMAIN stores' :
           stores'[n] # Store /\ \E m \in DOMAIN stores : stores'[n] = stores[m]
      /\ BehindOK'
  BY <1>1, NextStoreVisits DEF IngestInv, VisitsOK
<1>3. ListsOK'
  BY <1>1, <1>2 DEF IngestInv, VisitsOK, ListsOK
<1>4. \A s \in Source : /\ DOMAIN report'[s] = DOMAIN report[s]
                        /\ s # Store => report'[s] = report[s]
  <2>1. DOMAIN report = Source
    BY DEF IngestInv, IngestTyped, TypeOK
  <2> QED BY <2>1 DEF Abandon
<1>5. ReportOK'
  <2>1. stores \in Seq(Source)
    BY DEF IngestInv, IngestTyped, TypeOK
  <2> QED BY <1>2, <1>4, <2>1 DEF IngestInv, VisitsOK, ReportOK
<1>6. BatchOK'
  BY <1>1 DEF BatchOK, NextStore
<1> QED BY <1>2, <1>3, <1>5, <1>6 DEF VisitsOK

(* An answer for a pair none of whose rows this run committed. *)
LEMMA ReceivedVisits ==
  ASSUME IngestInv, phase = "fetch",
         NEW sells \in Catalog, NEW stamp \in [OnSale(sells) -> Day], Received(sells, stamp)
  PROVE  VisitsOK'
<1>1. Store \in Source /\ Current \in Item /\ Running /\ Running'
  BY InHandTyped DEF IngestInv, IngestTyped, Running, Received
<1>2. /\ UNCHANGED <<queue, stores, todo, report, mine, table, sent, pending>>
      /\ answers' = [answers EXCEPT ![Store][Current] = KeysOf(rows')]
  BY DEF Received
<1>3. ListsOK' /\ ReportOK' /\ BehindOK'
  BY <1>1, <1>2 DEF IngestInv, VisitsOK, ListsOK, ReportOK, BehindOK, Distinct, Store
<1>4. answers \in [Source -> [Item -> SUBSET Key]]
  BY DEF IngestInv, IngestTyped, TypeOK
<1>5. BatchOK'
  <2>1. rows = <<>> /\ sent \in 0..Len(rows)
    BY DEF IngestInv, IngestTyped, RestOK, TypeOK
  <2>2. sent' = 0
    BY <1>2, <2>1
  <2>3. answers'[Store][Current] = KeysOf(rows')
    BY <1>1, <1>2, <1>4
  <2>4. Store' = Store /\ Current' = Current /\ KeysOf(rows)' = KeysOf(rows')
    BY <1>2 DEF Store, Current
  <2> QED BY <2>2, <2>3, <2>4 DEF BatchOK
<1>6. PairStoredWhole'
  <2>1. \A k \in mine : ~ (k.source = Store /\ k.item = Current)
    <3>1. todo \in Seq(Item) /\ todo # <<>> /\ Distinct(todo)
      BY <1>1 DEF IngestInv, IngestTyped, TypeOK, BusyOK, VisitsOK, ListsOK
    <3>2. 1 \in DOMAIN todo /\ Current = todo[1]
      BY <3>1, TailOfDistinct DEF Current
    <3> QED BY <1>1, <3>2 DEF IngestInv, VisitsOK, BehindOK
  <2> SUFFICES ASSUME NEW s \in Source, NEW i \in Item,
                      NEW k \in mine, k.source = s, k.item = i
               PROVE  answers'[s][i] \subseteq DOMAIN table
    BY <1>2 DEF PairStoredWhole
  <2>2. answers'[s][i] = answers[s][i]
    BY <1>1, <1>2, <1>4, <2>1
  <2> QED BY <2>2 DEF IngestInv, VisitsOK, PairStoredWhole
<1> QED BY <1>3, <1>5, <1>6 DEF VisitsOK

(* An INSERT puts the keys of its chunk in the transaction or meets them   *)
(* in the table.                                                           *)
LEMMA SaveChunkVisits == IngestInv /\ SaveChunk({}) => VisitsOK'
<1> SUFFICES ASSUME IngestInv, SaveChunk({}) PROVE VisitsOK'
  OBVIOUS
<1> DEFINE chunk == Chunk(rows, sent)
           new   == InsertRows(table, pending, chunk)
<1>1. rows \in Seq(Row) /\ sent \in 0..Len(rows) /\ IsTable(table) /\ IsTable(pending)
  BY DEF IngestInv, IngestTyped, TypeOK
<1>2. /\ chunk \in Seq(Row) /\ sent + Len(chunk) \in 0..Len(rows)
      /\ \A n \in 1..Len(chunk) : chunk[n] = rows[sent + n]
  BY <1>1, ChunkOfRows
<1>3. DOMAIN pending \subseteq DOMAIN new /\ KeysOf(chunk) \subseteq DOMAIN new \cup DOMAIN table
  BY <1>1, <1>2, InsertRowsThm
<1>4. /\ phase = "save" /\ pending' = new /\ sent' = sent + Len(chunk)
      /\ UNCHANGED <<rows, phase, queue, stores, todo, report, mine, answers, table>>
  BY DEF SaveChunk
<1> HIDE DEF chunk, new
<1>5. ListsOK' /\ ReportOK' /\ BehindOK' /\ PairStoredWhole'
  BY <1>4 DEF IngestInv, VisitsOK, ListsOK, ReportOK, BehindOK, PairStoredWhole, Distinct,
              Running, Store
<1>6. \A n \in 1..sent' : rows[n].key \in DOMAIN new \cup DOMAIN table
  <2> TAKE n \in 1..sent'
  <2>1. CASE n <= sent
    BY <1>1, <1>3, <1>4, <2>1 DEF IngestInv, VisitsOK, BatchOK
  <2>2. CASE ~ (n <= sent)
    <3>1. n - sent \in 1..Len(chunk) /\ sent + (n - sent) = n
      BY <1>1, <1>2, <1>4, <2>2
    <3>2. rows[n] = chunk[n - sent]
      BY <1>2, <3>1
    <3>3. rows[n].key \in KeysOf(chunk)
      <4>1. n - sent \in DOMAIN chunk
        BY <1>2, <3>1
      <4> QED BY <3>2, <4>1 DEF KeysOf
    <3> QED BY <1>3, <3>3
  <2> QED BY <2>1, <2>2
<1>7. BatchOK'
  <2>1. Store' = Store /\ Current' = Current /\ KeysOf(rows)' = KeysOf(rows)
    BY <1>4 DEF Store, Current, KeysOf
  <2> QED BY <1>4, <1>6, <2>1 DEF IngestInv, VisitsOK, BatchOK
<1> QED BY <1>5, <1>7 DEF VisitsOK

(* A run begins with every source of its plan and every active item ahead, *)
(* each once: the registry lists no source twice.                          *)
LEMMA StartVisits ==
  ASSUME IngestInv, NEW requested \in SUBSET Source, StartRun(requested)
  PROVE  VisitsOK'
<1>1. PICK items \in Ascending(Active), places \in Ascending(Selected(requested)) :
        /\ queue' = items /\ todo' = items
        /\ stores' = [n \in DOMAIN places |-> Registry[places[n]]]
        /\ phase' \in {"done", "fetch"}
  BY DEF StartRun
<1>2. Active \subseteq Nat /\ IsFiniteSet(Active)
  BY StorageAssumption, FS_Subset DEF Active, Listed
<1>3. Selected(requested) \subseteq Nat /\ Selected(requested) \subseteq DOMAIN Registry
      /\ IsFiniteSet(Selected(requested))
  <2>1. DOMAIN Registry = 1..Len(Registry) /\ Len(Registry) \in Nat
    BY IngestAssumption
  <2>2. Selected(requested) \in SUBSET (1..Len(Registry))
    BY <2>1 DEF Selected
  <2>3. IsFiniteSet(1..Len(Registry))
    BY <2>1, FS_Interval
  <2> QED BY <2>1, <2>2, <2>3, FS_Subset
<1>4. Distinct(items) /\ Distinct(places)
  BY <1>2, <1>3, AscendingIsDistinct
<1>5. places \in Seq(DOMAIN Registry)
  BY <1>3, AscendingIsSeq
<1>6. \A n \in DOMAIN places : places[n] \in DOMAIN Registry
  BY <1>5
<1>7. Distinct(stores')
  BY <1>1, <1>4, <1>6, IngestAssumption DEF Distinct
<1>8. ListsOK'
  BY <1>1, <1>4, <1>7 DEF ListsOK
<1>9. mine' = {} /\ report' = [s \in Source |-> NewReport]
  BY DEF StartRun
<1>10. ReportOK'
  <2>1. \A n \in DOMAIN stores' : stores'[n] \in Source
    BY <1>1, <1>6, IngestAssumption
  <2> QED BY <1>9, <2>1 DEF ReportOK, NewReport
<1>11. BehindOK' /\ PairStoredWhole'
  BY <1>9 DEF BehindOK, PairStoredWhole
<1>12. BatchOK'
  BY <1>1 DEF BatchOK
<1> QED BY <1>8, <1>10, <1>11, <1>12 DEF VisitsOK

(* A run that is killed leaves no lists and no pair in hand. *)
LEMMA KillVisits == Kill => VisitsOK'
<1> SUFFICES ASSUME Kill PROVE VisitsOK'
  OBVIOUS
<1>1. /\ phase' = "killed" /\ queue' = <<>> /\ stores' = <<>> /\ todo' = <<>> /\ mine' = {}
      /\ report' = [s \in Source |-> NewReport]
  BY DEF Kill
<1>2. ListsOK'
  BY <1>1 DEF ListsOK, Distinct
<1>3. ReportOK' /\ BehindOK' /\ BatchOK' /\ PairStoredWhole'
  BY <1>1 DEF ReportOK, BehindOK, BatchOK, PairStoredWhole, Running
<1> QED BY <1>2, <1>3 DEF VisitsOK

(* Another writer only adds keys to the table. *)
LEMMA OtherWriterVisits == IngestInv /\ OtherWriter => VisitsOK'
<1> SUFFICES ASSUME IngestInv, OtherWriter PROVE VisitsOK'
  OBVIOUS
<1>1. DOMAIN table \subseteq DOMAIN table'
  <2>1. CASE \E new \in Elsewhere : table' = Over(table, new)
    BY <2>1 DEF Over
  <2>2. CASE table' \in Relabelled(table)
    BY <2>2 DEF Relabelled
  <2> QED BY <2>1, <2>2 DEF OtherWriter
<1>2. UNCHANGED runVars
  BY DEF OtherWriter
<1>3. ListsOK' /\ ReportOK' /\ BehindOK'
  BY <1>2 DEF runVars, IngestInv, VisitsOK, ListsOK, ReportOK, BehindOK, Distinct, Running, Store
<1>4. BatchOK' /\ PairStoredWhole'
  BY <1>1, <1>2 DEF runVars, IngestInv, VisitsOK, BatchOK, PairStoredWhole, Store, Current, KeysOf
<1> QED BY <1>3, <1>4 DEF VisitsOK

-----------------------------------------------------------------------------
(* Every step keeps the lists of a run in order. *)
LEMMA VisitsStep == IngestInv /\ [Next]_vars => VisitsOK'
<1> SUFFICES ASSUME IngestInv, [Next]_vars PROVE VisitsOK'
  OBVIOUS
<1>1. CASE \E requested \in SUBSET Source : StartRun(requested)
  BY <1>1, StartVisits
<1>2. CASE BeginFetch
  <2>1. /\ phase = "pair" /\ phase' = "fetch"
        /\ UNCHANGED <<queue, stores, todo, report, mine, answers, table>>
    BY <1>2 DEF BeginFetch
  <2>2. ListsOK' /\ ReportOK' /\ BehindOK' /\ PairStoredWhole'
    BY <2>1 DEF IngestInv, VisitsOK, ListsOK, ReportOK, BehindOK, PairStoredWhole, Distinct,
                Running, Store
  <2> QED BY <2>1, <2>2 DEF VisitsOK, BatchOK
<1>3. CASE SearchAnswers
  <2>1. PICK sells \in Offers[Store] : \E stamp \in Stamps(sells, began, today) :
               Received(sells, stamp)
    BY <1>3 DEF SearchAnswers
  <2>2. PICK stamp \in Stamps(sells, began, today) : Received(sells, stamp)
    BY <2>1
  <2>3. phase = "fetch"
    BY <1>3 DEF SearchAnswers
  <2> QED BY <2>2, <2>3, OffersTyped, ReceivedVisits DEF IngestInv
<1>4. CASE CrawlAnswers
  <2>1. PICK sells \in Offers[Store], exhausted \in BOOLEAN :
               \E stamp \in Stamps(sells, began, today) : Received(sells, stamp)
    BY <1>4 DEF CrawlAnswers
  <2>2. PICK stamp \in Stamps(sells, began, today) : Received(sells, stamp)
    BY <2>1
  <2>3. phase = "fetch"
    BY <1>4 DEF CrawlAnswers
  <2> QED BY <2>2, <2>3, OffersTyped, ReceivedVisits DEF IngestInv
<1>5. CASE CatalogAnswers
  <2>1. /\ phase = "fetch"
        /\ crawl[Store].done /\ Received(crawl[Store].sells, crawl[Store].stamp)
    BY <1>5 DEF CatalogAnswers
  <2>2. /\ crawl[Store].sells \in Catalog
        /\ crawl[Store].stamp \in [OnSale(crawl[Store].sells) -> Day]
    BY <2>1, InHandTyped DEF IngestInv, IngestTyped, CrawlOK, Running
  <2> QED BY <2>1, <2>2, ReceivedVisits
<1>6. CASE SaveChunk({})
  BY <1>6, SaveChunkVisits
<1>7. CASE Commit
  BY <1>7, CommitVisits
<1>8. CASE FetchFails \/ DatabaseFails
  <2>1. Running /\ (\E failure : Abandon(failure)) /\ UNCHANGED <<table, mine>>
    BY <1>8 DEF FetchFails, DatabaseFails, Running
  <2>2. PairStoredWhole'
    <3>1. UNCHANGED answers
      BY <2>1 DEF Abandon
    <3> QED BY <2>1, <3>1 DEF IngestInv, VisitsOK, PairStoredWhole
  <2> QED BY <2>1, <2>2, AbandonVisits
<1>9. CASE CommitAnswerLost
  <2>1. /\ Running /\ phase = "save" /\ sent = Len(rows) /\ Committed
        /\ Abandon("unexpected") /\ UNCHANGED answers
    BY <1>9 DEF CommitAnswerLost, Running, Abandon
  <2> QED BY <2>1, CommittedWhole, AbandonVisits
<1>10. CASE Kill
  BY <1>10, KillVisits
<1>11. CASE OtherWriter
  BY <1>11, OtherWriterVisits
<1>12. CASE Midnight \/ EditWatchlist \/ UNCHANGED vars
  <2>1. UNCHANGED <<table, runVars>>
    BY <1>12 DEF Midnight, EditWatchlist, vars
  <2>2. ListsOK' /\ ReportOK' /\ BehindOK'
    BY <2>1 DEF runVars, IngestInv, VisitsOK, ListsOK, ReportOK, BehindOK, Distinct, Running, Store
  <2>3. BatchOK' /\ PairStoredWhole'
    BY <2>1 DEF runVars, IngestInv, VisitsOK, BatchOK, PairStoredWhole, Store, Current, KeysOf
  <2> QED BY <2>2, <2>3 DEF VisitsOK
<1> QED
  BY <1>1, <1>2, <1>3, <1>4, <1>5, <1>6, <1>7, <1>8, <1>9, <1>10, <1>11, <1>12 DEF Next, Step

(* Before the first run nothing is asked, sent or stored. *)
LEMMA InitInv == Init => IngestInv
<1> SUFFICES ASSUME Init PROVE IngestInv
  OBVIOUS
<1>1. OwnRows
  BY NothingHeld, NoRowsIsTable DEF Init
<1>2. ListsOK
  BY DEF Init, ListsOK, Distinct
<1>3. ReportOK /\ BehindOK /\ BatchOK /\ PairStoredWhole
  BY DEF Init, ReportOK, BehindOK, BatchOK, PairStoredWhole, Running
<1> QED BY <1>1, <1>2, <1>3, InitTyped DEF IngestInv, VisitsOK

(* The invariant is inductive: one step per action, one per conjunct. *)
LEMMA InvStep == IngestInv /\ [Next]_vars => IngestInv'
  BY TypedStep, OwnStep, VisitsStep DEF IngestInv

(* A pair's batch is stored whole or not at all: if any row of an item at  *)
(* a source was committed by the run, every key the source answered for it *)
(* is in the table, whatever INSERT, COMMIT or fetch failed afterwards.    *)
THEOREM BatchesStoredWhole == Spec => []PairStoredWhole
<1>1. IngestInv => PairStoredWhole
  BY DEF IngestInv, VisitsOK
<1> QED BY <1>1, InitInv, InvStep, PTL DEF Spec

-----------------------------------------------------------------------------
(* Only the start of a fetch asks a source, and never one that failed.     *)
LEMMA LeftAloneStep ==
  IngestInv /\ [Next]_vars =>
    [\A s \in Source : report[s].failure # "none" => asks'[s] <= asks[s] \/ runs' # runs]_vars
<1> SUFFICES ASSUME IngestInv, [Next]_vars, NEW s \in Source, report[s].failure # "none"
             PROVE  asks'[s] <= asks[s] \/ runs' # runs
  OBVIOUS
<1>1. asks \in [Source -> Nat] /\ runs \in Nat /\ asks[s] <= asks[s]
  BY IngestAssumption DEF IngestInv, IngestTyped, TypeOK
<1>2. CASE \E requested \in SUBSET Source : StartRun(requested)
  <2>1. runs' = runs + 1
    BY <1>2 DEF StartRun
  <2> QED BY <1>1, <2>1
<1>3. CASE BeginFetch
  <2>1. stores \in Seq(Source) /\ stores # <<>> /\ Distinct(stores) /\ Running
    BY <1>3 DEF BeginFetch, Running, IngestInv, IngestTyped, TypeOK, BusyOK, VisitsOK, ListsOK
  <2>2. 1 \in DOMAIN stores /\ Store = stores[1]
    BY <2>1, TailOfDistinct DEF Store
  <2>3. s # Store
    BY <2>1, <2>2 DEF IngestInv, VisitsOK, ReportOK
  <2>4. asks'[s] = asks[s]
    BY <1>1, <1>3, <2>3 DEF BeginFetch
  <2> QED BY <1>1, <2>4
<1>4. CASE Kill
  BY <1>1, <1>4 DEF Kill
<1>5. CASE SearchAnswers \/ CrawlAnswers \/ CatalogAnswers
  BY <1>1, <1>5 DEF SearchAnswers, CrawlAnswers, CatalogAnswers, Received
<1>6. CASE SaveChunk({}) \/ Commit \/ FetchFails \/ DatabaseFails \/ CommitAnswerLost
  BY <1>1, <1>6 DEF SaveChunk, Commit, FetchFails, DatabaseFails, CommitAnswerLost, Abandon
<1>7. CASE Midnight \/ EditWatchlist \/ OtherWriter \/ UNCHANGED vars
  BY <1>1, <1>7 DEF Midnight, EditWatchlist, OtherWriter, vars, runVars
<1> QED BY <1>2, <1>3, <1>4, <1>5, <1>6, <1>7 DEF Next, Step

(* Courtesy: a source that failed is not asked again in the same run.      *)
THEOREM FailedSourceIsLeftAlone == Spec => FailedSourceLeftAlone
  BY InitInv, InvStep, LeftAloneStep, PTL DEF Spec, FailedSourceLeftAlone

-----------------------------------------------------------------------------
(* What the run reports: an exit code of 0 stands for a source whose       *)
(* answers are all in the table, and its counters for rows that are there. *)

Grows == DOMAIN table \subseteq DOMAIN table'

(* A source that answered for every item, with all of it in the table. *)
Whole(s) ==
  /\ report[s].queried = Len(queue)
  /\ \A i \in Members(queue) : answers[s][i] \subseteq DOMAIN table

(* The sources behind are whole or failed; the one in hand has been counted *)
(* for the items behind, and those answers are in the table; the ones ahead *)
(* have not been asked.                                                     *)
ProgressOK ==
  /\ \A s \in plan \ Members(stores) : report[s].failure = "none" => Whole(s)
  /\ Running =>
       /\ report[Store].queried = Len(queue) - Len(todo)
       /\ \A s \in Members(Tail(stores)) : report[s].queried = 0
       /\ \A i \in Members(queue) \ Members(todo) : answers[Store][i] \subseteq DOMAIN table
  /\ phase = "done" => queue = <<>> \/ stores = <<>>

ReportInv == IngestInv /\ ProgressOK

-----------------------------------------------------------------------------
(* A list is its head and its tail. *)
LEMMA TailMembers ==
  ASSUME NEW T, NEW seq \in Seq(T), seq # <<>>
  PROVE  /\ Tail(seq) \in Seq(T) /\ Len(Tail(seq)) = Len(seq) - 1
         /\ Head(seq) \in T
         /\ Members(seq) = {Head(seq)} \cup Members(Tail(seq))
         /\ Members(Tail(seq)) \subseteq T
         /\ Distinct(seq) => Head(seq) \notin Members(Tail(seq))
         /\ Len(seq) = 1 => Members(Tail(seq)) = {} /\ Tail(seq) = <<>>
         /\ Len(seq) # 1 => Tail(seq) # <<>>
<1>1. /\ Len(seq) \in Nat /\ Len(seq) > 0 /\ DOMAIN seq = 1..Len(seq) /\ Head(seq) = seq[1]
      /\ \A n \in DOMAIN seq : seq[n] \in T
  BY EmptySeq
<1>2. Tail(seq) \in Seq(T) /\ Len(Tail(seq)) = Len(seq) - 1
  BY HeadTailProperties
<1>3. /\ DOMAIN Tail(seq) = 1..(Len(seq) - 1)
      /\ \A n \in 1..(Len(seq) - 1) : Tail(seq)[n] = seq[n + 1]
  BY <1>1, <1>2
<1>4. ASSUME NEW x \in Members(seq) PROVE x \in {Head(seq)} \cup Members(Tail(seq))
  <2>1. PICK n \in 1..Len(seq) : x = seq[n]
    BY <1>1, <1>4 DEF Members
  <2>2. CASE n = 1
    BY <1>1, <2>1, <2>2
  <2>3. CASE n # 1
    <3>1. n - 1 \in 1..(Len(seq) - 1) /\ (n - 1) + 1 = n
      BY <1>1, <2>3
    <3>2. x = Tail(seq)[n - 1]
      BY <1>3, <2>1, <3>1
    <3> QED BY <1>3, <3>1, <3>2 DEF Members
  <2> QED BY <2>2, <2>3
<1>5. ASSUME NEW x \in Members(Tail(seq)) PROVE x \in Members(seq) /\ x \in T
  <2>1. PICK n \in 1..(Len(seq) - 1) : x = seq[n + 1]
    BY <1>3, <1>5 DEF Members
  <2>2. n + 1 \in 1..Len(seq)
    BY <1>1
  <2> QED BY <1>1, <2>1, <2>2 DEF Members
<1>6. Head(seq) \in Members(seq)
  <2>1. 1 \in DOMAIN seq
    BY <1>1
  <2> QED BY <1>1, <2>1 DEF Members
<1>7. ASSUME Distinct(seq) PROVE Head(seq) \notin Members(Tail(seq))
  BY <1>7, TailOfDistinct DEF Members
<1>8. ASSUME Len(seq) = 1 PROVE Members(Tail(seq)) = {} /\ Tail(seq) = <<>>
  <2>1. Len(Tail(seq)) = 0 /\ DOMAIN Tail(seq) = {}
    BY <1>2, <1>3, <1>8
  <2>2. Tail(seq) = <<>>
    BY <1>2, <2>1, EmptySeq
  <2> QED BY <2>1, <2>2 DEF Members
<1>9. ASSUME Len(seq) # 1 PROVE Tail(seq) # <<>>
  <2>1. Len(Tail(seq)) # 0
    BY <1>1, <1>2, <1>9
  <2>2. Len(<<>>) = 0
    OBVIOUS
  <2> QED BY <2>1, <2>2
<1>10. Members(seq) = {Head(seq)} \cup Members(Tail(seq)) /\ Members(Tail(seq)) \subseteq T
  BY <1>4, <1>5, <1>6
<1>11. Head(seq) \in T
  BY <1>1
<1> QED BY <1>2, <1>7, <1>8, <1>9, <1>10, <1>11

(* The pair in hand, and what is ahead of it. *)
LEMMA AheadTyped ==
  ASSUME IngestInv, Running
  PROVE  /\ stores \in Seq(Source) /\ stores # <<>> /\ Distinct(stores)
         /\ todo \in Seq(Item) /\ todo # <<>> /\ Distinct(todo)
         /\ Store \in Source /\ Current \in Item
         /\ Members(stores) = {Store} \cup Members(Tail(stores))
         /\ Store \notin Members(Tail(stores)) /\ Members(Tail(stores)) \subseteq Source
         /\ Members(todo) = {Current} \cup Members(Tail(todo))
         /\ Len(todo) \in Nat /\ Len(queue) \in Nat /\ Len(Tail(todo)) = Len(todo) - 1
         /\ report[Store].failure = "none" /\ DOMAIN report = Source
         /\ DOMAIN report[Store] = DOMAIN NewReport
<1>1. /\ stores \in Seq(Source) /\ stores # <<>> /\ Distinct(stores)
      /\ todo \in Seq(Item) /\ todo # <<>> /\ Distinct(todo)
      /\ queue \in Seq(Item) /\ DOMAIN report = Source
  BY DEF IngestInv, IngestTyped, TypeOK, BusyOK, VisitsOK, ListsOK
<1>2. /\ Store \in Source /\ Members(stores) = {Store} \cup Members(Tail(stores))
      /\ Store \notin Members(Tail(stores)) /\ Members(Tail(stores)) \subseteq Source
  BY <1>1, TailMembers DEF Store
<1>3. /\ Current \in Item /\ Members(todo) = {Current} \cup Members(Tail(todo))
      /\ Len(Tail(todo)) = Len(todo) - 1
  BY <1>1, TailMembers DEF Current
<1>4. 1 \in DOMAIN stores /\ Store = stores[1]
  BY <1>1, TailOfDistinct DEF Store
<1>5. report[Store].failure = "none" /\ DOMAIN report[Store] = DOMAIN NewReport
  BY <1>2, <1>4 DEF IngestInv, VisitsOK, ReportOK
<1>6. Len(todo) \in Nat /\ Len(queue) \in Nat
  BY <1>1
<1> QED BY <1>1, <1>2, <1>3, <1>5, <1>6

-----------------------------------------------------------------------------
(* A step that moves no loop and answers nothing. *)
LEMMA IdleProgress ==
  ASSUME ProgressOK, Grows, UNCHANGED <<plan, queue, stores, todo, report, answers>>,
         Running' => Running, phase' = "done" => phase = "done"
  PROVE  ProgressOK'
  BY DEF ProgressOK, Grows, Whole, Store, Members

(* An answer is for an item still ahead, from a source not yet behind. *)
LEMMA ReceivedProgress ==
  ASSUME ReportInv, phase = "fetch", NEW sells, NEW stamp, Received(sells, stamp)
  PROVE  ProgressOK'
<1>1. Running /\ Running' /\ phase' = "save"
  BY DEF Running, Received
<1>2. /\ UNCHANGED <<plan, queue, stores, todo, report, table>>
      /\ answers' = [answers EXCEPT ![Store][Current] = KeysOf(rows')]
  BY DEF Received
<1>3. /\ Store \in Members(stores) /\ Current \in Members(todo)
      /\ answers \in [Source -> [Item -> SUBSET Key]]
  BY <1>1, AheadTyped DEF ReportInv, IngestInv, IngestTyped, TypeOK
<1>4. \A s \in Source, i \in Item : s # Store \/ i # Current => answers'[s][i] = answers[s][i]
  BY <1>2, <1>3
<1>5. plan \subseteq Source /\ Members(queue) \subseteq Item
  BY DEF ReportInv, IngestInv, IngestTyped, TypeOK, Members
<1>6. \A s \in plan \ Members(stores) : s # Store
  BY <1>3
<1>7. \A s \in plan \ Members(stores) : report[s].failure = "none" => Whole(s)'
  BY <1>2, <1>4, <1>5, <1>6 DEF ReportInv, ProgressOK, Whole
<1>8. \A i \in Members(queue) \ Members(todo) : answers'[Store][i] \subseteq DOMAIN table
  <2>1. Store \in Source
    BY <1>1, AheadTyped DEF ReportInv
  <2> QED BY <1>1, <1>3, <1>4, <1>5, <2>1 DEF ReportInv, ProgressOK
<1>9. Store' = Store /\ Members(stores)' = Members(stores) /\ Members(queue)' = Members(queue)
      /\ Members(todo)' = Members(todo)
  BY <1>2 DEF Store, Members
<1> QED BY <1>1, <1>2, <1>7, <1>8, <1>9 DEF ReportInv, ProgressOK

(* The source in hand is left, counted whole or failed. *)
LEMMA NextStoreProgress ==
  ASSUME ReportInv, Running, NextStore, Grows, UNCHANGED <<plan, queue, answers>>,
         NEW current \in Source, current = Store,
         \A s \in Source : s # current => report'[s] = report[s],
         report'[current].failure = "none" => Whole(current)'
  PROVE  ProgressOK'
<1>1. /\ stores' = Tail(stores) /\ todo' = queue
      /\ phase' = IF Len(stores) = 1 THEN "done" ELSE "pair"
  BY DEF NextStore
<1>2. /\ stores \in Seq(Source) /\ stores # <<>> /\ Distinct(stores) /\ Store \in Source
      /\ Members(stores) = {Store} \cup Members(stores')
      /\ Store \notin Members(stores') /\ Members(stores') \subseteq Source
  BY <1>1, AheadTyped DEF ReportInv
<1>3. plan \subseteq Source
  BY DEF ReportInv, IngestInv, IngestTyped, TypeOK
<1>4. \A s \in plan \ Members(stores') : report'[s].failure = "none" => Whole(s)'
  <2> TAKE s \in plan \ Members(stores')
  <2>1. CASE s = current
    BY <2>1
  <2>2. CASE s # current
    <3>1. s \in plan \ Members(stores) /\ report'[s] = report[s]
      BY <1>2, <1>3, <2>2
    <3>2. report[s].failure = "none" => Whole(s)
      BY <3>1 DEF ReportInv, ProgressOK
    <3>3. Members(queue)' = Members(queue)
      BY DEF Members
    <3> QED BY <3>1, <3>2, <3>3 DEF Whole, Grows
  <2> QED BY <2>1, <2>2
<1>5. Running' => /\ report'[Head(stores')].queried = 0
                  /\ \A s \in Members(Tail(stores')) : report'[s].queried = 0
  <2> SUFFICES ASSUME Running'
               PROVE  /\ report'[Head(stores')].queried = 0
                      /\ \A s \in Members(Tail(stores')) : report'[s].queried = 0
    OBVIOUS
  <2>1. stores' # <<>> /\ stores' \in Seq(Source)
    <3>1. Len(stores) # 1
      BY <1>1 DEF Running
    <3> QED BY <1>1, <1>2, <3>1, TailMembers
  <2>2. Head(stores') \in Members(stores') /\ Members(Tail(stores')) \subseteq Members(stores')
    BY <2>1, TailMembers
  <2>3. \A s \in Members(stores') : report'[s].queried = 0
    BY <1>1, <1>2 DEF ReportInv, ProgressOK
  <2> QED BY <2>2, <2>3
<1>6. phase' = "done" => stores' = <<>>
  BY <1>1, <1>2, TailMembers
<1>7. Len(queue) \in Nat
  BY AheadTyped DEF ReportInv
<1>8. Running' =>
        /\ report'[Store'].queried = Len(queue') - Len(todo')
        /\ \A i \in Members(queue') \ Members(todo') : answers'[Store'][i] \subseteq DOMAIN table'
  <2>1. Len(queue') - Len(todo') = 0 /\ Members(queue') \ Members(todo') = {}
    BY <1>1, <1>7
  <2>2. Store' = Head(stores')
    BY DEF Store
  <2> QED BY <1>5, <2>1, <2>2
<1>9. Members(queue)' = Members(queue') /\ Members(todo)' = Members(todo')
      /\ Members(stores)' = Members(stores') /\ Members(Tail(stores))' = Members(Tail(stores'))
  BY DEF Members
<1> QED BY <1>4, <1>5, <1>6, <1>8, <1>9 DEF ProgressOK

(* COMMIT counts the pair, whose answer is then in the table. *)
LEMMA CommitProgress == ReportInv /\ Commit => ProgressOK'
<1> SUFFICES ASSUME ReportInv, Commit PROVE ProgressOK'
  OBVIOUS
<1>1. /\ phase = "save" /\ Running /\ sent = Len(rows) /\ Committed /\ NextPair
      /\ UNCHANGED <<plan, queue, answers>>
      /\ report' = [report EXCEPT ![Store] = Counted(report[Store])]
  BY DEF Commit, Running
<1>2. /\ stores \in Seq(Source) /\ stores # <<>>
      /\ todo \in Seq(Item) /\ todo # <<>>
      /\ Store \in Source /\ Store \notin Members(Tail(stores))
      /\ Members(stores) = {Store} \cup Members(Tail(stores))
      /\ Members(Tail(stores)) \subseteq Source
      /\ Members(todo) = {Current} \cup Members(Tail(todo))
      /\ Len(todo) \in Nat /\ Len(queue) \in Nat /\ Len(Tail(todo)) = Len(todo) - 1
      /\ DOMAIN report = Source /\ DOMAIN report[Store] = DOMAIN NewReport
  BY <1>1, AheadTyped DEF ReportInv
<1>3. Grows
  <2>1. IsTable(table) /\ IsTable(pending)
    BY DEF ReportInv, IngestInv, IngestTyped, TypeOK
  <2> QED BY <1>1, <2>1, OverTables DEF Committed, Grows
<1>4. answers[Store][Current] \subseteq DOMAIN table'
  BY <1>1, CommittedWhole DEF ReportInv
<1>5. /\ report'[Store].queried = Len(queue) - Len(todo) + 1
      /\ \A s \in Source : s # Store => report'[s] = report[s]
  <2>1. "queried" \in DOMAIN report[Store]
    BY <1>2 DEF NewReport
  <2>2. Counted(report[Store]).queried = report[Store].queried + 1
    BY <2>1 DEF Counted
  <2> QED BY <1>1, <1>2, <2>2 DEF ReportInv, ProgressOK
<1>6. \A i \in Members(queue) \ Members(Tail(todo)) : answers[Store][i] \subseteq DOMAIN table'
  BY <1>1, <1>2, <1>3, <1>4 DEF ReportInv, ProgressOK, Grows
<1>7. CASE Len(todo) = 1
  <2>1. NextStore
    BY <1>1, <1>7 DEF NextPair
  <2>2. Members(Tail(todo)) = {}
    BY <1>2, <1>7, TailMembers
  <2>3. PICK current \in Source : current = Store
    BY <1>2
  <2>4. Whole(current)'
    <3>1. report'[current].queried = Len(queue)
      BY <1>2, <1>5, <1>7, <2>3
    <3>2. \A i \in Members(queue) : answers[current][i] \subseteq DOMAIN table'
      BY <1>6, <2>2, <2>3
    <3> QED BY <1>1, <3>1, <3>2 DEF Whole, Members
  <2> QED BY <1>1, <1>3, <1>5, <2>1, <2>3, <2>4, NextStoreProgress
<1>8. CASE Len(todo) # 1
  <2>1. todo' = Tail(todo) /\ phase' = "pair" /\ stores' = stores
    BY <1>1, <1>8 DEF NextPair
  <2>2. Store' = Store /\ Members(stores)' = Members(stores) /\ Members(queue)' = Members(queue)
        /\ Members(todo)' = Members(Tail(todo)) /\ Members(Tail(stores))' = Members(Tail(stores))
    BY <1>1, <2>1 DEF Store, Members
  <2>3. \A s \in plan \ Members(stores) : report'[s].failure = "none" => Whole(s)'
    <3> TAKE s \in plan \ Members(stores)
    <3>1. s # Store /\ s \in Source
      BY <1>2 DEF ReportInv, IngestInv, IngestTyped, TypeOK
    <3>2. report'[s] = report[s]
      BY <1>5, <3>1
    <3> QED BY <1>1, <1>3, <2>2, <3>2 DEF ReportInv, ProgressOK, Whole, Grows
  <2>4. report'[Store].queried = Len(queue') - Len(todo')
    BY <1>1, <1>2, <1>5, <2>1
  <2>5. \A s \in Members(Tail(stores)) : report'[s].queried = 0
    BY <1>1, <1>2, <1>5 DEF ReportInv, ProgressOK
  <2> QED BY <1>1, <1>6, <2>1, <2>2, <2>3, <2>4, <2>5 DEF ProgressOK
<1> QED BY <1>7, <1>8

(* A failure leaves its source behind as failed. *)
LEMMA AbandonProgress ==
  ASSUME ReportInv, Running, NEW failure, failure # "none", Abandon(failure), Grows
  PROVE  ProgressOK'
<1>1. /\ NextStore /\ UNCHANGED <<plan, queue, answers>>
      /\ report' = [report EXCEPT ![Store].failure  = failure,
                                  ![Store].coverage = Coverage(Store, crawl[Store])]
  BY DEF Abandon
<1>2. Store \in Source /\ DOMAIN report = Source /\ DOMAIN report[Store] = DOMAIN NewReport
  BY AheadTyped DEF ReportInv
<1>3. \A s \in Source : s # Store => report'[s] = report[s]
  BY <1>1, <1>2
<1>4. report'[Store].failure = failure
  <2>1. "failure" \in DOMAIN report[Store]
    BY <1>2 DEF NewReport
  <2> QED BY <1>1, <1>2, <2>1
<1>5. PICK current \in Source : current = Store
  BY <1>2
<1> QED BY <1>1, <1>3, <1>4, <1>5, NextStoreProgress

(* A run begins with nothing behind. *)
LEMMA StartProgress ==
  ASSUME ReportInv, NEW requested \in SUBSET Source, StartRun(requested)
  PROVE  ProgressOK'
<1>1. PICK items \in Ascending(Active), places \in Ascending(Selected(requested)) :
        /\ queue' = items /\ todo' = items
        /\ stores' = [n \in DOMAIN places |-> Registry[places[n]]]
        /\ plan' = Members(stores')
        /\ IF items = <<>> \/ places = <<>> THEN phase' = "done" ELSE phase' = "fetch"
  BY DEF StartRun
<1>2. IngestInv'
  <2>1. Next
    BY DEF Next
  <2> QED BY <2>1, InvStep DEF ReportInv
<1>3. /\ report' = [s \in Source |-> NewReport]
      /\ NewReport.queried = 0
  BY DEF StartRun, NewReport
<1>4. Running' => /\ Store' \in Source /\ Members(Tail(stores)') \subseteq Source
                  /\ Len(queue') - Len(todo') = 0
  <2> SUFFICES ASSUME Running'
               PROVE  /\ Store' \in Source /\ Members(Tail(stores)') \subseteq Source
                      /\ Len(queue') - Len(todo') = 0
    OBVIOUS
  <2>1. stores' \in Seq(Source) /\ stores' # <<>> /\ queue' \in Seq(Item)
    BY <1>2 DEF IngestInv, IngestTyped, TypeOK, BusyOK
  <2>2. Head(stores') \in Source /\ Members(Tail(stores')) \subseteq Source
    BY <2>1, TailMembers
  <2>3. Len(queue') \in Nat
    BY <2>1
  <2> QED BY <1>1, <2>2, <2>3 DEF Store
<1>5. phase' = "done" => queue' = <<>> \/ stores' = <<>>
  <2> SUFFICES ASSUME places = <<>> PROVE stores' = <<>>
    BY <1>1
  <2>1. DOMAIN stores' = {} /\ stores' \in Seq(Source)
    BY <1>1, <1>2 DEF IngestInv, IngestTyped, TypeOK
  <2> QED BY <2>1, EmptySeq
<1>6. /\ Members(stores)' = plan' /\ Members(queue)' = Members(todo)'
      /\ Members(Tail(stores))' = Members(Tail(stores)')
  BY <1>1 DEF Members
<1> QED BY <1>3, <1>4, <1>5, <1>6 DEF ProgressOK

(* Every step of the run and of its environment. *)
LEMMA ProgressStep == ReportInv /\ [Next]_vars => ProgressOK'
<1> SUFFICES ASSUME ReportInv, [Next]_vars PROVE ProgressOK'
  OBVIOUS
<1>1. CASE \E requested \in SUBSET Source : StartRun(requested)
  BY <1>1, StartProgress
<1>2. CASE BeginFetch
  BY <1>2, IdleProgress DEF BeginFetch, Running, ReportInv, Grows
<1>3. CASE SearchAnswers \/ CrawlAnswers \/ CatalogAnswers
  <2>1. phase = "fetch" /\ \E sells, stamp : Received(sells, stamp)
    BY <1>3 DEF SearchAnswers, CrawlAnswers, CatalogAnswers
  <2> QED BY <2>1, ReceivedProgress
<1>4. CASE SaveChunk({})
  BY <1>4, IdleProgress DEF SaveChunk, Running, ReportInv, Grows
<1>5. CASE Commit
  BY <1>5, CommitProgress
<1>6. CASE FetchFails
  <2>1. Running /\ Grows /\ \E failure \in {"adapter", "unexpected"} : Abandon(failure)
    BY <1>6 DEF FetchFails, Running, Grows
  <2> QED BY <2>1, AbandonProgress
<1>7. CASE DatabaseFails
  <2>1. Running /\ Grows /\ Abandon("unexpected")
    BY <1>7 DEF DatabaseFails, Running, Grows
  <2> QED BY <2>1, AbandonProgress
<1>8. CASE CommitAnswerLost
  <2>1. Running /\ Committed /\ Abandon("unexpected") /\ IsTable(table) /\ IsTable(pending)
    BY <1>8 DEF CommitAnswerLost, Running, ReportInv, IngestInv, IngestTyped, TypeOK
  <2>2. Grows
    BY <2>1, OverTables DEF Committed, Grows
  <2> QED BY <2>1, <2>2, AbandonProgress
<1>9. CASE Kill
  <2>1. plan' = {} /\ phase' = "killed"
    BY <1>9 DEF Kill
  <2> QED BY <2>1 DEF ProgressOK, Running
<1>10. CASE OtherWriter
  <2>1. Grows
    <3>1. CASE \E new \in Elsewhere : table' = Over(table, new)
      BY <3>1 DEF Over, Grows
    <3>2. CASE table' \in Relabelled(table)
      BY <3>2 DEF Grows, Relabelled
    <3> QED BY <1>10, <3>1, <3>2 DEF OtherWriter
  <2> QED BY <1>10, <2>1, IdleProgress DEF OtherWriter, runVars, Running, ReportInv
<1>11. CASE Midnight \/ EditWatchlist \/ UNCHANGED vars
  <2>1. UNCHANGED <<table, runVars>>
    BY <1>11 DEF Midnight, EditWatchlist, vars
  <2> QED BY <2>1, IdleProgress DEF runVars, Running, ReportInv, Grows
<1> QED
  BY <1>1, <1>2, <1>3, <1>4, <1>5, <1>6, <1>7, <1>8, <1>9, <1>10, <1>11 DEF Next, Step

(* What an exit code of 0 is worth: a source that the run asked for every   *)
(* item it began with, and whose answers are all in the table, whatever     *)
(* became of the other sources and of the runs before.                      *)
THEOREM SuccessMeansComplete == Spec => []SuccessIsComplete
<1>1. Init => ReportInv
  <2>1. Init => ProgressOK
    BY DEF Init, ProgressOK, Running
  <2> QED BY <2>1, InitInv DEF ReportInv
<1>2. ReportInv /\ [Next]_vars => ReportInv'
  BY InvStep, ProgressStep DEF ReportInv
<1>3. ReportInv => SuccessIsComplete
  <2> SUFFICES ASSUME ReportInv, phase = "done", Ok, queue # <<>>
               PROVE  \E s \in plan : Whole(s)
    BY DEF SuccessIsComplete, Whole
  <2>1. PICK s \in plan : report[s].failure = "none"
    BY DEF Ok
  <2>2. Members(stores) = {}
    BY DEF ReportInv, ProgressOK, Members
  <2> QED BY <2>1, <2>2 DEF ReportInv, ProgressOK
<1> QED BY <1>1, <1>2, <1>3, PTL DEF Spec

-----------------------------------------------------------------------------
(* The rows of one source that the run committed. *)
StoredOf(s) == {k \in mine : k.source = s}

(* The counters of one source, against the rows it has in the table. *)
Tallies(s) ==
  /\ report[s].fetched \in Int /\ report[s].inserted \in Int /\ report[s].already \in Int
  /\ report[s].inserted + report[s].already = report[s].fetched
  /\ report[s].inserted <= Cardinality(StoredOf(s))
  /\ report[s].failure # "unexpected" => report[s].inserted = Cardinality(StoredOf(s))

CountsOK ==
  /\ IsFiniteSet(mine) /\ mine \subseteq DOMAIN table
  /\ \A s \in Source : Tallies(s)

(* A report nothing has been written into yet. *)
LEMMA NewTallies ==
  ASSUME NEW s, report[s] = NewReport, mine = {}
  PROVE  Tallies(s)
<1>1. StoredOf(s) = {} /\ Cardinality({}) = 0
  BY FS_EmptySet DEF StoredOf
<1> QED BY <1>1 DEF Tallies, NewReport

(* Nothing is counted, and the table only grows. *)
LEMMA IdleCounts ==
  ASSUME CountsOK, Grows, UNCHANGED <<report, mine>>
  PROVE  CountsOK'
  BY DEF CountsOK, Grows, Tallies, StoredOf

(* COMMIT adds the rows of the open transaction to those of the source in   *)
(* hand: they are finitely many, and none of them was there before.         *)
LEMMA CommittedCounts ==
  ASSUME IngestInv, CountsOK, Running, Committed, NEW current \in Source, current = Store
  PROVE  /\ Grows /\ IsFiniteSet(mine') /\ mine' \subseteq DOMAIN table'
         /\ Cardinality(DOMAIN pending) \in Nat /\ Cardinality(StoredOf(current)) \in Nat
         /\ Cardinality(StoredOf(current)') = Cardinality(StoredOf(current)) + Cardinality(DOMAIN pending)
         /\ \A s \in Source : s # current => StoredOf(s)' = StoredOf(s)
<1>1. /\ IsTable(table) /\ IsTable(pending) /\ rows \in Seq(Row)
      /\ DOMAIN pending \cap DOMAIN table = {} /\ DOMAIN pending \subseteq KeysOf(rows)
      /\ \A k \in KeysOf(rows) : k.source = current
  BY DEF IngestInv, IngestTyped, TypeOK, OwnRows
<1>2. mine' = mine \cup DOMAIN pending /\ DOMAIN table' = DOMAIN pending \cup DOMAIN table
  BY <1>1, OverTables DEF Committed
<1>3. IsFiniteSet(DOMAIN pending)
  <2>1. IsFiniteSet(1..Len(rows)) /\ DOMAIN rows = 1..Len(rows)
    BY <1>1, FS_Interval
  <2> DEFINE key == [n \in 1..Len(rows) |-> rows[n].key]
  <2>2. key \in Surjection(1..Len(rows), KeysOf(rows))
    BY <2>1 DEF KeysOf, Surjection
  <2>3. IsFiniteSet(KeysOf(rows))
    BY <2>1, <2>2, FS_Surjection
  <2> QED BY <1>1, <2>3, FS_Subset
<1>4. IsFiniteSet(StoredOf(current))
  BY FS_Subset DEF CountsOK, StoredOf
<1>5. /\ StoredOf(current)' = StoredOf(current) \cup DOMAIN pending
      /\ StoredOf(current) \cap DOMAIN pending = {}
      /\ \A s \in Source : s # current => StoredOf(s)' = StoredOf(s)
  BY <1>1, <1>2 DEF StoredOf, CountsOK
<1>6. Cardinality(StoredOf(current) \cup DOMAIN pending)
        = Cardinality(StoredOf(current)) + Cardinality(DOMAIN pending)
  <2> DEFINE S == StoredOf(current)
             T == DOMAIN pending
  <2>1. IsFiniteSet(S) /\ IsFiniteSet(T) /\ S \cap T = {}
    BY <1>3, <1>4, <1>5
  <2> HIDE DEF S, T
  <2>2. Cardinality(S \cup T) = Cardinality(S) + Cardinality(T) - Cardinality(S \cap T)
    BY <2>1, FS_Union
  <2>3. Cardinality(S) \in Nat /\ Cardinality(T) \in Nat /\ Cardinality(S \cap T) = 0
    BY <2>1, FS_CardinalityType, FS_EmptySet
  <2>4. Cardinality(S \cup T) = Cardinality(S) + Cardinality(T)
    BY <2>2, <2>3
  <2> QED BY <2>4 DEF S, T
<1>7. IsFiniteSet(mine') /\ mine' \subseteq DOMAIN table' /\ Grows
  BY <1>2, <1>3, FS_Union DEF CountsOK, Grows
<1> QED BY <1>3, <1>4, <1>5, <1>6, <1>7, FS_CardinalityType

(* What a commit adds to the table is what it adds to the count. *)
LEMMA CommitCounts == IngestInv /\ CountsOK /\ Commit => CountsOK'
<1> SUFFICES ASSUME IngestInv, CountsOK, Commit PROVE CountsOK'
  OBVIOUS
<1>1. /\ Running /\ Committed
      /\ report' = [report EXCEPT ![Store] = Counted(report[Store])]
  BY DEF Commit, Running
<1>2. PICK current \in Source : current = Store
  BY <1>1, AheadTyped
<1>3. /\ Grows /\ IsFiniteSet(mine') /\ mine' \subseteq DOMAIN table'
      /\ Cardinality(DOMAIN pending) \in Nat /\ Cardinality(StoredOf(current)) \in Nat
      /\ Cardinality(StoredOf(current)') = Cardinality(StoredOf(current)) + Cardinality(DOMAIN pending)
      /\ \A s \in Source : s # current => StoredOf(s)' = StoredOf(s)
  BY <1>1, <1>2, CommittedCounts
<1>4. /\ DOMAIN report = Source /\ DOMAIN report[current] = DOMAIN NewReport
      /\ report[current].failure = "none" /\ Len(rows) \in Nat
  BY <1>1, <1>2, AheadTyped DEF IngestInv, IngestTyped, TypeOK
<1>5. /\ Counted(report[current]).fetched = report[current].fetched + Len(rows)
      /\ Counted(report[current]).inserted = report[current].inserted + Cardinality(DOMAIN pending)
      /\ Counted(report[current]).already
           = report[current].already + (Len(rows) - Cardinality(DOMAIN pending))
      /\ Counted(report[current]).failure = report[current].failure
  BY <1>4 DEF Counted, NewReport
<1>6. report'[current] = Counted(report[current]) /\ \A s \in Source : s # current => report'[s] = report[s]
  BY <1>1, <1>2, <1>4
<1>7. Tallies(current)'
  <2>1. Tallies(current)
    BY DEF CountsOK
  <2> QED BY <1>3, <1>4, <1>5, <1>6, <2>1 DEF Tallies
<1>8. ASSUME NEW s \in Source, s # current PROVE Tallies(s)'
  BY <1>3, <1>6, <1>8 DEF CountsOK, Tallies
<1> QED BY <1>3, <1>7, <1>8 DEF CountsOK

(* A failure changes no counter.  If it hides a COMMIT that was done, the   *)
(* source is marked as failed in an unexpected way.                         *)
LEMMA AbandonCounts ==
  ASSUME IngestInv, CountsOK, Running, NEW failure, Abandon(failure),
         (Committed /\ failure = "unexpected") \/ UNCHANGED <<table, mine>>
  PROVE  CountsOK'
<1>1. report' = [report EXCEPT ![Store].failure  = failure,
                               ![Store].coverage = Coverage(Store, crawl[Store])]
  BY DEF Abandon
<1>2. PICK current \in Source : current = Store
  BY AheadTyped
<1>3. /\ DOMAIN report = Source /\ DOMAIN report[current] = DOMAIN NewReport
      /\ report[current].failure = "none"
  BY <1>2, AheadTyped
<1>4. /\ report'[current].fetched = report[current].fetched
      /\ report'[current].inserted = report[current].inserted
      /\ report'[current].already = report[current].already
      /\ report'[current].failure = failure
      /\ \A s \in Source : s # current => report'[s] = report[s]
  BY <1>1, <1>2, <1>3 DEF NewReport
<1>5. CASE UNCHANGED <<table, mine>>
  <2>1. \A s \in Source : StoredOf(s)' = StoredOf(s)
    BY <1>5 DEF StoredOf
  <2>2. Tallies(current)'
    BY <1>3, <1>4, <2>1 DEF CountsOK, Tallies
  <2>3. \A s \in Source : s # current => Tallies(s)'
    BY <1>4, <2>1 DEF CountsOK, Tallies
  <2> QED BY <1>5, <2>2, <2>3 DEF CountsOK
<1>6. CASE Committed /\ failure = "unexpected"
  <2>1. /\ Grows /\ IsFiniteSet(mine') /\ mine' \subseteq DOMAIN table'
        /\ Cardinality(DOMAIN pending) \in Nat /\ Cardinality(StoredOf(current)) \in Nat
        /\ Cardinality(StoredOf(current)') = Cardinality(StoredOf(current)) + Cardinality(DOMAIN pending)
        /\ \A s \in Source : s # current => StoredOf(s)' = StoredOf(s)
    BY <1>2, <1>6, CommittedCounts
  <2>2. Tallies(current)'
    <3>1. Tallies(current)
      BY DEF CountsOK
    <3> QED BY <1>4, <1>6, <2>1, <3>1 DEF Tallies
  <2>3. \A s \in Source : s # current => Tallies(s)'
    BY <1>4, <2>1 DEF CountsOK, Tallies
  <2> QED BY <2>1, <2>2, <2>3 DEF CountsOK
<1> QED BY <1>5, <1>6

(* Every step of the run and of its environment. *)
LEMMA CountsStep == IngestInv /\ CountsOK /\ [Next]_vars => CountsOK'
<1> SUFFICES ASSUME IngestInv, CountsOK, [Next]_vars PROVE CountsOK'
  OBVIOUS
<1>1. CASE Kill \/ \E requested \in SUBSET Source : StartRun(requested)
  <2>1. mine' = {} /\ report' = [s \in Source |-> NewReport]
    BY <1>1 DEF Kill, StartRun
  <2>2. IsFiniteSet(mine') /\ mine' \subseteq DOMAIN table'
    BY <2>1, FS_EmptySet
  <2>3. ASSUME NEW s \in Source PROVE Tallies(s)'
    <3>1. StoredOf(s)' = {} /\ Cardinality({}) = 0 /\ report'[s] = NewReport
      BY <2>1, FS_EmptySet DEF StoredOf
    <3> QED BY <3>1 DEF Tallies, NewReport
  <2> QED BY <2>2, <2>3 DEF CountsOK
<1>2. CASE BeginFetch \/ SearchAnswers \/ CrawlAnswers \/ CatalogAnswers \/ SaveChunk({})
  <2>1. UNCHANGED <<table, report, mine>>
    BY <1>2 DEF BeginFetch, SearchAnswers, CrawlAnswers, CatalogAnswers, Received, SaveChunk
  <2> QED BY <2>1, IdleCounts DEF Grows
<1>3. CASE Commit
  BY <1>3, CommitCounts
<1>4. CASE FetchFails \/ DatabaseFails \/ CommitAnswerLost
  <2>1. Running
    BY <1>4 DEF FetchFails, DatabaseFails, CommitAnswerLost, Running
  <2>2. PICK failure : /\ Abandon(failure)
                       /\ (Committed /\ failure = "unexpected") \/ UNCHANGED <<table, mine>>
    BY <1>4 DEF FetchFails, DatabaseFails, CommitAnswerLost
  <2> QED BY <2>1, <2>2, AbandonCounts
<1>5. CASE OtherWriter
  <2>1. Grows
    <3>1. CASE \E new \in Elsewhere : table' = Over(table, new)
      BY <3>1 DEF Over, Grows
    <3>2. CASE table' \in Relabelled(table)
      BY <3>2 DEF Grows, Relabelled
    <3> QED BY <1>5, <3>1, <3>2 DEF OtherWriter
  <2> QED BY <1>5, <2>1, IdleCounts DEF OtherWriter, runVars
<1>6. CASE Midnight \/ EditWatchlist \/ UNCHANGED vars
  <2>1. UNCHANGED <<table, runVars>>
    BY <1>6 DEF Midnight, EditWatchlist, vars
  <2> QED BY <2>1, IdleCounts DEF runVars, Grows
<1> QED BY <1>1, <1>2, <1>3, <1>4, <1>5, <1>6 DEF Next, Step

(* The counters of the report are the table's: of what a source answered,   *)
(* exactly the rows reported as inserted are the run's own, however many    *)
(* were there before or appear twice; only a COMMIT whose answer was lost   *)
(* leaves rows uncounted, of a source then reported as failed.              *)
THEOREM ReportIsTheTable == Spec => []ReportMatchesTable
<1>1. Init => CountsOK
  <2> SUFFICES ASSUME Init PROVE CountsOK
    OBVIOUS
  <2>1. mine = {} /\ report = [s \in Source |-> NewReport]
    BY DEF Init
  <2> QED BY <2>1, FS_EmptySet, NewTallies DEF CountsOK
<1>2. CountsOK => ReportMatchesTable
  BY DEF CountsOK, Tallies, StoredOf, ReportMatchesTable
<1> QED BY <1>1, <1>2, InitInv, InvStep, CountsStep, PTL DEF Spec

-----------------------------------------------------------------------------
(* One crawl per run.  A catalog lists a product once (the crawl drops the  *)
(* repeats of an external id), so whichever queries find it, it has one     *)
(* price there.                                                             *)
OnePrice(sells) ==
  \A i, j \in Item : \A m \in DOMAIN sells[i], n \in DOMAIN sells[j] :
    sells[i][m].ext = sells[j][n].ext => sells[i][m].price = sells[j][n].price

ListedOnce == \A s \in Crawled : \A sells \in Offers[s] : OnePrice(sells)

(* A row that is priced and dated as the catalog kept by the adapter says. *)
InCatalog(key, price) ==
  LET kept == crawl[key.source]
  IN  /\ kept.done
      /\ key.day = kept.stamp[key.ext]
      /\ \E i \in Item : \E n \in DOMAIN kept.sells[i] :
           kept.sells[i][n].ext = key.ext /\ kept.sells[i][n].price = price

(* Whatever the run has of a crawled source, in hand, inserted or           *)
(* committed, is from the one catalog.                                      *)
KeptOK == \A s \in Crawled : crawl[s].done => crawl[s].sells \in Offers[s]
MineOK ==
  \A k \in mine : k \in DOMAIN table /\ (k.source \in Crawled => InCatalog(k, table[k].price))
HeldOK == \A k \in DOMAIN pending : k.source \in Crawled => InCatalog(k, pending[k].price)
HandOK ==
  \A n \in DOMAIN rows : rows[n].key.source \in Crawled => InCatalog(rows[n].key, rows[n].cell.price)

CatalogInv == KeptOK /\ MineOK /\ HeldOK /\ HandOK

(* Nothing of the run changes, and the table keeps its prices. *)
LEMMA IdleCatalog ==
  ASSUME CatalogInv, UNCHANGED <<crawl, rows, pending, mine>>,
         \A k \in DOMAIN table : k \in DOMAIN table' /\ table'[k].price = table[k].price
  PROVE  CatalogInv'
  BY DEF CatalogInv, KeptOK, MineOK, HeldOK, HandOK, InCatalog

(* A run begins, or is killed, with no catalog and nothing in hand. *)
LEMMA FreshCatalog ==
  ASSUME mine' = {}, rows' = <<>>, DOMAIN pending' = {}, crawl' = [s \in Source |-> NotCrawled]
  PROVE  CatalogInv'
  BY IngestAssumption DEF CatalogInv, KeptOK, MineOK, HeldOK, HandOK, NotCrawled

(* What an adapter answers from its catalog is as the catalog says. *)
LEMMA ClassifiedInCatalog ==
  ASSUME NEW i \in Item, NEW s \in Source, NEW k \in Kind, NEW sells \in Catalog, NEW stamp,
         NEW n \in DOMAIN Classified(i, s, k, sells, stamp)
  PROVE  LET row == Classified(i, s, k, sells, stamp)[n]
         IN  /\ row.key.source = s
             /\ row.key.day = stamp[row.key.ext]
             /\ n \in DOMAIN sells[i]
             /\ sells[i][n].ext = row.key.ext /\ sells[i][n].price = row.cell.price
  BY DEF Classified, ToRows, ToRow, Fetched

(* An answer: the catalog in hand is the one kept from then on. *)
LEMMA ReceivedCatalog ==
  ASSUME IngestInv, CatalogInv, phase = "fetch",
         NEW sells \in Offers[Store], NEW stamp, Received(sells, stamp),
         UNCHANGED <<table, pending, mine>>,
         \A s \in Source : s # Store => crawl'[s] = crawl[s],
         \/ Store \notin Crawled /\ UNCHANGED crawl
         \/ /\ crawl'[Store].done /\ crawl'[Store].sells = sells /\ crawl'[Store].stamp = stamp
            /\ crawl[Store].done => crawl'[Store] = crawl[Store]
  PROVE  CatalogInv'
<1>1. /\ Store \in Source /\ Current \in Item /\ kind \in Kind /\ sells \in Catalog
      /\ mine \subseteq Key
  BY InHandTyped, StoresAssumption DEF IngestInv, IngestTyped, TypeOK, Running
<1>2. DOMAIN pending = {}
  <2>1. rows = <<>>
    BY DEF IngestInv, IngestTyped, RestOK
  <2>2. KeysOf(rows) = {}
    BY <2>1 DEF KeysOf
  <2> QED BY <2>2 DEF IngestInv, OwnRows
<1>3. rows' = Classified(Current, Store, kind, sells, stamp)
  BY DEF Received
<1>4. KeptOK'
  BY <1>1, IngestAssumption DEF CatalogInv, KeptOK
<1>5. ASSUME NEW k \in mine, k.source \in Crawled PROVE InCatalog(k, table[k].price)'
  <2>1. InCatalog(k, table[k].price) /\ k.source \in Source
    BY <1>5, IngestAssumption DEF CatalogInv, MineOK
  <2>2. crawl'[k.source] = crawl[k.source]
    BY <1>5, <2>1 DEF InCatalog
  <2> QED BY <2>1, <2>2 DEF InCatalog
<1>6. MineOK'
  BY <1>5 DEF CatalogInv, MineOK
<1>7. ASSUME NEW n \in DOMAIN rows', NEW key, key = rows'[n].key, key.source \in Crawled,
             NEW price, price = rows'[n].cell.price
      PROVE  InCatalog(key, price)'
  <2>1. /\ rows'[n].key.source = Store
        /\ rows'[n].key.day = stamp[rows'[n].key.ext]
        /\ n \in DOMAIN sells[Current]
        /\ sells[Current][n].ext = rows'[n].key.ext
        /\ sells[Current][n].price = rows'[n].cell.price
    BY <1>1, <1>3, ClassifiedInCatalog
  <2>2. crawl'[Store].done /\ crawl'[Store].sells = sells /\ crawl'[Store].stamp = stamp
    BY <1>7, <2>1
  <2> QED BY <1>1, <1>7, <2>1, <2>2 DEF InCatalog
<1>8. HandOK'
  BY <1>7 DEF HandOK
<1> QED BY <1>2, <1>4, <1>6, <1>8 DEF CatalogInv, HeldOK

(* One INSERT takes its rows from those in hand. *)
LEMMA SaveChunkCatalog ==
  ASSUME IngestInv, CatalogInv, SaveChunk({}) PROVE CatalogInv'
<1> DEFINE chunk == Chunk(rows, sent)
           new   == InsertRows(table, pending, chunk)
<1>1. rows \in Seq(Row) /\ sent \in 0..Len(rows) /\ IsTable(table) /\ IsTable(pending)
  BY DEF IngestInv, IngestTyped, TypeOK
<1>2. /\ chunk \in Seq(Row) /\ sent + Len(chunk) \in 0..Len(rows)
      /\ \A n \in 1..Len(chunk) : chunk[n] = rows[sent + n]
  BY <1>1, ChunkOfRows
<1>3. pending' = new /\ UNCHANGED <<table, crawl, rows, mine>>
  BY DEF SaveChunk
<1> HIDE DEF chunk
<1>4. ASSUME NEW k \in DOMAIN new, k.source \in Crawled PROVE InCatalog(k, new[k].price)
  <2>1. CASE k \in DOMAIN pending
    <3>1. new[k] = pending[k]
      BY <1>1, <1>2, <2>1, InsertRowsThm
    <3> QED BY <1>4, <2>1, <3>1 DEF CatalogInv, HeldOK
  <2>2. CASE k \notin DOMAIN pending
    <3>1. PICK n \in DOMAIN chunk : chunk[n].key = k /\ new[k] = chunk[n].cell
      BY <1>2, <2>2, InsertedCells
    <3>2. sent + n \in DOMAIN rows /\ chunk[n] = rows[sent + n]
      BY <1>1, <1>2, <3>1
    <3> QED BY <1>4, <3>1, <3>2 DEF CatalogInv, HandOK
  <2> QED BY <2>1, <2>2
<1> HIDE DEF new
<1> QED BY <1>3, <1>4 DEF CatalogInv, KeptOK, MineOK, HeldOK, HandOK, InCatalog

(* A transaction ends; what it held is the run's own, or gone. *)
LEMMA EndCatalog ==
  ASSUME IngestInv, CatalogInv, EndTransaction, UNCHANGED crawl,
         Committed \/ UNCHANGED <<table, mine>>
  PROVE  CatalogInv'
<1>1. rows' = <<>> /\ DOMAIN pending' = {}
  BY NoRowsIsTable DEF EndTransaction
<1>2. MineOK'
  <2>1. CASE UNCHANGED <<table, mine>>
    BY <2>1 DEF CatalogInv, MineOK, InCatalog
  <2>2. CASE Committed
    <3>1. DOMAIN pending \cap DOMAIN table = {}
      BY DEF IngestInv, OwnRows
    <3>2. /\ mine' = mine \cup DOMAIN pending
          /\ DOMAIN table' = DOMAIN pending \cup DOMAIN table
          /\ \A k \in DOMAIN pending : table'[k] = pending[k]
          /\ \A k \in DOMAIN table : table'[k] = table[k]
      BY <2>2, <3>1 DEF Committed, Over
    <3> QED BY <3>2 DEF CatalogInv, MineOK, HeldOK, InCatalog
  <2> QED BY <2>1, <2>2
<1> QED BY <1>1, <1>2 DEF CatalogInv, KeptOK, HeldOK, HandOK

(* Every step keeps to the one catalog. *)
LEMMA CatalogStep == IngestInv /\ CatalogInv /\ [Next]_vars => CatalogInv'
<1> SUFFICES ASSUME IngestInv, CatalogInv, [Next]_vars PROVE CatalogInv'
  OBVIOUS
<1>1. CASE Kill \/ \E requested \in SUBSET Source : StartRun(requested)
  <2>1. /\ mine' = {} /\ rows' = <<>> /\ pending' = NoRows
        /\ crawl' = [s \in Source |-> NotCrawled]
    BY <1>1 DEF Kill, StartRun, EndTransaction
  <2> QED BY <2>1, NoRowsIsTable, FreshCatalog
<1>2. CASE BeginFetch
  BY <1>2, IdleCatalog DEF BeginFetch
<1>3. CASE SearchAnswers
  <2>1. PICK sells \in Offers[Store] : \E stamp \in Stamps(sells, began, today) : Received(sells, stamp)
    BY <1>3 DEF SearchAnswers
  <2> QED BY <1>3, <2>1, ReceivedCatalog DEF SearchAnswers, Received
<1>4. CASE CrawlAnswers
  <2>1. PICK sells \in Offers[Store], exhausted \in BOOLEAN :
          \E stamp \in Stamps(sells, began, today) :
            /\ crawl' = [crawl EXCEPT ![Store] =
                 [done |-> TRUE, exhausted |-> exhausted, sells |-> sells, stamp |-> stamp]]
            /\ Received(sells, stamp)
    BY <1>4 DEF CrawlAnswers
  <2>2. PICK stamp \in Stamps(sells, began, today) :
          /\ crawl' = [crawl EXCEPT ![Store] =
               [done |-> TRUE, exhausted |-> exhausted, sells |-> sells, stamp |-> stamp]]
          /\ Received(sells, stamp)
    BY <2>1
  <2>3. /\ crawl'[Store].done /\ crawl'[Store].sells = sells /\ crawl'[Store].stamp = stamp
        /\ \A s \in Source : s # Store => crawl'[s] = crawl[s]
    <3>1. DOMAIN crawl = Source /\ Store \in Source
      BY <1>4, InHandTyped DEF CrawlAnswers, IngestInv, IngestTyped, CrawlOK, Running
    <3> QED BY <2>2, <3>1
  <2>4. phase = "fetch" /\ ~crawl[Store].done /\ UNCHANGED <<table, pending, mine>>
    BY <1>4, <2>2 DEF CrawlAnswers, Received
  <2> QED BY <2>2, <2>3, <2>4, ReceivedCatalog
<1>5. CASE CatalogAnswers
  <2>1. /\ phase = "fetch" /\ Store \in Crawled /\ crawl[Store].done /\ UNCHANGED crawl
        /\ Received(crawl[Store].sells, crawl[Store].stamp)
    BY <1>5 DEF CatalogAnswers
  <2>2. crawl[Store].sells \in Offers[Store]
    BY <2>1 DEF CatalogInv, KeptOK
  <2> QED BY <2>1, <2>2, ReceivedCatalog DEF Received
<1>6. CASE SaveChunk({})
  BY <1>6, SaveChunkCatalog
<1>7. CASE Commit \/ FetchFails \/ DatabaseFails \/ CommitAnswerLost
  <2>1. EndTransaction /\ UNCHANGED crawl /\ (Committed \/ UNCHANGED <<table, mine>>)
    BY <1>7 DEF Commit, FetchFails, DatabaseFails, CommitAnswerLost, Abandon
  <2> QED BY <2>1, EndCatalog
<1>8. CASE OtherWriter
  <2>1. IsTable(table) /\ UNCHANGED runVars
    BY <1>8 DEF OtherWriter, IngestInv, IngestTyped, TypeOK
  <2>2. \A k \in DOMAIN table : k \in DOMAIN table' /\ table'[k].price = table[k].price
    <3>1. CASE \E new \in Elsewhere : table' = Over(table, new)
      BY <3>1 DEF Over
    <3>2. CASE table' \in Relabelled(table)
      BY <2>1, <3>2, RelabelledTable
    <3> QED BY <1>8, <3>1, <3>2 DEF OtherWriter
  <2> QED BY <2>1, <2>2, IdleCatalog DEF runVars
<1>9. CASE Midnight \/ EditWatchlist \/ UNCHANGED vars
  <2>1. UNCHANGED <<table, runVars>>
    BY <1>9 DEF Midnight, EditWatchlist, vars
  <2> QED BY <2>1, IdleCatalog DEF runVars
<1> QED BY <1>1, <1>2, <1>3, <1>4, <1>5, <1>6, <1>7, <1>8, <1>9 DEF Next, Step

(* Every item a run prices at a crawl-based source is priced from one and   *)
(* the same crawl, even across midnight and whatever others store: no       *)
(* product carries two prices or two days in it.                            *)
THEOREM OneCrawl ==
  ASSUME ListedOnce
  PROVE  Spec => []OneCrawlPerRun
<1>1. Init => CatalogInv
  BY NoRowsIsTable, IngestAssumption
     DEF Init, CatalogInv, KeptOK, MineOK, HeldOK, HandOK, NotCrawled
<1>2. CatalogInv => OneCrawlPerRun
  <2> SUFFICES ASSUME CatalogInv, NEW j \in mine, NEW k \in mine,
                      j.source = k.source, j.source \in Crawled, j.ext = k.ext
               PROVE  j.day = k.day /\ table[j].price = table[k].price
    BY DEF OneCrawlPerRun
  <2>1. InCatalog(j, table[j].price) /\ InCatalog(k, table[k].price)
    BY DEF CatalogInv, MineOK
  <2>2. OnePrice(crawl[j.source].sells)
    BY <2>1 DEF CatalogInv, KeptOK, InCatalog, ListedOnce
  <2>3. PICK a \in Item : \E m \in DOMAIN crawl[j.source].sells[a] :
          /\ crawl[j.source].sells[a][m].ext = j.ext
          /\ crawl[j.source].sells[a][m].price = table[j].price
    BY <2>1 DEF InCatalog
  <2>4. PICK b \in Item : \E n \in DOMAIN crawl[j.source].sells[b] :
          /\ crawl[j.source].sells[b][n].ext = j.ext
          /\ crawl[j.source].sells[b][n].price = table[k].price
    BY <2>1 DEF InCatalog
  <2>5. table[j].price = table[k].price
    BY <2>2, <2>3, <2>4 DEF OnePrice
  <2>6. j.day = k.day
    BY <2>1 DEF InCatalog
  <2> QED BY <2>5, <2>6
<1> QED BY <1>1, <1>2, InitInv, InvStep, CatalogStep, PTL DEF Spec

=============================================================================

----------------------------- MODULE RadarProofs -----------------------------
(***************************************************************************)
(* Proofs about all the writers of the database together, for any stores,  *)
(* items, kinds, sessions, processes and days.  The composition implements *)
(* each of its parts: to the daily run, the quick searches and reclassify  *)
(* are the other writers its own specification allows for, and to a quick  *)
(* search the daily run is.  What was proved of each part alone then holds *)
(* of the composition, and what no part could state alone is proved here:  *)
(* whose rows are whose, and that relabelled rows keep their label.        *)
(***************************************************************************)
EXTENDS Radar, StorageProofs

(* What another writer may commit, at its most general: any rows of one    *)
(* item at one source.                                                     *)
AnyRows ==
  {new \in UNION {[D -> Cell] : D \in SUBSET Key} :
     \A j, k \in DOMAIN new : j.item = k.item /\ j.source = k.source}

(* The parts, each among any other writers, with what is proved of them. *)
DP == INSTANCE IngestProofs WITH Elsewhere <- AnyRows
QP == INSTANCE QuickSearchProofs WITH kind <- qKind, began <- qBegan, sent <- qSent,
                                      pending <- qPending, Elsewhere <- AnyRows

(* A table of one pair's rows may be committed by another writer. *)
LEMMA AnyTable ==
  ASSUME NEW new
  PROVE  new \in AnyRows <=>
           IsTable(new) /\ \A j, k \in DOMAIN new : j.item = k.item /\ j.source = k.source
  BY DEF AnyRows, IsTable

(* The constants are what the daily run assumes of them... *)
LEMMA DailyAssumptions == DP!StorageAssumption /\ DP!StoresAssumption /\ DP!IngestAssumption
<1>1. DP!StorageAssumption /\ DP!StoresAssumption
  BY StorageAssumption, StoresAssumption
     DEF DP!StorageAssumption, DP!StoresAssumption, DP!IsFiniteSet, IsFiniteSet, DP!Catalog, Catalog
<1>2. \A t : DP!IsTable(t) <=> IsTable(t)
  BY DEF DP!IsTable, IsTable, DP!Key, Key, DP!Cell, Cell, DP!Day, Day
<1> QED BY <1>1, <1>2, RadarAssumption, AnyTable DEF DP!IngestAssumption

(* ...and what the quick search assumes. *)
LEMMA QuickAssumptions == QP!StorageAssumption /\ QP!StoresAssumption /\ QP!QuickSearchAssumption
<1>1. QP!StorageAssumption /\ QP!StoresAssumption
  BY StorageAssumption, StoresAssumption
     DEF QP!StorageAssumption, QP!StoresAssumption, QP!IsFiniteSet, IsFiniteSet, QP!Catalog, Catalog
<1>2. \A t : QP!IsTable(t) <=> IsTable(t)
  BY DEF QP!IsTable, IsTable, QP!Key, Key, QP!Cell, Cell, QP!Day, Day
<1> QED BY <1>1, <1>2, RadarAssumption, AnyTable
        DEF QP!QuickSearchAssumption, QP!IsFiniteSet, IsFiniteSet

(* The steps of the daily run do not depend on who the other writers are; *)
(* one that waits for locked keys is also one that need not wait.         *)
LEMMA DailySteps ==
  /\ \A requested : Daily!StartRun(requested) => DP!StartRun(requested)
  /\ Daily!BeginFetch => DP!BeginFetch
  /\ Daily!SearchAnswers => DP!SearchAnswers
  /\ Daily!CrawlAnswers => DP!CrawlAnswers
  /\ Daily!CatalogAnswers => DP!CatalogAnswers
  /\ \A held : Daily!SaveChunk(held) => DP!SaveChunk({})
  /\ Daily!Commit => DP!Commit
  /\ Daily!FetchFails => DP!FetchFails
  /\ Daily!DatabaseFails => DP!DatabaseFails
  /\ Daily!CommitAnswerLost => DP!CommitAnswerLost
  /\ Daily!Kill => DP!Kill
<1>1. \A requested : Daily!StartRun(requested) => DP!StartRun(requested)
  BY DEF Daily!StartRun, DP!StartRun, Daily!Running, DP!Running, Daily!Members, DP!Members,
          Daily!Ascending, DP!Ascending, Daily!Active, DP!Active, Daily!Listed, DP!Listed,
          Daily!Selected, DP!Selected, Daily!NotCrawled, DP!NotCrawled,
          Daily!NoRows, DP!NoRows, Daily!NewReport, DP!NewReport,
          Daily!Cardinality, DP!Cardinality
<1>2. Daily!BeginFetch => DP!BeginFetch
  BY DEF Daily!BeginFetch, DP!BeginFetch, Daily!Current, DP!Current, Daily!Store, DP!Store
<1>3. Daily!SearchAnswers => DP!SearchAnswers
  BY DEF Daily!SearchAnswers, DP!SearchAnswers, Daily!Store, DP!Store,
          Daily!Current, DP!Current, Daily!Stamps, DP!Stamps, Daily!OnSale, DP!OnSale,
          Daily!Received, DP!Received, Daily!Classified, DP!Classified,
          Daily!ToRows, DP!ToRows, Daily!ToRow, DP!ToRow, Daily!Fetched, DP!Fetched,
          Daily!KeysOf, DP!KeysOf
<1>4. Daily!CrawlAnswers => DP!CrawlAnswers
  BY DEF Daily!CrawlAnswers, DP!CrawlAnswers, Daily!Store, DP!Store,
          Daily!Current, DP!Current, Daily!Stamps, DP!Stamps, Daily!OnSale, DP!OnSale,
          Daily!Received, DP!Received, Daily!Classified, DP!Classified,
          Daily!ToRows, DP!ToRows, Daily!ToRow, DP!ToRow, Daily!Fetched, DP!Fetched,
          Daily!KeysOf, DP!KeysOf
<1>5. Daily!CatalogAnswers => DP!CatalogAnswers
  BY DEF Daily!CatalogAnswers, DP!CatalogAnswers, Daily!Store, DP!Store,
          Daily!Current, DP!Current, Daily!Received, DP!Received,
          Daily!Classified, DP!Classified, Daily!ToRows, DP!ToRows, Daily!ToRow, DP!ToRow,
          Daily!Fetched, DP!Fetched, Daily!KeysOf, DP!KeysOf
<1>6. \A held : Daily!SaveChunk(held) => DP!SaveChunk({})
  BY DEF Daily!SaveChunk, DP!SaveChunk, Daily!KeysOf, DP!KeysOf, Daily!Chunk, DP!Chunk,
          Daily!InsertRows, DP!InsertRows, Daily!Fresh, DP!Fresh, Daily!Over, DP!Over,
          Daily!CellFor, DP!CellFor
<1>7. Daily!Commit => DP!Commit
  BY DEF Daily!Commit, DP!Commit, Daily!Committed, DP!Committed, Daily!Over, DP!Over,
          Daily!Counted, DP!Counted, Daily!Coverage, DP!Coverage, Daily!Store, DP!Store,
          Daily!NextPair, DP!NextPair, Daily!NextStore, DP!NextStore,
          Daily!EndTransaction, DP!EndTransaction, Daily!NoRows, DP!NoRows,
          Daily!Cardinality, DP!Cardinality
<1>8. Daily!FetchFails => DP!FetchFails
  BY DEF Daily!FetchFails, DP!FetchFails, Daily!Abandon, DP!Abandon,
          Daily!Coverage, DP!Coverage, Daily!Store, DP!Store, Daily!NextStore, DP!NextStore,
          Daily!EndTransaction, DP!EndTransaction, Daily!NoRows, DP!NoRows
<1>9. Daily!DatabaseFails => DP!DatabaseFails
  BY DEF Daily!DatabaseFails, DP!DatabaseFails, Daily!Abandon, DP!Abandon,
          Daily!Coverage, DP!Coverage, Daily!Store, DP!Store, Daily!NextStore, DP!NextStore,
          Daily!EndTransaction, DP!EndTransaction, Daily!NoRows, DP!NoRows
<1>10. Daily!CommitAnswerLost => DP!CommitAnswerLost
  BY DEF Daily!CommitAnswerLost, DP!CommitAnswerLost, Daily!Committed, DP!Committed,
          Daily!Over, DP!Over, Daily!Abandon, DP!Abandon, Daily!Coverage, DP!Coverage,
          Daily!Store, DP!Store, Daily!NextStore, DP!NextStore,
          Daily!EndTransaction, DP!EndTransaction, Daily!NoRows, DP!NoRows
<1>11. Daily!Kill => DP!Kill
  BY DEF Daily!Kill, DP!Kill, Daily!Running, DP!Running, Daily!DefaultKind, DP!DefaultKind,
          Daily!NotCrawled, DP!NotCrawled, Daily!NoRows, DP!NoRows,
          Daily!NewReport, DP!NewReport, Daily!EndTransaction, DP!EndTransaction
<1> QED BY <1>1, <1>2, <1>3, <1>4, <1>5, <1>6, <1>7, <1>8, <1>9, <1>10, <1>11

(* And the steps of the quick search, whose INSERTs wait for each other's  *)
(* keys among those they wait for.                                         *)
LEMMA QuickSteps ==
  /\ \A s, i : Quick!Call(s, i) => QP!Call(s, i)
  /\ \A s : Quick!CheckCap(s) => QP!CheckCap(s)
  /\ \A s : Quick!Build(s) => QP!Build(s)
  /\ \A s : Quick!Record(s) => QP!Record(s)
  /\ \A s : Quick!RecordAnswerLost(s) => QP!RecordAnswerLost(s)
  /\ \A s : Quick!Launch(s) => QP!Launch(s)
  /\ \A s : Quick!FailsEarly(s) => QP!FailsEarly(s)
  /\ \A s, src : Quick!Worker(s, src) => QP!Worker(s, src)
  /\ \A s, src : Quick!TakeFailed(s, src) => QP!TakeFailed(s, src)
  /\ \A s, src : Quick!TakeAnswered(s, src) => QP!TakeAnswered(s, src)
  /\ \A s : Quick!SaveChunk(s, HeldFrom(s)) => QP!SaveChunk(s, QP!Held(s))
  /\ \A s : Quick!Commit(s) => QP!Commit(s)
  /\ \A s : Quick!SaveFails(s) => QP!SaveFails(s)
  /\ \A s : Quick!Drained(s) => QP!Drained(s)
  /\ \A s : Quick!Return(s) => QP!Return(s)
  /\ \A p : Quick!Kill(p) => QP!Kill(p)
  /\ Quick!UtcMidnight => QP!UtcMidnight
  /\ Quick!ArgentineMidnight => QP!ArgentineMidnight
<1>1. \A s, i : Quick!Call(s, i) => QP!Call(s, i)
  BY DEF Quick!Call, QP!Call, Quick!Listed, QP!Listed, Quick!GoTo, QP!GoTo,
          Quick!Unmoved, QP!Unmoved
<1>2. \A s : Quick!CheckCap(s) => QP!CheckCap(s)
  BY DEF Quick!CheckCap, QP!CheckCap, Quick!Leave, QP!Leave, Quick!GoTo, QP!GoTo,
          Quick!AnyItem, QP!AnyItem, Quick!DefaultKind, QP!DefaultKind, Quick!Idle, QP!Idle,
          Quick!Nothing, QP!Nothing, Quick!NoRows, QP!NoRows, Quick!Unmoved, QP!Unmoved
<1>3. \A s : Quick!Build(s) => QP!Build(s)
  BY DEF Quick!Build, QP!Build, Quick!Leave, QP!Leave, Quick!GoTo, QP!GoTo,
          Quick!AnyItem, QP!AnyItem, Quick!DefaultKind, QP!DefaultKind, Quick!Idle, QP!Idle,
          Quick!Nothing, QP!Nothing, Quick!NoRows, QP!NoRows, Quick!Unmoved, QP!Unmoved
<1>4. \A s : Quick!Record(s) => QP!Record(s)
  BY DEF Quick!Record, QP!Record, Quick!GoTo, QP!GoTo, Quick!Unmoved, QP!Unmoved
<1>5. \A s : Quick!RecordAnswerLost(s) => QP!RecordAnswerLost(s)
  BY DEF Quick!RecordAnswerLost, QP!RecordAnswerLost, Quick!Leave, QP!Leave,
          Quick!AnyItem, QP!AnyItem, Quick!DefaultKind, QP!DefaultKind, Quick!Idle, QP!Idle,
          Quick!Nothing, QP!Nothing, Quick!NoRows, QP!NoRows, Quick!Unmoved, QP!Unmoved
<1>6. \A s : Quick!Launch(s) => QP!Launch(s)
  BY DEF Quick!Launch, QP!Launch, Quick!GoTo, QP!GoTo, Quick!Unmoved, QP!Unmoved
<1>7. \A s : Quick!FailsEarly(s) => QP!FailsEarly(s)
  BY DEF Quick!FailsEarly, QP!FailsEarly, Quick!Leave, QP!Leave, Quick!AnyItem, QP!AnyItem,
          Quick!DefaultKind, QP!DefaultKind, Quick!Idle, QP!Idle, Quick!Nothing, QP!Nothing,
          Quick!NoRows, QP!NoRows, Quick!Unmoved, QP!Unmoved
<1>8. \A s, src : Quick!Worker(s, src) => QP!Worker(s, src)
  BY DEF Quick!Worker, QP!Worker, Quick!Answer, QP!Answer, Quick!FetchFails, QP!FetchFails,
          Quick!Stamps, QP!Stamps, Quick!OnSale, QP!OnSale, Quick!Classified, QP!Classified,
          Quick!ToRows, QP!ToRows, Quick!ToRow, QP!ToRow, Quick!Fetched, QP!Fetched,
          Quick!Unmoved, QP!Unmoved
<1>9. \A s, src : Quick!TakeFailed(s, src) => QP!TakeFailed(s, src)
  BY DEF Quick!TakeFailed, QP!TakeFailed, Quick!Progressed, QP!Progressed,
          Quick!GoTo, QP!GoTo, Quick!NoRows, QP!NoRows, Quick!Unmoved, QP!Unmoved
<1>10. \A s, src : Quick!TakeAnswered(s, src) => QP!TakeAnswered(s, src)
  BY DEF Quick!TakeAnswered, QP!TakeAnswered, Quick!GoTo, QP!GoTo,
          Quick!Unmoved, QP!Unmoved
<1>11. \A s : Quick!SaveChunk(s, HeldFrom(s)) => QP!SaveChunk(s, QP!Held(s))
  BY DEF HeldFrom, QP!Held, Quick!SaveChunk, QP!SaveChunk, Quick!InHand, QP!InHand, Quick!KeysOf, QP!KeysOf,
          Quick!Chunk, QP!Chunk, Quick!InsertRows, QP!InsertRows, Quick!Fresh, QP!Fresh,
          Quick!Over, QP!Over, Quick!CellFor, QP!CellFor, Quick!Unmoved, QP!Unmoved
<1>12. \A s : Quick!Commit(s) => QP!Commit(s)
  BY DEF Quick!Commit, QP!Commit, Quick!InHand, QP!InHand, Quick!Over, QP!Over,
          Quick!Progressed, QP!Progressed, Quick!GoTo, QP!GoTo,
          Quick!EndTransaction, QP!EndTransaction, Quick!NoRows, QP!NoRows,
          Quick!Unmoved, QP!Unmoved
<1>13. \A s : Quick!SaveFails(s) => QP!SaveFails(s)
  BY DEF Quick!SaveFails, QP!SaveFails, Quick!InHand, QP!InHand, Quick!Over, QP!Over,
          Quick!GoTo, QP!GoTo, Quick!EndTransaction, QP!EndTransaction,
          Quick!NoRows, QP!NoRows, Quick!Unmoved, QP!Unmoved
<1>14. \A s : Quick!Drained(s) => QP!Drained(s)
  BY DEF Quick!Drained, QP!Drained, Quick!Fetching, QP!Fetching, Quick!Leave, QP!Leave,
          Quick!AnyItem, QP!AnyItem, Quick!DefaultKind, QP!DefaultKind, Quick!Idle, QP!Idle,
          Quick!Nothing, QP!Nothing, Quick!NoRows, QP!NoRows, Quick!Unmoved, QP!Unmoved
<1>15. \A s : Quick!Return(s) => QP!Return(s)
  BY DEF Quick!Return, QP!Return, Quick!Leave, QP!Leave, Quick!AnyItem, QP!AnyItem,
          Quick!DefaultKind, QP!DefaultKind, Quick!Idle, QP!Idle, Quick!Nothing, QP!Nothing,
          Quick!NoRows, QP!NoRows, Quick!Unmoved, QP!Unmoved
<1>16. \A p : Quick!Kill(p) => QP!Kill(p)
  BY DEF Quick!Kill, QP!Kill, Quick!Lost, QP!Lost, Quick!AnyItem, QP!AnyItem,
          Quick!DefaultKind, QP!DefaultKind, Quick!Idle, QP!Idle, Quick!Nothing, QP!Nothing,
          Quick!NoRows, QP!NoRows, Quick!Unmoved, QP!Unmoved
<1>17. Quick!UtcMidnight => QP!UtcMidnight
  BY DEF Quick!UtcMidnight, QP!UtcMidnight, Quick!callVars, QP!callVars
<1>18. Quick!ArgentineMidnight => QP!ArgentineMidnight
  BY DEF Quick!ArgentineMidnight, QP!ArgentineMidnight, Quick!callVars, QP!callVars
<1> QED BY <1>1, <1>2, <1>3, <1>4, <1>5, <1>6, <1>7, <1>8, <1>9, <1>10, <1>11, <1>12, <1>13, <1>14, <1>15, <1>16, <1>17, <1>18

-----------------------------------------------------------------------------
(* What a step of one part is to the others. *)

(* The daily run leaves the watchlist and the calendar alone, changes the   *)
(* table by laying its transaction over it, and takes no key that a quick   *)
(* search holds.                                                            *)
LEMMA DailyDoes ==
  ASSUME DailyNext
  PROVE  /\ UNCHANGED <<watch, today, arToday, quickVars, passVars>>
         /\ UNCHANGED table \/ table' = Over(pending, table)
         /\ DOMAIN pending' \cap QuickHeld \subseteq DOMAIN pending
<1>1. ASSUME NEW requested, Daily!StartRun(requested)
      PROVE  UNCHANGED <<watch, today, table>> /\ DOMAIN pending' = {}
  BY <1>1 DEF Daily!StartRun, Daily!NoRows
<1>2. CASE Daily!BeginFetch \/ Daily!SearchAnswers \/ Daily!CrawlAnswers \/ Daily!CatalogAnswers
  BY <1>2 DEF DailyNext, Daily!BeginFetch, Daily!SearchAnswers, Daily!CrawlAnswers,
              Daily!CatalogAnswers, Daily!Received
<1>3. CASE Daily!SaveChunk(QuickHeld)
  <2>1. DOMAIN pending' \subseteq DOMAIN pending \cup Daily!KeysOf(Daily!Chunk(rows, sent))
    BY <1>3 DEF Daily!SaveChunk, Daily!InsertRows, Daily!Over, Daily!Fresh
  <2> QED BY <1>3, <2>1 DEF DailyNext, Daily!SaveChunk
<1>4. CASE \/ Daily!Commit \/ Daily!FetchFails \/ Daily!DatabaseFails \/ Daily!CommitAnswerLost
           \/ Daily!Kill
  <2>1. DOMAIN pending' = {}
    BY <1>4 DEF Daily!Commit, Daily!FetchFails, Daily!DatabaseFails, Daily!CommitAnswerLost,
                Daily!Kill, Daily!Abandon, Daily!EndTransaction, Daily!NoRows
  <2>2. UNCHANGED <<watch, today>> /\ (UNCHANGED table \/ table' = Daily!Over(pending, table))
    BY <1>4 DEF Daily!Commit, Daily!FetchFails, Daily!DatabaseFails, Daily!CommitAnswerLost,
                Daily!Kill, Daily!Abandon, Daily!Committed
  <2> QED BY <2>1, <2>2 DEF DailyNext, Daily!Over, Over
<1> QED BY <1>1, <1>2, <1>3, <1>4 DEF DailyNext, Daily!Step

(* Nor does a quick search, whose commit lays its own over the table. *)
LEMMA QuickDoes ==
  ASSUME QuickNext, DOMAIN qPending = Session
  PROVE  /\ UNCHANGED <<watch, today, arToday, dailyVars, passVars>>
         /\ UNCHANGED table \/ \E s \in Session : table' = Over(qPending[s], table)
         /\ \A s \in Session : DOMAIN qPending'[s] \cap DOMAIN pending \subseteq DOMAIN qPending[s]
<1>n. DOMAIN Quick!NoRows = {}
  BY DEF Quick!NoRows
<1>1. ASSUME NEW s \in Session, NEW i, Quick!Call(s, i)
      PROVE  UNCHANGED <<watch, today, arToday, table, qPending>>
  BY <1>1 DEF Quick!Call, Quick!Unmoved
<1>2. ASSUME NEW s \in Session,
             \/ Quick!CheckCap(s) \/ Quick!Build(s) \/ Quick!Record(s) \/ Quick!Launch(s)
             \/ Quick!Drained(s) \/ Quick!Return(s) \/ Quick!RecordAnswerLost(s)
             \/ Quick!FailsEarly(s)
      PROVE  /\ UNCHANGED <<watch, today, arToday, table>>
             /\ UNCHANGED qPending \/ qPending' = [qPending EXCEPT ![s] = Quick!NoRows]
  BY <1>2 DEF Quick!CheckCap, Quick!Build, Quick!Record, Quick!Launch, Quick!Drained, Quick!Return,
              Quick!RecordAnswerLost, Quick!FailsEarly, Quick!Leave, Quick!Unmoved
<1>3. ASSUME NEW s \in Session, NEW src, Quick!TakeFailed(s, src) \/ Quick!TakeAnswered(s, src)
                                           \/ Quick!Worker(s, src)
      PROVE  /\ UNCHANGED <<watch, today, arToday, table>>
             /\ UNCHANGED qPending \/ qPending' = [qPending EXCEPT ![s] = Quick!NoRows]
  BY <1>3 DEF Quick!TakeFailed, Quick!TakeAnswered, Quick!Worker, Quick!Answer, Quick!FetchFails,
              Quick!Unmoved
<1>4. ASSUME NEW s \in Session, Quick!Commit(s) \/ Quick!SaveFails(s)
      PROVE  /\ UNCHANGED <<watch, today, arToday>>
             /\ UNCHANGED table \/ table' = Over(qPending[s], table)
             /\ qPending' = [qPending EXCEPT ![s] = Quick!NoRows]
  BY <1>4 DEF Quick!Commit, Quick!SaveFails, Quick!EndTransaction, Quick!Unmoved, Quick!Over, Over
<1>5. ASSUME NEW s \in Session, Quick!SaveChunk(s, HeldFrom(s))
      PROVE  /\ UNCHANGED <<watch, today, arToday, table>>
             /\ \A t \in Session : DOMAIN qPending'[t] \cap DOMAIN pending \subseteq DOMAIN qPending[t]
  <2> DEFINE chunk == Quick!Chunk(Quick!InHand(s), qSent[s])
             new   == Quick!InsertRows(table, qPending[s], chunk)
  <2>1. /\ UNCHANGED <<watch, today, arToday, table>>
        /\ qPending' = [qPending EXCEPT ![s] = new]
        /\ Quick!KeysOf(chunk) \cap HeldFrom(s) = {}
    BY <1>5 DEF Quick!SaveChunk, Quick!Unmoved
  <2>2. DOMAIN new \subseteq DOMAIN qPending[s] \cup Quick!KeysOf(chunk)
    BY DEF Quick!InsertRows, Quick!Over, Quick!Fresh
  <2> HIDE DEF chunk, new
  <2>3. DOMAIN pending \subseteq HeldFrom(s)
    BY DEF HeldFrom
  <2> QED BY <2>1, <2>2, <2>3
<1>6. ASSUME NEW p, Quick!Kill(p)
      PROVE  /\ UNCHANGED <<watch, today, arToday, table>>
             /\ \A t \in Session : qPending'[t] = qPending[t] \/ qPending'[t] = Quick!NoRows
  BY <1>6 DEF Quick!Kill, Quick!Lost, Quick!Unmoved
<1>7. UNCHANGED <<dailyVars, passVars>>
  BY DEF QuickNext
<1> QED BY <1>n, <1>1, <1>2, <1>3, <1>4, <1>5, <1>6, <1>7 DEF QuickNext, Quick!Advance, Quick!Breaks

(* No key is held by the daily run and by a quick search at once. *)
HeldApart == \A s \in Session : DOMAIN pending \cap DOMAIN qPending[s] = {}

(* The parts agree on what a table is. *)
LEMMA SameTables ==
  /\ \A t : DP!IsTable(t) <=> IsTable(t)
  /\ \A t : QP!IsTable(t) <=> IsTable(t)
  /\ \A f, b : DP!Over(f, b) = Over(f, b) /\ QP!Over(f, b) = Over(f, b)
  /\ \A t : DP!Relabelled(t) = Relabelled(t) /\ QP!Relabelled(t) = Relabelled(t)
<1>1. DP!Key = Key /\ QP!Key = Key /\ DP!Cell = Cell /\ QP!Cell = Cell
  BY DEF DP!Key, QP!Key, Key, DP!Cell, QP!Cell, Cell, DP!Day, QP!Day, Day
<1>2. \A f, b : DP!Over(f, b) = Over(f, b) /\ QP!Over(f, b) = Over(f, b)
  BY DEF DP!Over, QP!Over, Over
<1>3. \A t : DP!Relabelled(t) = Relabelled(t) /\ QP!Relabelled(t) = Relabelled(t)
  BY DEF DP!Relabelled, QP!Relabelled, Relabelled
<1> QED BY <1>1, <1>2, <1>3 DEF DP!IsTable, QP!IsTable, IsTable

(* Two tables without a common key may be laid over each other either way. *)
LEMMA OverEitherWay ==
  ASSUME NEW a, NEW b, DOMAIN a \cap DOMAIN b = {}
  PROVE  Over(a, b) = Over(b, a)
  BY DEF Over

(* The rows the daily run holds are of one pair, and new to the table. *)
LEMMA DailyHolds ==
  ASSUME DP!IngestInv
  PROVE  pending \in AnyRows /\ DOMAIN pending \cap DOMAIN table = {} /\ IsTable(table)
<1>1. IsTable(pending) /\ IsTable(table)
  BY SameTables DEF DP!IngestInv, DP!IngestTyped, DP!TypeOK
<1> QED BY <1>1, AnyTable DEF DP!IngestInv, DP!OwnRows

(* So are those of each quick search. *)
LEMMA QuickHolds ==
  ASSUME QP!QuickInv, NEW s \in Session
  PROVE  /\ qPending[s] \in AnyRows /\ DOMAIN qPending[s] \cap DOMAIN table = {}
         /\ DOMAIN qPending = Session
<1>1. IsTable(qPending[s]) /\ DOMAIN qPending = Session
  BY SameTables DEF QP!QuickInv, QP!TypeOK
<1>2. QP!Owns(s) /\ (pc[s] = "save" => taken[s] \in Searchable)
  BY DEF QP!QuickInv, QP!OwnRows, QP!TypeOK
<1>3. \A j, k \in DOMAIN qPending[s] : j.item = k.item /\ j.source = k.source
  BY <1>2 DEF QP!Owns, QP!InHand
<1> QED BY <1>1, <1>2, <1>3, AnyTable DEF QP!Owns

(* What the daily run does is a step of its own, and to the quick searches  *)
(* nothing, or rows that another writer commits.                            *)
LEMMA DailyIsDaily == DailyNext => DP!Next
  BY DailySteps DEF DailyNext, Daily!Step, DP!Next, DP!Step

(* To the quick searches. *)
LEMMA DailyIsOther ==
  ASSUME DP!IngestInv, QP!QuickInv, HeldApart, DailyNext
  PROVE  [QP!Next]_QP!vars
<1>1. /\ UNCHANGED <<watch, today, arToday, quickVars, passVars>>
      /\ UNCHANGED table \/ table' = Over(pending, table)
  BY DailyDoes
<1>2. CASE UNCHANGED table
  BY <1>1, <1>2 DEF quickVars, QP!vars, QP!callVars
<1>3. CASE table' = Over(pending, table)
  <2>1. table' = QP!Over(table, pending)
    BY <1>3, DailyHolds, OverEitherWay, SameTables
  <2>2. \A s \in Session : DOMAIN pending \cap DOMAIN qPending[s] = {}
    BY DEF HeldApart
  <2>3. pending \in AnyRows /\ DOMAIN pending \cap DOMAIN table = {}
    BY DailyHolds
  <2>4. UNCHANGED <<watch, ran, today, arToday, QP!callVars, visits>>
    BY <1>1 DEF quickVars, QP!callVars
  <2>5. QP!OtherWriter
    BY <2>1, <2>2, <2>3, <2>4 DEF QP!OtherWriter
  <2> QED BY <2>5 DEF QP!Next
<1> QED BY <1>1, <1>2, <1>3

(* What a quick search does is a step of its own... *)
LEMMA QuickIsQuick == QuickNext => QP!Next
  BY QuickSteps DEF QuickNext, Quick!Advance, Quick!Breaks, QP!Next, QP!Advance, QP!Breaks

(* ...and to the daily run nothing, or rows that another writer commits. *)
LEMMA QuickIsOther ==
  ASSUME DP!IngestInv, QP!QuickInv, HeldApart, QuickNext
  PROVE  [DP!Next]_DP!vars
<1>1. DOMAIN qPending = Session
  BY DEF QP!QuickInv, QP!TypeOK
<1>2. /\ UNCHANGED <<watch, today, arToday, dailyVars, passVars>>
      /\ UNCHANGED table \/ \E s \in Session : table' = Over(qPending[s], table)
  BY <1>1, QuickDoes
<1>3. CASE UNCHANGED table
  BY <1>2, <1>3 DEF dailyVars, DP!vars, DP!runVars
<1>4. ASSUME NEW s \in Session, table' = Over(qPending[s], table)
      PROVE  [DP!Next]_DP!vars
  <2>1. qPending[s] \in AnyRows /\ DOMAIN qPending[s] \cap DOMAIN table = {}
    BY QuickHolds
  <2>2. table' = DP!Over(table, qPending[s])
    BY <1>4, <2>1, OverEitherWay, SameTables
  <2>3. DOMAIN qPending[s] \cap (DOMAIN table \cup DOMAIN pending) = {}
    BY <2>1 DEF HeldApart
  <2>4. UNCHANGED <<watch, today, DP!runVars>>
    BY <1>2 DEF dailyVars, DP!runVars
  <2>5. DP!OtherWriter
    BY <2>1, <2>2, <2>3, <2>4 DEF DP!OtherWriter
  <2> QED BY <2>5 DEF DP!Next
<1> QED BY <1>2, <1>3, <1>4

(* Reclassify commits labels. *)
LEMMA ReclassifyDoes ==
  ASSUME IsTable(table), ReclassifyTypeOK, ReclassifyStep
  PROVE  /\ UNCHANGED watch
         /\ UNCHANGED table \/ table' \in Relabelled(table)
<1>1. CASE CommitLabels
  <2> DEFINE labels == [k \in DOMAIN table |-> IF k \in DOMAIN edits THEN edits[k] ELSE table[k].label]
  <2>1. labels \in [DOMAIN table -> Label]
    BY DEF IsTable, Cell, ReclassifyTypeOK
  <2>2. \A k \in DOMAIN table : [table[k] EXCEPT !.label = table[k].label] = table[k]
    BY DEF IsTable, Cell
  <2>3. table' = [k \in DOMAIN table |-> [table[k] EXCEPT !.label = labels[k]]]
    <3>1. table' = [k \in DOMAIN table |->
                      IF k \in DOMAIN edits THEN [table[k] EXCEPT !.label = edits[k]] ELSE table[k]]
      BY <1>1 DEF CommitLabels
    <3> QED BY <2>2, <3>1, Zenon
  <2> HIDE DEF labels
  <2> QED BY <1>1, <2>1, <2>3 DEF CommitLabels, Relabelled
<1>2. CASE \/ \E items \in SUBSET Item : LoadItems(items)
           \/ \E i \in Item : ScanItem(i)
           \/ RollBackLabels
  BY <1>2 DEF LoadItems, ScanItem, RollBackLabels
<1> QED BY <1>1, <1>2 DEF ReclassifyStep

(* To the others it is a writer that does. *)
LEMMA ReclassifyIsOther ==
  ASSUME IsTable(table), ReclassifyTypeOK, ReclassifyNext
  PROVE  [DP!Next]_DP!vars /\ [QP!Next]_QP!vars
<1>1. /\ UNCHANGED <<watch, days, dailyVars, quickVars>>
      /\ UNCHANGED table \/ table' \in Relabelled(table)
  BY ReclassifyDoes DEF ReclassifyNext
<1>2. CASE UNCHANGED table
  BY <1>1, <1>2 DEF days, dailyVars, quickVars, DP!vars, DP!runVars, QP!vars, QP!callVars
<1>3. CASE table' \in Relabelled(table)
  <2>1. DP!OtherWriter
    BY <1>1, <1>3, SameTables DEF DP!OtherWriter, days, dailyVars, DP!runVars
  <2>2. QP!OtherWriter
    BY <1>1, <1>3, SameTables DEF QP!OtherWriter, days, quickVars, QP!callVars
  <2> QED BY <2>1, <2>2 DEF DP!Next, QP!Next
<1> QED BY <1>1, <1>2, <1>3

(* The midnights and the commands on the watchlist are the same to all. *)
LEMMA CalendarIsShared ==
  ASSUME Midnights \/ EditWatchlist \/ UNCHANGED vars
  PROVE  [DP!Next]_DP!vars /\ [QP!Next]_QP!vars
<1>1. CASE Midnights
  <2>1. [QP!Next]_QP!vars
    BY <1>1, QuickSteps DEF Midnights, QP!Next
  <2>2. CASE Quick!UtcMidnight
    <3>1. DP!Midnight
      BY <1>1, <2>2 DEF Midnights, Quick!UtcMidnight, DP!Midnight, dailyVars, DP!runVars
    <3> QED BY <2>1, <3>1 DEF DP!Next
  <2>3. CASE Quick!ArgentineMidnight
    BY <1>1, <2>1, <2>3 DEF Midnights, Quick!ArgentineMidnight, dailyVars, DP!vars, DP!runVars
  <2> QED BY <1>1, <2>2, <2>3 DEF Midnights
<1>2. CASE EditWatchlist
  <2>1. Edit /\ UNCHANGED <<table, days, dailyVars, quickVars>>
    BY <1>2 DEF EditWatchlist, EditKinds
  <2>2. (Edit <=> DP!Edit) /\ (Edit <=> QP!Edit)
    BY DEF Edit, AddItem, SetActive, SetKind, Listed, DP!Edit, DP!AddItem, DP!SetActive, DP!SetKind,
           DP!Listed, QP!Edit, QP!AddItem, QP!SetActive, QP!SetKind, QP!Listed
  <2>3. DP!EditWatchlist
    BY <2>1, <2>2 DEF DP!EditWatchlist, days, dailyVars, DP!runVars
  <2>4. QP!EditWatchlist
    BY <2>1, <2>2 DEF QP!EditWatchlist, days, quickVars, QP!callVars
  <2> QED BY <2>3, <2>4 DEF DP!Next, QP!Next
<1>3. CASE UNCHANGED vars
  BY <1>3 DEF vars, days, dailyVars, quickVars, DP!vars, DP!runVars, QP!vars, QP!callVars
<1> QED BY <1>1, <1>2, <1>3

-----------------------------------------------------------------------------
(* Reclassify among the writers. *)

(* A row the command read has, or is about to get, the label of the kind    *)
(* the command loaded: nobody else changes a label meanwhile.               *)
ReadOK ==
  \A k \in read :
    /\ k.item \in DOMAIN kinds
    /\ (IF k \in DOMAIN edits THEN edits[k] ELSE table[k].label)
         = Classify[k.item][kinds[k.item]][k.ext]

RelabelInv == ReclassifyTypeOK /\ ReadOK /\ RelabelSticks

(* Rows are added, none is changed. *)
OnlyAdds == \A k \in DOMAIN table : k \in DOMAIN table' /\ table'[k] = table[k]

(* The other writers only add rows, which concern neither what is read nor  *)
(* what is clean.                                                           *)
LEMMA AddingRelabels ==
  ASSUME RelabelInv, OnlyAdds, UNCHANGED <<watch, passVars>>
  PROVE  RelabelInv'
<1>1. UNCHANGED <<watch, passes, kinds, left, edits, read, clean>>
  BY DEF passVars
<1>2. ReclassifyTypeOK'
  BY <1>1 DEF RelabelInv, ReclassifyTypeOK, OnlyAdds, Listed
<1>3. ReadOK'
  BY <1>1 DEF RelabelInv, ReclassifyTypeOK, ReadOK, OnlyAdds
<1>4. RelabelSticks'
  BY <1>1 DEF RelabelInv, ReclassifyTypeOK, RelabelSticks, OnlyAdds
<1> QED BY <1>2, <1>3, <1>4 DEF RelabelInv

(* A row laid beside those that are there changes none of them. *)
LEMMA OverAdds ==
  ASSUME NEW new, DOMAIN new \cap DOMAIN table = {}, table' = Over(new, table)
  PROVE  OnlyAdds
  BY DEF Over, OnlyAdds

(* Loading the items starts with nothing read. *)
LEMMA LoadRelabels ==
  ASSUME WatchTypeOK, RelabelInv, NEW items \in SUBSET Item, LoadItems(items)
  PROVE  RelabelInv'
<1>1. read = {}
  BY DEF RelabelInv, ReadOK, LoadItems, Relabelling
<1>2. ReclassifyTypeOK'
  <2>1. \A i \in items : watch[i].kind \in Kind
    BY DEF WatchTypeOK
  <2>2. passes' \in 0..Passes
    BY ReclassifyAssumption DEF RelabelInv, ReclassifyTypeOK, LoadItems
  <2> QED BY <2>1, <2>2 DEF RelabelInv, ReclassifyTypeOK, LoadItems, Listed
<1> QED BY <1>1, <1>2 DEF RelabelInv, ReadOK, RelabelSticks, LoadItems

(* Reading an item's rows marks those whose label is not that of its kind. *)
LEMMA ScanRelabels ==
  ASSUME IsTable(table), RelabelInv, NEW i \in Item, ScanItem(i)
  PROVE  RelabelInv'
<1> DEFINE right(k) == Classify[i][kinds[i]][k.ext]
           wrong == {k \in RowsOf(i) : table[k].label # right(k)}
<1>1. /\ i \in left /\ left' = left \ {i} /\ UNCHANGED <<watch, table, passes, kinds, clean>>
      /\ edits' = Over([k \in wrong |-> right(k)], edits)
      /\ read' = read \cup RowsOf(i)
  BY DEF ScanItem
<1>2. i \in DOMAIN kinds /\ kinds[i] \in Kind
  BY <1>1 DEF RelabelInv, ReclassifyTypeOK
<1>3. \A k \in RowsOf(i) : k \in DOMAIN table /\ k.item = i /\ right(k) \in Label
  <2>1. \A k \in DOMAIN table : k.ext \in Product
    BY DEF IsTable, Key
  <2> QED BY <1>2, <2>1, StorageAssumption DEF RowsOf
<1> HIDE DEF right
<1>4. /\ DOMAIN edits' = wrong \cup DOMAIN edits
      /\ \A k \in wrong : edits'[k] = right(k)
      /\ \A k \in DOMAIN edits \ wrong : edits'[k] = edits[k]
  BY <1>1 DEF Over
<1>5. wrong \subseteq RowsOf(i) /\ \A k \in RowsOf(i) \ wrong : table[k].label = right(k)
  OBVIOUS
<1> HIDE DEF wrong
<1>6. ReclassifyTypeOK'
  <2>1. \A k \in DOMAIN edits' : edits'[k] \in Label
    BY <1>3, <1>4, <1>5 DEF RelabelInv, ReclassifyTypeOK
  <2> QED BY <1>1, <1>3, <1>4, <1>5, <2>1 DEF RelabelInv, ReclassifyTypeOK, Listed
<1>7. ReadOK'
  <2>1. ASSUME NEW k \in RowsOf(i)
        PROVE  (IF k \in DOMAIN edits' THEN edits'[k] ELSE table[k].label) = right(k)
    <3>1. CASE k \in wrong
      BY <1>4, <3>1
    <3>2. CASE k \notin wrong
      <4>1. k \in DOMAIN edits => edits[k] = right(k)
        BY <1>3 DEF RelabelInv, ReclassifyTypeOK, ReadOK, right
      <4> QED BY <1>4, <1>5, <3>2, <4>1
    <3> QED BY <3>1, <3>2
  <2>2. ASSUME NEW k \in read, k \notin RowsOf(i)
        PROVE  (IF k \in DOMAIN edits' THEN edits'[k] ELSE table[k].label)
                 = (IF k \in DOMAIN edits THEN edits[k] ELSE table[k].label)
    BY <1>4, <1>5, <2>2
  <2>3. \A k \in RowsOf(i) : right(k) = Classify[k.item][kinds[k.item]][k.ext]
    BY <1>3 DEF right
  <2> QED BY <1>1, <1>2, <1>3, <2>1, <2>2, <2>3 DEF RelabelInv, ReadOK
<1>8. RelabelSticks'
  BY <1>1 DEF RelabelInv, RelabelSticks
<1> QED BY <1>6, <1>7, <1>8 DEF RelabelInv

(* At the commit every row read gets the label of the kind loaded, and is   *)
(* counted as clean if that kind is still the item's.                       *)
LEMMA CommitRelabels ==
  ASSUME IsTable(table), RelabelInv, CommitLabels
  PROVE  RelabelInv'
<1>1. /\ UNCHANGED <<watch, passes>>
      /\ DOMAIN table' = DOMAIN table
      /\ DOMAIN kinds' = {} /\ DOMAIN edits' = {} /\ left' = {} /\ read' = {}
      /\ clean' = {k \in clean : k \notin read \/ watch[k.item].kind = kinds[k.item]}
                  \cup {k \in read : watch[k.item].kind = kinds[k.item]}
  BY DEF CommitLabels, Forget, NoRows
<1>2. \A k \in DOMAIN table :
        table'[k].label = IF k \in DOMAIN edits THEN edits[k] ELSE table[k].label
  BY DEF CommitLabels, IsTable, Cell
<1>3. ReclassifyTypeOK'
  BY <1>1 DEF RelabelInv, ReclassifyTypeOK, Listed
<1>4. ReadOK'
  BY <1>1 DEF ReadOK
<1>5. ASSUME NEW k \in clean'
      PROVE  table'[k].label = Classify[k.item][watch[k.item].kind][k.ext]
  <2>1. k \in DOMAIN table
    BY <1>1 DEF RelabelInv, ReclassifyTypeOK
  <2>2. CASE k \in read
    <3>1. watch[k.item].kind = kinds[k.item]
      BY <1>1, <2>2
    <3> QED BY <1>2, <2>1, <2>2, <3>1 DEF RelabelInv, ReadOK
  <2>3. CASE k \notin read
    <3>1. k \in clean /\ k \notin DOMAIN edits
      BY <1>1, <2>3 DEF RelabelInv, ReclassifyTypeOK
    <3> QED BY <1>2, <2>1, <3>1 DEF RelabelInv, RelabelSticks
  <2> QED BY <2>2, <2>3
<1> QED BY <1>1, <1>3, <1>4, <1>5 DEF RelabelInv, RelabelSticks

(* Items are never unlisted. *)
LEMMA ListedStays == WatchTypeOK /\ Edit => Listed \subseteq Listed'
<1> SUFFICES ASSUME WatchTypeOK, Edit PROVE Listed \subseteq Listed'
  OBVIOUS
<1>1. CASE \E k \in Kind : AddItem(k)
  BY <1>1 DEF AddItem, WatchTypeOK, Listed
<1>2. CASE \E i \in Item, active \in BOOLEAN : SetActive(i, active)
  BY <1>2 DEF SetActive, WatchTypeOK, Listed
<1>3. CASE \E i \in Item, k \in Kind : SetKind(i, k)
  BY <1>3 DEF SetKind, WatchTypeOK, Listed
<1> QED BY <1>1, <1>2, <1>3 DEF Edit

(* A command on the watchlist takes the rows of an item whose kind it       *)
(* changes out of those that are clean.                                     *)
LEMMA EditRelabels ==
  ASSUME WatchTypeOK, RelabelInv, EditKinds PROVE RelabelInv'
<1>1. /\ Listed \subseteq Listed'
      /\ UNCHANGED <<table, passes, kinds, left, edits, read>>
      /\ clean' = {k \in clean : watch'[k.item].kind = watch[k.item].kind}
  BY ListedStays DEF EditKinds
<1>2. ReclassifyTypeOK'
  BY <1>1 DEF RelabelInv, ReclassifyTypeOK
<1>3. ReadOK'
  BY <1>1 DEF RelabelInv, ReadOK
<1>4. RelabelSticks'
  BY <1>1 DEF RelabelInv, RelabelSticks
<1> QED BY <1>2, <1>3, <1>4 DEF RelabelInv

(* A step of the command keeps its invariants. *)
LEMMA ReclassifyRelabels ==
  ASSUME WatchTypeOK, IsTable(table), RelabelInv, ReclassifyStep PROVE RelabelInv'
<1>1. CASE RollBackLabels
  <2>1. /\ UNCHANGED <<watch, table, passes, clean>>
        /\ DOMAIN kinds' = {} /\ DOMAIN edits' = {} /\ left' = {} /\ read' = {}
    BY <1>1 DEF RollBackLabels, Forget, NoRows
  <2> QED BY <2>1 DEF RelabelInv, ReclassifyTypeOK, ReadOK, RelabelSticks, Listed
<1> QED BY <1>1, LoadRelabels, ScanRelabels, CommitRelabels DEF ReclassifyStep

-----------------------------------------------------------------------------
(* The writers together. *)

RadarInv == DP!IngestInv /\ QP!QuickInv /\ HeldApart /\ RelabelInv

(* A new database satisfies it. *)
LEMMA InitInv == Init => DP!Init /\ QP!Init /\ RadarInv
<1> SUFFICES ASSUME Init PROVE DP!Init /\ QP!Init /\ RadarInv
  OBVIOUS
<1>1. DP!Init
  BY DEF Init, Daily!Init, DP!Init, Daily!WatchInit, DP!WatchInit, Daily!NoRows, DP!NoRows,
         Daily!DefaultKind, DP!DefaultKind, Daily!NotCrawled, DP!NotCrawled,
         Daily!NewReport, DP!NewReport
<1>2. QP!Init
  <2>1. /\ Quick!NoRows = QP!NoRows /\ Quick!DefaultKind = QP!DefaultKind
        /\ Quick!AnyItem = QP!AnyItem /\ Quick!Idle = QP!Idle /\ Quick!Nothing = QP!Nothing
    BY DEF Quick!NoRows, QP!NoRows, Quick!DefaultKind, QP!DefaultKind, Quick!AnyItem, QP!AnyItem,
           Quick!Idle, QP!Idle, Quick!Nothing, QP!Nothing
  <2>2. Quick!WatchInit => QP!WatchInit
    BY <2>1 DEF Quick!WatchInit, QP!WatchInit
  <2>3. Quick!Day = QP!Day
    BY DEF Quick!Day, QP!Day
  <2> QED BY <2>1, <2>2, <2>3 DEF Init, Quick!Init, QP!Init
<1>3. DP!IngestInv
  BY <1>1, DP!InitInv, DailyAssumptions
<1>4. QP!QuickInv
  BY <1>2, QP!InitInv, QuickAssumptions
<1>5. HeldApart
  BY DEF Init, Daily!Init, Daily!NoRows, HeldApart
<1>6. RelabelInv
  BY ReclassifyAssumption
     DEF Init, ReclassifyInit, NoRows, RelabelInv, ReclassifyTypeOK, ReadOK, RelabelSticks
<1> QED BY <1>1, <1>2, <1>3, <1>4, <1>5, <1>6 DEF RadarInv

(* The keys held stay apart: an INSERT waits for those held by others. *)
LEMMA ApartStep == RadarInv /\ [Next]_vars => HeldApart'
<1> SUFFICES ASSUME RadarInv, [Next]_vars PROVE HeldApart'
  OBVIOUS
<1>1. HeldApart /\ DOMAIN qPending = Session
  BY DEF RadarInv, QP!QuickInv, QP!TypeOK
<1>2. CASE DailyNext
  <2>1. UNCHANGED qPending /\ DOMAIN pending' \cap QuickHeld \subseteq DOMAIN pending
    BY <1>2, DailyDoes DEF quickVars
  <2>2. \A s \in Session : DOMAIN qPending[s] \subseteq QuickHeld
    BY DEF QuickHeld
  <2> QED BY <1>1, <2>1, <2>2 DEF HeldApart
<1>3. CASE QuickNext
  <2>1. /\ UNCHANGED pending
        /\ \A s \in Session : DOMAIN qPending'[s] \cap DOMAIN pending \subseteq DOMAIN qPending[s]
    BY <1>1, <1>3, QuickDoes DEF dailyVars
  <2> QED BY <1>1, <2>1 DEF HeldApart
<1>4. CASE ReclassifyNext \/ Midnights \/ EditWatchlist \/ UNCHANGED vars
  <2>1. UNCHANGED <<pending, qPending>>
    BY <1>4 DEF ReclassifyNext, Midnights, EditWatchlist, Quick!UtcMidnight, Quick!ArgentineMidnight,
                Quick!callVars, vars, dailyVars, quickVars
  <2> QED BY <1>1, <2>1 DEF HeldApart
<1> QED BY <1>2, <1>3, <1>4 DEF Next

(* To each part, every step is one of its own specification. *)
LEMMA PartsStep == RadarInv /\ [Next]_vars => [DP!Next]_DP!vars /\ [QP!Next]_QP!vars
<1> SUFFICES ASSUME RadarInv, [Next]_vars PROVE [DP!Next]_DP!vars /\ [QP!Next]_QP!vars
  OBVIOUS
<1>1. DP!IngestInv /\ QP!QuickInv /\ HeldApart /\ ReclassifyTypeOK /\ IsTable(table)
  BY DailyHolds DEF RadarInv, RelabelInv
<1>2. CASE DailyNext
  BY <1>1, <1>2, DailyIsDaily, DailyIsOther
<1>3. CASE QuickNext
  BY <1>1, <1>3, QuickIsQuick, QuickIsOther
<1>4. CASE ReclassifyNext
  BY <1>1, <1>4, ReclassifyIsOther
<1>5. CASE Midnights \/ EditWatchlist \/ UNCHANGED vars
  BY <1>5, CalendarIsShared
<1> QED BY <1>2, <1>3, <1>4, <1>5 DEF Next

(* The relabelled rows keep their label whoever moves. *)
LEMMA RelabelStep == RadarInv /\ [Next]_vars => RelabelInv'
<1> SUFFICES ASSUME RadarInv, [Next]_vars PROVE RelabelInv'
  OBVIOUS
<1>1. RelabelInv /\ IsTable(table) /\ WatchTypeOK
  <2>1. DP!WatchTypeOK <=> WatchTypeOK
    BY DEF DP!WatchTypeOK, WatchTypeOK
  <2> QED BY <2>1, DailyHolds DEF RadarInv, DP!IngestInv, DP!IngestTyped, DP!TypeOK
<1>t. UNCHANGED table => OnlyAdds
  BY DEF OnlyAdds
<1>2. CASE DailyNext
  <2>1. /\ UNCHANGED <<watch, passVars>>
        /\ UNCHANGED table \/ table' = Over(pending, table)
    BY <1>2, DailyDoes
  <2>2. DOMAIN pending \cap DOMAIN table = {}
    BY DailyHolds DEF RadarInv
  <2> QED BY <1>1, <1>t, <2>1, <2>2, OverAdds, AddingRelabels
<1>3. CASE QuickNext
  <2>1. \A s \in Session : DOMAIN qPending[s] \cap DOMAIN table = {} /\ DOMAIN qPending = Session
    BY QuickHolds DEF RadarInv
  <2>2. DOMAIN qPending = Session
    BY DEF RadarInv, QP!QuickInv, QP!TypeOK
  <2>3. /\ UNCHANGED <<watch, passVars>>
        /\ UNCHANGED table \/ \E s \in Session : table' = Over(qPending[s], table)
    BY <1>3, <2>2, QuickDoes
  <2> QED BY <1>1, <1>t, <2>1, <2>3, OverAdds, AddingRelabels
<1>4. CASE ReclassifyNext
  BY <1>1, <1>4, ReclassifyRelabels DEF ReclassifyNext
<1>5. CASE EditWatchlist
  BY <1>1, <1>5, EditRelabels DEF EditWatchlist
<1>6. CASE Midnights \/ UNCHANGED vars
  <2>1. UNCHANGED <<watch, table, passVars>>
    BY <1>6 DEF Midnights, Quick!UtcMidnight, Quick!ArgentineMidnight, vars
  <2> QED BY <1>1, <1>t, <2>1, AddingRelabels
<1> QED BY <1>2, <1>3, <1>4, <1>5, <1>6 DEF Next

(* The invariant is inductive. *)
LEMMA InvStep == RadarInv /\ [Next]_vars => RadarInv'
<1> SUFFICES ASSUME RadarInv, [Next]_vars PROVE RadarInv'
  OBVIOUS
<1>1. [DP!Next]_DP!vars /\ [QP!Next]_QP!vars
  BY PartsStep
<1>2. DP!IngestInv'
  BY <1>1, DP!InvStep, DailyAssumptions DEF RadarInv
<1>3. QP!QuickInv'
  BY <1>1, QP!InvStep, QuickAssumptions DEF RadarInv
<1> QED BY <1>2, <1>3, ApartStep, RelabelStep DEF RadarInv

(* Among all the writers, the daily run is the one its own specification    *)
(* describes among any others...                                            *)
THEOREM DailyRunsAmongThem == Spec => DP!Spec
  BY InitInv, InvStep, PartsStep, PTL DEF Spec, DP!Spec

(* ...and so is the quick search: what module QuickSearch says of it alone  *)
(* holds beside the daily run and reclassify.                               *)
THEOREM QuickSearchRunsAmongThem == Spec => QP!Spec
  BY InitInv, InvStep, PartsStep, PTL DEF Spec, QP!Spec

(* The types of all the parts. *)
THEOREM RadarIsTyped == Spec => []TypeOK
<1>1. RadarInv => TypeOK
  <2> SUFFICES ASSUME RadarInv PROVE TypeOK
    OBVIOUS
  <2>1. Daily!TypeOK
    BY DEF RadarInv, DP!IngestInv, DP!IngestTyped, DP!TypeOK, Daily!TypeOK,
           DP!WatchTypeOK, Daily!WatchTypeOK, DP!IsTable, Daily!IsTable, DP!Key, Daily!Key,
           DP!Cell, Daily!Cell, DP!Row, Daily!Row, DP!Day, Daily!Day, DP!Phases, Daily!Phases
  <2>2. Quick!TypeOK
    BY DEF RadarInv, QP!QuickInv, QP!TypeOK, Quick!TypeOK,
           QP!WatchTypeOK, Quick!WatchTypeOK, QP!IsTable, Quick!IsTable, QP!Key, Quick!Key,
           QP!Cell, Quick!Cell, QP!Row, Quick!Row, QP!Day, Quick!Day, QP!Inside, Quick!Inside,
           QP!WorkerState, Quick!WorkerState, QP!Reasons, Quick!Reasons
  <2> QED BY <2>1, <2>2 DEF RadarInv, RelabelInv, TypeOK
<1> QED BY <1>1, InitInv, InvStep, PTL DEF Spec

(* What reclassify cleaned stays clean, whatever the daily run or a quick   *)
(* search that began under the old kind still stores: INSERT leaves a       *)
(* stored key alone, label included, and nobody else writes labels.         *)
THEOREM RelabelledRowsStay == Spec => []RelabelSticks
<1>1. RadarInv => RelabelSticks
  BY DEF RadarInv, RelabelInv
<1> QED BY <1>1, InitInv, InvStep, PTL DEF Spec

(* With all its writers at work the table implements the promise of the     *)
(* daily snapshot (module SnapshotStore).                                   *)
THEOREM RadarKeepsSnapshots == Spec => KeepsSnapshots
<1>1. Init => Snapshots!Init
  BY DEF Init, Daily!Init, Daily!NoRows, Snapshots!Init, Snapshots!NoRows
<1>2. RadarInv /\ [Next]_vars => [Snapshots!Next]_table
  <2> SUFFICES ASSUME RadarInv, [Next]_vars PROVE [Snapshots!Next]_table
    OBVIOUS
  <2>1. [DP!Next]_DP!vars
    BY PartsStep
  <2>2. [DP!Snapshots!Next]_table
    BY <2>1, DP!SnapshotStep, DailyAssumptions DEF RadarInv, DP!IngestInv
  <2> QED BY <2>2
          DEF DP!Snapshots!Next, Snapshots!Next, DP!Snapshots!Publish, Snapshots!Publish,
              DP!Snapshots!Relabel, Snapshots!Relabel, DP!Snapshots!SameRows, Snapshots!SameRows,
              DP!Snapshots!IsTable, Snapshots!IsTable, DP!Snapshots!Key, Snapshots!Key,
              DP!Snapshots!Cell, Snapshots!Cell, DP!Snapshots!Day, Snapshots!Day
<1> QED BY <1>1, <1>2, InitInv, InvStep, PTL DEF Spec, KeepsSnapshots, Snapshots!Spec

(* Hence the daily run's own results, among all the writers: a pair's batch *)
(* is stored whole or not at all, the report counts what this run did to    *)
(* the table and nothing of what the others did, and an exit code of 0 is   *)
(* worth what it says.                                                      *)
THEOREM DailyPromisesAmongThem ==
  Spec => [](Daily!PairStoredWhole /\ Daily!ReportMatchesTable /\ Daily!SuccessIsComplete)
<1>1. DP!Spec => []DP!PairStoredWhole
  BY DP!BatchesStoredWhole, DailyAssumptions
<1>2. DP!Spec => []DP!ReportMatchesTable
  BY DP!ReportIsTheTable, DailyAssumptions
<1>3. DP!Spec => []DP!SuccessIsComplete
  BY DP!SuccessMeansComplete, DailyAssumptions
<1>4. DP!PairStoredWhole => Daily!PairStoredWhole
  BY DEF DP!PairStoredWhole, Daily!PairStoredWhole
<1>5. DP!ReportMatchesTable => Daily!ReportMatchesTable
  BY DEF DP!ReportMatchesTable, Daily!ReportMatchesTable, DP!Cardinality, Daily!Cardinality
<1>6. DP!SuccessIsComplete => Daily!SuccessIsComplete
  BY DEF DP!SuccessIsComplete, Daily!SuccessIsComplete, DP!Ok, Daily!Ok, DP!Members, Daily!Members
<1> QED BY <1>1, <1>2, <1>3, <1>4, <1>5, <1>6, DailyRunsAmongThem, PTL

(* And the quick search's: every visit is charged however many processes    *)
(* search, and with one process the cap is hard and a store has one visitor *)
(* at a time.                                                               *)
THEOREM QuickPromisesAmongThem ==
  ASSUME \A s, t \in Session : ProcessOf[s] = ProcessOf[t]
  PROVE  Spec => [](Quick!VisitsAreCharged /\ Quick!CapHolds /\ Quick!OneVisitorPerStore)
<1>s. QP!SingleProcess
  BY DEF QP!SingleProcess
<1>1. QP!Spec => []QP!VisitsAreCharged
  BY QP!VisitsArePaid, QuickAssumptions
<1>2. QP!Spec => []QP!CapHolds
  BY <1>s, QP!CapIsHard, QuickAssumptions
<1>3. QP!Spec => []QP!OneVisitorPerStore
  BY <1>s, QP!OneVisitor, QuickAssumptions
<1>4. QP!VisitsAreCharged => Quick!VisitsAreCharged
  BY DEF QP!VisitsAreCharged, Quick!VisitsAreCharged, QP!Day, Quick!Day
<1>5. QP!CapHolds => Quick!CapHolds
  BY DEF QP!CapHolds, Quick!CapHolds, QP!Day, Quick!Day
<1>6. QP!OneVisitorPerStore => Quick!OneVisitorPerStore
  BY DEF QP!OneVisitorPerStore, Quick!OneVisitorPerStore
<1> QED BY <1>1, <1>2, <1>3, <1>4, <1>5, <1>6, QuickSearchRunsAmongThem, PTL

=============================================================================

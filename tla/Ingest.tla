-------------------------------- MODULE Ingest --------------------------------
(***************************************************************************)
(* The daily ingestion run, ingest.py over storage.py, with the adapters   *)
(* as it sees them.  For every source in turn and every tracked item that  *)
(* was active when the run began: fetch, classify, insert, commit.  A      *)
(* source that fails is rolled back and given up for the rest of the run.  *)
(* The process can be killed at any step (crash, the workflow's timeout)   *)
(* and be run again on the same day.  The watchlist is edited meanwhile,   *)
(* and other writers of the table (quick search, reclassify) commit: the   *)
(* environment of the run, held to what the database guarantees.           *)
(***************************************************************************)
EXTENDS Watchlist, Stores

CONSTANTS
  Registry,      \* the sources of the registry file, in file order
  DailyBlocked,  \* sources flagged cloud_blocked for the daily channel
  Crawled,       \* sources whose adapter crawls a catalog (Tiendanube)
  Elsewhere,     \* what other writers may commit: a set of tables
  MaxRuns        \* runs started (bounds the model)

ASSUME IngestAssumption ==
  /\ Registry \in Seq(Source)
  /\ \A m, n \in DOMAIN Registry : Registry[m] = Registry[n] => m = n
  /\ DailyBlocked \subseteq Source
  /\ Crawled \subseteq Source
  /\ \A new \in Elsewhere :
       IsTable(new) /\ \A j, k \in DOMAIN new : j.item = k.item /\ j.source = k.source
  /\ MaxRuns \in Nat

VARIABLES
  table,     \* listings, as committed
  today,     \* the host's calendar day (date.today())
  runs,      \* runs started so far
  phase,     \* where the run stands
  plan,      \* the sources of the run
  queue,     \* the active items the run loaded when it began
  stores,    \* the sources still to visit, the current one first
  todo,      \* the items still to ask the current source for, the current first
  kind,      \* the current item's kind, as the session loaded it
  began,     \* the day the current fetch began
  crawl,     \* per crawled source: the catalog its adapter keeps for this run
  rows,      \* the classified rows of the current pair...
  sent,      \* ...and how many of them went out in INSERT statements
  pending,   \* rows the open transaction inserted
  report,    \* per source of the run: its SourceReport
  answers,   \* history: per source and item, the keys of the batch it answered
  asks,      \* history: per source, fetches this run asked of it
  mine       \* history: keys this run committed

runVars == <<runs, phase, plan, queue, stores, todo, kind, began, crawl, rows, sent,
             pending, report, answers, asks, mine>>
vars    == <<watch, table, today, runVars>>

Phases == {"idle", "pair", "fetch", "save", "done", "killed"}

-----------------------------------------------------------------------------
(* The records of a run *)

SourceReport == [queried : Nat, fetched : Nat, inserted : Nat, already : Nat,
                 labels : [Label -> Nat], coverage : {"none", "full", "partial"},
                 failure : {"none", "adapter", "unexpected"}]

NewReport == [queried |-> 0, fetched |-> 0, inserted |-> 0, already |-> 0,
              labels |-> [l \in Label |-> 0], coverage |-> "none", failure |-> "none"]

NotCrawled == [done |-> FALSE, exhausted |-> FALSE,
               sells |-> [i \in Item |-> <<>>], stamp |-> NoRows]

(* pages= ... crawl=: only a crawl-based adapter exposes its coverage, and  *)
(* "partial" is what it says once the page budget ran out.                  *)
Coverage(s, adapter) ==
  IF s \notin Crawled THEN "none" ELSE IF adapter.exhausted THEN "partial" ELSE "full"

(* The ascending enumeration of a set of numbers (the only one there is). *)
Ascending(S) ==
  {q \in [1..Cardinality(S) -> S] : \A m, n \in 1..Cardinality(S) : m < n => q[m] < q[n]}

(* Places in the registry of the sources of a run.  Without an explicit     *)
(* request every source runs except the blocked ones; sources asked for by  *)
(* name run blocked or not.                                                 *)
Selected(requested) ==
  {n \in DOMAIN Registry :
     IF requested = {} THEN Registry[n] \notin DailyBlocked ELSE Registry[n] \in requested}

Members(seq) == {seq[n] : n \in DOMAIN seq}

Running == phase \in {"pair", "fetch", "save"}
Store   == Head(stores)
Current == Head(todo)

-----------------------------------------------------------------------------
Init ==
  /\ WatchInit
  /\ table = NoRows
  /\ today = 1
  /\ runs = 0
  /\ phase = "idle"
  /\ plan = {}
  /\ queue = <<>> /\ stores = <<>> /\ todo = <<>>
  /\ kind = DefaultKind
  /\ began = 1
  /\ crawl = [s \in Source |-> NotCrawled]
  /\ rows = <<>> /\ sent = 0
  /\ pending = NoRows
  /\ report = [s \in Source |-> NewReport]
  /\ answers = [s \in Source |-> [i \in Item |-> {}]]
  /\ asks = [s \in Source |-> 0]
  /\ mine = {}

(* main and the head of run_ingestion: an unknown slug aborts; fresh         *)
(* adapters, the active items in id order.  Without items, or without a     *)
(* source to run, nothing is left to do.  The first item's columns come     *)
(* from that same SELECT.                                                   *)
StartRun(requested) ==
  /\ ~Running
  /\ requested \subseteq Members(Registry)
  /\ runs < MaxRuns
  /\ runs' = runs + 1
  /\ \E items \in Ascending(Active), places \in Ascending(Selected(requested)) :
       /\ queue' = items
       /\ todo' = items
       /\ stores' = [n \in DOMAIN places |-> Registry[places[n]]]
       /\ plan' = Members(stores')
       /\ IF items = <<>> \/ places = <<>>
          THEN /\ phase' = "done"
               /\ kind' = kind
               /\ asks' = [s \in Source |-> 0]
          ELSE /\ phase' = "fetch"
               /\ kind' = watch[Head(items)].kind
               /\ asks' = [s \in Source |-> IF s = Registry[Head(places)] THEN 1 ELSE 0]
  /\ began' = today
  /\ crawl' = [s \in Source |-> NotCrawled]
  /\ rows' = <<>> /\ sent' = 0
  /\ pending' = NoRows
  /\ report' = [s \in Source |-> NewReport]
  /\ answers' = [s \in Source |-> [i \in Item |-> {}]]
  /\ mine' = {}
  /\ UNCHANGED <<watch, table, today>>

(* The next pair: the last commit or rollback expired the loaded items, so  *)
(* reading item.query re-reads the row, kind included, before the fetch.    *)
BeginFetch ==
  /\ phase = "pair"
  /\ phase' = "fetch"
  /\ kind' = watch[Current].kind
  /\ began' = today
  /\ asks' = [asks EXCEPT ![Store] = @ + 1]
  /\ UNCHANGED <<watch, table, today, runs, plan, queue, stores, todo, crawl, rows,
                 sent, pending, report, answers, mine>>

(* The listings in hand are classified under the kind loaded before the     *)
(* fetch.                                                                   *)
Received(sells, stamp) ==
  /\ phase' = "save"
  /\ rows' = Classified(Current, Store, kind, sells, stamp)
  /\ answers' = [answers EXCEPT ![Store][Current] = KeysOf(rows')]
  /\ UNCHANGED <<watch, table, today, runs, plan, queue, stores, todo, kind, began,
                 sent, pending, report, asks, mine>>

(* A search-based source answers the query; listings are dated as parsed.   *)
SearchAnswers ==
  /\ phase = "fetch"
  /\ Store \notin Crawled
  /\ \E sells \in Offers[Store] : \E stamp \in Stamps(sells, began, today) :
       Received(sells, stamp)
  /\ UNCHANGED crawl

(* Mutant: the adapter does not keep the catalog it crawled. *)
CrawlAnswers_NotKept ==
  /\ phase = "fetch"
  /\ Store \in Crawled
  /\ \E sells \in Offers[Store] : \E stamp \in Stamps(sells, began, today) :
       Received(sells, stamp)
  /\ UNCHANGED crawl

(* The first fetch of a catalog source crawls the whole shop, up to its     *)
(* page budget...                                                           *)
CrawlAnswers ==
  /\ phase = "fetch"
  /\ Store \in Crawled
  /\ ~crawl[Store].done
  /\ \E sells \in Offers[Store], exhausted \in BOOLEAN : \E stamp \in Stamps(sells, began, today) :
       /\ crawl' = [crawl EXCEPT ![Store] =
            [done |-> TRUE, exhausted |-> exhausted, sells |-> sells, stamp |-> stamp]]
       /\ Received(sells, stamp)

(* ...and later items are answered from the catalog it kept. *)
CatalogAnswers ==
  /\ phase = "fetch"
  /\ Store \in Crawled
  /\ crawl[Store].done
  /\ Received(crawl[Store].sells, crawl[Store].stamp)
  /\ UNCHANGED crawl

-----------------------------------------------------------------------------
(* The transaction of one pair *)

(* One INSERT. held: keys that other open transactions inserted, on which   *)
(* the database would make this statement wait.                             *)
SaveChunk(held) ==
  /\ phase = "save"
  /\ sent < Len(rows)
  /\ KeysOf(Chunk(rows, sent)) \cap held = {}
  /\ pending' = InsertRows(table, pending, Chunk(rows, sent))
  /\ sent' = sent + Len(Chunk(rows, sent))
  /\ UNCHANGED <<watch, table, today, runs, phase, plan, queue, stores, todo, kind, began,
                 crawl, rows, report, answers, asks, mine>>

(* On to the next source, with every item of the run before it. *)
NextStore ==
  /\ stores' = Tail(stores)
  /\ todo' = queue
  /\ phase' = IF Len(stores) = 1 THEN "done" ELSE "pair"

NextPair ==
  IF Len(todo) = 1 THEN NextStore
  ELSE todo' = Tail(todo) /\ phase' = "pair" /\ UNCHANGED stores

(* Mutant: the count of sent rows outlives the transaction. *)
EndTransaction_SentKept == rows' = <<>> /\ pending' = NoRows /\ UNCHANGED sent

EndTransaction == rows' = <<>> /\ sent' = 0 /\ pending' = NoRows

(* Mutant: counts the rows sent instead of the rows RETURNING yielded. *)
Counted_RowsSent(r) ==
  [r EXCEPT !.queried  = @ + 1,
            !.fetched  = @ + Len(rows),
            !.inserted = @ + Len(rows)]

(* What the source's counters become once the pair is committed. *)
Counted(r) ==
  [r EXCEPT !.queried  = @ + 1,
            !.fetched  = @ + Len(rows),
            !.inserted = @ + Cardinality(DOMAIN pending),
            !.already  = @ + (Len(rows) - Cardinality(DOMAIN pending)),
            !.labels   = [l \in Label |->
                            @[l] + Cardinality({n \in DOMAIN rows : rows[n].cell.label = l})],
            !.coverage = Coverage(Store, crawl[Store])]

Committed ==
  /\ table' = Over(pending, table)
  /\ mine' = mine \cup DOMAIN pending

Commit ==
  /\ phase = "save"
  /\ sent = Len(rows)
  /\ Committed
  /\ report' = [report EXCEPT ![Store] = Counted(@)]
  /\ NextPair
  /\ EndTransaction
  /\ UNCHANGED <<watch, today, runs, plan, queue, kind, began, crawl, answers, asks>>

(* Mutants: the failure is not recorded; the transaction is not rolled      *)
(* back; the source is asked for the next item all the same.                *)
Abandon_NotRecorded(failure) ==
  /\ report' = [report EXCEPT ![Store].coverage = Coverage(Store, crawl[Store])]
  /\ NextStore
  /\ EndTransaction
  /\ UNCHANGED <<watch, today, runs, plan, queue, kind, began, crawl, answers, asks>>

Abandon_NoRollback(failure) ==
  /\ report' = [report EXCEPT ![Store].failure = failure]
  /\ NextStore
  /\ rows' = <<>> /\ sent' = 0 /\ UNCHANGED pending
  /\ UNCHANGED <<watch, today, runs, plan, queue, kind, began, crawl, answers, asks>>

Abandon_Continue(failure) ==
  /\ report' = [report EXCEPT ![Store].failure = failure]
  /\ NextPair
  /\ EndTransaction
  /\ UNCHANGED <<watch, today, runs, plan, queue, kind, began, crawl, answers, asks>>

(* A failure of any kind: roll back, note it with the crawl's coverage, and *)
(* give the source up.                                                      *)
Abandon(failure) ==
  /\ report' = [report EXCEPT ![Store].failure  = failure,
                              ![Store].coverage = Coverage(Store, crawl[Store])]
  /\ NextStore
  /\ EndTransaction
  /\ UNCHANGED <<watch, today, runs, plan, queue, kind, began, crawl, answers, asks>>

FetchFails ==
  /\ phase = "fetch"
  /\ ~crawl[Store].done
  /\ \E failure \in {"adapter", "unexpected"} : Abandon(failure)
  /\ UNCHANGED <<table, mine>>

(* The database fails: re-reading the item, in an INSERT, or at COMMIT. *)
DatabaseFails ==
  /\ phase \in {"pair", "save"}
  /\ Abandon("unexpected")
  /\ UNCHANGED <<table, mine>>

(* The server committed, but the answer to COMMIT never arrived. *)
CommitAnswerLost ==
  /\ phase = "save"
  /\ sent = Len(rows)
  /\ Committed
  /\ Abandon("unexpected")

(* The process dies; everything it held in memory dies with it, and the     *)
(* database rolls its open transaction back.                                *)
Kill ==
  /\ Running
  /\ phase' = "killed"
  /\ plan' = {}
  /\ queue' = <<>> /\ stores' = <<>> /\ todo' = <<>>
  /\ kind' = DefaultKind
  /\ began' = 1
  /\ crawl' = [s \in Source |-> NotCrawled]
  /\ EndTransaction
  /\ report' = [s \in Source |-> NewReport]
  /\ answers' = [s \in Source |-> [i \in Item |-> {}]]
  /\ asks' = [s \in Source |-> 0]
  /\ mine' = {}
  /\ UNCHANGED <<watch, table, today, runs>>

Midnight ==
  /\ today < LastDay
  /\ today' = today + 1
  /\ UNCHANGED <<watch, table, runVars>>

-----------------------------------------------------------------------------
Step(held) ==
  \/ BeginFetch \/ SearchAnswers \/ CrawlAnswers \/ CatalogAnswers
  \/ SaveChunk(held) \/ Commit
  \/ FetchFails \/ DatabaseFails \/ CommitAnswerLost

(* A command of the tracked CLI or the admin page. *)
EditWatchlist == Edit /\ UNCHANGED <<table, today, runVars>>

(* Another writer commits: rows whose keys are not in the table nor locked  *)
(* by this run's open transaction, or rewritten labels.                     *)
OtherWriter ==
  /\ \/ \E new \in Elsewhere :
          /\ DOMAIN new \cap (DOMAIN table \cup DOMAIN pending) = {}
          /\ table' = Over(table, new)
     \/ table' \in Relabelled(table)
  /\ UNCHANGED <<watch, today, runVars>>

Next ==
  \/ \E requested \in SUBSET Source : StartRun(requested)
  \/ Step({})
  \/ Kill
  \/ Midnight
  \/ EditWatchlist
  \/ OtherWriter

Spec == Init /\ [][Next]_vars

(* A run that is not killed goes on: every fetch ends (the HTTP client      *)
(* bounds attempts and time) and the database answers.                      *)
Answered == SearchAnswers \/ CrawlAnswers \/ CatalogAnswers \/ FetchFails

Fairness ==
  /\ WF_vars(BeginFetch) /\ WF_vars(Answered)
  /\ WF_vars(SaveChunk({})) /\ WF_vars(Commit)

FairSpec == Spec /\ Fairness

-----------------------------------------------------------------------------
TypeOK ==
  /\ WatchTypeOK
  /\ IsTable(table)
  /\ today \in Day
  /\ runs \in 0..MaxRuns
  /\ phase \in Phases
  /\ plan \subseteq Source
  /\ queue \in Seq(Item) /\ stores \in Seq(Source) /\ todo \in Seq(Item)
  /\ kind \in Kind
  /\ began \in Day
  /\ rows \in Seq(Row)
  /\ sent \in 0..Len(rows)
  /\ IsTable(pending)
  /\ DOMAIN report = Source
  /\ answers \in [Source -> [Item -> SUBSET Key]]
  /\ asks \in [Source -> Nat]
  /\ mine \subseteq Key

-----------------------------------------------------------------------------
(* Properties *)

(* RunReport.ok, the exit code of the process. *)
Ok == queue = <<>> \/ \E s \in plan : report[s].failure = "none"

(* An exit code of 0 is worth something: some source answered for every    *)
(* item the run began with, and everything it answered is in the table.    *)
(* (ingest.py's docstring: "at least one attempted source succeeded")      *)
SuccessIsComplete ==
  phase = "done" /\ Ok /\ queue # <<>> =>
    \E s \in plan :
      /\ report[s].queried = Len(queue)
      /\ \A i \in Members(queue) : answers[s][i] \subseteq DOMAIN table

(* The report counts what happened to the table: of the listings counted,  *)
(* exactly those inserted are rows this run committed.  Only a lost answer *)
(* to COMMIT makes it say less than was stored, and then the source is     *)
(* reported as failed.                                                     *)
ReportMatchesTable ==
  \A s \in Source :
    LET r      == report[s]
        stored == Cardinality({k \in mine : k.source = s})
    IN  /\ r.inserted + r.already = r.fetched
        /\ r.inserted <= stored
        /\ r.failure # "unexpected" => r.inserted = stored

(* A pair's batch is stored whole or not at all, whatever fails between    *)
(* its INSERTs and whatever is committed after a failure.                  *)
PairStoredWhole ==
  \A s \in Source, i \in Item :
    (\E k \in mine : k.source = s /\ k.item = i) => answers[s][i] \subseteq DOMAIN table

(* Every item a run prices at a crawl-based source is priced from one and  *)
(* the same crawl: a product never carries two prices or two days in it.   *)
OneCrawlPerRun ==
  \A j, k \in mine :
    /\ j.source = k.source /\ j.source \in Crawled
    /\ j.ext = k.ext
    => j.day = k.day /\ table[j].price = table[k].price

(* Courtesy: within a run, a source that failed is not asked again.        *)
FailedSourceLeftAlone ==
  [][\A s \in Source :
       report[s].failure # "none" => asks'[s] <= asks[s] \/ runs' # runs]_vars

(* A run ends: every source is done or given up. *)
RunEnds == Running ~> ~Running

(* "crawl=full means the whole catalog was crawled" (README): the sources    *)
(* reported so did finish their crawl.                                       *)
FullMeansWhole == \A s \in Crawled : report[s].coverage = "full" => crawl[s].done

(* The table keeps the promise of the daily snapshot: whoever else writes it *)
(* and however the run ends, a stored price is never changed and a commit    *)
(* adds the rows of one item at one source.                                  *)
Snapshots == INSTANCE SnapshotStore
KeepsSnapshots == Snapshots!Spec

=============================================================================

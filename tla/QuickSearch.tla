----------------------------- MODULE QuickSearch -----------------------------
(***************************************************************************)
(* The on-demand search, dashboard/quicksearch.py: one tracked item,       *)
(* every search-capable store at once, a worker thread per store and all   *)
(* database work on the caller's thread.  Its rules: one search at a time  *)
(* per process (a module lock), DAILY_CAP searches per Argentine day       *)
(* (counted in the database, which every process shares).  The app runs    *)
(* many browser sessions in one process; the command line is another.      *)
(***************************************************************************)
EXTENDS Watchlist, Stores

CONSTANTS
  Session,     \* callers: browser sessions of the app, command-line calls
  Process,     \* the processes they run in
  ProcessOf,   \* which session runs in which
  Searchable,  \* stores searched: a searchable platform, not blocked for quick
  Watching,    \* sessions that pass a progress callback (the app's, not the CLI's)
  NoStore,     \* no store in hand
  DAILY_CAP,
  Elsewhere    \* what other writers (the daily run) may commit: a set of tables

ASSUME QuickSearchAssumption ==
  /\ IsFiniteSet(Session)
  /\ ProcessOf \in [Session -> Process]
  /\ Searchable \subseteq Source
  /\ Watching \subseteq Session
  /\ NoStore \notin Source
  /\ DAILY_CAP \in Nat \ {0}
  /\ \A new \in Elsewhere :
       IsTable(new) /\ \A j, k \in DOMAIN new : j.item = k.item /\ j.source = k.source

VARIABLES
  table,     \* listings, as committed
  ran,       \* quick_search_runs: how many rows each ran_on day has
  today,     \* the host's calendar day, UTC (date.today() in the adapters)
  arToday,   \* the Argentine calendar day (argentina_today())
  lock,      \* per process: _RUN_LOCK is taken
  pc,        \* per session: where its call stands
  item,      \* per session: the item searched
  kind,      \* per session: the item's kind, as the workers were given it
  began,     \* per session: the host's day when the workers started
  charged,   \* per session: the ran_on of the run it recorded
  worker,    \* per session and store: what the worker thread is at
  found,     \* per session and store: the classified rows of its answer
  taken,     \* per session: the store whose rows are being saved
  sent,      \* per session: how many of them went out
  pending,   \* per session: rows its open transaction inserted
  leaving,   \* per session: why it is leaving early, if it is
  visits     \* history: searches that visited stores, by the day charged

callVars == <<lock, pc, item, kind, began, charged, worker, found, taken, sent,
              pending, leaving>>
vars     == <<watch, table, ran, today, arToday, callVars, visits>>

(* Places of a call that hold the lock. *)
Inside == {"check", "build", "record", "launch", "search", "save", "drain"}

(* "idle" worker: not started.  A finished future is "answered" or "failed" *)
(* until the caller's thread takes it.                                      *)
WorkerState == {"idle", "fetching", "answered", "failed", "stored", "reported"}

Reasons == {"none", "error", "interrupted"}

AnyItem == CHOOSE i \in Item : TRUE
Idle    == [src \in Searchable |-> "idle"]
Nothing == [src \in Searchable |-> <<>>]

-----------------------------------------------------------------------------
Init ==
  /\ WatchInit
  /\ table = NoRows
  /\ ran = [d \in Day |-> 0]
  /\ today = 1 /\ arToday = 1
  /\ lock = [p \in Process |-> FALSE]
  /\ pc = [s \in Session |-> "idle"]
  /\ item = [s \in Session |-> AnyItem]
  /\ kind = [s \in Session |-> DefaultKind]
  /\ began = [s \in Session |-> 1]
  /\ charged = [s \in Session |-> 1]
  /\ worker = [s \in Session |-> Idle]
  /\ found = [s \in Session |-> Nothing]
  /\ taken = [s \in Session |-> NoStore]
  /\ sent = [s \in Session |-> 0]
  /\ pending = [s \in Session |-> NoRows]
  /\ leaving = [s \in Session |-> "none"]
  /\ visits = [d \in Day |-> 0]

-----------------------------------------------------------------------------
(* Mutant: a way out that does not release the lock. *)
Leave_Locked(s) ==
  /\ UNCHANGED lock
  /\ pc' = [pc EXCEPT ![s] = "idle"]
  /\ leaving' = [leaving EXCEPT ![s] = "none"]
  /\ item' = [item EXCEPT ![s] = AnyItem]
  /\ kind' = [kind EXCEPT ![s] = DefaultKind]
  /\ began' = [began EXCEPT ![s] = 1]
  /\ charged' = [charged EXCEPT ![s] = 1]
  /\ worker' = [worker EXCEPT ![s] = Idle]
  /\ found' = [found EXCEPT ![s] = Nothing]
  /\ taken' = [taken EXCEPT ![s] = NoStore]
  /\ sent' = [sent EXCEPT ![s] = 0]
  /\ pending' = [pending EXCEPT ![s] = NoRows]

(* Leaving quick_search, by return or by exception: the finally releases    *)
(* the lock, and what the call held is gone.                                *)
Leave(s) ==
  /\ lock' = [lock EXCEPT ![ProcessOf[s]] = FALSE]
  /\ pc' = [pc EXCEPT ![s] = "idle"]
  /\ leaving' = [leaving EXCEPT ![s] = "none"]
  /\ item' = [item EXCEPT ![s] = AnyItem]
  /\ kind' = [kind EXCEPT ![s] = DefaultKind]
  /\ began' = [began EXCEPT ![s] = 1]
  /\ charged' = [charged EXCEPT ![s] = 1]
  /\ worker' = [worker EXCEPT ![s] = Idle]
  /\ found' = [found EXCEPT ![s] = Nothing]
  /\ taken' = [taken EXCEPT ![s] = NoStore]
  /\ sent' = [sent EXCEPT ![s] = 0]
  /\ pending' = [pending EXCEPT ![s] = NoRows]

GoTo(s, place) == pc' = [pc EXCEPT ![s] = place]

Unmoved == UNCHANGED <<watch, today, arToday>>

(* The button of the admin page, or the command line.  While the lock is    *)
(* taken the call only raises QuickSearchBusy.                              *)
Call(s, i) ==
  /\ pc[s] = "idle"
  /\ i \in Listed
  /\ ~lock[ProcessOf[s]]
  /\ lock' = [lock EXCEPT ![ProcessOf[s]] = TRUE]
  /\ GoTo(s, "check")
  /\ item' = [item EXCEPT ![s] = i]
  /\ UNCHANGED <<table, ran, kind, began, charged, worker, found, taken, sent, pending,
                 leaving, visits>>
  /\ Unmoved

(* Mutant: off by one at the cap. *)
CheckCap_OffByOne(s) ==
  /\ pc[s] = "check"
  /\ ran[arToday] <= DAILY_CAP
  /\ GoTo(s, "build")
  /\ UNCHANGED <<table, ran, lock, item, kind, began, charged, worker, found, taken, sent,
                 pending, leaving, visits>>
  /\ Unmoved

(* runs_today against the cap. *)
CheckCap(s) ==
  /\ pc[s] = "check"
  /\ IF ran[arToday] >= DAILY_CAP
     THEN Leave(s)
     ELSE /\ GoTo(s, "build")
          /\ UNCHANGED <<lock, item, kind, began, charged, worker, found, taken, sent,
                         pending, leaving>>
  /\ UNCHANGED <<table, ran, visits>>
  /\ Unmoved

(* The adapters are built before anything is recorded... *)
Build(s) ==
  /\ pc[s] = "build"
  /\ \/ /\ GoTo(s, "record")
        /\ UNCHANGED <<lock, item, kind, began, charged, worker, found, taken, sent,
                       pending, leaving>>
     \/ Leave(s)
  /\ UNCHANGED <<table, ran, visits>>
  /\ Unmoved

(* Mutant: the run is added to the session but not committed before the visit. *)
Record_NotCommitted(s) ==
  /\ pc[s] = "record"
  /\ charged' = [charged EXCEPT ![s] = arToday]
  /\ GoTo(s, "launch")
  /\ UNCHANGED <<table, ran, lock, item, kind, began, worker, found, taken, sent, pending,
                 leaving, visits>>
  /\ Unmoved

(* ...and the run is recorded before any store is visited. *)
Record(s) ==
  /\ pc[s] = "record"
  /\ ran' = [ran EXCEPT ![arToday] = @ + 1]
  /\ charged' = [charged EXCEPT ![s] = arToday]
  /\ GoTo(s, "launch")
  /\ UNCHANGED <<table, lock, item, kind, began, worker, found, taken, sent, pending,
                 leaving, visits>>
  /\ Unmoved

(* The server recorded the run, but the answer to COMMIT never arrived. *)
RecordAnswerLost(s) ==
  /\ pc[s] = "record"
  /\ ran' = [ran EXCEPT ![arToday] = @ + 1]
  /\ Leave(s)
  /\ UNCHANGED <<table, visits>>
  /\ Unmoved

(* The commit expired the item: its query and kind are read again, and a    *)
(* worker thread starts at every store.                                     *)
Launch(s) ==
  /\ pc[s] = "launch"
  /\ GoTo(s, "search")
  /\ worker' = [worker EXCEPT ![s] = [src \in Searchable |-> "fetching"]]
  /\ kind' = [kind EXCEPT ![s] = watch[item[s]].kind]
  /\ began' = [began EXCEPT ![s] = today]
  /\ visits' = [visits EXCEPT ![charged[s]] = @ + 1]
  /\ UNCHANGED <<table, ran, lock, item, charged, found, taken, sent, pending, leaving>>
  /\ Unmoved

(* A database error before the stores are visited. *)
FailsEarly(s) ==
  /\ pc[s] \in {"check", "record", "launch"}
  /\ Leave(s)
  /\ UNCHANGED <<table, ran, visits>>
  /\ Unmoved

-----------------------------------------------------------------------------
(* The worker threads: fetch and classify, errors returned as values. *)
Answer(s, src) ==
  /\ worker[s][src] = "fetching"
  /\ \E sells \in Offers[src] : \E stamp \in Stamps(sells, began[s], today) :
       found' = [found EXCEPT ![s][src] = Classified(item[s], src, kind[s], sells, stamp)]
  /\ worker' = [worker EXCEPT ![s][src] = "answered"]
  /\ UNCHANGED <<table, ran, lock, pc, item, kind, began, charged, taken, sent, pending,
                 leaving, visits>>
  /\ Unmoved

FetchFails(s, src) ==
  /\ worker[s][src] = "fetching"
  /\ worker' = [worker EXCEPT ![s][src] = "failed"]
  /\ UNCHANGED <<table, ran, lock, pc, item, kind, began, charged, found, taken, sent,
                 pending, leaving, visits>>
  /\ Unmoved

-----------------------------------------------------------------------------
(* The caller's thread takes finished fetches in the order they finish.     *)
(* After each one it calls progress, where Streamlit may interrupt the      *)
(* script of a session whose user moved on.                                 *)
Progressed(s) ==
  \/ GoTo(s, "search") /\ UNCHANGED leaving
  \/ /\ s \in Watching
     /\ GoTo(s, "drain")
     /\ leaving' = [leaving EXCEPT ![s] = "interrupted"]

(* A failed fetch: the session is rolled back, the failure reported. *)
TakeFailed(s, src) ==
  /\ pc[s] = "search"
  /\ worker[s][src] = "failed"
  /\ pending' = [pending EXCEPT ![s] = NoRows]
  /\ worker' = [worker EXCEPT ![s][src] = "reported"]
  /\ Progressed(s)
  /\ UNCHANGED <<table, ran, lock, item, kind, began, charged, found, taken, sent, visits>>
  /\ Unmoved

(* An answer: its rows are saved... *)
TakeAnswered(s, src) ==
  /\ pc[s] = "search"
  /\ worker[s][src] = "answered"
  /\ GoTo(s, "save")
  /\ taken' = [taken EXCEPT ![s] = src]
  /\ UNCHANGED <<table, ran, lock, item, kind, began, charged, worker, found, sent, pending,
                 leaving, visits>>
  /\ Unmoved

InHand(s) == found[s][taken[s]]

(* ...statement by statement (held: keys other transactions inserted)...    *)
SaveChunk(s, held) ==
  /\ pc[s] = "save"
  /\ sent[s] < Len(InHand(s))
  /\ KeysOf(Chunk(InHand(s), sent[s])) \cap held = {}
  /\ pending' = [pending EXCEPT ![s] = InsertRows(table, @, Chunk(InHand(s), sent[s]))]
  /\ sent' = [sent EXCEPT ![s] = @ + Len(Chunk(InHand(s), sent[s]))]
  /\ UNCHANGED <<table, ran, lock, pc, item, kind, began, charged, worker, found, taken,
                 leaving, visits>>
  /\ Unmoved

(* Mutant: the store just saved stays in hand. *)
EndTransaction_InHand(s) ==
  /\ UNCHANGED taken
  /\ sent' = [sent EXCEPT ![s] = 0]
  /\ pending' = [pending EXCEPT ![s] = NoRows]

EndTransaction(s) ==
  /\ taken' = [taken EXCEPT ![s] = NoStore]
  /\ sent' = [sent EXCEPT ![s] = 0]
  /\ pending' = [pending EXCEPT ![s] = NoRows]

(* Mutant: the commit is left to the next store's. *)
Commit_Late(s) ==
  /\ pc[s] = "save"
  /\ sent[s] = Len(InHand(s))
  /\ worker' = [worker EXCEPT ![s][taken[s]] = "stored"]
  /\ taken' = [taken EXCEPT ![s] = NoStore]
  /\ sent' = [sent EXCEPT ![s] = 0]
  /\ Progressed(s)
  /\ UNCHANGED <<table, ran, lock, item, kind, began, charged, found, pending, visits>>
  /\ Unmoved

(* ...and committed before the next store's are. *)
Commit(s) ==
  /\ pc[s] = "save"
  /\ sent[s] = Len(InHand(s))
  /\ table' = Over(pending[s], table)
  /\ worker' = [worker EXCEPT ![s][taken[s]] = "stored"]
  /\ EndTransaction(s)
  /\ Progressed(s)
  /\ UNCHANGED <<ran, lock, item, kind, began, charged, found, visits>>
  /\ Unmoved

(* A database error while saving is not caught in the loop: the exception   *)
(* leaves it, and the pool waits for the workers on the way out.  The       *)
(* server may have committed all the same.                                  *)
SaveFails(s) ==
  /\ pc[s] = "save"
  /\ \/ UNCHANGED table
     \/ sent[s] = Len(InHand(s)) /\ table' = Over(pending[s], table)
  /\ worker' = [worker EXCEPT ![s][taken[s]] = "reported"]
  /\ EndTransaction(s)
  /\ GoTo(s, "drain")
  /\ leaving' = [leaving EXCEPT ![s] = "error"]
  /\ UNCHANGED <<ran, lock, item, kind, began, charged, found, visits>>
  /\ Unmoved

Fetching(s) == \E src \in Searchable : worker[s][src] = "fetching"

(* Mutant: the pool is shut down without waiting for its workers. *)
Drained_NoWait(s) ==
  /\ pc[s] = "drain"
  /\ pc' = [pc EXCEPT ![s] = "idle"]
  /\ lock' = [lock EXCEPT ![ProcessOf[s]] = FALSE]
  /\ leaving' = [leaving EXCEPT ![s] = "none"]
  /\ UNCHANGED <<table, ran, item, kind, began, charged, worker, found, taken, sent,
                 pending, visits>>
  /\ Unmoved

Drained(s) ==
  /\ pc[s] = "drain"
  /\ ~Fetching(s)
  /\ Leave(s)
  /\ UNCHANGED <<table, ran, visits>>
  /\ Unmoved

(* Every store is reported: the report is returned. *)
Return(s) ==
  /\ pc[s] = "search"
  /\ \A src \in Searchable : worker[s][src] \in {"stored", "reported"}
  /\ Leave(s)
  /\ UNCHANGED <<table, ran, visits>>
  /\ Unmoved

-----------------------------------------------------------------------------
(* The process dies (a redeploy, a reboot): its calls and its lock go with  *)
(* it, what is committed stays.                                             *)
Lost(f, p, v) == [s \in Session |-> IF ProcessOf[s] = p THEN v ELSE f[s]]

Kill(p) ==
  /\ \E s \in Session : ProcessOf[s] = p /\ pc[s] # "idle"
  /\ lock' = [lock EXCEPT ![p] = FALSE]
  /\ pc' = Lost(pc, p, "idle")
  /\ item' = Lost(item, p, AnyItem)
  /\ kind' = Lost(kind, p, DefaultKind)
  /\ began' = Lost(began, p, 1)
  /\ charged' = Lost(charged, p, 1)
  /\ worker' = Lost(worker, p, Idle)
  /\ found' = Lost(found, p, Nothing)
  /\ taken' = Lost(taken, p, NoStore)
  /\ sent' = Lost(sent, p, 0)
  /\ pending' = Lost(pending, p, NoRows)
  /\ leaving' = Lost(leaving, p, "none")
  /\ UNCHANGED <<table, ran, visits>>
  /\ Unmoved

(* Midnight in UTC comes at nine in the evening in Argentina, and then       *)
(* midnight in Argentina.                                                    *)
UtcMidnight ==
  /\ arToday = today
  /\ today < LastDay
  /\ today' = today + 1
  /\ UNCHANGED <<watch, table, ran, arToday, callVars, visits>>

ArgentineMidnight ==
  /\ arToday < today
  /\ arToday' = arToday + 1
  /\ UNCHANGED <<watch, table, ran, today, callVars, visits>>

(* A command of the tracked CLI or the admin page. *)
EditWatchlist == Edit /\ UNCHANGED <<table, ran, today, arToday, callVars, visits>>

(* Another writer commits: rows whose keys are not in the table nor locked  *)
(* by the open transaction of a call, or rewritten labels.                  *)
OtherWriter ==
  /\ \/ \E new \in Elsewhere :
          /\ DOMAIN new \cap DOMAIN table = {}
          /\ \A s \in Session : DOMAIN new \cap DOMAIN pending[s] = {}
          /\ table' = Over(table, new)
     \/ table' \in Relabelled(table)
  /\ UNCHANGED <<watch, ran, today, arToday, callVars, visits>>

-----------------------------------------------------------------------------
Held(s) == UNION {DOMAIN pending[t] : t \in Session \ {s}}

Worker(s, src) == Answer(s, src) \/ FetchFails(s, src)

(* What a call does when nothing goes wrong. *)
Advance(s, held) ==
  \/ CheckCap(s) \/ Build(s) \/ Record(s) \/ Launch(s)
  \/ \E src \in Searchable : TakeFailed(s, src) \/ TakeAnswered(s, src)
  \/ SaveChunk(s, held) \/ Commit(s)
  \/ Drained(s) \/ Return(s)

Breaks(s) == RecordAnswerLost(s) \/ FailsEarly(s) \/ SaveFails(s)

Next ==
  \/ \E s \in Session, i \in Item : Call(s, i)
  \/ \E s \in Session : Advance(s, Held(s)) \/ Breaks(s)
  \/ \E s \in Session, src \in Searchable : Worker(s, src)
  \/ \E p \in Process : Kill(p)
  \/ UtcMidnight \/ ArgentineMidnight
  \/ EditWatchlist
  \/ OtherWriter

Spec == Init /\ [][Next]_vars

(* A call goes on as long as one of its threads can: every fetch ends (the  *)
(* HTTP client bounds attempts and time) and the database answers.          *)
Goes(s) == Advance(s, Held(s)) \/ \E src \in Searchable : Worker(s, src)

FairSpec == Spec /\ \A s \in Session : WF_vars(Goes(s))

-----------------------------------------------------------------------------
TypeOK ==
  /\ WatchTypeOK
  /\ IsTable(table)
  /\ ran \in [Day -> Nat]
  /\ today \in Day /\ arToday \in Day /\ arToday \in {today - 1, today}
  /\ lock \in [Process -> BOOLEAN]
  /\ pc \in [Session -> Inside \cup {"idle"}]
  /\ item \in [Session -> Item]
  /\ kind \in [Session -> Kind]
  /\ began \in [Session -> Day] /\ charged \in [Session -> Day]
  /\ worker \in [Session -> [Searchable -> WorkerState]]
  /\ found \in [Session -> [Searchable -> Seq(Row)]]
  /\ taken \in [Session -> Searchable \cup {NoStore}]
  /\ \A s \in Session : pc[s] = "save" <=> taken[s] # NoStore
  /\ sent \in [Session -> Nat]
  /\ DOMAIN pending = Session /\ \A s \in Session : IsTable(pending[s])
  /\ leaving \in [Session -> Reasons]
  /\ visits \in [Day -> Nat]

(* DAILY_CAP is hard: however calls interleave, fail and are killed, and     *)
(* wherever midnight falls, no Argentine day has more recorded runs.         *)
CapHolds == \A d \in Day : ran[d] <= DAILY_CAP

(* The stores see no more than that: every search that visited stores was    *)
(* recorded beforehand, on the day it was counted against.                   *)
VisitsAreCharged == \A d \in Day : visits[d] <= ran[d]

(* A store is visited by one worker at a time: the lock is not released      *)
(* while a worker of the call is still fetching, on any way out.             *)
OneVisitorPerStore ==
  \A src \in Searchable, s, t \in Session :
    worker[s][src] = "fetching" /\ worker[t][src] = "fetching" => s = t

(* A report that comes back accounts for every searchable store, and what    *)
(* it says was stored is in the table: a later store's failure takes         *)
(* nothing of it away.                                                       *)
ReportIsTrue ==
  [][\A s \in Session, src \in Searchable :
       Return(s) =>
         /\ worker[s][src] \in {"stored", "reported"}
         /\ worker[s][src] = "stored" => KeysOf(found[s][src]) \subseteq DOMAIN table]_vars

(* The lock always comes free again, however the call that took it ends.     *)
LockComesFree == \A p \in Process : lock[p] ~> ~lock[p]

(* Quick search failures for one store never abort the others; partial       *)
(* results are stored (the dashboard's design document): a call that ends    *)
(* with an error leaves no answer of a store unsaved.                        *)
OtherStoresSurvive ==
  [][\A s \in Session, src \in Searchable :
       Drained(s) /\ leaving[s] = "error" =>
         worker[s][src] # "answered"]_vars

=============================================================================

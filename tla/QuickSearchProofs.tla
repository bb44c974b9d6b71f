-------------------------- MODULE QuickSearchProofs --------------------------
(***************************************************************************)
(* Proofs about the quick search, for any number of sessions, processes,   *)
(* stores and days and any cap.                                            *)
(***************************************************************************)
EXTENDS QuickSearch, StorageProofs, FiniteSetTheorems

(* The values that idle sessions hold have their types. *)
LEMMA DefaultsTyped == DefaultKind \in Kind /\ AnyItem \in Item /\ 1 \in Day
  BY StorageAssumption DEF DefaultKind, AnyItem, Day

(* Leaving keeps the types, whatever the caller does to the table and the  *)
(* counters.                                                               *)
LEMMA LeaveTyped ==
  ASSUME TypeOK, NEW s \in Session, Leave(s), Unmoved,
         IsTable(table'), ran' \in [Day -> Nat], visits' \in [Day -> Nat]
  PROVE  TypeOK'
<1> USE DefaultsTyped, QuickSearchAssumption, NoRowsIsTable
<1>1. WatchTypeOK' /\ today' \in Day /\ arToday' \in Day /\ arToday' \in {today' - 1, today'}
  BY DEF TypeOK, Unmoved, WatchTypeOK
<1>2. /\ lock' \in [Process -> BOOLEAN]
      /\ pc' \in [Session -> Inside \cup {"idle"}]
      /\ item' \in [Session -> Item] /\ kind' \in [Session -> Kind]
      /\ began' \in [Session -> Day] /\ charged' \in [Session -> Day]
      /\ sent' \in [Session -> Nat] /\ leaving' \in [Session -> Reasons]
  BY DEF TypeOK, Leave, Reasons
<1>3. worker' \in [Session -> [Searchable -> WorkerState]]
  BY DEF TypeOK, Leave, Idle, WorkerState
<1>4. found' \in [Session -> [Searchable -> Seq(Row)]]
  BY EmptySeq DEF TypeOK, Leave, Nothing
<1>5. /\ taken' \in [Session -> Searchable \cup {NoStore}]
      /\ \A t \in Session : pc'[t] = "save" <=> taken'[t] # NoStore
      /\ DOMAIN pending' = Session /\ \A t \in Session : IsTable(pending'[t])
  BY DEF TypeOK, Leave
<1> QED BY <1>1, <1>2, <1>3, <1>4, <1>5 DEF TypeOK

(* The first state has the types. *)
LEMMA InitTyped == Init => TypeOK
<1> SUFFICES ASSUME Init PROVE TypeOK
  OBVIOUS
<1> USE DefaultsTyped, QuickSearchAssumption, NoRowsIsTable
<1>1. WatchTypeOK
  BY DEF Init, WatchInit, WatchTypeOK
<1>2. found \in [Session -> [Searchable -> Seq(Row)]]
  BY EmptySeq DEF Init, Nothing
<1>3. worker \in [Session -> [Searchable -> WorkerState]]
  BY DEF Init, Idle, WorkerState
<1> QED BY <1>1, <1>2, <1>3 DEF Init, TypeOK, Reasons, Inside

(* The batch in hand while a store's rows are being saved. *)
LEMMA InHandTyped ==
  ASSUME TypeOK, NEW s \in Session, pc[s] = "save"
  PROVE  taken[s] \in Searchable /\ InHand(s) \in Seq(Row)
  BY DEF TypeOK, InHand

(* What another writer commits leaves a table, with no row less. *)
LEMMA OtherWriterTyped ==
  ASSUME TypeOK, OtherWriter PROVE IsTable(table') /\ DOMAIN table \subseteq DOMAIN table'
<1>1. CASE \E new \in Elsewhere : table' = Over(table, new)
  <2>1. PICK new \in Elsewhere : table' = Over(table, new)
    BY <1>1
  <2>2. IsTable(new) /\ IsTable(table)
    BY QuickSearchAssumption DEF TypeOK
  <2> QED BY <2>1, <2>2, OverTables
<1>2. CASE table' \in Relabelled(table)
  BY <1>2, RelabelledTable DEF TypeOK
<1> QED BY <1>1, <1>2 DEF OtherWriter

(* The end of a store's transaction, on the way to the next store or out.  *)
LEMMA EndTyped ==
  ASSUME TypeOK, NEW s \in Session, EndTransaction(s),
         \/ pc' = [pc EXCEPT ![s] = "search"]
         \/ pc' = [pc EXCEPT ![s] = "drain"]
  PROVE  /\ pc' \in [Session -> Inside \cup {"idle"}]
         /\ taken' \in [Session -> Searchable \cup {NoStore}]
         /\ \A t \in Session : pc'[t] = "save" <=> taken'[t] # NoStore
         /\ sent' \in [Session -> Nat]
         /\ DOMAIN pending' = Session /\ \A t \in Session : IsTable(pending'[t])
<1>1. sent' \in [Session -> Nat] /\ taken' \in [Session -> Searchable \cup {NoStore}]
  BY DEF TypeOK, EndTransaction
<1>2. DOMAIN pending' = Session /\ \A t \in Session : IsTable(pending'[t])
  BY NoRowsIsTable DEF TypeOK, EndTransaction
<1>3. pc' \in [Session -> Inside \cup {"idle"}]
  BY DEF TypeOK, Inside
<1>4. \A t \in Session : pc'[t] = "save" <=> taken'[t] # NoStore
  BY DEF TypeOK, EndTransaction
<1> QED BY <1>1, <1>2, <1>3, <1>4

(* Every step of a call, of a worker and of the environment keeps the types. *)
LEMMA TypedStep == TypeOK /\ [Next]_vars => TypeOK'
<1> SUFFICES ASSUME TypeOK, [Next]_vars PROVE TypeOK'
  OBVIOUS
<1> USE QuickSearchAssumption
<1>s. IsTable(table) /\ ran \in [Day -> Nat] /\ visits \in [Day -> Nat]
  BY DEF TypeOK
<1>w. Unmoved =>
        WatchTypeOK' /\ today' \in Day /\ arToday' \in Day /\ arToday' \in {today' - 1, today'}
  BY DEF TypeOK, Unmoved, WatchTypeOK
<1>1. ASSUME NEW s \in Session, NEW i \in Item, Call(s, i) PROVE TypeOK'
  BY <1>1, <1>w DEF Call, TypeOK, GoTo, Inside
<1>2. ASSUME NEW s \in Session, CheckCap(s) PROVE TypeOK'
  <2>1. CASE Leave(s)
    BY <1>2, <2>1, <1>s, LeaveTyped DEF CheckCap
  <2>2. CASE GoTo(s, "build") /\ UNCHANGED <<lock, item, kind, began, charged, worker, found,
                                              taken, sent, pending, leaving>>
    BY <1>2, <2>2, <1>w DEF CheckCap, TypeOK, GoTo, Inside
  <2> QED BY <1>2, <2>1, <2>2 DEF CheckCap
<1>3. ASSUME NEW s \in Session, Build(s) PROVE TypeOK'
  <2>1. CASE Leave(s)
    BY <1>3, <2>1, <1>s, LeaveTyped DEF Build
  <2>2. CASE GoTo(s, "record") /\ UNCHANGED <<lock, item, kind, began, charged, worker, found,
                                               taken, sent, pending, leaving>>
    BY <1>3, <2>2, <1>w DEF Build, TypeOK, GoTo, Inside
  <2> QED BY <1>3, <2>1, <2>2 DEF Build
<1>4. ASSUME NEW s \in Session, Record(s) PROVE TypeOK'
  BY <1>4, <1>w DEF Record, TypeOK, GoTo, Inside
<1>5. ASSUME NEW s \in Session, RecordAnswerLost(s) PROVE TypeOK'
  <2>1. ran' \in [Day -> Nat]
    BY <1>5 DEF RecordAnswerLost, TypeOK
  <2> QED BY <1>5, <2>1, <1>s, LeaveTyped DEF RecordAnswerLost
<1>6. ASSUME NEW s \in Session, Launch(s) PROVE TypeOK'
  <2>1. watch[item[s]].kind \in Kind
    BY DEF TypeOK, WatchTypeOK
  <2>2. worker' \in [Session -> [Searchable -> WorkerState]]
    BY <1>6 DEF Launch, TypeOK, WorkerState
  <2>3. visits' \in [Day -> Nat]
    <3>1. charged[s] \in Day /\ visits \in [Day -> Nat]
      BY DEF TypeOK
    <3>2. visits' = [visits EXCEPT ![charged[s]] = @ + 1]
      BY <1>6 DEF Launch
    <3> QED BY <3>1, <3>2
  <2> QED BY <1>6, <2>1, <2>2, <2>3, <1>w DEF Launch, TypeOK, GoTo, Inside
<1>7. ASSUME NEW s \in Session, FailsEarly(s) PROVE TypeOK'
  BY <1>7, <1>s, LeaveTyped DEF FailsEarly
<1>8. ASSUME NEW s \in Session, NEW src \in Searchable, Answer(s, src) PROVE TypeOK'
  <2>1. PICK sells \in Offers[src] : \E stamp \in Stamps(sells, began[s], today) :
          found' = [found EXCEPT ![s][src] = Classified(item[s], src, kind[s], sells, stamp)]
    BY <1>8 DEF Answer
  <2>2. PICK stamp \in Stamps(sells, began[s], today) :
          found' = [found EXCEPT ![s][src] = Classified(item[s], src, kind[s], sells, stamp)]
    BY <2>1
  <2>3. sells \in Catalog /\ src \in Source
    BY StoresAssumption
  <2>4. Classified(item[s], src, kind[s], sells, stamp) \in Seq(Row)
    <3>1. item[s] \in Item /\ kind[s] \in Kind /\ began[s] \in Day /\ today \in Day
      BY DEF TypeOK
    <3> QED BY <2>3, <3>1, ClassifiedAreRows
  <2>5. found' \in [Session -> [Searchable -> Seq(Row)]]
    BY <2>2, <2>4 DEF TypeOK
  <2> QED BY <1>8, <2>5, <1>w DEF Answer, TypeOK, WorkerState
<1>9. ASSUME NEW s \in Session, NEW src \in Searchable, FetchFails(s, src) PROVE TypeOK'
  BY <1>9, <1>w DEF FetchFails, TypeOK, WorkerState
<1>10. ASSUME NEW s \in Session, NEW src \in Searchable, TakeFailed(s, src) PROVE TypeOK'
  <2>1. worker' \in [Session -> [Searchable -> WorkerState]]
    BY <1>10 DEF TakeFailed, TypeOK, WorkerState
  <2>2. pc' = [pc EXCEPT ![s] = "search"] \/ pc' = [pc EXCEPT ![s] = "drain"]
    BY <1>10 DEF TakeFailed, Progressed, GoTo
  <2>3. /\ pc' \in [Session -> Inside \cup {"idle"}]
        /\ \A t \in Session : pc'[t] = "save" <=> taken'[t] # NoStore
    BY <1>10, <2>2 DEF TakeFailed, TypeOK, Inside
  <2>4. leaving' \in [Session -> Reasons]
    BY <1>10 DEF TakeFailed, Progressed, TypeOK, Reasons
  <2>5. DOMAIN pending' = Session /\ \A t \in Session : IsTable(pending'[t])
    BY <1>10, NoRowsIsTable DEF TakeFailed, TypeOK
  <2> QED BY <1>10, <2>1, <2>3, <2>4, <2>5, <1>w DEF TakeFailed, TypeOK
<1>11. ASSUME NEW s \in Session, NEW src \in Searchable, TakeAnswered(s, src) PROVE TypeOK'
  BY <1>11, <1>w DEF TakeAnswered, TypeOK, GoTo, Inside
<1>12. ASSUME NEW s \in Session, NEW held, SaveChunk(s, held) PROVE TypeOK'
  <2> DEFINE chunk == Chunk(InHand(s), sent[s])
             new   == InsertRows(table, pending[s], chunk)
  <2>1. InHand(s) \in Seq(Row) /\ sent[s] \in 0..Len(InHand(s))
    <3>1. pc[s] = "save" /\ sent[s] < Len(InHand(s))
      BY <1>12 DEF SaveChunk
    <3>2. InHand(s) \in Seq(Row) /\ sent[s] \in Nat
      BY <3>1, InHandTyped DEF TypeOK
    <3> QED BY <3>1, <3>2
  <2>2. chunk \in Seq(Row) /\ sent[s] + Len(chunk) \in Nat
    BY <2>1, ChunkOfRows
  <2>3. IsTable(new)
    BY <2>2, InsertRowsThm DEF TypeOK
  <2>4. pending' = [pending EXCEPT ![s] = new] /\ sent' = [sent EXCEPT ![s] = @ + Len(chunk)]
    BY <1>12 DEF SaveChunk
  <2> HIDE DEF chunk, new
  <2>5. sent' \in [Session -> Nat]
    BY <2>2, <2>4 DEF TypeOK
  <2>6. DOMAIN pending' = Session /\ \A t \in Session : IsTable(pending'[t])
    BY <2>3, <2>4 DEF TypeOK
  <2> QED BY <1>12, <2>5, <2>6, <1>w DEF SaveChunk, TypeOK
<1>13. ASSUME NEW s \in Session, Commit(s) PROVE TypeOK'
  <2>1. IsTable(table')
    BY <1>13, OverTables DEF Commit, TypeOK
  <2>2. worker' \in [Session -> [Searchable -> WorkerState]]
    BY <1>13, InHandTyped DEF Commit, TypeOK, WorkerState
  <2>3. pc' = [pc EXCEPT ![s] = "search"] \/ pc' = [pc EXCEPT ![s] = "drain"]
    BY <1>13 DEF Commit, Progressed, GoTo
  <2>4. leaving' \in [Session -> Reasons]
    BY <1>13 DEF Commit, Progressed, TypeOK, Reasons
  <2> QED BY <1>13, <2>1, <2>2, <2>3, <2>4, <1>w, EndTyped DEF Commit, TypeOK
<1>14. ASSUME NEW s \in Session, SaveFails(s) PROVE TypeOK'
  <2>1. IsTable(pending[s]) /\ IsTable(table)
    BY DEF TypeOK
  <2>2. table' = table \/ table' = Over(pending[s], table)
    BY <1>14 DEF SaveFails
  <2>3. IsTable(table')
    <3>1. IsTable(Over(pending[s], table))
      BY <2>1, OverTables
    <3> QED BY <2>1, <2>2, <3>1
  <2>4. worker' \in [Session -> [Searchable -> WorkerState]]
    BY <1>14, InHandTyped DEF SaveFails, TypeOK, WorkerState
  <2>5. leaving' \in [Session -> Reasons]
    BY <1>14 DEF SaveFails, TypeOK, Reasons
  <2> QED BY <1>14, <2>3, <2>4, <2>5, <1>w, EndTyped DEF SaveFails, GoTo, TypeOK
<1>15. ASSUME NEW s \in Session, Drained(s) PROVE TypeOK'
  BY <1>15, <1>s, LeaveTyped DEF Drained
<1>16. ASSUME NEW s \in Session, Return(s) PROVE TypeOK'
  BY <1>16, <1>s, LeaveTyped DEF Return
<1>17. ASSUME NEW p \in Process, Kill(p) PROVE TypeOK'
  <2> USE DefaultsTyped, NoRowsIsTable DEF Lost
  <2>1. found' \in [Session -> [Searchable -> Seq(Row)]]
    BY <1>17, EmptySeq DEF Kill, TypeOK, Nothing
  <2>2. worker' \in [Session -> [Searchable -> WorkerState]]
    BY <1>17 DEF Kill, TypeOK, Idle, WorkerState
  <2>3. /\ taken' \in [Session -> Searchable \cup {NoStore}]
        /\ \A s \in Session : pc'[s] = "save" <=> taken'[s] # NoStore
        /\ \A s \in Session : IsTable(pending'[s])
    BY <1>17 DEF Kill, TypeOK
  <2>4. /\ lock' \in [Process -> BOOLEAN]
        /\ pc' \in [Session -> Inside \cup {"idle"}]
        /\ item' \in [Session -> Item] /\ kind' \in [Session -> Kind]
        /\ began' \in [Session -> Day] /\ charged' \in [Session -> Day]
        /\ sent' \in [Session -> Nat] /\ leaving' \in [Session -> Reasons]
    BY <1>17 DEF Kill, TypeOK, Reasons
  <2> QED BY <1>17, <2>1, <2>2, <2>3, <2>4, <1>w, <1>s DEF Kill, TypeOK
<1>18. CASE UtcMidnight
  BY <1>18, StorageAssumption DEF UtcMidnight, TypeOK, callVars, Day, WatchTypeOK
<1>19. CASE ArgentineMidnight
  BY <1>19 DEF ArgentineMidnight, TypeOK, callVars, Day, WatchTypeOK
<1>20. CASE EditWatchlist
  BY <1>20, EditTyped DEF EditWatchlist, TypeOK, callVars
<1>21. CASE OtherWriter
  BY <1>21, OtherWriterTyped DEF OtherWriter, TypeOK, callVars, WatchTypeOK
<1>22. CASE UNCHANGED vars
  BY <1>22 DEF vars, callVars, TypeOK, WatchTypeOK
<1> QED
  BY <1>1, <1>2, <1>3, <1>4, <1>5, <1>6, <1>7, <1>8, <1>9, <1>10, <1>11, <1>12, <1>13, <1>14,
     <1>15, <1>16, <1>17, <1>18, <1>19, <1>20, <1>21, <1>22
     DEF Next, Advance, Breaks, Worker

(* Every variable keeps its type, rows and tables included. *)
THEOREM QuickSearchTyped == Spec => []TypeOK
  BY InitTyped, TypedStep, PTL DEF Spec

-----------------------------------------------------------------------------
(* The lock.  A call holds its process's lock from Call until it leaves, so *)
(* a process has one call inside at most.                                   *)

Calling(s) == pc[s] # "idle"

LockInv ==
  /\ \A s \in Session : Calling(s) => lock[ProcessOf[s]]
  /\ \A s, t \in Session :
       Calling(s) /\ Calling(t) /\ ProcessOf[s] = ProcessOf[t] => s = t

(* What a step does to the lock and to where the calls stand: a call        *)
(* enters, leaves or moves on inside, a process dies, or neither is touched. *)
MovesOn(s) ==
  /\ Calling(s)
  /\ \E place \in Inside : pc' = [pc EXCEPT ![s] = place]
  /\ UNCHANGED lock

(* What a step does to the locks: a call comes, leaves or moves on inside, *)
(* a process dies, or nothing.                                             *)
LEMMA StepsOfLock ==
  ASSUME TypeOK, [Next]_vars
  PROVE  \/ \E s \in Session, i \in Item : Call(s, i)
         \/ \E s \in Session : Calling(s) /\ Leave(s)
         \/ \E s \in Session : MovesOn(s)
         \/ \E p \in Process : Kill(p)
         \/ UNCHANGED <<pc, lock>>
<1> USE DEF Calling
<1>1. ASSUME NEW s \in Session, Advance(s, Held(s)) \/ Breaks(s)
      PROVE  (Calling(s) /\ Leave(s)) \/ MovesOn(s) \/ UNCHANGED <<pc, lock>>
  <2>1. CASE CheckCap(s) \/ Build(s)
    BY <2>1 DEF CheckCap, Build, MovesOn, GoTo, Inside
  <2>2. CASE Record(s) \/ Launch(s)
    BY <2>2 DEF Record, Launch, MovesOn, GoTo, Inside
  <2>3. CASE \E src \in Searchable : TakeFailed(s, src) \/ TakeAnswered(s, src)
    BY <2>3 DEF TakeFailed, TakeAnswered, Progressed, MovesOn, GoTo, Inside
  <2>4. CASE SaveChunk(s, Held(s))
    BY <2>4 DEF SaveChunk
  <2>5. CASE Commit(s) \/ SaveFails(s)
    BY <2>5 DEF Commit, SaveFails, Progressed, MovesOn, GoTo, Inside
  <2>6. CASE Drained(s) \/ Return(s) \/ RecordAnswerLost(s) \/ FailsEarly(s)
    BY <2>6 DEF Drained, Return, RecordAnswerLost, FailsEarly
  <2> QED BY <1>1, <2>1, <2>2, <2>3, <2>4, <2>5, <2>6 DEF Advance, Breaks
<1>2. ASSUME NEW s \in Session, NEW src \in Searchable, Worker(s, src)
      PROVE  UNCHANGED <<pc, lock>>
  BY <1>2 DEF Worker, Answer, FetchFails
<1>3. ASSUME UtcMidnight \/ ArgentineMidnight \/ EditWatchlist \/ OtherWriter \/ UNCHANGED vars
      PROVE  UNCHANGED <<pc, lock>>
  BY <1>3 DEF UtcMidnight, ArgentineMidnight, EditWatchlist, OtherWriter, vars, callVars
<1> QED BY <1>1, <1>2, <1>3 DEF Next

(* Every step keeps one call, at most, behind each lock. *)
LEMMA LockStep == TypeOK /\ LockInv /\ [Next]_vars => LockInv'
<1> SUFFICES ASSUME TypeOK, LockInv, [Next]_vars PROVE LockInv'
  OBVIOUS
<1> USE QuickSearchAssumption DEF LockInv, Calling
<1>1. ASSUME NEW s \in Session, NEW i \in Item, Call(s, i) PROVE LockInv'
  BY <1>1 DEF Call, GoTo, TypeOK
<1>2. ASSUME NEW s \in Session, Calling(s), Leave(s) PROVE LockInv'
  BY <1>2 DEF Leave, TypeOK
<1>3. ASSUME NEW s \in Session, MovesOn(s) PROVE LockInv'
  BY <1>3 DEF MovesOn, TypeOK
<1>4. ASSUME NEW p \in Process, Kill(p) PROVE LockInv'
  BY <1>4 DEF Kill, Lost, TypeOK
<1>5. CASE UNCHANGED <<pc, lock>>
  BY <1>5
<1> QED BY <1>1, <1>2, <1>3, <1>4, <1>5, StepsOfLock

(* One quick search at a time per process: the lock is never held by two.   *)
THEOREM OneCallPerProcess == Spec => []LockInv
<1>1. Init => LockInv
  BY DEF Init, LockInv, Calling
<1> QED BY <1>1, LockStep, QuickSearchTyped, PTL DEF Spec

-----------------------------------------------------------------------------
(* The cap, when every caller runs in one process.  A call that is past the *)
(* check still has a run to spend, whichever Argentine day it is by then.   *)

SingleProcess == \A s, t \in Session : ProcessOf[s] = ProcessOf[t]

CapInv ==
  /\ CapHolds
  /\ \A d \in Day : d > arToday => ran[d] = 0
  /\ \A s \in Session : pc[s] \in {"build", "record"} => ran[arToday] < DAILY_CAP

(* Before the first search no run is recorded. *)
LEMMA InitCap == Init => CapInv
  BY StorageAssumption, QuickSearchAssumption DEF Init, CapInv, CapHolds, Day

(* A step that leaves the count and the calendar alone, and brings no call  *)
(* past the check, keeps the cap.                                           *)
LEMMA CapKept ==
  ASSUME CapInv, UNCHANGED <<ran, arToday>>,
         \A s \in Session : pc'[s] \in {"build", "record"} => pc[s] \in {"build", "record"}
  PROVE  CapInv'
  BY DEF CapInv, CapHolds

(* Recording spends the run that the check saw free: alone in its process,  *)
(* no other call is past the check.                                         *)
LEMMA CapSpent ==
  ASSUME SingleProcess, TypeOK, LockInv, CapInv,
         NEW s \in Session, pc[s] = "record",
         ran' = [ran EXCEPT ![arToday] = @ + 1], UNCHANGED arToday,
         \E place \in {"launch", "idle"} : pc' = [pc EXCEPT ![s] = place]
  PROVE  CapInv'
<1>1. ran \in [Day -> Nat] /\ arToday \in Day /\ pc \in [Session -> Inside \cup {"idle"}]
  BY DEF TypeOK
<1>2. \A t \in Session : pc'[t] \notin {"build", "record"}
  <2>1. \A t \in Session : t # s => pc[t] = "idle"
    BY DEF LockInv, Calling, SingleProcess
  <2> QED BY <1>1, <2>1
<1>3. CapHolds'
  BY <1>1, QuickSearchAssumption DEF CapInv, CapHolds
<1>4. \A d \in Day : d > arToday => ran'[d] = 0
  BY <1>1, StorageAssumption DEF CapInv, Day
<1> QED BY <1>2, <1>3, <1>4 DEF CapInv

(* With one process, every step keeps the cap and the room checked for. *)
LEMMA CapStep == SingleProcess /\ TypeOK /\ LockInv /\ CapInv /\ [Next]_vars => CapInv'
<1> SUFFICES ASSUME SingleProcess, TypeOK, LockInv, CapInv, [Next]_vars PROVE CapInv'
  OBVIOUS
<1>p. pc \in [Session -> Inside \cup {"idle"}] /\ arToday \in Day
  BY DEF TypeOK
<1>1. ASSUME NEW s \in Session, NEW i \in Item, Call(s, i) PROVE CapInv'
  BY <1>1, <1>p, CapKept DEF Call, GoTo, Unmoved
<1>2. ASSUME NEW s \in Session, CheckCap(s) PROVE CapInv'
  <2>1. CASE ran[arToday] >= DAILY_CAP
    BY <1>2, <2>1, <1>p, CapKept DEF CheckCap, Leave, Unmoved
  <2>2. CASE ~ (ran[arToday] >= DAILY_CAP)
    <3>1. ran[arToday] < DAILY_CAP
      BY <2>2, QuickSearchAssumption DEF TypeOK
    <3> QED BY <1>2, <2>2, <3>1 DEF CheckCap, CapInv, CapHolds, Unmoved
  <2> QED BY <2>1, <2>2
<1>3. ASSUME NEW s \in Session, Build(s) PROVE CapInv'
  BY <1>3, <1>p, CapKept DEF Build, GoTo, Leave, Unmoved
<1>4. ASSUME NEW s \in Session, Record(s) PROVE CapInv'
  BY <1>4, CapSpent DEF Record, GoTo, Unmoved
<1>5. ASSUME NEW s \in Session, RecordAnswerLost(s) PROVE CapInv'
  BY <1>5, CapSpent DEF RecordAnswerLost, Leave, Unmoved
<1>6. ASSUME NEW s \in Session, Launch(s) \/ FailsEarly(s) \/ Drained(s) \/ Return(s) PROVE CapInv'
  BY <1>6, <1>p, CapKept DEF Launch, FailsEarly, Drained, Return, Leave, GoTo, Unmoved
<1>7. ASSUME NEW s \in Session, NEW src \in Searchable,
             Worker(s, src) \/ TakeFailed(s, src) \/ TakeAnswered(s, src)
      PROVE  CapInv'
  BY <1>7, <1>p, CapKept
     DEF Worker, Answer, FetchFails, TakeFailed, TakeAnswered, Progressed, GoTo, Unmoved
<1>8. ASSUME NEW s \in Session, NEW held, SaveChunk(s, held) PROVE CapInv'
  BY <1>8, CapKept DEF SaveChunk, Unmoved
<1>9. ASSUME NEW s \in Session, Commit(s) \/ SaveFails(s) PROVE CapInv'
  BY <1>9, <1>p, CapKept DEF Commit, SaveFails, Progressed, GoTo, Unmoved
<1>10. ASSUME NEW p \in Process, Kill(p) PROVE CapInv'
  BY <1>10, <1>p, CapKept DEF Kill, Lost, Unmoved
<1>11. CASE UtcMidnight \/ EditWatchlist \/ OtherWriter \/ UNCHANGED vars
  BY <1>11, CapKept DEF UtcMidnight, EditWatchlist, OtherWriter, vars, callVars
(* A day that begins has no run yet, so a call past the check that sees     *)
(* midnight pass has one to spend.                                          *)
<1>12. CASE ArgentineMidnight
  <2>1. arToday' = arToday + 1 /\ arToday' \in Day /\ UNCHANGED <<ran, pc>>
    BY <1>12 DEF ArgentineMidnight, TypeOK, callVars, Day
  <2>2. ran[arToday'] = 0
    BY <1>p, <2>1, StorageAssumption DEF CapInv, Day
  <2>3. \A d \in Day : d > arToday' => ran[d] = 0
    BY <1>p, <2>1, StorageAssumption DEF CapInv, Day
  <2> QED BY <2>1, <2>2, <2>3, QuickSearchAssumption DEF CapInv, CapHolds
<1> QED
  BY <1>1, <1>2, <1>3, <1>4, <1>5, <1>6, <1>7, <1>8, <1>9, <1>10, <1>11, <1>12
     DEF Next, Advance, Breaks

(* DAILY_CAP is a hard cap as long as all callers share one process, the    *)
(* claim of quicksearch.py's docstring and of the comment on _RUN_LOCK:     *)
(* check, build and record together are atomic to the other callers, and    *)
(* midnight in between opens a day that has no run yet.                     *)
THEOREM CapIsHard ==
  ASSUME SingleProcess
  PROVE  Spec => []CapHolds
<1>1. Spec => []CapInv
  BY InitCap, CapStep, QuickSearchTyped, OneCallPerProcess, PTL DEF Spec
<1>2. CapInv => CapHolds
  BY DEF CapInv
<1> QED BY <1>1, <1>2, PTL

-----------------------------------------------------------------------------
(* Courtesy to the stores.  A worker only fetches while its call is inside, *)
(* on every way out, so the lock keeps the workers of two calls apart too.  *)

AtWork == {"search", "save", "drain"}

WorkersInv ==
  \A s \in Session, src \in Searchable :
    worker[s][src] = "fetching" => pc[s] \in AtWork

(* Every step keeps the workers inside their call. *)
LEMMA WorkersStep == TypeOK /\ WorkersInv /\ [Next]_vars => WorkersInv'
<1> SUFFICES ASSUME TypeOK, WorkersInv, [Next]_vars PROVE WorkersInv'
  OBVIOUS
<1>p. /\ pc \in [Session -> Inside \cup {"idle"}]
      /\ worker \in [Session -> [Searchable -> WorkerState]]
  BY DEF TypeOK
<1>1. ASSUME UNCHANGED worker,
             \A t \in Session : pc'[t] \notin AtWork => pc[t] \notin AtWork
      PROVE  WorkersInv'
  BY <1>1 DEF WorkersInv
<1>2. ASSUME NEW s \in Session, Leave(s) PROVE WorkersInv'
  BY <1>2, <1>p DEF Leave, Idle, WorkersInv
<1>3. ASSUME NEW s \in Session, NEW i \in Item, Call(s, i) PROVE WorkersInv'
  BY <1>3, <1>1, <1>p DEF Call, GoTo, AtWork
<1>4. ASSUME NEW s \in Session, CheckCap(s) \/ Build(s) \/ Record(s) PROVE WorkersInv'
  BY <1>4, <1>1, <1>2, <1>p DEF CheckCap, Build, Record, GoTo, AtWork
<1>5. ASSUME NEW s \in Session, Launch(s) PROVE WorkersInv'
  BY <1>5, <1>p DEF Launch, GoTo, WorkersInv, AtWork
<1>6. ASSUME NEW s \in Session, NEW src \in Searchable,
             Worker(s, src) \/ TakeFailed(s, src)
      PROVE  WorkersInv'
  <2>1. \A t \in Session : pc'[t] \notin AtWork => pc[t] \notin AtWork
    BY <1>6, <1>p DEF Worker, Answer, FetchFails, TakeFailed, Progressed, GoTo, AtWork
  <2>2. \E what \in {"answered", "failed", "reported"} : worker' = [worker EXCEPT ![s][src] = what]
    BY <1>6 DEF Worker, Answer, FetchFails, TakeFailed
  <2> QED BY <2>1, <2>2, <1>p DEF WorkersInv
<1>7. ASSUME NEW s \in Session, NEW src \in Searchable, TakeAnswered(s, src) PROVE WorkersInv'
  BY <1>7, <1>1, <1>p DEF TakeAnswered, GoTo, AtWork
<1>8. ASSUME NEW s \in Session, NEW held, SaveChunk(s, held) PROVE WorkersInv'
  BY <1>8, <1>1 DEF SaveChunk
<1>9. ASSUME NEW s \in Session, Commit(s) \/ SaveFails(s) PROVE WorkersInv'
  <2>1. \A t \in Session : pc'[t] \notin AtWork => pc[t] \notin AtWork
    BY <1>9, <1>p DEF Commit, SaveFails, Progressed, GoTo, AtWork
  <2>2. \E what \in {"stored", "reported"} : worker' = [worker EXCEPT ![s][taken[s]] = what]
    BY <1>9 DEF Commit, SaveFails
  <2> QED BY <2>1, <2>2, <1>p DEF WorkersInv
<1>10. ASSUME NEW s \in Session,
              Drained(s) \/ Return(s) \/ RecordAnswerLost(s) \/ FailsEarly(s)
       PROVE  WorkersInv'
  BY <1>10, <1>2 DEF Drained, Return, RecordAnswerLost, FailsEarly
<1>11. ASSUME NEW p \in Process, Kill(p) PROVE WorkersInv'
  BY <1>11, <1>p DEF Kill, Lost, Idle, WorkersInv
<1>12. CASE UtcMidnight \/ ArgentineMidnight \/ EditWatchlist \/ OtherWriter \/ UNCHANGED vars
  BY <1>12 DEF UtcMidnight, ArgentineMidnight, EditWatchlist, OtherWriter, vars, callVars, WorkersInv
<1> QED
  BY <1>3, <1>4, <1>5, <1>6, <1>7, <1>8, <1>9, <1>10, <1>11, <1>12 DEF Next, Advance, Breaks

(* A store is visited by one worker at a time, the courtesy promise of      *)
(* quicksearch.py's docstring, as long as all callers share one process.    *)
THEOREM OneVisitor ==
  ASSUME SingleProcess
  PROVE  Spec => []OneVisitorPerStore
<1>1. Init => WorkersInv
  BY DEF Init, WorkersInv, Idle
<1>2. LockInv /\ WorkersInv => OneVisitorPerStore
  BY DEF LockInv, Calling, WorkersInv, AtWork, OneVisitorPerStore, SingleProcess
<1> QED BY <1>1, <1>2, WorkersStep, QuickSearchTyped, OneCallPerProcess, PTL DEF Spec

-----------------------------------------------------------------------------
(* Every visit is paid for, with any number of processes: the searches that *)
(* visited stores and those about to are, per day, no more than recorded.   *)

AboutToVisit(d) == {s \in Session : pc[s] = "launch" /\ charged[s] = d}

PaidInv == \A d \in Day : visits[d] + Cardinality(AboutToVisit(d)) <= ran[d]

(* There are finitely many calls between the record and the launch. *)
LEMMA AboutToVisitFinite ==
  \A d : IsFiniteSet(AboutToVisit(d)) /\ Cardinality(AboutToVisit(d)) \in Nat
  BY QuickSearchAssumption, FS_Subset, FS_CardinalityType DEF AboutToVisit

(* Calls that stop being about to visit owe nothing. *)
LEMMA PaidKept ==
  ASSUME TypeOK, PaidInv, ran' \in [Day -> Nat], UNCHANGED visits,
         \A d \in Day : ran[d] <= ran'[d],
         \A d \in Day : AboutToVisit(d)' \subseteq AboutToVisit(d)
  PROVE  PaidInv'
<1>1. ASSUME NEW d \in Day
      PROVE  visits'[d] + Cardinality(AboutToVisit(d)') <= ran'[d]
  <2>1. /\ Cardinality(AboutToVisit(d)') \in Nat
        /\ Cardinality(AboutToVisit(d)) \in Nat
        /\ Cardinality(AboutToVisit(d)') <= Cardinality(AboutToVisit(d))
    BY <1>1, AboutToVisitFinite, FS_Subset, FS_CardinalityType
  <2>2. visits[d] \in Nat /\ ran[d] \in Nat /\ ran'[d] \in Nat
    BY DEF TypeOK
  <2> QED BY <2>1, <2>2 DEF PaidInv
<1> QED BY <1>1 DEF PaidInv

(* Every step keeps the visits within the recorded runs. *)
LEMMA PaidStep == TypeOK /\ PaidInv /\ [Next]_vars => PaidInv'
<1> SUFFICES ASSUME TypeOK, PaidInv, [Next]_vars PROVE PaidInv'
  OBVIOUS
<1>p. /\ pc \in [Session -> Inside \cup {"idle"}] /\ charged \in [Session -> Day]
      /\ ran \in [Day -> Nat] /\ visits \in [Day -> Nat] /\ arToday \in Day
  BY DEF TypeOK
(* Steps that record nothing and bring no call to the visit. *)
<1>1. ASSUME UNCHANGED <<ran, visits>>,
             \A s \in Session : pc'[s] = "launch" => pc[s] = "launch" /\ charged'[s] = charged[s]
      PROVE  PaidInv'
  <2>1. \A d \in Day : AboutToVisit(d)' \subseteq AboutToVisit(d)
    BY <1>1 DEF AboutToVisit
  <2> QED BY <1>1, <1>p, <2>1, PaidKept
<1>2. ASSUME NEW s \in Session, Record(s) PROVE PaidInv'
  <2>1. /\ pc' = [pc EXCEPT ![s] = "launch"] /\ charged' = [charged EXCEPT ![s] = arToday]
        /\ ran' = [ran EXCEPT ![arToday] = @ + 1] /\ visits' = visits /\ pc[s] = "record"
        /\ arToday' = arToday
    BY <1>2 DEF Record, GoTo, Unmoved
  <2>2. AboutToVisit(arToday)' = AboutToVisit(arToday) \cup {s} /\ s \notin AboutToVisit(arToday)
    BY <1>p, <2>1 DEF AboutToVisit
  <2>3. Cardinality(AboutToVisit(arToday)') = Cardinality(AboutToVisit(arToday)) + 1
    BY <2>2, AboutToVisitFinite, FS_AddElement
  <2>4. \A d \in Day : d # arToday => AboutToVisit(d)' = AboutToVisit(d)
    BY <1>p, <2>1 DEF AboutToVisit
  <2>5. ASSUME NEW d \in Day PROVE visits'[d] + Cardinality(AboutToVisit(d)') <= ran'[d]
    <3>1. visits[d] + Cardinality(AboutToVisit(d)) <= ran[d]
      BY DEF PaidInv
    <3>2. CASE d = arToday
      BY <1>p, <2>1, <2>3, <3>1, <3>2, AboutToVisitFinite
    <3>3. CASE d # arToday
      BY <1>p, <2>1, <2>4, <3>1, <3>3
    <3> QED BY <3>2, <3>3
  <2> QED BY <2>5 DEF PaidInv
<1>3. ASSUME NEW s \in Session, RecordAnswerLost(s) PROVE PaidInv'
  <2>1. ran' = [ran EXCEPT ![arToday] = @ + 1] /\ visits' = visits
    BY <1>3 DEF RecordAnswerLost
  <2>2. \A d \in Day : AboutToVisit(d)' \subseteq AboutToVisit(d)
    BY <1>3, <1>p DEF RecordAnswerLost, Leave, AboutToVisit
  <2>3. ran' \in [Day -> Nat] /\ \A d \in Day : ran[d] <= ran'[d]
    BY <1>p, <2>1
  <2> QED BY <2>1, <2>2, <2>3, PaidKept
<1>4. ASSUME NEW s \in Session, Launch(s) PROVE PaidInv'
  <2> DEFINE day == charged[s]
  <2>1. /\ pc' = [pc EXCEPT ![s] = "search"] /\ charged' = charged
        /\ visits' = [visits EXCEPT ![day] = @ + 1] /\ ran' = ran /\ pc[s] = "launch"
    BY <1>4 DEF Launch, GoTo
  <2>2. AboutToVisit(day)' = AboutToVisit(day) \ {s} /\ s \in AboutToVisit(day)
    BY <1>p, <2>1 DEF AboutToVisit
  <2>3. Cardinality(AboutToVisit(day)') = Cardinality(AboutToVisit(day)) - 1
    BY <2>2, AboutToVisitFinite, FS_RemoveElement
  <2>4. \A d \in Day : d # day => AboutToVisit(d)' = AboutToVisit(d)
    BY <1>p, <2>1 DEF AboutToVisit
  <2>5. ASSUME NEW d \in Day PROVE visits'[d] + Cardinality(AboutToVisit(d)') <= ran'[d]
    <3>1. visits[d] + Cardinality(AboutToVisit(d)) <= ran[d]
      BY DEF PaidInv
    <3>2. CASE d = day
      BY <1>p, <2>1, <2>3, <3>1, <3>2, AboutToVisitFinite
    <3>3. CASE d # day
      BY <1>p, <2>1, <2>4, <3>1, <3>3
    <3> QED BY <3>2, <3>3
  <2> QED BY <2>5 DEF PaidInv
<1>5. ASSUME NEW s \in Session, NEW i \in Item, Call(s, i) PROVE PaidInv'
  BY <1>5, <1>1, <1>p DEF Call, GoTo
<1>6. ASSUME NEW s \in Session,
             CheckCap(s) \/ Build(s) \/ FailsEarly(s) \/ Drained(s) \/ Return(s)
      PROVE  PaidInv'
  <2>1. \/ Leave(s)
        \/ pc' = [pc EXCEPT ![s] = "build"] /\ charged' = charged
        \/ pc' = [pc EXCEPT ![s] = "record"] /\ charged' = charged
    BY <1>6 DEF CheckCap, Build, FailsEarly, Drained, Return, GoTo
  <2>2. \A t \in Session : pc'[t] = "launch" => pc[t] = "launch" /\ charged'[t] = charged[t]
    BY <1>p, <2>1 DEF Leave
  <2> QED BY <1>6, <1>1, <2>2 DEF CheckCap, Build, FailsEarly, Drained, Return
<1>7. ASSUME NEW s \in Session, NEW src \in Searchable,
             Worker(s, src) \/ TakeFailed(s, src) \/ TakeAnswered(s, src)
      PROVE  PaidInv'
  BY <1>7, <1>1, <1>p
     DEF Worker, Answer, FetchFails, TakeFailed, TakeAnswered, Progressed, GoTo
<1>8. ASSUME NEW s \in Session, NEW held, SaveChunk(s, held) PROVE PaidInv'
  BY <1>8, <1>1 DEF SaveChunk
<1>9. ASSUME NEW s \in Session, Commit(s) \/ SaveFails(s) PROVE PaidInv'
  BY <1>9, <1>1, <1>p DEF Commit, SaveFails, Progressed, GoTo
<1>10. ASSUME NEW p \in Process, Kill(p) PROVE PaidInv'
  BY <1>10, <1>1, <1>p DEF Kill, Lost
<1>11. CASE UtcMidnight \/ ArgentineMidnight \/ EditWatchlist \/ OtherWriter \/ UNCHANGED vars
  BY <1>11, <1>1 DEF UtcMidnight, ArgentineMidnight, EditWatchlist, OtherWriter, vars, callVars
<1> QED
  BY <1>2, <1>3, <1>4, <1>5, <1>6, <1>7, <1>8, <1>9, <1>10, <1>11 DEF Next, Advance, Breaks

(* Every search that visited stores was recorded beforehand, on the day it  *)
(* is counted against ("a run that fails halfway still visited the stores,  *)
(* so it still spends cap"), with any number of processes.                  *)
THEOREM VisitsArePaid == Spec => []VisitsAreCharged
<1>1. Init => PaidInv
  <2>1. ASSUME Init, NEW d \in Day PROVE visits[d] + Cardinality(AboutToVisit(d)) <= ran[d]
    <3>1. AboutToVisit(d) = {}
      BY <2>1 DEF Init, AboutToVisit
    <3> QED BY <2>1, <3>1, FS_EmptySet DEF Init
  <2> QED BY <2>1 DEF PaidInv
<1>2. TypeOK /\ PaidInv => VisitsAreCharged
  <2>1. ASSUME TypeOK, PaidInv, NEW d \in Day PROVE visits[d] <= ran[d]
    <3>1. visits[d] \in Nat /\ ran[d] \in Nat /\ visits[d] + Cardinality(AboutToVisit(d)) <= ran[d]
      BY <2>1 DEF TypeOK, PaidInv
    <3> QED BY <3>1, AboutToVisitFinite
  <2> QED BY <2>1 DEF VisitsAreCharged
<1> QED BY <1>1, <1>2, PaidStep, QuickSearchTyped, PTL DEF Spec

-----------------------------------------------------------------------------
(* What a call has stored.  The rows of a store it calls stored are in the  *)
(* table; of the store whose rows it is saving, those sent are there or in  *)
(* its open transaction; between two stores nothing is half sent.           *)
SavedOK(s) ==
  /\ \A src \in Searchable : worker[s][src] = "stored" => KeysOf(found[s][src]) \subseteq DOMAIN table
  /\ pc[s] # "save" => sent[s] = 0
  /\ pc[s] = "save" =>
       /\ worker[s][taken[s]] = "answered"
       /\ sent[s] \in 0..Len(InHand(s))
       /\ \A n \in 1..sent[s] : InHand(s)[n].key \in DOMAIN pending[s] \cup DOMAIN table

SavedInv == \A s \in Session : SavedOK(s)

TableGrows == DOMAIN table \subseteq DOMAIN table'

(* What a session is saving is left alone. *)
Untouched(s) ==
  /\ pc'[s] = pc[s] /\ worker'[s] = worker[s] /\ found'[s] = found[s]
  /\ taken'[s] = taken[s] /\ sent'[s] = sent[s] /\ pending'[s] = pending[s]

(* A session that is left alone keeps its promise while the table grows. *)
LEMMA UntouchedSaved ==
  ASSUME NEW s \in Session, SavedOK(s), Untouched(s), TableGrows
  PROVE  SavedOK(s)'
  BY DEF SavedOK, Untouched, TableGrows, InHand

(* A call that is over has nothing left to save. *)
LEMMA LeftSaved ==
  ASSUME NEW s \in Session, pc'[s] = "idle", worker'[s] = Idle, sent'[s] = 0
  PROVE  SavedOK(s)'
  BY DEF SavedOK, Idle

(* COMMIT lays the open transaction over the table. *)
LEMMA CommitGrows ==
  ASSUME TypeOK, NEW s \in Session, table' = Over(pending[s], table)
  PROVE  TableGrows /\ DOMAIN table' = DOMAIN pending[s] \cup DOMAIN table
<1>1. IsTable(pending[s]) /\ IsTable(table)
  BY DEF TypeOK
<1> QED BY <1>1, OverTables DEF TableGrows

(* What every step does to the table, and the sessions it leaves alone. *)
LEMMA LeaveSaved ==
  ASSUME TypeOK, SavedInv, NEW s \in Session, Leave(s), TableGrows
  PROVE  SavedInv'
<1>1. pc'[s] = "idle" /\ worker'[s] = Idle /\ sent'[s] = 0
  BY DEF Leave, TypeOK
<1>2. \A t \in Session : t # s => Untouched(t)
  BY DEF Leave, TypeOK, Untouched
<1> QED BY <1>1, <1>2, LeftSaved, UntouchedSaved DEF SavedInv

(* A statement of the open transaction puts its rows there or meets them in *)
(* the table.                                                               *)
LEMMA ChunkSaved ==
  ASSUME TypeOK, SavedInv, NEW s \in Session, NEW held, SaveChunk(s, held)
  PROVE  SavedOK(s)'
<1> DEFINE rows  == InHand(s)
           chunk == Chunk(rows, sent[s])
           new   == InsertRows(table, pending[s], chunk)
<1>1. /\ pc[s] = "save" /\ rows \in Seq(Row) /\ sent[s] \in 0..Len(rows)
      /\ IsTable(table) /\ IsTable(pending[s])
  BY InHandTyped DEF SaveChunk, SavedInv, SavedOK, TypeOK
<1>2. /\ chunk \in Seq(Row) /\ sent[s] + Len(chunk) \in 0..Len(rows)
      /\ \A n \in 1..Len(chunk) : chunk[n] = rows[sent[s] + n]
  BY <1>1, ChunkOfRows
<1>3. DOMAIN pending[s] \subseteq DOMAIN new /\ KeysOf(chunk) \subseteq DOMAIN new \cup DOMAIN table
  BY <1>1, <1>2, InsertRowsThm
<1>4. /\ pending'[s] = new /\ sent'[s] = sent[s] + Len(chunk)
      /\ UNCHANGED <<table, pc, worker, found, taken>>
  BY DEF SaveChunk, TypeOK
<1>5. InHand(s)' = rows
  BY <1>4 DEF InHand
<1>6. \A n \in 1..sent[s] : rows[n].key \in DOMAIN pending[s] \cup DOMAIN table
  BY <1>1 DEF SavedInv, SavedOK
<1> HIDE DEF rows, chunk, new
<1>7. \A n \in 1..sent'[s] : rows[n].key \in DOMAIN new \cup DOMAIN table
  <2> TAKE n \in 1..sent'[s]
  <2>1. CASE n <= sent[s]
    BY <1>1, <1>3, <1>4, <1>6, <2>1
  <2>2. CASE ~ (n <= sent[s])
    <3>1. n - sent[s] \in 1..Len(chunk) /\ sent[s] + (n - sent[s]) = n
      BY <1>1, <1>2, <1>4, <2>2
    <3>2. rows[n] = chunk[n - sent[s]]
      BY <1>2, <3>1
    <3>3. n - sent[s] \in DOMAIN chunk
      BY <1>2, <3>1
    <3>4. rows[n].key \in KeysOf(chunk)
      BY <3>2, <3>3 DEF KeysOf
    <3> QED BY <1>3, <3>4
  <2> QED BY <2>1, <2>2
<1> QED BY <1>1, <1>2, <1>4, <1>5, <1>7 DEF SavedInv, SavedOK

(* The end of a store's transaction, committed or not. *)
LEMMA EndSaved ==
  ASSUME TypeOK, SavedInv, NEW s \in Session, EndTransaction(s), TableGrows,
         pc[s] = "save", pc'[s] # "save", UNCHANGED found,
         NEW outcome, worker' = [worker EXCEPT ![s][taken[s]] = outcome],
         outcome = "stored" => KeysOf(InHand(s)) \subseteq DOMAIN table'
  PROVE  SavedOK(s)'
<1>1. taken[s] \in Searchable /\ sent'[s] = 0
  BY InHandTyped DEF TypeOK, EndTransaction
<1>2. /\ worker'[s][taken[s]] = outcome
      /\ \A src \in Searchable : src # taken[s] => worker'[s][src] = worker[s][src]
  BY <1>1 DEF TypeOK
<1>3. \A src \in Searchable :
        worker'[s][src] = "stored" => KeysOf(found[s][src]) \subseteq DOMAIN table'
  BY <1>1, <1>2 DEF SavedInv, SavedOK, TableGrows, InHand
<1> QED BY <1>1, <1>3 DEF SavedOK

(* Every step keeps what was stored, and what is being saved. *)
LEMMA SavedStep == TypeOK /\ SavedInv /\ [Next]_vars => SavedInv'
<1> SUFFICES ASSUME TypeOK, SavedInv, [Next]_vars PROVE SavedInv'
  OBVIOUS
<1>t. UNCHANGED table => TableGrows
  BY DEF TableGrows
<1>1. ASSUME NEW s \in Session, TableGrows, \A t \in Session : t # s => Untouched(t), SavedOK(s)'
      PROVE  SavedInv'
  BY <1>1, UntouchedSaved DEF SavedInv
<1>2. ASSUME NEW s \in Session, NEW i \in Item, Call(s, i) PROVE SavedInv'
  <2>1. SavedOK(s)'
    BY <1>2 DEF Call, GoTo, TypeOK, SavedInv, SavedOK
  <2>2. \A t \in Session : t # s => Untouched(t)
    BY <1>2 DEF Call, GoTo, TypeOK, Untouched
  <2> QED BY <1>1, <1>2, <1>t, <2>1, <2>2 DEF Call
<1>3. ASSUME NEW s \in Session, Leave(s), UNCHANGED table PROVE SavedInv'
  BY <1>3, <1>t, LeaveSaved
<1>4. ASSUME NEW s \in Session, CheckCap(s) \/ Build(s) \/ Record(s) \/ Launch(s) PROVE SavedInv'
  <2>1. CASE Leave(s)
    BY <1>3, <1>4, <2>1 DEF CheckCap, Build, Record, Launch
  <2>2. CASE ~Leave(s)
    <3>1. pc[s] # "save" /\ \E place \in {"build", "record", "launch", "search"} : GoTo(s, place)
      BY <1>4, <2>2 DEF CheckCap, Build, Record, Launch
    <3>2. /\ UNCHANGED <<table, found, taken, sent, pending>>
          /\ worker' = worker \/ worker' = [worker EXCEPT ![s] = [src \in Searchable |-> "fetching"]]
      BY <1>4, <2>2 DEF CheckCap, Build, Record, Launch
    <3>3. \A t \in Session : t # s => Untouched(t)
      BY <3>1, <3>2 DEF GoTo, TypeOK, Untouched
    <3>4. pc'[s] # "save" /\ sent'[s] = 0
      BY <3>1, <3>2 DEF GoTo, TypeOK, SavedInv, SavedOK
    <3>5. \A src \in Searchable : worker'[s][src] = "stored" => KeysOf(found'[s][src]) \subseteq DOMAIN table'
      BY <3>2 DEF TypeOK, SavedInv, SavedOK
    <3>6. SavedOK(s)'
      BY <3>4, <3>5 DEF SavedOK
    <3> QED BY <1>1, <1>t, <3>2, <3>3, <3>6
  <2> QED BY <2>1, <2>2
<1>5. ASSUME NEW s \in Session, NEW src \in Searchable, Worker(s, src) PROVE SavedInv'
  <2>1. /\ worker[s][src] = "fetching"
        /\ \E state \in {"answered", "failed"} : worker' = [worker EXCEPT ![s][src] = state]
        /\ UNCHANGED <<table, pc, taken, sent, pending>>
        /\ \/ found' = found
           \/ \E rows : found' = [found EXCEPT ![s][src] = rows]
    BY <1>5 DEF Worker, Answer, FetchFails
  <2>2. \A t \in Session : t # s => Untouched(t)
    BY <2>1 DEF TypeOK, Untouched
  <2>3. /\ worker'[s][src] \in {"answered", "failed"}
        /\ \A other \in Searchable :
             other # src => worker'[s][other] = worker[s][other] /\ found'[s][other] = found[s][other]
    BY <2>1 DEF TypeOK
  <2>4. pc[s] = "save" => taken[s] \in Searchable /\ taken[s] # src
    BY <2>1, InHandTyped DEF SavedInv, SavedOK
  <2>5. SavedOK(s)'
    BY <2>1, <2>3, <2>4 DEF SavedInv, SavedOK, InHand
  <2> QED BY <1>1, <1>t, <2>1, <2>2, <2>5
<1>6. ASSUME NEW s \in Session, NEW src \in Searchable, TakeFailed(s, src) PROVE SavedInv'
  <2>1. /\ pc[s] = "search" /\ worker' = [worker EXCEPT ![s][src] = "reported"]
        /\ pending' = [pending EXCEPT ![s] = NoRows]
        /\ UNCHANGED <<table, found, taken, sent>>
        /\ pc' = [pc EXCEPT ![s] = "search"] \/ pc' = [pc EXCEPT ![s] = "drain"]
    BY <1>6 DEF TakeFailed, Progressed, GoTo
  <2>2. \A t \in Session : t # s => Untouched(t)
    BY <2>1 DEF TypeOK, Untouched
  <2>3. SavedOK(s)'
    BY <2>1 DEF TypeOK, SavedInv, SavedOK
  <2> QED BY <1>1, <1>t, <2>1, <2>2, <2>3
<1>7. ASSUME NEW s \in Session, NEW src \in Searchable, TakeAnswered(s, src) PROVE SavedInv'
  <2>1. /\ pc[s] = "search" /\ worker[s][src] = "answered"
        /\ pc' = [pc EXCEPT ![s] = "save"] /\ taken' = [taken EXCEPT ![s] = src]
        /\ UNCHANGED <<table, worker, found, sent, pending>>
    BY <1>7 DEF TakeAnswered, GoTo
  <2>2. \A t \in Session : t # s => Untouched(t)
    BY <2>1 DEF TypeOK, Untouched
  <2>3. sent'[s] = 0 /\ taken'[s] = src /\ pc'[s] = "save"
    BY <2>1 DEF TypeOK, SavedInv, SavedOK
  <2>4. 0 \in 0..Len(found[s][src]) /\ 1..0 = {}
    BY DEF TypeOK
  <2>5. SavedOK(s)'
    BY <2>1, <2>3, <2>4 DEF SavedInv, SavedOK, InHand
  <2> QED BY <1>1, <1>t, <2>1, <2>2, <2>5
<1>8. ASSUME NEW s \in Session, SaveChunk(s, Held(s)) PROVE SavedInv'
  <2>1. \A t \in Session : t # s => Untouched(t)
    BY <1>8 DEF SaveChunk, TypeOK, Untouched
  <2>2. UNCHANGED table
    BY <1>8 DEF SaveChunk
  <2> QED BY <1>1, <1>8, <1>t, <2>1, <2>2, ChunkSaved
<1>9. ASSUME NEW s \in Session, Commit(s) PROVE SavedInv'
  <2>1. /\ pc[s] = "save" /\ sent[s] = Len(InHand(s)) /\ EndTransaction(s) /\ UNCHANGED found
        /\ worker' = [worker EXCEPT ![s][taken[s]] = "stored"]
        /\ pc' = [pc EXCEPT ![s] = "search"] \/ pc' = [pc EXCEPT ![s] = "drain"]
        /\ table' = Over(pending[s], table)
    BY <1>9 DEF Commit, Progressed, GoTo
  <2>2. \A t \in Session : t # s => Untouched(t)
    BY <2>1 DEF EndTransaction, TypeOK, Untouched
  <2>3. TableGrows /\ DOMAIN table' = DOMAIN pending[s] \cup DOMAIN table
    BY <2>1, CommitGrows
  <2>4. KeysOf(InHand(s)) \subseteq DOMAIN table'
    <3>1. InHand(s) \in Seq(Row)
      BY <2>1, InHandTyped
    <3>2. \A n \in DOMAIN InHand(s) : InHand(s)[n].key \in DOMAIN pending[s] \cup DOMAIN table
      BY <2>1, <3>1 DEF SavedInv, SavedOK
    <3> QED BY <2>3, <3>2 DEF KeysOf
  <2>5. pc'[s] # "save"
    BY <2>1 DEF TypeOK
  <2>6. SavedOK(s)'
    BY <2>1, <2>3, <2>4, <2>5, EndSaved
  <2> QED BY <1>1, <2>2, <2>3, <2>6
<1>10. ASSUME NEW s \in Session, SaveFails(s) PROVE SavedInv'
  <2>1. /\ pc[s] = "save" /\ EndTransaction(s) /\ UNCHANGED found
        /\ worker' = [worker EXCEPT ![s][taken[s]] = "reported"]
        /\ pc' = [pc EXCEPT ![s] = "drain"]
        /\ UNCHANGED table \/ table' = Over(pending[s], table)
    BY <1>10 DEF SaveFails, GoTo
  <2>2. \A t \in Session : t # s => Untouched(t)
    BY <2>1 DEF EndTransaction, TypeOK, Untouched
  <2>3. TableGrows
    BY <1>t, <2>1, CommitGrows
  <2>4. pc'[s] # "save"
    BY <2>1 DEF TypeOK
  <2>5. SavedOK(s)'
    <3>1. "reported" = "stored" => KeysOf(InHand(s)) \subseteq DOMAIN table'
      OBVIOUS
    <3> QED BY <2>1, <2>3, <2>4, <3>1, EndSaved
  <2> QED BY <1>1, <2>2, <2>3, <2>5
<1>11. ASSUME NEW s \in Session, Drained(s) \/ Return(s) \/ RecordAnswerLost(s) \/ FailsEarly(s)
       PROVE  SavedInv'
  BY <1>3, <1>11 DEF Drained, Return, RecordAnswerLost, FailsEarly
<1>12. ASSUME NEW p \in Process, Kill(p) PROVE SavedInv'
  <2>1. UNCHANGED table
    BY <1>12 DEF Kill
  <2>2. ASSUME NEW s \in Session PROVE SavedOK(s)'
    <3>1. CASE ProcessOf[s] = p
      <4>1. pc'[s] = "idle" /\ worker'[s] = Idle /\ sent'[s] = 0
        BY <1>12, <3>1 DEF Kill, Lost
      <4> QED BY <4>1, LeftSaved
    <3>2. CASE ProcessOf[s] # p
      <4>1. Untouched(s)
        BY <1>12, <3>2 DEF Kill, Lost, Untouched
      <4> QED BY <1>t, <2>1, <4>1, UntouchedSaved DEF SavedInv
    <3> QED BY <3>1, <3>2
  <2> QED BY <2>2 DEF SavedInv
<1>13. CASE UtcMidnight \/ ArgentineMidnight \/ EditWatchlist \/ UNCHANGED vars
  <2>1. UNCHANGED <<table, callVars>>
    BY <1>13 DEF UtcMidnight, ArgentineMidnight, EditWatchlist, vars
  <2> QED BY <2>1 DEF callVars, SavedInv, SavedOK, InHand
<1>14. CASE OtherWriter
  <2>1. UNCHANGED callVars /\ TableGrows
    BY <1>14, OtherWriterTyped DEF OtherWriter, TableGrows
  <2>2. \A s \in Session : Untouched(s)
    BY <2>1 DEF callVars, Untouched
  <2> QED BY <2>1, <2>2, UntouchedSaved DEF SavedInv
<1> QED
  BY <1>2, <1>4, <1>5, <1>6, <1>7, <1>8, <1>9, <1>10, <1>11, <1>12, <1>13, <1>14
     DEF Next, Advance, Breaks

(* A report tells the truth: what it calls stored was committed, whatever   *)
(* failed, was killed or was saved by others before the call returned.      *)
THEOREM ReportsAreTrue == Spec => ReportIsTrue
<1> DEFINE True ==
      \A s \in Session, src \in Searchable :
        Return(s) =>
          /\ worker[s][src] \in {"stored", "reported"}
          /\ worker[s][src] = "stored" => KeysOf(found[s][src]) \subseteq DOMAIN table
<1>1. Init => SavedInv
  BY DEF Init, SavedInv, SavedOK, Idle
<1>2. SavedInv => [True]_vars
  BY DEF SavedInv, SavedOK, Return
<1>3. Spec => [][True]_vars
  BY <1>1, <1>2, SavedStep, QuickSearchTyped, PTL DEF Spec
<1> QED BY <1>3 DEF ReportIsTrue

-----------------------------------------------------------------------------
(* What a call holds is its own: the rows its workers found are of its item *)
(* at their store, those its transaction inserted are of the store in hand, *)
(* none of them is in the table, and no two transactions hold one key.      *)
Owns(s) ==
  /\ pc[s] \notin AtWork => found[s] = Nothing
  /\ \A src \in Searchable : \A k \in KeysOf(found[s][src]) : k.item = item[s] /\ k.source = src
  /\ DOMAIN pending[s] \cap DOMAIN table = {}
  /\ pc[s] # "save" => DOMAIN pending[s] = {}
  /\ pc[s] = "save" => DOMAIN pending[s] \subseteq KeysOf(InHand(s))

Apart == \A s, t \in Session : s # t => DOMAIN pending[s] \cap DOMAIN pending[t] = {}

OwnRows == Apart /\ \A s \in Session : Owns(s)

SameCall(s) ==
  /\ pc'[s] = pc[s] /\ item'[s] = item[s] /\ found'[s] = found[s]
  /\ taken'[s] = taken[s] /\ pending'[s] = pending[s]

(* One call moves, the others stand still: all the table can gain is what   *)
(* that call held.                                                          *)
LEMMA OneCallOwns ==
  ASSUME OwnRows, NEW s \in Session, \A t \in Session : t # s => SameCall(t), Owns(s)',
         DOMAIN table' \subseteq DOMAIN table \cup DOMAIN pending[s],
         \A t \in Session : t # s => DOMAIN pending'[s] \cap DOMAIN pending[t] = {}
  PROVE  OwnRows'
<1>1. Apart'
  BY DEF OwnRows, Apart, SameCall
<1>2. ASSUME NEW t \in Session, t # s PROVE Owns(t)'
  <2>1. DOMAIN pending[s] \cap DOMAIN pending[t] = {}
    BY <1>2 DEF OwnRows, Apart
  <2> QED BY <1>2, <2>1 DEF OwnRows, Owns, SameCall, InHand
<1> QED BY <1>1, <1>2 DEF OwnRows

(* A call whose transaction is closed, or that has none, holds no row. *)
LEMMA ClosedOwns ==
  ASSUME OwnRows, NEW s \in Session, \A t \in Session : t # s => SameCall(t),
         pending'[s] = NoRows, pc'[s] # "save",
         DOMAIN table' \subseteq DOMAIN table \cup DOMAIN pending[s],
         pc'[s] \notin AtWork => found'[s] = Nothing,
         found'[s] = Nothing \/ (found'[s] = found[s] /\ item'[s] = item[s])
  PROVE  OwnRows'
<1>1. DOMAIN pending'[s] = {}
  BY NoRowsIsTable
<1>2. \A src \in Searchable : KeysOf(Nothing[src]) = {}
  BY DEF Nothing, KeysOf
<1>3. Owns(s)'
  BY <1>1, <1>2 DEF OwnRows, Owns
<1> QED BY <1>1, <1>3, OneCallOwns

(* Leaving drops whatever the call held. *)
LEMMA LeaveOwns ==
  ASSUME TypeOK, OwnRows, NEW s \in Session, Leave(s), UNCHANGED table PROVE OwnRows'
<1>1. pending'[s] = NoRows /\ pc'[s] = "idle" /\ found'[s] = Nothing
  BY DEF Leave, TypeOK
<1>2. \A t \in Session : t # s => SameCall(t)
  BY DEF Leave, TypeOK, SameCall
<1> QED BY <1>1, <1>2, ClosedOwns

(* A worker's answer is rows of the call's item at the worker's store. *)
LEMMA AnswerOwns ==
  ASSUME TypeOK, WorkersInv, SavedInv, OwnRows, NEW s \in Session, NEW src \in Searchable, Answer(s, src)
  PROVE  OwnRows'
<1>1. PICK sells \in Offers[src] : \E stamp \in Stamps(sells, began[s], today) :
        found' = [found EXCEPT ![s][src] = Classified(item[s], src, kind[s], sells, stamp)]
  BY DEF Answer
<1>2. PICK stamp \in Stamps(sells, began[s], today) :
        found' = [found EXCEPT ![s][src] = Classified(item[s], src, kind[s], sells, stamp)]
  BY <1>1
<1> DEFINE batch == Classified(item[s], src, kind[s], sells, stamp)
<1>3. \A k \in KeysOf(batch) : k.item = item[s] /\ k.source = src
  <2>1. /\ item[s] \in Item /\ src \in Source /\ kind[s] \in Kind /\ sells \in Catalog
        /\ began[s] \in Day /\ today \in Day
    BY QuickSearchAssumption, StoresAssumption DEF TypeOK
  <2> QED BY <2>1, ClassifiedAreRows
<1> HIDE DEF batch
<1>4. /\ found'[s][src] = batch
      /\ \A other \in Searchable : other # src => found'[s][other] = found[s][other]
      /\ \A t \in Session : t # s => found'[t] = found[t]
  BY <1>2 DEF batch, TypeOK
<1>5. /\ UNCHANGED <<table, pc, item, taken, pending>> /\ pc[s] \in AtWork
      /\ worker[s][src] = "fetching"
  BY DEF Answer, WorkersInv
<1>6. Owns(s)'
  <2>1. CASE pc[s] = "save"
    <3>1. taken[s] \in Searchable /\ taken[s] # src
      BY <1>5, <2>1, InHandTyped DEF SavedInv, SavedOK
    <3>2. InHand(s)' = InHand(s)
      BY <1>4, <1>5, <3>1 DEF InHand
    <3> QED BY <1>3, <1>4, <1>5, <2>1, <3>2 DEF OwnRows, Owns
  <2>2. CASE pc[s] # "save"
    BY <1>3, <1>4, <1>5, <2>2 DEF OwnRows, Owns
  <2> QED BY <2>1, <2>2
<1>7. \A t \in Session : t # s => SameCall(t)
  BY <1>4, <1>5 DEF SameCall
<1> QED BY <1>5, <1>6, <1>7, OneCallOwns DEF OwnRows, Apart

(* One INSERT takes rows of the store in hand, that no other transaction    *)
(* holds and the table does not have.                                       *)
LEMMA ChunkOwns ==
  ASSUME TypeOK, SavedInv, OwnRows, NEW s \in Session, SaveChunk(s, Held(s))
  PROVE  OwnRows'
<1> DEFINE rows  == InHand(s)
           chunk == Chunk(rows, sent[s])
           new   == InsertRows(table, pending[s], chunk)
<1>1. /\ pc[s] = "save" /\ KeysOf(chunk) \cap Held(s) = {}
      /\ pending' = [pending EXCEPT ![s] = new]
      /\ UNCHANGED <<table, pc, item, found, taken>>
  BY DEF SaveChunk
<1>2. rows \in Seq(Row) /\ sent[s] \in 0..Len(rows)
  BY <1>1, InHandTyped DEF SavedInv, SavedOK
<1>3. chunk \in Seq(Row) /\ KeysOf(chunk) \subseteq KeysOf(rows)
  BY <1>2, ChunkOfRows
<1>4. IsTable(table) /\ IsTable(pending[s])
  BY DEF TypeOK
<1> HIDE DEF rows, chunk
<1>5. /\ DOMAIN new \subseteq DOMAIN pending[s] \cup KeysOf(chunk)
      /\ DOMAIN new \cap DOMAIN table \subseteq DOMAIN pending[s]
  BY <1>3, <1>4, InsertRowsThm
<1> HIDE DEF new
<1>6. pending'[s] = new /\ \A t \in Session : t # s => SameCall(t)
  BY <1>1 DEF TypeOK, SameCall
<1>7. Owns(s)'
  BY <1>1, <1>3, <1>5, <1>6 DEF OwnRows, Owns, InHand, rows
<1>8. ASSUME NEW t \in Session, t # s PROVE DOMAIN pending'[s] \cap DOMAIN pending[t] = {}
  <2>1. DOMAIN pending[t] \subseteq Held(s)
    BY <1>8 DEF Held
  <2>2. DOMAIN pending[s] \cap DOMAIN pending[t] = {}
    BY <1>8 DEF OwnRows, Apart
  <2> QED BY <1>1, <1>5, <1>6, <2>1, <2>2
<1> QED BY <1>1, <1>6, <1>7, <1>8, OneCallOwns

(* Every step keeps what a call holds its own. *)
LEMMA OwnStep ==
  TypeOK /\ WorkersInv /\ SavedInv /\ OwnRows /\ [Next]_vars => OwnRows'
<1> SUFFICES ASSUME TypeOK, WorkersInv, SavedInv, OwnRows, [Next]_vars PROVE OwnRows'
  OBVIOUS
<1>1. ASSUME NEW s \in Session, NEW i \in Item, Call(s, i) PROVE OwnRows'
  <2>1. /\ pc[s] = "idle" /\ pc' = [pc EXCEPT ![s] = "check"] /\ item' = [item EXCEPT ![s] = i]
        /\ UNCHANGED <<table, found, taken, pending>>
    BY <1>1 DEF Call, GoTo
  <2>2. \A t \in Session : t # s => SameCall(t)
    BY <2>1 DEF SameCall, TypeOK
  <2>3. /\ pc'[s] = "check" /\ found'[s] = Nothing /\ DOMAIN pending'[s] = {}
    BY <2>1 DEF TypeOK, OwnRows, Owns, AtWork
  <2>4. \A src \in Searchable : KeysOf(found'[s][src]) = {}
    BY <2>3 DEF Nothing, KeysOf
  <2>5. Owns(s)'
    BY <2>3, <2>4 DEF Owns
  <2> QED BY <2>1, <2>2, <2>3, <2>5, OneCallOwns
<1>2. ASSUME NEW s \in Session,
             CheckCap(s) \/ Build(s) \/ Record(s) \/ Launch(s) \/ Drained(s) \/ Return(s)
               \/ RecordAnswerLost(s) \/ FailsEarly(s)
      PROVE  OwnRows'
  <2>1. CASE Leave(s)
    BY <1>2, <2>1, LeaveOwns
       DEF CheckCap, Build, Record, Launch, Drained, Return, RecordAnswerLost, FailsEarly
  <2>2. CASE ~Leave(s)
    <3>1. /\ pc[s] \in {"check", "build", "record", "launch"}
          /\ \E place \in {"build", "record", "launch", "search"} : pc' = [pc EXCEPT ![s] = place]
          /\ UNCHANGED <<table, item, found, taken, pending>>
      BY <1>2, <2>2
         DEF CheckCap, Build, Record, Launch, Drained, Return, RecordAnswerLost, FailsEarly, GoTo
    <3>2. \A t \in Session : t # s => SameCall(t)
      BY <3>1 DEF SameCall, TypeOK
    <3>3. pc'[s] # "save" /\ pc[s] # "save" /\ found[s] = Nothing /\ pc \in [Session -> Inside \cup {"idle"}]
      BY <3>1 DEF TypeOK, OwnRows, Owns, AtWork
    <3>4. Owns(s)'
      BY <3>1, <3>3 DEF OwnRows, Owns
    <3> QED BY <3>1, <3>2, <3>4, OneCallOwns DEF OwnRows, Apart
  <2> QED BY <2>1, <2>2
<1>3. ASSUME NEW s \in Session, NEW src \in Searchable, FetchFails(s, src) PROVE OwnRows'
  BY <1>3 DEF FetchFails, OwnRows, Apart, Owns, InHand
<1>4. ASSUME NEW s \in Session, NEW src \in Searchable, Answer(s, src) PROVE OwnRows'
  BY <1>4, AnswerOwns
<1>5. ASSUME NEW s \in Session, NEW src \in Searchable, TakeFailed(s, src) PROVE OwnRows'
  <2>1. /\ pc[s] = "search" /\ pending' = [pending EXCEPT ![s] = NoRows]
        /\ \E place \in {"search", "drain"} : pc' = [pc EXCEPT ![s] = place]
        /\ UNCHANGED <<table, item, found, taken>>
    BY <1>5 DEF TakeFailed, Progressed, GoTo
  <2>2. \A t \in Session : t # s => SameCall(t)
    BY <2>1 DEF SameCall, TypeOK
  <2>3. pending'[s] = NoRows /\ pc'[s] \in {"search", "drain"}
    BY <2>1 DEF TypeOK
  <2> QED BY <2>1, <2>2, <2>3, ClosedOwns DEF AtWork
<1>6. ASSUME NEW s \in Session, NEW src \in Searchable, TakeAnswered(s, src) PROVE OwnRows'
  <2>1. /\ pc[s] = "search" /\ pc' = [pc EXCEPT ![s] = "save"]
        /\ taken' = [taken EXCEPT ![s] = src]
        /\ UNCHANGED <<table, item, found, pending>>
    BY <1>6 DEF TakeAnswered, GoTo
  <2>2. \A t \in Session : t # s => SameCall(t)
    BY <2>1 DEF SameCall, TypeOK
  <2>3. DOMAIN pending[s] = {} /\ pc'[s] = "save"
    BY <2>1 DEF TypeOK, OwnRows, Owns
  <2>4. Owns(s)'
    BY <2>1, <2>3 DEF OwnRows, Owns, AtWork
  <2> QED BY <2>1, <2>2, <2>3, <2>4, OneCallOwns
<1>7. ASSUME NEW s \in Session, SaveChunk(s, Held(s)) PROVE OwnRows'
  BY <1>7, ChunkOwns
<1>8. ASSUME NEW s \in Session, Commit(s) \/ SaveFails(s) PROVE OwnRows'
  <2>1. /\ pc[s] = "save" /\ EndTransaction(s) /\ UNCHANGED <<item, found>>
        /\ \E place \in {"search", "drain"} : pc' = [pc EXCEPT ![s] = place]
        /\ UNCHANGED table \/ table' = Over(pending[s], table)
    BY <1>8 DEF Commit, SaveFails, Progressed, GoTo
  <2>2. \A t \in Session : t # s => SameCall(t)
    BY <2>1 DEF EndTransaction, SameCall, TypeOK
  <2>3. pending'[s] = NoRows /\ pc'[s] \in {"search", "drain"}
    BY <2>1 DEF EndTransaction, TypeOK
  <2>4. DOMAIN table' \subseteq DOMAIN table \cup DOMAIN pending[s]
    BY <2>1, CommitGrows
  <2> QED BY <2>1, <2>2, <2>3, <2>4, ClosedOwns DEF AtWork
<1>9. ASSUME NEW p \in Process, Kill(p) PROVE OwnRows'
  <2>1. ASSUME NEW s \in Session
        PROVE  \/ SameCall(s)
               \/ pc'[s] = "idle" /\ found'[s] = Nothing /\ DOMAIN pending'[s] = {}
    BY <1>9, NoRowsIsTable DEF Kill, Lost, SameCall
  <2>2. \A src \in Searchable : KeysOf(Nothing[src]) = {}
    BY DEF Nothing, KeysOf
  <2>3. UNCHANGED table
    BY <1>9 DEF Kill
  <2>4. ASSUME NEW s \in Session PROVE Owns(s)'
    <3>1. CASE SameCall(s)
      BY <2>3, <3>1 DEF SameCall, OwnRows, Owns, InHand
    <3>2. CASE pc'[s] = "idle" /\ found'[s] = Nothing /\ DOMAIN pending'[s] = {}
      BY <2>2, <3>2 DEF Owns
    <3> QED BY <2>1, <3>1, <3>2
  <2>5. Apart'
    BY <2>1 DEF OwnRows, Apart, SameCall
  <2> QED BY <2>4, <2>5 DEF OwnRows
<1>10. CASE UtcMidnight \/ ArgentineMidnight \/ EditWatchlist \/ UNCHANGED vars
  <2>1. UNCHANGED <<table, callVars>>
    BY <1>10 DEF UtcMidnight, ArgentineMidnight, EditWatchlist, vars
  <2> QED BY <2>1 DEF callVars, OwnRows, Apart, Owns, InHand
<1>11. CASE OtherWriter
  <2>1. UNCHANGED callVars
    BY <1>11 DEF OtherWriter
  <2>2. \A s \in Session : DOMAIN pending[s] \cap DOMAIN table' = {}
    BY <1>11 DEF OtherWriter, Over, Relabelled, OwnRows, Owns
  <2> QED BY <2>1, <2>2 DEF callVars, OwnRows, Apart, Owns, InHand
<1> QED
  BY <1>1, <1>2, <1>3, <1>4, <1>5, <1>6, <1>7, <1>8, <1>9, <1>10, <1>11
     DEF Next, Advance, Breaks, Worker

QuickInv == TypeOK /\ LockInv /\ WorkersInv /\ SavedInv /\ OwnRows

(* The invariants of the calls hold at the start... *)
LEMMA InitInv == Init => QuickInv
<1> SUFFICES ASSUME Init PROVE QuickInv
  OBVIOUS
<1>1. LockInv /\ WorkersInv /\ SavedInv
  BY DEF Init, LockInv, Calling, WorkersInv, SavedInv, SavedOK, Idle
<1>2. /\ \A src \in Searchable : KeysOf(Nothing[src]) = {}
      /\ \A s \in Session : DOMAIN pending[s] = {}
  BY NoRowsIsTable DEF Init, Nothing, KeysOf
<1>3. OwnRows
  BY <1>2 DEF Init, OwnRows, Apart, Owns
<1> QED BY <1>1, <1>3, InitTyped DEF QuickInv

(* ...and every step keeps them. *)
LEMMA InvStep == QuickInv /\ [Next]_vars => QuickInv'
  BY TypedStep, LockStep, WorkersStep, SavedStep, OwnStep DEF QuickInv

-----------------------------------------------------------------------------
(* The snapshots as the quick search writes them. *)

Snapshots == INSTANCE SnapshotStore

(* One commit publishes the rows of the store in hand. *)
LEMMA CommitPublishes ==
  ASSUME QuickInv, NEW s \in Session, pc[s] = "save", table' = Over(pending[s], table)
  PROVE  Snapshots!Publish
<1>1. IsTable(table) /\ IsTable(pending[s])
  BY DEF QuickInv, TypeOK
<1>2. /\ IsTable(table')
      /\ DOMAIN table' = DOMAIN pending[s] \cup DOMAIN table
      /\ \A k \in DOMAIN table \ DOMAIN pending[s] : table'[k] = table[k]
  <2>1. IsTable(Over(pending[s], table))
    BY <1>1, OverTables
  <2>2. DOMAIN Over(pending[s], table) = DOMAIN pending[s] \cup DOMAIN table
    BY <1>1, OverTables
  <2>3. \A k \in DOMAIN table \ DOMAIN pending[s] : Over(pending[s], table)[k] = table[k]
    BY <1>1, OverTables
  <2> QED BY <2>1, <2>2, <2>3
<1>3. taken[s] \in Searchable /\ item[s] \in Item
  BY InHandTyped DEF QuickInv, TypeOK
<1>4. /\ DOMAIN pending[s] \cap DOMAIN table = {}
      /\ \A k \in DOMAIN pending[s] : k.item = item[s] /\ k.source = taken[s]
  BY <1>3 DEF QuickInv, OwnRows, Owns, InHand
<1>5. \A k \in DOMAIN table : k \in DOMAIN table' /\ table'[k] = table[k]
  BY <1>2, <1>4
<1>6. \A k \in DOMAIN table' \ DOMAIN table : k.item = item[s] /\ k.source = taken[s]
  BY <1>2, <1>4
<1>7. taken[s] \in Source
  BY <1>3, QuickSearchAssumption
<1> QED BY <1>2, <1>3, <1>5, <1>6, <1>7
        DEF Snapshots!Publish, Snapshots!IsTable, IsTable, Snapshots!Key, Key, Snapshots!Day, Day,
            Snapshots!Cell, Cell

(* What other writers commit is a publication or a relabelling too. *)
LEMMA OtherWriterKeeps == ASSUME TypeOK, OtherWriter PROVE [Snapshots!Next]_table
<1>1. IsTable(table) /\ IsTable(table')
  BY OtherWriterTyped DEF TypeOK
<1>2. Snapshots!IsTable(table')
  BY <1>1 DEF Snapshots!IsTable, IsTable, Snapshots!Key, Key, Snapshots!Day, Day,
              Snapshots!Cell, Cell
<1>3. CASE \E new \in Elsewhere : table' = Over(table, new)
  <2>1. PICK new \in Elsewhere : table' = Over(table, new)
    BY <1>3
  <2>2. IsTable(new) /\ \A j, k \in DOMAIN new : j.item = k.item /\ j.source = k.source
    BY QuickSearchAssumption
  <2>3. DOMAIN table' = DOMAIN table \cup DOMAIN new /\ \A k \in DOMAIN table : table'[k] = table[k]
    <3>1. DOMAIN Over(table, new) = DOMAIN table \cup DOMAIN new
      BY <1>1, <2>2, OverTables
    <3>2. \A k \in DOMAIN table : Over(table, new)[k] = table[k]
      BY <1>1, <2>2, OverTables
    <3> QED BY <2>1, <3>1, <3>2
  <2>4. CASE DOMAIN new = {}
    BY <1>1, <2>3, <2>4 DEF IsTable
  <2>5. CASE DOMAIN new # {}
    <3>1. PICK j \in DOMAIN new : TRUE
      BY <2>5
    <3>2. j.item \in Item /\ j.source \in Source
      BY <2>2, <3>1 DEF IsTable, Key
    <3> QED BY <1>2, <2>2, <2>3, <3>1, <3>2 DEF Snapshots!Next, Snapshots!Publish
  <2> QED BY <2>4, <2>5
<1>4. CASE table' \in Relabelled(table)
  <2>1. DOMAIN table' = DOMAIN table /\ \A j \in DOMAIN table : table'[j].price = table[j].price
    BY <1>1, <1>4, RelabelledTable
  <2> QED BY <1>2, <2>1 DEF Snapshots!Next, Snapshots!Relabel, Snapshots!SameRows
<1> QED BY <1>3, <1>4 DEF OtherWriter

(* Every step of the calls and of their environment is a publication, a     *)
(* relabelling, or nothing to the table.                                    *)
LEMMA SnapshotStep == QuickInv /\ [Next]_vars => [Snapshots!Next]_table
<1> SUFFICES ASSUME QuickInv, [Next]_vars PROVE [Snapshots!Next]_table
  OBVIOUS
<1>1. ASSUME NEW s \in Session, Commit(s) \/ SaveFails(s) PROVE [Snapshots!Next]_table
  BY <1>1, CommitPublishes DEF Commit, SaveFails, Snapshots!Next
<1>2. CASE OtherWriter
  BY <1>2, OtherWriterKeeps DEF QuickInv
<1>3. ASSUME NEW s \in Session, NEW i \in Item, Call(s, i) PROVE UNCHANGED table
  BY <1>3 DEF Call
<1>4. ASSUME NEW s \in Session,
             CheckCap(s) \/ Build(s) \/ Record(s) \/ Launch(s) \/ SaveChunk(s, Held(s))
               \/ Drained(s) \/ Return(s) \/ RecordAnswerLost(s) \/ FailsEarly(s)
      PROVE  UNCHANGED table
  BY <1>4 DEF CheckCap, Build, Record, Launch, SaveChunk, Drained, Return, RecordAnswerLost, FailsEarly
<1>5. ASSUME NEW s \in Session, NEW src \in Searchable,
             Worker(s, src) \/ TakeFailed(s, src) \/ TakeAnswered(s, src)
      PROVE  UNCHANGED table
  BY <1>5 DEF Worker, Answer, FetchFails, TakeFailed, TakeAnswered
<1>6. ASSUME NEW p \in Process, Kill(p) PROVE UNCHANGED table
  BY <1>6 DEF Kill
<1>7. CASE UtcMidnight \/ ArgentineMidnight \/ EditWatchlist \/ UNCHANGED vars
  BY <1>7 DEF UtcMidnight, ArgentineMidnight, EditWatchlist, vars
<1> QED BY <1>1, <1>2, <1>3, <1>4, <1>5, <1>6, <1>7 DEF Next, Advance, Breaks

(* The quick search keeps the promise of the snapshots (module              *)
(* SnapshotStore), with any number of calls saving at once: a commit adds   *)
(* the rows of one item at one store, and touches no row that is there.     *)
THEOREM QuickSearchKeepsSnapshots == Spec => Snapshots!Spec
<1>1. Init => Snapshots!Init
  BY DEF Init, Snapshots!Init, Snapshots!NoRows, NoRows
<1> QED BY <1>1, InitInv, InvStep, SnapshotStep, PTL DEF Spec, Snapshots!Spec

=============================================================================

-------------------------------- MODULE Radar --------------------------------
(***************************************************************************)
(* The writers of the database together: the daily run, the quick searches *)
(* and reclassify, in processes of their own, over one watchlist, one      *)
(* listings table and one host calendar.  An INSERT of a key that another  *)
(* open transaction inserted waits for that transaction to end.            *)
(***************************************************************************)
EXTENDS Reclassify, Stores

CONSTANTS Registry, DailyBlocked, Crawled, MaxRuns                  \* Ingest
CONSTANTS Session, Process, ProcessOf, Searchable, Watching,
          NoStore, DAILY_CAP                                        \* QuickSearch

ASSUME RadarAssumption ==
  /\ Registry \in Seq(Source)
  /\ \A m, n \in DOMAIN Registry : Registry[m] = Registry[n] => m = n
  /\ DailyBlocked \subseteq Source
  /\ Crawled \subseteq Source
  /\ MaxRuns \in Nat
  /\ IsFiniteSet(Session)
  /\ ProcessOf \in [Session -> Process]
  /\ Searchable \subseteq Source
  /\ Watching \subseteq Session
  /\ NoStore \notin Source
  /\ DAILY_CAP \in Nat \ {0}

VARIABLES today, arToday

(* The daily run... *)
VARIABLES runs, phase, plan, queue, stores, todo, kind, began, crawl, rows, sent,
          pending, report, answers, asks, mine

(* ...and the quick searches (qKind is their kind, and so on). *)
VARIABLES ran, lock, pc, item, qKind, qBegan, charged, worker, found, taken, qSent,
          qPending, leaving, visits

(* The writers the daily run meets are here in person. *)
Daily == INSTANCE Ingest WITH Elsewhere <- {}
Quick == INSTANCE QuickSearch WITH kind <- qKind, began <- qBegan, sent <- qSent,
                                   pending <- qPending, Elsewhere <- {}

dailyVars == <<runs, phase, plan, queue, stores, todo, kind, began, crawl, rows, sent,
               pending, report, answers, asks, mine>>
quickVars == <<ran, lock, pc, item, qKind, qBegan, charged, worker, found, taken, qSent,
               qPending, leaving, visits>>
days      == <<today, arToday>>
vars      == <<watch, table, days, dailyVars, quickVars, passVars>>

-----------------------------------------------------------------------------
Init == Daily!Init /\ Quick!Init /\ ReclassifyInit

QuickHeld == UNION {DOMAIN qPending[s] : s \in Session}

DailyNext ==
  /\ \/ \E requested \in SUBSET Source : Daily!StartRun(requested)
     \/ Daily!Step(QuickHeld)
     \/ Daily!Kill
  /\ UNCHANGED <<arToday, quickVars, passVars>>

(* What the statement of a quick search may have to wait for. *)
HeldFrom(s) == DOMAIN pending \cup UNION {DOMAIN qPending[t] : t \in Session \ {s}}

QuickNext ==
  /\ \/ \E s \in Session, i \in Item : Quick!Call(s, i)
     \/ \E s \in Session : Quick!Advance(s, HeldFrom(s)) \/ Quick!Breaks(s)
     \/ \E s \in Session, src \in Searchable : Quick!Worker(s, src)
     \/ \E p \in Process : Quick!Kill(p)
  /\ UNCHANGED <<dailyVars, passVars>>

ReclassifyNext == ReclassifyStep /\ UNCHANGED <<days, dailyVars, quickVars>>

(* The host's midnight, and Argentina's three hours later. *)
Midnights ==
  /\ Quick!UtcMidnight \/ Quick!ArgentineMidnight
  /\ UNCHANGED <<dailyVars, passVars>>

EditWatchlist == EditKinds /\ UNCHANGED <<days, dailyVars, quickVars, passes>>

Next == DailyNext \/ QuickNext \/ ReclassifyNext \/ Midnights \/ EditWatchlist

Spec == Init /\ [][Next]_vars

-----------------------------------------------------------------------------
TypeOK == Daily!TypeOK /\ Quick!TypeOK /\ ReclassifyTypeOK

(* With all its writers at work, the table keeps the promise of the daily   *)
(* snapshot: no stored price changes, and a commit adds the rows of one     *)
(* item at one source.                                                      *)
Snapshots == INSTANCE SnapshotStore
KeepsSnapshots == Snapshots!Spec

=============================================================================

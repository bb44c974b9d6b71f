-------------------------------- MODULE SetUp --------------------------------
(***************************************************************************)
(* What every entry point does first (db.py, init_db): create the tables   *)
(* that are missing, then add the column tracked_items.kind, with its      *)
(* constraint, to a database that predates it.  The dashboard and a cron   *)
(* job or command may start at once right after a deploy.                  *)
(***************************************************************************)
EXTENDS Integers, Sequences, FiniteSets

CONSTANTS
  Process, NoProcess,
  Dialect             \* postgresql or sqlite

ASSUME SetUpAssumption == NoProcess \notin Process /\ Dialect \in {"postgresql", "sqlite"}

VARIABLES
  schema,     \* what the database has: the tables, the column, its constraint
  altering,   \* the process whose ALTER is in an open transaction
  starting,   \* per process: where its start stands
  faulty,     \* history: processes whose statements failed for other reasons
  predates    \* history: the database had its tables before the first start

setUpVars == <<schema, altering, starting, faulty, predates>>

Stage == {"off", "creating", "created", "adding", "altered", "lost", "up", "aborted"}

Schema == [tables : BOOLEAN, kind : BOOLEAN, check : BOOLEAN]

Empty == [tables |-> FALSE, kind |-> FALSE, check |-> FALSE]
Old   == [tables |-> TRUE,  kind |-> FALSE, check |-> FALSE]
Whole == [tables |-> TRUE,  kind |-> TRUE,  check |-> TRUE]

SetUpInit ==
  /\ schema \in {Empty, Old}
  /\ altering = NoProcess
  /\ starting = [p \in Process |-> "off"]
  /\ faulty = {}
  /\ predates = schema.tables

Goes(p, stage) == starting' = [starting EXCEPT ![p] = stage]

(* create_all looks for the tables, *)
LookForTables(p) ==
  /\ starting[p] \in {"off", "aborted"}
  /\ Goes(p, IF schema.tables THEN "created" ELSE "creating")
  /\ faulty' = faulty \ {p}
  /\ UNCHANGED <<schema, altering, predates>>

(* and creates them in one transaction, which fails if another process has  *)
(* done so since.  Nothing catches that.                                    *)
CreateTables(p) ==
  /\ starting[p] = "creating"
  /\ IF schema.tables
     THEN Goes(p, "aborted") /\ UNCHANGED schema
     ELSE Goes(p, "created") /\ schema' = Whole
  /\ UNCHANGED <<altering, faulty, predates>>

LookForColumn(p) ==
  /\ starting[p] = "created"
  /\ Goes(p, IF schema.kind THEN "up" ELSE "adding")
  /\ UNCHANGED <<schema, altering, faulty, predates>>

(* ALTER TABLE waits for whoever is at it, then finds the column or not. *)
AddColumn(p) ==
  /\ starting[p] = "adding"
  /\ altering = NoProcess
  /\ IF schema.kind
     THEN Goes(p, "lost") /\ UNCHANGED altering
     ELSE Goes(p, "altered") /\ altering' = p
  /\ UNCHANGED <<schema, faulty, predates>>

(* Mutant: column and constraint are committed apart, and the second        *)
(* statement may fail.                                                      *)
CommitColumn_Apart(p) ==
  /\ starting[p] = "altered"
  /\ altering = p
  /\ \E added \in BOOLEAN :
       /\ schema' = [schema EXCEPT !.kind = TRUE, !.check = added]
       /\ Goes(p, IF added THEN "up" ELSE "lost")
  /\ altering' = NoProcess
  /\ UNCHANGED <<faulty, predates>>

(* On PostgreSQL the constraint follows in the same transaction; SQLite     *)
(* cannot add one.                                                          *)
CommitColumn(p) ==
  /\ starting[p] = "altered"
  /\ altering = p
  /\ schema' = [schema EXCEPT !.kind = TRUE, !.check = (Dialect = "postgresql")]
  /\ altering' = NoProcess
  /\ Goes(p, "up")
  /\ UNCHANGED <<faulty, predates>>

(* Mutant: the transaction of a failed statement is left open. *)
AddColumnFails_LeftOpen(p) ==
  /\ starting[p] \in {"adding", "altered"}
  /\ faulty' = faulty \cup {p}
  /\ Goes(p, "lost")
  /\ UNCHANGED <<schema, altering, predates>>

(* A statement of the migration fails for a reason of the database's own. *)
AddColumnFails(p) ==
  /\ starting[p] \in {"adding", "altered"}
  /\ altering' = IF altering = p THEN NoProcess ELSE altering
  /\ faulty' = faulty \cup {p}
  /\ Goes(p, "lost")
  /\ UNCHANGED <<schema, predates>>

(* The loser looks again: if the column is there now, the other side won. *)
LookAgain(p) ==
  /\ starting[p] = "lost"
  /\ Goes(p, IF schema.kind THEN "up" ELSE "aborted")
  /\ UNCHANGED <<schema, altering, faulty, predates>>

SetUpStep(p) ==
  \/ LookForTables(p) \/ CreateTables(p) \/ LookForColumn(p)
  \/ AddColumn(p) \/ CommitColumn(p) \/ AddColumnFails(p) \/ LookAgain(p)

(* The process is gone, and an open transaction with it. *)
StopsRunning(p) ==
  /\ starting[p] # "off"
  /\ altering' = IF altering = p THEN NoProcess ELSE altering
  /\ Goes(p, "off")
  /\ faulty' = faulty \ {p}
  /\ UNCHANGED <<schema, predates>>

-----------------------------------------------------------------------------
SetUpTypeOK ==
  /\ schema \in Schema
  /\ altering \in Process \cup {NoProcess}
  /\ \A p \in Process : altering = p <=> starting[p] = "altered"
  /\ starting \in [Process -> Stage]
  /\ faulty \subseteq Process
  /\ predates \in BOOLEAN

(* A process that has started finds the tables, the column and, on          *)
(* PostgreSQL, its constraint, whatever crashed half-way; and no process    *)
(* is kept from starting by another one that migrates the same database.    *)
StartsWhole ==
  \A p \in Process :
    /\ starting[p] = "up" =>
         schema.tables /\ schema.kind /\ (Dialect = "postgresql" => schema.check)
    /\ starting[p] = "aborted" => p \in faulty \/ ~predates

=============================================================================

--------------------------- MODULE DashboardProofs ---------------------------
(***************************************************************************)
(* Proofs about the start of the processes that share a database, for any  *)
(* number of them, either dialect, and whatever is edited meanwhile; and   *)
(* about the price list they edit, for any number of writers and edits.    *)
(***************************************************************************)
EXTENDS Dashboard, FiniteSetTheorems, TLAPS

(* What the database has is never taken back, and comes in this order. *)
SchemaOK ==
  /\ schema \in Schema
  /\ predates => schema.tables
  /\ schema.kind => schema.tables
  /\ schema.kind /\ Dialect = "postgresql" => schema.check

(* Where a start stands says what the database has by then; one that lost   *)
(* the column to another process finds it there.                            *)
StartOK(p) ==
  /\ starting[p] = "creating" => ~predates
  /\ starting[p] \in {"created", "adding", "altered", "lost"} => schema.tables
  /\ starting[p] = "up" => schema.kind
  /\ starting[p] = "lost" => schema.kind \/ p \in faulty
  /\ starting[p] = "aborted" => p \in faulty \/ ~predates

SetUpInv ==
  /\ SchemaOK
  /\ starting \in [Process -> Stage]
  /\ \A p \in Process : StartOK(p)

-----------------------------------------------------------------------------
(* Nobody has started, on an empty database or on an old one. *)
LEMMA InitSetUp == Init => SetUpInv
<1> SUFFICES ASSUME Init PROVE SetUpInv
  OBVIOUS
<1>1. /\ schema = Empty \/ schema = Old
      /\ predates = schema.tables
      /\ starting = [p \in Process |-> "off"]
  BY DEF Init, SetUpInit
<1>2. schema \in Schema /\ ~schema.kind
  <2>1. CASE schema = Empty
    BY <2>1 DEF Empty, Schema
  <2>2. CASE schema = Old
    BY <2>2 DEF Old, Schema
  <2> QED BY <1>1, <2>1, <2>2
<1>3. SchemaOK
  BY <1>1, <1>2 DEF SchemaOK
<1>4. starting \in [Process -> Stage]
  BY <1>1 DEF Stage
<1>5. ASSUME NEW p \in Process PROVE StartOK(p)
  BY <1>1 DEF StartOK
<1> QED BY <1>3, <1>4, <1>5 DEF SetUpInv

(* A step of one process moves the schema forward only, forgets no fault    *)
(* of the others and leaves their starts where they stand: it is enough to  *)
(* look at its own.                                                         *)
LEMMA OwnStep ==
  ASSUME SetUpInv, NEW p \in Process, NEW stage \in Stage,
         Goes(p, stage), SchemaOK', predates' = predates,
         schema.tables => schema'.tables, schema.kind => schema'.kind,
         faulty \ {p} \subseteq faulty',
         StartOK(p)'
  PROVE  SetUpInv'
<1> USE DEF SetUpInv
<1>1. starting' = [starting EXCEPT ![p] = stage]
  BY DEF Goes
<1>2. starting' \in [Process -> Stage]
  BY <1>1
<1>3. ASSUME NEW q \in Process PROVE StartOK(q)'
  <2>1. CASE q = p
    BY <2>1
  <2>2. CASE q # p
    <3>1. starting'[q] = starting[q] /\ StartOK(q)
      BY <1>1, <2>2
    <3>2. q \in faulty => q \in faulty'
      BY <2>2
    <3> QED BY <3>1, <3>2 DEF StartOK
  <2> QED BY <2>1, <2>2
<1> QED BY <1>2, <1>3

(* Every stage of a start, and being stopped in any of them. *)
LEMMA SetUpNext ==
  ASSUME SetUpInv, NEW p \in Process, SetUpStep(p) \/ StopsRunning(p)
  PROVE  SetUpInv'
<1>0. /\ SchemaOK /\ StartOK(p) /\ starting \in [Process -> Stage]
      /\ schema \in [tables : BOOLEAN, kind : BOOLEAN, check : BOOLEAN]
  BY DEF SetUpInv, SchemaOK, Schema
<1>1. CASE LookForTables(p)
  <2>1. SchemaOK'
    BY <1>0, <1>1 DEF LookForTables, SchemaOK
  <2>2. StartOK(p)'
    BY <1>0, <1>1 DEF LookForTables, Goes, StartOK, SchemaOK
  <2> QED BY <1>0, <1>1, <2>1, <2>2, OwnStep DEF LookForTables, Stage
<1>2. CASE CreateTables(p)
  <2>1. SchemaOK'
    <3>1. CASE schema' = schema
      BY <1>0, <1>2, <3>1 DEF CreateTables, SchemaOK
    <3>2. CASE schema' = Whole
      BY <3>2 DEF SchemaOK, Schema, Whole
    <3> QED BY <1>2, <3>1, <3>2 DEF CreateTables
  <2>2. StartOK(p)'
    BY <1>0, <1>2 DEF CreateTables, Goes, StartOK, Whole
  <2>3. (schema.tables => schema'.tables) /\ (schema.kind => schema'.kind)
    BY <1>0, <1>2 DEF CreateTables, Whole
  <2> QED BY <1>0, <1>2, <2>1, <2>2, <2>3, OwnStep DEF CreateTables, Stage
<1>3. CASE LookForColumn(p)
  <2>1. SchemaOK'
    BY <1>0, <1>3 DEF LookForColumn, SchemaOK
  <2>2. StartOK(p)'
    BY <1>0, <1>3 DEF LookForColumn, Goes, StartOK
  <2> QED BY <1>0, <1>3, <2>1, <2>2, OwnStep DEF LookForColumn, Stage
<1>4. CASE AddColumn(p)
  <2>1. SchemaOK'
    BY <1>0, <1>4 DEF AddColumn, SchemaOK
  <2>2. StartOK(p)'
    BY <1>0, <1>4 DEF AddColumn, Goes, StartOK
  <2> QED BY <1>0, <1>4, <2>1, <2>2, OwnStep DEF AddColumn, Stage
<1>5. CASE CommitColumn(p)
  <2>1. schema' = [schema EXCEPT !.kind = TRUE, !.check = (Dialect = "postgresql")]
    BY <1>5 DEF CommitColumn
  <2>2. schema' \in Schema /\ schema'.tables = schema.tables /\ schema'.kind
           /\ schema'.check = (Dialect = "postgresql") /\ schema.tables
    BY <1>0, <1>5, <2>1 DEF Schema, StartOK, CommitColumn
  <2>3. SchemaOK'
    BY <2>2 DEF SchemaOK
  <2>4. StartOK(p)'
    BY <1>0, <1>5, <2>2 DEF CommitColumn, Goes, StartOK
  <2> QED BY <1>0, <1>5, <2>2, <2>3, <2>4, OwnStep DEF CommitColumn, Stage
<1>6. CASE AddColumnFails(p)
  <2>1. SchemaOK'
    BY <1>0, <1>6 DEF AddColumnFails, SchemaOK
  <2>2. StartOK(p)'
    BY <1>0, <1>6 DEF AddColumnFails, Goes, StartOK
  <2> QED BY <1>0, <1>6, <2>1, <2>2, OwnStep DEF AddColumnFails, Stage
<1>7. CASE LookAgain(p)
  <2>1. SchemaOK'
    BY <1>0, <1>7 DEF LookAgain, SchemaOK
  <2>2. StartOK(p)'
    BY <1>0, <1>7 DEF LookAgain, Goes, StartOK
  <2> QED BY <1>0, <1>7, <2>1, <2>2, OwnStep DEF LookAgain, Stage
<1>8. CASE StopsRunning(p)
  <2>1. SchemaOK'
    BY <1>0, <1>8 DEF StopsRunning, SchemaOK
  <2>2. StartOK(p)'
    BY <1>0, <1>8 DEF StopsRunning, Goes, StartOK
  <2> QED BY <1>0, <1>8, <2>1, <2>2, OwnStep DEF StopsRunning, Stage
<1> QED BY <1>1, <1>2, <1>3, <1>4, <1>5, <1>6, <1>7, <1>8 DEF SetUpStep

(* A process that is up has the tables, the column and its constraint, and  *)
(* none is kept from starting by another one's migration: whatever order    *)
(* they look, alter, fail and are stopped in.                               *)
THEOREM EveryoneStartsWhole == Spec => []StartsWhole
<1>1. SetUpInv /\ [Next]_vars => SetUpInv'
  <2> SUFFICES ASSUME SetUpInv, [Next]_vars PROVE SetUpInv'
    OBVIOUS
  <2>1. ASSUME NEW p \in Process, SetUpStep(p) \/ Stop(p) PROVE SetUpInv'
    BY <2>1, SetUpNext DEF Stop
  <2>2. ASSUME UNCHANGED setUpVars PROVE SetUpInv'
    BY <2>2 DEF setUpVars, SetUpInv, SchemaOK, StartOK
  <2> QED BY <2>1, <2>2 DEF Next, vars
<1>2. SetUpInv => StartsWhole
  BY DEF SetUpInv, SchemaOK, StartOK, StartsWhole
<1> QED BY <1>1, <1>2, InitSetUp, PTL DEF Spec

-----------------------------------------------------------------------------
(* The price list, for any number of writers and of edits. *)
Row == [id : 1..MaxEdits, item : Item, price : Nat \ {0}]

(* What an edit under way carries. *)
EditOK(e) ==
  /\ e.op = "looked" => e.seen \in Row \cup {NoService}
  /\ e.op = "add" => e.item \in Item /\ e.price \in Int /\ e.seen \in Row \cup {NoService}
  /\ e.op = "set" => e.price \in Int

Adders == {w \in Writer : edit[w].op = "add"}

(* Each id given out, and each that may still be, is paid for by an edit:   *)
(* this is what bounds the ids.                                             *)
EditsOK ==
  /\ DOMAIN edit = Writer
  /\ \A w \in Writer : EditOK(edit[w])
  /\ next_id + Cardinality(Adders) <= edits + 1

ListTypes ==
  /\ service \in Row \cup {NoService}
  /\ next_id \in 1..MaxEdits + 1
  /\ told \in [Writer -> Outcome]
  /\ confirm \in [Admin -> 0..MaxEdits]
  /\ edits \in 0..MaxEdits

(* Who edits has started, and a row has its table. *)
Ready ==
  /\ \A w \in Writer : edit[w] # Rest => starting[ProcessOf[w]] = "up"
  /\ service # NoService => schema.tables

DashboardInv == SetUpInv /\ SetUpTypeOK /\ ListTypes /\ Ready /\ EditsOK

(* Every step of the set-up keeps its own types and takes no table back;    *)
(* only a process that is not up takes one.                                 *)
LEMMA SetUpTyped ==
  ASSUME SetUpTypeOK, NEW p \in Process, SetUpStep(p)
  PROVE  /\ SetUpTypeOK' /\ (schema.tables => schema'.tables)
         /\ starting[p] # "up" /\ \A q \in Process : q # p => starting'[q] = starting[q]
<1>0. /\ schema \in [tables : BOOLEAN, kind : BOOLEAN, check : BOOLEAN]
      /\ altering \in Process \cup {NoProcess} /\ NoProcess \notin Process
      /\ \A q \in Process : altering = q <=> starting[q] = "altered"
      /\ starting \in [Process -> Stage] /\ faulty \subseteq Process /\ predates \in BOOLEAN
  BY SetUpAssumption DEF SetUpTypeOK, Schema
<1>1. CASE LookForTables(p)
  BY <1>0, <1>1 DEF LookForTables, Goes, SetUpTypeOK, Stage, Schema
<1>2. CASE CreateTables(p)
  <2>1. schema' \in Schema /\ (schema.tables => schema'.tables)
    <3>1. CASE schema' = schema
      BY <1>0, <3>1 DEF Schema
    <3>2. CASE schema' = Whole
      BY <3>2 DEF Schema, Whole
    <3> QED BY <1>2, <3>1, <3>2 DEF CreateTables
  <2>2. PICK stage \in Stage : starting' = [starting EXCEPT ![p] = stage] /\ stage # "altered"
    BY <1>2 DEF CreateTables, Goes, Stage
  <2> QED BY <1>0, <1>2, <2>1, <2>2 DEF CreateTables, SetUpTypeOK
<1>3. CASE LookForColumn(p)
  BY <1>0, <1>3 DEF LookForColumn, Goes, SetUpTypeOK, Stage, Schema
<1>4. CASE AddColumn(p)
  BY <1>0, <1>4 DEF AddColumn, Goes, SetUpTypeOK, Stage, Schema
<1>5. CASE CommitColumn(p)
  BY <1>0, <1>5 DEF CommitColumn, Goes, SetUpTypeOK, Stage, Schema
<1>6. CASE AddColumnFails(p)
  BY <1>0, <1>6 DEF AddColumnFails, Goes, SetUpTypeOK, Stage, Schema
<1>7. CASE LookAgain(p)
  BY <1>0, <1>7 DEF LookAgain, Goes, SetUpTypeOK, Stage, Schema
<1> QED BY <1>1, <1>2, <1>3, <1>4, <1>5, <1>6, <1>7 DEF SetUpStep

(* What is under way adds up to something. *)
LEMMA AddersFinite ==
  ASSUME IsFiniteSet(Writer)
  PROVE  IsFiniteSet(Adders) /\ Cardinality(Adders) \in Nat
<1>1. Adders \in SUBSET Writer
  BY DEF Adders
<1> QED BY <1>1, FS_Subset, FS_CardinalityType

(* An edit is over, with an answer: what it did to the row is of the right  *)
(* type, and an id it used was its own.                                     *)
LEMMA AnswerStep ==
  ASSUME IsFiniteSet(Writer), DashboardInv, NEW w \in Writer, NEW outcome \in Outcome,
         Answers(w, outcome), UNCHANGED <<setUpVars, confirm, edits>>,
         service' \in Row \cup {NoService},
         service = NoService => service' = NoService \/ edit[w] # Rest,
         next_id' = next_id \/ (next_id' = next_id + 1 /\ edit[w].op = "add")
  PROVE  DashboardInv'
<1> USE DEF DashboardInv
<1>0. /\ edit' = [edit EXCEPT ![w] = Rest] /\ told' = [told EXCEPT ![w] = outcome]
      /\ DOMAIN edit = Writer
      /\ UNCHANGED <<schema, altering, starting, faulty, predates>>
  BY DEF Answers, EditsOK, setUpVars
<1>1. SetUpInv' /\ SetUpTypeOK'
  BY <1>0 DEF SetUpInv, SetUpTypeOK, SchemaOK, StartOK
<1>2. Adders' = Adders \ {w}
  BY <1>0 DEF Adders, Rest
<1>3. /\ Cardinality(Adders) \in Nat
      /\ Cardinality(Adders') = IF w \in Adders THEN Cardinality(Adders) - 1 ELSE Cardinality(Adders)
      /\ Cardinality(Adders') \in Nat
  BY <1>2, AddersFinite, FS_RemoveElement, FS_CardinalityType
<1>4. edit[w].op = "add" => w \in Adders
  BY DEF Adders
<1>5. /\ next_id \in 1..MaxEdits + 1 /\ edits \in 0..MaxEdits /\ edits' = edits /\ MaxEdits \in Nat
      /\ next_id + Cardinality(Adders) <= edits + 1
  BY PriceListAssumption DEF ListTypes, EditsOK
<1>6. next_id' + Cardinality(Adders') <= edits' + 1 /\ next_id' \in 1..MaxEdits + 1
  BY <1>3, <1>4, <1>5
<1>7. EditsOK'
  <2>1. \A v \in Writer : EditOK(edit'[v])
    BY <1>0 DEF EditsOK, EditOK, Rest
  <2> QED BY <1>0, <1>6, <2>1 DEF EditsOK, EditOK
<1>8. ListTypes'
  BY <1>0, <1>5, <1>6 DEF ListTypes, Row
<1>9. Ready'
  <2>1. edit[w] # Rest => schema.tables
    <3>1. starting[ProcessOf[w]] = "up" => schema.tables
      BY PriceListAssumption DEF SetUpInv, SchemaOK, StartOK
    <3> QED BY <3>1 DEF Ready
  <2> QED BY <1>0, <2>1 DEF Ready
<1> QED BY <1>1, <1>7, <1>8, <1>9

(* A writer looks or decides: it carries something of the right type, and   *)
(* one that will use an id has counted its edit.                            *)
LEMMA CarryStep ==
  ASSUME IsFiniteSet(Writer), DashboardInv, NEW w \in Writer, NEW e, EditOK(e),
         starting[ProcessOf[w]] = "up", UNCHANGED <<setUpVars, service, next_id>>,
         edit' = [edit EXCEPT ![w] = e], told' \in [Writer -> Outcome],
         confirm' \in [Admin -> 0..MaxEdits], edits' \in 0..MaxEdits,
         edits' = edits \/ edits' = edits + 1, e.op = "add" => edits' = edits + 1
  PROVE  DashboardInv'
<1> USE DEF DashboardInv
<1>0. DOMAIN edit = Writer /\ UNCHANGED <<schema, altering, starting, faulty, predates>>
  BY DEF EditsOK, setUpVars
<1>1. SetUpInv' /\ SetUpTypeOK'
  BY <1>0 DEF SetUpInv, SetUpTypeOK, SchemaOK, StartOK
<1>2. Adders' \subseteq Adders \cup {w} /\ (e.op # "add" => Adders' \subseteq Adders)
  BY <1>0 DEF Adders
<1>3. IsFiniteSet(Adders) /\ IsFiniteSet(Adders \cup {w}) /\ Cardinality(Adders) \in Nat
      /\ Cardinality(Adders \cup {w}) <= Cardinality(Adders) + 1 /\ Cardinality(Adders \cup {w}) \in Nat
  <2>1. IsFiniteSet(Adders) /\ Cardinality(Adders) \in Nat
    BY AddersFinite
  <2>2. /\ IsFiniteSet(Adders \cup {w})
        /\ Cardinality(Adders \cup {w}) = IF w \in Adders THEN Cardinality(Adders) ELSE Cardinality(Adders) + 1
    BY <2>1, FS_AddElement
  <2> QED BY <2>1, <2>2
<1>4. /\ Cardinality(Adders') \in Nat /\ Cardinality(Adders') <= Cardinality(Adders) + 1
      /\ e.op # "add" => Cardinality(Adders') <= Cardinality(Adders)
  <2>1. IsFiniteSet(Adders') /\ Cardinality(Adders') <= Cardinality(Adders \cup {w})
    BY <1>2, <1>3, FS_Subset
  <2>2. e.op # "add" => Cardinality(Adders') <= Cardinality(Adders)
    BY <1>2, <1>3, FS_Subset
  <2>3. Cardinality(Adders') \in Nat
    BY <2>1, FS_CardinalityType
  <2> QED BY <1>3, <2>1, <2>2, <2>3
<1>5. next_id \in Nat /\ edits \in Nat /\ next_id + Cardinality(Adders) <= edits + 1
  BY PriceListAssumption DEF ListTypes, EditsOK
<1>6. next_id' + Cardinality(Adders') <= edits' + 1
  BY <1>3, <1>4, <1>5
<1>7. EditsOK'
  <2>1. \A v \in Writer : EditOK(edit'[v])
    BY <1>0 DEF EditsOK, EditOK
  <2> QED BY <1>0, <1>6, <2>1 DEF EditsOK, EditOK
<1>8. ListTypes'
  BY DEF ListTypes, Row
<1>9. Ready'
  BY <1>0 DEF Ready
<1> QED BY <1>1, <1>7, <1>8, <1>9

(* An edit that was decided without anything to write, or with. *)
LEMMA DecideStep ==
  ASSUME IsFiniteSet(Writer), DashboardInv, NEW w \in Writer, NEW what, Looked(w), Decides(w, what),
         what.op = "done" => what.outcome \in Outcome,
         EditOK(what), UNCHANGED setUpVars, confirm' \in [Admin -> 0..MaxEdits]
  PROVE  DashboardInv'
<1> USE DEF DashboardInv
<1>1. /\ edit[w] # Rest /\ starting[ProcessOf[w]] = "up"
      /\ edits' = edits + 1 /\ edits' \in 0..MaxEdits /\ UNCHANGED <<service, next_id>>
  BY PriceListAssumption DEF Looked, Rest, Ready, Decides, ListTypes
<1>2. CASE what.op = "done"
  <2>1. /\ edit' = [edit EXCEPT ![w] = Rest] /\ told' = [told EXCEPT ![w] = what.outcome]
    BY <1>2 DEF Decides, Answers
  <2>2. told' \in [Writer -> Outcome] /\ EditOK(Rest) /\ Rest.op # "add"
    BY <1>2, <2>1 DEF ListTypes, EditOK, Rest
  <2> QED BY <1>1, <2>1, <2>2, CarryStep
<1>3. CASE what.op # "done"
  <2>1. edit' = [edit EXCEPT ![w] = what] /\ told' = [told EXCEPT ![w] = "nothing"]
    BY <1>3 DEF Decides
  <2>2. told' \in [Writer -> Outcome]
    BY <2>1 DEF ListTypes, Outcome
  <2> QED BY <1>1, <2>1, <2>2, CarryStep
<1> QED BY <1>2, <1>3

(* What the writer saw when it looked is a row or none. *)
LEMMA SeenTyped ==
  ASSUME DashboardInv, NEW w \in Writer, edit[w].op \in {"looked", "add"}
  PROVE  edit[w].seen \in Row \cup {NoService}
  BY DEF DashboardInv, EditsOK, EditOK

(* Looking, refusing and deciding, on the page and in the command line. *)
LEMMA DecisionsKept ==
  ASSUME IsFiniteSet(Writer), DashboardInv, NEW w \in Writer, UNCHANGED setUpVars,
         \/ Look(w) \/ LookAway(w)
         \/ \E typed \in Typed :
              \/ RefusePrice(w, typed)
              \/ \E item \in Item : Add(w, item, typed)
              \/ \E id \in 1..next_id : SetPrice(w, id, typed)
         \/ \E id \in 1..next_id : Remove(w, id)
         \/ TapRemove(w) \/ TapYes(w) \/ TapNo(w)
  PROVE  DashboardInv'
<1> USE DEF DashboardInv
<1>0. /\ service \in Row \cup {NoService} /\ confirm \in [Admin -> 0..MaxEdits]
      /\ told \in [Writer -> Outcome] /\ edits \in 0..MaxEdits /\ MaxEdits \in Nat
  BY PriceListAssumption DEF ListTypes
<1>d. ASSUME NEW outcome \in Outcome
      PROVE  /\ EditOK(Done(outcome)) /\ Done(outcome).op = "done"
             /\ Done(outcome).outcome \in Outcome
  BY DEF EditOK, Done
<1>c. \A typed \in Typed : Centavos(typed) \in Int
  BY PriceListAssumption DEF Centavos
<1>1. CASE Look(w)
  <2> DEFINE e == [op |-> "looked", seen |-> service]
  <2>1. EditOK(e) /\ e.op # "add"
    BY <1>0 DEF EditOK
  <2> HIDE DEF e
  <2> QED BY <1>0, <1>1, <2>1, CarryStep DEF Look, e
<1>2. CASE LookAway(w)
  <2>1. EditOK(Rest) /\ Rest.op # "add"
    BY DEF EditOK, Rest
  <2>2. starting[ProcessOf[w]] = "up"
    BY <1>2 DEF LookAway, Ready, Rest
  <2> QED BY <1>0, <1>2, <2>1, <2>2, CarryStep DEF LookAway
<1>3. ASSUME NEW typed \in Typed, RefusePrice(w, typed) PROVE DashboardInv'
  BY <1>0, <1>3, <1>d, DecideStep DEF RefusePrice, Outcome
<1>4. ASSUME NEW typed \in Typed, NEW item \in Item, Add(w, item, typed) PROVE DashboardInv'
  <2> DEFINE seen == Labelled(w)
             e == [op |-> "add", item |-> item, price |-> Centavos(typed), seen |-> seen]
  <2>1. seen \in Row \cup {NoService}
    BY <1>0, <1>4, SeenTyped DEF Add, Looked, Labelled
  <2>2. EditOK(e) /\ e.op # "done"
    BY <1>c, <2>1 DEF EditOK
  <2>3. "unchanged" \in Outcome
    BY DEF Outcome
  <2>4. Looked(w) /\ confirm' = confirm /\ (Decides(w, Done("unchanged")) \/ Decides(w, e))
    BY <1>4 DEF Add
  <2> HIDE DEF e
  <2> QED BY <1>0, <1>d, <2>2, <2>3, <2>4, DecideStep
<1>5. ASSUME NEW typed \in Typed, NEW id \in 1..next_id, SetPrice(w, id, typed) PROVE DashboardInv'
  <2> DEFINE e == [op |-> "set", price |-> Centavos(typed), seen |-> edit[w].seen]
  <2>1. EditOK(e) /\ e.op # "done"
    BY <1>c DEF EditOK
  <2>2. "unchanged" \in Outcome /\ "not_found" \in Outcome
    BY DEF Outcome
  <2>3. /\ Looked(w) /\ confirm' = confirm
        /\ Decides(w, Done("unchanged")) \/ Decides(w, Done("not_found")) \/ Decides(w, e)
    BY <1>5 DEF SetPrice
  <2> HIDE DEF e
  <2> QED BY <1>0, <1>d, <2>1, <2>2, <2>3, DecideStep
<1>6. ASSUME NEW id \in 1..next_id, Remove(w, id) PROVE DashboardInv'
  <2> DEFINE e == [op |-> "remove", seen |-> edit[w].seen]
  <2>1. EditOK(e) /\ e.op # "done"
    BY DEF EditOK
  <2>2. "not_found" \in Outcome
    BY DEF Outcome
  <2>3. Looked(w) /\ confirm' = confirm /\ (Decides(w, Done("not_found")) \/ Decides(w, e))
    BY <1>6 DEF Remove
  <2> HIDE DEF e
  <2> QED BY <1>0, <1>d, <2>1, <2>2, <2>3, DecideStep
<1>7. CASE TapRemove(w)
  <2>1. edit[w].seen.id \in 0..MaxEdits
    BY <1>7, SeenTyped DEF TapRemove, Looked, Row
  <2>2. confirm' \in [Admin -> 0..MaxEdits] /\ "nothing" \in Outcome
    BY <1>0, <1>7, <2>1 DEF TapRemove, Outcome
  <2> QED BY <1>7, <1>d, <2>2, DecideStep DEF TapRemove
<1>8. CASE TapYes(w)
  <2> DEFINE e == [op |-> "remove", seen |-> edit[w].seen]
  <2>1. EditOK(e) /\ e.op # "done"
    BY DEF EditOK
  <2>2. confirm' \in [Admin -> 0..MaxEdits]
    BY <1>0, <1>8 DEF TapYes, NoId
  <2>3. Looked(w) /\ Decides(w, e)
    BY <1>8 DEF TapYes
  <2> HIDE DEF e
  <2> QED BY <2>1, <2>2, <2>3, DecideStep
<1>9. CASE TapNo(w)
  <2>1. confirm' \in [Admin -> 0..MaxEdits] /\ "nothing" \in Outcome
    BY <1>0, <1>9 DEF TapNo, NoId, Outcome
  <2> QED BY <1>9, <1>d, <2>1, DecideStep DEF TapNo
<1> QED BY <1>1, <1>2, <1>3, <1>4, <1>5, <1>6, <1>7, <1>8, <1>9

(* The commits: each leaves a row or none, and tells what it did. *)
LEMMA CommitsKept ==
  ASSUME IsFiniteSet(Writer), DashboardInv, NEW w \in Writer, UNCHANGED setUpVars, Commit(w)
  PROVE  DashboardInv' /\ (service' # service => Told(w))
<1> USE DEF DashboardInv
<1>0. /\ service \in Row \cup {NoService} /\ told \in [Writer -> Outcome] /\ DOMAIN edit = Writer
      /\ next_id \in 1..MaxEdits + 1 /\ edits \in 0..MaxEdits /\ MaxEdits \in Nat
  BY PriceListAssumption DEF ListTypes, EditsOK
<1>r. NoService \notin Row
  BY <1>0, PriceListAssumption DEF Row
<1>o. {"added", "failed", "updated", "changed", "removed"} \subseteq Outcome
  BY DEF Outcome
<1>a. ASSUME NEW outcome, Answers(w, outcome) PROVE edit'[w] = Rest /\ told'[w] = outcome
  BY <1>0, <1>a DEF Answers
<1>1. CASE Insert(w)
  <2>1. /\ edit[w].op = "add" /\ edit[w] # Rest /\ next_id' = next_id + 1
        /\ UNCHANGED <<confirm, edits>>
    BY <1>1 DEF Insert, Rest
  <2>2. next_id \in 1..MaxEdits
    <3>1. w \in Adders
      BY <2>1 DEF Adders
    <3>2. Cardinality(Adders) \in Nat /\ Cardinality(Adders) # 0
      BY <3>1, AddersFinite, FS_EmptySet
    <3> QED BY <1>0, <3>2 DEF EditsOK
  <2>3. edit[w].item \in Item /\ edit[w].price \in Int
    BY <2>1 DEF EditsOK, EditOK
  <2>4. CASE service = NoService /\ Storable(edit[w].price)
    <3>1. /\ service' = [id |-> next_id, item |-> edit[w].item, price |-> edit[w].price]
          /\ Answers(w, "added")
      BY <1>1, <2>4 DEF Insert
    <3>2. service' \in Row /\ service'.id = next_id
      BY <2>2, <2>3, <2>4, <3>1 DEF Row, Storable
    <3>3. DashboardInv'
      BY <1>o, <2>1, <3>1, <3>2, AnswerStep
    <3>4. Told(w)
      BY <1>a, <2>1, <2>4, <3>1 DEF Told
    <3> QED BY <3>3, <3>4
  <2>5. CASE ~(service = NoService /\ Storable(edit[w].price))
    <3>1. UNCHANGED service /\ Answers(w, "failed")
      BY <1>1, <2>5 DEF Insert
    <3> QED BY <1>0, <1>o, <2>1, <3>1, AnswerStep
  <2> QED BY <2>4, <2>5
<1>2. CASE UpdateBoth(w)
  <2>1. edit[w].op = "add" /\ edit[w] # Rest /\ UNCHANGED <<next_id, confirm, edits>>
    BY <1>2 DEF UpdateBoth, Rest
  <2>2. edit[w].item \in Item /\ edit[w].price \in Int
    BY <2>1 DEF EditsOK, EditOK
  <2>3. CASE Still(edit[w].seen) /\ Storable(edit[w].price)
    <3> DEFINE item == Written(edit[w].item, edit[w].seen.item, service.item)
               price == Written(edit[w].price, edit[w].seen.price, service.price)
    <3>1. service' = [service EXCEPT !.item = item, !.price = price] /\ Answers(w, "updated")
      BY <1>2, <2>3 DEF UpdateBoth
    <3>2. service \in Row /\ service # NoService
      BY <1>0, <2>3 DEF Still
    <3>3. item \in Item /\ price \in Nat \ {0}
      BY <2>2, <2>3, <3>2 DEF Written, Storable, Row
    <3>w. /\ item \in {service.item, edit[w].item} /\ (item = edit[w].item \/ edit[w].item = edit[w].seen.item)
          /\ price \in {service.price, edit[w].price} /\ (price = edit[w].price \/ edit[w].price = edit[w].seen.price)
      BY DEF Written
    <3> HIDE DEF item, price
    <3>4. service' \in Row /\ service' = [id |-> service.id, item |-> item, price |-> price]
      BY <3>1, <3>2, <3>3 DEF Row
    <3>5. DashboardInv'
      BY <1>o, <2>1, <3>1, <3>2, <3>4, AnswerStep
    <3>6. Told(w)
      BY <1>a, <2>1, <3>1, <3>2, <3>4, <3>w DEF Told
    <3> QED BY <3>5, <3>6
  <2>4. CASE ~(Still(edit[w].seen) /\ Storable(edit[w].price))
    <3>1. UNCHANGED service /\ Answers(w, "failed")
      BY <1>2, <2>4 DEF UpdateBoth
    <3> QED BY <1>0, <1>o, <2>1, <3>1, AnswerStep
  <2> QED BY <2>3, <2>4
<1>3. CASE UpdatePrice(w)
  <2>1. edit[w].op = "set" /\ edit[w] # Rest /\ UNCHANGED <<next_id, confirm, edits>>
    BY <1>3 DEF UpdatePrice, Rest
  <2>2. edit[w].price \in Int
    BY <2>1 DEF EditsOK, EditOK
  <2>3. CASE Still(edit[w].seen) /\ Storable(edit[w].price)
    <3>1. service' = [service EXCEPT !.price = edit[w].price] /\ Answers(w, "changed")
      BY <1>3, <2>3 DEF UpdatePrice
    <3>2. service \in Row /\ service # NoService
      BY <1>0, <2>3 DEF Still
    <3>3. service' \in Row
      BY <2>2, <2>3, <3>1, <3>2 DEF Row, Storable
    <3>4. DashboardInv'
      BY <1>o, <2>1, <3>1, <3>2, <3>3, AnswerStep
    <3>5. Told(w)
      BY <1>a, <1>r, <2>1, <3>1, <3>2, <3>3 DEF Told
    <3> QED BY <3>4, <3>5
  <2>4. CASE ~(Still(edit[w].seen) /\ Storable(edit[w].price))
    <3>1. UNCHANGED service /\ Answers(w, "failed")
      BY <1>3, <2>4 DEF UpdatePrice
    <3> QED BY <1>0, <1>o, <2>1, <3>1, AnswerStep
  <2> QED BY <2>3, <2>4
<1>4. CASE Delete(w)
  <2>1. /\ edit[w] # Rest /\ UNCHANGED <<next_id, confirm, edits>> /\ Answers(w, "removed")
        /\ service' = IF Still(edit[w].seen) THEN NoService ELSE service
    BY <1>4 DEF Delete, Rest
  <2>2. DashboardInv'
    BY <1>0, <1>o, <2>1, AnswerStep
  <2>3. service' # service => Told(w)
    BY <1>a, <2>1 DEF Told, Still
  <2> QED BY <2>2, <2>3
<1> QED BY <1>1, <1>2, <1>3, <1>4 DEF Commit

(* A process that stops takes its writers' edits with it; what they had     *)
(* committed stays.                                                         *)
LEMMA StopKept ==
  ASSUME IsFiniteSet(Writer), DashboardInv, NEW p \in Process, Stop(p)
  PROVE  DashboardInv'
<1> USE DEF DashboardInv
<1>1. SetUpInv'
  BY SetUpNext DEF Stop
<1>2. /\ starting' = [starting EXCEPT ![p] = "off"] /\ schema' = schema /\ predates' = predates
      /\ altering' = IF altering = p THEN NoProcess ELSE altering
      /\ faulty' = faulty \ {p}
      /\ edit' = [w \in Writer |-> IF ProcessOf[w] = p THEN Rest ELSE edit[w]]
      /\ told' = [w \in Writer |-> IF ProcessOf[w] = p THEN "nothing" ELSE told[w]]
      /\ confirm' = [w \in Admin |-> IF ProcessOf[w] = p THEN NoId ELSE confirm[w]]
      /\ UNCHANGED <<service, next_id, edits>>
  BY DEF Stop, StopsRunning, Goes
<1>3. SetUpTypeOK'
  BY <1>2, SetUpAssumption DEF SetUpTypeOK, Stage
<1>4. ListTypes'
  BY <1>2, PriceListAssumption DEF ListTypes, Outcome, NoId
<1>5. Ready'
  <2>1. ASSUME NEW w \in Writer, edit'[w] # Rest PROVE starting'[ProcessOf[w]] = "up"
    <3>1. ProcessOf[w] \in Process /\ ProcessOf[w] # p /\ edit[w] # Rest
      BY <1>2, <2>1, PriceListAssumption
    <3> QED BY <1>2, <3>1 DEF Ready, SetUpTypeOK
  <2> QED BY <1>2, <2>1 DEF Ready
<1>6. EditsOK'
  <2>1. DOMAIN edit' = Writer /\ \A w \in Writer : EditOK(edit'[w])
    BY <1>2 DEF EditsOK, EditOK, Rest
  <2>2. Adders' \in SUBSET Adders
    BY <1>2 DEF Adders, Rest
  <2>3. Cardinality(Adders') <= Cardinality(Adders) /\ Cardinality(Adders') \in Nat /\ Cardinality(Adders) \in Nat
    BY <2>2, AddersFinite, FS_Subset, FS_CardinalityType
  <2>4. next_id \in Nat /\ edits \in Nat /\ next_id + Cardinality(Adders) <= edits + 1
    BY PriceListAssumption DEF ListTypes, EditsOK
  <2>5. next_id' + Cardinality(Adders') <= edits' + 1
    BY <1>2, <2>3, <2>4
  <2> QED BY <2>1, <2>5 DEF EditsOK, EditOK
<1> QED BY <1>1, <1>3, <1>4, <1>5, <1>6

(* A step of the set-up leaves the price list alone. *)
LEMMA SetUpKept ==
  ASSUME DashboardInv, NEW p \in Process, SetUpStep(p), UNCHANGED listVars
  PROVE  DashboardInv'
<1> USE DEF DashboardInv
<1>1. SetUpInv'
  BY SetUpNext
<1>2. /\ SetUpTypeOK' /\ (schema.tables => schema'.tables) /\ starting[p] # "up"
      /\ \A q \in Process : q # p => starting'[q] = starting[q]
  BY SetUpTyped
<1>3. ListTypes' /\ EditsOK'
  BY DEF listVars, ListTypes, EditsOK, EditOK, Adders
<1>4. Ready'
  <2>1. ASSUME NEW w \in Writer, edit[w] # Rest PROVE starting'[ProcessOf[w]] = "up"
    <3>1. ProcessOf[w] \in Process /\ starting[ProcessOf[w]] = "up"
      BY <2>1, PriceListAssumption DEF Ready
    <3> QED BY <1>2, <3>1
  <2> QED BY <1>2, <2>1 DEF Ready, listVars
<1> QED BY <1>1, <1>2, <1>3, <1>4

(* Every step of the dashboard, its processes and its writers.              *)
LEMMA DashboardStep ==
  ASSUME IsFiniteSet(Writer), DashboardInv, [Next]_vars
  PROVE  DashboardInv' /\ (service' # service => \E w \in Writer : Told(w))
<1>1. ASSUME NEW p \in Process, SetUpStep(p), UNCHANGED listVars
      PROVE  DashboardInv' /\ service' = service
  BY <1>1, SetUpKept DEF listVars
<1>2. ASSUME NEW p \in Process, Stop(p)
      PROVE  DashboardInv' /\ service' = service
  BY <1>2, StopKept DEF Stop
<1>3. ASSUME NEW w \in Writer, EditStep(w), UNCHANGED setUpVars
      PROVE  DashboardInv' /\ (service' # service => \E v \in Writer : Told(v))
  <2>1. CASE Commit(w)
    BY <1>3, <2>1, CommitsKept
  <2>2. CASE ~Commit(w)
    <3>1. DashboardInv'
      BY <1>3, <2>2, DecisionsKept DEF EditStep
    <3>2. service' = service
      BY <1>3, <2>2 DEF EditStep, Look, LookAway, RefusePrice, Add, SetPrice, Remove,
                        TapRemove, TapYes, TapNo, Decides
    <3> QED BY <3>1, <3>2
  <2> QED BY <2>1, <2>2
<1>4. ASSUME UNCHANGED vars PROVE DashboardInv' /\ service' = service
  <2>1. UNCHANGED <<setUpVars, listVars, schema, altering, starting, faulty, predates>>
    BY <1>4 DEF vars, setUpVars
  <2>2. SetUpInv' /\ SetUpTypeOK'
    BY <2>1 DEF DashboardInv, SetUpInv, SetUpTypeOK, SchemaOK, StartOK
  <2>3. ListTypes' /\ EditsOK' /\ Ready'
    BY <2>1 DEF DashboardInv, listVars, ListTypes, EditsOK, EditOK, Adders, Ready
  <2> QED BY <2>1, <2>2, <2>3 DEF DashboardInv, listVars
<1> QED BY <1>1, <1>2, <1>3, <1>4 DEF Next

(* Nothing is edited yet. *)
LEMMA InitDashboard == Init => DashboardInv
<1> SUFFICES ASSUME Init PROVE DashboardInv
  OBVIOUS
<1>1. /\ altering = NoProcess /\ faulty = {} /\ predates = schema.tables
      /\ starting = [p \in Process |-> "off"] /\ schema \in Schema
  BY InitSetUp DEF Init, SetUpInit, SetUpInv, SchemaOK
<1>2. SetUpTypeOK
  BY <1>1, SetUpAssumption DEF SetUpTypeOK, Stage, Schema
<1>3. ListTypes /\ Ready
  BY PriceListAssumption DEF Init, PriceListInit, ListTypes, Ready, Outcome, NoId
<1>4. Adders = {}
  BY DEF Init, PriceListInit, Adders, Rest
<1>5. EditsOK
  <2>1. Cardinality(Adders) = 0
    BY <1>4, FS_EmptySet
  <2> QED BY <2>1 DEF Init, PriceListInit, EditsOK, EditOK, Rest
<1> QED BY InitSetUp, <1>2, <1>3, <1>5 DEF DashboardInv

(* The types of set-up and price list; that whoever edits has started; that *)
(* ids are given out once and no more of them than edits.                   *)
THEOREM DashboardIsTyped == ASSUME IsFiniteSet(Writer) PROVE Spec => []TypeOK
<1>1. DashboardInv => TypeOK
  BY DEF DashboardInv, TypeOK, ListTypes, Ready, Row
<1>2. DashboardInv /\ [Next]_vars => DashboardInv'
  BY DashboardStep
<1> QED BY <1>1, <1>2, InitDashboard, PTL DEF Spec

(* Whoever edits the row, and in whatever order they look and commit: it    *)
(* changes only with an edit that says so, and to what that edit was given. *)
(* "Added" takes nobody's place, and a removed row does not come back.      *)
THEOREM NoChangeUntold == ASSUME IsFiniteSet(Writer) PROVE Spec => ChangesAreTold
<1>1. DashboardInv /\ [Next]_vars => DashboardInv'
  BY DashboardStep
<1>2. DashboardInv /\ [Next]_vars => [service' # service => \E w \in Writer : Told(w)]_vars
  BY DashboardStep
<1>3. Spec => [][service' # service => \E w \in Writer : Told(w)]_vars
  BY <1>1, <1>2, InitDashboard, PTL DEF Spec
<1> QED BY <1>3 DEF ChangesAreTold

=============================================================================

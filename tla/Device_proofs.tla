----------------------------- MODULE Device_proofs -----------------------------
(***************************************************************************)
(* Proofs about the device page, for any number of stations, modules,       *)
(* handlers, acts and failed calls: a point that the chart binds is not      *)
(* disabled behind its back, a page at rest shows its station, and an        *)
(* accepted edit survives the edits that follow it.                          *)
(***************************************************************************)
EXTENDS Device, FiniteSetTheorems, WellFoundedInduction, TLAPS

Ats == {"idle", "mount", "ask", "write", "list", "hardware", "rows", "land", "then"}
Ops == {"refresh", "save", "on", "off", "del", "create", "addmod", "delmod",
        "rename", "addst", "delst", "same"}
Fields == [name : {0, 1}, unit : {0, 1}]
Point  == [st : {"none", "on", "off"}, f : Fields]
Points == [Modules -> Point]
Board  == [mods : SUBSET Modules, pts : Points]
Task   == [at : Ats, op : Ops, batch : BOOLEAN, s : Stations \cup {0},
           todo : SUBSET Modules, rows : Points, field : {"name", "unit"},
           val : {0, 1}, ids : SUBSET Stations, seen : Board]

StoreTypes ==
  /\ stations \in SUBSET Stations /\ stations # {}
  /\ bound \in SUBSET (Stations \X Modules)
  /\ db \in [Stations -> Board]
  /\ want \in [Stations -> [Modules -> Fields]]
PageTypes ==
  /\ stationId \in Stations \cup {0}
  /\ shown \in [s : Stations \cup {0}, mods : SUBSET Modules, pts : Points]
  /\ offline \in BOOLEAN
TaskTypes == task \in [Slots -> Task] /\ raced \in BOOLEAN

(* A handler that is past its start has a station, one that asks is about to
   disable or delete, and one that adds a station knows which. *)
Shape(t) ==
  /\ t.at \notin {"idle", "mount"} => t.s \in Stations
  /\ t.at = "ask" => t.op \in {"off", "del"}
  /\ t.op = "addst" => \E x \in Stations : t.ids = {x}
  /\ t.at = "then" => t.op = "addst"

(* What is left to disable or to delete was asked about while it was free, or
   the ask is on record as failed or overtaken. *)
Asked(t) ==
  t.at = "write" /\ t.op \in {"off", "del"} =>
    \A p \in t.todo : <<t.s, p>> \in bound => <<t.s, p>> \in unasked

(* The page shows its station as the back end has it. *)
Fresh ==
  /\ stationId \in stations
  /\ shown = [s |-> stationId, mods |-> db[stationId].mods,
              pts |-> db[stationId].pts]

(* What a handler that runs alone may count on. *)
Steady(t) ==
  /\ t.at = "ask" => Fresh
  /\ t.at = "write" /\ t.op \in {"delmod", "rename", "addmod"} =>
       Fresh /\ \A p, q \in t.todo : p = q
  /\ t.at = "write" /\ t.op = "save" => \A p \in t.todo : t.rows[p] = db[t.s].pts[p]
  /\ t.op = "addst" /\ t.at \in {"write", "list", "hardware", "rows", "land"} =>
       t.s = stationId /\ t.s \in stations
  /\ t.at = "then" => offline \/ Fresh
  /\ t.at \in {"rows", "land"} => t.seen.mods = db[t.s].mods
  /\ t.at = "land" => t.seen.pts = db[t.s].pts

Shapes == \A i \in Slots : Shape(task[i])
AsksFirst == \A i \in Slots : Asked(task[i])
Alone == ~raced => \A i, j \in Slots : task[i].at # "idle" /\ task[j].at # "idle" => i = j
Steadies == ~raced => \A i \in Slots : Steady(task[i])
Quiet == ~Busy /\ ~raced /\ ~offline => Fresh

Types == StoreTypes /\ PageTypes /\ TaskTypes
DeviceInv == Types /\ Shapes /\ AsksFirst /\ BoundStaysLive /\ Alone /\ Steadies
               /\ Quiet /\ EditsKept

-----------------------------------------------------------------------------
(* A set of natural numbers that is not empty has a least one. *)
LEMMA Least ==
  ASSUME NEW S \in SUBSET Nat, NEW n \in S
  PROVE  \E s \in S : \A t \in S : s <= t
<1> DEFINE Below == OpToRel(<, Nat)
<1>1. IsWellFoundedOn(Below, Nat)
  BY NatLessThanWellFounded, Zenon
<1>2. \A x, y \in Nat : <<x, y>> \in Below <=> x < y
  BY DEF OpToRel
<1> HIDE DEF Below
<1>3. PICK s \in S : \A t \in S : <<t, s>> \notin Below
  BY <1>1, WFMin, Zenon
<1>4. ASSUME NEW t \in S PROVE s <= t
  <2>1. s \in Nat /\ t \in Nat /\ ~(t < s)
    BY <1>2, <1>3
  <2>2. QED
    BY <2>1
<1>5. QED
  BY <1>4

(* The first station of the list is a station. *)
LEMMA FirstStation ==
  ASSUME StoreTypes
  PROVE  Min(stations) \in stations /\ Min(stations) \in Stations
<1>1. stations \in SUBSET Nat /\ stations # {} /\ stations \in SUBSET Stations
  BY DeviceAssumption DEF StoreTypes, Stations
<1>2. \E s \in stations : \A t \in stations : s <= t
  BY <1>1, Least
<1>3. QED
  BY <1>1, <1>2 DEF Min

(* The last station cannot be removed. *)
LEMMA OneStationLeft ==
  ASSUME StoreTypes, NEW s, ~(Cardinality(stations) <= 1)
  PROVE  stations \ {s} # {}
<1>1. IsFiniteSet(Stations)
  BY DeviceAssumption, FS_Interval DEF Stations
<1>2. IsFiniteSet(stations)
  BY <1>1, FS_Subset DEF StoreTypes
<1>3. Cardinality(stations) \in Nat
  BY <1>2, FS_CardinalityType
<1>4. Cardinality(stations \ {s}) >= Cardinality(stations) - 1 /\ IsFiniteSet(stations \ {s})
  BY <1>2, <1>3, FS_RemoveElement
<1>5. QED
  BY <1>3, <1>4, FS_EmptySet

-----------------------------------------------------------------------------
(* One handler takes a step that leaves the store alone: it is enough to look
   at what it becomes. *)
LEMMA PutTask ==
  ASSUME DeviceInv, NEW i \in Slots, NEW t \in Task,
         task[i].at # "idle", task' = [task EXCEPT ![i] = t],
         UNCHANGED <<server, bound, want, raced, dropped>>, unasked \subseteq unasked',
         PageTypes', Shape(t), Asked(t)', ~raced => Steady(t)',
         ~raced /\ t.at = "idle" /\ ~offline' => Fresh'
  PROVE  DeviceInv'
<1>1. task \in [Slots -> Task] /\ task' \in [Slots -> Task]
  BY DEF DeviceInv, Types, TaskTypes
<1>2. task'[i] = t /\ \A j \in Slots : j # i => task'[j] = task[j]
  BY <1>1
<1>3. Types'
  BY <1>1 DEF DeviceInv, Types, StoreTypes, TaskTypes, server
<1>4. Shapes'
  BY <1>2, Zenon DEF DeviceInv, Shapes
<1>5. AsksFirst'
  <2> SUFFICES ASSUME NEW j \in Slots PROVE Asked(task[j])'
    BY DEF AsksFirst
  <2>1. CASE j = i
    BY <1>2, <2>1 DEF Asked
  <2>2. CASE j # i
    <3>1. Asked(task[j]) /\ task'[j] = task[j]
      BY <1>2, <2>2 DEF DeviceInv, AsksFirst
    <3>2. QED
      BY <3>1 DEF Asked
  <2>3. QED
    BY <2>1, <2>2
<1>6. BoundStaysLive'
  BY DEF DeviceInv, BoundStaysLive, Live, server
<1>7. ~raced => \A j \in Slots : j # i => task[j].at = "idle"
  BY DEF DeviceInv, Alone
<1>8. Alone'
  BY <1>2, <1>7 DEF Alone
<1>9. Steadies'
  <2> SUFFICES ASSUME ~raced', NEW j \in Slots PROVE Steady(task[j])'
    BY DEF Steadies
  <2>1. CASE j = i
    BY <1>2, <2>1 DEF Steady
  <2>2. CASE j # i
    BY <1>2, <1>7, <2>2 DEF Steady
  <2>3. QED
    BY <2>1, <2>2
<1>10. Quiet'
  BY <1>2 DEF Quiet, Busy
<1>11. EditsKept'
  BY DEF DeviceInv, EditsKept, server
<1>12. QED
  BY <1>3, <1>4, <1>5, <1>6, <1>8, <1>9, <1>10, <1>11 DEF DeviceInv

(* A handler starts.  If it runs alone, on a page that showed its station, it
   is enough to look at what it starts with. *)
LEMMA StartTask ==
  ASSUME DeviceInv, NEW t \in Task, Start(t), t.at # "idle",
         stationId' \in Stations, UNCHANGED <<shown, offline>>,
         Shape(t), Asked(t), Fresh => Steady(t)'
  PROVE  DeviceInv'
<1>1. PICK i \in Slots : task[i].at = "idle" /\ task' = [task EXCEPT ![i] = t]
  BY DEF Start
<1>2. task \in [Slots -> Task] /\ task' \in [Slots -> Task]
  BY <1>1 DEF DeviceInv, Types, TaskTypes
<1>3. task'[i] = t /\ \A j \in Slots : j # i => task'[j] = task[j]
  BY <1>1, <1>2
<1>4. UNCHANGED <<stations, db, bound, want, unasked, dropped>>
      /\ raced' = (raced \/ Busy \/ offline \/ stationId # shown.s)
  BY DEF Start, server
<1>5. Types'
  BY <1>2, <1>4 DEF DeviceInv, Types, StoreTypes, PageTypes, TaskTypes, Busy
<1>6. Shapes'
  BY <1>3, Zenon DEF DeviceInv, Shapes
<1>7. AsksFirst'
  <2> SUFFICES ASSUME NEW j \in Slots PROVE Asked(task[j])'
    BY DEF AsksFirst
  <2>1. CASE j = i
    BY <1>3, <1>4, <2>1 DEF Asked
  <2>2. CASE j # i
    <3>1. Asked(task[j]) /\ task'[j] = task[j]
      BY <1>3, <2>2 DEF DeviceInv, AsksFirst
    <3>2. QED
      BY <1>4, <3>1 DEF Asked
  <2>3. QED
    BY <2>1, <2>2
<1>8. BoundStaysLive'
  BY <1>4 DEF DeviceInv, BoundStaysLive, Live
<1>9. ~raced' => ~raced /\ Fresh /\ \A j \in Slots : task[j].at = "idle"
  BY <1>4 DEF DeviceInv, Quiet, Busy, Types, PageTypes
<1>10. Alone'
  BY <1>3, <1>9 DEF Alone
<1>11. Steadies'
  <2> SUFFICES ASSUME ~raced', NEW j \in Slots PROVE Steady(task[j])'
    BY DEF Steadies
  <2>1. CASE j = i
    BY <1>3, <1>9, <2>1 DEF Steady
  <2>2. CASE j # i
    BY <1>3, <1>9, <2>2 DEF Steady
  <2>3. QED
    BY <2>1, <2>2
<1>12. Quiet'
  BY <1>3 DEF Quiet, Busy
<1>13. EditsKept'
  BY <1>4, <1>9 DEF DeviceInv, EditsKept
<1>14. QED
  BY <1>5, <1>6, <1>7, <1>8, <1>10, <1>11, <1>12, <1>13 DEF DeviceInv

-----------------------------------------------------------------------------
(* What a handler is made of. *)
LEMMA IdleTask == Idle \in Task /\ Idle.at = "idle" /\ Idle.op = "refresh"
BY DEF Idle, Task, Ats, Ops, Points, Point, Fields, Board, Empty, NoPoint, Blank

LEMMA RefreshTask ==
  ASSUME NEW s \in Stations
  PROVE  /\ Refresh(s) \in Task
         /\ Refresh(s).at = "list" /\ Refresh(s).op = "refresh" /\ Refresh(s).s = s
<1>1. Refresh(s) = [Idle EXCEPT !.at = "list", !.s = s]
  BY DEF Refresh
<1>2. QED
  BY <1>1, IdleTask DEF Task, Ats

LEMMA WriteTask ==
  ASSUME PageTypes, NEW op \in Ops, NEW todo \in SUBSET Modules
  PROVE  /\ Write(op, todo) =
              [at |-> "write", op |-> op, batch |-> FALSE, s |-> stationId, todo |-> todo,
               rows |-> shown.pts, field |-> "name", val |-> 0, ids |-> {}, seen |-> Empty]
         /\ Write(op, todo) \in Task
<1> DEFINE w == Write(op, todo)
<1>1. w = [Idle EXCEPT !.at = "write", !.op = op, !.s = stationId, !.todo = todo,
                       !.rows = shown.pts]
  BY DEF Write
<1>2. shown.pts \in Points
  BY DEF PageTypes
<1>3. w \in Task
  BY <1>1, <1>2, IdleTask DEF Task, Ats, PageTypes
<1>4. w.at = "write" /\ w.op = op /\ w.s = stationId /\ w.todo = todo /\ w.rows = shown.pts
  BY <1>1, <1>2, IdleTask DEF Task, Ats, PageTypes
<1>5. w.batch = FALSE /\ w.field = "name" /\ w.val = 0 /\ w.ids = {} /\ w.seen = Empty
  BY <1>1, <1>2, IdleTask DEF Task, Ats, PageTypes, Idle
<1> HIDE DEF w
<1>6. w = [at |-> "write", op |-> op, batch |-> FALSE, s |-> stationId, todo |-> todo,
           rows |-> shown.pts, field |-> "name", val |-> 0, ids |-> {}, seen |-> Empty]
  BY <1>3, <1>4, <1>5 DEF Task
<1>7. QED
  BY <1>3, <1>6 DEF w

(* What a handler of the selected station starts with. *)
Job(at, op, batch, todo, field, val, ids) ==
  [at |-> at, op |-> op, batch |-> batch, s |-> stationId, todo |-> todo,
   rows |-> shown.pts, field |-> field, val |-> val, ids |-> ids, seen |-> Empty]

LEMMA JobStarts ==
  ASSUME DeviceInv, NEW at \in {"ask", "write"}, NEW op \in Ops, NEW batch \in BOOLEAN,
         NEW todo \in SUBSET Modules, NEW field \in {"name", "unit"}, NEW val \in {0, 1},
         NEW ids \in SUBSET Stations,
         Start(Job(at, op, batch, todo, field, val, ids)), UNCHANGED view,
         at = "ask" <=> op \in {"off", "del"},
         op \in {"delmod", "rename", "addmod"} => \A p, q \in todo : p = q,
         op = "addst" => \E x \in Stations : ids = {x}
  PROVE  DeviceInv'
<1>1. Empty \in Board
  BY IdleTask DEF Idle, Task
<1>2. stationId \in Stations /\ shown.pts \in Points
  BY DEF Start, DeviceInv, Types, PageTypes
<1>3. Job(at, op, batch, todo, field, val, ids) \in Task
  BY <1>1, <1>2 DEF Job, Task, Ats
<1>4. PICK t \in Task : t = Job(at, op, batch, todo, field, val, ids)
  BY <1>3
<1>5. /\ Start(t) /\ t.at = at /\ t.op = op /\ t.s = stationId /\ t.todo = todo
      /\ t.rows = shown.pts /\ t.ids = ids
  BY <1>4 DEF Job
<1>6. Shape(t) /\ Asked(t)
  BY <1>2, <1>5 DEF Shape, Asked
<1>7. UNCHANGED <<stations, db, stationId, shown, offline>>
  BY <1>5 DEF Start, server, view
<1>8. ASSUME Fresh PROVE Steady(t)'
  <2>1. Fresh'
    BY <1>7, <1>8 DEF Fresh
  <2>2. shown.pts = db[stationId].pts
    BY <1>8 DEF Fresh
  <2>3. stationId \in stations
    BY <1>8 DEF Fresh
  <2>4. QED
    BY <1>5, <1>7, <2>1, <2>2, <2>3 DEF Steady
<1>9. QED
  BY <1>2, <1>5, <1>6, <1>7, <1>8, StartTask

(* A handler is its fields. *)
LEMMA SameTask ==
  ASSUME NEW v \in Task, NEW u \in Task, v.at = u.at, v.op = u.op, v.batch = u.batch,
         v.s = u.s, v.todo = u.todo, v.rows = u.rows, v.field = u.field, v.val = u.val,
         v.ids = u.ids, v.seen = u.seen
  PROVE  v = u
BY DEF Task

(* The handlers' first records, as the actions write them. *)
LEMMA JobTask ==
  ASSUME PageTypes, NEW op \in Ops, NEW todo \in SUBSET Modules,
         NEW at \in {"ask", "write"}, NEW batch \in BOOLEAN, NEW field \in {"name", "unit"},
         NEW val \in {0, 1}, NEW ids \in SUBSET Stations
  PROVE  Job(at, op, batch, todo, field, val, ids) \in Task
<1>1. Empty \in Board /\ shown.pts \in Points /\ stationId \in Stations \cup {0}
  BY IdleTask DEF Idle, Task, PageTypes
<1>2. QED
  BY <1>1 DEF Job, Task, Ats

LEMMA JobEdits ==
  ASSUME PageTypes, NEW op \in Ops, NEW todo \in SUBSET Modules,
         NEW field \in {"name", "unit"}, NEW val \in {0, 1}
  PROVE  [Write(op, todo) EXCEPT !.field = field, !.val = val]
           = Job("write", op, FALSE, todo, field, val, {})
<1>1. PICK w \in Task : w = Write(op, todo)
  BY WriteTask
<1>2. /\ w.at = "write" /\ w.op = op /\ w.batch = FALSE /\ w.s = stationId
      /\ w.todo = todo /\ w.rows = shown.pts /\ w.field = "name" /\ w.val = 0
      /\ w.ids = {} /\ w.seen = Empty
  BY <1>1, WriteTask
<1> DEFINE v == [w EXCEPT !.field = field, !.val = val]
<1>3. v \in Task
  BY DEF Task
<1>4. /\ v.at = w.at /\ v.op = w.op /\ v.batch = w.batch /\ v.s = w.s /\ v.todo = w.todo
      /\ v.rows = w.rows /\ v.field = field /\ v.val = val /\ v.ids = w.ids
      /\ v.seen = w.seen
  BY DEF Task
<1> HIDE DEF v
<1>5. PICK u \in Task : u = Job("write", op, FALSE, todo, field, val, {})
  BY JobTask
<1>6. /\ u.at = "write" /\ u.op = op /\ u.batch = FALSE /\ u.s = stationId /\ u.todo = todo
      /\ u.rows = shown.pts /\ u.field = field /\ u.val = val /\ u.ids = {}
      /\ u.seen = Empty
  BY <1>5 DEF Job
<1>7. v = u
  BY <1>2, <1>3, <1>4, <1>6, SameTask
<1>8. QED
  BY <1>1, <1>5, <1>7 DEF v

LEMMA JobAdds ==
  ASSUME PageTypes, NEW op \in Ops, NEW todo \in SUBSET Modules, NEW ids \in SUBSET Stations
  PROVE  [Write(op, todo) EXCEPT !.ids = ids]
           = Job("write", op, FALSE, todo, "name", 0, ids)
<1>1. PICK w \in Task : w = Write(op, todo)
  BY WriteTask
<1>2. /\ w.at = "write" /\ w.op = op /\ w.batch = FALSE /\ w.s = stationId
      /\ w.todo = todo /\ w.rows = shown.pts /\ w.field = "name" /\ w.val = 0
      /\ w.ids = {} /\ w.seen = Empty
  BY <1>1, WriteTask
<1> DEFINE v == [w EXCEPT !.ids = ids]
<1>3. v \in Task
  BY DEF Task, Ats
<1>4. /\ v.at = w.at /\ v.op = w.op /\ v.batch = w.batch /\ v.s = w.s /\ v.todo = w.todo
      /\ v.rows = w.rows /\ v.field = w.field /\ v.val = w.val /\ v.ids = ids
      /\ v.seen = w.seen
  BY DEF Task, Ats
<1> HIDE DEF v
<1>5. PICK u \in Task : u = Job("write", op, FALSE, todo, "name", 0, ids)
  BY JobTask
<1>6. /\ u.at = "write" /\ u.op = op /\ u.batch = FALSE /\ u.s = stationId /\ u.todo = todo
      /\ u.rows = shown.pts /\ u.field = "name" /\ u.val = 0 /\ u.ids = ids
      /\ u.seen = Empty
  BY <1>5 DEF Job
<1>7. v = u
  BY <1>2, <1>3, <1>4, <1>6, SameTask
<1>8. QED
  BY <1>1, <1>5, <1>7 DEF v

LEMMA JobIs ==
  ASSUME PageTypes, NEW op \in Ops, NEW todo \in SUBSET Modules
  PROVE  /\ Write(op, todo) = Job("write", op, FALSE, todo, "name", 0, {})
         /\ [Write(op, todo) EXCEPT !.at = "ask"]
              = Job("ask", op, FALSE, todo, "name", 0, {})
         /\ \A at \in {"ask", "write"} :
              [Write(op, todo) EXCEPT !.batch = TRUE, !.at = at]
                = Job(at, op, TRUE, todo, "name", 0, {})
         /\ [Write(op, todo) EXCEPT !.batch = TRUE]
              = Job("write", op, TRUE, todo, "name", 0, {})
<1>1. PICK w \in Task : w = Write(op, todo)
  BY WriteTask
<1>2. /\ w.at = "write" /\ w.op = op /\ w.batch = FALSE /\ w.s = stationId
      /\ w.todo = todo /\ w.rows = shown.pts /\ w.field = "name" /\ w.val = 0
      /\ w.ids = {} /\ w.seen = Empty
  BY <1>1, WriteTask
<1>3. ASSUME NEW at \in {"ask", "write"}
      PROVE  [w EXCEPT !.batch = TRUE, !.at = at] = Job(at, op, TRUE, todo, "name", 0, {})
  <2> DEFINE v == [w EXCEPT !.batch = TRUE, !.at = at]
  <2>1. v \in Task
    BY DEF Task, Ats
  <2>2. /\ v.at = at /\ v.op = w.op /\ v.batch = TRUE /\ v.s = w.s /\ v.todo = w.todo
        /\ v.rows = w.rows /\ v.field = w.field /\ v.val = w.val /\ v.ids = w.ids
        /\ v.seen = w.seen
    BY DEF Task, Ats
  <2> HIDE DEF v
  <2>3. PICK u \in Task : u = Job(at, op, TRUE, todo, "name", 0, {})
    BY JobTask
  <2>4. /\ u.at = at /\ u.op = op /\ u.batch = TRUE /\ u.s = stationId /\ u.todo = todo
        /\ u.rows = shown.pts /\ u.field = "name" /\ u.val = 0 /\ u.ids = {}
        /\ u.seen = Empty
    BY <2>3 DEF Job
  <2>5. v = u
    BY <1>2, <2>1, <2>2, <2>4, SameTask
  <2>6. QED
    BY <2>3, <2>5 DEF v
<1>4. [w EXCEPT !.at = "ask"] = Job("ask", op, FALSE, todo, "name", 0, {})
  <2> DEFINE v == [w EXCEPT !.at = "ask"]
  <2>1. v \in Task
    BY DEF Task, Ats
  <2>2. /\ v.at = "ask" /\ v.op = w.op /\ v.batch = w.batch /\ v.s = w.s /\ v.todo = w.todo
        /\ v.rows = w.rows /\ v.field = w.field /\ v.val = w.val /\ v.ids = w.ids
        /\ v.seen = w.seen
    BY DEF Task, Ats
  <2> HIDE DEF v
  <2>3. PICK u \in Task : u = Job("ask", op, FALSE, todo, "name", 0, {})
    BY JobTask
  <2>4. /\ u.at = "ask" /\ u.op = op /\ u.batch = FALSE /\ u.s = stationId /\ u.todo = todo
        /\ u.rows = shown.pts /\ u.field = "name" /\ u.val = 0 /\ u.ids = {}
        /\ u.seen = Empty
    BY <2>3 DEF Job
  <2>5. v = u
    BY <1>2, <2>1, <2>2, <2>4, SameTask
  <2>6. QED
    BY <2>3, <2>5 DEF v
<1>5. [w EXCEPT !.batch = TRUE] = Job("write", op, TRUE, todo, "name", 0, {})
  <2> DEFINE v == [w EXCEPT !.batch = TRUE]
  <2>1. v \in Task
    BY DEF Task, Ats
  <2>2. /\ v.at = w.at /\ v.op = w.op /\ v.batch = TRUE /\ v.s = w.s /\ v.todo = w.todo
        /\ v.rows = w.rows /\ v.field = w.field /\ v.val = w.val /\ v.ids = w.ids
        /\ v.seen = w.seen
    BY DEF Task, Ats
  <2> HIDE DEF v
  <2>3. PICK u \in Task : u = Job("write", op, TRUE, todo, "name", 0, {})
    BY JobTask
  <2>4. /\ u.at = "write" /\ u.op = op /\ u.batch = TRUE /\ u.s = stationId /\ u.todo = todo
        /\ u.rows = shown.pts /\ u.field = "name" /\ u.val = 0 /\ u.ids = {}
        /\ u.seen = Empty
    BY <2>3 DEF Job
  <2>5. v = u
    BY <1>2, <2>1, <2>2, <2>4, SameTask
  <2>6. QED
    BY <2>3, <2>5 DEF v
<1>6. w = Job("write", op, FALSE, todo, "name", 0, {})
  BY <1>1, WriteTask DEF Job
<1>7. QED
  BY <1>1, <1>3, <1>4, <1>5, <1>6, Zenon

(* The engineer starts a handler. *)
LEMMA SelectStep ==
  ASSUME DeviceInv, NEW s \in Stations, SelectStation(s)
  PROVE  DeviceInv'
<1> DEFINE t == Refresh(s)
<1>1. t \in Task /\ t.at = "list" /\ t.op = "refresh" /\ t.s = s
  BY RefreshTask
<1>2. Start(t) /\ stationId' = s /\ UNCHANGED <<shown, offline>>
  BY DEF SelectStation
<1> HIDE DEF t
<1>3. Shape(t) /\ Asked(t) /\ Steady(t)'
  BY <1>1 DEF Shape, Asked, Steady
<1>4. QED
  BY <1>1, <1>2, <1>3, StartTask

LEMMA SavePointStep ==
  ASSUME DeviceInv, NEW p \in Modules, NEW field \in {"name", "unit"}, NEW val \in {0, 1},
         onSavePoint(p, field, val)
  PROVE  DeviceInv'
<1>1. PageTypes /\ "save" \in Ops /\ {p} \in SUBSET Modules /\ {} \in SUBSET Stations
  BY DEF DeviceInv, Types, Ops
<1>2. Start(Job("write", "save", FALSE, {p}, field, val, {})) /\ UNCHANGED view
  BY <1>1, JobEdits DEF onSavePoint
<1>3. QED
  BY <1>1, <1>2, JobStarts

LEMMA TogglePointStep ==
  ASSUME DeviceInv, NEW p \in Modules, onTogglePoint(p)
  PROVE  DeviceInv'
<1>1. /\ PageTypes /\ {p} \in SUBSET Modules /\ {} \in SUBSET Stations
      /\ "on" \in Ops /\ "off" \in Ops
  BY DEF DeviceInv, Types, Ops
<1>2. CASE shown.pts[p].st = "on"
  <2>1. Start(Job("ask", "off", FALSE, {p}, "name", 0, {})) /\ UNCHANGED view
    BY <1>1, <1>2, JobIs DEF onTogglePoint
  <2>2. QED
    BY <1>1, <2>1, JobStarts
<1>3. CASE shown.pts[p].st # "on"
  <2>1. Start(Job("write", "on", FALSE, {p}, "name", 0, {})) /\ UNCHANGED view
    BY <1>1, <1>3, JobIs DEF onTogglePoint
  <2>2. QED
    BY <1>1, <2>1, JobStarts
<1>4. QED
  BY <1>2, <1>3

LEMMA DeletePointStep ==
  ASSUME DeviceInv, NEW p \in Modules, onDeletePoint(p)
  PROVE  DeviceInv'
<1>1. PageTypes /\ "del" \in Ops /\ {p} \in SUBSET Modules /\ {} \in SUBSET Stations
  BY DEF DeviceInv, Types, Ops
<1>2. Start(Job("ask", "del", FALSE, {p}, "name", 0, {})) /\ UNCHANGED view
  BY <1>1, JobIs DEF onDeletePoint
<1>3. QED
  BY <1>1, <1>2, JobStarts

(* Creating a point, adding by the form, removing and naming a module. *)
LEMMA ModuleStep ==
  ASSUME DeviceInv, NEW m \in Modules, NEW op \in {"create", "addmod", "delmod", "rename"},
         Start(Write(op, {m})), UNCHANGED view
  PROVE  DeviceInv'
<1>1. PageTypes /\ op \in Ops /\ {m} \in SUBSET Modules /\ {} \in SUBSET Stations
  BY DEF DeviceInv, Types, Ops
<1>2. Start(Job("write", op, FALSE, {m}, "name", 0, {}))
  BY <1>1, JobIs
<1>3. QED
  BY <1>1, <1>2, JobStarts

LEMMA AddByKindStep ==
  ASSUME DeviceInv, NEW m \in Modules, onAddModuleByKind(m)
  PROVE  DeviceInv'
<1>1. PageTypes /\ "addmod" \in Ops /\ {m} \in SUBSET Modules /\ {} \in SUBSET Stations
  BY DEF DeviceInv, Types, Ops
<1>2. Start(Job("write", "addmod", TRUE, {m}, "name", 0, {})) /\ UNCHANGED view
  BY <1>1, JobIs DEF onAddModuleByKind
<1>3. QED
  BY <1>1, <1>2, JobStarts

(* The station's own handlers. *)
LEMMA StationStep ==
  ASSUME DeviceInv,
         onRemoveStation \/ onSaveStation \/ \E s \in Stations : onCreateStation(s)
  PROVE  DeviceInv'
<1>1. /\ PageTypes /\ "delst" \in Ops /\ "same" \in Ops /\ "addst" \in Ops
      /\ {1} \in SUBSET Modules /\ {} \in SUBSET Stations
  BY DeviceAssumption DEF DeviceInv, Types, Ops, Modules
<1>2. CASE onRemoveStation
  <2>1. Start(Job("write", "delst", FALSE, {1}, "name", 0, {})) /\ UNCHANGED view
    BY <1>1, <1>2, JobIs DEF onRemoveStation
  <2>2. QED
    BY <1>1, <2>1, JobStarts
<1>3. CASE onSaveStation
  <2>1. Start(Job("write", "same", FALSE, {1}, "name", 0, {})) /\ UNCHANGED view
    BY <1>1, <1>3, JobIs DEF onSaveStation
  <2>2. QED
    BY <1>1, <2>1, JobStarts
<1>4. ASSUME NEW s \in Stations, onCreateStation(s) PROVE DeviceInv'
  <2>0. PICK ids \in SUBSET Stations : ids = {s}
    OBVIOUS
  <2>1. [Write("addst", {1}) EXCEPT !.ids = ids]
          = Job("write", "addst", FALSE, {1}, "name", 0, ids)
    <3>1. PageTypes /\ "addst" \in Ops /\ {1} \in SUBSET Modules
      BY <1>1
    <3>2. QED
      BY <3>1, JobAdds
  <2>2. Start(Job("write", "addst", FALSE, {1}, "name", 0, ids)) /\ UNCHANGED view
    BY <1>4, <2>0, <2>1 DEF onCreateStation
  <2>3. QED
    BY <1>1, <2>0, <2>2, JobStarts
<1>5. QED
  BY <1>2, <1>3, <1>4

LEMMA BatchStep ==
  ASSUME DeviceInv, NEW op \in {"on", "off", "del"}, NEW todo \in SUBSET Modules,
         runBatch(op, todo)
  PROVE  DeviceInv'
<1>1. PageTypes /\ op \in Ops /\ {} \in SUBSET Stations
  BY DEF DeviceInv, Types, Ops
<1>2. CASE op = "on"
  <2>1. Start(Job("write", op, TRUE, todo, "name", 0, {})) /\ UNCHANGED view
    BY <1>1, <1>2, JobIs DEF runBatch
  <2>2. QED
    BY <1>1, <1>2, <2>1, JobStarts
<1>3. CASE op # "on"
  <2>1. Start(Job("ask", op, TRUE, todo, "name", 0, {})) /\ UNCHANGED view
    BY <1>1, <1>3, JobIs DEF runBatch
  <2>2. QED
    BY <1>1, <1>3, <2>1, JobStarts
<1>4. QED
  BY <1>2, <1>3

LEMMA BatchEditStep ==
  ASSUME DeviceInv, NEW field \in {"name", "unit"}, NEW val \in {0, 1},
         runBatchEdit(field, val)
  PROVE  DeviceInv'
<1>1. PageTypes /\ "save" \in Ops /\ {} \in SUBSET Stations
  BY DEF DeviceInv, Types, Ops
<1>2. MenuTargets \in SUBSET Modules
  BY DEF MenuTargets, Visible, Present
<1>3. PICK todo \in SUBSET Modules : todo = MenuTargets
  BY <1>2
<1>4. Start(Job("write", "save", FALSE, todo, field, val, {})) /\ UNCHANGED view
  BY <1>1, <1>3, JobEdits DEF runBatchEdit
<1>5. QED
  BY <1>1, <1>4, JobStarts

-----------------------------------------------------------------------------
(* The chart is asked, or cannot be. *)
LEMMA ProceedIs ==
  ASSUME NEW u \in Task, NEW asked
  PROVE  /\ Proceed(u, asked) \in Task
         /\ Proceed(u, asked).at \in {"write", "list", "idle"}
         /\ Proceed(u, asked).at # "idle" =>
              Proceed(u, asked).op = u.op /\ Proceed(u, asked).s = u.s
                /\ Proceed(u, asked).ids = u.ids
         /\ Proceed(u, asked).at = "idle" => Proceed(u, asked).op = "refresh"
         /\ Proceed(u, asked).at = "write" => Proceed(u, asked).todo = u.todo \ asked
<1>1. CASE u.todo \ asked # {}
  <2> DEFINE v == [u EXCEPT !.at = "write", !.todo = u.todo \ asked]
  <2>1. v \in Task /\ v.at = "write" /\ v.op = u.op /\ v.s = u.s /\ v.ids = u.ids
        /\ v.todo = u.todo \ asked
    BY DEF Task, Ats
  <2>2. Proceed(u, asked) = v
    BY <1>1 DEF Proceed
  <2> HIDE DEF v
  <2>3. QED
    BY <2>1, <2>2
<1>2. CASE u.todo \ asked = {} /\ u.batch
  <2> DEFINE v == [u EXCEPT !.at = "list", !.todo = {}]
  <2>1. v \in Task /\ v.at = "list" /\ v.op = u.op /\ v.s = u.s /\ v.ids = u.ids
    BY DEF Task, Ats
  <2>2. Proceed(u, asked) = v
    BY <1>2 DEF Proceed
  <2> HIDE DEF v
  <2>3. QED
    BY <2>1, <2>2
<1>3. CASE u.todo \ asked = {} /\ ~u.batch
  BY <1>3, IdleTask DEF Proceed
<1>4. QED
  BY <1>1, <1>2, <1>3 DEF Task

(* A handler that lets go of everything. *)
LEMMA IdleIsGood == Shape(Idle) /\ Asked(Idle) /\ Steady(Idle)
BY IdleTask DEF Shape, Asked, Steady

LEMMA AskStep ==
  ASSUME DeviceInv, NEW i \in Slots, Ask(i)
  PROVE  DeviceInv'
<1>1. PICK u \in Task : u = task[i]
  BY DEF DeviceInv, Types, TaskTypes
<1>2. PICK asked : asked = BoundNames
  OBVIOUS
<1>3. /\ UNCHANGED <<stations, db, bound, stationId, shown, offline, want, raced,
                    unasked, dropped>>
      /\ u.at = "ask"
  BY <1>1 DEF Ask, server, view, hist
<1>4. UNCHANGED server /\ PageTypes' /\ unasked \subseteq unasked'
  BY <1>3 DEF server, PageTypes, DeviceInv, Types
<1>5. Shape(u) /\ (~raced => Steady(u))
  BY <1>1 DEF DeviceInv, Shapes, Steadies
<1>6. ~raced => Fresh'
  BY <1>3, <1>5 DEF Steady, Fresh
<1>7. CASE task' = [task EXCEPT ![i] = Proceed(task[i], BoundNames)]
  <2>1. PICK t \in Task : t = Proceed(u, asked)
    BY ProceedIs
  <2>2. /\ t.at \in {"write", "list", "idle"}
        /\ t.at # "idle" => t.op = u.op /\ t.s = u.s /\ t.ids = u.ids
        /\ t.at = "idle" => t.op = "refresh"
        /\ t.at = "write" => t.todo = u.todo \ asked
    BY <2>1, ProceedIs
  <2>3. Shape(t)
    BY <1>3, <1>5, <2>2 DEF Shape
  <2>4. Asked(t)'
    <3>1. \A p \in t.todo : t.at = "write" => <<t.s, p>> \notin bound
      BY <1>2, <2>2 DEF BoundNames
    <3>2. QED
      BY <1>3, <3>1 DEF Asked
  <2>5. Steady(t)'
    BY <1>3, <1>5, <2>2 DEF Steady, Shape
  <2>6. task' = [task EXCEPT ![i] = t] /\ task[i].at # "idle"
    BY <1>1, <1>2, <1>3, <1>7, <2>1
  <2>7. QED
    BY <1>3, <1>4, <1>6, <2>3, <2>4, <2>5, <2>6, PutTask
<1>8. CASE task' = [task EXCEPT ![i] = Idle]
  <2>1. Asked(Idle)' /\ Steady(Idle)' /\ Shape(Idle)
    BY IdleTask DEF Asked, Steady, Shape
  <2>2. task[i].at # "idle"
    BY <1>1, <1>3
  <2>3. QED
    BY <1>3, <1>4, <1>6, <1>8, <2>1, <2>2, IdleTask, PutTask
<1>9. QED
  BY <1>7, <1>8 DEF Ask

LEMMA AskFailsStep ==
  ASSUME DeviceInv, NEW i \in Slots, AskFails(i)
  PROVE  DeviceInv'
<1>1. PICK u \in Task : u = task[i]
  BY DEF DeviceInv, Types, TaskTypes
<1>2. /\ UNCHANGED <<stations, db, bound, stationId, shown, offline, want, raced, dropped>>
      /\ u.at = "ask"
      /\ unasked' = unasked \cup (bound \cap ({u.s} \X u.todo))
  BY <1>1 DEF AskFails, server, view
<1>3. UNCHANGED server /\ PageTypes' /\ unasked \subseteq unasked'
  BY <1>2 DEF server, PageTypes, DeviceInv, Types
<1>4. Shape(u) /\ (~raced => Steady(u))
  BY <1>1 DEF DeviceInv, Shapes, Steadies
<1>5. ~raced => Fresh'
  BY <1>2, <1>4 DEF Steady, Fresh
<1>6. PICK none : none = {}
  OBVIOUS
<1>7. PICK t \in Task : t = Proceed(u, none)
  BY ProceedIs
<1>8. /\ t.at \in {"write", "list", "idle"}
      /\ t.at # "idle" => t.op = u.op /\ t.s = u.s /\ t.ids = u.ids
      /\ t.at = "idle" => t.op = "refresh"
      /\ t.at = "write" => t.todo = u.todo \ none
  BY <1>7, ProceedIs
<1>9. Shape(t)
  BY <1>2, <1>4, <1>8 DEF Shape
<1>10. Asked(t)'
  <2>1. \A p \in t.todo : t.at = "write" /\ <<t.s, p>> \in bound => <<t.s, p>> \in unasked'
    BY <1>2, <1>6, <1>8
  <2>2. QED
    BY <1>2, <2>1 DEF Asked
<1>11. Steady(t)'
  BY <1>2, <1>4, <1>8 DEF Steady, Shape
<1>12. task' = [task EXCEPT ![i] = t] /\ task[i].at # "idle"
  BY <1>1, <1>2, <1>6, <1>7 DEF AskFails
<1>13. QED
  BY <1>2, <1>3, <1>5, <1>9, <1>10, <1>11, <1>12, PutTask

-----------------------------------------------------------------------------
(* A write is refused, or fails. *)
LEMMA AfterWriteIs ==
  ASSUME NEW u \in Task, u.at = "write", NEW p, NEW ok \in BOOLEAN
  PROVE  /\ AfterWrite(u, p, ok) \in Task
         /\ AfterWrite(u, p, ok).at \in {"write", "list", "idle"}
         /\ AfterWrite(u, p, ok).at # "idle" =>
              AfterWrite(u, p, ok).op = u.op /\ AfterWrite(u, p, ok).s = u.s
                /\ AfterWrite(u, p, ok).ids = u.ids /\ AfterWrite(u, p, ok).rows = u.rows
         /\ AfterWrite(u, p, ok).at = "write" =>
              u.todo # {p} /\ AfterWrite(u, p, ok).todo = u.todo \ {p}
         /\ AfterWrite(u, p, ok).at = "idle" =>
              AfterWrite(u, p, ok).op = "refresh" /\ ~ok
                /\ u.op \in {"delmod", "rename", "addmod"}
<1>1. CASE u.todo # {p}
  <2> DEFINE v == [u EXCEPT !.todo = u.todo \ {p}]
  <2>1. v \in Task /\ v.at = "write" /\ v.op = u.op /\ v.s = u.s /\ v.ids = u.ids
        /\ v.todo = u.todo \ {p} /\ v.rows = u.rows
    BY DEF Task
  <2>2. AfterWrite(u, p, ok) = v
    BY <1>1 DEF AfterWrite
  <2> HIDE DEF v
  <2>3. QED
    BY <1>1, <2>1, <2>2
<1>2. ASSUME u.todo = {p},
             ok \/ ~(u.op \in {"delmod", "rename"} \/ (u.op = "addmod" /\ u.batch))
      PROVE  /\ AfterWrite(u, p, ok) \in Task /\ AfterWrite(u, p, ok).at = "list"
             /\ AfterWrite(u, p, ok).op = u.op /\ AfterWrite(u, p, ok).s = u.s
             /\ AfterWrite(u, p, ok).ids = u.ids /\ AfterWrite(u, p, ok).rows = u.rows
  <2> DEFINE v == [u EXCEPT !.at = "list", !.todo = {}]
  <2>1. v \in Task /\ v.at = "list" /\ v.op = u.op /\ v.s = u.s /\ v.ids = u.ids
        /\ v.rows = u.rows
    BY DEF Task, Ats
  <2>2. AfterWrite(u, p, ok) = v
    BY <1>2 DEF AfterWrite
  <2> HIDE DEF v
  <2>3. QED
    BY <2>1, <2>2
<1>3. CASE u.todo = {p} /\ ~ok
             /\ (u.op \in {"delmod", "rename"} \/ (u.op = "addmod" /\ u.batch))
  <2>1. AfterWrite(u, p, ok) = Idle
    BY <1>3 DEF AfterWrite
  <2>2. QED
    BY <1>3, <2>1, IdleTask
<1>4. QED
  BY <1>1, <1>2, <1>3

LEMMA RefusedStep ==
  ASSUME DeviceInv, NEW i \in Slots, NEW p \in Modules, WriteRefused(i, p)
  PROVE  DeviceInv'
<1>1. PICK u \in Task : u = task[i]
  BY DEF DeviceInv, Types, TaskTypes
<1>2. /\ UNCHANGED <<stations, db, bound, stationId, shown, offline, want, raced,
                    unasked, dropped>>
      /\ u.at = "write"
  BY <1>1 DEF WriteRefused, server, view, hist
<1>3. UNCHANGED server /\ PageTypes' /\ unasked \subseteq unasked'
  BY <1>2 DEF server, PageTypes, DeviceInv, Types
<1>4. Shape(u) /\ Asked(u) /\ (~raced => Steady(u))
  BY <1>1 DEF DeviceInv, Shapes, Steadies, AsksFirst
<1>5. PICK ok \in BOOLEAN : ok = FALSE
  OBVIOUS
<1>6. PICK t \in Task : t = AfterWrite(u, p, ok)
  BY <1>2, AfterWriteIs
<1>7. /\ t.at \in {"write", "list", "idle"}
      /\ t.at # "idle" => t.op = u.op /\ t.s = u.s /\ t.ids = u.ids /\ t.rows = u.rows
      /\ t.at = "write" => t.todo = u.todo \ {p}
      /\ t.at = "idle" => t.op = "refresh" /\ u.op \in {"delmod", "rename", "addmod"}
  BY <1>2, <1>6, AfterWriteIs
<1>8. Shape(t)
  BY <1>2, <1>4, <1>7 DEF Shape
<1>9. Asked(t)'
  BY <1>2, <1>4, <1>7 DEF Asked
<1>10. ASSUME ~raced PROVE Steady(t)' /\ (t.at = "idle" => Fresh')
  <2>1. /\ u.op \in {"delmod", "rename", "addmod"} =>
             Fresh /\ \A q, r \in u.todo : q = r
        /\ u.op = "save" => \A q \in u.todo : u.rows[q] = db[u.s].pts[q]
        /\ u.op = "addst" => u.s = stationId /\ u.s \in stations
    BY <1>2, <1>4, <1>10 DEF Steady
  <2>2. Fresh => Fresh'
    BY <1>2 DEF Fresh
  <2>3. QED
    BY <1>2, <1>7, <2>1, <2>2 DEF Steady
<1>11. task' = [task EXCEPT ![i] = t] /\ task[i].at # "idle"
  BY <1>1, <1>2, <1>5, <1>6 DEF WriteRefused
<1>12. QED
  BY <1>2, <1>3, <1>8, <1>9, <1>10, <1>11, PutTask

-----------------------------------------------------------------------------
(* refresh: the list, the hardware, the rows. *)
LEMMA ReadListStep ==
  ASSUME DeviceInv, NEW i \in Slots, ReadList(i)
  PROVE  DeviceInv'
<1>1. PICK u \in Task : u = task[i]
  BY DEF DeviceInv, Types, TaskTypes
<1>2. /\ UNCHANGED <<stations, db, bound, stationId, shown, offline, want, raced,
                    unasked, dropped>>
      /\ u.at = "list"
  BY <1>1 DEF ReadList, server, view, hist
<1>3. UNCHANGED server /\ PageTypes' /\ unasked \subseteq unasked'
  BY <1>2 DEF server, PageTypes, DeviceInv, Types
<1>4. Shape(u) /\ (~raced => Steady(u))
  BY <1>1 DEF DeviceInv, Shapes, Steadies
<1>5. StoreTypes /\ stations \in SUBSET Stations /\ task \in [Slots -> Task]
  BY DEF DeviceInv, Types, StoreTypes, TaskTypes
<1>6. PICK s \in Stations : s = IF u.s \in stations THEN u.s ELSE Min(stations)
  BY <1>5, FirstStation
<1>7. PICK ids \in SUBSET Stations : ids = IF u.op = "addst" THEN u.ids ELSE stations
  BY <1>5 DEF Task
<1>8. Empty.pts \in Points
  BY IdleTask DEF Idle, Task, Board
<1> DEFINE v == [u EXCEPT !.at = "hardware", !.s = s, !.ids = ids, !.rows = Empty.pts]
<1>9. v \in Task /\ v.at = "hardware" /\ v.op = u.op /\ v.s = s /\ v.ids = ids
  BY <1>8 DEF Task, Ats
<1>10. task' = [task EXCEPT ![i] = v]
  BY <1>1, <1>5, <1>6, <1>7 DEF ReadList
<1> HIDE DEF v
<1>11. PICK t \in Task : t = v
  BY <1>9
<1>12. Shape(t)
  BY <1>4, <1>7, <1>9, <1>11 DEF Shape
<1>13. Asked(t)' /\ (~raced => Steady(t)')
  <2>1. t.op = "addst" => s = u.s \/ u.s \notin stations
    BY <1>6
  <2>2. ASSUME ~raced, u.op = "addst" PROVE u.s = stationId /\ u.s \in stations
    BY <1>2, <1>4, <2>2 DEF Steady
  <2>3. ~raced /\ u.op = "addst" => s = stationId /\ s \in stations
    BY <1>6, <2>2
  <2>4. QED
    BY <1>2, <1>9, <1>11, <2>3 DEF Asked, Steady
<1>14. QED
  BY <1>1, <1>2, <1>3, <1>9, <1>10, <1>11, <1>12, <1>13, PutTask

LEMMA ReadHardwareStep ==
  ASSUME DeviceInv, NEW i \in Slots, ReadHardware(i)
  PROVE  DeviceInv'
<1>1. PICK u \in Task : u = task[i]
  BY DEF DeviceInv, Types, TaskTypes
<1>2. /\ UNCHANGED <<stations, db, bound, stationId, shown, offline, want, raced,
                    unasked, dropped>>
      /\ u.at = "hardware"
  BY <1>1 DEF ReadHardware, server, view, hist
<1>3. UNCHANGED server /\ PageTypes' /\ unasked \subseteq unasked'
  BY <1>2 DEF server, PageTypes, DeviceInv, Types
<1>4. Shape(u) /\ (~raced => Steady(u))
  BY <1>1 DEF DeviceInv, Shapes, Steadies
<1>5. db[u.s] \in Board /\ task \in [Slots -> Task]
  BY <1>2, <1>4 DEF DeviceInv, Types, StoreTypes, TaskTypes, Shape
<1>6. PICK mods \in SUBSET Modules : mods = db[u.s].mods
  BY <1>5 DEF Board
<1> DEFINE v == [u EXCEPT !.at = "rows", !.seen.mods = mods]
<1>7. v \in Task /\ v.at = "rows" /\ v.op = u.op /\ v.s = u.s /\ v.ids = u.ids
      /\ v.seen.mods = mods
  BY DEF Task, Ats, Board
<1>8. task' = [task EXCEPT ![i] = v]
  BY <1>1, <1>5, <1>6 DEF ReadHardware
<1> HIDE DEF v
<1>9. PICK t \in Task : t = v
  BY <1>7
<1>10. Shape(t)
  BY <1>2, <1>4, <1>7, <1>9 DEF Shape
<1>11. Asked(t)' /\ (~raced => Steady(t)')
  BY <1>2, <1>4, <1>6, <1>7, <1>9 DEF Asked, Steady
<1>12. QED
  BY <1>1, <1>2, <1>3, <1>7, <1>8, <1>9, <1>10, <1>11, PutTask

LEMMA ReadRowsStep ==
  ASSUME DeviceInv, NEW i \in Slots, ReadRows(i)
  PROVE  DeviceInv'
<1>1. PICK u \in Task : u = task[i]
  BY DEF DeviceInv, Types, TaskTypes
<1>2. /\ UNCHANGED <<stations, db, bound, stationId, shown, offline, want, raced,
                    unasked, dropped>>
      /\ u.at = "rows"
  BY <1>1 DEF ReadRows, server, view, hist
<1>3. UNCHANGED server /\ PageTypes' /\ unasked \subseteq unasked'
  BY <1>2 DEF server, PageTypes, DeviceInv, Types
<1>4. Shape(u) /\ (~raced => Steady(u))
  BY <1>1 DEF DeviceInv, Shapes, Steadies
<1>5. db[u.s] \in Board /\ task \in [Slots -> Task]
  BY <1>2, <1>4 DEF DeviceInv, Types, StoreTypes, TaskTypes, Shape
<1>6. PICK pts \in Points : pts = db[u.s].pts
  BY <1>5 DEF Board
<1> DEFINE v == [u EXCEPT !.at = "land", !.seen.pts = pts]
<1>7. v \in Task /\ v.at = "land" /\ v.op = u.op /\ v.s = u.s /\ v.ids = u.ids
      /\ v.seen.mods = u.seen.mods /\ v.seen.pts = pts
  BY DEF Task, Ats, Board
<1>8. task' = [task EXCEPT ![i] = v]
  BY <1>1, <1>5, <1>6 DEF ReadRows
<1> HIDE DEF v
<1>9. PICK t \in Task : t = v
  BY <1>7
<1>10. Shape(t)
  BY <1>2, <1>4, <1>7, <1>9 DEF Shape
<1>11. Asked(t)' /\ (~raced => Steady(t)')
  BY <1>2, <1>4, <1>6, <1>7, <1>9 DEF Asked, Steady
<1>12. QED
  BY <1>1, <1>2, <1>3, <1>7, <1>8, <1>9, <1>10, <1>11, PutTask

-----------------------------------------------------------------------------
(* A refresh fails, or its answer is put on the page. *)
LEMMA AfterIs ==
  ASSUME NEW u \in Task
  PROVE  /\ After(u) \in Task
         /\ \/ After(u).at = "then" /\ After(u).op = "addst" /\ u.op = "addst"
                 /\ After(u).s = u.s /\ After(u).ids = u.ids
            \/ After(u).at = "idle" /\ After(u).op = "refresh" /\ u.op # "addst"
<1>1. CASE u.op = "addst"
  <2> DEFINE v == [u EXCEPT !.at = "then"]
  <2>1. v \in Task /\ v.at = "then" /\ v.op = u.op /\ v.s = u.s /\ v.ids = u.ids
    BY DEF Task, Ats
  <2>2. After(u) = v
    BY <1>1 DEF After
  <2> HIDE DEF v
  <2>3. QED
    BY <1>1, <2>1, <2>2
<1>2. CASE u.op # "addst"
  BY <1>2, IdleTask DEF After
<1>3. QED
  BY <1>1, <1>2

LEMMA ReadFailsStep ==
  ASSUME DeviceInv, NEW i \in Slots, ReadFails(i)
  PROVE  DeviceInv'
<1>1. PICK u \in Task : u = task[i]
  BY DEF DeviceInv, Types, TaskTypes
<1>2. /\ UNCHANGED <<stations, db, bound, stationId, shown, want, raced, unasked, dropped>>
      /\ u.at \in {"list", "hardware", "rows", "land"} /\ offline' = TRUE
  BY <1>1 DEF ReadFails, server, hist
<1>3. UNCHANGED server /\ PageTypes' /\ unasked \subseteq unasked'
  BY <1>2 DEF server, PageTypes, DeviceInv, Types
<1>4. Shape(u)
  BY <1>1 DEF DeviceInv, Shapes
<1>5. PICK t \in Task : t = After(u)
  BY AfterIs
<1>6. \/ t.at = "then" /\ t.op = "addst" /\ u.op = "addst" /\ t.s = u.s /\ t.ids = u.ids
      \/ t.at = "idle" /\ t.op = "refresh"
  BY <1>5, AfterIs
<1>7. Shape(t) /\ Asked(t)' /\ Steady(t)'
  BY <1>2, <1>4, <1>6 DEF Shape, Asked, Steady
<1>8. task' = [task EXCEPT ![i] = t] /\ task[i].at # "idle"
  BY <1>1, <1>2, <1>5 DEF ReadFails
<1>9. QED
  BY <1>2, <1>3, <1>7, <1>8, PutTask

(* After handlers have overlapped nothing is promised about the page. *)
LEMMA RacedKeeps ==
  ASSUME raced', Types', Shapes', AsksFirst', BoundStaysLive'
  PROVE  DeviceInv'
BY DEF DeviceInv, Alone, Steadies, Quiet, EditsKept

(* A new station that is not there lands elsewhere: a second refresh starts. *)
LEMMA LandTwiceStep ==
  ASSUME DeviceInv, NEW i \in Slots, NEW u \in Task, u = task[i], Shape(u), raced,
         UNCHANGED <<stations, db, bound, want, raced, unasked, dropped>>, PageTypes',
         u.at = "land", u.op = "addst", NEW j \in Slots, task[j].at = "idle",
         task' = [task EXCEPT ![i] = After(u), ![j] = Refresh(u.s)]
  PROVE  DeviceInv'
<1>1. PICK t \in Task : t = After(u)
  BY AfterIs
<1>2. t.at = "then" /\ t.op = "addst" /\ t.s = u.s /\ t.ids = u.ids
  BY <1>1, AfterIs
<1>3. u.s \in Stations
  BY DEF Shape
<1>4. PICK r \in Task : r = Refresh(u.s) /\ r.at = "list" /\ r.op = "refresh" /\ r.s = u.s
  BY <1>3, RefreshTask
<1>5. task \in [Slots -> Task] /\ i # j
  BY DEF DeviceInv, Types, TaskTypes
<1>6. /\ task' \in [Slots -> Task] /\ task'[i] = t /\ task'[j] = r
      /\ \A k \in Slots : k # i /\ k # j => task'[k] = task[k]
  BY <1>1, <1>4, <1>5
<1>7. Types'
  BY <1>6 DEF DeviceInv, Types, StoreTypes, TaskTypes
<1>8. Shape(t) /\ Shape(r)
  BY <1>2, <1>3, <1>4 DEF Shape
<1>9. Shapes'
  BY <1>6, <1>8, Zenon DEF DeviceInv, Shapes
<1>10. AsksFirst'
  <2> SUFFICES ASSUME NEW k \in Slots PROVE Asked(task[k])'
    BY DEF AsksFirst
  <2>1. CASE k = i \/ k = j
    BY <1>2, <1>4, <1>6, <2>1 DEF Asked
  <2>2. CASE k # i /\ k # j
    <3>1. Asked(task[k]) /\ task'[k] = task[k]
      BY <1>6, <2>2 DEF DeviceInv, AsksFirst
    <3>2. QED
      BY <3>1 DEF Asked
  <2>3. QED
    BY <2>1, <2>2
<1>11. BoundStaysLive'
  BY DEF DeviceInv, BoundStaysLive, Live
<1>12. QED
  BY <1>7, <1>9, <1>10, <1>11, RacedKeeps

LEMMA LandStep ==
  ASSUME DeviceInv, NEW i \in Slots, Land(i)
  PROVE  DeviceInv'
<1>1. PICK u \in Task : u = task[i]
  BY DEF DeviceInv, Types, TaskTypes
<1>2. /\ UNCHANGED <<stations, db, bound, want, raced, unasked, dropped>>
      /\ u.at = "land" /\ u.s \in stations /\ Landed(i)
      /\ stationId' = u.s /\ offline' = FALSE
      /\ shown' = [s |-> u.s, mods |-> u.seen.mods, pts |-> u.seen.pts]
  BY <1>1 DEF Land, server
<1>3. u.s \in Stations /\ u.seen \in Board
  BY <1>2 DEF DeviceInv, Types, StoreTypes, Task
<1>4. UNCHANGED server /\ PageTypes' /\ unasked \subseteq unasked'
  BY <1>2, <1>3 DEF server, PageTypes, Board
<1>5. Shape(u) /\ (~raced => Steady(u))
  BY <1>1 DEF DeviceInv, Shapes, Steadies
<1>6. ~raced => Fresh'
  BY <1>2, <1>5 DEF Steady, Fresh
<1>7. CASE u.s = stationId
  <2>1. PICK t \in Task : t = After(u)
    BY AfterIs
  <2>2. \/ t.at = "then" /\ t.op = "addst" /\ u.op = "addst" /\ t.s = u.s /\ t.ids = u.ids
        \/ t.at = "idle" /\ t.op = "refresh"
    BY <2>1, AfterIs
  <2>3. Shape(t) /\ Asked(t)'
    BY <1>2, <1>5, <2>2 DEF Shape, Asked
  <2>4. ~raced => Steady(t)'
    BY <1>6, <2>2 DEF Steady
  <2>5. task' = [task EXCEPT ![i] = t] /\ task[i].at # "idle"
    BY <1>1, <1>2, <1>7, <2>1 DEF Landed
  <2>6. QED
    BY <1>2, <1>4, <1>6, <2>3, <2>4, <2>5, PutTask
<1>8. CASE u.s # stationId /\ u.op # "addst"
  <2>1. PICK t \in Task : t = Refresh(u.s) /\ t.at = "list" /\ t.op = "refresh" /\ t.s = u.s
    BY <1>3, RefreshTask
  <2>2. Shape(t) /\ Asked(t)' /\ Steady(t)'
    BY <1>3, <2>1 DEF Shape, Asked, Steady
  <2>3. task' = [task EXCEPT ![i] = t] /\ task[i].at # "idle"
    BY <1>1, <1>2, <1>8, <2>1 DEF Landed
  <2>4. QED
    BY <1>2, <1>4, <2>1, <2>2, <2>3, PutTask
<1>9. CASE u.s # stationId /\ u.op = "addst"
  <2>1. raced
    BY <1>2, <1>5, <1>9 DEF Steady, DeviceInv, Types, TaskTypes
  <2>2. PICK j \in Slots : /\ task[j].at = "idle"
                           /\ task' = [task EXCEPT ![i] = After(u), ![j] = Refresh(u.s)]
    BY <1>1, <1>2, <1>9 DEF Landed
  <2>3. QED
    BY <1>1, <1>2, <1>4, <1>5, <1>9, <2>1, <2>2, LandTwiceStep
<1>10. QED
  BY <1>7, <1>8, <1>9

LEMMA ThenStep ==
  ASSUME DeviceInv, NEW i \in Slots, Then(i)
  PROVE  DeviceInv'
<1>1. PICK u \in Task : u = task[i]
  BY DEF DeviceInv, Types, TaskTypes
<1>2. PICK s : s = CHOOSE x \in u.ids : TRUE
  OBVIOUS
<1>3. /\ UNCHANGED <<stations, db, bound, shown, offline, want, raced, unasked, dropped>>
      /\ u.at = "then" /\ stationId' = s
      /\ task' = [task EXCEPT ![i] = IF s = stationId THEN Idle ELSE Refresh(s)]
  BY <1>1, <1>2 DEF Then, server
<1>4. Shape(u) /\ (~raced => Steady(u))
  BY <1>1 DEF DeviceInv, Shapes, Steadies
<1>5. s \in Stations
  BY <1>2, <1>3, <1>4 DEF Shape
<1>6. UNCHANGED server /\ PageTypes' /\ unasked \subseteq unasked'
  BY <1>3, <1>5 DEF server, PageTypes, DeviceInv, Types
<1>7. CASE s = stationId
  <2>1. Shape(Idle) /\ Asked(Idle)' /\ Steady(Idle)'
    BY IdleTask DEF Shape, Asked, Steady
  <2>2. ~raced /\ ~offline' => Fresh'
    BY <1>3, <1>4, <1>7 DEF Steady, Fresh
  <2>3. task' = [task EXCEPT ![i] = Idle] /\ task[i].at # "idle"
    BY <1>1, <1>3, <1>7
  <2>4. QED
    BY <1>3, <1>6, <2>1, <2>2, <2>3, IdleTask, PutTask
<1>8. CASE s # stationId
  <2>1. PICK t \in Task : t = Refresh(s) /\ t.at = "list" /\ t.op = "refresh" /\ t.s = s
    BY <1>5, RefreshTask
  <2>2. Shape(t) /\ Asked(t)' /\ Steady(t)'
    BY <1>5, <2>1 DEF Shape, Asked, Steady
  <2>3. task' = [task EXCEPT ![i] = t] /\ task[i].at # "idle"
    BY <1>1, <1>3, <1>8, <2>1
  <2>4. QED
    BY <1>3, <1>6, <2>1, <2>2, <2>3, PutTask
<1>9. QED
  BY <1>7, <1>8

LEMMA MountStep ==
  ASSUME DeviceInv, NEW i \in Slots, Mount(i)
  PROVE  DeviceInv'
<1>1. /\ UNCHANGED <<stations, db, bound, shown, want, raced, unasked, dropped>>
      /\ UNCHANGED server /\ task[i].at = "mount"
  BY DEF Mount, server, hist
<1>2. PICK s \in Stations : s = Min(stations)
  BY FirstStation DEF DeviceInv, Types
<1>3. CASE stationId' = s /\ UNCHANGED offline /\ task' = [task EXCEPT ![i] = Refresh(s)]
  <2>1. PICK t \in Task : t = Refresh(s) /\ t.at = "list" /\ t.op = "refresh" /\ t.s = s
    BY RefreshTask
  <2>2. Shape(t) /\ Asked(t)' /\ Steady(t)'
    BY <2>1 DEF Shape, Asked, Steady
  <2>3. PageTypes' /\ unasked \subseteq unasked'
    BY <1>1, <1>3 DEF PageTypes, DeviceInv, Types
  <2>4. QED
    BY <1>1, <1>3, <2>1, <2>2, <2>3, PutTask
<1>4. CASE UNCHANGED stationId /\ offline' = TRUE /\ task' = [task EXCEPT ![i] = Idle]
  <2>1. Shape(Idle) /\ Asked(Idle)' /\ Steady(Idle)'
    BY IdleTask DEF Shape, Asked, Steady
  <2>2. PageTypes' /\ unasked \subseteq unasked'
    BY <1>1, <1>4 DEF PageTypes, DeviceInv, Types
  <2>3. QED
    BY <1>1, <1>4, <2>1, <2>2, IdleTask, PutTask
<1>5. QED
  BY <1>2, <1>3, <1>4 DEF Mount

-----------------------------------------------------------------------------
(* A write is served. *)

(* What a write leaves of the fields of a point: one field is replaced. *)
LEMMA PayloadIs ==
  ASSUME NEW u \in Task, NEW p \in Modules, NEW f \in Fields, u.rows[p].f = f
  PROVE  Payload(u, p) \in Fields /\ Payload(u, p) = [f EXCEPT ![u.field] = u.val]
<1>1. CASE u.field = "name"
  <2>1. Payload(u, p) = [f EXCEPT !.name = u.val]
    BY <1>1 DEF Payload
  <2>2. Payload(u, p) = [f EXCEPT ![u.field] = u.val]
    BY DEF Payload
  <2>3. QED
    BY <2>1, <2>2 DEF Fields, Task
<1>2. CASE u.field = "unit"
  <2>1. Payload(u, p) = [f EXCEPT !.unit = u.val]
    BY <1>2 DEF Payload
  <2>2. Payload(u, p) = [f EXCEPT ![u.field] = u.val]
    BY DEF Payload
  <2>3. QED
    BY <2>1, <2>2 DEF Fields, Task
<1>3. QED
  BY <1>1, <1>2 DEF Task

LEMMA PointValues ==
  /\ NoPoint \in Point /\ NewPoint \in Point /\ Blank \in Fields
  /\ NoPoint.st = "none" /\ NewPoint.st = "on" /\ NewPoint.f = Blank
BY DEF NoPoint, NewPoint, Point, Fields, Blank

(* What a write makes of its station: the point it was for, and no other. *)
LEMMA WrittenIs ==
  ASSUME StoreTypes, NEW u \in Task, u.s \in Stations, NEW p \in Modules
  PROVE  /\ Written(u, p) \in Board
         /\ \A q \in Modules : q # p => Written(u, p).pts[q] = db[u.s].pts[q]
         /\ u.op = "save" => Written(u, p).pts[p].st = db[u.s].pts[p].st
                               /\ Written(u, p).pts[p].f = Payload(u, p)
         /\ u.op \in {"on", "off"} => Written(u, p).pts[p].st = u.op
                               /\ Written(u, p).pts[p].f = db[u.s].pts[p].f
         /\ u.op \in {"del", "delmod"} => Written(u, p).pts[p] = NoPoint
         /\ u.op = "create" => Written(u, p).pts[p] = NewPoint
         /\ u.op = "addmod" =>
              Written(u, p).pts[p] = IF db[u.s].pts[p].st = "none" THEN NewPoint
                                     ELSE db[u.s].pts[p]
         /\ u.op \in {"refresh", "rename", "addst", "delst", "same"} =>
              Written(u, p) = db[u.s]
<1>1. PICK b \in Board : b = db[u.s]
  BY DEF StoreTypes
<1>2. b.pts \in Points /\ b.pts[p] \in Point
  BY DEF Board, Points
<1>3. CASE u.op = "save"
  <2>1. PICK f \in Fields : f = Payload(u, p)
    <3>1. u.rows[p].f \in Fields
      BY DEF Task, Points, Point
    <3>2. QED
      BY <3>1, PayloadIs
  <2> DEFINE w == [b EXCEPT !.pts[p].f = f]
  <2>2. /\ w \in Board /\ w.pts[p].st = b.pts[p].st /\ w.pts[p].f = f
        /\ \A q \in Modules : q # p => w.pts[q] = b.pts[q]
    BY <1>2 DEF Board, Points, Point
  <2>3. Written(u, p) = w
    BY <1>1, <1>3, <2>1 DEF Written
  <2> HIDE DEF w
  <2>4. QED
    BY <1>1, <1>3, <2>1, <2>2, <2>3
<1>4. CASE u.op \in {"on", "off"}
  <2> DEFINE w == [b EXCEPT !.pts[p].st = u.op]
  <2>2. /\ w \in Board /\ w.pts[p].st = u.op /\ w.pts[p].f = b.pts[p].f
        /\ \A q \in Modules : q # p => w.pts[q] = b.pts[q]
    BY <1>2, <1>4 DEF Board, Points, Point
  <2>3. Written(u, p) = w
    BY <1>1, <1>4 DEF Written
  <2> HIDE DEF w
  <2>4. QED
    BY <1>1, <1>4, <2>2, <2>3
<1>5. CASE u.op = "del"
  <2> DEFINE w == [b EXCEPT !.pts[p] = NoPoint]
  <2>2. /\ w \in Board /\ w.pts[p] = NoPoint
        /\ \A q \in Modules : q # p => w.pts[q] = b.pts[q]
    BY <1>2, PointValues DEF Board, Points
  <2>3. Written(u, p) = w
    BY <1>1, <1>5 DEF Written
  <2> HIDE DEF w
  <2>4. QED
    BY <1>1, <1>5, <2>2, <2>3
<1>6. CASE u.op = "create"
  <2> DEFINE w == [b EXCEPT !.pts[p] = NewPoint]
  <2>2. /\ w \in Board /\ w.pts[p] = NewPoint
        /\ \A q \in Modules : q # p => w.pts[q] = b.pts[q]
    BY <1>2, PointValues DEF Board, Points
  <2>3. Written(u, p) = w
    BY <1>1, <1>6 DEF Written
  <2> HIDE DEF w
  <2>4. QED
    BY <1>1, <1>6, <2>2, <2>3
<1>7. CASE u.op = "addmod"
  <2>1. PICK x \in Point : x = IF b.pts[p].st = "none" THEN NewPoint ELSE b.pts[p]
    BY <1>2, PointValues
  <2> DEFINE w == [b EXCEPT !.mods = @ \cup {p},
                            !.pts[p] = IF @.st = "none" THEN NewPoint ELSE @]
  <2>2. /\ w \in Board /\ w.pts[p] = x
        /\ \A q \in Modules : q # p => w.pts[q] = b.pts[q]
    BY <1>2, <2>1 DEF Board, Points
  <2>3. Written(u, p) = w
    BY <1>1, <1>7 DEF Written
  <2> HIDE DEF w
  <2>4. QED
    BY <1>1, <1>7, <2>1, <2>2, <2>3
<1>8. CASE u.op = "delmod"
  <2> DEFINE w == [b EXCEPT !.mods = @ \ {p}, !.pts[p] = NoPoint]
  <2>2. /\ w \in Board /\ w.pts[p] = NoPoint
        /\ \A q \in Modules : q # p => w.pts[q] = b.pts[q]
    BY <1>2, PointValues DEF Board, Points
  <2>3. Written(u, p) = w
    BY <1>1, <1>8 DEF Written
  <2> HIDE DEF w
  <2>4. QED
    BY <1>1, <1>8, <2>2, <2>3
<1>9. CASE u.op \in {"refresh", "rename", "addst", "delst", "same"}
  <2>1. Written(u, p) = b
    BY <1>1, <1>9 DEF Written
  <2>2. QED
    BY <1>1, <1>9, <2>1
<1>10. QED
  BY <1>3, <1>4, <1>5, <1>6, <1>7, <1>8, <1>9 DEF Task, Ops

(* What the accepted edits leave of the fields of each point. *)
LEMMA WantedIs ==
  ASSUME StoreTypes, NEW u \in Task, u.s \in Stations, NEW p \in Modules
  PROVE  /\ Wanted(u, p) \in [Stations -> [Modules -> Fields]]
         /\ u.op = "save" => Wanted(u, p)[u.s][p] = [want[u.s][p] EXCEPT ![u.field] = u.val]
         /\ u.op \in {"on", "off"} => Wanted(u, p)[u.s][p] = want[u.s][p]
         /\ u.op = "create" => Wanted(u, p)[u.s][p] = Blank
         /\ u.op = "addmod" =>
              Wanted(u, p)[u.s][p] = IF db[u.s].pts[p].st = "none" THEN Blank
                                     ELSE want[u.s][p]
         /\ u.op \in {"refresh", "rename", "addst", "delst", "same"} => Wanted(u, p) = want
<1>1. want \in [Stations -> [Modules -> Fields]]
  BY DEF StoreTypes
<1>2. CASE u.op = "save"
  <2>1. Wanted(u, p) = [want EXCEPT ![u.s][p] = [want[u.s][p] EXCEPT ![u.field] = u.val]]
    BY <1>2 DEF Wanted
  <2>2. PICK f \in Fields : f = [want[u.s][p] EXCEPT ![u.field] = u.val]
    <3>1. PICK g \in Fields : g = want[u.s][p]
      BY <1>1
    <3>2. CASE u.field = "name"
      <4>1. [g EXCEPT !.name = u.val] \in Fields
        BY DEF Fields, Task
      <4>2. QED
        BY <3>1, <3>2, <4>1
    <3>3. CASE u.field = "unit"
      <4>1. [g EXCEPT !.unit = u.val] \in Fields
        BY DEF Fields, Task
      <4>2. QED
        BY <3>1, <3>3, <4>1
    <3>4. QED
      BY <3>2, <3>3 DEF Task
  <2>3. Wanted(u, p) = [want EXCEPT ![u.s][p] = f]
    BY <2>1, <2>2
  <2>4. QED
    BY <1>1, <1>2, <2>2, <2>3
<1>3. CASE u.op \in {"del", "delmod", "create"} \/ (u.op = "addmod" /\ db[u.s].pts[p].st = "none")
  <2>1. Wanted(u, p) = [want EXCEPT ![u.s][p] = Blank]
    BY <1>3 DEF Wanted
  <2>2. QED
    BY <1>1, <1>3, <2>1, PointValues
<1>4. CASE \/ u.op \in {"refresh", "on", "off", "rename", "addst", "delst", "same"}
           \/ u.op = "addmod" /\ db[u.s].pts[p].st # "none"
  <2>1. Wanted(u, p) = want
    BY <1>4 DEF Wanted
  <2>2. QED
    BY <1>1, <1>4, <2>1
<1>5. QED
  BY <1>2, <1>3, <1>4 DEF Task, Ops

LEMMA WantedElsewhere ==
  ASSUME StoreTypes, NEW u \in Task, u.s \in Stations, NEW p \in Modules,
         NEW s \in Stations, NEW q \in Modules, s # u.s \/ q # p
  PROVE  Wanted(u, p)[s][q] = want[s][q]
<1>1. want \in [Stations -> [Modules -> Fields]]
  BY DEF StoreTypes
<1>2. PICK g : \/ Wanted(u, p) = want
               \/ Wanted(u, p) = [want EXCEPT ![u.s][p] = g]
  <2>1. CASE u.op = "save"
    BY <2>1 DEF Wanted
  <2>2. CASE u.op \in {"del", "delmod", "create"} \/ (u.op = "addmod" /\ db[u.s].pts[p].st = "none")
    BY <2>2 DEF Wanted
  <2>3. CASE \/ u.op \in {"refresh", "on", "off", "rename", "addst", "delst", "same"}
             \/ u.op = "addmod" /\ db[u.s].pts[p].st # "none"
    BY <2>3 DEF Wanted
  <2>4. QED
    BY <2>1, <2>2, <2>3 DEF Task, Ops
<1>3. CASE Wanted(u, p) = want
  BY <1>3
<1>4. CASE Wanted(u, p) = [want EXCEPT ![u.s][p] = g]
  BY <1>1, <1>4
<1>5. QED
  BY <1>2, <1>3, <1>4

(* The store after a write that does not add a station. *)
LEMMA ServedStore ==
  ASSUME StoreTypes, NEW u \in Task, u.s \in Stations, NEW p \in Modules,
         ~Refused(u, p), u.op # "addst", UNCHANGED bound,
         stations' = IF u.op = "delst" THEN stations \ {u.s} ELSE stations,
         db' = [db EXCEPT ![u.s] = Written(u, p)], want' = Wanted(u, p)
  PROVE  /\ StoreTypes'
         /\ \A s \in Stations, q \in Modules :
              s # u.s \/ q # p => db'[s].pts[q] = db[s].pts[q] /\ want'[s][q] = want[s][q]
         /\ db'[u.s] = Written(u, p)
<1>1. Written(u, p) \in Board /\ Wanted(u, p) \in [Stations -> [Modules -> Fields]]
  BY WrittenIs, WantedIs
<1>2. db \in [Stations -> Board] /\ stations \in SUBSET Stations
      /\ bound \in SUBSET (Stations \X Modules)
  BY DEF StoreTypes
<1>3. stations' # {}
  <2>1. CASE u.op = "delst"
    <3>1. ~(Cardinality(stations) <= 1)
      BY <2>1 DEF Refused
    <3>2. QED
      BY <2>1, <3>1, OneStationLeft
  <2>2. CASE u.op # "delst"
    BY <2>2 DEF StoreTypes
  <2>3. QED
    BY <2>1, <2>2
<1>4. db' \in [Stations -> Board] /\ db'[u.s] = Written(u, p)
      /\ \A s \in Stations : s # u.s => db'[s] = db[s]
  BY <1>1, <1>2
<1>5. StoreTypes'
  BY <1>1, <1>2, <1>3, <1>4 DEF StoreTypes
<1>6. \A q \in Modules : q # p => db'[u.s].pts[q] = db[u.s].pts[q]
  BY <1>4, WrittenIs
<1>7. \A s \in Stations, q \in Modules :
        s # u.s \/ q # p => want'[s][q] = want[s][q]
  <2> SUFFICES ASSUME NEW s \in Stations, NEW q \in Modules, s # u.s \/ q # p
               PROVE  want'[s][q] = want[s][q]
    OBVIOUS
  <2>1. Wanted(u, p)[s][q] = want[s][q]
    BY WantedElsewhere
  <2>2. QED
    BY <2>1
<1>8. QED
  BY <1>4, <1>5, <1>6, <1>7

(* The store after a station was added. *)
LEMMA AddedStore ==
  ASSUME StoreTypes, NEW x \in Stations, x \notin stations, UNCHANGED bound,
         stations' = stations \cup {x},
         db' = [s \in Stations |-> IF s \in {x} THEN Empty ELSE db[s]],
         want' = [s \in Stations |-> IF s \in {x} THEN [m \in Modules |-> Blank]
                                     ELSE want[s]]
  PROVE  /\ StoreTypes'
         /\ \A s \in stations : db'[s] = db[s] /\ want'[s] = want[s]
         /\ \A m \in Modules : db'[x].pts[m].st = "none"
<1>1. Empty \in Board /\ \A m \in Modules : Empty.pts[m] = NoPoint
  BY IdleTask DEF Idle, Task, Empty
<1>2. [m \in Modules |-> Blank] \in [Modules -> Fields]
  BY PointValues
<1>3. QED
  BY <1>1, <1>2, PointValues DEF StoreTypes

(* A bound point that was asked for is not the one the write takes away. *)
LEMMA ServedKeepsBound ==
  ASSUME StoreTypes, NEW u \in Task, u.s \in Stations, u.at = "write", NEW p \in u.todo,
         ~Refused(u, p), u.op # "addst", UNCHANGED bound, Asked(u), BoundStaysLive,
         stations' = IF u.op = "delst" THEN stations \ {u.s} ELSE stations,
         db' = [db EXCEPT ![u.s] = Written(u, p)], want' = Wanted(u, p),
         UNCHANGED unasked,
         dropped' = dropped \cup
           {x \in bound : x[1] = u.s /\ (u.op = "delst" \/ (u.op = "delmod" /\ x[2] = p))}
  PROVE  BoundStaysLive'
<1>1. p \in Modules
  BY DEF Task
<1> SUFFICES ASSUME NEW x \in bound \ (unasked \cup dropped')
             PROVE  Live(x)'
  BY DEF BoundStaysLive
<1>2. Live(x) /\ ~(x[1] = u.s /\ (u.op = "delst" \/ (u.op = "delmod" /\ x[2] = p)))
  BY DEF BoundStaysLive
<1>3. PICK s \in Stations, q \in Modules : x = <<s, q>>
  BY DEF StoreTypes
<1>4. s \in stations /\ db[s].pts[q].st = "on"
  BY <1>2, <1>3 DEF Live
<1>5. s \in stations'
  BY <1>2, <1>3, <1>4
<1>6. CASE s # u.s \/ q # p
  <2>1. db'[s].pts[q] = db[s].pts[q]
    <3>1. CASE s # u.s
      BY <3>1 DEF StoreTypes
    <3>2. CASE s = u.s /\ q # p
      <4>1. Written(u, p).pts[q] = db[u.s].pts[q]
        BY <1>1, <3>2, WrittenIs
      <4>2. db'[u.s] = Written(u, p)
        BY DEF StoreTypes
      <4>3. QED
        BY <3>2, <4>1, <4>2
    <3>3. QED
      BY <1>6, <3>1, <3>2
  <2>2. QED
    BY <1>3, <1>4, <1>5, <2>1 DEF Live
<1>7. CASE s = u.s /\ q = p
  <2>1. u.op \notin {"off", "del"}
    <3>1. <<u.s, p>> \in bound /\ <<u.s, p>> \notin unasked
      BY <1>3, <1>7
    <3>2. QED
      BY <3>1 DEF Asked
  <2>2. u.op # "delmod"
    BY <1>2, <1>3, <1>7
  <2>3. db'[u.s] = Written(u, p)
    BY <1>1, ServedStore
  <2>4. Written(u, p).pts[p].st = "on"
    <3>1. CASE u.op \in {"save", "on", "create"}
      BY <1>1, <1>4, <1>7, <3>1, WrittenIs, PointValues
    <3>2. CASE u.op = "addmod"
      BY <1>1, <1>4, <1>7, <3>2, WrittenIs
    <3>3. CASE u.op \in {"refresh", "rename", "addst", "delst", "same"}
      BY <1>1, <1>4, <1>7, <3>3, WrittenIs
    <3>4. QED
      BY <2>1, <2>2, <3>1, <3>2, <3>3 DEF Task, Ops
  <2>5. QED
    BY <1>3, <1>5, <1>7, <2>3, <2>4 DEF Live
<1>8. QED
  BY <1>6, <1>7

(* An edit made from rows that are up to date leaves every field as wanted. *)
LEMMA ServedKeepsEdits ==
  ASSUME StoreTypes, NEW u \in Task, u.s \in Stations, u.at = "write", NEW p \in u.todo,
         ~Refused(u, p), u.op # "addst", UNCHANGED <<bound, raced>>, Steady(u), EditsKept,
         ~raced,
         stations' = IF u.op = "delst" THEN stations \ {u.s} ELSE stations,
         db' = [db EXCEPT ![u.s] = Written(u, p)], want' = Wanted(u, p)
  PROVE  EditsKept'
<1>1. p \in Modules
  BY DEF Task
<1> SUFFICES ASSUME NEW s \in stations', NEW q \in Modules, db'[s].pts[q].st # "none"
             PROVE  db'[s].pts[q].f = want'[s][q]
  BY DEF EditsKept
<1>2. s \in stations /\ s \in Stations
  BY DEF StoreTypes
<1>3. db[s].pts[q].st # "none" => db[s].pts[q].f = want[s][q]
  BY <1>2 DEF EditsKept
<1>4. CASE s # u.s \/ q # p
  <2>1. db'[s].pts[q] = db[s].pts[q] /\ want'[s][q] = want[s][q]
    BY <1>1, <1>2, <1>4, ServedStore
  <2>2. QED
    BY <1>3, <2>1
<1>5. CASE s = u.s /\ q = p
  <2>1. db'[u.s] = Written(u, p)
    BY <1>1, ServedStore
  <2>2. PICK w : w = Written(u, p)
    OBVIOUS
  <2>3. db'[s].pts[q] = w.pts[p] /\ want'[s][q] = Wanted(u, p)[u.s][p]
    BY <1>5, <2>1, <2>2
  <2>4. CASE u.op = "save"
    <3>1. db[u.s].pts[p].st # "none" /\ u.rows[p] = db[u.s].pts[p]
      BY <2>4 DEF Refused, Steady
    <3>2. PICK f \in Fields : f = u.rows[p].f
      BY <1>1 DEF Task, Points, Point
    <3>3. Payload(u, p) = [f EXCEPT ![u.field] = u.val]
      BY <1>1, <3>2, PayloadIs
    <3>4. f = want[u.s][p]
      BY <1>3, <1>5, <3>1, <3>2
    <3>5. QED
      BY <1>1, <2>2, <2>3, <2>4, <3>3, <3>4, WrittenIs, WantedIs
  <2>5. CASE u.op \in {"on", "off"}
    <3>1. db[u.s].pts[p].st # "none"
      BY <2>5 DEF Refused
    <3>2. w.pts[p].f = db[u.s].pts[p].f
      BY <1>1, <2>2, <2>5, WrittenIs
    <3>3. Wanted(u, p)[u.s][p] = want[u.s][p]
      BY <1>1, <2>5, WantedIs
    <3>4. QED
      BY <1>3, <1>5, <2>3, <3>1, <3>2, <3>3
  <2>6. CASE u.op \in {"del", "delmod"}
    <3>1. w.pts[p].st = "none"
      BY <1>1, <2>2, <2>6, WrittenIs, PointValues
    <3>2. QED
      BY <2>3, <3>1
  <2>7. CASE u.op = "create"
    <3>1. w.pts[p] = NewPoint /\ Wanted(u, p)[u.s][p] = Blank
      BY <1>1, <2>2, <2>7, WrittenIs, WantedIs
    <3>2. QED
      BY <2>3, <3>1, PointValues
  <2>8. CASE u.op = "addmod"
    <3>1. /\ w.pts[p] = IF db[u.s].pts[p].st = "none" THEN NewPoint ELSE db[u.s].pts[p]
          /\ Wanted(u, p)[u.s][p] = IF db[u.s].pts[p].st = "none" THEN Blank ELSE want[u.s][p]
      BY <1>1, <2>2, <2>8, WrittenIs, WantedIs
    <3>2. QED
      BY <1>3, <1>5, <2>3, <3>1, PointValues
  <2>9. CASE u.op \in {"refresh", "rename", "addst", "delst", "same"}
    <3>1. w = db[u.s] /\ Wanted(u, p) = want
      BY <1>1, <2>2, <2>9, WrittenIs, WantedIs
    <3>2. QED
      BY <1>3, <1>5, <2>3, <3>1
  <2>10. QED
    BY <2>4, <2>5, <2>6, <2>7, <2>8, <2>9 DEF Task, Ops
<1>6. QED
  BY <1>4, <1>5

(* The store has changed under one handler: what has to be looked at. *)
LEMMA StoreChanged ==
  ASSUME DeviceInv, NEW i \in Slots, NEW t \in Task, task[i].at # "idle", t.at # "idle",
         task' = [task EXCEPT ![i] = t], StoreTypes',
         UNCHANGED <<bound, stationId, shown, offline, raced, unasked>>,
         Shape(t), Asked(t), ~raced => Steady(t)', BoundStaysLive', ~raced => EditsKept'
  PROVE  DeviceInv'
<1>1. task \in [Slots -> Task] /\ task' \in [Slots -> Task]
  BY DEF DeviceInv, Types, TaskTypes
<1>2. task'[i] = t /\ \A j \in Slots : j # i => task'[j] = task[j]
  BY <1>1
<1>3. Types'
  BY <1>1 DEF DeviceInv, Types, PageTypes, TaskTypes
<1>4. Shapes'
  BY <1>2, Zenon DEF DeviceInv, Shapes
<1>5. AsksFirst'
  <2> SUFFICES ASSUME NEW j \in Slots PROVE Asked(task[j])'
    BY DEF AsksFirst
  <2>1. Asked(task'[j])
    BY <1>2 DEF DeviceInv, AsksFirst
  <2>2. QED
    BY <2>1 DEF Asked
<1>6. ~raced => \A j \in Slots : j # i => task[j].at = "idle"
  BY DEF DeviceInv, Alone
<1>7. Alone'
  BY <1>2, <1>6 DEF Alone
<1>8. Steadies'
  <2> SUFFICES ASSUME ~raced', NEW j \in Slots PROVE Steady(task[j])'
    BY DEF Steadies
  <2>1. CASE j = i
    BY <1>2, <2>1 DEF Steady
  <2>2. CASE j # i
    BY <1>2, <1>6, <2>2 DEF Steady
  <2>3. QED
    BY <2>1, <2>2
<1>9. Quiet'
  BY <1>2 DEF Quiet, Busy
<1>10. EditsKept'
  BY DEF EditsKept
<1>11. QED
  BY <1>3, <1>4, <1>5, <1>7, <1>8, <1>9, <1>10 DEF DeviceInv

LEMMA ServedStep ==
  ASSUME DeviceInv, NEW i \in Slots, NEW p \in Modules, WriteServed(i, p)
  PROVE  DeviceInv'
<1>1. PICK u \in Task : u = task[i]
  BY DEF DeviceInv, Types, TaskTypes
<1>2. /\ UNCHANGED <<bound, stationId, shown, offline, raced, unasked>>
      /\ u.at = "write" /\ p \in u.todo /\ ~Refused(u, p)
      /\ dropped' = dropped \cup
           {x \in bound : x[1] = u.s /\ (u.op = "delst" \/ (u.op = "delmod" /\ x[2] = p))}
  BY <1>1 DEF WriteServed, view
<1>3. Shape(u) /\ Asked(u) /\ (~raced => Steady(u))
  BY <1>1 DEF DeviceInv, Shapes, Steadies, AsksFirst
<1>4. u.s \in Stations
  BY <1>2, <1>3 DEF Shape
<1>5. StoreTypes /\ BoundStaysLive /\ EditsKept
  BY DEF DeviceInv, Types
<1>6. PICK ok \in BOOLEAN : ok = TRUE
  OBVIOUS
<1>7. PICK t \in Task : t = AfterWrite(u, p, ok)
  BY <1>2, AfterWriteIs
<1>8. /\ t.at \in {"write", "list"} /\ t.op = u.op /\ t.s = u.s /\ t.ids = u.ids
      /\ t.rows = u.rows
      /\ t.at = "write" => u.todo # {p} /\ t.todo = u.todo \ {p}
  <2>1. /\ t.at \in {"write", "list", "idle"}
        /\ t.at # "idle" => t.op = u.op /\ t.s = u.s /\ t.ids = u.ids /\ t.rows = u.rows
        /\ t.at = "write" => u.todo # {p} /\ t.todo = u.todo \ {p}
    BY <1>2, <1>7, AfterWriteIs
  <2>2. t.at = "idle" => ~ok
    BY <1>2, <1>7, AfterWriteIs
  <2>3. QED
    BY <1>6, <2>1, <2>2
<1>9. Shape(t) /\ Asked(t)
  BY <1>2, <1>3, <1>8 DEF Shape, Asked
<1>10. task' = [task EXCEPT ![i] = t] /\ task[i].at # "idle"
  BY <1>1, <1>2, <1>6, <1>7 DEF WriteServed
<1>11. CASE u.op = "addst"
  <2>1. PICK x \in Stations : u.ids = {x}
    BY <1>3, <1>11 DEF Shape
  <2>2. x \notin stations
    BY <1>2, <1>11, <2>1 DEF Refused
  <2>3. /\ stations' = stations \cup {x}
        /\ db' = [s \in Stations |-> IF s \in {x} THEN Empty ELSE db[s]]
        /\ want' = [s \in Stations |-> IF s \in {x} THEN [m \in Modules |-> Blank]
                                       ELSE want[s]]
    BY <1>1, <1>11, <2>1 DEF WriteServed
  <2>4. /\ StoreTypes'
        /\ \A s \in stations : db'[s] = db[s] /\ want'[s] = want[s]
        /\ \A m \in Modules : db'[x].pts[m].st = "none"
    BY <1>2, <1>5, <2>2, <2>3, AddedStore
  <2>5. BoundStaysLive'
    <3> SUFFICES ASSUME NEW y \in bound \ (unasked \cup dropped)
                 PROVE  Live(y)'
      BY <1>2 DEF BoundStaysLive
    <3>1. Live(y)
      BY <1>5 DEF BoundStaysLive
    <3>2. db'[y[1]] = db[y[1]] /\ y[1] \in stations'
      BY <2>3, <2>4, <3>1 DEF Live
    <3>3. QED
      BY <3>1, <3>2 DEF Live
  <2>6. EditsKept'
    BY <1>2, <1>5, <2>3, <2>4 DEF EditsKept
  <2>7. ~raced => Steady(t)'
    BY <1>2, <1>3, <1>8, <1>11, <2>3 DEF Steady
  <2>8. QED
    BY <1>2, <1>8, <1>9, <1>10, <2>4, <2>5, <2>6, <2>7, StoreChanged
<1>12. CASE u.op # "addst"
  <2>1. /\ stations' = IF u.op = "delst" THEN stations \ {u.s} ELSE stations
        /\ db' = [db EXCEPT ![u.s] = Written(u, p)]
        /\ want' = Wanted(u, p)
    BY <1>1, <1>12 DEF WriteServed
  <2>2. /\ StoreTypes'
        /\ \A s \in Stations, q \in Modules :
             s # u.s \/ q # p => db'[s].pts[q] = db[s].pts[q] /\ want'[s][q] = want[s][q]
    BY <1>2, <1>4, <1>5, <1>12, <2>1, ServedStore
  <2>3. BoundStaysLive'
    BY <1>2, <1>3, <1>4, <1>5, <1>12, <2>1, ServedKeepsBound
  <2>4. ~raced => EditsKept'
    BY <1>2, <1>3, <1>4, <1>5, <1>12, <2>1, ServedKeepsEdits
  <2>5. ASSUME ~raced PROVE Steady(t)'
    <3>1. /\ u.op \in {"delmod", "rename", "addmod"} => \A q, r \in u.todo : q = r
          /\ u.op = "save" => \A q \in u.todo : u.rows[q] = db[u.s].pts[q]
      BY <1>2, <1>3, <2>5 DEF Steady
    <3>2. u.op \in {"delmod", "rename", "addmod"} => t.at = "list"
      BY <1>2, <1>8, <3>1
    <3>3. u.op = "save" /\ t.at = "write" => \A q \in t.todo : u.rows[q] = db'[u.s].pts[q]
      <4> SUFFICES ASSUME u.op = "save", t.at = "write", NEW q \in t.todo
                   PROVE  u.rows[q] = db'[u.s].pts[q]
        OBVIOUS
      <4>1. q \in u.todo /\ q # p /\ q \in Modules
        BY <1>8 DEF Task
      <4>2. db'[u.s].pts[q] = db[u.s].pts[q]
        BY <1>4, <2>2, <4>1
      <4>3. QED
        BY <3>1, <4>1, <4>2
    <3>4. QED
      BY <1>8, <1>12, <3>2, <3>3 DEF Steady
  <2>6. QED
    BY <1>2, <1>8, <1>9, <1>10, <2>2, <2>3, <2>4, <2>5, StoreChanged
<1>13. QED
  BY <1>11, <1>12

-----------------------------------------------------------------------------
(* What the chart binds and lets go. *)
LEMMA BindStep ==
  ASSUME DeviceInv, NEW s \in Stations, NEW p \in Modules, GraphBind(s, p)
  PROVE  DeviceInv'
<1>1. /\ UNCHANGED <<stations, db, stationId, shown, offline, task, raced, want, dropped>>
      /\ s \in stations /\ db[s].pts[p].st = "on"
      /\ bound' = bound \cup {<<s, p>>} /\ unasked \subseteq unasked'
      /\ \A i \in Slots : task[i].at = "write" /\ task[i].s = s /\ p \in task[i].todo =>
           <<s, p>> \in unasked'
  BY DEF GraphBind, server, view
<1>2. Types'
  BY <1>1 DEF DeviceInv, Types, StoreTypes, PageTypes, TaskTypes
<1>3. AsksFirst'
  <2> SUFFICES ASSUME NEW i \in Slots, task[i].at = "write", task[i].op \in {"off", "del"},
                      NEW q \in task[i].todo, <<task[i].s, q>> \in bound'
               PROVE  <<task[i].s, q>> \in unasked'
    BY <1>1 DEF AsksFirst, Asked
  <2>1. CASE <<task[i].s, q>> \in bound
    BY <1>1, <2>1 DEF DeviceInv, AsksFirst, Asked
  <2>2. CASE <<task[i].s, q>> = <<s, p>>
    BY <1>1, <2>2
  <2>3. QED
    BY <1>1, <2>1, <2>2
<1>4. BoundStaysLive'
  <2> SUFFICES ASSUME NEW x \in bound' \ (unasked' \cup dropped')
               PROVE  Live(x)
    BY <1>1 DEF BoundStaysLive, Live
  <2>1. CASE x \in bound
    BY <1>1, <2>1 DEF DeviceInv, BoundStaysLive
  <2>2. CASE x = <<s, p>>
    BY <1>1, <2>2 DEF Live
  <2>3. QED
    BY <1>1, <2>1, <2>2
<1>5. Shapes' /\ Alone' /\ Steadies' /\ Quiet' /\ EditsKept'
  BY <1>1 DEF DeviceInv, Shapes, Shape, Alone, Steadies, Steady, Quiet, Busy, Fresh, EditsKept
<1>6. QED
  BY <1>2, <1>3, <1>4, <1>5 DEF DeviceInv

LEMMA UnbindStep ==
  ASSUME DeviceInv, GraphUnbind
  PROVE  DeviceInv'
<1>1. UNCHANGED <<stations, db, stationId, shown, offline, task, raced, want>>
  BY DEF GraphUnbind, server, view
<1>2. PICK x \in bound : /\ bound' = bound \ {x} /\ unasked' = unasked \ {x}
                         /\ dropped' = dropped \ {x}
  BY DEF GraphUnbind
<1>3. Types'
  BY <1>1, <1>2 DEF DeviceInv, Types, StoreTypes, PageTypes, TaskTypes
<1>4. AsksFirst'
  BY <1>1, <1>2 DEF DeviceInv, AsksFirst, Asked
<1>5. BoundStaysLive'
  BY <1>1, <1>2 DEF DeviceInv, BoundStaysLive, Live
<1>6. Shapes' /\ Alone' /\ Steadies' /\ Quiet' /\ EditsKept'
  BY <1>1 DEF DeviceInv, Shapes, Shape, Alone, Steadies, Steady, Quiet, Busy, Fresh, EditsKept
<1>7. QED
  BY <1>3, <1>4, <1>5, <1>6 DEF DeviceInv

(* Picking, hiding and standing still change nothing that is kept. *)
LEMMA PageOnlyStep ==
  ASSUME DeviceInv, UNCHANGED <<stations, db, bound, stationId, shown, offline, task, raced,
                                want, unasked, dropped>>
  PROVE  DeviceInv'
<1>1. Types' /\ Shapes' /\ Alone'
  BY DEF DeviceInv, Types, StoreTypes, PageTypes, TaskTypes, Shapes, Shape, Alone
<1>2. AsksFirst' /\ BoundStaysLive'
  BY DEF DeviceInv, AsksFirst, Asked, BoundStaysLive, Live
<1>3. Steadies' /\ Quiet' /\ EditsKept'
  BY DEF DeviceInv, Steadies, Steady, Quiet, Busy, Fresh, EditsKept
<1>4. QED
  BY <1>1, <1>2, <1>3 DEF DeviceInv

-----------------------------------------------------------------------------
LEMMA DeviceInit == Init => DeviceInv
<1> SUFFICES ASSUME Init PROVE DeviceInv
  OBVIOUS
<1>1. 1 \in Modules /\ 1 \in Slots
  BY DeviceAssumption DEF Modules, Slots
<1>2. Empty \in Board /\ Empty.pts \in Points /\ Empty.pts = [m \in Modules |-> NoPoint]
  BY IdleTask DEF Idle, Task, Empty
<1>3. InitBoard \in Board
  BY <1>1, PointValues DEF InitBoard, Board, Points
<1> DEFINE v == [Idle EXCEPT !.at = "mount"]
<1>4. v \in Task /\ v.at = "mount" /\ v.op = "refresh"
  BY IdleTask DEF Task, Ats
<1>5. task = [i \in Slots |-> IF i = 1 THEN v ELSE Idle]
  BY DEF Init
<1> HIDE DEF v
<1>6. /\ task \in [Slots -> Task] /\ task[1] = v
      /\ \A i \in Slots : i # 1 => task[i] = Idle
  BY <1>1, <1>4, <1>5, IdleTask
<1>7. StoreTypes
  BY <1>2, <1>3, PointValues DEF Init, StoreTypes
<1>8. Types
  BY <1>2, <1>6, <1>7 DEF Types, PageTypes, TaskTypes, Init
<1>9. \A i \in Slots : /\ task[i].at \in {"mount", "idle"} /\ task[i].op = "refresh"
                       /\ task[i].at = "idle" <=> i # 1
  BY <1>4, <1>6, IdleTask
<1>10. Shapes /\ AsksFirst /\ Alone /\ Steadies
  BY <1>9 DEF Shapes, Shape, AsksFirst, Asked, Alone, Steadies, Steady
<1>11. Quiet
  BY <1>1, <1>9 DEF Quiet, Busy
<1>12. BoundStaysLive
  BY DEF Init, BoundStaysLive
<1>13. EditsKept
  <2> SUFFICES ASSUME NEW s \in stations, NEW p \in Modules, db[s].pts[p].st # "none"
               PROVE  db[s].pts[p].f = want[s][p]
    BY DEF EditsKept
  <2>1. s \in Stations /\ db[s] = InitBoard /\ want[s][p] = Blank
    BY DEF Init
  <2>2. InitBoard.pts[p] = IF p = 1 THEN NewPoint ELSE NoPoint
    BY DEF InitBoard
  <2>3. QED
    BY <2>1, <2>2, PointValues
<1>14. QED
  BY <1>8, <1>10, <1>11, <1>12, <1>13 DEF DeviceInv

(* What the engineer and the chart start. *)
LEMMA EngineerStep ==
  ASSUME DeviceInv, Engineer
  PROVE  DeviceInv'
<1>1. CASE \E s \in Stations : SelectStation(s)
  BY <1>1, SelectStep
<1>2. CASE onRemoveStation \/ onSaveStation \/ \E s \in Stations : onCreateStation(s)
  BY <1>2, StationStep
<1>3. ASSUME NEW p \in Modules, NEW field \in {"name", "unit"}, NEW val \in {0, 1},
             commitCell(p, field, val) \/ commitCard(p, field, val)
               \/ saveBinding(p, field, val)
      PROVE  DeviceInv'
  <2>1. onSavePoint(p, field, val)
    BY <1>3 DEF commitCell, commitCard, saveBinding
  <2>2. QED
    BY <2>1, SavePointStep
<1>4. ASSUME NEW p \in Modules, onTogglePoint(p) \/ onDeletePoint(p)
      PROVE  DeviceInv'
  BY <1>4, TogglePointStep, DeletePointStep
<1>5. ASSUME NEW m \in Modules,
             onCreatePoint(m) \/ addModule(m) \/ onRemoveModule(m) \/ commitEdit(m)
      PROVE  DeviceInv'
  <2>1. PICK op \in {"create", "addmod", "delmod", "rename"} :
          Start(Write(op, {m})) /\ UNCHANGED view
    BY <1>5 DEF onCreatePoint, addModule, onRemoveModule, commitEdit, onUpdateChannelName
  <2>2. QED
    BY <2>1, ModuleStep
<1>6. ASSUME NEW m \in Modules, onAddModuleByKind(m) PROVE DeviceInv'
  BY <1>6, AddByKindStep
<1>7. ASSUME NEW op \in {"on", "off", "del"}, NEW todo \in SUBSET Modules, runBatch(op, todo)
      PROVE  DeviceInv'
  BY <1>7, BatchStep
<1>8. ASSUME NEW field \in {"name", "unit"}, NEW val \in {0, 1}, runBatchEdit(field, val)
      PROVE  DeviceInv'
  BY <1>8, BatchEditStep
<1>9. CASE Pick \/ ToggleHide
  <2>1. UNCHANGED <<stations, db, bound, stationId, shown, offline, task, raced, want,
                    unasked, dropped>>
    BY <1>9 DEF Pick, ToggleHide, server, hist
  <2>2. QED
    BY <2>1, PageOnlyStep
<1>10. ASSUME NEW s \in Stations, NEW p \in Modules, GraphBind(s, p) PROVE DeviceInv'
  BY <1>10, BindStep
<1>11. CASE GraphUnbind
  BY <1>11, UnbindStep
<1>12. QED
  BY <1>1, <1>2, <1>3, <1>4, <1>5, <1>6, <1>7, <1>8, <1>9, <1>10, <1>11 DEF Engineer

LEMMA DeviceStep == DeviceInv /\ [Next]_vars => DeviceInv'
<1> SUFFICES ASSUME DeviceInv, [Next]_vars
             PROVE  DeviceInv'
  OBVIOUS
<1>1. CASE Engineer
  BY <1>1, EngineerStep
<1>2. ASSUME NEW i \in Slots, Serve(i) PROVE DeviceInv'
  BY <1>2, AskStep, AskFailsStep, ServedStep, RefusedStep, ReadListStep, ReadHardwareStep,
     ReadRowsStep, ReadFailsStep, LandStep, ThenStep, MountStep DEF Serve
<1>3. CASE UNCHANGED vars
  <2>1. UNCHANGED <<stations, db, bound, stationId, shown, offline, task, raced, want,
                    unasked, dropped>>
    BY <1>3 DEF vars, server, view, hist
  <2>2. QED
    BY <2>1, PageOnlyStep
<1>4. QED
  BY <1>1, <1>2, <1>3 DEF Next

(* The store, the page and the handlers keep their types, and what follows. *)
THEOREM DeviceInvariant == Spec => []DeviceInv
<1>1. QED
  BY DeviceInit, DeviceStep, PTL DEF Spec

(* A point that a chart pin is bound to is not disabled or deleted by a handler
   that asked the chart. *)
THEOREM BoundPointsLive == Spec => []BoundStaysLive
<1>1. DeviceInv => BoundStaysLive
  BY DEF DeviceInv
<1>2. QED
  BY <1>1, DeviceInvariant, PTL

(* A page at rest shows its station as the back end has it. *)
THEOREM RestingPageIsFresh == Spec => []QuietIsFresh
<1>1. DeviceInv => QuietIsFresh
  BY DEF DeviceInv, Quiet, Fresh, QuietIsFresh
<1>2. QED
  BY <1>1, DeviceInvariant, PTL

(* An accepted edit survives the edits that follow it. *)
THEOREM AcceptedEditsKept == Spec => []EditsKept
<1>1. DeviceInv => EditsKept
  BY DEF DeviceInv
<1>2. QED
  BY <1>1, DeviceInvariant, PTL
================================================================================

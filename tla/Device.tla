-------------------------------- MODULE Device --------------------------------
(***************************************************************************)
(* The device page (veri-ide/web/src/pages/DevicePage.tsx and components/   *)
(* device) as a client of the station store (backend/device/service.py) and *)
(* of the chart's list of bound variables.                                  *)
(*                                                                         *)
(* A module of the model has one channel, so module m carries point m.  A   *)
(* point keeps whether it is enabled and the two fields edited in place,    *)
(* name and unit; the other fields of a binding travel with them.           *)
(*                                                                         *)
(* A handler is a task: it asks, writes point by point and then re-reads    *)
(* the station in several calls (`refresh`), each step being one call       *)
(* served and its answer taken.  Tasks overlap: nothing on the page is      *)
(* disabled while one is under way.                                         *)
(***************************************************************************)
EXTENDS Integers, FiniteSets, FiniteSetsExt

CONSTANTS
  MaxStations,  \* bound: station ids 1 .. MaxStations
  MaxModules,   \* bound: module ids; the last one fills the channel space
  MaxSlots,     \* bound: tasks at once
  MaxActs,      \* bound: what the engineer starts, here and on the chart
  MaxFaults     \* bound: calls that fail although they could be served

ASSUME DeviceAssumption ==
  /\ MaxStations \in Nat \ {0} /\ MaxModules \in Nat \ {0}
  /\ MaxSlots \in Nat \ {0} /\ MaxActs \in Nat /\ MaxFaults \in Nat

Stations == 1 .. MaxStations
Modules  == 1 .. MaxModules
Slots    == 1 .. MaxSlots

VARIABLES
  stations,   \* back end: the station ids
  db,         \* back end: modules and points of each station
  bound,      \* back end: the points, by station, that a chart pin is bound to
  list,       \* the station tabs
  stationId,  \* the selected station, 0 before the first answer
  shown,      \* the modules and points on the page, and whose they are
  selected,   \* the points picked for a batch
  hide,       \* "hide disabled points"
  offline,    \* the last refresh failed
  task,       \* the handlers under way
  acts,       \* acts so far
  faults,     \* failed calls so far
  raced,      \* history: a handler started while another ran, or on a page that
              \* did not show its station
  bounced,    \* history: the selection changed while another handler ran
  want,       \* history: each point's fields as the accepted edits left them
  unasked,    \* history: bound points written after a failed or an old ask
  dropped     \* history: bound points that went with their module or station

server == <<stations, db>>
view   == <<list, stationId, shown, selected, hide, offline>>
hist   == <<raced, bounced, want, unasked, dropped>>
vars   == <<server, bound, view, task, acts, faults, hist>>

Blank   == [name |-> 0, unit |-> 0]
NoPoint == [st |-> "none", f |-> Blank]
Empty   == [mods |-> {}, pts |-> [m \in Modules |-> NoPoint]]

Idle == [at |-> "idle", op |-> "refresh", batch |-> FALSE, s |-> 0, todo |-> {},
         rows |-> Empty.pts, field |-> "name", val |-> 0, ids |-> {},
         seen |-> Empty]

Refresh(s) == [Idle EXCEPT !.at = "list", !.s = s]

Busy == \E i \in Slots : task[i].at # "idle"
OthersBusy(i) == \E j \in Slots \ {i} : task[j].at # "idle"
Present(pts) == {m \in Modules : pts[m].st # "none"}

(* visiblePoints, the board's lanes and order *)
Visible ==
  {m \in Present(shown.pts) : hide => shown.pts[m].st = "on"}

(* The hardware tree: the modules on the page, each with its channel; its menu
   reaches the hidden points too. *)
Tree == shown.mods
TreePoints == Tree \cap Present(shown.pts)

-----------------------------------------------------------------------------
(* What the engineer starts.  `scoped` takes the station selected now. *)

Start(t) ==
  /\ stationId # 0
  /\ acts < MaxActs
  /\ acts' = acts + 1
  /\ \E i \in Slots : task[i].at = "idle" /\ task' = [task EXCEPT ![i] = t]
  /\ raced' = (raced \/ Busy \/ offline \/ stationId # shown.s)
  /\ UNCHANGED <<server, bound, faults, want, unasked, dropped>>

Write(op, todo) ==
  [Idle EXCEPT !.at = "write", !.op = op, !.s = stationId, !.todo = todo,
               !.rows = shown.pts]

(* StationBar tabs: the effect on stationId re-reads. *)
SelectStation(s) ==
  /\ s \in list /\ s # stationId
  /\ Start(Refresh(s))
  /\ stationId' = s
  /\ bounced' = (bounced \/ Busy)
  /\ UNCHANGED <<list, shown, selected, hide, offline>>

(* onSavePoint, onSaveBinding: one field is edited and the binding goes back
   whole, from the row on the page. *)
onSavePoint(p, field, val) ==
  /\ Start([Write("save", {p}) EXCEPT !.field = field, !.val = val])
  /\ UNCHANGED <<view, bounced>>

(* A cell of the point table is committed whether it changed or not, a card of
   the board only when it did; the panel saves the selected row. *)
commitCell(p, field, val) ==
  /\ p \in Visible
  /\ onSavePoint(p, field, val)

commitCard(p, field, val) ==
  /\ p \in Visible
  /\ shown.pts[p].f[field] # val
  /\ onSavePoint(p, field, val)

saveBinding(p, field, val) ==
  /\ p \in Present(shown.pts)
  /\ onSavePoint(p, field, val)

(* onTogglePoint: a point is disabled only after the chart was asked. *)
onTogglePoint(p) ==
  /\ p \in Visible \cup TreePoints
  /\ Start(IF shown.pts[p].st = "on"
           THEN [Write("off", {p}) EXCEPT !.at = "ask"] ELSE Write("on", {p}))
  /\ UNCHANGED <<view, bounced>>

onDeletePoint(p) ==
  /\ p \in Visible \cup TreePoints
  /\ Start([Write("del", {p}) EXCEPT !.at = "ask"])
  /\ UNCHANGED <<view, bounced>>

(* onCreatePoint: a channel with no card on the board, its point deleted or only
   hidden. *)
Vacant == Tree \ Visible

onCreatePoint(m) ==
  /\ m \in Vacant
  /\ Start(Write("create", {m}))
  /\ UNCHANGED <<view, bounced>>

(* Both ways to add a module stop when the last channel of the page is in use. *)
spaceFull == MaxModules \in shown.mods

(* The tree's menu: the id is the number of modules on the page, plus one. *)
onAddModuleByKind(m) ==
  /\ ~spaceFull
  /\ m = Cardinality(shown.mods) + 1
  /\ Start([Write("addmod", {m}) EXCEPT !.batch = TRUE])
  /\ UNCHANGED <<view, bounced>>

(* The form above the tree takes any id. *)
addModule(m) ==
  /\ ~spaceFull
  /\ Start(Write("addmod", {m}))
  /\ UNCHANGED <<view, bounced>>

onRemoveModule(m) ==
  /\ m \in Tree
  /\ Start(Write("delmod", {m}))
  /\ UNCHANGED <<view, bounced>>

(* The channel's name is kept apart from the point's. *)
onUpdateChannelName(m) ==
  /\ Start(Write("rename", {m}))
  /\ UNCHANGED <<view, bounced>>

(* The tree sends what was typed when the field is left. *)
commitEdit(m) == m \in Tree /\ onUpdateChannelName(m)

(* onCreateStation, onRemoveStation, onSaveStation and the save shortcut: the
   last two change nothing kept here. *)
onCreateStation(s) ==
  /\ Start([Write("addst", {1}) EXCEPT !.ids = {s}])
  /\ UNCHANGED <<view, bounced>>

onRemoveStation ==
  /\ Cardinality(list) > 1 /\ stationId \in list
  /\ Start(Write("delst", {1}))
  /\ UNCHANGED <<view, bounced>>

onSaveStation ==
  /\ Start(Write("same", {1}))
  /\ UNCHANGED <<view, bounced>>

(* The batch bar acts on everything picked, the menu on what is visible of it. *)
MenuTargets == selected \cap Visible

(* runBatch: enabling does not ask. *)
runBatch(op, todo) ==
  /\ todo # {}
  /\ todo = selected \/ todo = MenuTargets
  /\ Start([Write(op, todo) EXCEPT
              !.batch = TRUE, !.at = IF op = "on" THEN "write" ELSE "ask"])
  /\ UNCHANGED <<view, bounced>>

(* runBatchEdit: each payload is made from the rows of the page at the start. *)
runBatchEdit(field, val) ==
  /\ MenuTargets # {}
  /\ Start([Write("save", MenuTargets) EXCEPT
              !.field = field, !.val = val])
  /\ UNCHANGED <<view, bounced>>

-----------------------------------------------------------------------------
(* What only changes the page. *)

(* A click or a long press on a card; a lane's button (a lane is a module). *)
pickCard(p) == IF p \in selected THEN selected \ {p} ELSE selected \cup {p}
pickLane(p) == selected \cup {p}

(* The bar's "all" and "invert", and Ctrl-A; Escape, "exit" and switchView. *)
BarPicks == {Visible, Visible \ selected, {}}

Pick ==
  /\ selected' \in BarPicks \cup {pickCard(p) : p \in Visible}
                            \cup {pickLane(p) : p \in Visible}
  /\ selected' # selected
  /\ UNCHANGED <<server, bound, list, stationId, shown, hide, offline, task,
                 acts, faults, hist>>

ToggleHide ==
  /\ hide' = ~hide
  /\ UNCHANGED <<server, bound, list, stationId, shown, selected, offline, task,
                 acts, faults, hist>>

-----------------------------------------------------------------------------
(* guardGraphBind and the first half of runBatch: names the chart binds are
   left out.  The answer is a list of names: a point of the same name at
   another station counts.  A list that cannot be had counts as empty. *)
BoundNames == {x[2] : x \in bound}

Proceed(t, asked) ==
  LET todo == t.todo \ asked IN
  IF todo # {} THEN [t EXCEPT !.at = "write", !.todo = todo]
  ELSE IF t.batch THEN [t EXCEPT !.at = "list", !.todo = {}]
  ELSE Idle

(* Mutant of Ask: a batch does not leave out what the chart binds. *)
AskSingleOnly(i) ==
  /\ task[i].at = "ask"
  /\ \/ task' = [task EXCEPT ![i] =
                   Proceed(task[i], IF task[i].batch THEN {} ELSE BoundNames)]
     \/ task[i].op = "del" /\ ~task[i].batch /\ task' = [task EXCEPT ![i] = Idle]
  /\ UNCHANGED <<server, bound, view, acts, faults, hist>>

Ask(i) ==
  /\ task[i].at = "ask"
  /\ \/ task' = [task EXCEPT ![i] = Proceed(task[i], BoundNames)]
     \* the engineer declines the confirmation
     \/ task[i].op = "del" /\ ~task[i].batch /\ task' = [task EXCEPT ![i] = Idle]
  /\ UNCHANGED <<server, bound, view, acts, faults, hist>>

AskFails(i) ==
  /\ task[i].at = "ask"
  /\ faults < MaxFaults
  /\ faults' = faults + 1
  /\ task' = [task EXCEPT ![i] = Proceed(task[i], {})]
  /\ unasked' = unasked \cup (bound \cap ({task[i].s} \X task[i].todo))
  /\ UNCHANGED <<server, bound, view, acts, raced, bounced, want, dropped>>

-----------------------------------------------------------------------------
(* One write of a task, at the point p of its todo list. *)

NewPoint == [st |-> "on", f |-> Blank]

(* Mutant of Payload: only the edited field is sent. *)
PayloadPatchOnly(t, p) == [Blank EXCEPT ![t.field] = t.val]

Payload(t, p) == [t.rows[p].f EXCEPT ![t.field] = t.val]

(* The station as the write leaves it; Refused(t, p) says when it does not. *)
Refused(t, p) ==
  \/ t.op # "addst" /\ t.s \notin stations
  \/ t.op \in {"save", "on", "off", "del"} /\ db[t.s].pts[p].st = "none"
  \/ t.op = "create" /\ (p \notin db[t.s].mods \/ db[t.s].pts[p].st # "none")
  \/ t.op = "addmod" /\ p \in db[t.s].mods
  \/ t.op \in {"delmod", "rename"} /\ p \notin db[t.s].mods
  \/ t.op = "addst"  /\ t.ids \subseteq stations
  \/ t.op = "delst"  /\ Cardinality(stations) <= 1

Written(t, p) ==
  LET b == db[t.s] IN
  CASE t.op = "save"   -> [b EXCEPT !.pts[p].f = Payload(t, p)]
    [] t.op \in {"on", "off"} -> [b EXCEPT !.pts[p].st = t.op]
    [] t.op = "del"    -> [b EXCEPT !.pts[p] = NoPoint]
    [] t.op = "create" -> [b EXCEPT !.pts[p] = NewPoint]
    [] t.op = "addmod" -> [b EXCEPT !.mods = @ \cup {p},
                             !.pts[p] = IF @.st = "none" THEN NewPoint ELSE @]
    [] t.op = "delmod" -> [b EXCEPT !.mods = @ \ {p}, !.pts[p] = NoPoint]
    [] OTHER -> b

(* Mutant of AfterWrite: the station is re-read only when the write failed. *)
AfterWriteTrusting(t, p, ok) ==
  IF t.todo # {p} THEN [t EXCEPT !.todo = @ \ {p}]
  ELSE IF ok THEN Idle
  ELSE [t EXCEPT !.at = "list", !.todo = {}]

(* After a write: the next point; then every handler re-reads the station, but
   for adding by kind, removing a module and naming a channel when they were
   refused. *)
AfterWrite(t, p, ok) ==
  IF t.todo # {p} THEN [t EXCEPT !.todo = @ \ {p}]
  ELSE IF ~ok /\ (t.op \in {"delmod", "rename"} \/ (t.op = "addmod" /\ t.batch)) THEN Idle
  ELSE [t EXCEPT !.at = "list", !.todo = {}]

Wanted(t, p) ==
  CASE t.op = "save" -> [want EXCEPT ![t.s][p][t.field] = t.val]
    [] t.op \in {"del", "delmod", "create"} -> [want EXCEPT ![t.s][p] = Blank]
    [] t.op = "addmod" /\ db[t.s].pts[p].st = "none" ->
         [want EXCEPT ![t.s][p] = Blank]
    [] OTHER -> want

WriteServed(i, p) ==
  LET t == task[i] IN
  /\ t.at = "write" /\ p \in t.todo
  /\ ~Refused(t, p)
  /\ IF t.op = "addst"
     THEN /\ stations' = stations \cup t.ids
          /\ db' = [s \in Stations |-> IF s \in t.ids THEN Empty ELSE db[s]]
          /\ want' = [s \in Stations |-> IF s \in t.ids
                        THEN [m \in Modules |-> Blank] ELSE want[s]]
     ELSE /\ stations' = IF t.op = "delst" THEN stations \ {t.s} ELSE stations
          /\ db' = [db EXCEPT ![t.s] = Written(t, p)]
          /\ want' = Wanted(t, p)
  /\ task' = [task EXCEPT ![i] = AfterWrite(t, p, TRUE)]
  /\ dropped' = dropped \cup
       {x \in bound : x[1] = t.s /\ (t.op = "delst" \/ (t.op = "delmod" /\ x[2] = p))}
  /\ UNCHANGED <<bound, view, acts, faults, raced, bounced, unasked>>

WriteRefused(i, p) ==
  LET t == task[i] IN
  /\ t.at = "write" /\ p \in t.todo
  /\ \/ Refused(t, p) /\ UNCHANGED faults
     \/ ~Refused(t, p) /\ faults < MaxFaults /\ faults' = faults + 1
  /\ task' = [task EXCEPT ![i] = AfterWrite(t, p, FALSE)]
  /\ UNCHANGED <<server, bound, view, acts, hist>>

-----------------------------------------------------------------------------
(* refresh(id): the stations, then the hardware and the points of the station,
   or of the first one when it is gone; validate and iomap.st follow, and the
   page is set in one go. *)

ReadList(i) ==
  /\ task[i].at = "list"
  /\ LET s == IF task[i].s \in stations THEN task[i].s ELSE Min(stations) IN
     task' = [task EXCEPT ![i].at = "hardware", ![i].s = s,
                          ![i].ids = IF task[i].op = "addst" THEN @ ELSE stations,
                          ![i].rows = Empty.pts]
  /\ UNCHANGED <<server, bound, view, acts, faults, hist>>

ReadHardware(i) ==
  /\ task[i].at = "hardware" /\ task[i].s \in stations
  /\ task' = [task EXCEPT ![i].at = "rows", ![i].seen.mods = db[task[i].s].mods]
  /\ UNCHANGED <<server, bound, view, acts, faults, hist>>

ReadRows(i) ==
  /\ task[i].at = "rows" /\ task[i].s \in stations
  /\ task' = [task EXCEPT ![i].at = "land", ![i].seen.pts = db[task[i].s].pts]
  /\ UNCHANGED <<server, bound, view, acts, faults, hist>>

(* What a handler does after its refresh, however that ended: a new station is
   selected, a batch lets go of its points. *)
After(t) == IF t.op = "addst" THEN [t EXCEPT !.at = "then"] ELSE Idle

LetGo(t) == t.batch /\ t.op \in {"on", "off", "del"}

ReadFails(i) ==
  /\ task[i].at \in {"list", "hardware", "rows", "land"}
  /\ \/ task[i].at \in {"hardware", "rows", "land"} /\ task[i].s \notin stations
        /\ UNCHANGED faults
     \/ faults < MaxFaults /\ faults' = faults + 1
  /\ offline' = TRUE
  /\ selected' = IF LetGo(task[i]) THEN {} ELSE selected
  /\ task' = [task EXCEPT ![i] = After(task[i])]
  /\ UNCHANGED <<server, bound, list, stationId, shown, hide, acts, hist>>

(* Mutant of Landed: every landing counts as a change of station. *)
LandedRereads(i) == task' = [task EXCEPT ![i] = Refresh(task[i].s)]

(* A refresh that lands on another station than the selected one selects it,
   and the effect on stationId re-reads once more. *)
Landed(i) ==
  IF task[i].s = stationId THEN task' = [task EXCEPT ![i] = After(task[i])]
  ELSE IF task[i].op # "addst"
       THEN task' = [task EXCEPT ![i] = Refresh(task[i].s)]
       ELSE \E j \in Slots : /\ task[j].at = "idle"
                             /\ task' = [task EXCEPT ![i] = After(task[i]),
                                                     ![j] = Refresh(task[i].s)]

Land(i) ==
  /\ task[i].at = "land" /\ task[i].s \in stations
  /\ Landed(i)
  /\ bounced' = (bounced \/ (task[i].s # stationId /\ OthersBusy(i)))
  /\ list' = (IF task[i].op = "addst" THEN stations ELSE task[i].ids)
  /\ stationId' = task[i].s
  /\ shown' = [s |-> task[i].s, mods |-> task[i].seen.mods, pts |-> task[i].seen.pts]
  /\ offline' = FALSE
  /\ selected' = IF LetGo(task[i]) THEN {}
                 ELSE selected \cap Present(task[i].seen.pts)
  /\ UNCHANGED <<server, bound, hide, acts, faults, raced, want, unasked,
                 dropped>>

(* onCreateStation's last step. *)
Then(i) ==
  /\ task[i].at = "then"
  /\ bounced' = (bounced \/ OthersBusy(i))
  /\ LET s == CHOOSE x \in task[i].ids : TRUE IN
     /\ stationId' = s
     /\ task' = [task EXCEPT ![i] = IF s = stationId THEN Idle ELSE Refresh(s)]
  /\ UNCHANGED <<server, bound, list, shown, selected, hide, offline, acts,
                 faults, raced, want, unasked, dropped>>

(* The first effect: the stations, and the first of them selected. *)
Mount(i) ==
  /\ task[i].at = "mount"
  /\ \/ /\ list' = stations
        /\ stationId' = Min(stations)
        /\ task' = [task EXCEPT ![i] = Refresh(Min(stations))]
        /\ UNCHANGED <<offline, faults>>
     \/ /\ faults < MaxFaults /\ faults' = faults + 1
        /\ offline' = TRUE
        /\ task' = [task EXCEPT ![i] = Idle]
        /\ UNCHANGED <<list, stationId>>
  /\ UNCHANGED <<server, bound, shown, selected, hide, acts, hist>>

-----------------------------------------------------------------------------
(* The chart editor binds a pin to an enabled point, or unbinds it. *)
GraphBind(s, p) ==
  /\ acts < MaxActs /\ acts' = acts + 1
  /\ s \in stations /\ db[s].pts[p].st = "on" /\ <<s, p>> \notin bound
  /\ bound' = bound \cup {<<s, p>>}
  /\ unasked' = IF \E i \in Slots : /\ task[i].at = "write" /\ task[i].s = s
                                    /\ p \in task[i].todo
                THEN unasked \cup {<<s, p>>} ELSE unasked
  /\ UNCHANGED <<server, view, task, faults, raced, bounced, want, dropped>>

GraphUnbind ==
  /\ acts < MaxActs /\ acts' = acts + 1
  /\ \E x \in bound : bound' = bound \ {x} /\ unasked' = unasked \ {x}
                      /\ dropped' = dropped \ {x}
  /\ UNCHANGED <<server, view, task, faults, raced, bounced, want>>

-----------------------------------------------------------------------------
InitBoard == [mods |-> {1}, pts |-> [m \in Modules |->
                IF m = 1 THEN NewPoint ELSE NoPoint]]

Init ==
  /\ stations \in SUBSET Stations /\ 1 \in stations
  /\ db = [s \in Stations |-> IF s \in stations THEN InitBoard ELSE Empty]
  /\ bound = {}
  /\ list = {} /\ stationId = 0 /\ offline = FALSE /\ hide = TRUE
  /\ shown = [s |-> 0, mods |-> {}, pts |-> Empty.pts]
  /\ selected = {}
  /\ task = [i \in Slots |-> IF i = 1 THEN [Idle EXCEPT !.at = "mount"] ELSE Idle]
  /\ acts = 0 /\ faults = 0
  /\ raced = FALSE /\ bounced = FALSE
  /\ want = [s \in Stations |-> [m \in Modules |-> Blank]]
  /\ unasked = {} /\ dropped = {}

Engineer ==
  \/ \E s \in Stations : SelectStation(s) \/ onCreateStation(s)
  \/ \E p \in Modules, field \in {"name", "unit"}, val \in {0, 1} :
       commitCell(p, field, val) \/ commitCard(p, field, val) \/ saveBinding(p, field, val)
  \/ \E p \in Modules : onTogglePoint(p) \/ onDeletePoint(p) \/ onCreatePoint(p)
  \/ \E m \in Modules : onAddModuleByKind(m) \/ addModule(m)
                         \/ onRemoveModule(m) \/ commitEdit(m)
  \/ onRemoveStation
  \/ onSaveStation
  \/ \E op \in {"on", "off", "del"}, todo \in SUBSET Modules : runBatch(op, todo)
  \/ \E field \in {"name", "unit"}, val \in {0, 1} : runBatchEdit(field, val)
  \/ Pick
  \/ ToggleHide
  \/ \E s \in Stations, p \in Modules : GraphBind(s, p)
  \/ GraphUnbind

Serve(i) ==
  \/ Ask(i) \/ AskFails(i)
  \/ \E p \in Modules : WriteServed(i, p) \/ WriteRefused(i, p)
  \/ ReadList(i) \/ ReadHardware(i) \/ ReadRows(i) \/ ReadFails(i)
  \/ Land(i) \/ Then(i) \/ Mount(i)

Next == Engineer \/ \E i \in Slots : Serve(i)

(* Every call is answered, or fails. *)
Fairness == \A i \in Slots : WF_vars(Serve(i))

Spec == Init /\ [][Next]_vars /\ Fairness

-----------------------------------------------------------------------------
Live(x) == x[1] \in stations /\ db[x[1]].pts[x[2]].st = "on"

(* A point that a chart pin is bound to is not disabled or deleted, neither one
   by one nor in a batch, while the chart editor binds and unbinds: the page
   asks first.  Excused: the ask failed or came before the binding (the check
   and the write are two calls), and removing a module or a station. *)
BoundStaysLive ==
  \A x \in bound \ (unasked \cup dropped) : Live(x)

(* When no handler is under way the page shows the selected station as the back
   end has it, after refused writes, deleted stations and failed creations too.
   Excused: handlers overlapped, and the last refresh failed. *)
QuietIsFresh ==
  ~Busy /\ ~raced /\ ~offline =>
    /\ stationId \in stations
    /\ shown = [s |-> stationId, mods |-> db[stationId].mods,
                pts |-> db[stationId].pts]

(* An accepted edit of one field survives later edits of the other, although
   every edit sends the whole binding made from the row on the page.  Excused:
   an edit made while another handler ran or on a page that is behind. *)
EditsKept ==
  ~raced =>
    \A s \in stations, p \in Modules :
      db[s].pts[p].st # "none" => db[s].pts[p].f = want[s][p]

(* Once the engineer stops, the page comes to rest; a change of station while
   another handler runs is excused: two refreshes then select each other's
   station in turn, each landing starting the next. *)
ComesToRest == (<>[](~bounced)) => <>[](~Busy)
================================================================================

--------------------------- MODULE Workspace_proofs ---------------------------
(***************************************************************************)
(* Proofs about the open project, for any folders and pages, any number of *)
(* handlers in flight, and any number of calls and failures.               *)
(***************************************************************************)
EXTENDS Workspace, TLAPS

Maybe == Projects \cup {None}
Place == {"idle", "sent", "open", "seed", "device", "graph", "library", "current",
          "served", "refused", "state", "land"}
Call == Uses \cup {"forget", "refresh"}
Model == [of : Projects \cup {None, Mixed}, rev : Nat]
Drawing == [Pages -> Maybe]
FolderType == [made : BOOLEAN, dev : Model, graph : Drawing, blocks : SUBSET Maybe]
TaskType == [at : Place, op : Call, p : Maybe, seen : Maybe, list : SUBSET Projects,
             alone : BOOLEAN, mine : BOOLEAN]

(* A call that names a folder names a project. *)
Named ==
  \A i \in Slots :
    /\ task[i].op \in Opens \cup {"forget", "edit"} => task[i].p \in Projects
    /\ task[i].op = "save" /\ task[i].at \in {"device", "graph", "library", "current"}
         => task[i].p \in Projects

ServerTypes ==
  /\ disk \in [Projects -> FolderType]
  /\ dev \in Model
  /\ graph \in Drawing
  /\ blocks \in SUBSET Maybe
  /\ libdir \in Maybe
  /\ cur \in Maybe
  /\ user \in SUBSET Maybe
  /\ recent \in SUBSET Projects

TaskTypes == task \in [Slots -> TaskType] /\ Named

ShownTypes == shown \in [cur : Maybe, recent : SUBSET Projects]

HistTypes == half \in BOOLEAN /\ mixed \in BOOLEAN /\ behind \in BOOLEAN /\ touched \in BOOLEAN

-----------------------------------------------------------------------------
(* Task updates. *)

(* Replacing one handler keeps the others. *)
LEMMA PutTask ==
  ASSUME task \in [Slots -> TaskType], NEW i \in Slots, NEW t \in TaskType,
         task' = [task EXCEPT ![i] = t]
  PROVE  /\ task' \in [Slots -> TaskType]
         /\ task'[i] = t
         /\ \A j \in Slots : j # i => task'[j] = task[j]
OBVIOUS

(* A handler as it was, but for the dialog it belongs to. *)
SameTask(j) ==
  /\ task'[j].at = task[j].at
  /\ task'[j].op = task[j].op
  /\ task'[j].p = task[j].p
  /\ task'[j].seen = task[j].seen
  /\ task'[j].list = task[j].list
  /\ task'[j].alone = task[j].alone

OthersSame(i) == \A j \in Slots : j # i => SameTask(j)

(* Handler i is elsewhere with the same call. *)
Shifts(i, at) ==
  /\ task'[i].at = at
  /\ task'[i].op = task[i].op
  /\ task'[i].p = task[i].p
  /\ task'[i].alone = task[i].alone
  /\ OthersSame(i)

(* Handler i is gone. *)
Ends(i) == task'[i].at = "idle" /\ task'[i].op = "refresh" /\ OthersSame(i)

(* One handler moves on; every other one stays where it is. *)
LEMMA GoesFields ==
  ASSUME task \in [Slots -> TaskType], NEW i \in Slots, NEW at \in Place, Goes(i, at)
  PROVE  task' \in [Slots -> TaskType] /\ Shifts(i, at)
<1>1. task[i] \in TaskType
  OBVIOUS
<1>2. Moved(task[i], at) \in TaskType
  BY <1>1 DEF Moved, Task, TaskType
<1>3. /\ task' \in [Slots -> TaskType]
      /\ task'[i] = Moved(task[i], at)
      /\ \A j \in Slots : j # i => task'[j] = task[j]
  BY <1>2, PutTask DEF Goes
<1>4. QED
  BY <1>3 DEF Shifts, OthersSame, SameTask, Moved, Task

(* A save has taken the current project for its own. *)
LEMMA SavingFields ==
  ASSUME task \in [Slots -> TaskType], NEW i \in Slots, cur \in Maybe,
         task' = [task EXCEPT ![i] = Saving(task[i], cur)]
  PROVE  /\ task' \in [Slots -> TaskType] /\ OthersSame(i)
         /\ task'[i].at = "device" /\ task'[i].op = task[i].op
         /\ task'[i].p = cur /\ task'[i].alone = task[i].alone
<1>1. Saving(task[i], cur) \in TaskType
  <2>1. task[i] \in TaskType
    OBVIOUS
  <2>2. QED
    BY <2>1 DEF Saving, Task, TaskType, Place
<1>2. /\ task' \in [Slots -> TaskType]
      /\ task'[i] = Saving(task[i], cur)
      /\ \A j \in Slots : j # i => task'[j] = task[j]
  BY <1>1, PutTask
<1>3. QED
  BY <1>2 DEF OthersSame, SameTask, Saving, Task

(* A refresh has been told the state. *)
LEMMA ToldFields ==
  ASSUME task \in [Slots -> TaskType], NEW i \in Slots, cur \in Maybe,
         recent \in SUBSET Projects,
         task' = [task EXCEPT ![i] = Told(task[i], cur, recent)]
  PROVE  /\ task' \in [Slots -> TaskType] /\ Shifts(i, "land")
         /\ task'[i].seen = cur /\ task'[i].list = recent
<1>1. Told(task[i], cur, recent) \in TaskType
  <2>1. task[i] \in TaskType
    OBVIOUS
  <2>2. QED
    BY <2>1 DEF Told, Task, TaskType, Place
<1>2. /\ task' \in [Slots -> TaskType]
      /\ task'[i] = Told(task[i], cur, recent)
      /\ \A j \in Slots : j # i => task'[j] = task[j]
  BY <1>1, PutTask
<1>3. QED
  BY <1>2 DEF Shifts, OthersSame, SameTask, Told, Task

(* A handler that is done. *)
LEMMA IdleFields ==
  ASSUME task \in [Slots -> TaskType], NEW i \in Slots, task' = [task EXCEPT ![i] = Idle]
  PROVE  task' \in [Slots -> TaskType] /\ Ends(i)
<1>1. Idle \in TaskType
  BY DEF Idle, Task, TaskType, Place, Call, Maybe
<1>2. QED
  BY <1>1, PutTask DEF Ends, OthersSame, SameTask, Idle, Task

(* The dialog was left: no handler is elsewhere. *)
LEMMA LeftFields ==
  ASSUME task \in [Slots -> TaskType], task' = [i \in Slots |-> Left(task[i])]
  PROVE  task' \in [Slots -> TaskType] /\ \A j \in Slots : SameTask(j)
<1>1. ASSUME NEW j \in Slots
      PROVE  Left(task[j]) \in TaskType
  <2>1. task[j] \in TaskType
    OBVIOUS
  <2>2. QED
    BY <2>1 DEF Left, Task, TaskType
<1>2. QED
  BY <1>1 DEF SameTask, Left, Task

(* What follows a refresh ends its handler. *)
LEMMA AfterFields ==
  ASSUME task \in [Slots -> TaskType], NEW i \in Slots, After(i)
  PROVE  task' \in [Slots -> TaskType] /\ Ends(i)
<1>1. Idle \in TaskType
  BY DEF Idle, Task, TaskType, Place, Call, Maybe
<1>2. ASSUME NEW j \in Slots
      PROVE  Left(task[j]) \in TaskType
  <2>1. task[j] \in TaskType
    OBVIOUS
  <2>2. QED
    BY <2>1 DEF Left, Task, TaskType
<1>3. task' \in [Slots -> TaskType]
  BY <1>1, <1>2 DEF After
<1>4. task'[i] = Idle
  BY DEF After
<1>5. ASSUME NEW j \in Slots, j # i
      PROVE  task'[j] = task[j] \/ task'[j] = Left(task[j])
  BY <1>5 DEF After
<1>6. QED
  BY <1>3, <1>4, <1>5 DEF Ends, OthersSame, SameTask, Left, Idle, Task

(* A new handler, alone if nothing was under way; the others no longer are. *)
Arrives(i, op, p) ==
  /\ task[i].at = "idle"
  /\ task'[i].at = "sent" /\ task'[i].op = op /\ task'[i].p = p
  /\ task'[i].alone = (InFlight = {})
  /\ \A j \in Slots : j # i => /\ task'[j].at = task[j].at
                               /\ task'[j].op = task[j].op
                               /\ task'[j].p = task[j].p
                               /\ task'[j].alone = FALSE

LEMMA AskFields ==
  ASSUME task \in [Slots -> TaskType], NEW op \in Call, NEW p \in Maybe,
         NEW mine \in BOOLEAN, Ask(op, p, mine)
  PROVE  task' \in [Slots -> TaskType] /\ \E i \in Slots : Arrives(i, op, p)
<1> DEFINE new == Task("sent", op, p, None, {}, InFlight = {}, mine)
<1>1. new \in TaskType
  BY DEF Task, TaskType, Place, Maybe
<1>2. ASSUME NEW j \in Slots
      PROVE  Joined(task[j]) \in TaskType
  <2>1. task[j] \in TaskType
    OBVIOUS
  <2>2. QED
    BY <2>1 DEF Joined, Task, TaskType
<1>3. /\ new.at = "sent" /\ new.op = op /\ new.p = p /\ new.alone = (InFlight = {})
  BY DEF Task
<1> HIDE DEF new
<1>4. PICK i \in Slots \ InFlight :
        task' = [j \in Slots |-> IF j = i THEN new ELSE Joined(task[j])]
  BY DEF Ask, new
<1>5. task' \in [Slots -> TaskType]
  BY <1>1, <1>2, <1>4
<1>6. task'[i] = new /\ task[i].at = "idle"
  BY <1>4 DEF InFlight
<1>7. \A j \in Slots : j # i => task'[j] = Joined(task[j])
  BY <1>4
<1>8. QED
  BY <1>3, <1>5, <1>6, <1>7 DEF Arrives, Joined, Task

-----------------------------------------------------------------------------
(* Types. *)

(* The flags stay Boolean. *)
LEMMA HistStep == HistTypes /\ [Next]_vars => HistTypes'
<1> SUFFICES ASSUME HistTypes, [Next]_vars
             PROVE  HistTypes'
  OBVIOUS
<1> USE DEF HistTypes, hist
<1>1. ASSUME NEW op, NEW p, NEW mine, Ask(op, p, mine)
      PROVE  HistTypes'
  BY <1>1, Zenon DEF Ask
<1>2. CASE Engineer
  BY <1>1, <1>2, Zenon
     DEF Engineer, OpenPanel, SubmitNew, SubmitOpen, SubmitBlock, OpenRecent, ForgetRecent,
         handleSave, handleClose, StageEdit, Navigate
<1>3. ASSUME NEW i \in Slots, Serve(i)
      PROVE  HistTypes'
  <2>1. CASE CreateFolder(i) \/ OpenChecks(i) \/ Seed(i) \/ OpenDevice(i) \/ OpenGraph(i)
             \/ OpenFails(i) \/ OpenLibrary(i) \/ OpenCurrent(i)
    BY <2>1, Zenon DEF CreateFolder, OpenChecks, Seed, OpenDevice, OpenGraph, OpenFails,
                       OpenLibrary, OpenCurrent
  <2>2. CASE SaveStarts(i) \/ SaveDevice(i) \/ SaveGraph(i) \/ SaveBlocks(i) \/ SaveEnds(i)
    BY <2>2, Zenon DEF SaveStarts, SaveDevice, SaveGraph, SaveBlocks, SaveEnds
  <2>3. CASE CloseCurrent(i) \/ CloseLibrary(i) \/ ForgetProject(i) \/ AddBlock(i)
             \/ EditModel(i) \/ ReadState(i)
    BY <2>3, Zenon DEF CloseCurrent, CloseLibrary, ForgetProject, AddBlock, EditModel, ReadState
  <2>4. QED
    BY <1>3, <2>1, <2>2, <2>3 DEF Serve
<1>4. ASSUME NEW i \in Slots, Handle(i)
      PROVE  HistTypes'
  BY <1>4, Zenon DEF Handle, Answered, Rejected, Land, RefreshFails
<1>5. CASE UNCHANGED vars
  BY <1>5 DEF vars
<1>6. QED
  BY <1>2, <1>3, <1>4, <1>5 DEF Next

(* A step of one handler keeps the tasks' types. *)
LEMMA ServeTaskTypes ==
  ASSUME TaskTypes, cur \in Maybe, recent \in SUBSET Projects,
         NEW i \in Slots, Serve(i) \/ Handle(i)
  PROVE  TaskTypes'
<1>0. task \in [Slots -> TaskType] /\ Named
  BY DEF TaskTypes
<1>1. ASSUME NEW at \in Place, Goes(i, at),
             task[i].op = "save" /\ at \in {"device", "graph", "library", "current"} =>
               task[i].at \in {"device", "graph", "library", "current"}
      PROVE  TaskTypes'
  <2>1. task' \in [Slots -> TaskType] /\ Shifts(i, at)
    BY <1>0, <1>1, GoesFields
  <2>2. QED
    BY <1>0, <1>1, <2>1 DEF TaskTypes, Named, Shifts, OthersSame, SameTask, At
<1> USE DEF Place, At, Opens
<1>2. CASE CreateFolder(i) \/ OpenChecks(i) \/ Seed(i) \/ OpenDevice(i) \/ OpenGraph(i)
           \/ OpenFails(i) \/ OpenLibrary(i) \/ OpenCurrent(i)
  BY <1>1, <1>2 DEF CreateFolder, OpenChecks, Seed, OpenDevice, OpenGraph, OpenFails,
                     OpenLibrary, OpenCurrent
<1>3. CASE SaveStarts(i)
  <2>1. CASE cur = None
    BY <1>1, <1>3, <2>1 DEF SaveStarts
  <2>2. CASE cur # None
    <3>1. task' = [task EXCEPT ![i] = Saving(task[i], cur)] /\ cur \in Projects
          /\ task[i].op = "save"
      BY <1>3, <2>2 DEF SaveStarts, Maybe
    <3>2. /\ task' \in [Slots -> TaskType] /\ OthersSame(i)
          /\ task'[i].op = task[i].op /\ task'[i].p = cur
      BY <1>0, <3>1, SavingFields
    <3>3. QED
      BY <1>0, <3>1, <3>2 DEF TaskTypes, Named, OthersSame, SameTask
  <2>3. QED
    BY <2>1, <2>2
<1>4. CASE SaveDevice(i) \/ SaveGraph(i) \/ SaveBlocks(i) \/ SaveEnds(i)
  BY <1>1, <1>4 DEF SaveDevice, SaveGraph, SaveBlocks, SaveEnds
<1>5. CASE CloseCurrent(i) \/ CloseLibrary(i) \/ ForgetProject(i) \/ AddBlock(i) \/ Answered(i)
  BY <1>1, <1>5 DEF CloseCurrent, CloseLibrary, ForgetProject, AddBlock, Answered
<1>6. CASE ReadState(i)
  <2>1. task' \in [Slots -> TaskType] /\ Shifts(i, "land")
    BY <1>0, <1>6, ToldFields DEF ReadState
  <2>2. QED
    BY <1>0, <1>6, <2>1 DEF TaskTypes, Named, Shifts, OthersSame, SameTask, ReadState
<1>7. CASE EditModel(i) \/ Rejected(i) \/ Land(i) \/ RefreshFails(i)
  <2>1. task' \in [Slots -> TaskType] /\ Ends(i)
    BY <1>0, <1>7, IdleFields, AfterFields DEF EditModel, Rejected, Land, RefreshFails
  <2>2. QED
    BY <1>0, <2>1 DEF TaskTypes, Named, Ends, OthersSame, SameTask
<1>8. QED
  BY <1>2, <1>3, <1>4, <1>5, <1>6, <1>7 DEF Serve, Handle

(* So does a step of the engineer. *)
LEMMA EngineerTaskTypes ==
  ASSUME TaskTypes, ShownTypes, Engineer
  PROVE  TaskTypes'
<1>0. task \in [Slots -> TaskType] /\ Named
  BY DEF TaskTypes
<1>1. ASSUME NEW op \in Call, NEW p \in Maybe, NEW mine \in BOOLEAN, Ask(op, p, mine),
             op \in Opens \cup {"forget", "edit"} => p \in Projects
      PROVE  TaskTypes'
  <2>1. task' \in [Slots -> TaskType] /\ \E i \in Slots : Arrives(i, op, p)
    BY <1>0, <1>1, AskFields
  <2>2. QED
    BY <1>0, <1>1, <2>1 DEF TaskTypes, Named, Arrives
<1>2. ASSUME task' = [i \in Slots |-> Left(task[i])]
      PROVE  TaskTypes'
  <2>1. task' \in [Slots -> TaskType] /\ \A j \in Slots : SameTask(j)
    BY <1>0, <1>2, LeftFields
  <2>2. QED
    BY <1>0, <2>1 DEF TaskTypes, Named, SameTask
<1>3. ASSUME NEW kind, NEW to, OpenPanel(kind) \/ Navigate(to)
      PROVE  TaskTypes'
  BY <1>2, <1>3 DEF OpenPanel, Navigate
<1> USE DEF Call, Uses, Lifecycle, Opens, Maybe
<1>4. ASSUME NEW p \in Projects,
             SubmitNew(p) \/ SubmitOpen(p) \/ OpenRecent(p) \/ ForgetRecent(p)
      PROVE  TaskTypes'
  BY <1>1, <1>4 DEF SubmitNew, SubmitOpen, OpenRecent, ForgetRecent
<1>5. CASE SubmitBlock
  BY <1>1, <1>5 DEF SubmitBlock, ShownTypes
<1>6. CASE handleSave \/ handleClose
  BY <1>1, <1>6 DEF handleSave, handleClose
<1>7. CASE StageEdit
  <2>1. shown.cur \in Projects
    BY <1>7 DEF StageEdit, ShownTypes
  <2>2. QED
    BY <1>1, <1>7, <2>1 DEF StageEdit
<1>8. QED
  BY <1>3, <1>4, <1>5, <1>6, <1>7 DEF Engineer

(* Folder updates. *)
LEMMA FolderFields ==
  ASSUME NEW f \in FolderType, NEW m \in BOOLEAN, NEW d \in Model, NEW g \in Drawing,
         NEW b \in SUBSET Maybe
  PROVE  /\ Folder(m, d, g, b) \in FolderType
         /\ WithDev(f, d) \in FolderType
         /\ WithGraph(f, g) \in FolderType
         /\ WithBlocks(f, b) \in FolderType
BY DEF Folder, WithDev, WithGraph, WithBlocks, FolderType

(* The parts of a folder have their types. *)
LEMMA FolderParts ==
  ASSUME disk \in [Projects -> FolderType], NEW p \in Projects
  PROVE  /\ disk[p] \in FolderType
         /\ disk[p].made \in BOOLEAN
         /\ disk[p].dev \in Model
         /\ disk[p].graph \in Drawing
         /\ disk[p].blocks \in SUBSET Maybe
<1>1. disk[p] \in FolderType
  OBVIOUS
<1>2. QED
  BY <1>1 DEF FolderType

(* A folder that is created keeps what it holds. *)
LEMMA MadeFolder ==
  ASSUME disk \in [Projects -> FolderType], NEW p \in Projects
  PROVE  Folder(TRUE, disk[p].dev, disk[p].graph, disk[p].blocks) \in FolderType
<1>1. /\ disk[p].dev \in Model /\ disk[p].graph \in Drawing
      /\ disk[p].blocks \in SUBSET Maybe
  BY FolderParts
<1>2. QED
  BY <1>1 DEF Folder, FolderType

(* What a new project is given. *)
LEMMA SeedTypes ==
  ASSUME NEW p \in Projects
  PROVE  SeedDev(p) \in Model /\ NoStations(p) \in Model /\ SeedPages(p) \in Drawing
BY DEF SeedDev, NoStations, SeedPages, Model, Drawing, Maybe

(* A step of one handler keeps the types of the back end. *)
LEMMA ServeServerTypes ==
  ASSUME ServerTypes, TaskTypes, NEW i \in Slots, Serve(i) \/ Handle(i)
  PROVE  ServerTypes'
<1>0. task[i].p \in Maybe /\ task[i].op \in Call
  <2>1. task[i] \in TaskType
    BY DEF TaskTypes
  <2>2. QED
    BY <2>1 DEF TaskType
<1>1. task[i].op \in Opens \cup {"forget", "edit"} => task[i].p \in Projects
  BY DEF TaskTypes, Named
<1>2. CASE CreateFolder(i)
  <2>1. task[i].p \in Projects
    BY <1>1, <1>2 DEF CreateFolder, At, Opens
  <2>2. Folder(TRUE, disk[task[i].p].dev, disk[task[i].p].graph, disk[task[i].p].blocks)
          \in FolderType
    BY <2>1, MadeFolder DEF ServerTypes
  <2>3. QED
    BY <1>2, <2>1, <2>2 DEF CreateFolder, ServerTypes
<1>3. CASE OpenChecks(i) \/ OpenFails(i) \/ ReadState(i) \/ Answered(i) \/ Rejected(i)
           \/ Land(i) \/ RefreshFails(i) \/ SaveStarts(i)
  BY <1>3 DEF OpenChecks, OpenFails, ReadState, Answered, Rejected, Land, RefreshFails,
              SaveStarts, After, server, ServerTypes
<1>4. CASE Seed(i)
  <2> DEFINE p == task[i].p
             g == [x \in Pages |-> IF x = FirstPage THEN p ELSE disk[p].graph[x]]
  <2>1. p \in Projects
    BY <1>1, <1>4 DEF Seed, At
  <2>2. disk[p].graph \in Drawing
    BY <2>1, FolderParts DEF ServerTypes
  <2>3. g \in Drawing
    BY <2>1, <2>2 DEF Drawing, Maybe
  <2> HIDE DEF g
  <2>4. SeedDev(p) \in Model /\ SeedPages(p) \in Drawing
    BY <2>1, SeedTypes
  <2>5. Folder(disk[p].made, SeedDev(p), g, disk[p].blocks) \in FolderType
    BY <2>1, <2>3, <2>4, FolderParts, FolderFields DEF ServerTypes
  <2>6. disk' = [disk EXCEPT ![p] = Folder(disk[p].made, SeedDev(p), g, disk[p].blocks)]
    BY <1>4, <2>1 DEF Seed, ServerTypes, g
  <2>7. QED
    BY <1>4, <2>1, <2>4, <2>5, <2>6 DEF Seed, ServerTypes
<1>5. CASE OpenDevice(i) \/ OpenGraph(i)
  <2>1. task[i].p \in Projects
    BY <1>1, <1>5 DEF OpenDevice, OpenGraph, At
  <2>2. QED
    BY <1>5, <2>1, SeedTypes, FolderParts DEF OpenDevice, OpenGraph, ServerTypes
<1>6. CASE OpenLibrary(i) \/ OpenCurrent(i) \/ ForgetProject(i)
  <2>1. task[i].p \in Projects
    BY <1>1, <1>6 DEF OpenLibrary, OpenCurrent, ForgetProject, At
  <2>2. QED
    BY <1>6, <2>1, FolderParts
       DEF OpenLibrary, OpenCurrent, ForgetProject, ServerTypes, Maybe
<1>7. ASSUME task[i].op = "save", task[i].at \in {"device", "graph", "library", "current"}
      PROVE  task[i].p \in Projects
  BY <1>7 DEF TaskTypes, Named
<1>8. CASE SaveDevice(i)
  <2>1. task[i].p \in Projects
    BY <1>7, <1>8 DEF SaveDevice, At
  <2>2. WithDev(disk[task[i].p], dev) \in FolderType
    BY <2>1, FolderParts, FolderFields DEF ServerTypes
  <2>3. QED
    BY <1>8, <2>1, <2>2 DEF SaveDevice, ServerTypes
<1>9. CASE SaveGraph(i)
  <2> DEFINE p == task[i].p
             g == [x \in Pages |-> IF graph[x] # None THEN graph[x] ELSE disk[p].graph[x]]
  <2>1. p \in Projects
    BY <1>7, <1>9 DEF SaveGraph, At
  <2>2. disk[p].graph \in Drawing
    BY <2>1, FolderParts DEF ServerTypes
  <2>3. g \in Drawing
    BY <2>2 DEF Drawing, ServerTypes
  <2> HIDE DEF g
  <2>4. WithGraph(disk[p], g) \in FolderType
    BY <2>1, <2>3, FolderParts, FolderFields DEF ServerTypes
  <2>5. disk' = [disk EXCEPT ![p] = WithGraph(disk[p], g)]
    BY <1>9, <2>1 DEF SaveGraph, ServerTypes, g
  <2>6. QED
    BY <1>9, <2>1, <2>4, <2>5 DEF SaveGraph, ServerTypes
<1>10. CASE SaveBlocks(i)
  <2> DEFINE p == IF libdir = None THEN task[i].p ELSE libdir
  <2>1. p \in Projects
    BY <1>7, <1>10 DEF SaveBlocks, At, ServerTypes, Maybe
  <2>2. disk[p].blocks \cup blocks \in SUBSET Maybe
    BY <2>1, FolderParts DEF ServerTypes
  <2>3. WithBlocks(disk[p], disk[p].blocks \cup blocks) \in FolderType
    BY <2>1, <2>2, FolderParts, FolderFields DEF ServerTypes
  <2>4. QED
    BY <1>10, <2>1, <2>2, <2>3 DEF SaveBlocks, ServerTypes, Maybe
<1>11. CASE SaveEnds(i)
  <2>1. task[i].p \in Projects
    BY <1>7, <1>11 DEF SaveEnds, At
  <2>2. QED
    BY <1>11, <2>1 DEF SaveEnds, ServerTypes
<1>12. CASE CloseCurrent(i) \/ CloseLibrary(i)
  BY <1>12 DEF CloseCurrent, CloseLibrary, ServerTypes, Maybe
<1>13. CASE AddBlock(i)
  <2>1. CASE libdir = None
    BY <1>0, <1>13, <2>1 DEF AddBlock, ServerTypes
  <2>2. CASE libdir # None
    <3>1. libdir \in Projects
      BY <2>2 DEF ServerTypes, Maybe
    <3>2. disk[libdir].blocks \cup {task[i].p} \in SUBSET Maybe
      BY <1>0, <3>1, FolderParts DEF ServerTypes
    <3>3. WithBlocks(disk[libdir], disk[libdir].blocks \cup {task[i].p}) \in FolderType
      BY <3>1, <3>2, FolderParts, FolderFields DEF ServerTypes
    <3>4. QED
      BY <1>13, <2>2, <3>1, <3>2, <3>3 DEF AddBlock, ServerTypes
  <2>3. QED
    BY <2>1, <2>2
<1>14. CASE EditModel(i)
  <2>1. task[i].p \in Projects
    BY <1>1, <1>14 DEF EditModel, At
  <2>2. dev' \in Model
    BY <1>14, <2>1 DEF EditModel, ServerTypes, Model
  <2>3. graph' \in Drawing
    BY <1>14, <2>1 DEF EditModel, ServerTypes, Drawing, Maybe
  <2>4. QED
    BY <1>14, <2>2, <2>3 DEF EditModel, ServerTypes
<1>15. QED
  BY <1>2, <1>3, <1>4, <1>5, <1>6, <1>8, <1>9, <1>10, <1>11, <1>12, <1>13, <1>14
     DEF Serve, Handle

(* What the engineer asks changes nothing on the back end by itself. *)
LEMMA EngineerServer == Engineer => UNCHANGED <<server, shown, half, touched>>
BY DEF Engineer, OpenPanel, SubmitNew, SubmitOpen, SubmitBlock, OpenRecent, ForgetRecent,
       handleSave, handleClose, StageEdit, Navigate, Ask, client, hist

WorkspaceTypes == ServerTypes /\ TaskTypes /\ ShownTypes /\ HistTypes

(* Every step keeps the types. *)
LEMMA TypesStep ==
  ASSUME WorkspaceTypes, [Next]_vars
  PROVE  WorkspaceTypes'
<1> USE DEF WorkspaceTypes
<1>1. HistTypes'
  BY HistStep
<1>2. CASE Engineer
  <2>1. TaskTypes'
    BY <1>2, EngineerTaskTypes
  <2>2. ServerTypes' /\ ShownTypes'
    BY <1>2, EngineerServer DEF server, ServerTypes, ShownTypes
  <2>3. QED
    BY <1>1, <2>1, <2>2
<1>3. ASSUME NEW i \in Slots, Serve(i) \/ Handle(i)
      PROVE  WorkspaceTypes'
  <2>1. ServerTypes'
    BY <1>3, ServeServerTypes
  <2>2. TaskTypes'
    BY <1>3, ServeTaskTypes DEF ServerTypes
  <2>3. CASE Land(i)
    <3>1. task[i] \in TaskType
      BY DEF TaskTypes
    <3>2. ShownTypes'
      BY <2>3, <3>1 DEF Land, ShownTypes, TaskType
    <3>3. QED
      BY <1>1, <2>1, <2>2, <3>2
  <2>4. CASE ~Land(i)
    <3>1. shown' = shown
      BY <1>3, <2>4
         DEF Serve, Handle, CreateFolder, OpenChecks, Seed, OpenDevice, OpenGraph, OpenFails,
             OpenLibrary, OpenCurrent, SaveStarts, SaveDevice, SaveGraph, SaveBlocks, SaveEnds,
             CloseCurrent, CloseLibrary, ForgetProject, AddBlock, EditModel, ReadState,
             Answered, Rejected, RefreshFails, Page, client
    <3>2. QED
      BY <1>1, <2>1, <2>2, <3>1 DEF ShownTypes
  <2>5. QED
    BY <2>3, <2>4
<1>4. CASE UNCHANGED vars
  BY <1>4 DEF vars, server, client, hist, ServerTypes, TaskTypes, Named, ShownTypes, HistTypes
<1>5. QED
  BY <1>2, <1>3, <1>4 DEF Next

(* Every variable of the open project keeps its type: a folder is asked for  *)
(* by the name of a project, and a save writes to one.                       *)
THEOREM TypesKept == Spec => []WorkspaceTypes
<1>1. Init => WorkspaceTypes
  <2> SUFFICES ASSUME Init
               PROVE  WorkspaceTypes
    OBVIOUS
  <2>1. NoFolder \in FolderType
    BY DEF NoFolder, Folder, FolderType, NoDev, NoPages, Model, Drawing, Maybe
  <2>2. Folder(TRUE, SeedDev(First), SeedPages(First), {}) \in FolderType
    BY WorkspaceAssumption, SeedTypes DEF Folder, FolderType
  <2>3. ServerTypes
    BY <2>1, <2>2, WorkspaceAssumption
       DEF Init, ServerTypes, NoDev, NoPages, Model, Drawing, Maybe
  <2>4. Idle \in TaskType /\ Task("state", "refresh", None, None, {}, TRUE, FALSE) \in TaskType
    BY DEF Idle, Task, TaskType, Place, Call, Maybe
  <2>5. task \in [Slots -> TaskType]
    BY <2>4 DEF Init
  <2>6. \A i \in Slots : task[i].op = "refresh"
    BY DEF Init, Idle, Task
  <2>7. TaskTypes
    BY <2>5, <2>6 DEF TaskTypes, Named, Opens
  <2>8. ShownTypes /\ HistTypes
    BY DEF Init, ShownTypes, HistTypes, Maybe
  <2>9. QED
    BY <2>3, <2>7, <2>8 DEF WorkspaceTypes
<1>2. QED
  BY <1>1, TypesStep, PTL DEF Spec

-----------------------------------------------------------------------------
(* The shell mirrors the back end. *)

Shell == Alone /\ Mirrored
SavePhases == {"device", "graph", "library", "current"}

(* A handler moves on.  It may change the current project only as a call of *)
(* the life cycle that is then past, and the recent list only if it is then *)
(* past or was not alone.                                                   *)
LEMMA MoveKeepsShell ==
  ASSUME Shell, NEW i \in Slots, NEW at \in Place \ {"idle", "land"},
         task[i].at # "idle",
         task'[i].at = at, task'[i].op = task[i].op, task'[i].alone = task[i].alone,
         OthersSame(i),
         UNCHANGED <<shown, behind>>,
         cur' = cur \/ (task[i].op \in Lifecycle /\ Past(i)'),
         recent' = recent \/ Past(i)' \/ ~task[i].alone,
         Past(i) => Past(i)',
         task[i].op = "save" /\ task[i].alone /\ at \in SavePhases => cur' # None
  PROVE  Shell'
<1> USE DEF Shell, OthersSame, SameTask
<1>1. \A j \in Slots : j # i => (Past(j)' <=> Past(j)) /\ (Turned(j)' <=> Turned(j))
  BY DEF Past, Turned, At
<1>2. Turned(i) => Turned(i)'
  BY DEF Turned
<1>3. \A j \in Slots : j # i /\ task[j].at # "idle" => ~task[j].alone
  BY DEF Alone
<1>4. ~behind => task[i].alone
  BY DEF Alone, InFlight
<1>5. Alone'
  <2>1. \A k, j \in Slots : task'[k].at # "idle" /\ task'[k].alone /\ j # k => task'[j].at = "idle"
    BY <1>3 DEF Alone
  <2>2. ~behind' => \A k \in Slots : task'[k].at # "idle" => task'[k].alone
    BY DEF Alone, InFlight
  <2>3. \A k \in Slots : task'[k].at = "land" /\ task'[k].alone =>
                           task'[k].seen = cur' /\ task'[k].list = recent'
    BY <1>3
  <2>4. \A k \in Slots : task'[k].op = "save" /\ task'[k].alone /\ task'[k].at \in SavePhases
                         => cur' # None
    BY <1>3 DEF SavePhases
  <2>5. QED
    BY <2>1, <2>2, <2>3, <2>4 DEF Alone, InFlight, SavePhases
<1>6. Mirrored'
  BY <1>1, <1>2, <1>4 DEF Mirrored, Turned
<1>7. QED
  BY <1>5, <1>6

(* A handler that has changed nothing the shell shows is gone. *)
LEMMA EndKeepsShell ==
  ASSUME Shell, NEW i \in Slots, Ends(i), ~Past(i), UNCHANGED <<shown, behind, cur, recent>>
  PROVE  Shell'
<1> USE DEF Shell, Ends, OthersSame, SameTask
<1>1. \A j \in Slots : j # i => (Past(j)' <=> Past(j)) /\ (Turned(j)' <=> Turned(j))
  BY DEF Past, Turned, At
<1>2. ~Past(i)' /\ ~Turned(i)' /\ ~Turned(i)
  BY DEF Past, Turned, At
<1>3. Alone'
  BY DEF Alone, InFlight
<1>4. Mirrored'
  BY <1>1, <1>2 DEF Mirrored
<1>5. QED
  BY <1>3, <1>4

(* A step of one handler keeps the shell a mirror. *)
LEMMA ServeShell ==
  ASSUME WorkspaceTypes, Shell, NEW i \in Slots, Serve(i) \/ Handle(i)
  PROVE  Shell'
<1>0. task \in [Slots -> TaskType] /\ cur \in Maybe /\ recent \in SUBSET Projects
      /\ task[i].alone \in BOOLEAN /\ behind \in BOOLEAN
  <2>1. task \in [Slots -> TaskType]
    BY DEF WorkspaceTypes, TaskTypes
  <2>2. task[i] \in TaskType
    BY <2>1
  <2>3. QED
    BY <2>1, <2>2 DEF WorkspaceTypes, ServerTypes, HistTypes, TaskType
<1>1. ASSUME NEW at \in Place \ {"idle", "land"}, Goes(i, at), task[i].at # "idle",
             UNCHANGED <<shown, behind>>,
             cur' = cur \/ (task[i].op \in Lifecycle /\ at \in {"served", "library"}),
             recent' = recent \/ at = "served" \/ (~task[i].alone),
             task[i].op = "close" \/ cur' = cur \/ at = "served",
             Past(i) => at \in {"served", "state"},
             task[i].op = "save" /\ task[i].alone /\ at \in SavePhases => cur' # None
      PROVE  Shell'
  <2>1. Shifts(i, at)
    BY <1>0, <1>1, GoesFields
  <2>2. Past(i)' <=> at \in {"served", "state", "land"} \/ (task[i].op = "close" /\ at = "library")
    BY <2>1 DEF Past, At, Shifts
  <2>3. QED
    BY <1>1, <2>1, <2>2, MoveKeepsShell DEF Shifts
<1> USE DEF Place, At, SavePhases, Page, client, hist, server, Past, Opens, Lifecycle
<1>2. CASE CreateFolder(i) \/ OpenChecks(i) \/ Seed(i) \/ OpenDevice(i) \/ OpenGraph(i)
           \/ OpenLibrary(i)
  BY <1>1, <1>2 DEF CreateFolder, OpenChecks, Seed, OpenDevice, OpenGraph, OpenLibrary
<1>3. CASE OpenFails(i) \/ OpenCurrent(i)
  BY <1>1, <1>3 DEF OpenFails, OpenCurrent
<1>4. CASE SaveStarts(i)
  <2>1. CASE cur = None
    BY <1>1, <1>4, <2>1 DEF SaveStarts
  <2>2. CASE cur # None
    <3>1. task' = [task EXCEPT ![i] = Saving(task[i], cur)]
      BY <1>4, <2>2 DEF SaveStarts
    <3>2. /\ OthersSame(i) /\ task'[i].at = "device" /\ task'[i].op = task[i].op
          /\ task'[i].alone = task[i].alone
      BY <1>0, <3>1, SavingFields
    <3>3. QED
      BY <1>4, <2>2, <3>2, MoveKeepsShell DEF SaveStarts
  <2>3. QED
    BY <2>1, <2>2
<1>5. ASSUME task[i].op = "save", task[i].at \in SavePhases, task[i].alone
      PROVE  cur # None
  BY <1>5 DEF Shell, Alone
<1>6. CASE SaveDevice(i) \/ SaveGraph(i) \/ SaveBlocks(i)
  BY <1>1, <1>5, <1>6 DEF SaveDevice, SaveGraph, SaveBlocks
<1>7. CASE SaveEnds(i)
  BY <1>1, <1>5, <1>7 DEF SaveEnds
<1>8. CASE CloseCurrent(i) \/ CloseLibrary(i) \/ ForgetProject(i) \/ AddBlock(i) \/ Answered(i)
  BY <1>1, <1>8 DEF CloseCurrent, CloseLibrary, ForgetProject, AddBlock, Answered
<1>9. CASE ReadState(i)
  <2>1. Shifts(i, "land") /\ task'[i].seen = cur /\ task'[i].list = recent
    BY <1>0, <1>9, ToldFields DEF ReadState
  <2>2. \A j \in Slots : (Past(j)' <=> Past(j)) /\ (Turned(j)' <=> Turned(j))
    BY <1>9, <2>1 DEF Turned, Shifts, OthersSame, SameTask, ReadState
  <2>3. Mirrored'
    BY <1>9, <2>2 DEF Mirrored, Shell, ReadState
  <2>4. Alone'
    BY <1>9, <2>1 DEF Alone, Shell, ReadState, Shifts, OthersSame, SameTask, InFlight
  <2>5. QED
    BY <2>3, <2>4 DEF Shell
<1>10. CASE EditModel(i) \/ Rejected(i)
  <2>1. Ends(i)
    BY <1>0, <1>10, IdleFields DEF EditModel, Rejected
  <2>2. QED
    BY <1>10, <2>1, EndKeepsShell DEF EditModel, Rejected
<1>11. CASE Land(i)
  <2>1. Ends(i)
    BY <1>0, <1>11, AfterFields DEF Land
  <2>2. CASE task[i].alone
    <3>1. \A j \in Slots : task'[j].at = "idle"
      BY <1>11, <2>1, <2>2 DEF Shell, Alone, Ends, OthersSame, SameTask, Land
    <3>2. shown'.cur = cur /\ shown'.recent = recent /\ cur' = cur /\ recent' = recent
      BY <1>11, <2>2 DEF Land, After, Shell, Alone
    <3>3. QED
      BY <3>1, <3>2 DEF Shell, Alone, Mirrored, InFlight
  <2>3. CASE ~task[i].alone
    <3>1. behind /\ behind'
      BY <1>0, <1>11, <2>3 DEF Land, Shell, Alone, InFlight
    <3>2. QED
      BY <1>11, <2>1, <3>1
         DEF Shell, Alone, Mirrored, Ends, OthersSame, SameTask, Land, After
  <2>4. QED
    BY <2>2, <2>3
<1>12. CASE RefreshFails(i)
  <2>1. Ends(i)
    BY <1>0, <1>12, AfterFields DEF RefreshFails
  <2>2. QED
    BY <1>12, <2>1
       DEF Shell, Alone, Mirrored, Ends, OthersSame, SameTask, RefreshFails, After
<1>13. QED
  BY <1>2, <1>3, <1>4, <1>6, <1>7, <1>8, <1>9, <1>10, <1>11, <1>12 DEF Serve, Handle

(* What the engineer does is ask for something, or only look elsewhere. *)
Asks(op, p) ==
  /\ \E i \in Slots : Arrives(i, op, p)
  /\ behind' = (behind \/ InFlight # {})
  /\ mixed' = (mixed \/ (behind /\ op \in Uses)
                     \/ \E j \in InFlight : Clashes(op, task[j].op))
  /\ op \in {"block", "edit"} => p = shown.cur
  /\ op = "edit" => p # None
LooksElsewhere ==
  (\A j \in Slots : SameTask(j)) /\ UNCHANGED <<mixed, behind>>

LEMMA EngineerSteps ==
  ASSUME WorkspaceTypes, Engineer
  PROVE  LooksElsewhere \/ \E op \in Call, p \in Maybe : Asks(op, p)
<1>0. task \in [Slots -> TaskType] /\ shown.cur \in Maybe
  BY DEF WorkspaceTypes, TaskTypes, ShownTypes
<1>1. ASSUME NEW op \in Call, NEW p \in Maybe, NEW mine \in BOOLEAN, Ask(op, p, mine),
             op \in {"block", "edit"} => p = shown.cur, op = "edit" => p # None
      PROVE  Asks(op, p)
  BY <1>0, <1>1, AskFields DEF Asks, Ask
<1>2. ASSUME NEW kind, NEW to, OpenPanel(kind) \/ Navigate(to)
      PROVE  LooksElsewhere
  <2>1. \A j \in Slots : SameTask(j)
    BY <1>0, <1>2, LeftFields DEF OpenPanel, Navigate
  <2>2. QED
    BY <1>2, <2>1 DEF LooksElsewhere, OpenPanel, Navigate, hist
<1> USE DEF Call, Uses, Lifecycle, Maybe
<1>3. ASSUME NEW p \in Projects,
             SubmitNew(p) \/ SubmitOpen(p) \/ OpenRecent(p) \/ ForgetRecent(p)
      PROVE  \E op \in Call : Asks(op, p)
  BY <1>1, <1>3 DEF SubmitNew, SubmitOpen, OpenRecent, ForgetRecent
<1>4. CASE SubmitBlock
  BY <1>0, <1>1, <1>4 DEF SubmitBlock
<1>5. CASE handleSave \/ handleClose
  BY <1>1, <1>5 DEF handleSave, handleClose
<1>6. CASE StageEdit
  BY <1>0, <1>1, <1>6 DEF StageEdit
<1>7. QED
  BY <1>2, <1>3, <1>4, <1>5, <1>6 DEF Engineer

(* Asking keeps the shell a mirror: it is behind as soon as two overlap. *)
LEMMA EngineerShell ==
  ASSUME WorkspaceTypes, Shell, Engineer
  PROVE  Shell'
<1>0. UNCHANGED <<shown, cur, recent>>
  BY EngineerServer DEF server
<1>1. CASE LooksElsewhere
  <2>1. \A j \in Slots : (Past(j)' <=> Past(j)) /\ (Turned(j)' <=> Turned(j))
    BY <1>1 DEF LooksElsewhere, Turned, Past, At, SameTask
  <2>2. Mirrored'
    BY <1>0, <1>1, <2>1 DEF LooksElsewhere, Mirrored, Shell
  <2>3. Alone'
    BY <1>0, <1>1 DEF LooksElsewhere, Alone, Shell, SameTask, InFlight
  <2>4. QED
    BY <2>2, <2>3 DEF Shell
<1>2. ASSUME NEW op \in Call, NEW p \in Maybe, Asks(op, p)
      PROVE  Shell'
  <2>0. behind \in BOOLEAN
    BY DEF WorkspaceTypes, HistTypes
  <2>1. PICK i \in Slots : Arrives(i, op, p)
    BY <1>2 DEF Asks
  <2>2. CASE InFlight = {}
    <3>1. \A j \in Slots : j # i => task'[j].at = "idle"
      BY <2>1, <2>2 DEF Arrives, InFlight
    <3>2. \A j \in Slots : ~Past(j) /\ ~Past(j)' /\ ~Turned(j) /\ ~Turned(j)'
      BY <2>1, <2>2, <3>1 DEF Arrives, InFlight, Past, Turned, At
    <3>3. behind' = behind
      BY <1>2, <2>0, <2>2 DEF Asks
    <3>4. Mirrored'
      BY <1>0, <3>2, <3>3 DEF Mirrored, Shell
    <3>5. Alone'
      BY <2>1, <2>2, <3>1 DEF Alone, Arrives, InFlight
    <3>6. QED
      BY <3>4, <3>5 DEF Shell
  <2>3. CASE InFlight # {}
    <3>1. behind' /\ \A j \in Slots : ~task'[j].alone
      BY <1>2, <2>0, <2>1, <2>3 DEF Asks, Arrives
    <3>2. QED
      BY <3>1 DEF Shell, Alone, Mirrored
  <2>4. QED
    BY <2>2, <2>3
<1>3. QED
  BY <1>1, <1>2, EngineerSteps

(* Every step keeps the shell a mirror. *)
LEMMA ShellStep ==
  ASSUME WorkspaceTypes, Shell, [Next]_vars
  PROVE  Shell'
<1>1. CASE UNCHANGED vars
  BY <1>1 DEF vars, server, client, hist, Shell, Alone, Mirrored, InFlight, Past, Turned, At
<1>2. QED
  BY <1>1, ServeShell, EngineerShell DEF Next

(* The first handler is alone, and nothing has been shown yet. *)
LEMMA ShellInit ==
  ASSUME Init
  PROVE  Shell
<1>1. \A i \in Slots : /\ task[i].at = IF i = 1 THEN "state" ELSE "idle"
                       /\ task[i].op = "refresh"
  BY DEF Init, Idle, Task
<1>2. QED
  BY <1>1 DEF Init, Shell, Alone, Mirrored

(* "The shell only mirrors that state": with nothing under way, after a     *)
(* refresh of a handler that was alone, the page shows the back end's       *)
(* project and list.                                                        *)
THEOREM ShellIsAMirror == Spec => []ShellMirrors
<1>1. WorkspaceTypes /\ Shell => ShellMirrors
  <2> SUFFICES ASSUME WorkspaceTypes, Shell, AtRest, ~behind
               PROVE  shown = [cur |-> cur, recent |-> recent]
    BY DEF ShellMirrors
  <2>1. \A i \in Slots : ~Past(i) /\ ~Turned(i)
    BY DEF AtRest, InFlight, Past, Turned, At
  <2>2. shown.cur = cur /\ shown.recent = recent
    BY <2>1 DEF Shell, Mirrored
  <2>3. QED
    BY <2>2 DEF WorkspaceTypes, ShownTypes
<1>2. Init => Shell
  BY ShellInit
<1>3. QED
  BY <1>1, <1>2, TypesKept, ShellStep, PTL DEF Spec

-----------------------------------------------------------------------------
(* Calls that clash. *)

(* A handler's call never changes; what was mixed stays mixed. *)
LEMMA ServeOps ==
  ASSUME WorkspaceTypes, NEW i \in Slots, Serve(i) \/ Handle(i)
  PROVE  /\ OthersSame(i)
         /\ task'[i].at # "idle" => task'[i].op = task[i].op /\ task[i].at # "idle"
         /\ mixed => mixed'
<1>0. task \in [Slots -> TaskType] /\ cur \in Maybe /\ recent \in SUBSET Projects
      /\ mixed \in BOOLEAN
  BY DEF WorkspaceTypes, TaskTypes, ServerTypes, HistTypes
<1>1. mixed => mixed'
  BY <1>0
     DEF Serve, Handle, CreateFolder, OpenChecks, Seed, OpenDevice, OpenGraph, OpenFails,
         OpenLibrary, OpenCurrent, SaveStarts, SaveDevice, SaveGraph, SaveBlocks, SaveEnds,
         CloseCurrent, CloseLibrary, ForgetProject, AddBlock, EditModel, ReadState,
         Answered, Rejected, Land, RefreshFails, hist
<1>2. ASSUME NEW at \in Place, Goes(i, at), task[i].at # "idle"
      PROVE  OthersSame(i) /\ (task'[i].at # "idle" => task'[i].op = task[i].op)
  BY <1>0, <1>2, GoesFields DEF Shifts
<1> USE DEF Place, At
<1>3. CASE CreateFolder(i) \/ OpenChecks(i) \/ Seed(i) \/ OpenDevice(i) \/ OpenGraph(i)
           \/ OpenFails(i) \/ OpenLibrary(i) \/ OpenCurrent(i)
  BY <1>1, <1>2, <1>3 DEF CreateFolder, OpenChecks, Seed, OpenDevice, OpenGraph, OpenFails,
                          OpenLibrary, OpenCurrent
<1>4. CASE SaveStarts(i)
  BY <1>0, <1>1, <1>2, <1>4, SavingFields DEF SaveStarts
<1>5. CASE SaveDevice(i) \/ SaveGraph(i) \/ SaveBlocks(i) \/ SaveEnds(i)
  BY <1>1, <1>2, <1>5 DEF SaveDevice, SaveGraph, SaveBlocks, SaveEnds
<1>6. CASE CloseCurrent(i) \/ CloseLibrary(i) \/ ForgetProject(i) \/ AddBlock(i) \/ Answered(i)
  BY <1>1, <1>2, <1>6 DEF CloseCurrent, CloseLibrary, ForgetProject, AddBlock, Answered
<1>7. CASE ReadState(i)
  BY <1>0, <1>1, <1>7, ToldFields DEF ReadState, Shifts
<1>8. CASE EditModel(i) \/ Rejected(i) \/ Land(i) \/ RefreshFails(i)
  BY <1>0, <1>1, <1>8, IdleFields, AfterFields
     DEF EditModel, Rejected, Land, RefreshFails, Ends
<1>9. QED
  BY <1>3, <1>4, <1>5, <1>6, <1>7, <1>8 DEF Serve, Handle

(* Calls that clash are under way together only once mixed says so. *)
LEMMA NoClashStep ==
  ASSUME WorkspaceTypes, NoClash, [Next]_vars
  PROVE  NoClash'
<1>0. mixed \in BOOLEAN
  BY DEF WorkspaceTypes, HistTypes
<1>1. CASE UNCHANGED vars
  BY <1>1 DEF vars, hist, NoClash, InFlight
<1>2. ASSUME NEW i \in Slots, Serve(i) \/ Handle(i)
      PROVE  NoClash'
  <2>1. /\ \A j \in Slots : task'[j].at # "idle" => task[j].at # "idle" /\ task'[j].op = task[j].op
        /\ mixed => mixed'
    BY <1>2, ServeOps DEF OthersSame, SameTask
  <2>2. QED
    BY <2>1 DEF NoClash, InFlight
<1>3. CASE Engineer
  <2>1. CASE LooksElsewhere
    BY <2>1 DEF LooksElsewhere, SameTask, NoClash, InFlight
  <2>2. ASSUME NEW op \in Call, NEW p \in Maybe, Asks(op, p)
        PROVE  NoClash'
    <3>1. PICK i \in Slots : Arrives(i, op, p)
      BY <2>2 DEF Asks
    <3>2. ~mixed' => ~mixed /\ \A j \in InFlight : ~Clashes(op, task[j].op)
      BY <1>0, <2>2 DEF Asks
    <3>3. \A a, b \in Call : Clashes(a, b) <=> Clashes(b, a)
      BY DEF Clashes
    <3>4. \A j \in Slots : task[j].op \in Call
      <4> SUFFICES ASSUME NEW j \in Slots
                   PROVE  task[j].op \in Call
        OBVIOUS
      <4>1. task[j] \in TaskType
        BY DEF WorkspaceTypes, TaskTypes
      <4>2. QED
        BY <4>1 DEF TaskType
    <3>5. QED
      BY <3>1, <3>2, <3>3, <3>4 DEF NoClash, InFlight, Arrives
  <2>3. QED
    BY <1>3, <2>1, <2>2, EngineerSteps
<1>4. QED
  BY <1>1, <1>2, <1>3 DEF Next

-----------------------------------------------------------------------------
(* Memory and folders: what each writer does to the disk. *)

(* A folder other than p is as it was; of p, one part may be new. *)
DiskBut(p) == \A q \in Projects : q # p => disk'[q] = disk[q]

LEMMA PutFolder ==
  ASSUME disk \in [Projects -> FolderType], NEW p \in Projects, NEW f \in FolderType,
         disk' = [disk EXCEPT ![p] = f]
  PROVE  disk'[p] = f /\ DiskBut(p)
BY DEF DiskBut

LEMMA CreateEffect ==
  ASSUME WorkspaceTypes, NEW i \in Slots, CreateFolder(i)
  PROVE  \A q \in Projects : /\ disk'[q].dev = disk[q].dev
                             /\ disk'[q].graph = disk[q].graph
                             /\ disk'[q].blocks = disk[q].blocks
<1>1. CASE disk' = disk
  BY <1>1
<1>2. CASE disk' # disk
  <2> DEFINE p == task[i].p
             f == Folder(TRUE, disk[p].dev, disk[p].graph, disk[p].blocks)
  <2>1. p \in Projects
    BY DEF CreateFolder, At, Opens, WorkspaceTypes, TaskTypes, Named
  <2>2. f \in FolderType
    BY <2>1, MadeFolder DEF WorkspaceTypes, ServerTypes
  <2>3. disk' = [disk EXCEPT ![p] = f]
    BY <1>2, <2>1 DEF CreateFolder, WorkspaceTypes, ServerTypes
  <2>4. f.dev = disk[p].dev /\ f.graph = disk[p].graph /\ f.blocks = disk[p].blocks
    BY DEF Folder
  <2> HIDE DEF f
  <2>5. disk'[p] = f /\ DiskBut(p)
    BY <2>1, <2>2, <2>3, PutFolder DEF WorkspaceTypes, ServerTypes
  <2>6. QED
    BY <2>4, <2>5 DEF DiskBut
<1>3. QED
  BY <1>1, <1>2

LEMMA SeedEffect ==
  ASSUME WorkspaceTypes, NEW i \in Slots, Seed(i)
  PROVE  /\ task[i].p \in Projects
         /\ DiskBut(task[i].p)
         /\ disk'[task[i].p].dev = SeedDev(task[i].p)
         /\ \A x \in Pages : disk'[task[i].p].graph[x] =
                               IF x = FirstPage THEN task[i].p ELSE disk[task[i].p].graph[x]
         /\ disk'[task[i].p].blocks = disk[task[i].p].blocks
<1> DEFINE p == task[i].p
           g == [x \in Pages |-> IF x = FirstPage THEN p ELSE disk[p].graph[x]]
           f == Folder(disk[p].made, SeedDev(p), g, disk[p].blocks)
<1>1. p \in Projects
  BY DEF Seed, At, WorkspaceTypes, TaskTypes, Named
<1>2. disk[p].graph \in Drawing
  BY <1>1, FolderParts DEF WorkspaceTypes, ServerTypes
<1>3. g \in Drawing
  BY <1>1, <1>2 DEF Drawing, Maybe
<1>4. \A x \in Pages : g[x] = IF x = FirstPage THEN p ELSE disk[p].graph[x]
  OBVIOUS
<1>5. disk' = [disk EXCEPT ![p] = f]
  BY <1>1 DEF Seed, WorkspaceTypes, ServerTypes
<1> HIDE DEF g
<1>6. f \in FolderType
  BY <1>1, <1>3, FolderParts, FolderFields, SeedTypes DEF WorkspaceTypes, ServerTypes
<1>7. f.dev = SeedDev(p) /\ f.graph = g /\ f.blocks = disk[p].blocks
  BY DEF Folder
<1> HIDE DEF f
<1>8. disk'[p] = f /\ DiskBut(p)
  BY <1>1, <1>5, <1>6, PutFolder DEF WorkspaceTypes, ServerTypes
<1>9. QED
  BY <1>1, <1>4, <1>7, <1>8

LEMMA SaveDeviceEffect ==
  ASSUME WorkspaceTypes, NEW i \in Slots, SaveDevice(i)
  PROVE  /\ task[i].p \in Projects
         /\ DiskBut(task[i].p)
         /\ disk'[task[i].p].dev = dev
         /\ disk'[task[i].p].graph = disk[task[i].p].graph
         /\ disk'[task[i].p].blocks = disk[task[i].p].blocks
<1> DEFINE p == task[i].p
           f == WithDev(disk[p], dev)
<1>1. p \in Projects
  BY DEF SaveDevice, At, WorkspaceTypes, TaskTypes, Named
<1>2. f \in FolderType
  BY <1>1, FolderParts, FolderFields DEF WorkspaceTypes, ServerTypes
<1>3. f.dev = dev /\ f.graph = disk[p].graph /\ f.blocks = disk[p].blocks
  BY DEF WithDev, Folder
<1>4. disk' = [disk EXCEPT ![p] = f]
  BY <1>1 DEF SaveDevice, WorkspaceTypes, ServerTypes
<1> HIDE DEF f
<1>5. disk'[p] = f /\ DiskBut(p)
  BY <1>1, <1>2, <1>4, PutFolder DEF WorkspaceTypes, ServerTypes
<1>6. QED
  BY <1>1, <1>3, <1>5

LEMMA SaveGraphEffect ==
  ASSUME WorkspaceTypes, NEW i \in Slots, SaveGraph(i)
  PROVE  /\ task[i].p \in Projects
         /\ DiskBut(task[i].p)
         /\ disk'[task[i].p].dev = disk[task[i].p].dev
         /\ \A x \in Pages : disk'[task[i].p].graph[x] =
                               IF graph[x] # None THEN graph[x] ELSE disk[task[i].p].graph[x]
         /\ disk'[task[i].p].blocks = disk[task[i].p].blocks
<1> DEFINE p == task[i].p
           g == [x \in Pages |-> IF graph[x] # None THEN graph[x] ELSE disk[p].graph[x]]
           f == WithGraph(disk[p], g)
<1>1. p \in Projects
  BY DEF SaveGraph, At, WorkspaceTypes, TaskTypes, Named
<1>2. disk[p].graph \in Drawing
  BY <1>1, FolderParts DEF WorkspaceTypes, ServerTypes
<1>3. g \in Drawing
  BY <1>2 DEF Drawing, WorkspaceTypes, ServerTypes
<1>4. \A x \in Pages : g[x] = IF graph[x] # None THEN graph[x] ELSE disk[p].graph[x]
  OBVIOUS
<1>5. disk' = [disk EXCEPT ![p] = f]
  BY <1>1 DEF SaveGraph, WorkspaceTypes, ServerTypes
<1> HIDE DEF g
<1>6. f \in FolderType
  BY <1>1, <1>3, FolderParts, FolderFields DEF WorkspaceTypes, ServerTypes
<1>7. f.dev = disk[p].dev /\ f.graph = g /\ f.blocks = disk[p].blocks
  BY DEF WithGraph, Folder
<1> HIDE DEF f
<1>8. disk'[p] = f /\ DiskBut(p)
  BY <1>1, <1>5, <1>6, PutFolder DEF WorkspaceTypes, ServerTypes
<1>9. QED
  BY <1>1, <1>4, <1>7, <1>8

(* Blocks go to a folder's blocks only. *)
LEMMA BlocksEffect ==
  ASSUME WorkspaceTypes, NEW p \in Projects, NEW b \in SUBSET Maybe,
         disk' = [disk EXCEPT ![p] = WithBlocks(@, b)]
  PROVE  /\ DiskBut(p)
         /\ disk'[p].dev = disk[p].dev
         /\ disk'[p].graph = disk[p].graph
         /\ disk'[p].blocks = b
<1> DEFINE f == WithBlocks(disk[p], b)
<1>1. f \in FolderType
  BY FolderParts, FolderFields DEF WorkspaceTypes, ServerTypes
<1>2. f.dev = disk[p].dev /\ f.graph = disk[p].graph /\ f.blocks = b
  BY DEF WithBlocks, Folder
<1>3. disk' = [disk EXCEPT ![p] = f]
  BY DEF WorkspaceTypes, ServerTypes
<1> HIDE DEF f
<1>4. disk'[p] = f /\ DiskBut(p)
  BY <1>1, <1>3, PutFolder DEF WorkspaceTypes, ServerTypes
<1>5. QED
  BY <1>2, <1>4

(* The library's blocks stay those of its folder. *)
LEMMA LibraryStep ==
  ASSUME WorkspaceTypes, LibrarySynced, [Next]_vars
  PROVE  LibrarySynced'
<1>0. libdir \in Maybe /\ blocks \in SUBSET Maybe
  BY DEF WorkspaceTypes, ServerTypes
<1>1. ASSUME UNCHANGED <<libdir, blocks>>,
             \A q \in Projects : disk'[q].blocks = disk[q].blocks
      PROVE  LibrarySynced'
  BY <1>0, <1>1 DEF LibrarySynced, Maybe
<1>2. ASSUME UNCHANGED <<libdir, blocks, disk>>
      PROVE  LibrarySynced'
  BY <1>2 DEF LibrarySynced
<1>3. CASE Engineer \/ UNCHANGED vars
  BY <1>2, <1>3, EngineerServer DEF vars, server
<1>4. ASSUME NEW i \in Slots, Serve(i) \/ Handle(i)
      PROVE  LibrarySynced'
  <2>1. CASE CreateFolder(i)
    BY <1>1, <2>1, CreateEffect DEF CreateFolder
  <2>2. CASE Seed(i)
    BY <1>1, <2>2, SeedEffect DEF Seed, DiskBut
  <2>3. CASE SaveDevice(i)
    BY <1>1, <2>3, SaveDeviceEffect DEF SaveDevice, DiskBut
  <2>4. CASE SaveGraph(i)
    BY <1>1, <2>4, SaveGraphEffect DEF SaveGraph, DiskBut
  <2>5. CASE OpenLibrary(i)
    <3>1. task[i].p \in Projects
      BY <2>5 DEF OpenLibrary, At, WorkspaceTypes, TaskTypes, Named
    <3>2. QED
      BY <2>5, <3>1, WorkspaceAssumption DEF OpenLibrary, LibrarySynced
  <2>6. CASE SaveBlocks(i)
    <3> DEFINE p == IF libdir = None THEN task[i].p ELSE libdir
    <3>1. task[i].p \in Projects
      BY <2>6 DEF SaveBlocks, At, WorkspaceTypes, TaskTypes, Named
    <3>2. p \in Projects
      BY <1>0, <3>1 DEF Maybe
    <3>3. disk[p].blocks \cup blocks \in SUBSET Maybe
      BY <1>0, <3>2, FolderParts DEF WorkspaceTypes, ServerTypes
    <3>4. /\ disk' = [disk EXCEPT ![p] = WithBlocks(@, disk[p].blocks \cup blocks)]
          /\ libdir' = p /\ blocks' = disk[p].blocks \cup blocks
      BY <2>6 DEF SaveBlocks
    <3> HIDE DEF p
    <3>5. disk'[p].blocks = disk[p].blocks \cup blocks
      BY <3>2, <3>3, <3>4, BlocksEffect
    <3>6. QED
      BY <3>2, <3>4, <3>5, WorkspaceAssumption DEF LibrarySynced
  <2>7. CASE AddBlock(i)
    <3>1. CASE libdir = None
      BY <1>2, <2>7, <3>1 DEF AddBlock
    <3>2. CASE libdir # None
      <4>1. libdir \in Projects
        BY <1>0, <3>2 DEF Maybe
      <4>2. task[i] \in TaskType
        BY DEF WorkspaceTypes, TaskTypes
      <4>3. disk[libdir].blocks \cup {task[i].p} \in SUBSET Maybe
        BY <4>1, <4>2, FolderParts DEF WorkspaceTypes, ServerTypes, TaskType
      <4>4. /\ disk' = [disk EXCEPT ![libdir] =
                          WithBlocks(@, disk[libdir].blocks \cup {task[i].p})]
            /\ libdir' = libdir /\ blocks' = disk[libdir].blocks \cup {task[i].p}
        BY <2>7, <3>2 DEF AddBlock
      <4>5. disk'[libdir].blocks = disk[libdir].blocks \cup {task[i].p}
        BY <4>1, <4>3, <4>4, BlocksEffect
      <4>6. QED
        BY <3>2, <4>4, <4>5 DEF LibrarySynced
    <3>3. QED
      BY <3>1, <3>2
  <2>8. CASE CloseLibrary(i)
    BY <2>8 DEF CloseLibrary, LibrarySynced
  <2>9. CASE OpenChecks(i) \/ OpenDevice(i) \/ OpenGraph(i) \/ OpenFails(i) \/ OpenCurrent(i)
             \/ SaveStarts(i) \/ SaveEnds(i) \/ CloseCurrent(i) \/ ForgetProject(i)
             \/ EditModel(i) \/ ReadState(i) \/ Handle(i)
    BY <1>2, <2>9
       DEF OpenChecks, OpenDevice, OpenGraph, OpenFails, OpenCurrent, SaveStarts, SaveEnds,
           CloseCurrent, ForgetProject, EditModel, ReadState, Handle, Answered, Rejected,
           Land, RefreshFails, After, server
  <2>10. QED
    BY <1>4, <2>1, <2>2, <2>3, <2>4, <2>5, <2>6, <2>7, <2>8, <2>9 DEF Serve
<1>5. QED
  BY <1>3, <1>4 DEF Next

-----------------------------------------------------------------------------
(* Memory and folders: the invariant. *)

Data == OwnFolders /\ CurrentStored /\ AtPeace /\ Relies

(* The models, the folders and what is known of them are as they were. *)
DataSame == UNCHANGED <<disk, dev, graph, libdir, cur, user, half, touched>>

(* A drawing has a page unless it is blank. *)
LEMMA DrawingBlank ==
  ASSUME NEW g \in Drawing
  PROVE  g # NoPages <=> \E x \in Pages : g[x] # None
BY DEF Drawing, NoPages

(* While a call of the life cycle is under way, the others only look. *)
Bystander(j) == task[j].at = "idle" \/ task[j].op \in {"forget", "refresh"}

LEMMA Bystanders ==
  ASSUME WorkspaceTypes, NoClash, ~mixed, NEW i \in Slots,
         task[i].at # "idle", task[i].op \in Lifecycle
  PROVE  \A j \in Slots : j # i => Bystander(j)
<1> SUFFICES ASSUME NEW j \in Slots, j # i, task[j].at # "idle"
             PROVE  task[j].op \in {"forget", "refresh"}
  BY DEF Bystander
<1>1. task[j] \in TaskType
  BY DEF WorkspaceTypes, TaskTypes
<1>2. task[j].op \in Call
  BY <1>1 DEF TaskType
<1>3. ~Clashes(task[i].op, task[j].op)
  BY DEF NoClash, InFlight
<1>4. QED
  BY <1>2, <1>3 DEF Clashes, Call

(* While a call that uses the models is under way, none replaces them. *)
LEMMA NobodyReplaces ==
  ASSUME NoClash, ~mixed, NEW i \in Slots,
         task[i].at # "idle", task[i].op \in {"save", "block", "edit"}
  PROVE  Settled
<1> SUFFICES ASSUME NEW j \in Slots, Replacing(j)
             PROVE  FALSE
  BY DEF Settled
<1>1. task[j].at # "idle" /\ task[j].op \in Lifecycle /\ j # i
  BY DEF Replacing, At, Opens, Lifecycle
<1>2. Clashes(task[j].op, task[i].op)
  BY <1>1 DEF Clashes, Uses
<1>3. QED
  BY <1>1, <1>2 DEF NoClash, InFlight

(* What is left to show of a step of the life cycle. *)
LEMMA LifecycleStep ==
  ASSUME WorkspaceTypes, NoClash, ~mixed, NEW i \in Slots,
         task[i].at # "idle", task[i].op \in Lifecycle,
         task'[i].op = task[i].op, OthersSame(i),
         OwnFolders', CurrentStored',
         Replacing(i)' \/ (libdir = cur /\ Belongs /\ Kept)',
         task[i].op \in Opens => Opening(i)',
         task[i].op = "close" => Closing(i)'
  PROVE  Data'
<1>1. \A j \in Slots : j # i => Bystander(j)
  BY Bystanders
<1>2. \A j \in Slots : j # i => Bystander(j)'
  BY <1>1 DEF Bystander, OthersSame, SameTask
<1>3. \A j \in Slots : j # i => ReliesOn(j)'
  BY <1>2
     DEF Bystander, ReliesOn, At, Opening, Closing, Storing, Adding, Editing, Opens
<1>4. ReliesOn(i)'
  BY DEF ReliesOn, Lifecycle
<1>5. AtPeace'
  BY DEF AtPeace, Settled
<1>6. QED
  BY <1>3, <1>4, <1>5 DEF Data, Relies

(* No save is under way with a call of the life cycle. *)
LEMMA NoSaves ==
  ASSUME WorkspaceTypes, NoClash, ~mixed, NEW i \in Slots,
         task[i].at # "idle", task[i].op \in Lifecycle, OthersSame(i),
         task'[i].op = task[i].op
  PROVE  /\ ~Unsaved({"device"}) /\ ~Unsaved({"device", "graph"})
         /\ ~Unsaved({"device"})' /\ ~Unsaved({"device", "graph"})'
         /\ Settled <=> ~Replacing(i)
<1>1. \A j \in Slots : j # i => Bystander(j)
  BY Bystanders
<1>2. \A j \in Slots : j # i => Bystander(j)'
  BY <1>1 DEF Bystander, OthersSame, SameTask
<1>3. \A j \in Slots : j # i => ~Replacing(j)
  BY <1>1 DEF Bystander, Replacing, At, Opens
<1>4. QED
  BY <1>1, <1>2, <1>3 DEF Unsaved, Bystander, Lifecycle, Settled

(* The folder being opened, as the invariant knows it. *)
LEMMA OwnDevice ==
  ASSUME WorkspaceTypes, NEW p \in Projects, OwnFolder(p), HasDevice(p)
  PROVE  /\ disk[p].dev.of = p /\ HasGraph(p)
         /\ GraphFrom(p) => GraphOf(p)
BY DEF OwnFolder, HasDevice, GraphFrom, GraphOf

(* create_project touches nothing that is loaded or stored. *)
LEMMA CreateData ==
  ASSUME WorkspaceTypes, NoClash, Data, ~mixed, NEW i \in Slots, CreateFolder(i)
  PROVE  Data'
<1>1. task[i].op = "create" /\ task[i].at = "sent"
  BY DEF CreateFolder, At
<1>2. Shifts(i, "refused") \/ Shifts(i, "open")
  BY GoesFields DEF CreateFolder, WorkspaceTypes, TaskTypes, Place
<1>3. UNCHANGED <<dev, graph, blocks, libdir, cur, user, half, mixed, touched>>
  BY DEF CreateFolder, hist
<1>4. \A q \in Projects : /\ disk'[q].dev = disk[q].dev
                          /\ disk'[q].graph = disk[q].graph
                          /\ disk'[q].blocks = disk[q].blocks
  BY CreateEffect
<1>5. cur = None \/ cur \in Projects
  BY DEF WorkspaceTypes, ServerTypes, Maybe
<1>6. OwnFolders' /\ CurrentStored'
  BY <1>3, <1>4, <1>5 DEF Data, OwnFolders, OwnFolder, CurrentStored, HasDevice, HasGraph
<1>7. /\ ~Unsaved({"device"}) /\ ~Unsaved({"device", "graph"})
      /\ ~Unsaved({"device"})' /\ ~Unsaved({"device", "graph"})'
      /\ Settled <=> ~Replacing(i)
  BY <1>1, <1>2, NoSaves DEF Shifts, Lifecycle
<1>8. libdir = cur /\ Belongs /\ Kept
  BY <1>1, <1>7 DEF Data, AtPeace, Replacing, At
<1>9. Belongs'
  BY <1>3, <1>8 DEF Belongs, GraphOf
<1>10. Kept'
  BY <1>3, <1>4, <1>5, <1>7, <1>8 DEF Kept, GraphFrom
<1>11. Opening(i)'
  BY <1>2 DEF Opening, Shifts
<1>12. QED
  BY <1>1, <1>2, <1>3, <1>6, <1>8, <1>9, <1>10, <1>11, LifecycleStep
     DEF Shifts, Lifecycle, Opens

(* open_workspace's tests. *)
LEMMA ChecksData ==
  ASSUME WorkspaceTypes, NoClash, Data, ~mixed, NEW i \in Slots, OpenChecks(i)
  PROVE  Data'
<1>0. PICK p \in Projects : task[i].p = p
  BY DEF OpenChecks, At, Opens, WorkspaceTypes, TaskTypes, Named
<1>1. task[i].op \in Opens /\ task[i].at \in {"sent", "open"}
  BY DEF OpenChecks, At, Opens
<1>2. PICK at \in {"refused", "device", "seed"} :
        /\ Shifts(i, at)
        /\ at = "device" => HasDevice(p) \/ HasGraph(p)
  BY <1>0, GoesFields DEF OpenChecks, WorkspaceTypes, TaskTypes, Place
<1>3. DataSame /\ mixed' = mixed
  BY DEF OpenChecks, hist, server, DataSame
<1>4. OwnFolders' /\ CurrentStored'
  BY <1>3 DEF Data, DataSame, OwnFolders, OwnFolder, CurrentStored, HasDevice, HasGraph
<1>5. /\ ~Unsaved({"device"}) /\ ~Unsaved({"device", "graph"})
      /\ ~Unsaved({"device"})' /\ ~Unsaved({"device", "graph"})'
      /\ Settled <=> ~Replacing(i)
  BY <1>1, <1>2, NoSaves DEF Shifts, Lifecycle, Opens
<1>6. libdir = cur /\ Belongs /\ Kept
  BY <1>1, <1>5 DEF Data, AtPeace, Replacing, At, Opens
<1>7. libdir' = cur' /\ Belongs' /\ Kept'
  BY <1>3, <1>5, <1>6 DEF DataSame, Belongs, GraphOf, Kept, GraphFrom
<1>8. at = "device" => HasDevice(p)'
  BY <1>2, <1>3 DEF DataSame, Data, OwnFolders, OwnFolder, HasDevice
<1>9. Opening(i)'
  BY <1>0, <1>2, <1>7, <1>8 DEF Opening, Shifts, HasDevice
<1>10. QED
  BY <1>1, <1>2, <1>4, <1>7, <1>9, LifecycleStep DEF Shifts, Lifecycle, Opens

(* A new project is given a station and a page. *)
LEMMA SeedData ==
  ASSUME WorkspaceTypes, NoClash, Data, ~mixed, NEW i \in Slots, Seed(i)
  PROVE  Data'
<1>0. PICK p \in Projects : task[i].p = p
  BY DEF Seed, At, WorkspaceTypes, TaskTypes, Named
<1>1. task[i].op \in Opens /\ task[i].at = "seed" /\ Shifts(i, "device")
  BY GoesFields DEF Seed, At, WorkspaceTypes, TaskTypes, Place
<1>2. /\ DiskBut(p)
      /\ disk'[p].dev = SeedDev(p)
      /\ \A x \in Pages : disk'[p].graph[x] = IF x = FirstPage THEN p ELSE disk[p].graph[x]
      /\ disk'[p].blocks = disk[p].blocks
  BY <1>0, SeedEffect
<1>3. /\ dev' = SeedDev(p) /\ graph' = SeedPages(p)
      /\ UNCHANGED <<libdir, cur, user, half, mixed, touched>>
  BY <1>0 DEF Seed, hist
<1>4. SeedDev(p) # NoDev /\ SeedDev(p).of = p
  BY <1>2, WorkspaceAssumption DEF SeedDev, NoDev
<1>5. disk'[p].graph # NoPages
  <2>1. disk'[p].graph[FirstPage] = p /\ p # None
    BY <1>2, WorkspaceAssumption
  <2>2. QED
    BY <2>1, WorkspaceAssumption DEF NoPages
<1>6. OwnFolder(p)'
  BY <1>2, <1>4, <1>5 DEF OwnFolder, HasDevice, HasGraph, Data, OwnFolders
<1>7. OwnFolders' /\ CurrentStored'
  BY <1>2, <1>3, <1>4, <1>6
     DEF Data, OwnFolders, OwnFolder, CurrentStored, HasDevice, HasGraph, DiskBut,
         WorkspaceTypes, ServerTypes, Maybe
<1>8. /\ ~Unsaved({"device"}) /\ ~Unsaved({"device", "graph"})
      /\ ~Unsaved({"device"})' /\ ~Unsaved({"device", "graph"})'
      /\ Settled <=> ~Replacing(i)
  BY <1>1, NoSaves DEF Shifts, Lifecycle, Opens
<1>9. libdir = cur
  BY <1>1, <1>8 DEF Data, AtPeace, Replacing, At, Opens
<1>10. FreshFrom(p)'
  BY <1>2, <1>3 DEF FreshFrom, GraphFrom, SeedPages
<1>11. Opening(i)'
  BY <1>0, <1>1, <1>2, <1>3, <1>4, <1>9, <1>10 DEF Opening, Shifts, HasDevice
<1>12. Replacing(i)'
  BY <1>1 DEF Replacing, Shifts
<1>13. QED
  BY <1>1, <1>7, <1>11, <1>12, LifecycleStep DEF Shifts, Lifecycle, Opens

(* The device model is replaced. *)
LEMMA OpenDeviceData ==
  ASSUME WorkspaceTypes, NoClash, Data, ~mixed, NEW i \in Slots, OpenDevice(i)
  PROVE  Data'
<1>0. PICK p \in Projects : task[i].p = p
  BY DEF OpenDevice, At, WorkspaceTypes, TaskTypes, Named
<1>1. task[i].op \in Opens /\ task[i].at = "device" /\ Shifts(i, "graph")
  BY GoesFields DEF OpenDevice, At, WorkspaceTypes, TaskTypes, Place
<1>2. Opening(i) /\ OwnFolder(p)
  BY <1>1 DEF Data, Relies, ReliesOn, OwnFolders
<1>3. HasDevice(p) /\ libdir = cur /\ (FreshFrom(p) \/ (Belongs /\ Kept))
  BY <1>0, <1>1, <1>2 DEF Opening
<1>4. dev' = disk[p].dev /\ UNCHANGED <<disk, graph, libdir, cur, user, half, mixed, touched>>
  BY <1>0, <1>3 DEF OpenDevice, hist
<1>5. OwnFolders' /\ CurrentStored'
  BY <1>4 DEF Data, OwnFolders, OwnFolder, CurrentStored, HasDevice, HasGraph
<1>6. ~Unsaved({"device", "graph"})
  BY <1>1, NoSaves DEF Shifts, Lifecycle, Opens
<1>7. cur = p /\ ~half => GraphOf(p) /\ (~touched => GraphFrom(p))
  <2>1. CASE FreshFrom(p)
    BY <1>2, <1>3, <2>1, OwnDevice DEF FreshFrom
  <2>2. CASE Belongs /\ Kept
    BY <1>6, <2>2, WorkspaceAssumption DEF Belongs, Kept
  <2>3. QED
    BY <1>3, <2>1, <2>2
<1>8. Opening(i)'
  BY <1>0, <1>1, <1>3, <1>4, <1>7 DEF Opening, Shifts, HasDevice, GraphOf, GraphFrom
<1>9. Replacing(i)'
  BY <1>1 DEF Replacing, Shifts
<1>10. QED
  BY <1>1, <1>5, <1>8, <1>9, LifecycleStep DEF Shifts, Lifecycle, Opens

(* The pages are replaced. *)
LEMMA OpenGraphData ==
  ASSUME WorkspaceTypes, NoClash, Data, ~mixed, NEW i \in Slots, OpenGraph(i)
  PROVE  Data'
<1>0. PICK p \in Projects : task[i].p = p
  BY DEF OpenGraph, At, WorkspaceTypes, TaskTypes, Named
<1>1. task[i].op \in Opens /\ task[i].at = "graph" /\ Shifts(i, "library")
  BY GoesFields DEF OpenGraph, At, WorkspaceTypes, TaskTypes, Place
<1>2. Opening(i) /\ OwnFolder(p)
  BY <1>1 DEF Data, Relies, ReliesOn, OwnFolders
<1>3. HasDevice(p) /\ HasGraph(p) /\ dev = disk[p].dev
  BY <1>0, <1>1, <1>2 DEF Opening, OwnFolder
<1>4. /\ graph' = disk[p].graph
      /\ UNCHANGED <<disk, dev, libdir, cur, user, half, mixed, touched>>
  BY <1>0, <1>3 DEF OpenGraph, hist
<1>5. OwnFolders' /\ CurrentStored'
  BY <1>4 DEF Data, OwnFolders, OwnFolder, CurrentStored, HasDevice, HasGraph
<1>6. Opening(i)'
  BY <1>0, <1>1, <1>3, <1>4 DEF Opening, Shifts, HasDevice, FreshFrom, GraphFrom
<1>7. Replacing(i)'
  BY <1>1 DEF Replacing, Shifts
<1>8. QED
  BY <1>1, <1>5, <1>6, <1>7, LifecycleStep DEF Shifts, Lifecycle, Opens

(* A file cannot be read: what was replaced stays, and half remembers it. *)
LEMMA OpenFailsData ==
  ASSUME WorkspaceTypes, NoClash, Data, ~mixed, NEW i \in Slots, OpenFails(i)
  PROVE  Data'
<1>0. PICK p \in Projects : task[i].p = p
  BY DEF OpenFails, WorkspaceTypes, TaskTypes, Named
<1>1. task[i].op \in Opens /\ task[i].at \in {"device", "graph"} /\ Shifts(i, "refused")
  BY GoesFields DEF OpenFails, WorkspaceTypes, TaskTypes, Place
<1>2. Opening(i) /\ OwnFolder(p)
  BY <1>1 DEF Data, Relies, ReliesOn, OwnFolders
<1>3. /\ UNCHANGED <<disk, dev, graph, libdir, cur, user, mixed, touched>>
      /\ ~half' => ~half /\ (cur = p \/ dev.of # p)
  BY <1>0 DEF OpenFails, server, WorkspaceTypes, HistTypes
<1>4. OwnFolders' /\ CurrentStored'
  BY <1>3 DEF Data, OwnFolders, OwnFolder, CurrentStored, HasDevice, HasGraph
<1>5. /\ ~Unsaved({"device"}) /\ ~Unsaved({"device", "graph"})
      /\ ~Unsaved({"device"})' /\ ~Unsaved({"device", "graph"})'
  BY <1>1, NoSaves DEF Shifts, Lifecycle, Opens
<1>6. libdir = cur /\ HasDevice(p)
  BY <1>0, <1>1, <1>2 DEF Opening
<1>7. disk[p].dev.of = p /\ (GraphFrom(p) => GraphOf(p))
  BY <1>2, <1>6, OwnDevice
<1>8. cur # None /\ ~half' =>
        dev.of = cur /\ GraphOf(cur) /\ (~touched => dev = disk[cur].dev /\ GraphFrom(cur))
  <2>1. CASE task[i].at = "device" /\ FreshFrom(p)
    BY <1>3, <1>7, <2>1 DEF FreshFrom
  <2>2. CASE Belongs /\ Kept
    BY <1>3, <1>5, <2>2 DEF Belongs, Kept
  <2>3. CASE task[i].at = "graph"
    BY <1>0, <1>2, <1>3, <1>7, <2>3 DEF Opening
  <2>4. QED
    BY <1>0, <1>1, <1>2, <2>1, <2>2, <2>3 DEF Opening
<1>9. libdir' = cur' /\ Belongs' /\ Kept'
  BY <1>3, <1>6, <1>8 DEF Belongs, Kept, GraphOf, GraphFrom
<1>10. Opening(i)'
  BY <1>1 DEF Opening, Shifts
<1>11. QED
  BY <1>1, <1>4, <1>9, <1>10, LifecycleStep DEF Shifts, Lifecycle, Opens

(* The library uses the new folder; then the project is current. *)
LEMMA OpenLibraryData ==
  ASSUME WorkspaceTypes, NoClash, Data, ~mixed, NEW i \in Slots,
         OpenLibrary(i) \/ OpenCurrent(i)
  PROVE  Data'
<1>0. PICK p \in Projects : task[i].p = p
  BY DEF OpenLibrary, OpenCurrent, At, WorkspaceTypes, TaskTypes, Named
<1>1. task[i].op \in Opens /\ task[i].at \in {"library", "current"}
  BY DEF OpenLibrary, OpenCurrent, At
<1>2. Opening(i) /\ OwnFolder(p)
  BY <1>1 DEF Data, Relies, ReliesOn, OwnFolders
<1>3. HasDevice(p) /\ FreshFrom(p)
  BY <1>0, <1>1, <1>2 DEF Opening
<1>4. disk[p].dev.of = p /\ GraphOf(p)
  BY <1>2, <1>3, OwnDevice DEF FreshFrom
<1>5. CASE OpenLibrary(i)
  <2>1. Shifts(i, "current")
    BY <1>5, GoesFields DEF OpenLibrary, WorkspaceTypes, TaskTypes, Place
  <2>2. libdir' = p /\ UNCHANGED <<disk, dev, graph, cur, user, half, mixed, touched>>
    BY <1>0, <1>5 DEF OpenLibrary, hist
  <2>3. OwnFolders' /\ CurrentStored'
    BY <2>2 DEF Data, OwnFolders, OwnFolder, CurrentStored, HasDevice, HasGraph
  <2>4. Opening(i)' /\ Replacing(i)'
    BY <1>0, <1>1, <1>3, <2>1, <2>2
       DEF Opening, Replacing, Shifts, HasDevice, FreshFrom, GraphFrom
  <2>5. QED
    BY <1>1, <2>1, <2>3, <2>4, LifecycleStep DEF Shifts, Lifecycle, Opens
<1>6. CASE OpenCurrent(i)
  <2>1. Shifts(i, "served")
    BY <1>6, GoesFields DEF OpenCurrent, WorkspaceTypes, TaskTypes, Place
  <2>2. /\ cur' = p /\ libdir = p /\ half' = FALSE /\ touched' = FALSE
        /\ UNCHANGED <<disk, dev, graph, libdir, user, mixed>>
    BY <1>0, <1>2, <1>6 DEF OpenCurrent, At, Opening
  <2>3. OwnFolders' /\ CurrentStored'
    BY <1>3, <2>2 DEF Data, OwnFolders, OwnFolder, CurrentStored, HasDevice, HasGraph
  <2>4. libdir' = cur' /\ Belongs' /\ Kept'
    BY <1>3, <1>4, <2>2 DEF Belongs, Kept, GraphOf, FreshFrom, GraphFrom
  <2>5. Opening(i)'
    BY <2>1 DEF Opening, Shifts
  <2>6. QED
    BY <1>1, <2>1, <2>3, <2>4, <2>5, LifecycleStep DEF Shifts, Lifecycle, Opens
<1>7. QED
  BY <1>5, <1>6

(* The project is closed; the library follows. *)
LEMMA CloseData ==
  ASSUME WorkspaceTypes, NoClash, Data, ~mixed, NEW i \in Slots,
         CloseCurrent(i) \/ CloseLibrary(i)
  PROVE  Data'
<1>1. task[i].op = "close" /\ task[i].at \in {"sent", "library"}
  BY DEF CloseCurrent, CloseLibrary, At
<1>2. PICK at \in {"served", "library"} :
        /\ Shifts(i, at) /\ cur' = None
        /\ CloseCurrent(i) => task[i].at = "sent" /\ libdir' = libdir
                              /\ (at = "served" => cur = None)
        /\ CloseLibrary(i) => libdir' = None
        /\ UNCHANGED <<disk, dev, graph, user, half, mixed, touched>>
  <2>1. task \in [Slots -> TaskType]
    BY DEF WorkspaceTypes, TaskTypes
  <2>2. CASE CloseCurrent(i)
    BY <2>1, <2>2, GoesFields DEF CloseCurrent, CloseLibrary, At, Place, hist
  <2>3. CASE CloseLibrary(i)
    <3>1. cur = None
      BY <1>1, <2>3 DEF CloseLibrary, At, Data, Relies, ReliesOn, Closing
    <3>2. QED
      BY <2>1, <2>3, <3>1, GoesFields DEF CloseCurrent, CloseLibrary, At, Place, hist
  <2>4. QED
    BY <2>2, <2>3
<1>3. OwnFolders' /\ CurrentStored'
  BY <1>2 DEF Data, OwnFolders, OwnFolder, CurrentStored, HasDevice, HasGraph
<1>4. Settled <=> ~Replacing(i)
  BY <1>1, <1>2, NoSaves DEF Shifts, Lifecycle
<1>5. Replacing(i)' \/ libdir' = cur'
  BY <1>1, <1>2, <1>4 DEF Replacing, At, Shifts, Data, AtPeace, Opens
<1>6. Belongs' /\ Kept' /\ Closing(i)'
  BY <1>2 DEF Belongs, Kept, Closing
<1>7. QED
  BY <1>1, <1>2, <1>3, <1>5, <1>6, LifecycleStep DEF Shifts, Lifecycle, Opens

(* What is left to show of a step of a call that uses the models. *)
LEMMA UseStep ==
  ASSUME NoClash, Data, ~mixed, NEW i \in Slots,
         task[i].at # "idle", task[i].op \in {"save", "block", "edit"},
         task'[i].at = "idle" \/ task'[i].op = task[i].op, OthersSame(i),
         UNCHANGED <<cur, half>>,
         OwnFolders', CurrentStored', ~mixed' => (libdir = cur /\ Belongs /\ Kept)',
         ~mixed' => ReliesOn(i)'
  PROVE  Data'
<1>1. Settled
  BY NobodyReplaces
<1>2. ASSUME NEW j \in Slots, j # i
      PROVE  ReliesOn(j)'
  <2>1. ReliesOn(j) /\ SameTask(j) /\ ~Replacing(j)
    BY <1>1, <1>2 DEF Data, Relies, OthersSame, Settled
  <2>2. QED
    BY <2>1 DEF ReliesOn, SameTask, Replacing, At, Opening, Closing, Storing, Adding, Editing,
                Opens
<1>3. QED
  BY <1>2 DEF Data, AtPeace, Relies

(* What a call that uses the models may count on. *)
LEMMA UseFacts ==
  ASSUME NoClash, Data, ~mixed, NEW i \in Slots,
         task[i].at # "idle", task[i].op \in {"save", "block", "edit"}
  PROVE  /\ libdir = cur /\ Belongs /\ Kept
         /\ \A p \in Projects : OwnFolder(p)
         /\ cur # None => HasDevice(cur)
         /\ user \subseteq {None}
         /\ ReliesOn(i)
BY NobodyReplaces DEF Data, AtPeace, OwnFolders, CurrentStored, Relies

(* A save begins. *)
LEMMA SaveStartsData ==
  ASSUME WorkspaceTypes, NoClash, Data, ~mixed, NEW i \in Slots, SaveStarts(i)
  PROVE  Data'
<1>0. task \in [Slots -> TaskType] /\ cur \in Maybe /\ half \in BOOLEAN /\ mixed \in BOOLEAN
  BY DEF WorkspaceTypes, TaskTypes, ServerTypes, HistTypes
<1>1. task[i].op = "save" /\ task[i].at = "sent"
  BY DEF SaveStarts, At
<1>2. UNCHANGED <<disk, dev, graph, libdir, cur, user, half>>
  BY DEF SaveStarts, server
<1>3. libdir = cur /\ Belongs /\ Kept
  BY <1>1, UseFacts
<1>5. OwnFolders' /\ CurrentStored'
  BY <1>2 DEF Data, OwnFolders, OwnFolder, CurrentStored, HasDevice, HasGraph
<1>6. libdir' = cur' /\ Belongs'
  BY <1>2, <1>3 DEF Belongs, GraphOf
<1>7. CASE cur = None
  <2>1. Shifts(i, "refused")
    BY <1>0, <1>7, GoesFields DEF SaveStarts, Place
  <2>2. Kept'
    BY <1>2, <1>7 DEF Kept
  <2>3. ReliesOn(i)'
    BY <1>1, <2>1 DEF ReliesOn, Shifts, Storing, Opens
  <2>4. QED
    BY <1>1, <1>2, <1>5, <1>6, <2>1, <2>2, <2>3, UseStep DEF Shifts
<1>8. CASE cur # None
  <2>1. task' = [task EXCEPT ![i] = Saving(task[i], cur)] /\ (~mixed' => ~half)
    BY <1>0, <1>8 DEF SaveStarts
  <2>2. /\ OthersSame(i) /\ task'[i].at = "device" /\ task'[i].op = task[i].op
        /\ task'[i].p = cur
    BY <1>0, <2>1, SavingFields
  <2>3. Kept'
    BY <1>1, <2>2 DEF Kept, Unsaved
  <2>4. ~mixed' => ReliesOn(i)'
    BY <1>1, <1>2, <1>8, <2>1, <2>2 DEF ReliesOn, Storing, Opens
  <2>5. QED
    BY <1>1, <1>2, <1>5, <1>6, <2>2, <2>3, <2>4, UseStep
<1>9. QED
  BY <1>7, <1>8

(* A save writes the device model, then the pages, then the blocks. *)
LEMMA SaveDeviceData ==
  ASSUME WorkspaceTypes, NoClash, Data, ~mixed, NEW i \in Slots, SaveDevice(i)
  PROVE  Data'
<1>1. task[i].op = "save" /\ task[i].at = "device" /\ Shifts(i, "graph")
  BY GoesFields DEF SaveDevice, At, WorkspaceTypes, TaskTypes, Place
<1>2. /\ libdir = cur /\ Belongs /\ Kept
      /\ \A p \in Projects : OwnFolder(p)
      /\ cur # None => HasDevice(cur)
      /\ user \subseteq {None}
      /\ ReliesOn(i)
  BY <1>1, UseFacts
<1>3. task[i].p = cur /\ cur # None /\ ~half
  BY <1>1, <1>2 DEF ReliesOn, Storing
<1>4. /\ cur \in Projects /\ DiskBut(cur)
      /\ disk'[cur].dev = dev
      /\ disk'[cur].graph = disk[cur].graph
      /\ disk'[cur].blocks = disk[cur].blocks
  BY <1>3, SaveDeviceEffect
<1>5. UNCHANGED <<dev, graph, libdir, cur, user, half, mixed, touched>>
  BY DEF SaveDevice, hist
<1>6. dev.of = cur /\ dev # NoDev
  BY <1>2, <1>3 DEF Belongs, NoDev
<1>7. HasDevice(cur) /\ HasGraph(cur)
  BY <1>2, <1>3, <1>4 DEF OwnFolder
<1>8. \A p \in Projects : OwnFolder(p)'
  BY <1>2, <1>4, <1>6, <1>7 DEF OwnFolder, HasDevice, HasGraph, DiskBut
<1>9. OwnFolders' /\ CurrentStored'
  BY <1>2, <1>4, <1>5, <1>6, <1>8 DEF OwnFolders, CurrentStored, HasDevice
<1>10. libdir' = cur' /\ Belongs'
  BY <1>2, <1>5 DEF Belongs, GraphOf
<1>11. Kept'
  BY <1>1, <1>4, <1>5 DEF Kept, Unsaved, Shifts
<1>12. ReliesOn(i)'
  BY <1>1, <1>3, <1>5 DEF ReliesOn, Storing, Shifts, Opens
<1>13. QED
  BY <1>1, <1>5, <1>9, <1>10, <1>11, <1>12, UseStep DEF Shifts

LEMMA SaveGraphData ==
  ASSUME WorkspaceTypes, NoClash, Data, ~mixed, NEW i \in Slots, SaveGraph(i)
  PROVE  Data'
<1>1. task[i].op = "save" /\ task[i].at = "graph" /\ Shifts(i, "library")
  BY GoesFields DEF SaveGraph, At, WorkspaceTypes, TaskTypes, Place
<1>2. /\ libdir = cur /\ Belongs /\ Kept
      /\ \A p \in Projects : OwnFolder(p)
      /\ cur # None => HasDevice(cur)
      /\ user \subseteq {None}
      /\ ReliesOn(i)
  BY <1>1, UseFacts
<1>3. task[i].p = cur /\ cur # None /\ ~half
  BY <1>1, <1>2 DEF ReliesOn, Storing
<1>4. /\ cur \in Projects /\ DiskBut(cur)
      /\ disk'[cur].dev = disk[cur].dev
      /\ \A x \in Pages : disk'[cur].graph[x] =
                            IF graph[x] # None THEN graph[x] ELSE disk[cur].graph[x]
      /\ disk'[cur].blocks = disk[cur].blocks
  BY <1>3, SaveGraphEffect
<1>5. UNCHANGED <<dev, graph, libdir, cur, user, half, mixed, touched>>
  BY DEF SaveGraph, hist
<1>6. HasDevice(cur) /\ HasGraph(cur)
  BY <1>2, <1>3, <1>4 DEF OwnFolder
<1>7. disk'[cur].graph # NoPages
  <2>1. disk[cur].graph \in Drawing
    BY <1>4, FolderParts DEF WorkspaceTypes, ServerTypes
  <2>2. PICK x \in Pages : disk[cur].graph[x] # None
    BY <1>6, <2>1, DrawingBlank DEF HasGraph
  <2>3. disk'[cur].graph[x] # None
    BY <1>4, <2>2
  <2>4. QED
    BY <2>3 DEF NoPages
<1>8. \A x \in Pages : disk'[cur].graph[x] \in {cur, None}
  BY <1>2, <1>3, <1>4 DEF Belongs, GraphOf, OwnFolder
<1>9. \A p \in Projects : OwnFolder(p)'
  BY <1>2, <1>4, <1>6, <1>7, <1>8 DEF OwnFolder, HasDevice, HasGraph, DiskBut
<1>10. OwnFolders' /\ CurrentStored'
  BY <1>2, <1>4, <1>5, <1>6, <1>9 DEF OwnFolders, CurrentStored, HasDevice
<1>11. libdir' = cur' /\ Belongs'
  BY <1>2, <1>5 DEF Belongs, GraphOf
<1>12. Unsaved({"device"})' <=> Unsaved({"device"})
  BY <1>1 DEF Unsaved, Shifts, OthersSame, SameTask
<1>13. Kept'
  <2>1. GraphFrom(cur)'
    BY <1>4, <1>5 DEF GraphFrom
  <2>2. QED
    BY <1>2, <1>4, <1>5, <1>12, <2>1 DEF Kept
<1>14. ReliesOn(i)'
  BY <1>1, <1>3, <1>5 DEF ReliesOn, Storing, Shifts, Opens
<1>15. QED
  BY <1>1, <1>5, <1>10, <1>11, <1>13, <1>14, UseStep DEF Shifts

LEMMA SaveBlocksData ==
  ASSUME WorkspaceTypes, NoClash, LibrarySynced, Data, ~mixed, NEW i \in Slots, SaveBlocks(i)
  PROVE  Data'
<1>1. task[i].op = "save" /\ task[i].at = "library" /\ Shifts(i, "current")
  BY GoesFields DEF SaveBlocks, At, WorkspaceTypes, TaskTypes, Place
<1>2. /\ libdir = cur /\ Belongs /\ Kept
      /\ \A p \in Projects : OwnFolder(p)
      /\ cur # None => HasDevice(cur)
      /\ user \subseteq {None}
      /\ ReliesOn(i)
  BY <1>1, UseFacts
<1>3. cur # None /\ ~half /\ task[i].p = cur
  BY <1>1, <1>2 DEF ReliesOn, Storing
<1>4. cur \in Projects /\ blocks = disk[cur].blocks /\ blocks \in SUBSET Maybe
  BY <1>2, <1>3 DEF WorkspaceTypes, ServerTypes, Maybe, LibrarySynced
<1>5. /\ disk' = [disk EXCEPT ![cur] = WithBlocks(@, disk[cur].blocks \cup blocks)]
      /\ libdir' = cur
      /\ UNCHANGED <<dev, graph, cur, user, half, mixed, touched>>
  BY <1>2, <1>3 DEF SaveBlocks, hist
<1>6. disk[cur].blocks \cup blocks = disk[cur].blocks
  BY <1>4
<1>7. \A q \in Projects : /\ disk'[q].dev = disk[q].dev
                          /\ disk'[q].graph = disk[q].graph
                          /\ disk'[q].blocks = disk[q].blocks
  BY <1>4, <1>5, <1>6, BlocksEffect DEF DiskBut
<1>8. OwnFolders' /\ CurrentStored'
  BY <1>2, <1>4, <1>5, <1>7 DEF OwnFolders, OwnFolder, CurrentStored, HasDevice, HasGraph
<1>9. Unsaved({"device"})' <=> Unsaved({"device"})
  BY <1>1 DEF Unsaved, Shifts, OthersSame, SameTask
<1>10. Unsaved({"device", "graph"})' <=> Unsaved({"device", "graph"})
  BY <1>1 DEF Unsaved, Shifts, OthersSame, SameTask
<1>11. libdir' = cur' /\ Belongs' /\ Kept'
  BY <1>2, <1>4, <1>5, <1>7, <1>9, <1>10 DEF Belongs, GraphOf, Kept, GraphFrom
<1>12. ReliesOn(i)'
  BY <1>1, <1>3, <1>5 DEF ReliesOn, Storing, Shifts, Opens
<1>13. QED
  BY <1>1, <1>5, <1>8, <1>11, <1>12, UseStep DEF Shifts

(* A block goes where the dialog said. *)
LEMMA AddBlockData ==
  ASSUME WorkspaceTypes, NoClash, Data, ~mixed, NEW i \in Slots, AddBlock(i)
  PROVE  Data'
<1>1. task[i].op = "block" /\ task[i].at = "sent" /\ Shifts(i, "served")
  BY GoesFields DEF AddBlock, At, WorkspaceTypes, TaskTypes, Place
<1>2. /\ libdir = cur /\ Belongs /\ Kept
      /\ \A p \in Projects : OwnFolder(p)
      /\ cur # None => HasDevice(cur)
      /\ user \subseteq {None}
      /\ ReliesOn(i)
  BY <1>1, UseFacts
<1>3. task[i].p = cur /\ cur \in Maybe
  BY <1>1, <1>2 DEF ReliesOn, Adding, WorkspaceTypes, ServerTypes
<1>4. UNCHANGED <<dev, graph, libdir, cur, half, mixed, touched>>
  BY DEF AddBlock, hist
<1>5. /\ user' \subseteq {None}
      /\ \A q \in Projects : /\ disk'[q].dev = disk[q].dev
                             /\ disk'[q].graph = disk[q].graph
                             /\ disk'[q].blocks \subseteq {q}
  <2>1. CASE cur = None
    BY <1>2, <1>3, <2>1 DEF AddBlock, OwnFolder
  <2>2. CASE cur # None
    <3>1. cur \in Projects
      BY <1>3, <2>2 DEF Maybe
    <3>2. disk[cur].blocks \cup {cur} \in SUBSET Maybe
      BY <3>1, FolderParts DEF WorkspaceTypes, ServerTypes, Maybe
    <3>3. /\ disk' = [disk EXCEPT ![cur] = WithBlocks(@, disk[cur].blocks \cup {cur})]
          /\ user' = user
      BY <1>2, <1>3, <2>2 DEF AddBlock
    <3>4. /\ DiskBut(cur)
          /\ disk'[cur].dev = disk[cur].dev
          /\ disk'[cur].graph = disk[cur].graph
          /\ disk'[cur].blocks = disk[cur].blocks \cup {cur}
      BY <3>1, <3>2, <3>3, BlocksEffect
    <3>5. \A q \in Projects : disk[q].blocks \subseteq {q}
      BY <1>2 DEF OwnFolder
    <3>6. QED
      BY <1>2, <3>1, <3>3, <3>4, <3>5 DEF DiskBut
  <2>3. QED
    BY <2>1, <2>2
<1>6. OwnFolders' /\ CurrentStored'
  BY <1>2, <1>3, <1>4, <1>5
     DEF OwnFolders, OwnFolder, CurrentStored, HasDevice, HasGraph, Maybe
<1>7. Unsaved({"device"})' <=> Unsaved({"device"})
  BY <1>1 DEF Unsaved, Shifts, OthersSame, SameTask
<1>8. Unsaved({"device", "graph"})' <=> Unsaved({"device", "graph"})
  BY <1>1 DEF Unsaved, Shifts, OthersSame, SameTask
<1>9. libdir' = cur' /\ Belongs' /\ Kept'
  BY <1>2, <1>3, <1>4, <1>5, <1>7, <1>8 DEF Belongs, GraphOf, Kept, GraphFrom, Maybe
<1>10. ReliesOn(i)'
  BY <1>1 DEF ReliesOn, Adding, Shifts, Opens
<1>11. QED
  BY <1>1, <1>4, <1>6, <1>9, <1>10, UseStep DEF Shifts

(* A stage page edits the model of the project it shows. *)
LEMMA EditData ==
  ASSUME WorkspaceTypes, NoClash, Data, ~mixed, NEW i \in Slots, EditModel(i)
  PROVE  Data'
<1>1. task[i].op = "edit" /\ task[i].at = "sent" /\ Ends(i)
  BY IdleFields DEF EditModel, At, WorkspaceTypes, TaskTypes
<1>2. /\ libdir = cur /\ Belongs /\ Kept
      /\ \A p \in Projects : OwnFolder(p)
      /\ cur # None => HasDevice(cur)
      /\ user \subseteq {None}
      /\ ReliesOn(i)
  BY <1>1, UseFacts
<1>3. task[i].p = cur /\ cur # None
  BY <1>1, <1>2 DEF ReliesOn, Editing
<1>4. touched' = TRUE /\ UNCHANGED <<disk, libdir, cur, user, half, mixed>>
  BY DEF EditModel
<1>5. OwnFolders' /\ CurrentStored'
  BY <1>2, <1>4 DEF OwnFolders, OwnFolder, CurrentStored, HasDevice, HasGraph
<1>6. Belongs'
  <2>1. dev.of = cur => dev'.of = cur
    BY <1>3 DEF EditModel
  <2>2. GraphOf(cur) => \A x \in Pages : graph'[x] \in {cur, None}
    BY <1>3 DEF EditModel, GraphOf, WorkspaceTypes, ServerTypes, Drawing
  <2>3. QED
    BY <1>2, <1>4, <2>1, <2>2 DEF Belongs, GraphOf
<1>7. libdir' = cur' /\ Kept'
  BY <1>2, <1>4 DEF Kept
<1>8. ReliesOn(i)'
  BY <1>1 DEF ReliesOn, Ends, Opens
<1>9. QED
  BY <1>1, <1>4, <1>5, <1>6, <1>7, <1>8, UseStep DEF Ends

(* Steps that touch neither memory nor folders: a handler passes on to a    *)
(* place where nothing is relied on, or asks.                               *)
SameJob(j) ==
  task'[j].at = task[j].at /\ task'[j].op = task[j].op /\ task'[j].p = task[j].p
Passes(j) ==
  /\ ~Replacing(j)
  /\ task[j].op = "save" => task[j].at \notin {"device", "graph"}
  /\ task'[j].at = "idle" \/ task'[j].op = task[j].op
  /\ task'[j].at \in {"idle", "served", "refused", "state", "land"}
Sent(j) ==
  /\ task[j].at = "idle" /\ task'[j].at = "sent"
  /\ task'[j].op = "block" => task'[j].p = cur
  /\ task'[j].op = "edit" => task'[j].p = cur /\ cur # None

LEMMA QuietStep ==
  ASSUME Data, ~mixed, DataSame,
         \A j \in Slots : SameJob(j) \/ Passes(j) \/ Sent(j)
  PROVE  Data'
<1>1. OwnFolders' /\ CurrentStored'
  BY DEF Data, DataSame, OwnFolders, OwnFolder, CurrentStored, HasDevice, HasGraph
<1>2. \A j \in Slots : Replacing(j)' <=> Replacing(j)
  BY DEF SameJob, Passes, Sent, Replacing, At
<1>3. Unsaved({"device"})' <=> Unsaved({"device"})
  BY DEF SameJob, Passes, Sent, Unsaved
<1>4. Unsaved({"device", "graph"})' <=> Unsaved({"device", "graph"})
  BY DEF SameJob, Passes, Sent, Unsaved
<1>5. Belongs' <=> Belongs
  BY DEF DataSame, Belongs, GraphOf
<1>6. Kept' <=> Kept
  BY <1>3, <1>4 DEF DataSame, Kept, GraphFrom
<1>7. AtPeace'
  BY <1>2, <1>5, <1>6 DEF Data, AtPeace, Settled, DataSame
<1>8. ASSUME NEW j \in Slots
      PROVE  ReliesOn(j)'
  <2>1. ReliesOn(j)
    BY DEF Data, Relies
  <2>2. CASE SameJob(j)
    <3>1. Opening(j) => Opening(j)'
      BY <1>5, <1>6, <2>2
         DEF DataSame, SameJob, Opening, HasDevice, FreshFrom, GraphOf, GraphFrom
    <3>2. QED
      BY <2>1, <2>2, <3>1
         DEF DataSame, SameJob, ReliesOn, Closing, Storing, Adding, Editing
  <2>3. CASE Passes(j)
    BY <2>3 DEF Passes, ReliesOn, Opening, Closing, Storing, Adding, Editing
  <2>4. CASE Sent(j)
    BY <2>4 DEF DataSame, Sent, ReliesOn, Opening, Closing, Storing, Adding, Editing
  <2>5. QED
    BY <2>2, <2>3, <2>4
<1>9. QED
  BY <1>1, <1>7, <1>8 DEF Data, Relies

(* The steps of a handler that touch neither memory nor folders. *)
LEMMA PassData ==
  ASSUME WorkspaceTypes, Data, ~mixed, NEW i \in Slots,
         SaveEnds(i) \/ ForgetProject(i) \/ ReadState(i) \/ Handle(i)
  PROVE  Data'
<1>0. task \in [Slots -> TaskType] /\ cur \in Maybe /\ recent \in SUBSET Projects
  BY DEF WorkspaceTypes, TaskTypes, ServerTypes
<1>1. DataSame
  BY DEF SaveEnds, ForgetProject, ReadState, Handle, Answered, Rejected, Land, RefreshFails,
         After, DataSame, server, hist
<1>2. \/ task[i].at \in {"sent", "state", "served", "refused", "land"}
      \/ task[i].op = "save" /\ task[i].at = "current"
  BY DEF SaveEnds, ForgetProject, ReadState, Handle, Answered, Rejected, Land, RefreshFails, At
<1>3. /\ OthersSame(i)
      /\ task'[i].at = "idle" \/ task'[i].op = task[i].op
      /\ task'[i].at \in {"idle", "served", "refused", "state", "land"}
  <2>1. CASE SaveEnds(i) \/ ForgetProject(i) \/ Answered(i)
    BY <1>0, <2>1, GoesFields DEF SaveEnds, ForgetProject, Answered, Shifts, Place
  <2>2. CASE ReadState(i)
    BY <1>0, <2>2, ToldFields DEF ReadState, Shifts
  <2>3. CASE Rejected(i) \/ Land(i) \/ RefreshFails(i)
    BY <1>0, <2>3, IdleFields, AfterFields DEF Rejected, Land, RefreshFails, Ends
  <2>4. QED
    BY <2>1, <2>2, <2>3 DEF Handle
<1>4. Passes(i)
  BY <1>2, <1>3 DEF Passes, Replacing, At, Opens
<1>5. \A j \in Slots : j # i => SameJob(j)
  BY <1>3 DEF OthersSame, SameTask, SameJob
<1>6. QED
  BY <1>1, <1>4, <1>5, QuietStep

(* A new call is asked under the project the shell shows, which is current. *)
LEMMA EngineerData ==
  ASSUME WorkspaceTypes, Shell, Data, ~mixed, ~mixed', Engineer
  PROVE  Data'
<1>1. DataSame
  BY EngineerServer DEF server, DataSame
<1>2. CASE LooksElsewhere
  BY <1>1, <1>2, QuietStep DEF LooksElsewhere, SameTask, SameJob
<1>3. ASSUME NEW op \in Call, NEW p \in Maybe, Asks(op, p)
      PROVE  Data'
  <2>1. PICK i \in Slots : Arrives(i, op, p)
    BY <1>3 DEF Asks
  <2>2. ~(behind /\ op \in Uses) /\ \A j \in InFlight : ~Clashes(op, task[j].op)
    BY <1>3 DEF Asks
  <2>3. op \in {"block", "edit"} => shown.cur = cur
    <3> SUFFICES ASSUME op \in {"block", "edit"}
                 PROVE  shown.cur = cur
      OBVIOUS
    <3>1. ~behind
      BY <2>2 DEF Uses
    <3>2. \A j \in Slots : ~Turned(j)
      BY <2>2 DEF Turned, Past, At, InFlight, Clashes, Uses
    <3>3. QED
      BY <3>1, <3>2 DEF Shell, Mirrored
  <2>4. Sent(i)
    BY <1>3, <2>1, <2>3 DEF Sent, Arrives, Asks
  <2>5. \A j \in Slots : j # i => SameJob(j)
    BY <2>1 DEF Arrives, SameJob
  <2>6. QED
    BY <1>1, <2>4, <2>5, QuietStep
<1>4. QED
  BY <1>2, <1>3, EngineerSteps

(* Every step keeps what memory and folders know of each other. *)
LEMMA DataStep ==
  ASSUME WorkspaceTypes, Shell, NoClash, LibrarySynced, Data, [Next]_vars
  PROVE  Data'
<1>1. CASE mixed'
  BY <1>1 DEF Data, OwnFolders, CurrentStored, AtPeace, Relies
<1>2. ASSUME ~mixed', ~mixed
      PROVE  Data'
  <2>1. CASE UNCHANGED vars
    BY <1>2, <2>1, QuietStep DEF vars, server, hist, DataSame, SameJob
  <2>2. CASE Engineer
    BY <1>2, <2>2, EngineerData
  <2>3. ASSUME NEW i \in Slots, Serve(i) \/ Handle(i)
        PROVE  Data'
    BY <1>2, <2>3, CreateData, ChecksData, SeedData, OpenDeviceData, OpenGraphData,
       OpenFailsData, OpenLibraryData, CloseData, SaveStartsData, SaveDeviceData,
       SaveGraphData, SaveBlocksData, AddBlockData, EditData, PassData DEF Serve
  <2>4. QED
    BY <2>1, <2>2, <2>3 DEF Next
<1>3. mixed => mixed'
  <2>1. CASE UNCHANGED vars
    BY <2>1 DEF vars, hist
  <2>2. CASE Engineer
    BY <2>2, EngineerSteps DEF LooksElsewhere, Asks, WorkspaceTypes, HistTypes
  <2>3. QED
    BY <2>1, <2>2, ServeOps DEF Next
<1>4. QED
  BY <1>1, <1>2, <1>3

(* The whole invariant of the open project holds in every reachable state. *)
THEOREM WorkspaceInvariant == Spec => []WorkspaceInv
<1>1. Init => NoClash /\ LibrarySynced /\ Data
  <2> SUFFICES ASSUME Init
               PROVE  NoClash /\ LibrarySynced /\ Data
    OBVIOUS
  <2>1. \A i \in Slots : /\ task[i].at = IF i = 1 THEN "state" ELSE "idle"
                         /\ task[i].op = "refresh"
    BY DEF Init, Idle, Task
  <2>2. NoClash
    BY <2>1 DEF NoClash, InFlight
  <2>3. LibrarySynced
    BY DEF Init, LibrarySynced
  <2>4. \A p \in Projects : OwnFolder(p)
    <3> SUFFICES ASSUME NEW p \in Projects
                 PROVE  OwnFolder(p)
      OBVIOUS
    <3>1. CASE p = First
      <4>1. disk[p] = Folder(TRUE, SeedDev(p), SeedPages(p), {})
        BY <3>1 DEF Init
      <4>2. /\ disk[p].dev = SeedDev(p) /\ disk[p].graph = SeedPages(p)
            /\ disk[p].blocks = {}
        BY <4>1 DEF Folder
      <4>3. SeedDev(p).of = p /\ SeedDev(p) # NoDev
        BY WorkspaceAssumption DEF SeedDev, NoDev
      <4>4. SeedPages(p)[FirstPage] = p /\ p # None
        BY WorkspaceAssumption DEF SeedPages
      <4>5. SeedPages(p) # NoPages
        BY <4>4, WorkspaceAssumption DEF NoPages
      <4>6. QED
        BY <4>2, <4>3, <4>5 DEF OwnFolder, HasDevice, HasGraph, SeedPages
    <3>2. CASE p # First
      <4>1. disk[p] = NoFolder
        BY <3>2 DEF Init
      <4>2. disk[p].dev = NoDev /\ disk[p].graph = NoPages /\ disk[p].blocks = {}
        BY <4>1 DEF NoFolder, Folder
      <4>3. QED
        BY <4>2 DEF OwnFolder, HasDevice, HasGraph, NoPages
    <3>3. QED
      BY <3>1, <3>2
  <2>5. AtPeace /\ CurrentStored /\ OwnFolders
    BY <2>4 DEF Init, AtPeace, CurrentStored, OwnFolders, Belongs, Kept
  <2>6. Relies
    BY <2>1 DEF Relies, ReliesOn, Opens
  <2>7. QED
    BY <2>2, <2>3, <2>5, <2>6 DEF Data
<1>2. Init => Shell
  BY ShellInit
<1>3. Shell /\ NoClash /\ LibrarySynced /\ Data => WorkspaceInv
  BY DEF Shell, Data, WorkspaceInv
<1>4. QED
  BY <1>1, <1>2, <1>3, TypesKept, ShellStep, NoClashStep, LibraryStep, DataStep, PTL DEF Spec

(* A project folder only ever holds what was made for that project, and a   *)
(* block goes where the dialog said, for any number of projects, threads    *)
(* and failures, as long as no two calls clash.                             *)
THEOREM FoldersKeepTheirOwn == Spec => []OwnData
<1>1. WorkspaceInv => OwnData
  BY DEF WorkspaceInv, OwnFolders, OwnFolder, OwnData, NoDev
<1>2. QED
  BY <1>1, WorkspaceInvariant, PTL

(* With nothing under way and everything saved, memory is what the folder   *)
(* of the current project has, in every domain.                             *)
THEOREM SavedWholly == Spec => []SavedIsWhole
<1>1. WorkspaceInv => SavedIsWhole
  <2> SUFFICES ASSUME WorkspaceInv, AtRest, ~mixed, ~half, ~touched, cur # None
               PROVE  /\ dev = disk[cur].dev
                      /\ \A x \in Pages : graph[x] \in {disk[cur].graph[x], None}
                      /\ libdir = cur /\ blocks = disk[cur].blocks
    BY DEF SavedIsWhole
  <2>1. \A i \in Slots : task[i].at = "idle"
    BY DEF AtRest, InFlight
  <2>2. Settled /\ ~Unsaved({"device"}) /\ ~Unsaved({"device", "graph"})
    BY <2>1 DEF Settled, Replacing, At, Unsaved
  <2>3. libdir = cur /\ Kept
    BY <2>2 DEF WorkspaceInv, AtPeace
  <2>4. QED
    BY <2>2, <2>3 DEF Kept, GraphFrom, WorkspaceInv, LibrarySynced
<1>2. QED
  BY <1>1, WorkspaceInvariant, PTL
=============================================================================

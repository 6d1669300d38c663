------------------------------- MODULE Workspace -------------------------------
(***************************************************************************)
(* The open project: the launcher and the shell that ask for it             *)
(* (veri-ide/web/src/project/ProjectProvider.tsx, pages/HomePage.tsx,       *)
(* components/IdeShell.tsx) and the back end that keeps it                  *)
(* (backend/project/workspace.py).                                          *)
(*                                                                         *)
(* The back end has one device model, one set of pages and one block store  *)
(* for the whole process; open, save and close are plain functions run on a *)
(* pool of threads, so their steps interleave.  Data carries the project it *)
(* was made for, and the device model a revision besides; Mixed is data     *)
(* edited under the title of another project.                               *)
(*                                                                         *)
(* A handler of the page is a task: its call, then the call of refresh, and *)
(* then what it does after.                                                 *)
(***************************************************************************)
EXTENDS Integers, FiniteSets

CONSTANTS
  Projects,   \* bound: the project folders there can be
  First,      \* the folder that is a project from the beginning
  None,       \* no project
  Mixed,      \* owner of data edited under another project's title
  Pages,      \* bound: the page ids
  FirstPage,  \* the page a new project is given
  MaxSlots,   \* bound: calls in flight at once
  MaxCalls,   \* bound: what the engineer asks of the back end
  MaxFaults   \* bound: files that cannot be read, and refreshes that fail

ASSUME WorkspaceAssumption ==
  /\ First \in Projects /\ FirstPage \in Pages
  /\ None \notin Projects /\ Mixed \notin Projects \cup {None}
  /\ MaxSlots \in Nat /\ MaxCalls \in Nat /\ MaxFaults \in Nat

Slots  == 1 .. MaxSlots

VARIABLES
  disk,     \* the folders
  dev,      \* the device model
  graph,    \* the pages: who made each, None for no page
  blocks,   \* the project blocks of the library
  libdir,   \* the project whose blocks folder the library uses
  cur,      \* _CURRENT
  user,     \* the blocks of the user library
  recent,   \* recent.json
  shown,    \* LauncherState as the page has it
  view,     \* "home" or "stage" (any of the other pages)
  panel,    \* the launcher's dialog
  task,     \* handlers under way
  calls,    \* calls started so far
  faults,   \* failures so far
  half,     \* history: an open failed after it had replaced a model
  mixed,    \* history: see Clashes; or a half-opened project was saved
  behind,   \* history: handlers overlapped, or a refresh failed, since the last
            \* refresh of a handler that was alone
  touched   \* history: an edit was served since the models were saved or loaded

server == <<disk, dev, graph, blocks, libdir, cur, user, recent>>
client == <<shown, view, panel>>
hist   == <<half, mixed, behind, touched>>
vars   == <<server, client, task, calls, faults, hist>>

NoDev     == [of |-> None, rev |-> 0]
NoPages   == [x \in Pages |-> None]

(* A folder of the disk and how each writer leaves it. *)
Folder(m, d, g, b) == [made |-> m, dev |-> d, graph |-> g, blocks |-> b]
NoFolder == Folder(FALSE, NoDev, NoPages, {})
WithDev(f, d)    == Folder(f.made, d, f.graph, f.blocks)
WithGraph(f, g)  == Folder(f.made, f.dev, g, f.blocks)
WithBlocks(f, b) == Folder(f.made, f.dev, f.graph, b)

Panel(kind, busy) == [kind |-> kind, busy |-> busy]
NoPanel == Panel("none", FALSE)

(* A handler under way: where it is, what it asked for, what its refresh was
   told, whether it was never in flight with another, and whether the open
   dialog is its own. *)
Task(at, op, p, seen, list, alone, mine) ==
  [at |-> at, op |-> op, p |-> p, seen |-> seen, list |-> list,
   alone |-> alone, mine |-> mine]
Idle == Task("idle", "refresh", None, None, {}, FALSE, FALSE)
Moved(t, at)  == Task(at, t.op, t.p, t.seen, t.list, t.alone, t.mine)
Told(t, c, l) == Task("land", t.op, t.p, c, l, t.alone, t.mine)
Saving(t, c)  == Task("device", t.op, c, t.seen, t.list, t.alone, t.mine)
Joined(t)     == Task(t.at, t.op, t.p, t.seen, t.list, FALSE, t.mine)
Left(t)       == Task(t.at, t.op, t.p, t.seen, t.list, t.alone, FALSE)

InFlight == {i \in Slots : task[i].at # "idle"}

-----------------------------------------------------------------------------
(* The back end: one step of the thread that serves the call of task i. *)

At(i, op, at) == task[i].op \in op /\ task[i].at = at
Goes(i, at) == task' = [task EXCEPT ![i] = Moved(task[i], at)]
Page == UNCHANGED <<client, calls>>

HasDevice(p) == disk[p].dev # NoDev
HasGraph(p) == disk[p].graph # NoPages
NoStations(p) == [of |-> p, rev |-> 0]
SeedDev(p) == [of |-> p, rev |-> 1]
SeedPages(p) == [x \in Pages |-> IF x = FirstPage THEN p ELSE None]

Opens == {"open", "create"}

(* create_project: the folder must not be there, or be empty. *)
CreateFolder(i) ==
  /\ At(i, {"create"}, "sent")
  /\ IF disk[task[i].p].made
     THEN Goes(i, "refused") /\ UNCHANGED disk
     ELSE Goes(i, "open") /\ disk' = [disk EXCEPT ![task[i].p] = Folder(TRUE, @.dev, @.graph, @.blocks)]
  /\ UNCHANGED <<dev, graph, blocks, libdir, cur, user, recent, faults, hist>> /\ Page

(* open_workspace: only a project can be opened ... *)
OpenChecks(i) ==
  /\ At(i, {"open"}, "sent") \/ At(i, {"create"}, "open")
  /\ LET p == task[i].p IN
     Goes(i, IF ~disk[p].made THEN "refused"
             ELSE IF HasDevice(p) \/ HasGraph(p) THEN "device" ELSE "seed")
  /\ UNCHANGED <<server, faults, hist>> /\ Page

(* ... one without data is given a station and a page ... *)
Seed(i) ==
  /\ At(i, Opens, "seed")
  /\ LET p == task[i].p IN
     /\ dev' = SeedDev(p)
     /\ graph' = SeedPages(p)
     /\ disk' = [disk EXCEPT ![p] = Folder(@.made, SeedDev(p),
                   [x \in Pages |-> IF x = FirstPage THEN p ELSE disk[p].graph[x]], @.blocks)]
  /\ Goes(i, "device")
  /\ UNCHANGED <<blocks, libdir, cur, user, recent, faults, hist>> /\ Page

(* ... then the models are replaced one after the other ... *)
OpenDevice(i) ==
  /\ At(i, Opens, "device")
  /\ LET p == task[i].p IN dev' = IF HasDevice(p) THEN disk[p].dev ELSE NoStations(p)
  /\ Goes(i, "graph")
  /\ UNCHANGED <<disk, graph, blocks, libdir, cur, user, recent, faults, hist>> /\ Page

(* Mutant of OpenGraph: pages that the folder does not have stay. *)
OpenGraphMerges(i) ==
  /\ At(i, Opens, "graph")
  /\ LET p == task[i].p IN
     graph' = [x \in Pages |-> IF disk[p].graph[x] # None THEN disk[p].graph[x]
                               ELSE graph[x]]
  /\ Goes(i, "library")
  /\ UNCHANGED <<disk, dev, blocks, libdir, cur, user, recent, faults, hist>> /\ Page

OpenGraph(i) ==
  /\ At(i, Opens, "graph")
  /\ LET p == task[i].p IN graph' = IF HasGraph(p) THEN disk[p].graph ELSE SeedPages(p)
  /\ Goes(i, "library")
  /\ UNCHANGED <<disk, dev, blocks, libdir, cur, user, recent, faults, hist>> /\ Page

(* ... a file that cannot be read ends it there, with what was replaced ... *)
OpenFails(i) ==
  /\ task[i].op \in Opens /\ task[i].at \in {"device", "graph"}
  /\ faults < MaxFaults
  /\ faults' = faults + 1
  /\ Goes(i, "refused")
  /\ half' = (half \/ (cur # task[i].p /\ dev.of = task[i].p))
  /\ UNCHANGED <<server, mixed, behind, touched>> /\ Page

(* ... the library follows, and only then is it the current project. *)
OpenLibrary(i) ==
  /\ At(i, Opens, "library")
  /\ libdir' = task[i].p
  /\ blocks' = disk[task[i].p].blocks
  /\ Goes(i, "current")
  /\ UNCHANGED <<disk, dev, graph, cur, user, recent, faults, hist>> /\ Page

OpenCurrent(i) ==
  /\ At(i, Opens, "current")
  /\ cur' = task[i].p
  /\ recent' = recent \cup {task[i].p}
  /\ Goes(i, "served")
  /\ half' = FALSE /\ touched' = FALSE
  /\ UNCHANGED <<disk, dev, graph, blocks, libdir, user, faults, mixed, behind>> /\ Page

(* save_workspace: the folder of the current project, then model by model. *)
SaveStarts(i) ==
  /\ At(i, {"save"}, "sent")
  /\ IF cur = None THEN Goes(i, "refused") /\ UNCHANGED <<mixed, touched>>
     ELSE /\ task' = [task EXCEPT ![i] = Saving(task[i], cur)]
          /\ touched' = FALSE
          /\ mixed' = (mixed \/ half)
  /\ UNCHANGED <<server, faults, half, behind>> /\ Page

SaveDevice(i) ==
  /\ At(i, {"save"}, "device")
  /\ disk' = [disk EXCEPT ![task[i].p] = WithDev(@, dev)]
  /\ Goes(i, "graph")
  /\ UNCHANGED <<dev, graph, blocks, libdir, cur, user, recent, faults, hist>> /\ Page

(* Mutant of SaveGraph: only pages that have a file are written. *)
SaveGraphKnown(i) ==
  /\ At(i, {"save"}, "graph")
  /\ LET old == disk[task[i].p].graph IN
     disk' = [disk EXCEPT ![task[i].p] = WithGraph(@,
       [x \in Pages |-> IF old[x] # None /\ graph[x] # None THEN graph[x] ELSE old[x]])]
  /\ Goes(i, "library")
  /\ UNCHANGED <<dev, graph, blocks, libdir, cur, user, recent, faults, hist>> /\ Page

(* One file per page; the file of a page that was deleted stays. *)
SaveGraph(i) ==
  /\ At(i, {"save"}, "graph")
  /\ LET old == disk[task[i].p].graph IN
     disk' = [disk EXCEPT ![task[i].p] = WithGraph(@,
       [x \in Pages |-> IF graph[x] # None THEN graph[x] ELSE old[x]])]
  /\ Goes(i, "library")
  /\ UNCHANGED <<dev, graph, blocks, libdir, cur, user, recent, faults, hist>> /\ Page

(* save_project_blocks: into the folder the library uses by now. *)
SaveBlocks(i) ==
  /\ At(i, {"save"}, "library")
  /\ LET p == IF libdir = None THEN task[i].p ELSE libdir IN
     /\ disk' = [disk EXCEPT ![p] = WithBlocks(@, disk[p].blocks \cup blocks)]
     /\ libdir' = p
     /\ blocks' = disk[p].blocks \cup blocks
  /\ Goes(i, "current")
  /\ UNCHANGED <<dev, graph, cur, user, recent, faults, hist>> /\ Page

(* The answer describes the project that is current by then. *)
SaveEnds(i) ==
  /\ At(i, {"save"}, "current")
  /\ recent' = recent \cup {task[i].p}
  /\ Goes(i, IF cur = None THEN "refused" ELSE "served")
  /\ UNCHANGED <<disk, dev, graph, blocks, libdir, cur, user, faults, hist>> /\ Page

(* close_workspace: the models stay as they are. *)
CloseCurrent(i) ==
  /\ At(i, {"close"}, "sent")
  /\ cur' = None
  /\ Goes(i, IF cur = None THEN "served" ELSE "library")
  /\ UNCHANGED <<disk, dev, graph, blocks, libdir, user, recent, faults, hist>> /\ Page

CloseLibrary(i) ==
  /\ At(i, {"close"}, "library")
  /\ libdir' = None
  /\ blocks' = {}
  /\ Goes(i, "served")
  /\ UNCHANGED <<disk, dev, graph, cur, user, recent, faults, hist>> /\ Page

ForgetProject(i) ==
  /\ At(i, {"forget"}, "sent")
  /\ recent' = recent \ {task[i].p}
  /\ Goes(i, "served")
  /\ UNCHANGED <<disk, dev, graph, blocks, libdir, cur, user, faults, hist>> /\ Page

(* add_block: into the project's folder, or the user library without one. *)
AddBlock(i) ==
  /\ At(i, {"block"}, "sent")
  /\ IF libdir = None
     THEN user' = user \cup {task[i].p} /\ UNCHANGED <<disk, blocks>>
     ELSE /\ disk' = [disk EXCEPT ![libdir] = WithBlocks(@, disk[libdir].blocks \cup {task[i].p})]
          /\ blocks' = disk[libdir].blocks \cup {task[i].p}
          /\ UNCHANGED user
  /\ Goes(i, "served")
  /\ UNCHANGED <<dev, graph, libdir, cur, recent, faults, hist>> /\ Page

(* A stage page changes a model, under the title the shell shows. *)
EditModel(i) ==
  /\ At(i, {"edit"}, "sent")
  /\ \/ /\ dev' = [of |-> IF dev.of = task[i].p THEN dev.of ELSE Mixed, rev |-> dev.rev + 1]
        /\ UNCHANGED graph
     \/ /\ \E x \in Pages : graph[x] # task[i].p /\ graph' = [graph EXCEPT ![x] = task[i].p]
        /\ UNCHANGED dev
     \/ /\ \E x \in Pages : /\ graph[x] # None
                            /\ \E y \in Pages \ {x} : graph[y] # None
                            /\ graph' = [graph EXCEPT ![x] = None]
        /\ UNCHANGED dev
  /\ task' = [task EXCEPT ![i] = Idle]
  /\ touched' = TRUE
  /\ UNCHANGED <<disk, blocks, libdir, cur, user, recent, faults, half, mixed, behind>> /\ Page

(* launcher_state *)
ReadState(i) ==
  /\ task[i].at = "state"
  /\ task' = [task EXCEPT ![i] = Told(task[i], cur, recent)]
  /\ UNCHANGED <<server, faults, hist>> /\ Page

-----------------------------------------------------------------------------
(* The launcher and the shell. *)

(* Two calls that must not be under way together if each project is to keep its
   own data: one replaces the models or the library folder, the other uses them. *)
Lifecycle == {"open", "create", "close"}
Uses == Lifecycle \cup {"save", "block", "edit"}
Clashes(op1, op2) ==
  \/ op1 \in Lifecycle /\ op2 \in Uses
  \/ op2 \in Lifecycle /\ op1 \in Uses

Ask(op, p, mine) ==
  /\ calls < MaxCalls
  /\ calls' = calls + 1
  /\ \E i \in Slots \ InFlight :
       /\ \A j \in Slots \ InFlight : i <= j
       /\ task' = [j \in Slots |->
            IF j = i THEN Task("sent", op, p, None, {}, InFlight = {}, mine)
            ELSE Joined(task[j])]
  /\ behind' = (behind \/ InFlight # {})
  /\ mixed' = (mixed \/ (behind /\ op \in Uses)
                     \/ \E j \in InFlight : Clashes(op, task[j].op))
  /\ UNCHANGED <<server, faults, half, touched>>

(* The launcher's dialogs, from its tiles and the File menu, while one of them
   can still be submitted. *)
OpenPanel(kind) ==
  /\ calls < MaxCalls
  /\ view' = "home"
  /\ panel' = Panel(kind, FALSE)
  /\ kind # panel.kind
  /\ task' = [i \in Slots |-> Left(task[i])]
  /\ UNCHANGED <<server, shown, calls, faults, hist>>

(* submit of the dialogs: a project that is there or not, any name. *)
SubmitNew(p) ==
  /\ panel = Panel("create", FALSE)
  /\ panel' = Panel("create", TRUE)
  /\ Ask("create", p, TRUE)
  /\ UNCHANGED <<shown, view>>

SubmitOpen(p) ==
  /\ panel = Panel("open", FALSE)
  /\ panel' = Panel("open", TRUE)
  /\ Ask("open", p, TRUE)
  /\ UNCHANGED <<shown, view>>

(* The dialog names the folder of the project shown, or the user library. *)
SubmitBlock ==
  /\ panel = Panel("block", FALSE)
  /\ panel' = Panel("block", TRUE)
  /\ Ask("block", shown.cur, TRUE)
  /\ UNCHANGED <<shown, view>>

(* A row of the recent list: its folder must be there; the cross forgets it. *)
OpenRecent(p) ==
  /\ view = "home" /\ panel = NoPanel
  /\ p \in shown.recent /\ disk[p].made
  /\ Ask("open", p, FALSE)
  /\ UNCHANGED client

ForgetRecent(p) ==
  /\ view = "home" /\ panel = NoPanel
  /\ p \in shown.recent
  /\ Ask("forget", p, FALSE)
  /\ UNCHANGED client

(* File > Save and File > Close, with a project shown. *)
handleSave ==
  /\ shown.cur # None
  /\ Ask("save", None, FALSE)
  /\ UNCHANGED client

handleClose ==
  /\ shown.cur # None
  /\ Ask("close", None, FALSE)
  /\ UNCHANGED client

(* RequireProject lets a stage page render, and edit, under a project only. *)
StageEdit ==
  /\ view = "stage" /\ shown.cur # None
  /\ Ask("edit", shown.cur, FALSE)
  /\ UNCHANGED client

(* The activity bar; its stage entries need a project. *)
Navigate(to) ==
  /\ to # view
  /\ to = "stage" => shown.cur # None
  /\ view' = to
  /\ panel' = NoPanel
  /\ task' = [i \in Slots |-> Left(task[i])]
  /\ UNCHANGED <<server, shown, calls, faults, hist>>

(* Mutant of Answered: forgetting a project ends without a refresh. *)
AnsweredNoRefresh(i) ==
  /\ task[i].at = "served"
  /\ IF task[i].op = "forget" THEN task' = [task EXCEPT ![i] = Idle] ELSE Goes(i, "state")
  /\ UNCHANGED <<server, client, calls, faults, hist>>

(* create, open, save, close, forget: a call that worked is followed by refresh;
   one that did not is reported, and frees its dialog's button. *)
Answered(i) ==
  /\ task[i].at = "served"
  /\ Goes(i, "state")
  /\ UNCHANGED <<server, client, calls, faults, hist>>

Rejected(i) ==
  /\ task[i].at = "refused"
  /\ panel' = IF task[i].mine THEN Panel(panel.kind, FALSE) ELSE panel
  /\ task' = [task EXCEPT ![i] = Idle]
  /\ UNCHANGED <<server, shown, view, calls, faults, hist>>

(* After refresh: a project that was opened is shown on the device page, a block
   on the library page; a closed one leads back to the launcher. *)
After(i) ==
  /\ task' = [j \in Slots |->
                IF j = i THEN Idle
                ELSE IF task[i].op \in Opens \cup {"block", "close"}
                     THEN Left(task[j]) ELSE task[j]]
  /\ view' = IF task[i].op \in Opens \cup {"block"} THEN "stage"
             ELSE IF task[i].op = "close" THEN "home" ELSE view
  /\ panel' = IF view' = "stage" THEN NoPanel ELSE panel
  /\ UNCHANGED <<server, calls>>

Land(i) ==
  /\ task[i].at = "land"
  /\ shown' = [cur |-> task[i].seen, recent |-> task[i].list]
  /\ behind' = (behind /\ ~task[i].alone)
  /\ After(i)
  /\ UNCHANGED <<faults, half, mixed, touched>>

(* refresh swallows its own failure. *)
RefreshFails(i) ==
  /\ task[i].at = "state"
  /\ faults < MaxFaults
  /\ faults' = faults + 1
  /\ behind' = TRUE
  /\ After(i)
  /\ UNCHANGED <<shown, half, mixed, touched>>

-----------------------------------------------------------------------------
(* The shell has just been mounted and asks for the state. *)
Init ==
  /\ disk = [p \in Projects |->
       IF p = First THEN Folder(TRUE, SeedDev(p), SeedPages(p), {}) ELSE NoFolder]
  /\ dev = NoDev /\ graph = NoPages /\ blocks = {}
  /\ libdir = None /\ cur = None /\ user = {} /\ recent = {First}
  /\ shown = [cur |-> None, recent |-> {}]
  /\ view = "home" /\ panel = NoPanel
  /\ task = [i \in Slots |-> IF i = 1 THEN Task("state", "refresh", None, None, {}, TRUE, FALSE)
                             ELSE Idle]
  /\ calls = 0 /\ faults = 0
  /\ half = FALSE /\ mixed = FALSE /\ behind = TRUE /\ touched = FALSE

Engineer ==
  \/ \E kind \in {"none", "create", "open", "block"} : OpenPanel(kind)
  \/ \E p \in Projects : SubmitNew(p) \/ SubmitOpen(p) \/ OpenRecent(p) \/ ForgetRecent(p)
  \/ SubmitBlock
  \/ handleSave \/ handleClose
  \/ StageEdit
  \/ \E to \in {"home", "stage"} : Navigate(to)

Serve(i) ==
  \/ CreateFolder(i) \/ OpenChecks(i) \/ Seed(i) \/ OpenDevice(i) \/ OpenGraph(i)
  \/ OpenFails(i) \/ OpenLibrary(i) \/ OpenCurrent(i)
  \/ SaveStarts(i) \/ SaveDevice(i) \/ SaveGraph(i) \/ SaveBlocks(i) \/ SaveEnds(i)
  \/ CloseCurrent(i) \/ CloseLibrary(i) \/ ForgetProject(i) \/ AddBlock(i)
  \/ EditModel(i) \/ ReadState(i)

Handle(i) == Answered(i) \/ Rejected(i) \/ Land(i) \/ RefreshFails(i)

Next == Engineer \/ \E i \in Slots : Serve(i) \/ Handle(i)

Spec == Init /\ [][Next]_vars

-----------------------------------------------------------------------------
AtRest == InFlight = {}

(* A handler that was never in flight with another is the only one, and its
   refresh is told what is there when it lands. *)
Alone ==
  /\ \A i, j \in Slots : task[i].at # "idle" /\ task[i].alone /\ j # i => task[j].at = "idle"
  /\ ~behind => \A i \in InFlight : task[i].alone
  /\ \A i \in Slots : task[i].at = "land" /\ task[i].alone =>
                        task[i].seen = cur /\ task[i].list = recent
  /\ \A i \in Slots : /\ task[i].op = "save" /\ task[i].alone
                        /\ task[i].at \in {"device", "graph", "library", "current"}
                        => cur # None

(* The call of a task has changed what launcher_state tells; a call of the life
   cycle has changed the current project. *)
Past(i) == task[i].at \in {"served", "state", "land"} \/ At(i, {"close"}, "library")
Turned(i) == Past(i) /\ task[i].op \in Lifecycle

(* The shell shows what was there before the handler under way changed it. *)
Mirrored ==
  ~behind => /\ (\A i \in Slots : ~Turned(i)) => shown.cur = cur
             /\ (\A i \in Slots : ~Past(i)) => shown.recent = recent

(* Calls that clash are not under way together. *)
NoClash ==
  ~mixed => \A i, j \in InFlight : i # j => ~Clashes(task[i].op, task[j].op)

(* The library's blocks are those of the folder it uses. *)
LibrarySynced == blocks = IF libdir = None THEN {} ELSE disk[libdir].blocks

-----------------------------------------------------------------------------
(* What memory and the folders know of each other while no call has clashed. *)

GraphOf(p) == \A x \in Pages : graph[x] \in {p, None}
GraphFrom(p) == \A x \in Pages : graph[x] \in {disk[p].graph[x], None}
FreshFrom(p) == dev = disk[p].dev /\ GraphFrom(p)

(* A folder has both models or neither, and they are its own. *)
OwnFolder(p) ==
  /\ disk[p].dev = NoDev \/ disk[p].dev.of = p
  /\ \A x \in Pages : disk[p].graph[x] \in {p, None}
  /\ disk[p].blocks \subseteq {p}
  /\ HasDevice(p) <=> HasGraph(p)

(* An open, or a close, has replaced some of what the current project uses. *)
Replacing(i) ==
  \/ task[i].op \in Opens /\ task[i].at \in {"device", "graph", "library", "current"}
  \/ At(i, {"close"}, "library")
Settled == \A i \in Slots : ~Replacing(i)

(* Memory belongs to the current project. *)
Belongs == cur # None /\ ~half => dev.of = cur /\ GraphOf(cur)

(* Memory is what the folder of the current project has, but for what a save
   under way has still to write. *)
Unsaved(at) == \E i \in Slots : task[i].op = "save" /\ task[i].at \in at
Kept ==
  cur # None /\ ~half /\ ~touched =>
    /\ Unsaved({"device"}) \/ dev = disk[cur].dev
    /\ Unsaved({"device", "graph"}) \/ GraphFrom(cur)

(* What a call of each kind relies on where it is. *)
Opening(i) ==
  LET p == task[i].p
      at == task[i].at IN
  /\ at \in {"device", "graph", "library", "current"} => HasDevice(p)
  /\ at = "device" => libdir = cur /\ (FreshFrom(p) \/ (Belongs /\ Kept))
  /\ at = "graph" => /\ libdir = cur /\ dev = disk[p].dev
                     /\ cur = p /\ ~half => /\ GraphOf(p)
                                            /\ ~touched => GraphFrom(p)
  /\ at = "library" => FreshFrom(p)
  /\ at = "current" => FreshFrom(p) /\ libdir = p
Closing(i) == task[i].at = "library" => cur = None
Storing(i) ==
  task[i].at \in {"device", "graph", "library", "current"} =>
    task[i].p = cur /\ cur # None /\ ~half
Adding(i) == task[i].at = "sent" => task[i].p = cur
Editing(i) == task[i].at = "sent" => task[i].p = cur /\ cur # None

OwnFolders == ~mixed => (\A p \in Projects : OwnFolder(p)) /\ user \subseteq {None}
CurrentStored == ~mixed /\ cur # None => HasDevice(cur)
AtPeace == ~mixed /\ Settled => libdir = cur /\ Belongs /\ Kept
ReliesOn(i) ==
  /\ task[i].op \in Opens => Opening(i)
  /\ task[i].op = "close" => Closing(i)
  /\ task[i].op = "save" => Storing(i)
  /\ task[i].op = "block" => Adding(i)
  /\ task[i].op = "edit" => Editing(i)
Relies == ~mixed => \A i \in Slots : ReliesOn(i)

(* The inductive invariant of the workspace. *)
WorkspaceInv ==
  /\ Alone /\ Mirrored /\ NoClash /\ LibrarySynced
  /\ OwnFolders /\ CurrentStored /\ AtPeace /\ Relies

-----------------------------------------------------------------------------

(* A project folder only ever holds what was made for that project, and a block
   goes where the dialog said, through failed opens, closes, new folders and
   reopened ones ("every stage page edits a process-wide model",
   backend/project/workspace.py 3).  Excused: calls that clash, because open
   replaces one model after the other before it becomes current; a save after an
   open that failed half-way; and anything asked while the title bar is behind. *)
OwnData ==
  ~mixed =>
    /\ \A p \in Projects :
         /\ disk[p].dev.of \in {p, None}
         /\ \A x \in Pages : disk[p].graph[x] \in {p, None}
         /\ disk[p].blocks \subseteq {p}
    /\ user \subseteq {None}

(* When nothing is under way, memory and folder agree once everything was saved:
   save writes every domain, open reads every domain.  Only a page deleted since
   its file was written is still in the folder.  Excused as above. *)
SavedIsWhole ==
  AtRest /\ ~mixed /\ ~half /\ ~touched /\ cur # None =>
    /\ dev = disk[cur].dev
    /\ \A x \in Pages : graph[x] \in {disk[cur].graph[x], None}
    /\ libdir = cur /\ blocks = disk[cur].blocks

(* "The shell only mirrors that state" (ProjectProvider.tsx 74): when nothing is
   under way the title bar, the route guard and the recent list show the back
   end's project and list, whichever calls were refused.  Excused: handlers that
   overlapped, and a refresh that failed. *)
ShellMirrors ==
  AtRest /\ ~behind => shown = [cur |-> cur, recent |-> recent]
================================================================================

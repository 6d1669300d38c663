-------------------------------- MODULE Library --------------------------------
(***************************************************************************)
(* The library page around the block editor, and the library service it    *)
(* talks to: veri-ide/web/src/pages/LibraryPage.tsx,                        *)
(* components/library/{LibraryListPanel,BlockLibrary}.tsx and               *)
(* backend/library/service.py as the store.                                 *)
(*                                                                         *)
(* Every fetch is a task in a slot: sent, served (in any order), answered   *)
(* (in any order).  A task may be refused without being served, and an      *)
(* answer may be lost after it was.                                         *)
(***************************************************************************)
EXTENDS BlockEditor

CONSTANTS
  Libraries,   \* bound: the libraries there can be
  UserDefault, \* "user-default", the one the page opens with
  MaxSlots,    \* bound: calls in flight at once
  MaxFaults    \* bound: calls that fail for a reason outside the model

ASSUME LibraryAssumption ==
  /\ UserDefault \in Libraries
  /\ MaxSlots \in Nat /\ MaxFaults \in Nat

VARIABLES
  libs,      \* back end: the libraries that exist
  store,     \* back end: the blocks, NoBlock where there is none
  born,      \* back end: ids given out (an id is never given twice)
  selected,  \* the selected library
  listed,    \* the blocks the page holds
  task,      \* calls in flight
  faults,    \* calls that failed so far
  listRaced, \* history: list-changing calls overlapped or one failed since the
             \* list was last fetched on its own
  openRaced, \* history: the same for the calls that load or save the open block
  swapped    \* history: a mounted editor was handed a block it was not opened for

server == <<libs, store, born>>
page   == <<selected, listed>>
races  == <<listRaced, openRaced, swapped>>
vars   == <<editorVars, server, page, task, faults, races>>

NoBlock == [lib |-> UserDefault, doc |-> NewDoc, stamp |-> 0]  \* stamp 0: none
Stored == {id \in Ids : store[id].stamp > 0}
BlockOf(id) == [id |-> id, lib |-> store[id].lib, doc |-> store[id].doc,
                stamp |-> store[id].stamp]

Slots == 1 .. MaxSlots
Call(op, st, id, lib, d, from, alone, got) ==
  [op |-> op, st |-> st, id |-> id, lib |-> lib, doc |-> d, from |-> from,
   alone |-> alone, got |-> got]
Idle == Call("idle", "sent", 0, UserDefault, NewDoc, 0, FALSE, {})
ListOps == {"list", "save", "delete", "drop", "clear"}
OpenOps == {"open", "save"}
Busy(ops) == {i \in Slots : task[i].op \in ops}
Free == {i \in Slots : task[i].op = "idle"}

-----------------------------------------------------------------------------
(* Starting a call. *)

Sent(op, id, lib, d) == Call(op, "sent", id, lib, d, session, FALSE, {})
Lonely(t, alone) == Call(t.op, t.st, t.id, t.lib, t.doc, t.from, alone, t.got)

(* A call in slot i: it and the calls it overlaps are no longer alone. *)
Overlap(op1, op2) ==
  \/ op1 \in ListOps /\ op2 \in ListOps
  \/ op1 \in OpenOps /\ op2 \in OpenOps

Put(i, call) ==
  LET others == {j \in Slots \ {i} : Overlap(call.op, task[j].op)} IN
  task' = [j \in Slots |->
             IF j = i THEN Lonely(call, others = {})
             ELSE Lonely(task[j], task[j].alone /\ j \notin others)]

Send(call) ==
  LET i == CHOOSE j \in Free : \A k \in Free : j <= k IN
  /\ Free # {}
  /\ Put(i, call)
  /\ listRaced' = (listRaced \/ (call.op \in ListOps /\ Busy(ListOps) # {}))
  /\ openRaced' = (openRaced \/ (call.op \in OpenOps /\ Busy(OpenOps) # {}))

Acts ==
  /\ acts < MaxActs
  /\ acts' = acts + 1

(* fetchBlocks for the library selected when the caller was rendered. *)
fetchBlocks(lib) == Sent("list", 0, lib, NewDoc)

-----------------------------------------------------------------------------
(* The library service. *)

Returned(t, st, got) == Call(t.op, st, t.id, t.lib, t.doc, t.from, t.alone, got)
Served(i, got) == task' = [task EXCEPT ![i] = Returned(task[i], "served", got)]
NotFound(i) == task' = [task EXCEPT ![i] = Returned(task[i], "refused", task[i].got)]
Asked(i, op) == task[i].op = op /\ task[i].st = "sent"
Rest == UNCHANGED <<editorVars, page, faults, races>>

(* list_blocks: an unknown library has none. *)
ServeList(i) ==
  /\ Asked(i, "list")
  /\ Served(i, {BlockOf(id) : id \in {b \in Stored : store[b].lib = task[i].lib}})
  /\ UNCHANGED server /\ Rest

ServeOpen(i) ==
  /\ Asked(i, "open")
  /\ IF task[i].id \in Stored THEN Served(i, {BlockOf(task[i].id)}) ELSE NotFound(i)
  /\ UNCHANGED server /\ Rest

(* add_block: a block with the same name, ports and source is returned instead
   of storing another. *)
SameSource(d) == {id \in Stored : /\ store[id].doc.text = d.text
                                  /\ store[id].doc.source = d.source
                                  /\ store[id].doc.ports = d.ports}

Own(d, id) == Doc(id, d.text, d.source, d.choice, d.ports)

ServePost(i) ==
  /\ Asked(i, "save") /\ task[i].id = 0
  /\ LET d == task[i].doc  n == born + 1 IN
     \/ /\ task[i].lib \notin libs
        /\ NotFound(i)
        /\ UNCHANGED server
     \/ /\ task[i].lib \in libs
        /\ SameSource(d) # {}
        /\ \E id \in SameSource(d) : Served(i, {BlockOf(id)})
        /\ UNCHANGED server
     \/ /\ task[i].lib \in libs
        /\ SameSource(d) = {}
        /\ store' = [store EXCEPT ![n] = [lib |-> task[i].lib, doc |-> Own(d, n), stamp |-> 1]]
        /\ born' = n
        /\ Served(i, {[id |-> n, lib |-> task[i].lib, doc |-> Own(d, n), stamp |-> 1]})
        /\ UNCHANGED libs
  /\ Rest

(* update_block: every field of the request, and a new updated_at. *)
ServePut(i) ==
  /\ Asked(i, "save") /\ task[i].id # 0
  /\ LET id == task[i].id
         b == [lib |-> store[id].lib, doc |-> task[i].doc, stamp |-> store[id].stamp + 1]
     IN IF id \in Stored
        THEN /\ store' = [store EXCEPT ![id] = b]
             /\ Served(i, {[id |-> id, lib |-> b.lib, doc |-> b.doc, stamp |-> b.stamp]})
             /\ UNCHANGED <<libs, born>>
        ELSE NotFound(i) /\ UNCHANGED server
  /\ Rest

ServeDelete(i) ==
  /\ Asked(i, "delete")
  /\ IF task[i].id \in Stored
     THEN /\ store' = [store EXCEPT ![task[i].id] = NoBlock]
          /\ Served(i, task[i].got)
          /\ UNCHANGED <<libs, born>>
     ELSE NotFound(i) /\ UNCHANGED server
  /\ Rest

Emptied(lib) == [id \in Ids |-> IF store[id].lib = lib THEN NoBlock ELSE store[id]]

(* clear_library, delete_library: the blocks go with it; clearing a library that
   is not there succeeds, deleting it does not. *)
ServeClear(i) ==
  /\ Asked(i, "clear")
  /\ store' = IF task[i].lib \in libs THEN Emptied(task[i].lib) ELSE store
  /\ Served(i, {})
  /\ UNCHANGED <<libs, born>> /\ Rest

ServeDrop(i) ==
  /\ Asked(i, "drop")
  /\ IF task[i].lib \in libs
     THEN /\ libs' = libs \ {task[i].lib}
          /\ store' = Emptied(task[i].lib)
          /\ Served(i, {})
          /\ UNCHANGED born
     ELSE NotFound(i) /\ UNCHANGED server
  /\ Rest

Serve(i) ==
  \/ ServeList(i) \/ ServeOpen(i) \/ ServePost(i) \/ ServePut(i)
  \/ ServeDelete(i) \/ ServeClear(i) \/ ServeDrop(i)

(* A call that fails: not served, or served and its answer lost. *)
Fail(i) ==
  /\ faults < MaxFaults
  /\ task[i].op # "idle" /\ task[i].st # "refused"
  /\ faults' = faults + 1
  /\ NotFound(i)
  /\ UNCHANGED <<editorVars, server, page, races>>

-----------------------------------------------------------------------------
(* The page.  The editor covers it: it can be used while none is open. *)

(* BlockLibrary shows the listed blocks of the selected library. *)
Visible == {b \in listed : b.lib = selected}

PageAct == ~IsOpen /\ Acts /\ UNCHANGED <<editing, fields, saving, session, history, sim>>

(* Selecting a library runs the effect that fetches its blocks. *)
SelectLibrary(lib) ==
  /\ PageAct
  /\ lib # selected
  /\ selected' = lib
  /\ Send(fetchBlocks(lib))
  /\ UNCHANGED <<server, listed, faults, swapped>>

handleOpenEditor(id) ==
  /\ PageAct
  /\ \E b \in Visible : b.id = id
  /\ Send(Sent("open", id, selected, NewDoc))
  /\ UNCHANGED <<server, page, faults, swapped>>

(* handleDeleteBlock: it will filter the list it was rendered with. *)
handleDeleteBlock(id) ==
  /\ PageAct
  /\ \E b \in Visible : b.id = id
  /\ Send(Call("delete", "sent", id, selected, NewDoc, session, FALSE, listed))
  /\ UNCHANGED <<server, page, faults, swapped>>

handleDelete(lib) ==
  /\ PageAct
  /\ lib \in libs
  /\ Send(Sent("drop", 0, lib, NewDoc))
  /\ UNCHANGED <<server, page, faults, swapped>>

handleClear(lib) ==
  /\ PageAct
  /\ lib \in libs
  /\ Send(Sent("clear", 0, lib, NewDoc))
  /\ UNCHANGED <<server, page, faults, swapped>>

(* handleCreateBlock: a draft without an id, in the editor at once. *)
handleCreateBlock ==
  /\ ~IsOpen
  /\ Acts
  /\ SetEditing([id |-> 0, doc |-> NewDoc, stamp |-> 0])
  /\ UNCHANGED <<saving, edits, server, page, task, faults, races>>

(* Mutant of handleSave: the call is addressed to the first block of the list. *)
handleSaveToFirst ==
  /\ IsOpen
  /\ Acts
  /\ editing.id = 0 =>
       born + Cardinality({i \in Slots : task[i].op = "save" /\ task[i].id = 0}) < MaxBlocks
  /\ saving' = TRUE
  /\ Send(Sent("save", IF editing.id = 0 THEN 0 ELSE 1, selected, doc))
  /\ UNCHANGED <<editing, fields, session, history, sim,
                 server, page, faults, swapped>>

(* handleSave, by the button or Ctrl-S, which no running save holds back. *)
handleSave ==
  /\ IsOpen
  /\ Acts
  /\ editing.id = 0 =>
       born + Cardinality({i \in Slots : task[i].op = "save" /\ task[i].id = 0}) < MaxBlocks
  /\ saving' = TRUE
  /\ Send(Sent("save", editing.id, selected, doc))
  /\ UNCHANGED <<editing, fields, session, history, sim,
                 server, page, faults, swapped>>

Close ==
  /\ IsOpen
  /\ Acts
  /\ handleClose
  /\ UNCHANGED <<session, edits, server, page, task, faults, races>>

-----------------------------------------------------------------------------
(* The answers. *)

Back(i, op) == task[i].op = op /\ task[i].st = "served"
Done(i) == task' = [task EXCEPT ![i] = Idle]

(* No other call of these kinds is in flight. *)
Last(i, ops) == Busy(ops) = {i}

ListAnswer(i) ==
  /\ Back(i, "list")
  /\ listed' = task[i].got
  /\ Done(i)
  /\ listRaced' = IF task[i].alone /\ Last(i, ListOps) THEN task[i].lib # selected ELSE listRaced
  /\ UNCHANGED <<editorVars, server, selected, faults, openRaced, swapped>>

OpenAnswer(i) ==
  /\ Back(i, "open")
  /\ \E b \in task[i].got :
       /\ SetEditing(b)
       /\ swapped' = (swapped \/ (IsOpen /\ b.id # editing.id))
  /\ Done(i)
  /\ openRaced' = IF task[i].alone /\ Last(i, OpenOps) THEN FALSE ELSE openRaced
  /\ UNCHANGED <<saving, edits, acts, server, page, faults, listRaced>>

(* The fetch an answer starts takes the slot of the call it answers. *)
Refetch(i, lib) ==
  /\ Put(i, fetchBlocks(lib))
  /\ listRaced' = (listRaced \/ ~Last(i, ListOps))

(* Mutant of SaveAnswer: the list is not fetched again. *)
SaveAnswerNoRefresh(i) ==
  /\ Back(i, "save")
  /\ \E b \in task[i].got :
       /\ SetEditing(b)
       /\ listed' = {IF l.id = b.id THEN b ELSE l : l \in listed}
       /\ swapped' = (swapped \/ (IsOpen /\ (task[i].from # session
                                               \/ editing.id \notin {0, b.id})))
  /\ saving' = IF IsOpen /\ task[i].from = session THEN FALSE ELSE saving
  /\ Done(i)
  /\ openRaced' = IF task[i].alone /\ Last(i, OpenOps) THEN FALSE ELSE openRaced
  /\ UNCHANGED <<edits, acts, server, selected, faults, listRaced>>

(* handleSaveBlock, answered: the saved block is handed to the editor, opening it
   again if it was closed meanwhile; the list shows it and is fetched again. *)
SaveAnswer(i) ==
  /\ Back(i, "save")
  /\ \E b \in task[i].got :
       /\ SetEditing(b)
       /\ listed' = {IF l.id = b.id THEN b ELSE l : l \in listed}
       /\ swapped' = (swapped \/ (IsOpen /\ (task[i].from # session
                                               \/ editing.id \notin {0, b.id})))
  /\ saving' = IF IsOpen /\ task[i].from = session THEN FALSE ELSE saving
  /\ Refetch(i, task[i].lib)
  /\ openRaced' = IF task[i].alone /\ Last(i, OpenOps) THEN FALSE ELSE openRaced
  /\ UNCHANGED <<edits, acts, server, selected, faults>>

DeleteAnswer(i) ==
  /\ Back(i, "delete")
  /\ listed' = {b \in task[i].got : b.id # task[i].id}
  /\ Done(i)
  /\ UNCHANGED <<editorVars, server, selected, faults, races>>

(* handleClear and handleDelete, answered.  Deleting the selected library goes
   back to user-default, whose blocks the effect fetches, next to the refresh of
   the library that is gone. *)
ClearAnswer(i) ==
  /\ Back(i, "clear")
  /\ Refetch(i, selected)
  /\ UNCHANGED <<editorVars, server, page, faults, openRaced, swapped>>

DropAnswer(i) ==
  /\ Back(i, "drop")
  /\ IF selected = task[i].lib /\ selected # UserDefault
     THEN \E j \in Free :
            /\ selected' = UserDefault
            /\ task' = [k \in Slots |->
                          IF k = i THEN fetchBlocks(selected)
                          ELSE IF k = j THEN fetchBlocks(UserDefault)
                          ELSE Lonely(task[k], FALSE)]
            /\ listRaced' = TRUE
     ELSE /\ Refetch(i, selected)
          /\ UNCHANGED selected
  /\ UNCHANGED <<editorVars, server, listed, faults, openRaced, swapped>>

(* Mutant of Refused: a save that failed clears the unsaved mark too. *)
RefusedClears(i) ==
  /\ task[i].st = "refused"
  /\ Done(i)
  /\ saving' = IF task[i].op = "save" /\ task[i].from = session THEN FALSE ELSE saving
  /\ dirty' = IF task[i].op = "save" /\ task[i].from = session THEN FALSE ELSE dirty
  /\ listRaced' = (listRaced \/ task[i].op \in ListOps)
  /\ openRaced' = (openRaced \/ (task[i].op = "save" /\ task[i].from # session))
  /\ UNCHANGED <<editing, doc, edits, session, history, sim, acts,
                 server, page, faults, swapped>>

(* A call that did not work: nothing changes but the Save button. *)
Refused(i) ==
  /\ task[i].st = "refused"
  /\ Done(i)
  /\ saving' = IF task[i].op = "save" /\ task[i].from = session THEN FALSE ELSE saving
  /\ listRaced' = (listRaced \/ task[i].op \in ListOps)
  /\ openRaced' = (openRaced \/ (task[i].op = "save" /\ task[i].from # session))
  /\ UNCHANGED <<editing, fields, session, history, sim, acts,
                 server, page, faults, swapped>>

Answer(i) ==
  \/ ListAnswer(i) \/ OpenAnswer(i) \/ SaveAnswer(i) \/ DeleteAnswer(i)
  \/ ClearAnswer(i) \/ DropAnswer(i) \/ Refused(i)

-----------------------------------------------------------------------------
(* The page once its first fetch is answered: two blocks in user-default. *)
Init ==
  /\ EditorInit
  /\ libs = Libraries
  /\ store = [id \in Ids |-> IF id <= 2 THEN [lib |-> UserDefault, stamp |-> 1,
                                              doc |-> Doc(id, 0, MaxEdits + id, 0, 0)]
                             ELSE NoBlock]
  /\ born = 2
  /\ selected = UserDefault /\ listed = {BlockOf(id) : id \in Stored}
  /\ task = [i \in Slots |-> Idle]
  /\ faults = 0
  /\ listRaced = FALSE /\ openRaced = FALSE /\ swapped = FALSE

Engineer ==
  \/ \E lib \in Libraries : SelectLibrary(lib) \/ handleDelete(lib) \/ handleClear(lib)
  \/ \E id \in Ids : handleOpenEditor(id) \/ handleDeleteBlock(id)
  \/ handleCreateBlock \/ handleSave \/ Close
  \/ EditorAct /\ UNCHANGED <<server, page, task, faults, races>>

(* A run of a block that is not stored is refused. *)
Runner ==
  /\ \E ok \in BOOLEAN : (ok => editing.id # 0) /\ RunAnswer(ok)
  /\ UNCHANGED <<server, page, task, faults, races>>

Timer == Debounced /\ UNCHANGED <<server, page, task, faults, races>>

Next ==
  \/ Engineer \/ Runner \/ Timer
  \/ \E i \in Slots : Serve(i) \/ Answer(i) \/ Fail(i)

(* The back end serves what it is asked, the browser handles every answer and
   runs its timers; the engineer need not do anything. *)
Fairness ==
  /\ WF_vars(Timer) /\ WF_vars(Runner)
  /\ \A i \in Slots : WF_vars(Serve(i)) /\ WF_vars(Answer(i))

Spec == Init /\ [][Next]_vars /\ Fairness

-----------------------------------------------------------------------------
(* With no list-changing call in flight the page shows exactly the stored blocks
   of the selected library, unless such calls overlapped or one failed since the
   list was last fetched.  About fetchBlocks, handleBlockSaved, handleDeleteBlock
   and the refreshes of LibraryListPanel and BlockLibrary. *)
ListMatches ==
  Busy(ListOps) = {} /\ ~listRaced =>
    Visible = {BlockOf(id) : id \in {b \in Stored : store[b].lib = selected}}

(* An editor that does not show the unsaved mark shows what is stored under its
   block, once no load or save is in flight, unless loads and saves overlapped.
   About handleSave's setDirty(false), the reset effect and handleSaveBlock. *)
EditorCleanIsStored ==
  IsOpen /\ ~dirty /\ Busy(OpenOps) = {} /\ ~openRaced /\ editing.id \in Stored =>
    Content(doc) = Content(store[editing.id].doc)

(* Unless a late answer handed a mounted editor another block, the fields, every
   snapshot undo can restore, and every stored block hold what was made for that
   block alone.  About the history, which lives as long as the mounted editor. *)
UndoStaysInBlock ==
  ~swapped =>
    /\ IsOpen => \A d \in {doc} \cup {hist[i] : i \in DOMAIN hist} : d.of \in {0, editing.id}
    /\ \A id \in Stored : store[id].doc.of \in {0, id}

-----------------------------------------------------------------------------
(* Why they hold. *)

Blocks == [id : Nat \ {0}, lib : Libraries, doc : Docs, stamp : Nat \ {0}]
Calls == [op : ListOps \cup {"open", "idle"}, st : {"sent", "served", "refused"},
          id : Nat, lib : Libraries, doc : Docs, from : Nat, alone : BOOLEAN,
          got : SUBSET Blocks]

StoreTypes ==
  /\ libs \subseteq Libraries /\ born \in Nat
  /\ store \in [Ids -> [lib : Libraries, doc : Docs, stamp : Nat]]

PageTypes ==
  /\ selected \in Libraries /\ listed \subseteq Blocks /\ task \in [Slots -> Calls]
  /\ editing \in [id : Nat \cup {-1}, stamp : Nat] /\ session \in Nat
  /\ listRaced \in BOOLEAN /\ openRaced \in BOOLEAN /\ swapped \in BOOLEAN

(* An id the store has not given out names nothing. *)
Given ==
  /\ \A id \in Ids : id > born => store[id].stamp = 0
  /\ editing.id <= born
  /\ \A i \in Busy(OpenOps) : \A b \in task[i].got : b.id <= born

(* What a block was made for, in the editor, in the store and on the way. *)
MadeFor ==
  ~swapped =>
    /\ IsOpen => /\ doc.of \in {0, editing.id}
                 /\ \A k \in DOMAIN hist : hist[k].of \in {0, editing.id}
    /\ \A id \in Stored : store[id].doc.of \in {0, id}
    /\ \A i \in Slots : task[i].op = "save" => task[i].doc.of \in {0, task[i].id}
    /\ \A i \in Busy(OpenOps) : \A b \in task[i].got : b.doc.of \in {0, b.id}

(* The stamp tells the versions of a block apart. *)
Versions ==
  /\ \A i \in Busy(OpenOps) : \A b \in task[i].got : b.id \in Stored =>
       /\ b.stamp <= store[b.id].stamp
       /\ b.stamp = store[b.id].stamp => b.doc = store[b.id].doc
  /\ IsOpen /\ editing.id \in Stored =>
       /\ editing.stamp <= store[editing.id].stamp
       /\ editing.stamp = store[editing.id].stamp /\ ~dirty =>
            Content(doc) = Content(store[editing.id].doc)

(* What the marks of overlap say of the calls in flight. *)
Solo ==
  /\ \A i, j \in Slots : i # j /\ task[i].alone => ~Overlap(task[i].op, task[j].op)
  /\ ~openRaced => \A i, j \in Busy(OpenOps) : i = j
  /\ ~listRaced => \A i, j \in Busy(ListOps) : i = j

(* A block that nobody else loads or saves arrives as it is stored. *)
Arrives ==
  \A i \in Busy(OpenOps) : task[i].st = "served" /\ (task[i].alone \/ ~openRaced) =>
    \A b \in task[i].got : b.id \in Stored => b.stamp = store[b.id].stamp

(* The editor and the call about its block agree, unless it is marked. *)
Shows ==
  ~openRaced =>
    /\ IsOpen /\ ~dirty /\ editing.id \in Stored =>
         Content(doc) = Content(store[editing.id].doc)
    /\ \A i \in Slots : task[i].op = "open" => editing.id <= 0
    /\ \A i \in Slots : task[i].op = "save" /\ editing.id > 0 =>
         /\ task[i].from = session /\ task[i].id = editing.id
         /\ ~dirty => Content(doc) = Content(task[i].doc)

(* What the page lists, and what the call that changes it will make of it. *)
ListOf(lib) == {BlockOf(id) : id \in {b \in Stored : store[b].lib = lib}}

Fetched ==
  \A i \in Slots :
    task[i].op = "list" /\ task[i].st = "served" /\ (task[i].alone \/ ~listRaced) =>
      task[i].got = ListOf(task[i].lib)

Lists ==
  ~listRaced =>
    /\ Busy(ListOps) = {} => Visible = ListOf(selected)
    /\ \A i \in Slots : task[i].op \in {"list", "save"} => task[i].lib = selected
    /\ \A i \in Slots : task[i].op = "delete" =>
         /\ task[i].got = listed
         /\ task[i].st = "sent" => Visible = ListOf(selected)
         /\ task[i].st = "served" =>
              {b \in Visible : b.id # task[i].id} = ListOf(selected)

(* The inductive invariant of the library page and its editor. *)
LibraryInv ==
  /\ HistoryInv /\ SimInv /\ StoreTypes /\ PageTypes /\ Given /\ MadeFor
  /\ Versions /\ Solo /\ Arrives /\ Shows /\ Fetched /\ Lists
=============================================================================

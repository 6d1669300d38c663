------------------------------ MODULE GraphEditor ------------------------------
(***************************************************************************)
(* The function-chart editor as a client of the back end's page store      *)
(* (veri-ide/web/src/pages/GraphEditorPage.tsx and backend/graph/service.py *)
(* as the store).                                                           *)
(*                                                                         *)
(* A page document is the set of edits applied to it: `patch` numbers every *)
(* edit with the revision it makes, so a document that lost an edit is told *)
(* from one that kept it.  What an edit does to the drawing is in FcSheet.  *)
(*                                                                         *)
(* Every call is a task in a slot: it is sent, the back end serves it (its  *)
(* handlers are plain functions, run on a thread pool: calls in flight are  *)
(* served in any order) and the editor handles the answer when it comes.    *)
(* A handler that awaits several calls moves its task from one to the next. *)
(***************************************************************************)
EXTENDS Integers, FiniteSets

CONSTANTS
  MaxPages,   \* bound: page ids PAGE1 .. PAGE<MaxPages>
  MaxEdits,   \* bound: edits the engineer makes
  MaxSlots,   \* bound: calls in flight at once
  MaxCalls,   \* bound: calls the engineer starts
  MaxFaults   \* bound: calls the back end refuses although it could serve them

ASSUME GraphAssumption ==
  /\ MaxPages \in Nat \ {0}
  /\ MaxEdits \in Nat
  /\ MaxSlots \in Nat /\ MaxCalls \in Nat /\ MaxFaults \in Nat

Pages == 1 .. MaxPages
Slots == 1 .. MaxSlots
Edits == 1 .. MaxEdits
Doc   == SUBSET Edits
Docs  == [Pages -> Doc]
NoDocs == [p \in Pages |-> {}]

VARIABLES
  store,    \* back end: the documents
  index,    \* back end: draw order, 1 for the first page, 0 for none
  pageId,   \* the open page, 0 before the first one is loaded
  page,     \* the document on the sheet
  made,     \* history: the edits made on each page
  dirty,    \* the unsaved mark
  rev,      \* revision of the last edit
  timer,    \* the armed autosave: the document and revision it will send
  task,     \* calls in flight
  calls,    \* calls the engineer started so far
  faults,   \* calls refused for a reason outside the model so far
  landed,   \* history: the edits that ever were in the store
  raced     \* history: calls about one page overlapped, a page was left while
            \* it was marked unsaved, or the id of a deleted page that is still
            \* on the sheet was given to a new page

server == <<store, index, landed>>
sheet  == <<pageId, page, made, dirty, rev, timer>>
vars   == <<server, sheet, task, calls, faults, raced>>

Ops == {"idle", "put", "load", "jump", "add", "close", "renameGet", "renamePut"}
Task == [op : Ops, st : {"sent", "served", "refused"}, page : 0 .. MaxPages,
         doc : Docs, mark : Nat]
Idle == [op |-> "idle", st |-> "sent", page |-> 0, doc |-> NoDocs, mark |-> 0]
NoTimer == [on |-> FALSE, page |-> 0, doc |-> {}, target |-> 0]

-----------------------------------------------------------------------------
(* The page store. *)

Existing == {p \in Pages : index[p] > 0}

(* One call the back end can be asked, sent from slot i. *)
Sent(op, p, doc, mark) ==
  [op |-> op, st |-> "sent", page |-> p, doc |-> doc, mark |-> mark]

Answer(i, st, p, doc) ==
  task' = [task EXCEPT ![i] = [op |-> task[i].op, st |-> st, page |-> p,
                               doc |-> doc, mark |-> task[i].mark]]

(* put_page: a document is stored under its own id; a page that is not in the
   draw order is appended to it, whether it was ever deleted or not. *)
Appended(p) ==
  IF index[p] > 0 THEN index
  ELSE [index EXCEPT ![p] = Cardinality(Existing) + 1]

ServePut(i) ==
  /\ task[i].st = "sent"
  /\ task[i].op \in {"put", "renamePut"}
  /\ store' = [store EXCEPT ![task[i].page] = task[i].doc[task[i].page]]
  /\ index' = Appended(task[i].page)
  /\ landed' = landed \cup task[i].doc[task[i].page]
  /\ Answer(i, "served", task[i].page, task[i].doc)
  /\ UNCHANGED <<sheet, faults, raced>>

(* get_page: the stored document, or 404. *)
ServeGet(i) ==
  /\ task[i].st = "sent"
  /\ task[i].op \in {"load", "jump", "renameGet"}
  /\ IF task[i].page \in Existing
     THEN Answer(i, "served", task[i].page,
                 [NoDocs EXCEPT ![task[i].page] = store[task[i].page]])
     ELSE Answer(i, "refused", task[i].page, NoDocs)
  /\ UNCHANGED <<server, sheet, faults, raced>>

(* add_page: the new id is counted from the number of pages there are, and is
   refused when that page exists. *)
ServeAdd(i) ==
  /\ task[i].st = "sent"
  /\ task[i].op = "add"
  /\ LET p == Cardinality(Existing) + 1 IN
     IF p \in Pages /\ index[p] = 0
     THEN /\ store' = [store EXCEPT ![p] = {}]
          /\ index' = Appended(p)
          /\ Answer(i, "served", p, NoDocs)
          /\ raced' = (raced \/ p = pageId)
          /\ UNCHANGED landed
     ELSE /\ Answer(i, "refused", 0, NoDocs)
          /\ UNCHANGED <<server, raced>>
  /\ UNCHANGED <<sheet, faults>>

(* Mutant of ServeClose: every other page moves up, also those before the one
   deleted. *)
ServeCloseShiftsAll(i) ==
  /\ task[i].st = "sent"
  /\ task[i].op = "close"
  /\ LET p == task[i].page IN
     IF p \in Existing /\ Cardinality(Existing) > 1
     THEN /\ index' = [q \in Pages |-> IF q = p \/ index[q] = 0 THEN 0 ELSE index[q] - 1]
          /\ store' = [store EXCEPT ![p] = {}]
          /\ Answer(i, "served", p, NoDocs)
          /\ UNCHANGED landed
     ELSE /\ Answer(i, "refused", p, NoDocs)
          /\ UNCHANGED server
  /\ UNCHANGED <<sheet, faults, raced>>

(* delete_page: a missing page and the last page are refused; the pages after
   the deleted one move up. *)
ServeClose(i) ==
  /\ task[i].st = "sent"
  /\ task[i].op = "close"
  /\ LET p == task[i].page IN
     IF p \in Existing /\ Cardinality(Existing) > 1
     THEN /\ index' = [q \in Pages |->
                         IF q = p THEN 0
                         ELSE IF index[q] > index[p] THEN index[q] - 1 ELSE index[q]]
          /\ store' = [store EXCEPT ![p] = {}]
          /\ Answer(i, "served", p, NoDocs)
          /\ UNCHANGED landed
     ELSE /\ Answer(i, "refused", p, NoDocs)
          /\ UNCHANGED server
  /\ UNCHANGED <<sheet, faults, raced>>

(* The schema rejects the document, the compiler the chart, or the back end
   does not answer at all. *)
Refuse(i) ==
  /\ task[i].st = "sent"
  /\ task[i].op # "idle"
  /\ faults < MaxFaults
  /\ faults' = faults + 1
  /\ Answer(i, "refused", task[i].page, NoDocs)
  /\ UNCHANGED <<server, sheet, raced>>

Serve(i) ==
  \/ ServePut(i) \/ ServeGet(i) \/ ServeAdd(i) \/ ServeClose(i)

-----------------------------------------------------------------------------
(* Starting a call. *)

About(j, p) == task[j].op # "idle" /\ task[j].page = p

(* Slots are only names for the calls: the first free one is taken. *)
Start(i, op, p, doc, mark) ==
  /\ task[i] = Idle
  /\ \A j \in Slots : j < i => task[j] # Idle
  /\ task' = [task EXCEPT ![i] = Sent(op, p, doc, mark)]

(* Mutant of Arm: a timer that is already pending is taken for the new one. *)
ArmUnlessPending(d, p, doc, target) ==
  timer' = IF d /\ ~timer.on
           THEN [on |-> TRUE, page |-> p, doc |-> doc, target |-> target]
           ELSE NoTimer

(* The autosave effect runs when the document on the sheet changes: it drops
   the timer of the old document and arms one for the new if it is dirty. *)
Arm(d, p, doc, target) ==
  timer' = IF d THEN [on |-> TRUE, page |-> p, doc |-> doc, target |-> target]
           ELSE NoTimer

-----------------------------------------------------------------------------
(* The editor. *)

(* patch: an edit marks the page and retires what was measured before it. *)
Patch ==
  /\ pageId # 0
  /\ rev < MaxEdits
  /\ rev' = rev + 1
  /\ dirty' = TRUE
  /\ page' = page \cup {rev + 1}
  /\ made' = [made EXCEPT ![pageId] = @ \cup {rev + 1}]
  /\ Arm(TRUE, pageId, page \cup {rev + 1}, rev + 1)
  /\ UNCHANGED <<server, pageId, task, faults, raced>>

(* The autosave timer, 350 ms after the last edit. *)
Autosave(i) ==
  /\ timer.on
  /\ Start(i, "put", timer.page, [NoDocs EXCEPT ![timer.page] = timer.doc],
           timer.target)
  /\ timer' = NoTimer
  /\ raced' = (raced \/ \E j \in Slots : About(j, timer.page))
  /\ UNCHANGED <<server, pageId, page, made, dirty, rev, faults>>

(* Mutant of AutosaveAnswer: any answer clears the mark. *)
AutosaveAnswerAny(i) ==
  /\ task[i].op = "put"
  /\ task[i].st # "sent"
  /\ dirty' = IF task[i].st = "served" THEN FALSE ELSE dirty
  /\ task' = [task EXCEPT ![i] = Idle]
  /\ UNCHANGED <<server, pageId, page, made, rev, timer, faults, raced>>

(* Its answer: the mark is cleared only for the revision that was sent. *)
AutosaveAnswer(i) ==
  /\ task[i].op = "put"
  /\ task[i].st # "sent"
  /\ dirty' = IF task[i].st = "served" /\ rev = task[i].mark THEN FALSE ELSE dirty
  /\ task' = [task EXCEPT ![i] = Idle]
  /\ UNCHANGED <<server, pageId, page, made, rev, timer, faults, raced>>

(* PageTabs: one tab per page, on each a cross while there are several, and a
   jump for every other page a cross-page variable is on. *)
TabShown(p) == index[p] > 0
CrossShown(p) == TabShown(p) /\ Cardinality(Existing) > 1

(* A tab: PageTabs.onSelect, then loadPage. *)
SelectTab(i, p) ==
  /\ TabShown(p)
  /\ Start(i, "load", p, NoDocs, pageId)
  /\ dirty' = FALSE
  /\ raced' = (raced \/ dirty \/ \E j \in Slots : About(j, p))
  /\ UNCHANGED <<server, pageId, page, made, rev, timer, faults>>

(* loadPage: the answer replaces the document, whatever was done to it since. *)
LoadAnswer(i) ==
  /\ task[i].op = "load"
  /\ task[i].st # "sent"
  /\ task' = [task EXCEPT ![i] = Idle]
  /\ IF task[i].st = "served"
     THEN /\ pageId' = task[i].page
          /\ page' = task[i].doc[task[i].page]
          /\ Arm(dirty, task[i].page, task[i].doc[task[i].page], rev)
     ELSE UNCHANGED <<pageId, page, timer>>
  /\ UNCHANGED <<server, made, dirty, rev, faults, raced>>

(* jumpTo another page: the document is fetched once to find the element on it
   and once more by loadPage. *)
JumpTo(i, p) ==
  /\ p # pageId
  /\ Start(i, "jump", p, NoDocs, pageId)
  /\ raced' = (raced \/ \E j \in Slots : About(j, p))
  /\ UNCHANGED <<server, sheet, faults>>

(* The handlers that end in a load clear the unsaved mark; the next call of the
   task is the load, or the task is over. *)
ThenLoad(i, p) ==
  /\ dirty' = FALSE
  /\ raced' = (raced \/ dirty \/ (p # 0 /\ \E j \in Slots \ {i} : About(j, p)))
  /\ task' = [task EXCEPT ![i] = IF p = 0 THEN Idle ELSE Sent("load", p, NoDocs, 0)]

Failed(i) ==
  /\ task' = [task EXCEPT ![i] = Idle]
  /\ UNCHANGED <<dirty, raced>>

JumpAnswer(i) ==
  /\ task[i].op = "jump"
  /\ task[i].st # "sent"
  /\ IF task[i].st = "served" THEN ThenLoad(i, task[i].page) ELSE Failed(i)
  /\ UNCHANGED <<server, pageId, page, made, rev, timer, faults>>

NewPage(i) ==
  /\ Start(i, "add", 0, NoDocs, 0)
  /\ UNCHANGED <<server, sheet, faults, raced>>

NewPageAnswer(i) ==
  /\ task[i].op = "add"
  /\ task[i].st # "sent"
  /\ IF task[i].st = "served" THEN ThenLoad(i, task[i].page) ELSE Failed(i)
  /\ UNCHANGED <<server, pageId, page, made, rev, timer, faults>>

(* closePage: the page compared with the deleted one is the page that was open
   at the click. *)
ClosePage(i, p) ==
  /\ CrossShown(p)
  /\ Start(i, "close", p, NoDocs, pageId)
  /\ raced' = (raced \/ \E j \in Slots : About(j, p))
  /\ UNCHANGED <<server, sheet, faults>>

(* rows[0]?.id ?? "" *)
FirstPage ==
  IF \E p \in Pages : index[p] = 1 THEN CHOOSE p \in Pages : index[p] = 1 ELSE 0

ClosePageAnswer(i) ==
  /\ task[i].op = "close"
  /\ task[i].st # "sent"
  /\ IF task[i].st = "served"
     THEN ThenLoad(i, IF task[i].page = task[i].mark THEN FirstPage ELSE 0)
     ELSE Failed(i)
  /\ UNCHANGED <<server, pageId, page, made, rev, timer, faults>>

(* renamePage: the stored document is read and written back with its label. *)
RenamePage(i, p) ==
  /\ TabShown(p)
  /\ Start(i, "renameGet", p, NoDocs, pageId)
  /\ raced' = (raced \/ \E j \in Slots : About(j, p))
  /\ UNCHANGED <<server, sheet, faults>>

(* Mutant of RenameGetAnswer: the document goes back to the page that is open
   by then. *)
RenameGetAnswerToOpen(i) ==
  /\ task[i].op = "renameGet"
  /\ task[i].st # "sent"
  /\ task' = [task EXCEPT ![i] =
                IF task[i].st = "served"
                THEN Sent("renamePut", pageId,
                          [NoDocs EXCEPT ![pageId] = task[i].doc[task[i].page]],
                          task[i].mark)
                ELSE Idle]
  /\ UNCHANGED <<server, sheet, faults, raced>>

RenameGetAnswer(i) ==
  /\ task[i].op = "renameGet"
  /\ task[i].st # "sent"
  /\ task' = [task EXCEPT ![i] =
                IF task[i].st = "served"
                THEN Sent("renamePut", task[i].page, task[i].doc, task[i].mark)
                ELSE Idle]
  /\ UNCHANGED <<server, sheet, faults, raced>>

RenamePutAnswer(i) ==
  /\ task[i].op = "renamePut"
  /\ task[i].st # "sent"
  /\ IF task[i].st = "served"
     THEN ThenLoad(i, IF task[i].page = task[i].mark THEN task[i].page ELSE 0)
     ELSE Failed(i)
  /\ UNCHANGED <<server, pageId, page, made, rev, timer, faults>>

-----------------------------------------------------------------------------

(* The project's first page has been loaded and nothing is measured yet. *)
Init ==
  /\ store = NoDocs
  /\ \E n \in Pages : index = [p \in Pages |-> IF p <= n THEN p ELSE 0]
  /\ pageId = 1 /\ page = {}
  /\ made = NoDocs
  /\ dirty = FALSE /\ rev = 0
  /\ timer = NoTimer
  /\ task = [i \in Slots |-> Idle]
  /\ calls = 0 /\ faults = 0 /\ landed = {} /\ raced = FALSE

Handle(i) ==
  \/ AutosaveAnswer(i) \/ LoadAnswer(i) \/ JumpAnswer(i) \/ NewPageAnswer(i)
  \/ ClosePageAnswer(i) \/ RenameGetAnswer(i) \/ RenamePutAnswer(i)

User(i) ==
  /\ calls < MaxCalls
  /\ calls' = calls + 1
  /\ \/ \E p \in Pages : SelectTab(i, p) \/ JumpTo(i, p) \/ ClosePage(i, p) \/ RenamePage(i, p)
     \/ NewPage(i)

SavesItself(i) == Autosave(i) /\ UNCHANGED calls
Served(i) == Serve(i) /\ UNCHANGED calls
Handled(i) == Handle(i) /\ UNCHANGED calls

Next ==
  \/ Patch /\ UNCHANGED calls
  \/ \E i \in Slots : \/ User(i) \/ SavesItself(i)
                      \/ Served(i) \/ Handled(i) \/ (Refuse(i) /\ UNCHANGED calls)

(* A timer that is armed goes off, a call is answered and the answer handled;
   nothing makes the engineer act. *)
Fairness ==
  /\ WF_vars(\E i \in Slots : SavesItself(i))
  /\ \A i \in Slots : WF_vars(Served(i)) /\ WF_vars(Handled(i))

Spec == Init /\ [][Next]_vars /\ Fairness

-----------------------------------------------------------------------------
(* Properties. *)

SheetOK ==
  /\ store \in Docs /\ made \in Docs
  /\ pageId \in Pages /\ page \in Doc
  /\ rev \in 0 .. MaxEdits

TaskOK ==
  /\ timer \in [on : BOOLEAN, page : 0 .. MaxPages, doc : Doc, target : Nat]
  /\ task \in [Slots -> Task]

OrderOK == index \in [Pages -> Nat]

(* The variables keep their types; in particular a page is always open, however
   pages are deleted, and every document is a set of edits. *)
TypeOK == SheetOK /\ TaskOK /\ OrderOK

(* What is on its way to or from the store is of the page it names. *)
OwnDocs(t) ==
  /\ \A p \in Pages : t.doc[p] \subseteq made[p]
  /\ t.op \notin {"idle", "add"} => t.page \in Pages

InFlightSeparate ==
  /\ \A i \in Slots : OwnDocs(task[i])
  /\ timer.on => timer.page \in Pages /\ timer.doc \subseteq made[timer.page]

(* Whatever is in flight, an edit only ever lands on the page it was made on:
   autosave, rename and load address a document by its own id (put_page,
   renamePage, loadPage), never by the page that happens to be open. *)
PagesSeparate ==
  /\ \A p \in Pages : store[p] \subseteq made[p]
  /\ page \subseteq made[pageId]

(* A page without the unsaved mark is the stored page: the answer to an autosave
   clears the mark only for the revision it carried.  Excepted are a page left
   while marked; calls about one page that overlap, which the back end serves
   in any order, so that the older document may be the one that stays; and a
   page that was deleted under the sheet (closePage whose load of the next page
   fails) and whose id add_page hands out again. *)
CleanIsSaved == ~raced /\ ~dirty /\ index[pageId] > 0 => page = store[pageId]

(* The draw order has no gap and no page twice, whatever deletions, new pages
   and late saves of deleted pages did to it: rows[0] is always a page. *)
OrderCompact ==
  \A n \in 1 .. Cardinality(Existing) : \E p \in Pages :
    /\ index[p] = n
    /\ \A q \in Pages : index[q] = n => q = p

(* Why CleanIsSaved holds, part by part.  The armed autosave is always of the
   document on the sheet, and no autosave carries a later revision. *)
TimerCurrent ==
  /\ timer.on => timer.page = pageId /\ timer.doc = page /\ timer.target = rev
  /\ \A i \in Slots : task[i].op = "put" => task[i].mark <= rev

(* Each page has one call at most; a new page has its id from the answer. *)
NoOverlap ==
  \A i, j \in Slots :
    i # j /\ task[i].op \notin {"idle", "add"} /\ task[j].op \notin {"idle", "add"}
      => task[i].page # task[j].page

(* What was read of the store is still what is stored. *)
Reads(t) ==
  \/ t.op \in {"load", "renameGet"} /\ t.st = "served"
  \/ t.op = "renamePut" /\ t.st # "refused"

ReadsFresh ==
  \A i \in Slots : Reads(task[i]) =>
    index[task[i].page] > 0 /\ task[i].doc[task[i].page] = store[task[i].page]

(* An autosave of the open page carries the sheet, or an edit came after it and
   is still marked, with no autosave of that edit on its way. *)
SavesSheet ==
  \A i \in Slots : task[i].op = "put" /\ task[i].page = pageId =>
    IF task[i].mark = rev
    THEN task[i].st = "sent" => task[i].doc[pageId] = page
    ELSE dirty /\ \A j \in Slots : task[j].op = "put" => task[j].mark # rev

(* While the sheet differs from the store it is marked, and the answer that
   could clear the mark has not come. *)
DiffersMarked ==
  index[pageId] > 0 /\ page # store[pageId] =>
    /\ dirty
    /\ \A i \in Slots : task[i].op = "put" /\ task[i].mark = rev =>
         task[i].page = pageId /\ task[i].st # "served"

Orderly == NoOverlap /\ ReadsFresh /\ SavesSheet /\ DiffersMarked

SaveInv == TimerCurrent /\ (raced \/ Orderly)

(* Why OrderCompact holds: no index beyond the number of pages, none missing,
   none twice. *)
OrderInv ==
  /\ \A p \in Pages : index[p] <= Cardinality(Existing)
  /\ \A n \in 1 .. Cardinality(Existing) : \E p \in Pages : index[p] = n
  /\ \A p, q \in Pages : index[p] > 0 /\ index[p] = index[q] => p = q

(* An edit that stays on the sheet reaches the store, unless a call fails:
   every edit re-arms the autosave, and an armed autosave is sent. *)
EditSettles ==
  \A e \in Edits :
    (e \in page) ~> (e \in landed \/ e \notin page \/ faults > 0)

=============================================================================

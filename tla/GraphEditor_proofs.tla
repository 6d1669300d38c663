-------------------------- MODULE GraphEditor_proofs --------------------------
(***************************************************************************)
(* Proofs about the chart editor, for any number of pages, edits, calls in *)
(* flight and failures: its types, that no edit ever lands on another      *)
(* page, that the draw order has no gap and that a page without the        *)
(* unsaved mark is the stored one.  PagesSeparate is not inductive by      *)
(* itself; what is armed and what is in flight must be of the page it      *)
(* names too.  CleanIsSaved needs SaveInv: what every call about the open  *)
(* page has read or is about to write.                                     *)
(***************************************************************************)
EXTENDS GraphEditor, FiniteSetTheorems, TLAPS

SheetInv  == SheetOK /\ PagesSeparate
TimerInv  ==
  /\ timer \in [on : BOOLEAN, page : 0 .. MaxPages, doc : Doc, target : Nat]
  /\ timer.on => timer.page \in Pages /\ timer.doc \subseteq made[timer.page]
FlightInv == task \in [Slots -> Task] /\ \A i \in Slots : OwnDocs(task[i])

Inv == SheetInv /\ TimerInv /\ FlightInv /\ OrderOK

(* Replacing the task of one slot by a task keeps the type. *)
LEMMA PutTask ==
  ASSUME FlightInv, NEW i \in Slots, NEW t \in Task, task' = [task EXCEPT ![i] = t]
  PROVE  /\ task' \in [Slots -> Task]
         /\ \A j \in Slots : task'[j] = IF j = i THEN t ELSE task[j]
BY DEF FlightInv

(* A call as it is sent is a task. *)
LEMMA SentTask ==
  ASSUME NEW op \in Ops, NEW p \in 0 .. MaxPages, NEW doc \in Docs, NEW mark \in Nat
  PROVE  Sent(op, p, doc, mark) \in Task
BY DEF Sent, Task

LEMMA IdleTask == NoDocs \in Docs /\ Idle \in Task
<1>1. NoDocs \in Docs
  BY DEF NoDocs, Docs, Doc
<1>2. 0 \in 0 .. MaxPages
  BY GraphAssumption
<1>3. QED
  BY <1>1, <1>2 DEF Idle, Task, Ops

(* One page's document, alone. *)
LEMMA OneDoc ==
  ASSUME NEW p \in Pages, NEW d \in Doc
  PROVE  /\ [NoDocs EXCEPT ![p] = d] \in Docs
         /\ [NoDocs EXCEPT ![p] = d][p] = d
         /\ \A q \in Pages \ {p} : [NoDocs EXCEPT ![p] = d][q] = {}
BY DEF NoDocs, Docs, Doc

LEMMA PagesNat == Pages \subseteq 0 .. MaxPages /\ Pages \subseteq Nat /\ IsFiniteSet(Pages)
BY GraphAssumption, FS_Interval DEF Pages

LEMMA ExistingNat == Cardinality(Existing) \in Nat
BY PagesNat, FS_Subset, FS_CardinalityType DEF Existing

(* A task put in a slot that is of the page it names keeps what is in flight. *)
LEMMA PutOwn ==
  ASSUME FlightInv, NEW i \in Slots, NEW t \in Task,
         task' = [task EXCEPT ![i] = t], made' = made, OwnDocs(t)
  PROVE  FlightInv'
<1>1. SUFFICES ASSUME NEW j \in Slots PROVE OwnDocs(task[j])'
  BY PutTask DEF FlightInv
<1>2. task'[j] = IF j = i THEN t ELSE task[j]
  BY PutTask
<1>3. OwnDocs(task'[j])
  BY <1>2 DEF FlightInv
<1>4. QED
  BY <1>3 DEF OwnDocs

LEMMA PutIdle ==
  ASSUME FlightInv, NEW i \in Slots, task' = [task EXCEPT ![i] = Idle], made' = made
  PROVE  FlightInv'
<1>1. OwnDocs(Idle)
  BY DEF OwnDocs, Idle, NoDocs
<1>2. QED
  BY <1>1, IdleTask, PutOwn

(* A call that carries no document, or one of its own page. *)
LEMMA PutSent ==
  ASSUME FlightInv, NEW i \in Slots, made' = made,
         NEW op \in Ops, NEW p \in 0 .. MaxPages, NEW doc \in Docs, NEW mark \in Nat,
         task' = [task EXCEPT ![i] = Sent(op, p, doc, mark)],
         \A q \in Pages : doc[q] \subseteq made[q],
         op \in {"idle", "add"} \/ p \in Pages
  PROVE  FlightInv'
<1>1. OwnDocs(Sent(op, p, doc, mark))
  BY DEF OwnDocs, Sent
<1>2. QED
  BY <1>1, SentTask, PutOwn

(* An answer keeps the operation of its call. *)
LEMMA PutAnswer ==
  ASSUME FlightInv, NEW i \in Slots, made' = made,
         NEW st \in {"sent", "served", "refused"}, NEW p \in 0 .. MaxPages,
         NEW doc \in Docs, Answer(i, st, p, doc),
         \A q \in Pages : doc[q] \subseteq made[q],
         task[i].op \in {"idle", "add"} \/ p \in Pages
  PROVE  FlightInv'
<1> DEFINE t == [op |-> task[i].op, st |-> st, page |-> p, doc |-> doc,
                 mark |-> task[i].mark]
<1>1. task[i] \in Task
  BY DEF FlightInv
<1>2. t \in Task
  BY <1>1 DEF Task
<1>3. OwnDocs(t)
  BY DEF OwnDocs
<1>4. QED
  BY <1>2, <1>3, PutOwn DEF Answer

LEMMA NoDocsOwn == \A q \in Pages : NoDocs[q] \subseteq made[q]
BY DEF NoDocs

(* What a step leaves alone keeps its part. *)
LEMMA SheetSame ==
  ASSUME SheetInv, UNCHANGED <<store, pageId, page, made, rev>>
  PROVE  SheetInv'
BY DEF SheetInv, SheetOK, PagesSeparate

LEMMA TimerSame ==
  ASSUME TimerInv, UNCHANGED <<timer, made>>
  PROVE  TimerInv'
BY DEF TimerInv

LEMMA OrderSame ==
  ASSUME OrderOK, UNCHANGED index
  PROVE  OrderOK'
BY DEF OrderOK

LEMMA NoTimerInv ==
  ASSUME timer' = NoTimer
  PROVE  TimerInv'
<1>1. NoTimer \in [on : BOOLEAN, page : 0 .. MaxPages, doc : Doc, target : Nat]
  BY GraphAssumption DEF NoTimer, Doc
<1>2. ~ NoTimer.on
  BY DEF NoTimer
<1>3. QED
  BY <1>1, <1>2 DEF TimerInv

LEMMA ArmInv ==
  ASSUME NEW d, NEW p \in Pages, NEW doc \in Doc, NEW target \in Nat,
         Arm(d, p, doc, target), doc \subseteq made'[p]
  PROVE  TimerInv'
<1> DEFINE T == [on |-> TRUE, page |-> p, doc |-> doc, target |-> target]
<1>1. CASE d
  <2>1. timer' = T
    BY <1>1 DEF Arm
  <2>2. T \in [on : BOOLEAN, page : 0 .. MaxPages, doc : Doc, target : Nat]
    BY PagesNat
  <2>3. QED
    BY <2>1, <2>2 DEF TimerInv
<1>2. CASE ~d
  BY <1>2, NoTimerInv DEF Arm
<1>3. QED
  BY <1>1, <1>2

-----------------------------------------------------------------------------
(* One step per action. *)

LEMMA AppendedOK ==
  ASSUME OrderOK, NEW p \in Pages
  PROVE  Appended(p) \in [Pages -> Nat]
BY ExistingNat DEF OrderOK, Appended

LEMMA PatchStep ==
  ASSUME Inv, Patch
  PROVE  Inv'
<1> USE DEF Inv
<1>1. rev + 1 \in Edits /\ rev' \in 0 .. MaxEdits /\ rev' = rev + 1
  BY GraphAssumption DEF Patch, SheetInv, SheetOK, Edits
<1>2. made' \in Docs /\ made'[pageId] = made[pageId] \cup {rev + 1}
      /\ \A q \in Pages : made[q] \subseteq made'[q]
  BY <1>1 DEF Patch, SheetInv, SheetOK, Docs, Doc
<1>3. page' \in Doc /\ page' = page \cup {rev + 1} /\ page' \subseteq made'[pageId]
  BY <1>1, <1>2 DEF Patch, SheetInv, SheetOK, PagesSeparate, Doc
<1>4. SheetInv'
  BY <1>1, <1>2, <1>3 DEF Patch, SheetInv, SheetOK, PagesSeparate, server
<1>5. TimerInv'
  <2>1. Arm(TRUE, pageId, page', rev + 1)
    BY <1>3 DEF Patch
  <2>2. pageId \in Pages /\ rev + 1 \in Nat
    BY <1>1 DEF SheetInv, SheetOK, Edits
  <2>3. QED
    BY <1>3, <2>1, <2>2, ArmInv
<1>6. FlightInv'
  <2>1. SUFFICES ASSUME NEW j \in Slots PROVE OwnDocs(task[j])'
    BY DEF FlightInv, Patch
  <2>2. OwnDocs(task[j]) /\ task' = task
    BY DEF FlightInv, Patch
  <2>3. QED
    BY <2>2, <1>2 DEF OwnDocs
<1>7. OrderOK'
  BY OrderSame DEF Patch, server
<1>8. QED
  BY <1>4, <1>5, <1>6, <1>7

LEMMA ServePutStep ==
  ASSUME Inv, NEW i \in Slots, ServePut(i)
  PROVE  Inv'
<1> USE DEF Inv
<1>1. task[i] \in Task /\ OwnDocs(task[i]) /\ task[i].op \notin {"idle", "add"}
  BY DEF FlightInv, ServePut
<1>2. task[i].page \in Pages /\ task[i].doc \in Docs
  BY <1>1 DEF OwnDocs, Task
<1>3. \A q \in Pages : task[i].doc[q] \subseteq made[q]
  BY <1>1 DEF OwnDocs
<1>4. UNCHANGED <<pageId, page, made, rev, timer>>
  BY DEF ServePut, sheet
<1>5. SheetInv'
  <2>1. task[i].doc[task[i].page] \in Doc
    BY <1>2 DEF Docs
  <2>2. store' = [store EXCEPT ![task[i].page] = task[i].doc[task[i].page]]
    BY DEF ServePut
  <2>3. store' \in Docs /\ \A q \in Pages : store'[q] \subseteq made[q]
    BY <1>2, <1>3, <2>1, <2>2 DEF SheetInv, SheetOK, PagesSeparate, Docs
  <2>4. QED
    BY <1>4, <2>3 DEF SheetInv, SheetOK, PagesSeparate
<1>6. TimerInv'
  BY <1>4, TimerSame
<1>7. FlightInv'
  <2>1. Answer(i, "served", task[i].page, task[i].doc)
    BY DEF ServePut
  <2>2. QED
    BY <1>2, <1>3, <1>4, <2>1, PagesNat, PutAnswer
<1>8. OrderOK'
  BY <1>2, AppendedOK DEF ServePut, OrderOK
<1>9. QED
  BY <1>5, <1>6, <1>7, <1>8

LEMMA ServeGetStep ==
  ASSUME Inv, NEW i \in Slots, ServeGet(i)
  PROVE  Inv'
<1> USE DEF Inv
<1>1. UNCHANGED <<store, index, pageId, page, made, rev, timer>>
  BY DEF ServeGet, server, sheet
<1>2. SheetInv' /\ TimerInv' /\ OrderOK'
  BY <1>1, SheetSame, TimerSame, OrderSame
<1>3. OwnDocs(task[i]) /\ task[i].op \notin {"idle", "add"}
  BY DEF FlightInv, ServeGet
<1>4. task[i].page \in Pages
  BY <1>3 DEF OwnDocs
<1>5. FlightInv'
  <2>1. CASE task[i].page \in Existing
    <3>1. store[task[i].page] \in Doc /\ store[task[i].page] \subseteq made[task[i].page]
      BY <1>4 DEF SheetInv, SheetOK, PagesSeparate, Docs
    <3> DEFINE d == [NoDocs EXCEPT ![task[i].page] = store[task[i].page]]
    <3>2. d \in Docs /\ \A q \in Pages : d[q] \subseteq made[q]
      BY <1>4, <3>1, OneDoc
    <3>3. Answer(i, "served", task[i].page, d)
      BY <2>1 DEF ServeGet
    <3> HIDE DEF d
    <3>4. QED
      BY <1>1, <1>4, <3>2, <3>3, PagesNat, PutAnswer
  <2>2. CASE task[i].page \notin Existing
    BY <1>1, <1>4, <2>2, PagesNat, IdleTask, NoDocsOwn, PutAnswer DEF ServeGet
  <2>3. QED
    BY <2>1, <2>2
<1>6. QED
  BY <1>2, <1>5

LEMMA ServeAddStep ==
  ASSUME Inv, NEW i \in Slots, ServeAdd(i)
  PROVE  Inv'
<1> USE DEF Inv
<1>1. UNCHANGED <<pageId, page, made, rev, timer>>
  BY DEF ServeAdd, sheet
<1>2. TimerInv'
  BY <1>1, TimerSame
<1> DEFINE p == Cardinality(Existing) + 1
<1>3. CASE p \in Pages /\ index[p] = 0
  <2>1. store' = [store EXCEPT ![p] = {}] /\ index' = Appended(p)
        /\ Answer(i, "served", p, NoDocs)
    BY <1>3 DEF ServeAdd
  <2>2. SheetInv'
    BY <1>1, <1>3, <2>1 DEF SheetInv, SheetOK, PagesSeparate, Docs, Doc
  <2>3. OrderOK'
    BY <1>3, <2>1, AppendedOK DEF OrderOK
  <2>4. FlightInv'
    <3> HIDE DEF p
    <3>1. QED
      BY <1>1, <1>3, <2>1, PagesNat, IdleTask, NoDocsOwn, PutAnswer
  <2>5. QED
    BY <1>2, <2>2, <2>3, <2>4
<1>4. CASE ~(p \in Pages /\ index[p] = 0)
  <2>1. Answer(i, "refused", 0, NoDocs) /\ UNCHANGED <<store, index>>
    BY <1>4 DEF ServeAdd, server
  <2>2. task[i].op = "add"
    BY DEF ServeAdd
  <2>3. 0 \in 0 .. MaxPages
    BY GraphAssumption
  <2>4. FlightInv'
    BY <1>1, <2>1, <2>2, <2>3, IdleTask, NoDocsOwn, PutAnswer
  <2>5. QED
    BY <1>1, <1>2, <2>1, <2>4, SheetSame, OrderSame
<1>5. QED
  BY <1>3, <1>4

LEMMA ServeCloseStep ==
  ASSUME Inv, NEW i \in Slots, ServeClose(i)
  PROVE  Inv'
<1> USE DEF Inv
<1>1. UNCHANGED <<pageId, page, made, rev, timer>>
  BY DEF ServeClose, sheet
<1>2. TimerInv'
  BY <1>1, TimerSame
<1>3. OwnDocs(task[i]) /\ task[i].op = "close"
  BY DEF FlightInv, ServeClose
<1> DEFINE p == task[i].page
<1>4. p \in Pages
  BY <1>3 DEF OwnDocs
<1>5. Answer(i, "served", p, NoDocs) \/ Answer(i, "refused", p, NoDocs)
  BY DEF ServeClose
<1>6. FlightInv'
  BY <1>1, <1>4, <1>5, PagesNat, IdleTask, NoDocsOwn, PutAnswer
<1>7. SheetInv' /\ OrderOK'
  <2>1. CASE p \in Existing /\ Cardinality(Existing) > 1
    <3>1. store' = [store EXCEPT ![p] = {}]
          /\ index' = [q \in Pages |->
                         IF q = p THEN 0
                         ELSE IF index[q] > index[p] THEN index[q] - 1 ELSE index[q]]
      BY <2>1 DEF ServeClose
    <3>2. SheetInv'
      BY <1>1, <1>4, <3>1 DEF SheetInv, SheetOK, PagesSeparate, Docs, Doc
    <3>3. OrderOK'
      BY <1>4, <3>1 DEF OrderOK
    <3>4. QED
      BY <3>2, <3>3
  <2>2. CASE ~(p \in Existing /\ Cardinality(Existing) > 1)
    <3>1. UNCHANGED <<store, index>>
      BY <2>2 DEF ServeClose, server
    <3>2. QED
      BY <1>1, <3>1, SheetSame, OrderSame
  <2>3. QED
    BY <2>1, <2>2
<1>8. QED
  BY <1>2, <1>6, <1>7

LEMMA RefuseStep ==
  ASSUME Inv, NEW i \in Slots, Refuse(i)
  PROVE  Inv'
<1> USE DEF Inv
<1>1. UNCHANGED <<store, index, pageId, page, made, rev, timer>>
  BY DEF Refuse, server, sheet
<1>2. task[i] \in Task /\ OwnDocs(task[i])
  BY DEF FlightInv
<1>3. /\ task[i].page \in 0 .. MaxPages
      /\ task[i].op \in {"idle", "add"} \/ task[i].page \in Pages
  BY <1>2 DEF OwnDocs, Task
<1>4. Answer(i, "refused", task[i].page, NoDocs)
  BY DEF Refuse
<1>5. FlightInv'
  BY <1>1, <1>3, <1>4, IdleTask, NoDocsOwn, PutAnswer
<1>6. QED
  BY <1>1, <1>5, SheetSame, TimerSame, OrderSame

(* A step of the engineer sends a call without a document. *)
LEMMA AskStep ==
  ASSUME Inv, NEW i \in Slots, NEW op \in Ops, NEW p \in 0 .. MaxPages, NEW mark \in Nat,
         Start(i, op, p, NoDocs, mark), op \in {"idle", "add"} \/ p \in Pages,
         UNCHANGED <<store, index, pageId, page, made, rev, timer>>
  PROVE  Inv'
<1> USE DEF Inv
<1>1. task' = [task EXCEPT ![i] = Sent(op, p, NoDocs, mark)]
  BY DEF Start
<1>2. FlightInv'
  BY <1>1, IdleTask, NoDocsOwn, PutSent
<1>3. QED
  BY <1>2, SheetSame, TimerSame, OrderSame

(* The end of a handler: a load follows, or the task is over. *)
LEMMA EndStep ==
  ASSUME Inv, NEW i \in Slots, NEW p \in 0 .. MaxPages,
         ThenLoad(i, p) \/ Failed(i) \/ task' = [task EXCEPT ![i] = Idle],
         UNCHANGED <<store, index, pageId, page, made, rev, timer>>
  PROVE  Inv'
<1> USE DEF Inv
<1>1. CASE task' = [task EXCEPT ![i] = Idle]
  BY <1>1, PutIdle, SheetSame, TimerSame, OrderSame
<1>2. CASE ThenLoad(i, p) /\ p # 0
  <2>1. task' = [task EXCEPT ![i] = Sent("load", p, NoDocs, 0)]
    BY <1>2 DEF ThenLoad
  <2>2. p \in Pages /\ "load" \in Ops
    BY <1>2, GraphAssumption DEF Pages, Ops
  <2>3. FlightInv'
    BY <2>1, <2>2, IdleTask, NoDocsOwn, PutSent
  <2>4. QED
    BY <2>3, SheetSame, TimerSame, OrderSame
<1>3. QED
  BY <1>1, <1>2 DEF ThenLoad, Failed

LEMMA AutosaveStep ==
  ASSUME Inv, NEW i \in Slots, Autosave(i)
  PROVE  Inv'
<1> USE DEF Inv
<1>1. timer.page \in Pages /\ timer.doc \in Doc /\ timer.target \in Nat
      /\ timer.doc \subseteq made[timer.page]
  BY DEF Autosave, TimerInv
<1>2. timer' = NoTimer /\ UNCHANGED <<store, index, pageId, page, made, rev>>
  BY DEF Autosave, server
<1> DEFINE d == [NoDocs EXCEPT ![timer.page] = timer.doc]
<1>3. d \in Docs /\ \A q \in Pages : d[q] \subseteq made[q]
  BY <1>1, OneDoc
<1>4. task' = [task EXCEPT ![i] = Sent("put", timer.page, d, timer.target)]
  BY DEF Autosave, Start
<1>5. "put" \in Ops
  BY DEF Ops
<1>6. FlightInv'
  <2> HIDE DEF d
  <2>1. QED
    BY <1>1, <1>2, <1>3, <1>4, <1>5, PagesNat, PutSent
<1>7. QED
  BY <1>2, <1>6, NoTimerInv, SheetSame, OrderSame

LEMMA LoadAnswerStep ==
  ASSUME Inv, NEW i \in Slots, LoadAnswer(i)
  PROVE  Inv'
<1> USE DEF Inv
<1>1. UNCHANGED <<store, index, made, rev>>
  BY DEF LoadAnswer, server
<1>2. FlightInv'
  BY <1>1, PutIdle DEF LoadAnswer
<1>3. CASE task[i].st = "served"
  <2>1. task[i] \in Task /\ OwnDocs(task[i]) /\ task[i].op \notin {"idle", "add"}
    BY DEF FlightInv, LoadAnswer
  <2> DEFINE p == task[i].page
             d == task[i].doc[p]
  <2>2. p \in Pages
    BY <2>1 DEF OwnDocs
  <2>3. d \in Doc /\ d \subseteq made[p]
    BY <2>1, <2>2 DEF OwnDocs, Task, Docs
  <2>4. pageId' = p /\ page' = d /\ Arm(dirty, p, d, rev)
    BY <1>3 DEF LoadAnswer
  <2> HIDE DEF p, d
  <2>5. SheetInv'
    BY <1>1, <2>2, <2>3, <2>4 DEF SheetInv, SheetOK, PagesSeparate
  <2>6. TimerInv'
    <3>1. rev \in Nat
      BY DEF SheetInv, SheetOK
    <3>2. QED
      BY <1>1, <2>2, <2>3, <2>4, <3>1, ArmInv
  <2>7. QED
    BY <1>1, <1>2, <2>5, <2>6, OrderSame
<1>4. CASE task[i].st # "served"
  BY <1>1, <1>2, <1>4, SheetSame, TimerSame, OrderSame DEF LoadAnswer
<1>5. QED
  BY <1>3, <1>4

LEMMA RenameGetAnswerStep ==
  ASSUME Inv, NEW i \in Slots, RenameGetAnswer(i)
  PROVE  Inv'
<1> USE DEF Inv
<1>1. UNCHANGED <<store, index, pageId, page, made, rev, timer>>
  BY DEF RenameGetAnswer, server, sheet
<1>2. CASE task[i].st = "served"
  <2>1. task[i] \in Task /\ OwnDocs(task[i]) /\ task[i].op \notin {"idle", "add"}
    BY DEF FlightInv, RenameGetAnswer
  <2>2. task[i].page \in Pages /\ task[i].doc \in Docs /\ task[i].mark \in Nat
        /\ \A q \in Pages : task[i].doc[q] \subseteq made[q]
    BY <2>1 DEF OwnDocs, Task
  <2>3. task' = [task EXCEPT ![i] =
                   Sent("renamePut", task[i].page, task[i].doc, task[i].mark)]
    BY <1>2 DEF RenameGetAnswer
  <2>4. "renamePut" \in Ops
    BY DEF Ops
  <2>5. FlightInv'
    BY <1>1, <2>2, <2>3, <2>4, PagesNat, PutSent
  <2>6. QED
    BY <1>1, <2>5, SheetSame, TimerSame, OrderSame
<1>3. CASE task[i].st # "served"
  BY <1>1, <1>3, PutIdle, SheetSame, TimerSame, OrderSame DEF RenameGetAnswer
<1>4. QED
  BY <1>2, <1>3

LEMMA FirstPageType == FirstPage \in 0 .. MaxPages
<1>1. CASE \E p \in Pages : index[p] = 1
  <2>1. FirstPage \in Pages
    BY <1>1 DEF FirstPage
  <2>2. QED
    BY <2>1, PagesNat
<1>2. CASE ~ \E p \in Pages : index[p] = 1
  BY <1>2, GraphAssumption DEF FirstPage
<1>3. QED
  BY <1>1, <1>2

LEMMA HandleStep ==
  ASSUME Inv, NEW i \in Slots, Handle(i)
  PROVE  Inv'
<1> USE DEF Inv
<1>1. task[i] \in Task
  BY DEF FlightInv
<1>2. task[i].page \in 0 .. MaxPages /\ 0 \in 0 .. MaxPages
  BY <1>1, GraphAssumption DEF Task
<1>3. FirstPage \in 0 .. MaxPages
  BY FirstPageType
<1>4. CASE AutosaveAnswer(i)
  BY <1>2, <1>4, EndStep DEF AutosaveAnswer, server
<1>5. CASE LoadAnswer(i)
  BY <1>5, LoadAnswerStep
<1>6. CASE JumpAnswer(i)
  BY <1>2, <1>6, EndStep DEF JumpAnswer, server
<1>7. CASE NewPageAnswer(i)
  BY <1>2, <1>7, EndStep DEF NewPageAnswer, server
<1>8. CASE ClosePageAnswer(i)
  <2> DEFINE p == IF task[i].page = task[i].mark THEN FirstPage ELSE 0
  <2>1. p \in 0 .. MaxPages
    BY <1>2, <1>3
  <2>2. ThenLoad(i, p) \/ Failed(i)
    BY <1>8 DEF ClosePageAnswer
  <2>3. UNCHANGED <<store, index, pageId, page, made, rev, timer>>
    BY <1>8 DEF ClosePageAnswer, server
  <2> HIDE DEF p
  <2>4. QED
    BY <2>1, <2>2, <2>3, EndStep
<1>9. CASE RenameGetAnswer(i)
  BY <1>9, RenameGetAnswerStep
<1>10. CASE RenamePutAnswer(i)
  <2> DEFINE p == IF task[i].page = task[i].mark THEN task[i].page ELSE 0
  <2>1. p \in 0 .. MaxPages
    BY <1>2
  <2>2. ThenLoad(i, p) \/ Failed(i)
    BY <1>10 DEF RenamePutAnswer
  <2>3. UNCHANGED <<store, index, pageId, page, made, rev, timer>>
    BY <1>10 DEF RenamePutAnswer, server
  <2> HIDE DEF p
  <2>4. QED
    BY <2>1, <2>2, <2>3, EndStep
<1>11. QED
  BY <1>4, <1>5, <1>6, <1>7, <1>8, <1>9, <1>10 DEF Handle

LEMMA UserStep ==
  ASSUME Inv, NEW i \in Slots, User(i)
  PROVE  Inv'
<1>1. pageId \in Nat /\ 0 \in 0 .. MaxPages
  BY GraphAssumption, PagesNat DEF Inv, SheetInv, SheetOK
<1>2. {"load", "jump", "close", "renameGet", "add"} \subseteq Ops
  BY DEF Ops
<1>3. ASSUME NEW p \in Pages, SelectTab(i, p) PROVE Inv'
  BY <1>1, <1>2, <1>3, PagesNat, AskStep DEF SelectTab, server
<1>4. ASSUME NEW p \in Pages, JumpTo(i, p) PROVE Inv'
  BY <1>1, <1>2, <1>4, PagesNat, AskStep DEF JumpTo, server, sheet
<1>5. ASSUME NEW p \in Pages, ClosePage(i, p) PROVE Inv'
  BY <1>1, <1>2, <1>5, PagesNat, AskStep DEF ClosePage, server, sheet
<1>6. ASSUME NEW p \in Pages, RenamePage(i, p) PROVE Inv'
  BY <1>1, <1>2, <1>6, PagesNat, AskStep DEF RenamePage, server, sheet
<1>7. CASE NewPage(i)
  BY <1>1, <1>2, <1>7, AskStep DEF NewPage, server, sheet
<1>8. QED
  BY <1>3, <1>4, <1>5, <1>6, <1>7 DEF User

LEMMA InitInv == Init => Inv
<1>1. SUFFICES ASSUME Init PROVE Inv
  OBVIOUS
<1>2. 1 \in Pages
  BY GraphAssumption DEF Pages
<1>3. SheetInv
  BY <1>1, <1>2, GraphAssumption DEF Init, SheetInv, SheetOK, PagesSeparate, NoDocs, Docs, Doc
<1>4. TimerInv
  BY <1>1, GraphAssumption DEF Init, TimerInv, NoTimer, Doc
<1>5. FlightInv
  <2>1. OwnDocs(Idle)
    BY DEF OwnDocs, Idle, NoDocs
  <2>2. QED
    BY <1>1, <2>1, IdleTask DEF Init, FlightInv
<1>6. OrderOK
  BY <1>1, PagesNat DEF Init, OrderOK
<1>7. QED
  BY <1>3, <1>4, <1>5, <1>6 DEF Inv

LEMMA NextInv == Inv /\ [Next]_vars => Inv'
<1>1. SUFFICES ASSUME Inv, [Next]_vars PROVE Inv'
  OBVIOUS
<1>2. CASE Patch
  BY <1>1, <1>2, PatchStep
<1>3. ASSUME NEW i \in Slots, User(i) PROVE Inv'
  BY <1>1, <1>3, UserStep
<1>4. ASSUME NEW i \in Slots, SavesItself(i) PROVE Inv'
  BY <1>1, <1>4, AutosaveStep DEF SavesItself
<1>5. ASSUME NEW i \in Slots, Served(i) PROVE Inv'
  BY <1>1, <1>5, ServePutStep, ServeGetStep, ServeAddStep, ServeCloseStep DEF Served, Serve
<1>6. ASSUME NEW i \in Slots, Handled(i) PROVE Inv'
  BY <1>1, <1>6, HandleStep DEF Handled
<1>7. ASSUME NEW i \in Slots, Refuse(i) PROVE Inv'
  BY <1>1, <1>7, RefuseStep
<1>8. CASE UNCHANGED vars
  <2>1. UNCHANGED <<store, index, pageId, page, made, rev, timer>>
    BY <1>8 DEF vars, server, sheet
  <2>2. task' = task
    BY <1>8 DEF vars
  <2>3. FlightInv'
    BY <1>1, <2>1, <2>2 DEF Inv, FlightInv, OwnDocs
  <2>4. QED
    BY <1>1, <2>1, <2>3, SheetSame, TimerSame, OrderSame DEF Inv
<1>9. QED
  BY <1>1, <1>2, <1>3, <1>4, <1>5, <1>6, <1>7, <1>8 DEF Next

-----------------------------------------------------------------------------

(* The editor keeps its types: in particular a page is always open, whatever
   pages were deleted while calls about them were in flight (loadPage sets the
   page only from an answer that carries one). *)
THEOREM EditorTypes == Spec => []TypeOK
<1>1. Inv => TypeOK
  BY DEF Inv, SheetInv, TimerInv, FlightInv, TypeOK, TaskOK
<1>2. QED
  BY <1>1, InitInv, NextInv, PTL DEF Spec

(* An edit never lands on another page than the one it was made on, neither in
   the store nor on the sheet, for any number of pages, edits and calls in
   flight and in whatever order the back end serves them. *)
THEOREM EditsStayOnTheirPage == Spec => []PagesSeparate
<1>1. Inv => PagesSeparate
  BY DEF Inv, SheetInv
<1>2. QED
  BY <1>1, InitInv, NextInv, PTL DEF Spec

(* What is armed or in flight is of the page it names: the strengthening that
   makes PagesSeparate inductive. *)
THEOREM InFlightIsOwn == Spec => []InFlightSeparate
<1>1. Inv => InFlightSeparate
  BY DEF Inv, TimerInv, FlightInv, InFlightSeparate
<1>2. QED
  BY <1>1, InitInv, NextInv, PTL DEF Spec


-----------------------------------------------------------------------------
(* The draw order. *)

LEMMA ExistingFinite == Existing \in SUBSET Pages /\ IsFiniteSet(Existing)
BY PagesNat, FS_Subset DEF Existing

LEMMA OrderKept ==
  ASSUME OrderInv, UNCHANGED index
  PROVE  OrderInv'
BY DEF OrderInv, Existing

(* A page at the end of the order is one page more, with the next index. *)
LEMMA AppendedInv ==
  ASSUME OrderOK, OrderInv, NEW p \in Pages, index' = Appended(p)
  PROVE  OrderInv'
<1>1. CASE index[p] > 0
  BY <1>1, OrderKept DEF Appended
<1>2. CASE ~(index[p] > 0)
  <2> DEFINE n == Cardinality(Existing)
  <2>1. n \in Nat /\ index \in [Pages -> Nat]
    BY ExistingNat DEF OrderOK
  <2>2. \A q \in Pages : index'[q] = IF q = p THEN n + 1 ELSE index[q]
    BY <1>2, <2>1 DEF Appended
  <2>3. Existing' = Existing \cup {p} /\ p \notin Existing
    BY <1>2, <2>1, <2>2 DEF Existing
  <2>4. Cardinality(Existing') = n + 1
    BY <2>3, ExistingFinite, FS_AddElement
  <2>5. \A q \in Pages : index[q] <= n
    BY DEF OrderInv
  <2>6. \A k \in 1 .. n : \E q \in Pages : index[q] = k
    BY DEF OrderInv
  <2>7. \A q, r \in Pages : index[q] > 0 /\ index[q] = index[r] => q = r
    BY DEF OrderInv
  <2> HIDE DEF n
  <2>8. \A q \in Pages : index'[q] <= n + 1
    BY <2>1, <2>2, <2>5
  <2>9. \A k \in 1 .. n + 1 : \E q \in Pages : index'[q] = k
    <3>1. TAKE k \in 1 .. n + 1
    <3>2. CASE k = n + 1
      BY <2>2, <3>2
    <3>3. CASE k # n + 1
      <4>1. k \in 1 .. n
        BY <2>1, <3>3
      <4>2. PICK q \in Pages : index[q] = k
        BY <2>6, <4>1
      <4>3. q # p
        BY <1>2, <4>1, <4>2
      <4>4. QED
        BY <2>2, <4>2, <4>3
    <3>4. QED
      BY <3>2, <3>3
  <2>10. \A q, r \in Pages : index'[q] > 0 /\ index'[q] = index'[r] => q = r
    BY <2>1, <2>2, <2>5, <2>7
  <2>11. QED
    BY <2>4, <2>8, <2>9, <2>10 DEF OrderInv
<1>3. QED
  BY <1>1, <1>2

(* delete_page takes a page out and moves up the ones after it. *)
LEMMA DeletedInv ==
  ASSUME OrderOK, OrderInv, NEW p \in Existing,
         index' = [q \in Pages |->
                     IF q = p THEN 0
                     ELSE IF index[q] > index[p] THEN index[q] - 1 ELSE index[q]]
  PROVE  OrderInv' /\ Existing' = Existing \ {p}
<1> DEFINE n == Cardinality(Existing)
           d == index[p]
<1>1. n \in Nat /\ index \in [Pages -> Nat]
  BY ExistingNat DEF OrderOK
<1>2. p \in Pages /\ d \in Nat /\ d > 0 /\ d <= n
  BY <1>1 DEF Existing, OrderInv
<1>3. \A q \in Pages : index'[q] = IF q = p THEN 0
                                   ELSE IF index[q] > d THEN index[q] - 1 ELSE index[q]
  OBVIOUS
<1>4. Existing' = Existing \ {p}
  BY <1>1, <1>2, <1>3 DEF Existing
<1>5. Cardinality(Existing') = n - 1
  BY <1>4, ExistingFinite, FS_RemoveElement
<1>6. \A q \in Pages : index[q] <= n
  BY DEF OrderInv
<1>7. \A k \in 1 .. n : \E q \in Pages : index[q] = k
  BY DEF OrderInv
<1>8. \A q, r \in Pages : index[q] > 0 /\ index[q] = index[r] => q = r
  BY DEF OrderInv
<1>9. \A q \in Pages : q # p => index[q] # d
  BY <1>2, <1>8
<1> HIDE DEF n
<1>10. \A q \in Pages : index'[q] <= n - 1
  <2>1. TAKE q \in Pages
  <2>2. index[q] \in Nat /\ index[q] <= n /\ (q # p => index[q] # d)
    BY <1>1, <1>6, <1>9
  <2> HIDE DEF d
  <2>3. QED
    BY <1>1, <1>2, <1>3, <2>2
<1>11. \A k \in 1 .. n - 1 : \E q \in Pages : index'[q] = k
  <2>1. TAKE k \in 1 .. n - 1
  <2>2. CASE k < d
    <3>1. PICK q \in Pages : index[q] = k
      BY <1>1, <1>7
    <3>2. q # p /\ ~(index[q] > d)
      BY <1>2, <2>2, <3>1
    <3>3. QED
      BY <1>3, <3>1, <3>2
  <2>3. CASE ~(k < d)
    <3>1. k + 1 \in 1 .. n
      BY <1>1
    <3>2. PICK q \in Pages : index[q] = k + 1
      BY <1>7, <3>1
    <3>3. q # p /\ index[q] > d /\ index[q] - 1 = k
      BY <1>2, <2>3, <3>2
    <3>4. QED
      BY <1>3, <3>3
  <2>4. QED
    BY <2>2, <2>3
<1>12. \A q, r \in Pages : index'[q] > 0 /\ index'[q] = index'[r] => q = r
  <2>1. TAKE q, r \in Pages
  <2>2. index[q] \in Nat /\ index[r] \in Nat /\ (q # p => index[q] # d)
        /\ (r # p => index[r] # d) /\ (index[q] > 0 /\ index[q] = index[r] => q = r)
    BY <1>1, <1>8, <1>9
  <2>3. /\ index'[q] = IF q = p THEN 0 ELSE IF index[q] > d THEN index[q] - 1 ELSE index[q]
        /\ index'[r] = IF r = p THEN 0 ELSE IF index[r] > d THEN index[r] - 1 ELSE index[r]
    BY <1>3
  <2> HIDE DEF d
  <2>4. QED
    BY <1>2, <2>2, <2>3
<1>13. QED
  BY <1>4, <1>5, <1>10, <1>11, <1>12 DEF OrderInv

(* Only the back end's put, add and delete handlers change the order. *)
LEMMA OrderStep ==
  ASSUME Inv, OrderInv, [Next]_vars
  PROVE  OrderInv'
<1>1. OrderOK
  BY DEF Inv
<1>2. CASE UNCHANGED index
  BY <1>2, OrderKept
<1>3. ASSUME NEW i \in Slots, ServePut(i) PROVE OrderInv'
  <2>1. task[i].page \in Pages
    BY <1>3 DEF Inv, FlightInv, OwnDocs, ServePut
  <2>2. QED
    BY <1>1, <1>3, <2>1, AppendedInv DEF ServePut
<1>4. ASSUME NEW i \in Slots, ServeAdd(i) PROVE OrderInv'
  <2> DEFINE p == Cardinality(Existing) + 1
  <2>1. CASE p \in Pages /\ index[p] = 0
    <3>1. index' = Appended(p)
      BY <1>4, <2>1 DEF ServeAdd
    <3> HIDE DEF p
    <3>2. QED
      BY <1>1, <2>1, <3>1, AppendedInv
  <2>2. CASE ~(p \in Pages /\ index[p] = 0)
    BY <1>2, <1>4, <2>2 DEF ServeAdd, server
  <2>3. QED
    BY <2>1, <2>2
<1>5. ASSUME NEW i \in Slots, ServeClose(i) PROVE OrderInv'
  <2> DEFINE p == task[i].page
  <2>1. CASE p \in Existing /\ Cardinality(Existing) > 1
    <3>1. index' = [q \in Pages |->
                      IF q = p THEN 0
                      ELSE IF index[q] > index[p] THEN index[q] - 1 ELSE index[q]]
      BY <1>5, <2>1 DEF ServeClose
    <3> HIDE DEF p
    <3>2. QED
      BY <1>1, <2>1, <3>1, DeletedInv
  <2>2. CASE ~(p \in Existing /\ Cardinality(Existing) > 1)
    BY <1>2, <1>5, <2>2 DEF ServeClose, server
  <2>3. QED
    BY <2>1, <2>2
<1>6. ASSUME NEW i \in Slots, User(i) PROVE UNCHANGED index
  BY <1>6 DEF User, SelectTab, JumpTo, ClosePage, RenamePage, NewPage, server
<1>7. ASSUME NEW i \in Slots, Handle(i) PROVE UNCHANGED index
  BY <1>7 DEF Handle, AutosaveAnswer, LoadAnswer, JumpAnswer, NewPageAnswer,
              ClosePageAnswer, RenameGetAnswer, RenamePutAnswer, server
<1>8. ASSUME NEW i \in Slots, Refuse(i) \/ Autosave(i) \/ ServeGet(i)
      PROVE  UNCHANGED index
  BY <1>8 DEF Refuse, Autosave, ServeGet, server
<1>9. QED
  BY <1>2, <1>3, <1>4, <1>5, <1>6, <1>7, <1>8
     DEF Next, Patch, SavesItself, Served, Serve, Handled, vars, server

LEMMA OrderInit == Init => OrderInv
<1>1. SUFFICES ASSUME Init PROVE OrderInv
  OBVIOUS
<1>2. PICK n \in Pages : index = [p \in Pages |-> IF p <= n THEN p ELSE 0]
  BY <1>1 DEF Init
<1>3. n \in Nat /\ n >= 1 /\ n <= MaxPages /\ MaxPages \in Nat
  BY GraphAssumption DEF Pages
<1>4. Existing = 1 .. n
  BY <1>2, <1>3 DEF Existing, Pages
<1>5. Cardinality(Existing) = n
  BY <1>3, <1>4, FS_Interval
<1>6. QED
  BY <1>2, <1>3, <1>5 DEF OrderInv, Pages

(* The draw order has no gap and no page twice, for any number of pages and
   whatever deletions, new pages and late saves of deleted pages are served in
   whatever order: rows[0] is always a page (delete_page, add_page, put_page). *)
THEOREM DrawOrderCompact == Spec => []OrderCompact
<1>1. OrderOK /\ OrderInv => OrderCompact
  <2>1. SUFFICES ASSUME OrderOK, OrderInv PROVE OrderCompact
    OBVIOUS
  <2>2. Cardinality(Existing) \in Nat
    BY ExistingNat
  <2>3. SUFFICES ASSUME NEW n \in 1 .. Cardinality(Existing)
                 PROVE  \E p \in Pages : index[p] = n
                                         /\ \A q \in Pages : index[q] = n => q = p
    BY DEF OrderCompact
  <2>4. PICK p \in Pages : index[p] = n
    BY <2>1 DEF OrderInv
  <2>5. \A q \in Pages : index[q] = n => q = p
    BY <2>1, <2>2, <2>4 DEF OrderInv
  <2>6. QED
    BY <2>4, <2>5
<1>2. Init => Inv /\ OrderInv
  BY InitInv, OrderInit
<1>3. Inv /\ OrderInv /\ [Next]_vars => Inv' /\ OrderInv'
  BY NextInv, OrderStep
<1>4. Inv => OrderOK
  BY DEF Inv
<1>5. QED
  BY <1>1, <1>2, <1>3, <1>4, PTL DEF Spec


-----------------------------------------------------------------------------
(* The unsaved mark. *)

Busy(j) == task[j].op \notin {"idle", "add"}

(* A call put in a slot while the server and the sheet stay as they are. *)
LEMMA QuietPut ==
  ASSUME Inv, Orderly, NEW i \in Slots, NEW t \in Task, task' = [task EXCEPT ![i] = t],
         UNCHANGED <<store, index, pageId, page, rev>>, dirty => dirty',
         t.op \in {"idle", "add"} \/ \A j \in Slots \ {i} : Busy(j) => task[j].page # t.page,
         Reads(t) => index[t.page] > 0 /\ t.doc[t.page] = store[t.page],
         t.op = "put" => /\ task[i].op = "put" /\ t.st = "refused"
                         /\ t.page = task[i].page /\ t.mark = task[i].mark
  PROVE  Orderly'
<1>1. \A j \in Slots : task'[j] = IF j = i THEN t ELSE task[j]
  BY PutTask DEF Inv
<1>2. NoOverlap'
  BY <1>1 DEF Orderly, NoOverlap, Busy
<1>3. ReadsFresh'
  <2>1. SUFFICES ASSUME NEW j \in Slots, Reads(task'[j])
                 PROVE  index[task'[j].page] > 0
                        /\ task'[j].doc[task'[j].page] = store[task'[j].page]
    BY DEF ReadsFresh, Reads
  <2>2. CASE j = i
    BY <1>1, <2>1, <2>2
  <2>3. CASE j # i
    BY <1>1, <2>1, <2>3 DEF Orderly, ReadsFresh
  <2>4. QED
    BY <2>2, <2>3
<1>4. \A j \in Slots : task'[j].op = "put" =>
        /\ task[j].op = "put" /\ task'[j].page = task[j].page /\ task'[j].mark = task[j].mark
        /\ task'[j].st = "refused" \/ task'[j] = task[j]
  BY <1>1
<1>5. SavesSheet'
  BY <1>4 DEF Orderly, SavesSheet
<1>6. DiffersMarked'
  <2>1. SUFFICES ASSUME index[pageId] > 0, page # store[pageId]
                 PROVE  dirty' /\ \A j \in Slots : task'[j].op = "put" /\ task'[j].mark = rev
                                    => task'[j].page = pageId /\ task'[j].st # "served"
    BY DEF DiffersMarked
  <2>2. dirty /\ \A j \in Slots : task[j].op = "put" /\ task[j].mark = rev
                                    => task[j].page = pageId /\ task[j].st # "served"
    BY <2>1 DEF Orderly, DiffersMarked
  <2>3. QED
    BY <1>4, <2>2
<1>7. QED
  BY <1>2, <1>3, <1>5, <1>6 DEF Orderly

(* The call of a slot is over. *)
LEMMA QuietEnd ==
  ASSUME Inv, Orderly, NEW i \in Slots, task' = [task EXCEPT ![i] = Idle],
         UNCHANGED <<store, index, pageId, page, rev>>, dirty => dirty'
  PROVE  Orderly'
<1>1. Idle.op = "idle" /\ ~Reads(Idle)
  BY DEF Idle, Reads
<1>2. QED
  BY <1>1, IdleTask, QuietPut

(* A call about a page no other call is about, not an autosave, is sent. *)
LEMMA QuietSent ==
  ASSUME Inv, Orderly, NEW i \in Slots,
         NEW op \in {"load", "jump", "add", "close", "renameGet"}, NEW p \in 0 .. MaxPages,
         NEW mark \in Nat, task' = [task EXCEPT ![i] = Sent(op, p, NoDocs, mark)],
         UNCHANGED <<store, index, pageId, page, rev>>, dirty => dirty',
         op = "add" \/ ~ \E j \in Slots \ {i} : About(j, p)
  PROVE  Orderly'
<1> DEFINE t == Sent(op, p, NoDocs, mark)
<1>1. t \in Task
  BY IdleTask, SentTask DEF Ops
<1>2. t.op = op /\ t.st = "sent" /\ t.page = p
  BY DEF Sent
<1>3. ~Reads(t) /\ t.op # "put"
  BY <1>2 DEF Reads
<1>4. t.op \in {"idle", "add"} \/ \A j \in Slots \ {i} : Busy(j) => task[j].page # t.page
  BY <1>2 DEF About, Busy
<1>5. task' = [task EXCEPT ![i] = t]
  OBVIOUS
<1> HIDE DEF t
<1>6. QED
  BY <1>1, <1>3, <1>4, <1>5, QuietPut

(* An answer that neither reads nor is of an autosave the store has taken. *)
LEMMA QuietAnswer ==
  ASSUME Inv, Orderly, NEW i \in Slots, NEW st \in {"served", "refused"},
         NEW p \in 0 .. MaxPages, NEW doc \in Docs, Answer(i, st, p, doc),
         UNCHANGED <<store, index, pageId, page, rev>>, dirty' = dirty,
         task[i].op = "add" \/ p = task[i].page,
         st = "refused" \/ task[i].op \notin {"put", "renamePut"},
         st = "served" => task[i].op \in {"add", "close"}
                          \/ (index[p] > 0 /\ doc[p] = store[p])
  PROVE  Orderly'
<1> DEFINE t == [op |-> task[i].op, st |-> st, page |-> p, doc |-> doc,
                 mark |-> task[i].mark]
<1>1. task[i] \in Task
  BY DEF Inv, FlightInv
<1>2. t \in Task
  BY <1>1 DEF Task
<1>3. /\ t.op = task[i].op /\ t.st = st /\ t.page = p /\ t.doc = doc
      /\ t.mark = task[i].mark
  OBVIOUS
<1>4. task' = [task EXCEPT ![i] = t]
  BY DEF Answer
<1> HIDE DEF t
<1>5. t.op \in {"idle", "add"} \/ \A j \in Slots \ {i} : Busy(j) => task[j].page # t.page
  BY <1>3 DEF Orderly, NoOverlap, Busy
<1>6. Reads(t) => index[t.page] > 0 /\ t.doc[t.page] = store[t.page]
  BY <1>3 DEF Reads
<1>7. t.op = "put" => task[i].op = "put" /\ t.st = "refused" /\ t.page = task[i].page
  BY <1>3
<1>8. QED
  BY <1>2, <1>3, <1>4, <1>5, <1>6, <1>7, QuietPut


(* patch: the edit is later than everything on its way. *)
LEMMA PatchOrderly ==
  ASSUME Inv, TimerCurrent, Orderly, Patch
  PROVE  Orderly'
<1>1. UNCHANGED <<store, index, pageId, task>> /\ dirty' /\ rev' = rev + 1
  BY DEF Patch, server
<1>2. rev \in Nat /\ \A j \in Slots : task[j] \in Task
  BY DEF Inv, SheetInv, SheetOK, FlightInv
<1>3. \A j \in Slots : task[j].op = "put" => task[j].mark # rev'
  BY <1>1, <1>2 DEF TimerCurrent, Task
<1>4. NoOverlap' /\ ReadsFresh'
  BY <1>1 DEF Orderly, NoOverlap, ReadsFresh, Reads
<1>5. SavesSheet' /\ DiffersMarked'
  BY <1>1, <1>3 DEF SavesSheet, DiffersMarked
<1>6. QED
  BY <1>4, <1>5 DEF Orderly

(* The autosave carries the sheet, and no other call is about its page. *)
LEMMA AutosaveOrderly ==
  ASSUME Inv, TimerCurrent, Orderly, NEW i \in Slots, Autosave(i), ~raced'
  PROVE  Orderly'
<1>1. timer.on /\ UNCHANGED <<store, index, pageId, page, dirty, rev>>
  BY DEF Autosave, server
<1>2. timer.page = pageId /\ timer.doc = page /\ timer.target = rev
  BY <1>1 DEF TimerCurrent
<1>3. pageId \in Pages /\ page \in Doc /\ rev \in Nat
  BY DEF Inv, SheetInv, SheetOK
<1> DEFINE d == [NoDocs EXCEPT ![pageId] = page]
           t == Sent("put", pageId, d, rev)
<1>4. d \in Docs /\ d[pageId] = page
  BY <1>3, OneDoc
<1>5. t.op = "put" /\ t.st = "sent" /\ t.page = pageId /\ t.doc = d /\ t.mark = rev
  BY DEF Sent
<1>6. t \in Task
  BY <1>3, <1>4, PagesNat, SentTask DEF Ops
<1>7. task' = [task EXCEPT ![i] = t]
  BY <1>2 DEF Autosave, Start
<1> HIDE DEF d, t
<1>8. \A j \in Slots : task'[j] = IF j = i THEN t ELSE task[j]
  BY <1>6, <1>7, PutTask DEF Inv
<1>9. \A j \in Slots : task[j].op = "idle" \/ task[j].page # pageId
  BY <1>2 DEF Autosave, About
<1>10. NoOverlap'
  BY <1>5, <1>8, <1>9 DEF Orderly, NoOverlap
<1>11. ReadsFresh'
  <2>1. \A j \in Slots : Reads(task'[j]) => j # i
    BY <1>5, <1>8 DEF Reads
  <2>2. QED
    BY <1>1, <1>8, <2>1 DEF Orderly, ReadsFresh, Reads
<1>12. SavesSheet'
  BY <1>1, <1>4, <1>5, <1>8, <1>9 DEF SavesSheet
<1>13. DiffersMarked'
  BY <1>1, <1>5, <1>8 DEF Orderly, DiffersMarked
<1>14. QED
  BY <1>10, <1>11, <1>12, <1>13 DEF Orderly

(* The answer that clears the mark is of the sheet as it is. *)
LEMMA AutosaveAnswerOrderly ==
  ASSUME Inv, Orderly, NEW i \in Slots, AutosaveAnswer(i)
  PROVE  Orderly'
<1>1. /\ task[i].op = "put" /\ task' = [task EXCEPT ![i] = Idle]
      /\ UNCHANGED <<store, index, pageId, page, rev>>
      /\ dirty' = IF task[i].st = "served" /\ rev = task[i].mark THEN FALSE ELSE dirty
  BY DEF AutosaveAnswer, server
<1>2. CASE ~(task[i].st = "served" /\ rev = task[i].mark)
  BY <1>1, <1>2, QuietEnd
<1>3. CASE task[i].st = "served" /\ rev = task[i].mark
  <2>1. \A j \in Slots : task'[j] = IF j = i THEN Idle ELSE task[j]
    BY <1>1, IdleTask, PutTask DEF Inv
  <2>2. Idle.op = "idle" /\ ~Reads(Idle)
    BY DEF Idle, Reads
  <2>3. NoOverlap'
    BY <2>1, <2>2 DEF Orderly, NoOverlap
  <2>4. ReadsFresh'
    <3>1. \A j \in Slots : Reads(task'[j]) => j # i
      BY <2>1, <2>2
    <3>2. QED
      BY <1>1, <2>1, <3>1 DEF Orderly, ReadsFresh, Reads
  <2>5. SavesSheet'
    <3>1. \A j \in Slots : task[j].op = "put" /\ task[j].page = pageId => task[j].mark = rev
      BY <1>1, <1>3 DEF Orderly, SavesSheet
    <3>2. QED
      BY <1>1, <2>1, <2>2, <3>1 DEF Orderly, SavesSheet
  <2>6. DiffersMarked'
    <3>1. ~(index[pageId] > 0 /\ page # store[pageId])
      BY <1>1, <1>3 DEF Orderly, DiffersMarked
    <3>2. QED
      BY <1>1, <3>1 DEF DiffersMarked
  <2>7. QED
    BY <2>3, <2>4, <2>5, <2>6 DEF Orderly
<1>4. QED
  BY <1>2, <1>3

(* loadPage: what comes on the sheet is what is stored, and no autosave of that
   page is on its way. *)
LEMMA LoadAnswerOrderly ==
  ASSUME Inv, Orderly, NEW i \in Slots, LoadAnswer(i)
  PROVE  Orderly'
<1>1. /\ task[i].op = "load" /\ task' = [task EXCEPT ![i] = Idle]
      /\ UNCHANGED <<store, index, dirty, rev>>
  BY DEF LoadAnswer, server
<1>2. CASE task[i].st # "served"
  <2>1. UNCHANGED <<pageId, page>>
    BY <1>2 DEF LoadAnswer
  <2>2. QED
    BY <1>1, <2>1, QuietEnd
<1>3. CASE task[i].st = "served"
  <2>1. pageId' = task[i].page /\ page' = task[i].doc[task[i].page]
    BY <1>3 DEF LoadAnswer
  <2>2. page' = store[pageId']
    BY <1>1, <1>3, <2>1 DEF Orderly, ReadsFresh, Reads
  <2>3. \A j \in Slots : task'[j] = IF j = i THEN Idle ELSE task[j]
    BY <1>1, IdleTask, PutTask DEF Inv
  <2>4. Idle.op = "idle" /\ ~Reads(Idle)
    BY DEF Idle, Reads
  <2>5. NoOverlap'
    BY <2>3, <2>4 DEF Orderly, NoOverlap
  <2>6. ReadsFresh'
    <3>1. \A j \in Slots : Reads(task'[j]) => j # i
      BY <2>3, <2>4
    <3>2. QED
      BY <1>1, <2>3, <3>1 DEF Orderly, ReadsFresh, Reads
  <2>7. \A j \in Slots : task'[j].op = "put" => task'[j].page # pageId'
    BY <1>1, <2>1, <2>3, <2>4 DEF Orderly, NoOverlap
  <2>8. SavesSheet'
    BY <2>7 DEF SavesSheet
  <2>9. DiffersMarked'
    BY <1>1, <2>2 DEF DiffersMarked
  <2>10. QED
    BY <2>5, <2>6, <2>8, <2>9 DEF Orderly
<1>4. QED
  BY <1>2, <1>3


(* An answer in its slot. *)
LEMMA Answered ==
  ASSUME Inv, NEW i \in Slots, NEW st \in {"served", "refused"}, NEW p \in 0 .. MaxPages,
         NEW doc \in Docs, Answer(i, st, p, doc)
  PROVE  /\ \A j \in Slots : j # i => task'[j] = task[j]
         /\ task'[i].op = task[i].op /\ task'[i].st = st /\ task'[i].page = p
         /\ task'[i].doc = doc /\ task'[i].mark = task[i].mark
<1> DEFINE t == [op |-> task[i].op, st |-> st, page |-> p, doc |-> doc,
                 mark |-> task[i].mark]
<1>1. task[i] \in Task
  BY DEF Inv, FlightInv
<1>2. t \in Task
  BY <1>1 DEF Task
<1>3. task' = [task EXCEPT ![i] = t]
  BY DEF Answer
<1>4. \A j \in Slots : task'[j] = IF j = i THEN t ELSE task[j]
  BY <1>2, <1>3, PutTask DEF Inv
<1>5. QED
  BY <1>4

(* put_page: of two documents of the open page, the one with the last edit is
   the sheet; a rename puts back what is stored. *)
LEMMA ServePutOrderly ==
  ASSUME Inv, Orderly, NEW i \in Slots, ServePut(i)
  PROVE  Orderly'
<1>1. /\ task[i].st = "sent" /\ task[i].op \in {"put", "renamePut"}
      /\ UNCHANGED <<pageId, page, dirty, rev>>
  BY DEF ServePut, sheet
<1>2. PICK p \in Pages : task[i].page = p
  BY <1>1 DEF Inv, FlightInv, OwnDocs
<1>3. task[i].doc \in Docs /\ p \in 0 .. MaxPages
  BY <1>2, PagesNat DEF Inv, FlightInv, Task
<1>4. store \in Docs /\ index \in [Pages -> Nat] /\ pageId \in Pages
  BY DEF Inv, SheetInv, SheetOK, OrderOK
<1>5. \A q \in Pages : store'[q] = IF q = p THEN task[i].doc[p] ELSE store[q]
  BY <1>2, <1>4 DEF ServePut, Docs
<1>6. index'[p] > 0 /\ \A q \in Pages \ {p} : index'[q] = index[q]
  BY <1>2, <1>4, ExistingNat DEF ServePut, Appended
<1>7. /\ \A j \in Slots : j # i => task'[j] = task[j]
      /\ task'[i].op = task[i].op /\ task'[i].st = "served" /\ task'[i].page = p
      /\ task'[i].doc = task[i].doc /\ task'[i].mark = task[i].mark
  BY <1>2, <1>3, Answered DEF ServePut
<1>8. NoOverlap'
  BY <1>2, <1>7 DEF Orderly, NoOverlap
<1>9. ReadsFresh'
  <2>1. SUFFICES ASSUME NEW j \in Slots, Reads(task'[j])
                 PROVE  index'[task'[j].page] > 0
                        /\ task'[j].doc[task'[j].page] = store'[task'[j].page]
    BY DEF ReadsFresh, Reads
  <2>2. CASE j = i
    BY <1>5, <1>6, <1>7, <2>2
  <2>3. CASE j # i
    <3>1. Reads(task[j]) /\ task'[j] = task[j] /\ task[j].op \notin {"idle", "add"}
      BY <1>7, <2>1, <2>3 DEF Reads
    <3>2. task[j].page \in Pages \ {p}
      BY <1>1, <1>2, <2>3, <3>1 DEF Inv, FlightInv, OwnDocs, Orderly, NoOverlap
    <3>3. QED
      BY <1>5, <1>6, <3>1, <3>2 DEF Orderly, ReadsFresh
  <2>4. QED
    BY <2>2, <2>3
<1>10. SavesSheet'
  <2>1. \A j \in Slots : /\ task'[j].op = task[j].op /\ task'[j].page = task[j].page
                         /\ task'[j].mark = task[j].mark /\ task'[j].doc = task[j].doc
                         /\ task'[j].st = "sent" => task[j].st = "sent"
    BY <1>2, <1>7
  <2>2. QED
    BY <1>1, <2>1 DEF Orderly, SavesSheet
<1>11. DiffersMarked'
  <2>1. CASE p # pageId
    <3>1. index'[pageId] = index[pageId] /\ store'[pageId] = store[pageId]
      BY <1>4, <1>5, <1>6, <2>1
    <3>2. QED
      BY <1>1, <1>2, <1>7, <2>1, <3>1 DEF Orderly, DiffersMarked
  <2>2. CASE p = pageId /\ task[i].op = "renamePut"
    <3>1. index[pageId] > 0 /\ store'[pageId] = store[pageId]
      BY <1>1, <1>2, <1>5, <2>2 DEF Orderly, ReadsFresh, Reads
    <3>2. QED
      BY <1>1, <1>7, <2>2, <3>1 DEF Orderly, DiffersMarked
  <2>3. CASE p = pageId /\ task[i].op = "put" /\ task[i].mark = rev
    <3>1. store'[pageId] = page
      BY <1>1, <1>2, <1>5, <2>3 DEF Orderly, SavesSheet
    <3>2. QED
      BY <1>1, <3>1 DEF DiffersMarked
  <2>4. CASE p = pageId /\ task[i].op = "put" /\ task[i].mark # rev
    <3>1. dirty /\ \A j \in Slots : task[j].op = "put" => task[j].mark # rev
      BY <1>2, <2>4 DEF Orderly, SavesSheet
    <3>2. QED
      BY <1>1, <1>7, <3>1 DEF DiffersMarked
  <2>5. QED
    BY <1>1, <2>1, <2>2, <2>3, <2>4
<1>12. QED
  BY <1>8, <1>9, <1>10, <1>11 DEF Orderly

(* One page of the store changes, neither by a save nor under the sheet, and no
   call that read it is on its way. *)
LEMMA ServerOrderly ==
  ASSUME Inv, Orderly, NEW i \in Slots, NEW p \in Pages,
         task[i].op \in {"add", "close"}, Answer(i, "served", p, NoDocs),
         task[i].op = "close" => p = task[i].page,
         UNCHANGED <<pageId, page, dirty, rev>>,
         \A q \in Pages \ {p} : store'[q] = store[q] /\ (index[q] > 0 <=> index'[q] > 0),
         \A j \in Slots : Reads(task[j]) => task[j].page # p,
         p # pageId \/ ~(index'[p] > 0)
  PROVE  Orderly'
<1>1. /\ \A j \in Slots : j # i => task'[j] = task[j]
      /\ task'[i].op = task[i].op /\ task'[i].page = p
  BY PagesNat, IdleTask, Answered
<1>2. pageId \in Pages
  BY DEF Inv, SheetInv, SheetOK
<1>3. NoOverlap'
  BY <1>1 DEF Orderly, NoOverlap
<1>4. ReadsFresh'
  <2>1. SUFFICES ASSUME NEW j \in Slots, Reads(task'[j])
                 PROVE  index'[task'[j].page] > 0
                        /\ task'[j].doc[task'[j].page] = store'[task'[j].page]
    BY DEF ReadsFresh, Reads
  <2>2. j # i
    BY <1>1, <2>1 DEF Reads
  <2>3. Reads(task[j]) /\ task'[j] = task[j] /\ task[j].op \notin {"idle", "add"}
    BY <1>1, <2>1, <2>2 DEF Reads
  <2>4. task[j].page \in Pages \ {p}
    BY <2>3 DEF Inv, FlightInv, OwnDocs
  <2>5. QED
    BY <2>3, <2>4 DEF Orderly, ReadsFresh
<1>5. \A j \in Slots : task'[j].op = "put" => task'[j] = task[j]
  BY <1>1
<1>6. \A j \in Slots : task[j].op = "put" => task'[j] = task[j]
  BY <1>1
<1>7. SavesSheet'
  BY <1>5, <1>6 DEF Orderly, SavesSheet
<1>8. DiffersMarked'
  BY <1>2, <1>5 DEF Orderly, DiffersMarked
<1>9. QED
  BY <1>3, <1>4, <1>7, <1>8 DEF Orderly

(* add_page: no call read a page there was not. *)
LEMMA ServeAddOrderly ==
  ASSUME Inv, Orderly, NEW i \in Slots, ServeAdd(i), ~raced'
  PROVE  Orderly'
<1>1. task[i].op = "add" /\ UNCHANGED <<pageId, page, dirty, rev>>
  BY DEF ServeAdd, sheet
<1> DEFINE p == Cardinality(Existing) + 1
<1>2. CASE p \in Pages /\ index[p] = 0
  <2>1. /\ store' = [store EXCEPT ![p] = {}] /\ index' = Appended(p)
        /\ Answer(i, "served", p, NoDocs) /\ p # pageId
    BY <1>2 DEF ServeAdd
  <2> HIDE DEF p
  <2>2. store \in Docs /\ index \in [Pages -> Nat]
    BY DEF Inv, SheetInv, SheetOK, OrderOK
  <2>3. \A q \in Pages \ {p} : store'[q] = store[q] /\ index'[q] = index[q]
    BY <1>2, <2>1, <2>2 DEF Appended, Docs
  <2>4. \A j \in Slots : Reads(task[j]) => task[j].page # p
    BY <1>2 DEF Orderly, ReadsFresh
  <2>5. QED
    BY <1>1, <1>2, <2>1, <2>3, <2>4, ServerOrderly
<1>3. CASE ~(p \in Pages /\ index[p] = 0)
  <2>1. Answer(i, "refused", 0, NoDocs) /\ UNCHANGED <<store, index>>
    BY <1>3 DEF ServeAdd, server
  <2>2. 0 \in 0 .. MaxPages
    BY GraphAssumption
  <2>3. QED
    BY <1>1, <2>1, <2>2, IdleTask, QuietAnswer
<1>4. QED
  BY <1>2, <1>3

(* delete_page: no other call is about the page. *)
LEMMA ServeCloseOrderly ==
  ASSUME Inv, Orderly, NEW i \in Slots, ServeClose(i)
  PROVE  Orderly'
<1>1. task[i].op = "close" /\ UNCHANGED <<pageId, page, dirty, rev>>
  BY DEF ServeClose, sheet
<1>2. PICK p \in Pages : task[i].page = p
  BY <1>1 DEF Inv, FlightInv, OwnDocs
<1>3. CASE p \in Existing /\ Cardinality(Existing) > 1
  <2>1. /\ store' = [store EXCEPT ![p] = {}] /\ Answer(i, "served", p, NoDocs)
        /\ index' = [q \in Pages |->
                       IF q = p THEN 0
                       ELSE IF index[q] > index[p] THEN index[q] - 1 ELSE index[q]]
    BY <1>2, <1>3 DEF ServeClose
  <2>2. store \in Docs /\ index \in [Pages -> Nat] /\ index[p] > 0
    BY <1>3 DEF Inv, SheetInv, SheetOK, OrderOK, Existing
  <2>3. index'[p] = 0 /\ \A q \in Pages \ {p} :
          store'[q] = store[q] /\ (index[q] > 0 <=> index'[q] > 0)
    BY <2>1, <2>2 DEF Docs
  <2>4. \A j \in Slots : Reads(task[j]) => task[j].page # p
    <3>1. \A j \in Slots : Reads(task[j]) => j # i /\ task[j].op \notin {"idle", "add"}
      BY <1>1 DEF Reads
    <3>2. QED
      BY <1>1, <1>2, <3>1 DEF Orderly, NoOverlap
  <2>5. QED
    BY <1>1, <1>2, <2>1, <2>3, <2>4, ServerOrderly
<1>4. CASE ~(p \in Existing /\ Cardinality(Existing) > 1)
  <2>1. Answer(i, "refused", p, NoDocs) /\ UNCHANGED <<store, index>>
    BY <1>2, <1>4 DEF ServeClose, server
  <2>2. QED
    BY <1>1, <1>2, <2>1, PagesNat, IdleTask, QuietAnswer
<1>5. QED
  BY <1>3, <1>4


LEMMA ServeGetOrderly ==
  ASSUME Inv, Orderly, NEW i \in Slots, ServeGet(i)
  PROVE  Orderly'
<1>1. /\ task[i].op \in {"load", "jump", "renameGet"}
      /\ UNCHANGED <<store, index, pageId, page, dirty, rev>>
  BY DEF ServeGet, server, sheet
<1>2. PICK p \in Pages : task[i].page = p
  BY <1>1 DEF Inv, FlightInv, OwnDocs
<1>3. CASE p \in Existing
  <2> DEFINE d == [NoDocs EXCEPT ![p] = store[p]]
  <2>1. store[p] \in Doc
    BY DEF Inv, SheetInv, SheetOK, Docs
  <2>2. d \in Docs /\ d[p] = store[p] /\ index[p] > 0
    BY <1>3, <2>1, OneDoc DEF Existing
  <2>3. Answer(i, "served", p, d)
    BY <1>2, <1>3 DEF ServeGet
  <2> HIDE DEF d
  <2>4. QED
    BY <1>1, <1>2, <2>2, <2>3, PagesNat, QuietAnswer
<1>4. CASE p \notin Existing
  BY <1>1, <1>2, <1>4, PagesNat, IdleTask, QuietAnswer DEF ServeGet
<1>5. QED
  BY <1>3, <1>4

LEMMA RefuseOrderly ==
  ASSUME Inv, Orderly, NEW i \in Slots, Refuse(i)
  PROVE  Orderly'
<1>1. /\ Answer(i, "refused", task[i].page, NoDocs)
      /\ UNCHANGED <<store, index, pageId, page, dirty, rev>>
  BY DEF Refuse, server, sheet
<1>2. task[i].page \in 0 .. MaxPages
  BY DEF Inv, FlightInv, Task
<1>3. QED
  BY <1>1, <1>2, IdleTask, QuietAnswer

(* The calls of the engineer; one about a page that another call is about, or
   that leaves an unsaved page, is excepted. *)
LEMMA UserOrderly ==
  ASSUME Inv, Orderly, NEW i \in Slots, User(i), ~raced'
  PROVE  Orderly'
<1>1. pageId \in Nat /\ 0 \in 0 .. MaxPages
  BY GraphAssumption, PagesNat DEF Inv, SheetInv, SheetOK
<1>2. ASSUME NEW p \in Pages, SelectTab(i, p) PROVE Orderly'
  <2>1. ~dirty /\ ~ \E j \in Slots : About(j, p)
    BY <1>2 DEF SelectTab
  <2>2. QED
    BY <1>1, <1>2, <2>1, PagesNat, QuietSent DEF SelectTab, Start, server
<1>3. ASSUME NEW p \in Pages, JumpTo(i, p) PROVE Orderly'
  <2>1. ~ \E j \in Slots : About(j, p)
    BY <1>3 DEF JumpTo
  <2>2. QED
    BY <1>1, <1>3, <2>1, PagesNat, QuietSent DEF JumpTo, Start, server, sheet
<1>4. ASSUME NEW p \in Pages, ClosePage(i, p) PROVE Orderly'
  <2>1. ~ \E j \in Slots : About(j, p)
    BY <1>4 DEF ClosePage
  <2>2. QED
    BY <1>1, <1>4, <2>1, PagesNat, QuietSent DEF ClosePage, Start, server, sheet
<1>5. ASSUME NEW p \in Pages, RenamePage(i, p) PROVE Orderly'
  <2>1. ~ \E j \in Slots : About(j, p)
    BY <1>5 DEF RenamePage
  <2>2. QED
    BY <1>1, <1>5, <2>1, PagesNat, QuietSent DEF RenamePage, Start, server, sheet
<1>6. CASE NewPage(i)
  BY <1>1, <1>6, QuietSent DEF NewPage, Start, server, sheet
<1>7. QED
  BY <1>2, <1>3, <1>4, <1>5, <1>6 DEF User

(* The end of a handler; a load of a page another call is about, or from an
   unsaved page, is excepted. *)
LEMMA EndOrderly ==
  ASSUME Inv, Orderly, NEW i \in Slots, NEW p \in 0 .. MaxPages,
         ThenLoad(i, p) \/ Failed(i), ~raced',
         UNCHANGED <<store, index, pageId, page, rev>>
  PROVE  Orderly'
<1>1. CASE Failed(i)
  BY <1>1, QuietEnd DEF Failed
<1>2. CASE ThenLoad(i, p)
  <2>1. ~dirty /\ (p = 0 \/ ~ \E j \in Slots \ {i} : About(j, p))
    BY <1>2 DEF ThenLoad
  <2>2. CASE p = 0
    BY <1>2, <2>1, <2>2, QuietEnd DEF ThenLoad
  <2>3. CASE p # 0
    <3>1. task' = [task EXCEPT ![i] = Sent("load", p, NoDocs, 0)]
      BY <1>2, <2>3 DEF ThenLoad
    <3>2. QED
      BY <2>1, <2>3, <3>1, QuietSent
  <2>4. QED
    BY <2>2, <2>3
<1>3. QED
  BY <1>1, <1>2

LEMMA RenameGetOrderly ==
  ASSUME Inv, Orderly, NEW i \in Slots, RenameGetAnswer(i)
  PROVE  Orderly'
<1>1. /\ task[i].op = "renameGet" /\ task[i].st # "sent"
      /\ UNCHANGED <<store, index, pageId, page, dirty, rev>>
  BY DEF RenameGetAnswer, server, sheet
<1>2. CASE task[i].st # "served"
  BY <1>1, <1>2, QuietEnd DEF RenameGetAnswer
<1>3. CASE task[i].st = "served"
  <2> DEFINE t == Sent("renamePut", task[i].page, task[i].doc, task[i].mark)
  <2>1. task[i].page \in 0 .. MaxPages /\ task[i].doc \in Docs /\ task[i].mark \in Nat
    BY DEF Inv, FlightInv, Task
  <2>2. t \in Task
    BY <2>1, SentTask DEF Ops
  <2>3. t.op = "renamePut" /\ t.page = task[i].page /\ t.doc = task[i].doc
    BY DEF Sent
  <2>4. task' = [task EXCEPT ![i] = t]
    BY <1>3 DEF RenameGetAnswer
  <2> HIDE DEF t
  <2>5. index[t.page] > 0 /\ t.doc[t.page] = store[t.page]
    BY <1>1, <1>3, <2>3 DEF Orderly, ReadsFresh, Reads
  <2>6. \A j \in Slots \ {i} : Busy(j) => task[j].page # t.page
    BY <1>1, <2>3 DEF Orderly, NoOverlap, Busy
  <2>7. QED
    BY <1>1, <2>2, <2>3, <2>4, <2>5, <2>6, QuietPut
<1>4. QED
  BY <1>2, <1>3

LEMMA HandleOrderly ==
  ASSUME Inv, Orderly, NEW i \in Slots, Handle(i), ~raced'
  PROVE  Orderly'
<1>1. task[i].page \in 0 .. MaxPages /\ 0 \in 0 .. MaxPages
  BY GraphAssumption DEF Inv, FlightInv, Task
<1>2. CASE AutosaveAnswer(i)
  BY <1>2, AutosaveAnswerOrderly
<1>3. CASE LoadAnswer(i)
  BY <1>3, LoadAnswerOrderly
<1>4. CASE JumpAnswer(i) \/ NewPageAnswer(i)
  BY <1>1, <1>4, EndOrderly DEF JumpAnswer, NewPageAnswer, server
<1>5. CASE ClosePageAnswer(i)
  <2> DEFINE p == IF task[i].page = task[i].mark THEN FirstPage ELSE 0
  <2>1. p \in 0 .. MaxPages
    BY <1>1, FirstPageType
  <2>2. (ThenLoad(i, p) \/ Failed(i)) /\ UNCHANGED <<store, index, pageId, page, rev>>
    BY <1>5 DEF ClosePageAnswer, server
  <2> HIDE DEF p
  <2>3. QED
    BY <2>1, <2>2, EndOrderly
<1>6. CASE RenameGetAnswer(i)
  BY <1>6, RenameGetOrderly
<1>7. CASE RenamePutAnswer(i)
  <2> DEFINE p == IF task[i].page = task[i].mark THEN task[i].page ELSE 0
  <2>1. p \in 0 .. MaxPages
    BY <1>1
  <2>2. (ThenLoad(i, p) \/ Failed(i)) /\ UNCHANGED <<store, index, pageId, page, rev>>
    BY <1>7 DEF RenamePutAnswer, server
  <2> HIDE DEF p
  <2>3. QED
    BY <2>1, <2>2, EndOrderly
<1>8. QED
  BY <1>2, <1>3, <1>4, <1>5, <1>6, <1>7 DEF Handle


(* The timer keeps up with the sheet when neither changes, and the autosaves on
   their way are the earlier ones. *)
LEMMA CurrentKept ==
  ASSUME TimerCurrent, UNCHANGED <<timer, pageId, page, rev>>,
         \A j \in Slots : task'[j].op = "put" =>
           task[j].op = "put" /\ task'[j].mark = task[j].mark
  PROVE  TimerCurrent'
BY DEF TimerCurrent

(* A step that puts another call than an autosave in a slot, or an answer. *)
LEMMA SlotKept ==
  ASSUME Inv, NEW i \in Slots, NEW t, task' = [task EXCEPT ![i] = t],
         t.op = "put" => task[i].op = "put" /\ t.mark = task[i].mark
  PROVE  \A j \in Slots : task'[j].op = "put" =>
           task[j].op = "put" /\ task'[j].mark = task[j].mark
<1>1. task \in [Slots -> Task]
  BY DEF Inv, FlightInv
<1>2. QED
  BY <1>1

LEMMA CurrentAnswer ==
  ASSUME Inv, TimerCurrent, NEW i \in Slots, NEW st, NEW p, NEW doc, Answer(i, st, p, doc),
         UNCHANGED <<timer, pageId, page, rev>>
  PROVE  TimerCurrent'
<1> DEFINE t == [op |-> task[i].op, st |-> st, page |-> p, doc |-> doc,
                 mark |-> task[i].mark]
<1>1. task' = [task EXCEPT ![i] = t] /\ t.op = task[i].op /\ t.mark = task[i].mark
  BY DEF Answer
<1> HIDE DEF t
<1>2. QED
  BY <1>1, SlotKept, CurrentKept

LEMMA CurrentSent ==
  ASSUME Inv, TimerCurrent, NEW i \in Slots, NEW op, NEW p, NEW doc, NEW mark, op # "put",
         task' = [task EXCEPT ![i] = Sent(op, p, doc, mark)],
         UNCHANGED <<timer, pageId, page, rev>>
  PROVE  TimerCurrent'
<1> DEFINE t == Sent(op, p, doc, mark)
<1>1. task' = [task EXCEPT ![i] = t] /\ t.op # "put"
  BY DEF Sent
<1> HIDE DEF t
<1>2. QED
  BY <1>1, SlotKept, CurrentKept

LEMMA CurrentIdle ==
  ASSUME Inv, TimerCurrent, NEW i \in Slots, task' = [task EXCEPT ![i] = Idle],
         UNCHANGED <<timer, pageId, page, rev>>
  PROVE  TimerCurrent'
<1>1. Idle.op # "put"
  BY DEF Idle
<1>2. QED
  BY <1>1, SlotKept, CurrentKept

LEMMA CurrentHandle ==
  ASSUME Inv, TimerCurrent, NEW i \in Slots, Handle(i)
  PROVE  TimerCurrent'
<1>1. ASSUME NEW p, ThenLoad(i, p) \/ Failed(i), UNCHANGED <<timer, pageId, page, rev>>
      PROVE  TimerCurrent'
  <2>1. CASE task' = [task EXCEPT ![i] = Idle]
    BY <1>1, <2>1, CurrentIdle
  <2>2. CASE task' = [task EXCEPT ![i] = Sent("load", p, NoDocs, 0)]
    BY <1>1, <2>2, CurrentSent
  <2>3. QED
    BY <1>1, <2>1, <2>2 DEF ThenLoad, Failed
<1>2. CASE AutosaveAnswer(i)
  BY <1>2, CurrentIdle DEF AutosaveAnswer
<1>3. CASE LoadAnswer(i) /\ task[i].st = "served"
  <2>1. /\ task' = [task EXCEPT ![i] = Idle] /\ rev' = rev
        /\ pageId' = task[i].page /\ page' = task[i].doc[task[i].page]
        /\ Arm(dirty, task[i].page, task[i].doc[task[i].page], rev)
    BY <1>3 DEF LoadAnswer
  <2>2. timer'.on => timer'.page = pageId' /\ timer'.doc = page' /\ timer'.target = rev'
    BY <2>1 DEF Arm, NoTimer
  <2>3. \A j \in Slots : task'[j].op = "put" =>
           task[j].op = "put" /\ task'[j].mark = task[j].mark
    BY <2>1, SlotKept DEF Idle
  <2>4. QED
    BY <2>1, <2>2, <2>3 DEF TimerCurrent
<1>4. CASE LoadAnswer(i) /\ task[i].st # "served"
  BY <1>4, CurrentIdle DEF LoadAnswer
<1>5. CASE JumpAnswer(i) \/ NewPageAnswer(i) \/ ClosePageAnswer(i) \/ RenamePutAnswer(i)
  BY <1>1, <1>5 DEF JumpAnswer, NewPageAnswer, ClosePageAnswer, RenamePutAnswer
<1>6. CASE RenameGetAnswer(i)
  <2>1. UNCHANGED <<timer, pageId, page, rev>>
    BY <1>6 DEF RenameGetAnswer, sheet
  <2>2. CASE task[i].st = "served"
    BY <1>6, <2>1, <2>2, CurrentSent DEF RenameGetAnswer
  <2>3. CASE task[i].st # "served"
    BY <1>6, <2>1, <2>3, CurrentIdle DEF RenameGetAnswer
  <2>4. QED
    BY <2>2, <2>3
<1>7. QED
  BY <1>2, <1>3, <1>4, <1>5, <1>6 DEF Handle

LEMMA CurrentStep ==
  ASSUME Inv, TimerCurrent, [Next]_vars
  PROVE  TimerCurrent'
<1>1. rev \in Nat /\ task \in [Slots -> Task]
  BY DEF Inv, SheetInv, SheetOK, FlightInv
<1>2. CASE Patch
  <2>1. /\ timer' = [on |-> TRUE, page |-> pageId, doc |-> page \cup {rev + 1},
                     target |-> rev + 1]
        /\ pageId' = pageId /\ page' = page \cup {rev + 1} /\ rev' = rev + 1
        /\ task' = task
    BY <1>2 DEF Patch, Arm
  <2>2. \A j \in Slots : task[j].op = "put" => task[j].mark \in Nat /\ task[j].mark <= rev
    BY <1>1 DEF TimerCurrent, Task
  <2>3. QED
    BY <1>1, <2>1, <2>2 DEF TimerCurrent
<1>3. ASSUME NEW i \in Slots, Autosave(i) PROVE TimerCurrent'
  <2> DEFINE t == Sent("put", timer.page, [NoDocs EXCEPT ![timer.page] = timer.doc],
                       timer.target)
  <2>1. timer' = NoTimer /\ UNCHANGED <<pageId, page, rev>> /\ timer.on
        /\ task' = [task EXCEPT ![i] = t]
    BY <1>3 DEF Autosave, Start
  <2>2. t.mark = rev
    BY <2>1 DEF Sent, TimerCurrent
  <2> HIDE DEF t
  <2>3. \A j \in Slots : task'[j].op = "put" => task'[j].mark <= rev'
    BY <1>1, <2>1, <2>2 DEF TimerCurrent
  <2>4. QED
    BY <2>1, <2>3 DEF TimerCurrent, NoTimer
<1>4. ASSUME NEW i \in Slots, Serve(i) \/ Refuse(i) PROVE TimerCurrent'
  <2>1. UNCHANGED <<timer, pageId, page, rev>>
    BY <1>4 DEF Serve, ServePut, ServeGet, ServeAdd, ServeClose, Refuse, sheet
  <2>2. \E st, p, doc : Answer(i, st, p, doc)
    BY <1>4 DEF Serve, ServePut, ServeGet, ServeAdd, ServeClose, Refuse
  <2>3. QED
    BY <2>1, <2>2, CurrentAnswer
<1>5. ASSUME NEW i \in Slots, User(i) PROVE TimerCurrent'
  <2>1. UNCHANGED <<timer, pageId, page, rev>>
    BY <1>5 DEF User, SelectTab, JumpTo, ClosePage, RenamePage, NewPage, sheet
  <2>2. PICK op, p, doc, mark :
          op # "put" /\ task' = [task EXCEPT ![i] = Sent(op, p, doc, mark)]
    BY <1>5 DEF User, SelectTab, JumpTo, ClosePage, RenamePage, NewPage, Start
  <2>3. QED
    BY <2>1, <2>2, CurrentSent
<1>6. ASSUME NEW i \in Slots, Handle(i) PROVE TimerCurrent'
  BY <1>6, CurrentHandle
<1>7. CASE UNCHANGED vars
  BY <1>7, CurrentKept DEF vars, sheet
<1>8. QED
  BY <1>2, <1>3, <1>4, <1>5, <1>6, <1>7 DEF Next, SavesItself, Served, Handled

(* What is excepted stays excepted. *)
LEMMA RacedStays ==
  ASSUME [Next]_vars, raced
  PROVE  raced'
<1>1. ASSUME NEW i \in Slots, Serve(i) \/ Refuse(i) \/ Autosave(i) PROVE raced'
  BY <1>1 DEF Serve, ServePut, ServeGet, ServeAdd, ServeClose, Refuse, Autosave
<1>2. ASSUME NEW i \in Slots, User(i) PROVE raced'
  BY <1>2 DEF User, SelectTab, JumpTo, ClosePage, RenamePage, NewPage
<1>3. ASSUME NEW i \in Slots, Handle(i) PROVE raced'
  BY <1>3 DEF Handle, AutosaveAnswer, LoadAnswer, JumpAnswer, NewPageAnswer,
              ClosePageAnswer, RenameGetAnswer, RenamePutAnswer, ThenLoad, Failed
<1>4. QED
  BY <1>1, <1>2, <1>3 DEF Next, Patch, SavesItself, Served, Handled, vars

LEMMA SaveStep ==
  ASSUME Inv, SaveInv, [Next]_vars
  PROVE  SaveInv'
<1>1. TimerCurrent'
  BY CurrentStep DEF SaveInv
<1>2. ASSUME ~raced' PROVE Orderly'
  <2>1. Orderly /\ TimerCurrent
    BY <1>2, RacedStays DEF SaveInv
  <2>2. CASE Patch
    BY <2>1, <2>2, PatchOrderly
  <2>3. ASSUME NEW i \in Slots, Autosave(i) PROVE Orderly'
    BY <1>2, <2>1, <2>3, AutosaveOrderly
  <2>4. ASSUME NEW i \in Slots, Serve(i) PROVE Orderly'
    BY <1>2, <2>1, <2>4, ServePutOrderly, ServeGetOrderly, ServeAddOrderly,
       ServeCloseOrderly DEF Serve
  <2>5. ASSUME NEW i \in Slots, Refuse(i) PROVE Orderly'
    BY <2>1, <2>5, RefuseOrderly
  <2>6. ASSUME NEW i \in Slots, User(i) PROVE Orderly'
    BY <1>2, <2>1, <2>6, UserOrderly
  <2>7. ASSUME NEW i \in Slots, Handle(i) PROVE Orderly'
    BY <1>2, <2>1, <2>7, HandleOrderly
  <2>8. CASE UNCHANGED vars
    BY <2>1, <2>8 DEF vars, server, sheet, Orderly, NoOverlap, ReadsFresh, Reads,
                      SavesSheet, DiffersMarked
  <2>9. QED
    BY <2>2, <2>3, <2>4, <2>5, <2>6, <2>7, <2>8 DEF Next, SavesItself, Served, Handled
<1>3. QED
  BY <1>1, <1>2 DEF SaveInv

LEMMA SaveInit == Init => SaveInv
<1>1. SUFFICES ASSUME Init PROVE SaveInv
  OBVIOUS
<1>2. \A i \in Slots : task[i].op = "idle"
  BY <1>1 DEF Init, Idle
<1>3. page = store[pageId]
  BY <1>1, GraphAssumption DEF Init, NoDocs, Pages
<1>4. ~timer.on
  BY <1>1 DEF Init, NoTimer
<1>5. QED
  BY <1>2, <1>3, <1>4 DEF SaveInv, TimerCurrent, Orderly, NoOverlap, ReadsFresh, Reads,
                          SavesSheet, DiffersMarked

(* The strengthening of CleanIsSaved: the armed autosave is of the sheet as it
   is, and as long as no two calls about a page overlapped, what was read is
   what is stored, an autosave of the open page carries the sheet or is
   outdated, and the sheet differs from the store only under the mark. *)
THEOREM SavesInOrder == Spec => []SaveInv
<1>1. Init => Inv /\ SaveInv
  BY InitInv, SaveInit
<1>2. Inv /\ SaveInv /\ [Next]_vars => Inv' /\ SaveInv'
  BY NextInv, SaveStep
<1>3. QED
  BY <1>1, <1>2, PTL DEF Spec

(* A page without the unsaved mark is the stored page, for any number of pages,
   edits, calls in flight and failed calls: an edit during an autosave keeps the
   mark (GraphEditorPage's revision check), and loads, renames and deletions in
   between do not lose it. *)
THEOREM CleanPageIsStored == Spec => []CleanIsSaved
<1>1. SaveInv => CleanIsSaved
  BY DEF SaveInv, Orderly, DiffersMarked, CleanIsSaved
<1>2. QED
  BY <1>1, SavesInOrder, PTL
=============================================================================

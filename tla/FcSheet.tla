-------------------------------- MODULE FcSheet --------------------------------
(***************************************************************************)
(* One function-chart page under the engineer's hands: the document, the    *)
(* selection and the two pointer gestures (veri-ide/web/src/components/     *)
(* graph/types.ts, Sheet.tsx, Inspector.tsx and the add/drop/delete         *)
(* handlers of pages/GraphEditorPage.tsx).                                  *)
(*                                                                         *)
(* A block, a constant and a port keep their name and a "look": position,   *)
(* parameters, type, unit, scope and binding, whatever a pointer move or an *)
(* inspector field rewrites in place.  A generated name is the pair of its  *)
(* stem and its number.                                                     *)
(*                                                                         *)
(* Keys, buttons reached by keyboard and answers of the back end (Arrive)   *)
(* may come while a gesture is under way and do not end it.  Bound: there   *)
(* is one pointer, so one gesture at a time.                                *)
(***************************************************************************)
EXTENDS Integers, Sequences, FiniteSets

CONSTANTS
  Library,    \* function: block type -> [inputs, outputs] pin names
  Points,     \* names the palette's device, middle and system rows offer
  Arrivals,   \* page documents the back end may answer with
  MaxNodes,   \* bound: blocks and constants on the page
  MaxPorts,   \* bound: ports on the page
  MaxWires,   \* bound: wires on the page
  MaxPatches  \* bound: edits of the document

Dirs  == {"input", "output", "in_out"}
Looks == {0, 1}
(* Every string; the literals are named because the provers know of none that
   it is one. *)
Text  == STRING \cup {"", "interface", "k", "var", "typed", "IN", "OUT"}
Name  == Text \X Nat
INTERFACE == <<"interface", 0>>
Unnamed == <<"", 0>>

(* A page, its elements and its wires: an end names a port of the page, or a
   node and one of its pins. *)
Block    == [id : Name \ {INTERFACE}, type : Text, look : Looks]
Constant == [id : Name \ {INTERFACE}, look : Looks]
Port     == [id : Name, look : Looks]
Endpoint == [block : {INTERFACE}, port : Name]
              \cup [block : Name \ {INTERFACE}, port : Text]
Connection == [from : Endpoint, to : Endpoint]
PageDoc  == [blocks : Seq(Block), constants : Seq(Constant),
             interface : [Dirs -> Seq(Port)],
             connections : Seq(Connection)]

ASSUME SheetAssumption ==
  /\ MaxNodes \in Nat /\ MaxPorts \in Nat /\ MaxWires \in Nat
  /\ MaxPatches \in Nat
  /\ DOMAIN Library \subseteq Text
  /\ \A t \in DOMAIN Library :
       Library[t] \in [inputs : SUBSET Text, outputs : SUBSET Text]
  /\ Points \subseteq Name
  /\ Arrivals \subseteq PageDoc

VARIABLES
  page,     \* the document
  sel,      \* the selection
  drag,     \* the element held by the pointer
  draft,    \* the wire being drawn: the pins captured so far
  edits,    \* edits so far
  former,   \* history: ids that a block or constant was renamed away from
  blame     \* history: "collided" a rename hit a taken name, "reloaded" a page
            \* arrived during a gesture, "cut" a deletion or a rename during one,
            \* "crossed" a rename hit the name of a port that only a wire still has
sheetVars == <<page, sel, drag, draft, edits, former, blame>>

Unselected == [kind |-> "none", dir |-> "input", id |-> Unnamed, index |-> 0]
NoDraft == [on |-> FALSE, from |-> {}, target |-> {}]

Selected(kind, dir, id, i) == [kind |-> kind, dir |-> dir, id |-> id, index |-> i]

Ids(s) == {s[i].id : i \in DOMAIN s}
PortNames(d) == UNION {Ids(d.interface[dir]) : dir \in Dirs}
NodeIds(d) == Ids(d.blocks) \cup Ids(d.constants)
PortCount == Len(page.interface["input"]) + Len(page.interface["output"])
               + Len(page.interface["in_out"])

-----------------------------------------------------------------------------
(* What can carry a wire end. *)

Pin(id, port, dir) == [block |-> id, port |-> port, dir |-> dir]
End(pin) == [block |-> pin.block, port |-> pin.port]

(* pinsOf: a block whose type the library does not know has no pins. *)
pinsOf(b) ==
  IF b.type \in DOMAIN Library THEN Library[b.type]
  ELSE [inputs |-> {}, outputs |-> {}]

BlockPins(b) ==
  LET p == pinsOf(b) IN
  IF p.inputs = {} /\ p.outputs = {} THEN {Pin(b.id, "IN", "input")}
  ELSE {Pin(b.id, n, "input") : n \in p.inputs}
         \cup {Pin(b.id, n, "output") : n \in p.outputs}

(* pinMap: blocks, constants, and the ports: an input port feeds the page, an
   output port is written by it, an in_out port has both sides. *)
pinMap(d) ==
  (UNION {BlockPins(d.blocks[i]) : i \in DOMAIN d.blocks})
    \cup {Pin(c, "OUT", "output") : c \in Ids(d.constants)}
    \cup (UNION {{Pin(INTERFACE, n, "output") : n \in Ids(d.interface[dir])} :
                  dir \in Dirs \ {"output"}})
    \cup (UNION {{Pin(INTERFACE, n, "input") : n \in Ids(d.interface[dir])} :
                  dir \in Dirs \ {"input"}})

connectable(a, b) == End(a) # End(b) /\ a.dir # b.dir

(* otherSide: the output end first. *)
Wire(a, b) ==
  IF a.dir = "output" THEN [from |-> End(a), to |-> End(b)]
  ELSE [from |-> End(b), to |-> End(a)]

driverOn(d, sink) == \E i \in DOMAIN d.connections : d.connections[i].to = sink

(* Bound: the one pointer is free. *)
Free == ~draft.on /\ drag.kind = "none"

-----------------------------------------------------------------------------
(* Editing the document.  patch runs a mutation on the latest document. *)

patch(d) ==
  /\ edits < MaxPatches
  /\ edits' = edits + 1
  /\ page' = d

(* Mutant of uniqueId: the number is counted from the names there are. *)
uniqueIdByCount(taken, stem) == <<stem, Cardinality(taken) + 1>>

(* uniqueId: the first number under this stem that is not taken. *)
uniqueId(taken, stem) ==
  <<stem, CHOOSE n \in 1 .. Cardinality(taken) + 1 :
            /\ <<stem, n>> \notin taken
            /\ \A m \in 1 .. n - 1 : <<stem, m>> \in taken>>

(* The id a handler selects after it added something: the updater that names
   it may run at once or only when the page is next rendered. *)
SelectCreated(kind, dir, id) ==
  \E seen \in {id, Unnamed} : sel' = Selected(kind, dir, seen, 0)

dropBlock(type) ==
  /\ type \in DOMAIN Library
  /\ Len(page.blocks) + Len(page.constants) < MaxNodes
  /\ LET id == uniqueId(NodeIds(page), type) IN
     /\ patch([page EXCEPT !.blocks =
                 Append(@, [id |-> id, type |-> type, look |-> 0])])
     /\ SelectCreated("block", "input", id)
  /\ UNCHANGED <<drag, draft, former, blame>>

addConstant ==
  /\ Len(page.blocks) + Len(page.constants) < MaxNodes
  /\ LET id == uniqueId(NodeIds(page), "k") IN
     /\ patch([page EXCEPT !.constants = Append(@, [id |-> id, look |-> 0])])
     /\ SelectCreated("constant", "input", id)
  /\ UNCHANGED <<drag, draft, former, blame>>

(* Mutant of AddPort: the new port goes to the top of its column. *)
AddPortOnTop(dir, name) ==
  /\ PortCount < MaxPorts
  /\ patch([page EXCEPT !.interface[dir] =
              <<[id |-> name, look |-> 0]>> \o @])
  /\ UNCHANGED <<drag, draft, former, blame>>

(* addPort: a palette row places its own name; "new" takes a generated one. *)
AddPort(dir, name) ==
  /\ PortCount < MaxPorts
  /\ patch([page EXCEPT !.interface[dir] = Append(@, [id |-> name, look |-> 0])])
  /\ UNCHANGED <<drag, draft, former, blame>>

addNewPort(dir) ==
  LET name == uniqueId(PortNames(page), "var") IN
  /\ AddPort(dir, name)
  /\ SelectCreated("port", dir, name)

(* groups, pinsFor: a name already on the sheet offers no pin. *)
Offered == Points \ PortNames(page)

addOfferedPort(dir, name) ==
  /\ name \in Offered
  /\ dir \in {"input", "output"}
  /\ AddPort(dir, name)
  /\ sel' = Selected("port", dir, name, 0)

(* portDirectionOnPage, focusPort *)
portDirectionOnPage(name) ==
  CASE name \in Ids(page.interface["input"])  -> "input"
    [] name \in Ids(page.interface["in_out"]) -> "in_out"
    [] OTHER -> "output"

focusPort(name) ==
  /\ name \in PortNames(page)
  /\ sel' = Selected("port", portDirectionOnPage(name), name, 0)
  /\ UNCHANGED <<page, drag, draft, edits, former, blame>>

(* filter: the elements of s at the places in K, in their order. *)
Kept(s, K) ==
  LET Rank(i) == Cardinality({k \in K : k <= i}) IN
  [n \in 1 .. Cardinality(K) |-> s[CHOOSE i \in K : Rank(i) = n]]

(* deleteSelection: the element goes, and every wire that ended on it. *)
Without(s, id) == Kept(s, {i \in DOMAIN s : s[i].id # id})

Gone(e) ==
  \/ sel.kind \in {"block", "constant"} /\ e.block = sel.id
  \/ sel.kind = "port" /\ e.block = INTERFACE /\ e.port = sel.id

WiresKept ==
  LET Stays(i) == IF sel.kind = "wire" THEN i # sel.index
                  ELSE /\ ~Gone(page.connections[i].from)
                       /\ ~Gone(page.connections[i].to)
  IN Kept(page.connections, {i \in DOMAIN page.connections : Stays(i)})

deleteSelection ==
  [blocks      |-> IF sel.kind = "block" THEN Without(page.blocks, sel.id)
                   ELSE page.blocks,
   constants   |-> IF sel.kind = "constant" THEN Without(page.constants, sel.id)
                   ELSE page.constants,
   interface   |-> [dir \in Dirs |->
                      IF sel.kind = "port" /\ sel.dir = dir
                      THEN Without(page.interface[dir], sel.id)
                      ELSE page.interface[dir]],
   connections |-> WiresKept]

(* Mutant of removeSelection: only the element goes. *)
removeSelectionKeepsWires ==
  /\ sel.kind # "none"
  /\ patch([deleteSelection EXCEPT !.connections = page.connections])
  /\ sel' = Unselected
  /\ blame' = IF Free THEN blame ELSE blame \cup {"cut"}
  /\ UNCHANGED <<drag, draft, former>>

(* removeSelection: from the inspector's button or the Delete key. *)
removeSelection ==
  /\ sel.kind # "none"
  /\ patch(deleteSelection)
  /\ sel' = Unselected
  /\ blame' = IF Free THEN blame ELSE blame \cup {"cut"}
  /\ UNCHANGED <<drag, draft, former>>

-----------------------------------------------------------------------------
(* The inspector, open on the selection; it keeps its selection by name. *)

Renamed(s, old, new) ==
  [i \in DOMAIN s |-> IF s[i].id = old THEN [s[i] EXCEPT !.id = new] ELSE s[i]]

Restyled(s, id, look) ==
  [i \in DOMAIN s |-> IF s[i].id = id THEN [s[i] EXCEPT !.look = look] ELSE s[i]]

Collide(taken, new) ==
  blame \cup (IF new \in taken THEN {"collided"} ELSE {})
        \cup (IF Free THEN {} ELSE {"cut"})

(* The instance name field: the block gets the name, its wires keep theirs. *)
renameBlock(new) ==
  /\ sel.kind = "block" /\ sel.id \in Ids(page.blocks) /\ new # sel.id
  /\ patch([page EXCEPT !.blocks = Renamed(@, sel.id, new)])
  /\ former' = former \cup {sel.id}
  /\ blame' = Collide(NodeIds(page), new)
  /\ UNCHANGED <<sel, drag, draft>>

renameConstant(new) ==
  /\ sel.kind = "constant" /\ sel.id \in Ids(page.constants) /\ new # sel.id
  /\ patch([page EXCEPT !.constants = Renamed(@, sel.id, new)])
  /\ former' = former \cup {sel.id}
  /\ blame' = Collide(NodeIds(page), new)
  /\ UNCHANGED <<sel, drag, draft>>

(* The variable name field: the port and every interface wire end of that name
   follow; nothing asks whether the new name is free. *)
Follow(e, new) ==
  IF e.block = INTERFACE /\ e.port = sel.id THEN [e EXCEPT !.port = new] ELSE e

(* The port names that wires carry, of deleted ports too: a gesture that began
   before the deletion may end after it. *)
WiredPorts ==
  UNION {{e.port : e \in {x \in {page.connections[i].from, page.connections[i].to} :
                             x.block = INTERFACE}} : i \in DOMAIN page.connections}

renamePort(new) ==
  /\ sel.kind = "port" /\ sel.id \in Ids(page.interface[sel.dir])
  /\ new # sel.id
  /\ patch([page EXCEPT
       !.interface[sel.dir] = Renamed(@, sel.id, new),
       !.connections = [i \in DOMAIN @ |->
          [from |-> Follow(@[i].from, new), to |-> Follow(@[i].to, new)]]])
  /\ blame' = Collide(PortNames(page), new)
                \cup (IF new \in WiredPorts \ PortNames(page) THEN {"crossed"} ELSE {})
  /\ UNCHANGED <<sel, drag, draft, former>>

(* patchBlock, patchConstant, patchPort: one field of the selected element. *)
patchSelected(look) ==
  /\ \/ /\ sel.kind = "block" /\ sel.id \in Ids(page.blocks)
        /\ patch([page EXCEPT !.blocks = Restyled(@, sel.id, look)])
     \/ /\ sel.kind = "constant" /\ sel.id \in Ids(page.constants)
        /\ patch([page EXCEPT !.constants = Restyled(@, sel.id, look)])
     \/ /\ sel.kind = "port" /\ sel.id \in Ids(page.interface[sel.dir])
        /\ patch([page EXCEPT !.interface[sel.dir] = Restyled(@, sel.id, look)])
  /\ page' # page
  /\ UNCHANGED <<sel, drag, draft, former, blame>>

-----------------------------------------------------------------------------
(* Pointer gestures on the sheet. *)

(* What the sheet draws, as a press on it names it: a port by its place in the
   list, the others by id. *)
PortsDrawn ==
  UNION {{Selected("port", dir, page.interface[dir][i].id, i) :
            i \in DOMAIN page.interface[dir]} : dir \in Dirs}
ConstantsDrawn == {Selected("constant", "input", id, 0) : id \in Ids(page.constants)}
BlocksDrawn == {Selected("block", "input", id, 0) : id \in Ids(page.blocks)}

grabElement ==
  /\ Free
  /\ drag' \in PortsDrawn \cup ConstantsDrawn \cup BlocksDrawn
  /\ sel' = [drag' EXCEPT !.index = 0]
  /\ UNCHANGED <<page, draft, edits, former, blame>>

(* A wire with an end that is no pin is not drawn, so it cannot be hit. *)
WireDrawn(w) ==
  /\ \E a \in pinMap(page) : End(a) = w.from
  /\ \E b \in pinMap(page) : End(b) = w.to

selectWire(i) ==
  /\ Free
  /\ i \in DOMAIN page.connections
  /\ WireDrawn(page.connections[i])
  /\ sel' = Selected("wire", "input", Unnamed, i)
  /\ UNCHANGED <<page, drag, draft, edits, former, blame>>

grabPin(pin) ==
  /\ Free
  /\ pin \in pinMap(page)
  /\ sel' = Unselected
  /\ draft' = [on |-> TRUE, from |-> {pin}, target |-> {}]
  /\ UNCHANGED <<page, drag, edits, former, blame>>

(* moveDraft: the nearest pin that could take the wire, or none. *)
moveDraft ==
  /\ draft.on
  /\ \E target \in SUBSET pinMap(page) :
       /\ Cardinality(target) <= 1
       /\ \A a \in draft.from, b \in target : connectable(a, b)
       /\ target # draft.target
       /\ draft' = [draft EXCEPT !.target = target]
  /\ UNCHANGED <<page, sel, drag, edits, former, blame>>

AtIndex(s, k, look) ==
  [i \in DOMAIN s |-> IF i = k THEN [s[i] EXCEPT !.look = look] ELSE s[i]]

Moved(look) ==
  CASE drag.kind = "port"     -> [page EXCEPT !.interface[drag.dir] =
                                    AtIndex(@, drag.index, look)]
    [] drag.kind = "constant" -> [page EXCEPT !.constants =
                                    Restyled(@, drag.id, look)]
    [] OTHER                  -> [page EXCEPT !.blocks =
                                    Restyled(@, drag.id, look)]

(* moveElement: only when no wire is being drawn (handleMove). *)
moveElement(look) ==
  /\ ~draft.on
  /\ drag.kind # "none"
  /\ patch(Moved(look))
  /\ page' # page
  /\ UNCHANGED <<sel, drag, draft, former, blame>>

(* Mutant of Wired: the input keeps the source it had. *)
WiredTwice(w) ==
  IF \E i \in DOMAIN page.connections : page.connections[i] = w THEN page
  ELSE [page EXCEPT !.connections = Append(@, w)]

(* commitDraft: a wire that is there stays alone; an input that had a source is
   re-wired. *)
Wired(w) ==
  IF \E i \in DOMAIN page.connections : page.connections[i] = w THEN page
  ELSE [page EXCEPT !.connections =
          Append(IF driverOn(page, w.to)
                 THEN Kept(@, {i \in DOMAIN @ : @[i].to # w.to}) ELSE @, w)]

commitDraft ==
  \E a \in draft.from, b \in draft.target :
    /\ Len(page.connections) < MaxWires \/ driverOn(page, Wire(a, b).to)
    /\ patch(Wired(Wire(a, b)))

handleUp ==
  /\ draft.on \/ drag.kind # "none"
  /\ IF draft.target # {} THEN commitDraft ELSE UNCHANGED <<page, edits>>
  /\ draft' = NoDraft
  /\ drag' = Unselected
  /\ UNCHANGED <<sel, former, blame>>

(* A press on the bare sheet drops the selection and both gestures. *)
pressSheet ==
  /\ Free
  /\ sel' = Unselected
  /\ draft' = NoDraft
  /\ drag' = Unselected
  /\ UNCHANGED <<page, edits, former, blame>>

-----------------------------------------------------------------------------
(* loadPage, jumpTo: another document is put on the sheet, whatever the pointer
   is doing; a jump also selects the element it was about. *)
Arrive(d) ==
  /\ page' = d
  /\ \/ sel' = Unselected
     \/ \E id \in Ids(d.blocks) : sel' = Selected("block", "input", id, 0)
     \/ \E dir \in Dirs : \E id \in Ids(d.interface[dir]) :
          sel' = Selected("port", dir, id, 0)
  /\ former' = {}
  /\ blame' = IF draft.on \/ drag.kind # "none" THEN {"reloaded"} ELSE {}
  /\ UNCHANGED <<drag, draft, edits>>

SheetInit ==
  /\ page \in Arrivals
  /\ sel = Unselected /\ drag = Unselected /\ draft = NoDraft
  /\ edits = 0 /\ former = {} /\ blame = {}

(* A name an engineer may type: one that is in use, or a fresh one. *)
Typed(taken) == taken \cup {<<"typed", 1>>}

SheetNext ==
  \/ \E type \in DOMAIN Library : dropBlock(type)
  \/ addConstant
  \/ \E dir \in Dirs : addNewPort(dir)
  \/ \E dir \in Dirs, name \in Points : addOfferedPort(dir, name)
  \/ \E name \in PortNames(page) : focusPort(name)
  \/ removeSelection
  \/ \E new \in Typed(NodeIds(page)) : renameBlock(new) \/ renameConstant(new)
  \/ \E new \in Typed(PortNames(page) \cup WiredPorts) : renamePort(new)
  \/ \E look \in Looks : patchSelected(look) \/ moveElement(look)
  \/ grabElement
  \/ \E i \in DOMAIN page.connections : selectWire(i)
  \/ \E pin \in pinMap(page) : grabPin(pin)
  \/ moveDraft
  \/ handleUp
  \/ pressSheet
  \/ \E d \in Arrivals : Arrive(d)

SheetSpec == SheetInit /\ [][SheetNext]_sheetVars

-----------------------------------------------------------------------------
(* Every wire of d ends on a pin of its side, or on a node that is in old. *)
Anchored(d, old) ==
  \A i \in DOMAIN d.connections :
    LET w == d.connections[i] IN
    /\ Pin(w.from.block, w.from.port, "output") \in pinMap(d) \/ w.from.block \in old
    /\ Pin(w.to.block, w.to.port, "input") \in pinMap(d) \/ w.to.block \in old

(* No input of d has two sources. *)
SingleDriven(d) ==
  \A i, j \in DOMAIN d.connections :
    d.connections[i].to = d.connections[j].to => i = j

(* No two nodes and no two ports of d have one name. *)
Apart(s) == \A i, j \in DOMAIN s : s[i].id = s[j].id => i = j
NamedApart(d) ==
  /\ Apart(d.blocks) /\ Apart(d.constants)
  /\ Ids(d.blocks) \cap Ids(d.constants) = {}
  /\ \A a \in Dirs : Apart(d.interface[a])
  /\ \A a, b \in Dirs :
       a # b => Ids(d.interface[a]) \cap Ids(d.interface[b]) = {}

(* The stored pages are as the sheet should leave them ("Names are unique per
   page", graph/service.py 11).  Hypothesis of the theorems: a page that was
   stored otherwise stays otherwise until it is repaired by hand. *)
StoredSoundly ==
  \A d \in Arrivals : NamedApart(d) /\ Anchored(d, {}) /\ SingleDriven(d)

(* Every wire on the page ends on a pin of its side, or on an id that was
   renamed away (the name fields leave the wires behind).  commitDraft joins
   the pins captured when the gesture began, so a deletion, a rename or a new
   page during the gesture, and a rename onto a taken name, are excused. *)
WiresAnchored == blame = {} => Anchored(page, former)

(* No input has two sources ("re-wired rather than double-driven",
   Sheet.tsx 277), however wires, renames, deletions and reloads alternate,
   until a port is given a name that another port has, or a wire of a deleted
   one: then two wires meet. *)
OneDriver == blame \cap {"collided", "crossed"} = {} => SingleDriven(page)

(* uniqueId never gives two elements one name, not even a name freed by a
   deletion and taken again, until the engineer types a taken name. *)
NamesUnique ==
  "collided" \notin blame =>
    /\ Cardinality(NodeIds(page)) = Len(page.blocks) + Len(page.constants)
    /\ Cardinality(PortNames(page)) = PortCount

(* The elements a step changed in place. *)
Touched(kind, s, t) ==
  {[kind |-> kind, id |-> s[i].id] :
     i \in {j \in DOMAIN s \cap DOMAIN t : s[j] # t[j]}}

(* A pointer move moves the element that was grabbed and no other, although it
   is looked up again by its place (ports) or its id at every move, after
   other elements were added and edited meanwhile.  Excused: an element was
   deleted or renamed during the gesture (a deletion shifts the places), two
   elements share a name, or another page was put under the gesture. *)
MovesGrabbed ==
  [][\A look \in Looks :
       moveElement(look) /\ blame = {} =>
         Touched("block", page.blocks, page'.blocks)
           \cup Touched("constant", page.constants, page'.constants)
           \cup (UNION {Touched("port", page.interface[dir], page'.interface[dir])
                         : dir \in Dirs})
         = {[kind |-> drag.kind, id |-> drag.id]}]_sheetVars

-----------------------------------------------------------------------------
(* The inductive invariant of the sheet, part by part. *)

PinPoint ==
  [block : {INTERFACE}, port : Name, dir : {"input", "output"}]
    \cup [block : Name \ {INTERFACE}, port : Text, dir : {"input", "output"}]
Selection ==
  [kind : {"none", "block", "constant", "port", "wire"}, dir : Dirs, id : Name,
   index : Nat]

SheetTypes ==
  /\ page \in PageDoc
  /\ sel \in Selection /\ drag \in Selection
  /\ draft \in [on : BOOLEAN, from : SUBSET PinPoint, target : SUBSET PinPoint]
  /\ former \in SUBSET Name
  /\ blame \in SUBSET {"collided", "reloaded", "cut", "crossed"}

(* Names are apart until the engineer types a taken one. *)
NamesApart == "collided" \notin blame => NamedApart(page)

(* A draft joins an output to an input, and while nothing was deleted, renamed
   or reloaded under it the pins it captured are pins of the page. *)
DraftJoins ==
  /\ ~draft.on => draft = NoDraft
  /\ \A a \in draft.from, b \in draft.target : connectable(a, b)
  /\ blame = {} => draft.from \cup draft.target \subseteq pinMap(page)

(* A grabbed port is still at the place it was grabbed at. *)
DragInPlace ==
  blame = {} /\ drag.kind = "port" =>
    /\ drag.index \in DOMAIN page.interface[drag.dir]
    /\ page.interface[drag.dir][drag.index].id = drag.id

SheetInv ==
  SheetTypes /\ NamesApart /\ WiresAnchored /\ OneDriver /\ DraftJoins /\ DragInPlace
================================================================================

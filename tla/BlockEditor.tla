------------------------------ MODULE BlockEditor ------------------------------
(***************************************************************************)
(* The algorithm-block editor while it is open                             *)
(* (veri-ide/web/src/components/library/BlockEditor.tsx): the fields, the   *)
(* undo history with its half-second debounce, and the Simulate tab with    *)
(* its stimulus grid.  What the library page and the back end do around it  *)
(* is in Library, which extends this module.                                *)
(*                                                                         *)
(* The fields fall in groups by how they reach the history: `text` (name,   *)
(* version, description, author, tags, symbol) and `source` are pushed half *)
(* a second after the last key, `choice` (category, kind, symbol reset)     *)
(* pushes at once what was there before, `ports` pushes at once what is     *)
(* there now.  A value is the number of the edit that made it; source 0 is  *)
(* an empty source.  `of` is the block the fields were loaded from.         *)
(***************************************************************************)
EXTENDS Integers, Sequences, FiniteSets

CONSTANTS
  MaxBlocks,   \* bound: blocks ever stored
  MaxEdits,    \* bound: edits of the fields
  MaxHistory,  \* snapshots kept: 80 in the code
  MaxActs,     \* bound: things the engineer does
  Ports,       \* the BOOL inputs of the simulated block
  MaxCycles,   \* bound: rows of the stimulus grid
  FirstCycles, \* rows the Simulate tab opens with: 4 in the code
  ScriptMax    \* script records the runner takes: 64 in the code

ASSUME EditorAssumption ==
  /\ MaxBlocks \in Nat \ {0} /\ MaxEdits \in Nat /\ MaxActs \in Nat
  /\ MaxHistory \in Nat \ {0}
  /\ IsFiniteSet(Ports) /\ Ports # {}
  /\ MaxCycles \in Nat \ {0} /\ FirstCycles \in 1 .. MaxCycles
  /\ ScriptMax \in Nat

Ids == 1 .. MaxBlocks
Doc(of, text, source, choice, ports) ==
  [of |-> of, text |-> text, source |-> source, choice |-> choice, ports |-> ports]
NewDoc == Doc(0, 0, 0, 0, 0)
Content(d) == <<d.text, d.source, d.choice, d.ports>>
Closed == [id |-> -1, stamp |-> 0]      \* no block is open

VARIABLES
  editing,  \* the block the editor was given: its id (0: not stored yet) and stamp
  doc,      \* the fields
  dirty,    \* the unsaved mark
  saving,   \* the Save button shows "saving"
  session,  \* how often the editor was mounted
  hist,     \* the snapshots
  at,       \* position in the snapshots
  pending,  \* a debounced snapshot is due
  sim,      \* the Simulate tab, NoSim while the Edit tab is shown
  edits,    \* edits made so far
  acts,     \* things the engineer did so far
  lagged    \* history: the fields changed without a snapshot of what they are now

fields  == <<doc, dirty, edits>>
history == <<hist, at, pending, lagged>>
editorVars == <<editing, fields, saving, session, history, sim, acts>>

IsOpen == editing.id >= 0

-----------------------------------------------------------------------------
(* The undo history. *)

(* Mutant of Pushed: what was undone is kept behind the new snapshot. *)
PushedKeepsTail(d) ==
  IF at = MaxHistory
  THEN /\ hist' = Append(Tail(hist), d)
       /\ at' = at
  ELSE /\ hist' = Append(hist, d)
       /\ at' = at + 1

(* pushSnapshot: what was undone is cut off; when the history is full the
   oldest snapshot goes and the position stays. *)
Pushed(d) ==
  LET kept == Append(SubSeq(hist, 1, at), d) IN
  IF Len(kept) > MaxHistory
  THEN /\ hist' = Tail(kept)
       /\ at' = at
  ELSE /\ hist' = kept
       /\ at' = Len(kept)

(* debouncedPush running out: a snapshot of the fields as they are now. *)
Debounced ==
  /\ IsOpen /\ pending
  /\ Pushed(doc)
  /\ pending' = FALSE
  /\ lagged' = FALSE
  /\ UNCHANGED <<editing, fields, saving, session, sim, acts>>

(* restoreSnapshot: the fields of a snapshot, marked unsaved.  A debounced
   snapshot that is still due stays due. *)
Restored(i) ==
  /\ doc' = hist[i]
  /\ dirty' = TRUE
  /\ at' = i
  /\ lagged' = FALSE
  /\ UNCHANGED <<hist, pending, edits>>

undo == at > 1 /\ Restored(at - 1)

redo == at < Len(hist) /\ Restored(at + 1)

-----------------------------------------------------------------------------
(* The fields. *)

Edited(d) ==
  /\ edits < MaxEdits
  /\ doc' = d
  /\ dirty' = TRUE
  /\ edits' = edits + 1

(* debouncedPush: a typed field is marked unsaved, its snapshot follows half a
   second after the last key. *)
Typed(d) ==
  /\ Edited(d)
  /\ pending' = TRUE
  /\ UNCHANGED <<hist, at, lagged>>

(* A snapshot taken before React has rendered the new value repeats the old. *)
Chosen(d) ==
  /\ Edited(d)
  /\ Pushed(doc)
  /\ lagged' = TRUE
  /\ UNCHANGED pending

(* Name, version, description, author, tags. *)
TypedText == Doc(doc.of, edits + 1, doc.source, doc.choice, doc.ports)
NewChoice == Doc(doc.of, doc.text, doc.source, edits + 1, doc.ports)

EditMeta == Typed(TypedText)

(* Category and kind. *)
EditChoice == Chosen(NewChoice)

(* The symbol: drawn by hand, or reset to the generated one. *)
EditSymbol ==
  \/ Typed(TypedText)
  \/ Chosen(NewChoice)

(* The source: typed, or replaced by the skeleton of the ports. *)
EditSource == Typed(Doc(doc.of, doc.text, edits + 1, doc.choice, doc.ports))

(* A port or parameter added, changed or removed: the snapshot is given the new
   list. *)
EditPorts ==
  /\ Edited(Doc(doc.of, doc.text, doc.source, doc.choice, edits + 1))
  /\ Pushed(doc')
  /\ lagged' = FALSE
  /\ UNCHANGED pending

-----------------------------------------------------------------------------
(* The Simulate tab.  Its state lives and dies with the tab, and an answer that
   comes after it is gone is dropped.  The block it names to the back end is the
   stored one. *)

NoCall == [on |-> FALSE]
NoRun  == [ok |-> FALSE, k |-> 0]
NoSim  == [on |-> FALSE]

AllLow(n) == [c \in 1 .. n |-> [p \in Ports |-> FALSE]]

Sim(mode, grid, step, run, call, stale) ==
  [on |-> TRUE, mode |-> mode, grid |-> grid, step |-> step, run |-> run, call |-> call,
   stale |-> stale]
NewSim == Sim("cycle", AllLow(FirstCycles), 0, NoRun, NoCall, FALSE)

(* A call that is out, and what becomes of the tab when one is sent. *)
Out(kind, k, stim, late) ==
  [on |-> TRUE, kind |-> kind, id |-> editing.id, k |-> k, stim |-> stim, late |-> late]
Calling(call) == Sim(sim.mode, sim.grid, sim.step, sim.run, call, sim.stale)

(* buildGrid: cells that were there keep their value, new rows are low. *)
buildGrid(n, prev) ==
  [c \in 1 .. n |-> IF c \in DOMAIN prev THEN prev[c] ELSE AllLow(n)[c]]

(* Mutant of buildStimulus: the last cycle is left out of the comparison. *)
buildStimulusShort(grid, upto) ==
  LET constant == {p \in Ports : \A c \in 2 .. upto - 1 : grid[c][p] = grid[1][p]}
      changes == {x \in (1 .. upto) \X (Ports \ constant) :
                    x[1] = 1 \/ grid[x[1]][x[2]] # grid[x[1] - 1][x[2]]}
  IN [forces |-> [p \in constant |-> grid[1][p]],
      script |-> {[cycle |-> x[1], name |-> x[2], value |-> grid[x[1]][x[2]]] : x \in changes}]

(* buildStimulus: an input that holds one value over the cycles run is a force;
   any other is script records, one at cycle 1 and one at each change. *)
buildStimulus(grid, upto) ==
  LET constant == {p \in Ports : \A c \in 2 .. upto : grid[c][p] = grid[1][p]}
      changes == {x \in (1 .. upto) \X (Ports \ constant) :
                    x[1] = 1 \/ grid[x[1]][x[2]] # grid[x[1] - 1][x[2]]}
  IN [forces |-> [p \in constant |-> grid[1][p]],
      script |-> {[cycle |-> x[1], name |-> x[2], value |-> grid[x[1]][x[2]]] : x \in changes}]

(* What the runner drives: a forced symbol all along, a scripted one from its
   latest record on. *)
Driven(stim, c, p) ==
  IF p \in DOMAIN stim.forces THEN stim.forces[p]
  ELSE LET last == {r \in stim.script : r.name = p /\ r.cycle <= c} IN
       (CHOOSE r \in last : \A s \in last : s.cycle <= r.cycle).value

(* runCycles: refused while a run is out; over the script budget it reports an
   error without asking. *)
runCycles(k) ==
  LET stim == buildStimulus(sim.grid, k) IN
  /\ ~sim.call.on
  /\ k \in 1 .. Len(sim.grid)
  /\ IF Cardinality(stim.script) > ScriptMax
     THEN sim' = Sim(sim.mode, sim.grid, sim.step, NoRun, sim.call, sim.stale)
     ELSE sim' = Calling(Out("cycle", k, stim, FALSE))

handleStep == sim.mode = "cycle" /\ runCycles(sim.step + 1)

handleRunAll == sim.mode = "cycle" /\ runCycles(Len(sim.grid))

(* handleRunTruth: every combination in one run, whatever the grid holds.  It
   does not look at the script budget. *)
handleRunTruth ==
  /\ sim.mode = "truth"
  /\ ~sim.call.on
  /\ sim' = Calling(Out("truth", 2 ^ Cardinality(Ports), NoRun, FALSE))

(* The call that is out was made for a grid that is no longer shown. *)
Late == IF sim.call.on
        THEN [on |-> TRUE, kind |-> sim.call.kind, id |-> sim.call.id, k |-> sim.call.k,
              stim |-> sim.call.stim, late |-> TRUE]
        ELSE sim.call

(* setCell: what was stepped is discarded; a run that is out is not. *)
setCell(c, p, v) ==
  sim' = Sim(sim.mode, [sim.grid EXCEPT ![c] = [sim.grid[c] EXCEPT ![p] = v]], 0, NoRun,
             Late, FALSE)

(* The cycle count: the grid follows, the run shown stays. *)
setCycles(n) ==
  /\ n # Len(sim.grid)
  /\ sim' = Sim(sim.mode, buildGrid(n, sim.grid), sim.step, sim.run, Late,
                sim.stale \/ sim.run.ok)

(* The mode buttons: the run shown stays, read as the other table. *)
setMode ==
  sim' = Sim(IF sim.mode = "cycle" THEN "truth" ELSE "cycle", sim.grid, sim.step, sim.run,
             sim.call, sim.stale)

reset ==
  sim' = Sim(sim.mode, AllLow(Len(sim.grid)), 0, NoRun, Late, FALSE)

(* The answer of /sim/run-block: frames, or an error report. *)
RunAnswer(ok) ==
  LET call == sim.call IN
  /\ sim.on /\ call.on
  /\ sim' = Sim(sim.mode, sim.grid,
                IF ok /\ call.kind = "cycle" THEN call.k ELSE sim.step,
                IF ok THEN [ok |-> TRUE, kind |-> call.kind, k |-> call.k, stim |-> call.stim]
                      ELSE NoRun,
                NoCall,
                ok /\ call.late)
  /\ UNCHANGED <<editing, fields, saving, session, history, acts>>

Simulate ==
  /\ sim.on
  /\ \/ handleStep \/ handleRunAll \/ handleRunTruth \/ setMode \/ reset
     \/ \E c \in DOMAIN sim.grid, p \in Ports : setCell(c, p, ~sim.grid[c][p])
     \/ \E n \in 1 .. MaxCycles : setCycles(n)
  /\ UNCHANGED <<fields, history>>

(* The tabs.  Leaving Simulate loses it; coming back to Edit mounts the source
   section again, which writes a skeleton over an empty source. *)
ToSimulate ==
  /\ ~sim.on
  /\ sim' = NewSim
  /\ UNCHANGED <<fields, history>>

ToEdit ==
  /\ sim.on
  /\ sim' = NoSim
  /\ IF doc.source = 0 /\ edits < MaxEdits THEN EditSource ELSE UNCHANGED <<fields, history>>

-----------------------------------------------------------------------------
(* The editor mounted on a block: fields, first snapshot.  The source section
   asks for a skeleton first, the reset effect takes it back: only the debounced
   snapshot remains due. *)
Mounted(d) ==
  /\ doc' = d /\ dirty' = FALSE
  /\ session' = session + 1
  /\ hist' = <<d>> /\ at' = 1
  /\ pending' = (d.source = 0)
  /\ lagged' = FALSE
  /\ sim' = NoSim

(* setEditingBlock: mounts the editor, or gives the mounted one another block;
   then the reset effect runs when the block's id or stamp changed.  The
   history is not reset. *)
SetEditing(b) ==
  /\ editing' = [id |-> b.id, stamp |-> b.stamp]
  /\ IF ~IsOpen THEN Mounted(b.doc)
     ELSE IF editing' = editing THEN UNCHANGED <<doc, dirty, session, history, sim>>
     ELSE /\ doc' = b.doc
          /\ dirty' = FALSE
          /\ lagged' = (lagged \/ Content(b.doc) # Content(doc))
          /\ UNCHANGED <<session, hist, at, pending, sim>>

(* handleClose: asks when there is something unsaved; the engineer who means it
   confirms. *)
handleClose ==
  /\ editing' = Closed
  /\ doc' = NewDoc /\ dirty' = FALSE /\ saving' = FALSE
  /\ hist' = <<>> /\ at' = 0
  /\ pending' = FALSE /\ lagged' = FALSE
  /\ sim' = NoSim

(* What the engineer does inside the editor that asks nothing of the back end. *)
EditorAct ==
  /\ IsOpen
  /\ acts < MaxActs
  /\ acts' = acts + 1
  /\ \/ /\ \/ undo \/ redo
           \/ ~sim.on /\ (EditMeta \/ EditChoice \/ EditSymbol \/ EditSource \/ EditPorts)
        /\ UNCHANGED sim
     \/ Simulate \/ ToSimulate \/ ToEdit
  /\ UNCHANGED <<editing, saving, session>>

EditorInit ==
  /\ editing = Closed
  /\ doc = NewDoc /\ dirty = FALSE /\ saving = FALSE
  /\ session = 0
  /\ hist = <<>> /\ at = 0
  /\ pending = FALSE /\ lagged = FALSE
  /\ sim = NoSim
  /\ edits = 0 /\ acts = 0

-----------------------------------------------------------------------------
(* When no debounced snapshot is due and the last change was not a category,
   kind or symbol-reset, the snapshot the history stands on is what the fields
   show: undo then leads to the state before the last change and redo back to
   the present one.  About pushSnapshot, debouncedPush, undo, redo and the
   80-snapshot limit. *)
HistoryTracks ==
  IsOpen /\ ~pending /\ ~lagged => at \in DOMAIN hist /\ Content(hist[at]) = Content(doc)

(* A cycle run on the screen was driven, cycle by cycle and port by port, by the
   values the grid shows, unless the grid was edited while the run was out or the
   cycle count was changed under it.  About buildStimulus, runCycles, setCell and
   reset. *)
RunMatchesGrid ==
  (sim.on /\ sim.run.ok /\ ~sim.stale) =>
    \/ sim.run.kind = "truth"
    \/ /\ sim.run.k <= Len(sim.grid)
       /\ \A c \in 1 .. sim.run.k, p \in Ports :
            Driven(sim.run.stim, c, p) = sim.grid[c][p]

(* Why they hold.  The position is in the history, which is not too long. *)
Docs == [of : Nat, text : Nat, source : Nat, choice : Nat, ports : Nat]

HistoryInv ==
  /\ hist \in Seq(Docs) /\ doc \in Docs /\ edits \in Nat
  /\ dirty \in BOOLEAN /\ pending \in BOOLEAN /\ lagged \in BOOLEAN
  /\ IsOpen => at \in 1 .. Len(hist) /\ Len(hist) <= MaxHistory
  /\ IsOpen /\ ~pending /\ ~lagged => Content(hist[at]) = Content(doc)

(* A run, on its way or on the screen, was made from the grid as it is. *)
MadeFrom(grid, r) ==
  r.kind = "truth" \/ (r.k \in 1 .. Len(grid) /\ r.stim = buildStimulus(grid, r.k))

SimInv ==
  sim.on =>
    /\ sim.grid \in Seq([Ports -> BOOLEAN])
    /\ sim.run.ok \in BOOLEAN /\ sim.stale \in BOOLEAN /\ sim.call.on \in BOOLEAN
    /\ sim.call.on => sim.call.late \in BOOLEAN
    /\ sim.call.on /\ ~sim.call.late => MadeFrom(sim.grid, sim.call)
    /\ sim.run.ok /\ ~sim.stale => MadeFrom(sim.grid, sim.run)
=============================================================================

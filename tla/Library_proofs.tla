---------------------------- MODULE Library_proofs ----------------------------
(***************************************************************************)
(* Proofs about the library page and the block editor, for any number of   *)
(* blocks, edits, calls in flight and failures, any length of the undo     *)
(* history, any stimulus grid and any script budget.                       *)
(***************************************************************************)
EXTENDS Library, SequenceTheorems, WellFoundedInduction, FiniteSetTheorems, TLAPS

-----------------------------------------------------------------------------
(* A set of natural numbers that is not empty has a least one. *)
LEMMA Least ==
  ASSUME NEW S \in SUBSET Nat, NEW n \in S
  PROVE  \E s \in S : \A t \in S : s <= t
<1> DEFINE Below == OpToRel(<, Nat)
<1>1. IsWellFoundedOn(Below, Nat)
  BY NatLessThanWellFounded, Zenon
<1>2. \A x, y \in Nat : <<x, y>> \in Below <=> x < y
  BY DEF OpToRel
<1> HIDE DEF Below
<1>3. PICK s \in S : \A t \in S : <<t, s>> \notin Below
  BY <1>1, WFMin, Zenon
<1>4. ASSUME NEW t \in S PROVE s <= t
  <2>1. s \in Nat /\ t \in Nat /\ ~(t < s)
    BY <1>2, <1>3
  <2>2. QED
    BY <2>1
<1>5. QED
  BY <1>4

-----------------------------------------------------------------------------
(* The stimulus grid. *)

Grids == Seq([Ports -> BOOLEAN])

LEMMA GridRows ==
  ASSUME NEW grid \in Grids
  PROVE  /\ Len(grid) \in Nat /\ DOMAIN grid = 1 .. Len(grid)
         /\ \A c \in 1 .. Len(grid) : grid[c] \in [Ports -> BOOLEAN]
BY LenProperties, ElementOfSeq DEF Grids

(* A set of cycles has a last one. *)
LEMMA LastCycle ==
  ASSUME NEW c \in Nat, NEW M \in SUBSET (1 .. c), NEW n \in M
  PROVE  \E m \in M : \A k \in M : k <= m
<1> DEFINE S == {c - m : m \in M}
<1>1. S \subseteq Nat /\ c - n \in S
  OBVIOUS
<1> HIDE DEF S
<1>2. PICK s \in S : \A t \in S : s <= t
  BY <1>1, Least, Zenon
<1> USE DEF S
<1>3. PICK m \in M : s = c - m
  BY <1>2
<1>4. ASSUME NEW k \in M PROVE k <= m
  <2>1. c - m <= c - k
    BY <1>2, <1>3
  <2>2. c \in Int /\ m \in Int /\ k \in Int
    OBVIOUS
  <2>3. QED
    BY <2>1, <2>2
<1>5. QED
  BY <1>4

(* An input that does not change after a cycle still has its value. *)
LEMMA Unchanged ==
  ASSUME NEW grid \in Grids, NEW p \in Ports, NEW c \in 1 .. Len(grid), NEW m \in 1 .. c,
         \A k \in 1 .. c : m < k => grid[k][p] = grid[k - 1][p]
  PROVE  grid[c][p] = grid[m][p]
<1>1. Len(grid) \in Nat /\ c \in Nat /\ m \in Nat /\ 1 <= m /\ m <= c
  BY GridRows
<1> DEFINE bad == {k \in m .. c : grid[k][p] # grid[m][p]}
<1>2. SUFFICES ASSUME c \in bad PROVE FALSE
  BY <1>1
<1>3. bad \subseteq Nat
  BY <1>1
<1> HIDE DEF bad
<1>4. PICK d \in bad : \A k \in bad : d <= k
  BY <1>2, <1>3, Least, Zenon
<1> USE DEF bad
<1>5. d \in m .. c /\ grid[d][p] # grid[m][p] /\ d # m
  BY <1>4
<1>6. d - 1 \in m .. c /\ d - 1 < d /\ m < d /\ d \in 1 .. c
  BY <1>1, <1>5
<1>7. d - 1 \notin bad
  BY <1>1, <1>4, <1>6
<1>8. grid[d - 1][p] = grid[m][p]
  BY <1>6, <1>7
<1>9. grid[d][p] = grid[d - 1][p]
  BY <1>6
<1>10. QED
  BY <1>5, <1>8, <1>9

(* What buildStimulus makes of a grid drives the grid's values. *)
LEMMA StimulusDrives ==
  ASSUME NEW grid \in Grids, NEW k \in 1 .. Len(grid), NEW c \in 1 .. k, NEW p \in Ports
  PROVE  Driven(buildStimulus(grid, k), c, p) = grid[c][p]
<1> DEFINE constant == {q \in Ports : \A x \in 2 .. k : grid[x][q] = grid[1][q]}
           changes == {x \in (1 .. k) \X (Ports \ constant) :
                         x[1] = 1 \/ grid[x[1]][x[2]] # grid[x[1] - 1][x[2]]}
           record(x) == [cycle |-> x[1], name |-> x[2], value |-> grid[x[1]][x[2]]]
           script == {record(x) : x \in changes}
           stim == buildStimulus(grid, k)
<1>1. Len(grid) \in Nat /\ k \in Nat /\ c \in Nat /\ 1 <= c /\ c <= k /\ k <= Len(grid)
  BY GridRows
<1>2. stim.forces = [q \in constant |-> grid[1][q]] /\ stim.script = script
  BY DEF buildStimulus
<1> HIDE DEF stim
<1>3. CASE p \in constant
  <2>1. Driven(stim, c, p) = grid[1][p]
    BY <1>2, <1>3 DEF Driven
  <2>2. c = 1 \/ c \in 2 .. k
    BY <1>1
  <2>3. grid[c][p] = grid[1][p]
    BY <1>3, <2>2
  <2>4. QED
    BY <2>1, <2>3 DEF stim
<1>4. CASE p \notin constant
  <2> DEFINE last == {r \in stim.script : r.name = p /\ r.cycle <= c}
             M == {m \in 1 .. c : m = 1 \/ grid[m][p] # grid[m - 1][p]}
  <2>1. Driven(stim, c, p) = (CHOOSE r \in last : \A s \in last : s.cycle <= r.cycle).value
    BY <1>2, <1>4 DEF Driven
  <2>2. \A m \in M : <<m, p>> \in changes
    BY <1>1, <1>4
  <2>3. \A m \in M : record(<<m, p>>) \in last
    <3>1. \A m \in M : record(<<m, p>>) \in stim.script
      BY <1>2, <2>2
    <3>2. \A m \in M : record(<<m, p>>).name = p /\ record(<<m, p>>).cycle <= c
      BY <1>1
    <3>3. QED
      BY <3>1, <3>2
  <2>4. \A r \in last : r.cycle \in M /\ r.value = grid[r.cycle][p]
    <3>1. SUFFICES ASSUME NEW r \in last PROVE r.cycle \in M /\ r.value = grid[r.cycle][p]
      OBVIOUS
    <3>2. PICK x \in changes : r = record(x)
      BY <1>2
    <3>3. r.name = x[2] /\ r.cycle = x[1] /\ r.value = grid[x[1]][x[2]] /\ x[2] = p
      BY <3>2
    <3>4. x[1] \in 1 .. k /\ (x[1] = 1 \/ grid[x[1]][p] # grid[x[1] - 1][p])
      BY <3>2, <3>3
    <3>5. x[1] <= c
      BY <3>1, <3>3
    <3>6. QED
      BY <1>1, <3>3, <3>4, <3>5
  <2>5. M \subseteq 1 .. c /\ 1 \in M
    BY <1>1
  <2>6. PICK m \in M : \A j \in M : j <= m
    BY <1>1, <2>5, LastCycle
  <2>7. m \in 1 .. c
    BY <2>5, <2>6
  <2>8. \A j \in 1 .. c : m < j => grid[j][p] = grid[j - 1][p]
    <3>1. SUFFICES ASSUME NEW j \in 1 .. c, m < j PROVE grid[j][p] = grid[j - 1][p]
      OBVIOUS
    <3>2. j \notin M
      BY <1>1, <2>6, <2>7, <3>1
    <3>3. QED
      BY <3>2
  <2>9. c \in 1 .. Len(grid)
    BY <1>1
  <2> HIDE DEF M
  <2>10. grid[c][p] = grid[m][p]
    BY <2>7, <2>8, <2>9, Unchanged
  <2> HIDE DEF last
  <2>11. record(<<m, p>>) \in last /\ record(<<m, p>>).cycle = m
    BY <2>3, <2>6
  <2>12. \E r \in last : \A s \in last : s.cycle <= r.cycle
    BY <2>4, <2>6, <2>11
  <2> DEFINE pick == CHOOSE r \in last : \A s \in last : s.cycle <= r.cycle
  <2>13. pick \in last /\ \A s \in last : s.cycle <= pick.cycle
    BY <2>12
  <2> HIDE DEF pick
  <2>14. pick.cycle = m
    <3>1. m <= pick.cycle
      BY <2>11, <2>13
    <3>2. pick.cycle \in M /\ pick.cycle <= m
      BY <2>4, <2>6, <2>13
    <3>3. pick.cycle \in Int /\ m \in Int
      <4>1. 1 .. c \subseteq Int
        BY <1>1
      <4>2. QED
        BY <2>5, <2>6, <3>2, <4>1
    <3>4. QED
      BY <3>1, <3>2, <3>3
  <2>15. pick.value = grid[m][p]
    BY <2>4, <2>13, <2>14
  <2>16. QED
    BY <2>1, <2>10, <2>15 DEF pick, stim
<1>5. QED
  BY <1>3, <1>4

-----------------------------------------------------------------------------
(* The undo history. *)

LEMMA HistoryFacts ==
  ASSUME HistoryInv
  PROVE  /\ Len(hist) \in Nat /\ DOMAIN hist = 1 .. Len(hist)
         /\ \A k \in 1 .. Len(hist) : hist[k] \in Docs
BY LenProperties, ElementOfSeq DEF HistoryInv

(* A snapshot pushed is the one the history stands on, the others were there
   before, and the history is not longer than it may be. *)
LEMMA PushedHistory ==
  ASSUME HistoryInv, IsOpen, NEW d \in Docs, Pushed(d)
  PROVE  /\ hist' \in Seq(Docs) /\ at' \in 1 .. Len(hist') /\ Len(hist') <= MaxHistory
         /\ hist'[at'] = d
         /\ \A k \in DOMAIN hist' : hist'[k] = d \/ \E j \in DOMAIN hist : hist'[k] = hist[j]
<1> DEFINE cut == SubSeq(hist, 1, at)
           kept == Append(cut, d)
<1>1. /\ hist \in Seq(Docs) /\ at \in 1 .. Len(hist) /\ Len(hist) \in Nat /\ at \in Nat
      /\ Len(hist) <= MaxHistory /\ MaxHistory \in Nat /\ 1 <= at /\ at <= Len(hist)
  BY HistoryFacts, EditorAssumption DEF HistoryInv
<1>2. \A k \in 1 .. at : hist[k] \in Docs
  BY <1>1, HistoryFacts
<1>3. /\ cut \in Seq(Docs) /\ Len(cut) = at
      /\ \A k \in 1 .. at : cut[k] = hist[k]
  <2>1. /\ cut \in Seq(Docs)
        /\ Len(cut) = IF 1 <= at THEN at - 1 + 1 ELSE 0
        /\ \A k \in 1 .. at - 1 + 1 : cut[k] = hist[1 + k - 1]
    BY <1>1, <1>2, SubSeqProperties
  <2>2. QED
    BY <1>1, <2>1
<1> HIDE DEF cut
<1>4. /\ kept \in Seq(Docs) /\ Len(kept) = at + 1
      /\ kept[at + 1] = d /\ \A k \in 1 .. at : kept[k] = hist[k]
  <2>1. /\ kept \in Seq(Docs) /\ Len(kept) = Len(cut) + 1
        /\ \A k \in 1 .. Len(cut) + 1 : kept[k] = IF k <= Len(cut) THEN cut[k] ELSE d
    BY <1>3, AppendProperties
  <2>2. QED
    BY <1>1, <1>3, <2>1
<1>5. \/ Len(kept) > MaxHistory /\ hist' = Tail(kept) /\ at' = at
      \/ ~(Len(kept) > MaxHistory) /\ hist' = kept /\ at' = Len(kept)
  BY DEF Pushed, cut
<1> HIDE DEF kept
<1>6. CASE Len(kept) > MaxHistory /\ hist' = Tail(kept) /\ at' = at
  <2>1. kept # << >>
    BY <1>1, <1>4, EmptySeq
  <2>2. /\ Tail(kept) \in Seq(Docs) /\ Len(Tail(kept)) = Len(kept) - 1
        /\ \A k \in 1 .. Len(Tail(kept)) : Tail(kept)[k] = kept[k + 1]
    BY <1>4, <2>1, HeadTailProperties
  <2>3. Len(hist') = at /\ \A k \in 1 .. at : hist'[k] = kept[k + 1]
    BY <1>1, <1>4, <1>6, <2>2
  <2>4. hist' \in Seq(Docs) /\ hist'[at'] = d /\ at' \in 1 .. Len(hist')
    BY <1>1, <1>4, <1>6, <2>2, <2>3
  <2>5. Len(hist') <= MaxHistory
    BY <1>1, <2>3
  <2>6. DOMAIN hist' = 1 .. at
    BY <2>3, <2>4, LenProperties
  <2>7. ASSUME NEW k \in DOMAIN hist', hist'[k] # d
        PROVE  \E j \in DOMAIN hist : hist'[k] = hist[j]
    <3>1. k \in 1 .. at /\ k # at
      BY <1>1, <1>4, <2>3, <2>6, <2>7
    <3>2. k + 1 \in 1 .. at /\ k + 1 \in DOMAIN hist
      BY <1>1, <3>1, HistoryFacts
    <3>3. QED
      BY <1>4, <2>3, <3>1, <3>2
  <2>8. QED
    BY <2>4, <2>5, <2>7
<1>7. CASE ~(Len(kept) > MaxHistory) /\ hist' = kept /\ at' = Len(kept)
  <2>1. hist' \in Seq(Docs) /\ hist'[at'] = d /\ at' \in 1 .. Len(hist') /\ Len(hist') <= MaxHistory
    BY <1>1, <1>4, <1>7
  <2>2. DOMAIN hist' = 1 .. at + 1
    BY <1>4, <1>7, LenProperties
  <2>3. ASSUME NEW k \in DOMAIN hist', hist'[k] # d
        PROVE  \E j \in DOMAIN hist : hist'[k] = hist[j]
    <3>1. k \in 1 .. at /\ k \in DOMAIN hist
      BY <1>1, <1>4, <1>7, <2>2, <2>3, HistoryFacts
    <3>2. QED
      BY <1>4, <1>7, <3>1
  <2>4. QED
    BY <2>1, <2>3
<1>8. QED
  BY <1>5, <1>6, <1>7

(* The blocks the fields and the snapshots were loaded from. *)
Origins == {doc.of} \cup {hist[k].of : k \in DOMAIN hist}

(* What every change of the fields keeps. *)
FieldsKept ==
  /\ HistoryInv' /\ Origins' \subseteq Origins
  /\ dirty' = TRUE \/ (doc' = doc /\ dirty' = dirty)

LEMMA TypedKeeps ==
  ASSUME HistoryInv, IsOpen, editing' = editing, NEW d \in Docs, d.of = doc.of, Typed(d)
  PROVE  FieldsKept
<1>1. /\ doc' = d /\ dirty' = TRUE /\ edits' = edits + 1 /\ pending' = TRUE
      /\ hist' = hist /\ at' = at /\ lagged' = lagged
  BY DEF Typed, Edited
<1>2. HistoryInv'
  BY <1>1 DEF HistoryInv, IsOpen
<1>3. Origins' \subseteq Origins
  BY <1>1 DEF Origins
<1>4. QED
  BY <1>1, <1>2, <1>3 DEF FieldsKept

LEMMA ChosenKeeps ==
  ASSUME HistoryInv, IsOpen, editing' = editing, NEW d \in Docs, d.of = doc.of, Chosen(d)
  PROVE  FieldsKept
<1>1. /\ doc' = d /\ dirty' = TRUE /\ edits' = edits + 1 /\ pending' = pending
      /\ lagged' = TRUE /\ Pushed(doc)
  BY DEF Chosen, Edited
<1>2. doc \in Docs
  BY DEF HistoryInv
<1>3. /\ hist' \in Seq(Docs) /\ at' \in 1 .. Len(hist') /\ Len(hist') <= MaxHistory
      /\ \A k \in DOMAIN hist' : hist'[k] = doc \/ \E j \in DOMAIN hist : hist'[k] = hist[j]
  BY <1>1, <1>2, PushedHistory
<1>4. HistoryInv'
  BY <1>1, <1>3 DEF HistoryInv, IsOpen
<1>5. Origins' \subseteq Origins
  BY <1>1, <1>3 DEF Origins
<1>6. QED
  BY <1>1, <1>4, <1>5 DEF FieldsKept

LEMMA PortsKeep ==
  ASSUME HistoryInv, IsOpen, editing' = editing, EditPorts
  PROVE  FieldsKept
<1>0. Doc(doc.of, doc.text, doc.source, doc.choice, edits + 1) \in Docs
  BY DEF HistoryInv, Docs, Doc
<1>1. PICK d \in Docs : d = Doc(doc.of, doc.text, doc.source, doc.choice, edits + 1)
  BY <1>0
<1>2. d.of = doc.of
  BY <1>1 DEF Doc
<1>3. /\ doc' = d /\ dirty' = TRUE /\ edits' = edits + 1 /\ pending' = pending
      /\ lagged' = FALSE
  BY <1>1 DEF EditPorts, Edited
<1>4. Pushed(d)
  BY <1>3 DEF EditPorts
<1>5. /\ hist' \in Seq(Docs) /\ at' \in 1 .. Len(hist') /\ Len(hist') <= MaxHistory
      /\ hist'[at'] = d
      /\ \A k \in DOMAIN hist' : hist'[k] = d \/ \E j \in DOMAIN hist : hist'[k] = hist[j]
  BY <1>4, PushedHistory
<1>6. HistoryInv'
  <2>1. hist' \in Seq(Docs) /\ doc' \in Docs
    BY <1>3, <1>5
  <2>2. edits' \in Nat
    BY <1>3 DEF HistoryInv
  <2>3. dirty' \in BOOLEAN /\ pending' \in BOOLEAN /\ lagged' \in BOOLEAN
    BY <1>3 DEF HistoryInv
  <2>4. Content(hist'[at']) = Content(doc')
    BY <1>3, <1>5
  <2>5. QED
    BY <1>5, <2>1, <2>2, <2>3, <2>4 DEF HistoryInv
<1>7. Origins' \subseteq Origins
  BY <1>2, <1>3, <1>5 DEF Origins
<1>8. QED
  BY <1>3, <1>6, <1>7 DEF FieldsKept

LEMMA DebouncedKeeps ==
  ASSUME HistoryInv, Debounced
  PROVE  FieldsKept
<1>1. /\ IsOpen /\ doc' = doc /\ dirty' = dirty /\ edits' = edits /\ editing' = editing
      /\ pending' = FALSE /\ lagged' = FALSE /\ Pushed(doc)
  BY DEF Debounced, fields
<1>2. doc \in Docs
  BY DEF HistoryInv
<1>3. /\ hist' \in Seq(Docs) /\ at' \in 1 .. Len(hist') /\ Len(hist') <= MaxHistory
      /\ hist'[at'] = doc
      /\ \A k \in DOMAIN hist' : hist'[k] = doc \/ \E j \in DOMAIN hist : hist'[k] = hist[j]
  BY <1>1, <1>2, PushedHistory
<1>4. HistoryInv'
  BY <1>1, <1>3 DEF HistoryInv, IsOpen
<1>5. Origins' \subseteq Origins
  BY <1>1, <1>3 DEF Origins
<1>6. QED
  BY <1>1, <1>4, <1>5 DEF FieldsKept

LEMMA RestoredKeeps ==
  ASSUME HistoryInv, IsOpen, editing' = editing, undo \/ redo
  PROVE  FieldsKept
<1>1. at \in 1 .. Len(hist) /\ Len(hist) \in Nat
  BY HistoryFacts DEF HistoryInv
<1>2. PICK i \in 1 .. Len(hist) : Restored(i)
  BY <1>1 DEF undo, redo
<1>3. /\ doc' = hist[i] /\ dirty' = TRUE /\ at' = i /\ lagged' = FALSE
      /\ hist' = hist /\ pending' = pending /\ edits' = edits
  BY <1>2 DEF Restored
<1>4. hist[i] \in Docs /\ i \in DOMAIN hist
  BY HistoryFacts
<1>5. HistoryInv'
  BY <1>3, <1>4 DEF HistoryInv, IsOpen
<1>6. Origins' \subseteq Origins
  BY <1>3, <1>4 DEF Origins
<1>7. QED
  BY <1>3, <1>5, <1>6 DEF FieldsKept

LEMMA NothingEdited ==
  ASSUME HistoryInv, editing' = editing, UNCHANGED <<fields, history>>
  PROVE  FieldsKept
<1>1. UNCHANGED <<doc, dirty, edits, hist, at, pending, lagged>>
  BY DEF fields, history
<1>2. HistoryInv'
  BY <1>1 DEF HistoryInv, IsOpen
<1>3. Origins' = Origins
  BY <1>1 DEF Origins
<1>4. QED
  BY <1>1, <1>2, <1>3 DEF FieldsKept

(* The edits of the Edit tab and of undo and redo. *)
LEMMA EditKeeps ==
  ASSUME HistoryInv, IsOpen, editing' = editing,
         undo \/ redo \/ EditMeta \/ EditChoice \/ EditSymbol \/ EditSource \/ EditPorts
  PROVE  FieldsKept
<1>1. /\ TypedText \in Docs /\ TypedText.of = doc.of
      /\ NewChoice \in Docs /\ NewChoice.of = doc.of
  BY DEF HistoryInv, Docs, Doc, TypedText, NewChoice
<1> DEFINE typed == Doc(doc.of, doc.text, edits + 1, doc.choice, doc.ports)
<1>2. typed \in Docs /\ typed.of = doc.of
  BY DEF HistoryInv, Docs, Doc
<1>3. EditSource => Typed(typed)
  BY DEF EditSource
<1> HIDE DEF typed
<1>4. CASE Typed(TypedText) \/ Typed(typed)
  BY <1>1, <1>2, <1>4, TypedKeeps
<1>5. CASE Chosen(NewChoice)
  BY <1>1, <1>5, ChosenKeeps
<1>6. QED
  BY <1>3, <1>4, <1>5, RestoredKeeps, PortsKeep DEF EditMeta, EditChoice, EditSymbol

-----------------------------------------------------------------------------
(* The Simulate tab. *)

(* What a tab needs to be sound, whatever its other fields. *)
LEMMA TabSound ==
  ASSUME NEW mode, NEW grid \in Grids, NEW step, NEW run, NEW call, NEW stale \in BOOLEAN,
         run.ok \in BOOLEAN, call.on \in BOOLEAN,
         call.on => call.late \in BOOLEAN,
         call.on /\ ~call.late => MadeFrom(grid, call),
         run.ok /\ ~stale => MadeFrom(grid, run),
         sim' = Sim(mode, grid, step, run, call, stale)
  PROVE  SimInv'
<1>1. /\ sim'.grid = grid /\ sim'.run = run /\ sim'.call = call /\ sim'.stale = stale
  BY DEF Sim
<1>2. QED
  BY <1>1 DEF SimInv, Grids

LEMMA TabFacts ==
  ASSUME SimInv, sim.on
  PROVE  /\ sim.grid \in Grids /\ sim.stale \in BOOLEAN
         /\ sim.run.ok \in BOOLEAN /\ sim.call.on \in BOOLEAN
         /\ sim.call.on => sim.call.late \in BOOLEAN
         /\ sim.call.on /\ ~sim.call.late => MadeFrom(sim.grid, sim.call)
         /\ sim.run.ok /\ ~sim.stale => MadeFrom(sim.grid, sim.run)
BY DEF SimInv, Grids

LEMMA GridsMade ==
  ASSUME NEW n \in Nat
  PROVE  /\ AllLow(n) \in Grids
         /\ \A prev \in Grids : buildGrid(n, prev) \in Grids
         /\ \A grid \in Grids : \A c \in DOMAIN grid : \A p \in Ports : \A v \in BOOLEAN :
              [grid EXCEPT ![c] = [grid[c] EXCEPT ![p] = v]] \in Grids
<1>1. [p \in Ports |-> FALSE] \in [Ports -> BOOLEAN]
  OBVIOUS
<1>2. AllLow(n) \in [1 .. n -> [Ports -> BOOLEAN]]
  BY <1>1 DEF AllLow
<1>3. ASSUME NEW prev \in Grids PROVE buildGrid(n, prev) \in Grids
  <2>1. \A c \in DOMAIN prev : prev[c] \in [Ports -> BOOLEAN]
    BY GridRows
  <2>2. buildGrid(n, prev) \in [1 .. n -> [Ports -> BOOLEAN]]
    BY <1>2, <2>1 DEF buildGrid
  <2>3. QED
    BY <2>2, SeqDef DEF Grids
<1>4. ASSUME NEW grid \in Grids, NEW c \in DOMAIN grid, NEW p \in Ports, NEW v \in BOOLEAN
      PROVE  [grid EXCEPT ![c] = [grid[c] EXCEPT ![p] = v]] \in Grids
  <2>1. c \in 1 .. Len(grid) /\ grid[c] \in [Ports -> BOOLEAN]
    BY GridRows
  <2>2. [grid[c] EXCEPT ![p] = v] \in [Ports -> BOOLEAN]
    BY <2>1
  <2>3. QED
    BY <2>1, <2>2, ExceptSeq DEF Grids
<1>5. AllLow(n) \in Grids
  BY <1>2, SeqDef DEF Grids
<1>6. QED
  BY <1>3, <1>4, <1>5

LEMMA LateIsLate ==
  ASSUME SimInv, sim.on
  PROVE  Late.on \in BOOLEAN /\ (Late.on => Late.late = TRUE)
<1>1. CASE sim.call.on
  BY <1>1 DEF Late
<1>2. CASE ~sim.call.on
  BY <1>2, TabFacts DEF Late
<1>3. QED
  BY <1>1, <1>2

LEMMA RunKeeps ==
  ASSUME SimInv, sim.on, NEW k, runCycles(k)
  PROVE  SimInv'
<1> DEFINE stim == buildStimulus(sim.grid, k)
<1>1. /\ ~sim.call.on /\ k \in 1 .. Len(sim.grid)
      /\ \/ sim' = Sim(sim.mode, sim.grid, sim.step, NoRun, sim.call, sim.stale)
         \/ sim' = Sim(sim.mode, sim.grid, sim.step, sim.run, Out("cycle", k, stim, FALSE),
                       sim.stale)
  BY DEF runCycles, Calling
<1> HIDE DEF stim
<1>2. CASE sim' = Sim(sim.mode, sim.grid, sim.step, NoRun, sim.call, sim.stale)
  <2>1. NoRun.ok = FALSE
    BY DEF NoRun
  <2>2. QED
    BY <1>1, <1>2, <2>1, TabFacts, TabSound
<1>3. CASE sim' = Sim(sim.mode, sim.grid, sim.step, sim.run, Out("cycle", k, stim, FALSE),
                      sim.stale)
  <2> DEFINE call == Out("cycle", k, stim, FALSE)
  <2>1. /\ call.on = TRUE /\ call.late = FALSE /\ call.kind = "cycle"
        /\ call.k = k /\ call.stim = stim
    BY DEF Out
  <2> HIDE DEF call
  <2>2. MadeFrom(sim.grid, call)
    BY <1>1, <2>1 DEF MadeFrom, stim
  <2>3. sim' = Sim(sim.mode, sim.grid, sim.step, sim.run, call, sim.stale)
    BY <1>3 DEF call
  <2>4. QED
    BY <2>1, <2>2, <2>3, TabFacts, TabSound
<1>4. QED
  BY <1>1, <1>2, <1>3

LEMMA SimulateKeeps ==
  ASSUME SimInv, Simulate
  PROVE  SimInv'
<1>1. sim.on
  BY DEF Simulate
<1>2. /\ sim.grid \in Grids /\ sim.stale \in BOOLEAN /\ sim.run.ok \in BOOLEAN
      /\ Len(sim.grid) \in Nat
  BY <1>1, TabFacts, GridRows
<1>3. NoRun.ok = FALSE
  BY DEF NoRun
<1>4. CASE handleStep \/ handleRunAll
  BY <1>1, <1>4, RunKeeps DEF handleStep, handleRunAll
<1>5. CASE handleRunTruth
  <2>1. PICK call : /\ call = Out("truth", 2 ^ Cardinality(Ports), NoRun, FALSE)
                    /\ sim' = Sim(sim.mode, sim.grid, sim.step, sim.run, call, sim.stale)
    BY <1>5 DEF handleRunTruth, Calling
  <2>2. call.on = TRUE /\ call.late = FALSE /\ MadeFrom(sim.grid, call)
    BY <2>1 DEF Out, MadeFrom
  <2>3. QED
    BY <1>1, <2>1, <2>2, TabFacts, TabSound
<1>6. CASE setMode
  <2>1. PICK mode : sim' = Sim(mode, sim.grid, sim.step, sim.run, sim.call, sim.stale)
    BY <1>6 DEF setMode
  <2>2. QED
    BY <1>1, <2>1, TabFacts, TabSound
<1>7. CASE reset
  <2>1. sim' = Sim(sim.mode, AllLow(Len(sim.grid)), 0, NoRun, Late, FALSE)
    BY <1>7 DEF reset
  <2>2. AllLow(Len(sim.grid)) \in Grids
    BY <1>2, GridsMade
  <2>3. QED
    BY <1>1, <1>3, <2>1, <2>2, LateIsLate, TabSound
<1>8. CASE \E c \in DOMAIN sim.grid, p \in Ports : setCell(c, p, ~sim.grid[c][p])
  <2>1. PICK c \in DOMAIN sim.grid, p \in Ports : setCell(c, p, ~sim.grid[c][p])
    BY <1>8
  <2>2. PICK v \in BOOLEAN : setCell(c, p, v)
    BY <2>1
  <2>3. PICK grid : /\ grid = [sim.grid EXCEPT ![c] = [sim.grid[c] EXCEPT ![p] = v]]
                    /\ sim' = Sim(sim.mode, grid, 0, NoRun, Late, FALSE)
    BY <2>2 DEF setCell
  <2>4. grid \in Grids
    BY <1>2, <2>3, GridsMade
  <2>5. QED
    BY <1>1, <1>3, <2>3, <2>4, LateIsLate, TabSound
<1>9. CASE \E n \in 1 .. MaxCycles : setCycles(n)
  <2>1. PICK n \in 1 .. MaxCycles : setCycles(n)
    BY <1>9
  <2>2. n \in Nat
    BY <2>1, EditorAssumption
  <2>3. PICK grid, stale :
           /\ grid = buildGrid(n, sim.grid) /\ stale = (sim.stale \/ sim.run.ok)
           /\ sim' = Sim(sim.mode, grid, sim.step, sim.run, Late, stale)
    BY <2>1 DEF setCycles
  <2>4. grid \in Grids /\ stale \in BOOLEAN /\ (sim.run.ok => stale)
    BY <1>2, <2>2, <2>3, GridsMade
  <2>5. QED
    BY <1>1, <1>2, <2>3, <2>4, LateIsLate, TabSound
<1>10. QED
  BY <1>4, <1>5, <1>6, <1>7, <1>8, <1>9 DEF Simulate

LEMMA AnswerKeepsTab ==
  ASSUME SimInv, NEW ok \in BOOLEAN, RunAnswer(ok)
  PROVE  SimInv'
<1>1. sim.on /\ sim.call.on
  BY DEF RunAnswer
<1> DEFINE shown == [ok |-> TRUE, kind |-> sim.call.kind, k |-> sim.call.k, stim |-> sim.call.stim]
<1>2. PICK step, run, stale :
         /\ run = IF ok THEN shown ELSE NoRun
         /\ stale = (ok /\ sim.call.late)
         /\ sim' = Sim(sim.mode, sim.grid, step, run, NoCall, stale)
  BY DEF RunAnswer
<1>3. NoCall.on = FALSE /\ NoRun.ok = FALSE /\ shown.ok = TRUE
  BY DEF NoCall, NoRun
<1>4. stale \in BOOLEAN /\ run.ok = ok
  BY <1>1, <1>2, <1>3, TabFacts
<1>5. ASSUME run.ok, ~stale PROVE MadeFrom(sim.grid, run)
  <2>1. ok /\ run = shown /\ ~sim.call.late
    BY <1>2, <1>4, <1>5
  <2>2. MadeFrom(sim.grid, sim.call)
    BY <1>1, <2>1, TabFacts
  <2>3. QED
    BY <2>1, <2>2 DEF MadeFrom
<1>6. QED
  BY <1>1, <1>2, <1>3, <1>4, <1>5, TabFacts, TabSound

LEMMA TabsKeep ==
  /\ sim' = NewSim => SimInv'
  /\ sim' = NoSim => SimInv'
  /\ SimInv /\ sim' = sim => SimInv'
<1>1. ASSUME sim' = NewSim PROVE SimInv'
  <2>1. AllLow(FirstCycles) \in Grids
    BY EditorAssumption, GridsMade
  <2>2. NoRun.ok = FALSE /\ NoCall.on = FALSE
    BY DEF NoRun, NoCall
  <2>3. QED
    BY <1>1, <2>1, <2>2, TabSound DEF NewSim
<1>2. QED
  BY <1>1 DEF SimInv, NoSim

(* The engineer inside the editor, and the answer of a run: the editor's
   invariants are kept, and nothing of it but its fields, its history and its
   tab changes. *)
LEMMA EditorActKeeps ==
  ASSUME HistoryInv, SimInv, EditorAct
  PROVE  FieldsKept /\ SimInv' /\ UNCHANGED <<editing, saving, session>>
<1>1. IsOpen /\ UNCHANGED <<editing, saving, session>>
  BY DEF EditorAct
<1>2. CASE /\ undo \/ redo \/ (~sim.on /\ (EditMeta \/ EditChoice \/ EditSymbol \/ EditSource
                                            \/ EditPorts))
           /\ UNCHANGED sim
  BY <1>1, <1>2, EditKeeps, TabsKeep
<1>3. CASE Simulate
  BY <1>1, <1>3, SimulateKeeps, NothingEdited DEF Simulate
<1>4. CASE ToSimulate
  BY <1>1, <1>4, TabsKeep, NothingEdited DEF ToSimulate
<1>5. CASE ToEdit
  BY <1>1, <1>5, TabsKeep, NothingEdited, EditKeeps DEF ToEdit
<1>6. QED
  BY <1>1, <1>2, <1>3, <1>4, <1>5 DEF EditorAct

LEMMA RunAnswerKeeps ==
  ASSUME HistoryInv, SimInv, NEW ok \in BOOLEAN, RunAnswer(ok)
  PROVE  FieldsKept /\ SimInv' /\ UNCHANGED <<editing, saving, session>>
BY AnswerKeepsTab, NothingEdited DEF RunAnswer

-----------------------------------------------------------------------------
(* The library page: steps of the editor alone. *)

LEMMA InvParts ==
  ASSUME LibraryInv
  PROVE  /\ HistoryInv /\ SimInv /\ StoreTypes /\ PageTypes /\ Given /\ MadeFor
         /\ Versions /\ Solo /\ Arrives /\ Shows /\ Fetched /\ Lists
BY DEF LibraryInv

LEMMA EditorOnly ==
  ASSUME LibraryInv, FieldsKept, SimInv',
         UNCHANGED <<editing, session, server, page, task, faults, races>>
  PROVE  LibraryInv'
<1>1. /\ UNCHANGED <<editing, session, libs, store, born, selected, listed, task>>
      /\ UNCHANGED <<listRaced, openRaced, swapped>>
      /\ HistoryInv' /\ Origins' \subseteq Origins
      /\ dirty' = TRUE \/ (doc' = doc /\ dirty' = dirty)
  BY DEF server, page, races, FieldsKept
<1>2. StoreTypes' /\ PageTypes' /\ Given' /\ Solo' /\ Arrives' /\ Fetched' /\ Lists'
  <2>1. StoreTypes' /\ PageTypes' /\ Solo'
    BY <1>1, InvParts DEF StoreTypes, PageTypes, Solo, Busy
  <2>2. Given' /\ Arrives'
    BY <1>1, InvParts DEF Given, Arrives, Busy, Stored
  <2>3. Fetched' /\ Lists'
    BY <1>1, InvParts DEF Fetched, Lists, Busy, Stored, ListOf, BlockOf, Visible
  <2>4. QED
    BY <2>1, <2>2, <2>3
<1>3. MadeFor'
  <2>1. doc'.of \in Origins' /\ \A k \in DOMAIN hist' : hist'[k].of \in Origins'
    BY DEF Origins
  <2>2. ~swapped /\ IsOpen => \A x \in Origins : x \in {0, editing.id}
    BY InvParts DEF MadeFor, Origins
  <2>3. ~swapped /\ IsOpen => /\ doc'.of \in {0, editing.id}
                              /\ \A k \in DOMAIN hist' : hist'[k].of \in {0, editing.id}
    BY <1>1, <2>1, <2>2
  <2>4. QED
    BY <1>1, <2>3, InvParts DEF MadeFor, IsOpen, Stored, Busy
<1>4. Versions'
  BY <1>1, InvParts DEF Versions, IsOpen, Stored, Busy
<1>5. Shows'
  BY <1>1, InvParts DEF Shows, IsOpen, Stored
<1>6. QED
  BY <1>1, <1>2, <1>3, <1>4, <1>5 DEF LibraryInv

-----------------------------------------------------------------------------
(* Calls. *)

(* The same call, whatever overlaps it. *)
Same(t, u) ==
  /\ t.op = u.op /\ t.st = u.st /\ t.id = u.id /\ t.lib = u.lib
  /\ t.doc = u.doc /\ t.from = u.from /\ t.got = u.got

LEMMA LonelyIsSame ==
  ASSUME NEW t \in Calls, NEW alone \in BOOLEAN
  PROVE  Lonely(t, alone) \in Calls /\ Same(Lonely(t, alone), t) /\ Lonely(t, alone).alone = alone
BY DEF Calls, Lonely, Call, Same

LEMMA PutFacts ==
  ASSUME PageTypes, NEW i \in Slots, NEW call \in Calls, Put(i, call)
  PROVE  /\ task' \in [Slots -> Calls]
         /\ Same(task'[i], call)
         /\ task'[i].alone => \A j \in Slots \ {i} : ~Overlap(call.op, task[j].op)
         /\ \A j \in Slots \ {i} :
              /\ Same(task'[j], task[j])
              /\ task'[j].alone => task[j].alone /\ ~Overlap(call.op, task[j].op)
<1> DEFINE others == {j \in Slots \ {i} : Overlap(call.op, task[j].op)}
<1>1. task' = [j \in Slots |-> IF j = i THEN Lonely(call, others = {})
                               ELSE Lonely(task[j], task[j].alone /\ j \notin others)]
  BY DEF Put
<1>2. \A j \in Slots : task[j] \in Calls /\ task[j].alone \in BOOLEAN
  BY DEF PageTypes, Calls
<1>3. /\ task'[i] = Lonely(call, others = {})
      /\ \A j \in Slots \ {i} : task'[j] = Lonely(task[j], task[j].alone /\ j \notin others)
  BY <1>1
<1>4. PICK none \in BOOLEAN : none = (others = {})
  OBVIOUS
<1>5. task'[i] \in Calls /\ Same(task'[i], call) /\ task'[i].alone = none
  BY <1>3, <1>4, LonelyIsSame
<1>6. ASSUME NEW j \in Slots \ {i}
      PROVE  /\ task'[j] \in Calls /\ Same(task'[j], task[j])
             /\ task'[j].alone => task[j].alone /\ ~Overlap(call.op, task[j].op)
  <2>1. PICK lone \in BOOLEAN : lone = (task[j].alone /\ j \notin others)
    OBVIOUS
  <2>2. task'[j] = Lonely(task[j], lone)
    BY <1>3, <2>1
  <2>3. task[j] \in Calls /\ lone \in BOOLEAN
    BY <1>2, <2>1
  <2>4. /\ Lonely(task[j], lone) \in Calls /\ Same(Lonely(task[j], lone), task[j])
        /\ Lonely(task[j], lone).alone = lone
    BY <2>3, LonelyIsSame, Zenon
  <2>5. QED
    BY <2>1, <2>2, <2>4
<1>7. task' \in [Slots -> Calls]
  <2>1. ASSUME NEW j \in Slots PROVE task'[j] \in Calls
    <3>1. CASE j = i
      BY <1>5, <3>1
    <3>2. CASE j # i
      BY <1>6, <3>2
    <3>3. QED
      BY <3>1, <3>2
  <2>2. task' = [j \in Slots |-> task'[j]]
    BY <1>1, Zenon
  <2>3. QED
    BY <2>1, <2>2
<1>8. QED
  BY <1>4, <1>5, <1>6, <1>7

LEMMA ReturnedFacts ==
  ASSUME NEW t \in Calls, NEW st \in {"sent", "served", "refused"}, NEW got \in SUBSET Blocks
  PROVE  LET r == Returned(t, st, got) IN
           /\ r \in Calls /\ r.op = t.op /\ r.st = st /\ r.id = t.id /\ r.lib = t.lib
           /\ r.doc = t.doc /\ r.from = t.from /\ r.alone = t.alone /\ r.got = got
BY DEF Calls, Returned, Call

(* A call comes back: only its state and what it brings change. *)
LEMMA ReturnFacts ==
  ASSUME PageTypes, NEW i \in Slots, NEW st \in {"served", "refused"}, NEW got \in SUBSET Blocks,
         task' = [task EXCEPT ![i] = Returned(task[i], st, got)]
  PROVE  /\ task' \in [Slots -> Calls]
         /\ task'[i].st = st /\ task'[i].got = got
         /\ \A j \in Slots : /\ task'[j].op = task[j].op /\ task'[j].id = task[j].id
                             /\ task'[j].lib = task[j].lib /\ task'[j].doc = task[j].doc
                             /\ task'[j].from = task[j].from /\ task'[j].alone = task[j].alone
         /\ \A j \in Slots \ {i} : task'[j] = task[j]
<1>1. task \in [Slots -> Calls] /\ task[i] \in Calls
  BY DEF PageTypes
<1>2. /\ task'[i] = Returned(task[i], st, got)
      /\ \A j \in Slots \ {i} : task'[j] = task[j]
  BY <1>1
<1>3. /\ task'[i] \in Calls /\ task'[i].op = task[i].op /\ task'[i].st = st
      /\ task'[i].id = task[i].id /\ task'[i].lib = task[i].lib /\ task'[i].doc = task[i].doc
      /\ task'[i].from = task[i].from /\ task'[i].alone = task[i].alone /\ task'[i].got = got
  BY <1>1, <1>2, ReturnedFacts
<1>4. task' \in [Slots -> Calls]
  <2>1. \A j \in Slots : task'[j] \in Calls
    BY <1>1, <1>2, <1>3
  <2>2. task' = [j \in Slots |-> task'[j]]
    BY <1>1
  <2>3. QED
    BY <2>1, <2>2
<1>5. QED
  BY <1>2, <1>3, <1>4

LEMMA DoneFacts ==
  ASSUME PageTypes, NEW i \in Slots, Done(i)
  PROVE  /\ task' \in [Slots -> Calls]
         /\ task'[i].op = "idle" /\ ~task'[i].alone
         /\ \A j \in Slots \ {i} : task'[j] = task[j]
<1>1. task \in [Slots -> Calls]
  BY DEF PageTypes
<1>2. NewDoc \in Docs
  BY DEF NewDoc, Doc, Docs
<1>3. Idle \in Calls /\ Idle.op = "idle" /\ Idle.alone = FALSE
  BY <1>2, LibraryAssumption DEF Idle, Call, Calls
<1>4. task' = [task EXCEPT ![i] = Idle]
  BY DEF Done
<1> HIDE DEF Idle
<1>5. QED
  BY <1>1, <1>3, <1>4

(* Send puts the call in a free slot. *)
LEMMA SendFacts ==
  ASSUME NEW call, Send(call)
  PROVE  \E i \in Slots : task[i].op = "idle" /\ Put(i, call)
<1> DEFINE i == CHOOSE j \in Free : \A k \in Free : j <= k
<1>1. Free # {} /\ Put(i, call)
  BY DEF Send
<1>2. Free \in SUBSET Nat
  BY LibraryAssumption DEF Free, Slots
<1>3. \E j \in Free : \A k \in Free : j <= k
  BY <1>1, <1>2, Least, Zenon
<1>4. i \in Free
  BY <1>3
<1>5. QED
  BY <1>1, <1>4 DEF Free

-----------------------------------------------------------------------------
(* The library page: a call is sent. *)

Marked(call) ==
  /\ listRaced' = (listRaced \/ (call.op \in ListOps /\ Busy(ListOps) # {}))
  /\ openRaced' = (openRaced \/ (call.op \in OpenOps /\ Busy(OpenOps) # {}))

(* What a call that is sent was made from. *)
Addressed(call) ==
  /\ call.op \in ListOps \cup {"open"} /\ call.st = "sent"
  /\ call.op \in {"list", "save"} => call.lib = selected'
  /\ call.op = "delete" => call.got = listed /\ selected' = selected
  /\ call.op \in OpenOps => call.got = {} /\ selected' = selected
  /\ call.op = "save" => /\ IsOpen /\ call.doc = doc
                         /\ call.id = editing.id /\ call.from = session
  /\ call.op = "open" => editing.id <= 0

LEMMA SentKeeps ==
  ASSUME LibraryInv, NEW i \in Slots, task[i].op = "idle", NEW call \in Calls, Put(i, call),
         Marked(call), Addressed(call), selected' \in Libraries,
         UNCHANGED <<editing, fields, session, history, sim, server, listed, swapped>>
  PROVE  LibraryInv'
<1>1. /\ UNCHANGED <<editing, doc, dirty, edits, hist, at, pending, lagged, session, sim>>
      /\ UNCHANGED <<libs, store, born, listed, swapped>>
  BY DEF fields, history, server
<1>2. /\ task' \in [Slots -> Calls]
      /\ Same(task'[i], call)
      /\ task'[i].alone => \A j \in Slots \ {i} : ~Overlap(call.op, task[j].op)
      /\ \A j \in Slots \ {i} :
           /\ Same(task'[j], task[j])
           /\ task'[j].alone => task[j].alone /\ ~Overlap(call.op, task[j].op)
  BY InvParts, PutFacts
<1>3. /\ ~listRaced' => ~listRaced /\ (call.op \in ListOps => Busy(ListOps) = {})
      /\ ~openRaced' => ~openRaced /\ (call.op \in OpenOps => Busy(OpenOps) = {})
      /\ listRaced' \in BOOLEAN /\ openRaced' \in BOOLEAN
  BY InvParts DEF Marked, PageTypes
<1>4. HistoryInv' /\ SimInv' /\ StoreTypes' /\ PageTypes'
  <2>1. HistoryInv' /\ SimInv'
    BY <1>1, InvParts DEF HistoryInv, SimInv, IsOpen
  <2>2. StoreTypes' /\ PageTypes'
    BY <1>1, <1>2, <1>3, InvParts DEF StoreTypes, PageTypes
  <2>3. QED
    BY <2>1, <2>2
<1>5. /\ task'[i].op = call.op /\ task'[i].st = "sent" /\ task'[i].got = call.got
      /\ task'[i].doc = call.doc /\ task'[i].id = call.id /\ task'[i].from = call.from
      /\ task'[i].lib = call.lib
  BY <1>2 DEF Same, Addressed
<1>6. ASSUME NEW j \in Slots \ {i}
      PROVE  /\ task'[j].op = task[j].op /\ task'[j].st = task[j].st /\ task'[j].got = task[j].got
             /\ task'[j].doc = task[j].doc /\ task'[j].id = task[j].id
             /\ task'[j].from = task[j].from /\ task'[j].lib = task[j].lib
             /\ task'[j].alone => task[j].alone
  BY <1>2 DEF Same
<1>7. Given'
  BY <1>1, <1>5, <1>6, InvParts DEF Given, Busy, Addressed
<1>8. MadeFor'
  <2>1. SUFFICES ASSUME ~swapped PROVE MadeFor'
    BY <1>1 DEF MadeFor
  <2>2. \A j \in Slots : task'[j].op = "save" => task'[j].doc.of \in {0, task'[j].id}
    <3>1. task'[i].op = "save" => task'[i].doc.of \in {0, task'[i].id}
      BY <1>5, <2>1, InvParts DEF MadeFor, Addressed
    <3>2. QED
      BY <1>6, <2>1, <3>1, InvParts DEF MadeFor
  <2>3. \A j \in Busy(OpenOps)' : \A b \in task'[j].got : b.doc.of \in {0, b.id}
    BY <1>5, <1>6, <2>1, InvParts DEF MadeFor, Addressed, Busy
  <2>4. QED
    BY <1>1, <2>1, <2>2, <2>3, InvParts DEF MadeFor, IsOpen, Stored
<1>9. Versions'
  <2>1. ASSUME NEW j \in Busy(OpenOps)', NEW b \in task'[j].got, b.id \in Stored
        PROVE  /\ b.stamp <= store[b.id].stamp
               /\ b.stamp = store[b.id].stamp => b.doc = store[b.id].doc
    <3>1. j # i
      BY <1>5, <2>1 DEF Addressed, Busy
    <3>2. j \in Busy(OpenOps) /\ b \in task[j].got
      BY <1>6, <2>1, <3>1 DEF Busy
    <3>3. QED
      BY <2>1, <3>2, InvParts DEF Versions
  <2>2. QED
    BY <1>1, <2>1, InvParts DEF Versions, IsOpen, Stored
<1>10. Solo'
  <2>1. ASSUME NEW j \in Slots, NEW k \in Slots, j # k, task'[j].alone
        PROVE  ~Overlap(task'[j].op, task'[k].op)
    <3>1. CASE j = i
      BY <1>2, <1>5, <1>6, <2>1, <3>1
    <3>2. CASE k = i
      BY <1>2, <1>5, <1>6, <2>1, <3>2 DEF Overlap
    <3>3. CASE j # i /\ k # i
      BY <1>6, <2>1, <3>3, InvParts DEF Solo
    <3>4. QED
      BY <3>1, <3>2, <3>3
  <2>2. ASSUME ~openRaced', NEW j \in Busy(OpenOps)', NEW k \in Busy(OpenOps)'
        PROVE  j = k
    <3>1. \A n \in Busy(OpenOps)' : n = i \/ n \in Busy(OpenOps)
      BY <1>6 DEF Busy
    <3>2. i \in Busy(OpenOps)' => Busy(OpenOps) = {}
      BY <1>3, <1>5, <2>2 DEF Busy
    <3>3. QED
      BY <1>3, <2>2, <3>1, <3>2, InvParts DEF Solo
  <2>3. ASSUME ~listRaced', NEW j \in Busy(ListOps)', NEW k \in Busy(ListOps)'
        PROVE  j = k
    <3>1. \A n \in Busy(ListOps)' : n = i \/ n \in Busy(ListOps)
      BY <1>6 DEF Busy
    <3>2. i \in Busy(ListOps)' => Busy(ListOps) = {}
      BY <1>3, <1>5, <2>3 DEF Busy
    <3>3. QED
      BY <1>3, <2>3, <3>1, <3>2, InvParts DEF Solo
  <2>4. QED
    BY <2>1, <2>2, <2>3 DEF Solo
<1>11. Arrives'
  <2>1. SUFFICES ASSUME NEW j \in Busy(OpenOps)', task'[j].st = "served",
                        task'[j].alone \/ ~openRaced'
                 PROVE  \A b \in task'[j].got : b.id \in Stored' => b.stamp = store'[b.id].stamp
    BY DEF Arrives
  <2>2. j \in Slots \ {i}
    BY <1>5, <2>1 DEF Busy
  <2>3. j \in Busy(OpenOps) /\ task[j].st = "served" /\ (task[j].alone \/ ~openRaced)
    BY <1>3, <1>6, <2>1, <2>2 DEF Busy
  <2>4. task'[j].got = task[j].got
    BY <1>6, <2>2
  <2>5. QED
    BY <1>1, <2>3, <2>4, InvParts DEF Arrives, Stored
<1>12. Shows'
  <2>1. SUFFICES ASSUME ~openRaced' PROVE Shows'
    BY DEF Shows
  <2>2. ASSUME NEW j \in Slots PROVE task'[j].op = "open" => editing.id <= 0
    BY <1>3, <1>5, <1>6, <2>1, InvParts DEF Shows, Addressed
  <2>3. ASSUME NEW j \in Slots, task'[j].op = "save", editing.id > 0
        PROVE  /\ task'[j].from = session /\ task'[j].id = editing.id
               /\ ~dirty => Content(doc) = Content(task'[j].doc)
    BY <1>3, <1>5, <1>6, <2>1, <2>3, InvParts DEF Shows, Addressed
  <2>4. QED
    BY <1>1, <1>3, <2>1, <2>2, <2>3, InvParts DEF Shows, IsOpen, Stored
<1>13. Fetched'
  <2>1. SUFFICES ASSUME NEW j \in Slots, task'[j].op = "list", task'[j].st = "served",
                        task'[j].alone \/ ~listRaced'
                 PROVE  (task[j].got = ListOf(task[j].lib))'
    BY DEF Fetched
  <2>2. j \in Slots \ {i}
    BY <1>5, <2>1
  <2>3. task'[j].got = ListOf(task'[j].lib)
    BY <1>3, <1>6, <2>1, <2>2, InvParts DEF Fetched
  <2>4. QED
    BY <1>1, <2>3 DEF ListOf, Stored, BlockOf
<1>14. Lists'
  <2>1. SUFFICES ASSUME ~listRaced' PROVE Lists'
    BY DEF Lists
  <2>2. ListOf(selected)' = ListOf(selected')
    BY <1>1 DEF ListOf, Stored, BlockOf
  <2>3. CASE call.op \in ListOps
    <3>1. ~listRaced /\ Busy(ListOps) = {} /\ Visible = ListOf(selected)
      BY <1>3, <2>1, <2>3, InvParts DEF Lists
    <3>2. \A j \in Slots \ {i} : task'[j].op \notin ListOps
      BY <1>6, <3>1 DEF Busy
    <3>3. i \in Busy(ListOps)'
      BY <1>5, <2>3 DEF Busy
    <3>4. ASSUME NEW j \in Slots, task'[j].op \in {"list", "save"} PROVE task'[j].lib = selected'
      <4>1. j = i
        BY <3>2, <3>4 DEF ListOps
      <4>2. QED
        BY <1>5, <3>4, <4>1 DEF Addressed
    <3>5. ASSUME NEW j \in Slots, task'[j].op = "delete"
          PROVE  /\ task'[j].got = listed' /\ task'[j].st = "sent"
                 /\ Visible' = ListOf(selected)'
      <4>1. j = i
        BY <3>2, <3>5 DEF ListOps
      <4>2. task'[i].got = listed /\ task'[i].st = "sent" /\ selected' = selected
        BY <1>5, <3>5, <4>1 DEF Addressed
      <4>3. Visible' = Visible
        BY <1>1, <4>2 DEF Visible
      <4>4. QED
        BY <1>1, <2>2, <3>1, <4>1, <4>2, <4>3
    <3>6. QED
      BY <3>3, <3>4, <3>5 DEF Lists
  <2>4. CASE call.op \notin ListOps
    <3>1. call.op \in OpenOps /\ selected' = selected /\ ~listRaced
      BY <1>3, <2>1, <2>4 DEF Addressed, OpenOps
    <3>2. Visible' = Visible /\ ListOf(selected)' = ListOf(selected)
      BY <1>1, <2>2, <3>1 DEF Visible
    <3>3. Busy(ListOps)' = Busy(ListOps)
      BY <1>5, <1>6, <2>4 DEF Busy, ListOps
    <3>4. ASSUME NEW j \in Slots
          PROVE  /\ task'[j].op \in {"list", "save"} => task'[j].lib = selected'
                 /\ task'[j].op = "delete" =>
                      /\ task'[j].got = listed'
                      /\ task'[j].st = "sent" => Visible' = ListOf(selected)'
                      /\ task'[j].st = "served" =>
                           {b \in Visible' : b.id # task'[j].id} = ListOf(selected)'
      <4>1. CASE j = i
        BY <1>5, <2>4, <4>1 DEF ListOps
      <4>2. CASE j # i
        BY <1>1, <1>6, <3>1, <3>2, <4>2, InvParts DEF Lists
      <4>3. QED
        BY <4>1, <4>2
    <3>5. QED
      BY <3>1, <3>2, <3>3, <3>4, InvParts DEF Lists
  <2>5. QED
    BY <2>3, <2>4
<1>15. QED
  BY <1>4, <1>7, <1>8, <1>9, <1>10, <1>11, <1>12, <1>13, <1>14 DEF LibraryInv

-----------------------------------------------------------------------------
(* The library page: a call comes back. *)

LEMMA BlocksStored ==
  ASSUME StoreTypes, NEW id \in Stored
  PROVE  /\ BlockOf(id) \in Blocks
         /\ BlockOf(id).id = id /\ BlockOf(id).lib = store[id].lib
         /\ BlockOf(id).doc = store[id].doc /\ BlockOf(id).stamp = store[id].stamp
         /\ id \in Ids /\ id \in Nat /\ id > 0 /\ store[id].stamp \in Nat
<1>1. id \in Ids /\ store[id] \in [lib : Libraries, doc : Docs, stamp : Nat]
      /\ store[id].stamp > 0
  BY DEF Stored, StoreTypes
<1>2. id \in Nat \ {0}
  BY <1>1, EditorAssumption DEF Ids
<1>3. store[id].lib \in Libraries /\ store[id].doc \in Docs /\ store[id].stamp \in Nat \ {0}
  BY <1>1
<1>4. BlockOf(id) \in Blocks
  BY <1>2, <1>3 DEF BlockOf, Blocks
<1>5. QED
  BY <1>1, <1>2, <1>3, <1>4 DEF BlockOf

(* Whatever is stored: the editor, the page and the marks as they were. *)
LEMMA PageKeeps ==
  ASSUME LibraryInv, UNCHANGED <<editorVars, page, races>>,
         task' \in [Slots -> Calls],
         \A j \in Slots : task'[j].op = task[j].op /\ task'[j].alone = task[j].alone
  PROVE  HistoryInv' /\ SimInv' /\ PageTypes' /\ Solo'
<1>1. /\ UNCHANGED <<editing, doc, dirty, edits, hist, at, pending, lagged, session, sim>>
      /\ UNCHANGED <<selected, listed, listRaced, openRaced, swapped>>
  BY DEF editorVars, fields, history, page, races
<1>2. HistoryInv' /\ SimInv'
  BY <1>1, InvParts DEF HistoryInv, SimInv, IsOpen
<1>3. PageTypes'
  BY <1>1, InvParts DEF PageTypes
<1>4. Solo'
  <2>1. Busy(ListOps)' = Busy(ListOps) /\ Busy(OpenOps)' = Busy(OpenOps)
    BY DEF Busy
  <2>2. QED
    BY <1>1, <2>1, InvParts DEF Solo
<1>5. QED
  BY <1>2, <1>3, <1>4

(* A call that changed nothing in the store. *)
LEMMA ReturnKeeps ==
  ASSUME LibraryInv, NEW i \in Slots, NEW st \in {"served", "refused"}, NEW got \in SUBSET Blocks,
         task' = [task EXCEPT ![i] = Returned(task[i], st, got)],
         UNCHANGED <<editorVars, server, page, races>>,
         st = "refused" => got = task[i].got,
         task[i].op = "delete" => st = "refused",
         st = "served" /\ task[i].op \in OpenOps =>
           \A b \in got : \E id \in Stored : b = BlockOf(id),
         st = "served" /\ task[i].op = "list" => got = ListOf(task[i].lib)
  PROVE  LibraryInv'
<1>1. /\ UNCHANGED <<editing, doc, dirty, hist, session>>
      /\ UNCHANGED <<selected, listed, listRaced, openRaced, swapped>>
      /\ UNCHANGED <<libs, store, born>>
  BY DEF editorVars, fields, history, page, races, server
<1>2. /\ task' \in [Slots -> Calls]
      /\ task'[i].st = st /\ task'[i].got = got
      /\ \A j \in Slots : /\ task'[j].op = task[j].op /\ task'[j].id = task[j].id
                          /\ task'[j].lib = task[j].lib /\ task'[j].doc = task[j].doc
                          /\ task'[j].from = task[j].from /\ task'[j].alone = task[j].alone
      /\ \A j \in Slots \ {i} : task'[j] = task[j]
  BY InvParts, ReturnFacts
<1>3. HistoryInv' /\ SimInv' /\ PageTypes' /\ Solo'
  BY <1>2, PageKeeps
<1>4. StoreTypes'
  BY <1>1, InvParts DEF StoreTypes
<1>5. /\ Busy(OpenOps)' = Busy(OpenOps) /\ Busy(ListOps)' = Busy(ListOps)
      /\ Stored' = Stored /\ Visible' = Visible
      /\ \A lib : ListOf(lib)' = ListOf(lib)
  BY <1>1, <1>2 DEF Busy, Stored, Visible, ListOf, BlockOf
<1>6. \A j \in Busy(OpenOps) : \A b \in task'[j].got :
        \/ b \in task[j].got /\ (task'[j].st = "served" => task[j].st = "served")
        \/ \E id \in Stored : b = BlockOf(id)
  <2>1. SUFFICES ASSUME NEW j \in Busy(OpenOps), NEW b \in task'[j].got
                 PROVE  \/ /\ b \in task[j].got
                           /\ task'[j].st = "served" => task[j].st = "served"
                        \/ \E id \in Stored : b = BlockOf(id)
    OBVIOUS
  <2>2. j \in Slots /\ task[j].op \in OpenOps
    BY DEF Busy
  <2>3. CASE j # i
    BY <1>2, <2>2, <2>3
  <2>4. CASE j = i /\ st = "refused"
    BY <1>2, <2>4
  <2>5. CASE j = i /\ st = "served"
    BY <1>2, <2>2, <2>5
  <2>6. QED
    BY <2>3, <2>4, <2>5
<1>7. Given'
  <2>1. \A id \in Stored : BlockOf(id).id <= born
    <3>1. \A id \in Stored : id \in Ids /\ store[id].stamp > 0 /\ BlockOf(id).id = id /\ id \in Nat
      BY InvParts, BlocksStored DEF Stored
    <3>2. born \in Nat
      BY InvParts DEF StoreTypes
    <3>3. QED
      BY <3>1, <3>2, InvParts DEF Given
  <2>2. \A j \in Busy(OpenOps) : \A b \in task'[j].got : b.id <= born
    BY <1>6, <2>1, InvParts DEF Given
  <2>3. QED
    BY <1>1, <1>5, <2>2, InvParts DEF Given
<1>8. MadeFor'
  <2>1. SUFFICES ASSUME ~swapped PROVE MadeFor'
    BY <1>1 DEF MadeFor
  <2>2. \A id \in Stored : BlockOf(id).doc.of \in {0, BlockOf(id).id}
    BY <2>1, InvParts, BlocksStored DEF MadeFor
  <2>3. \A j \in Busy(OpenOps) : \A b \in task'[j].got : b.doc.of \in {0, b.id}
    BY <1>6, <2>1, <2>2, InvParts DEF MadeFor
  <2>4. \A j \in Slots : task'[j].op = "save" => task'[j].doc.of \in {0, task'[j].id}
    BY <1>2, <2>1, InvParts DEF MadeFor
  <2>5. QED
    BY <1>1, <1>5, <2>1, <2>3, <2>4, InvParts DEF MadeFor, IsOpen
<1>9. Versions'
  <2>1. ASSUME NEW j \in Busy(OpenOps), NEW b \in task'[j].got, b.id \in Stored
        PROVE  /\ b.stamp <= store[b.id].stamp
               /\ b.stamp = store[b.id].stamp => b.doc = store[b.id].doc
    <3>1. CASE b \in task[j].got
      BY <2>1, <3>1, InvParts DEF Versions
    <3>2. CASE \E id \in Stored : b = BlockOf(id)
      BY <3>2, InvParts, BlocksStored
    <3>3. QED
      BY <1>6, <3>1, <3>2
  <2>2. QED
    BY <1>1, <1>5, <2>1, InvParts DEF Versions, IsOpen
<1>10. Arrives'
  <2>1. ASSUME NEW j \in Busy(OpenOps), task'[j].st = "served", task'[j].alone \/ ~openRaced,
               NEW b \in task'[j].got, b.id \in Stored
        PROVE  b.stamp = store[b.id].stamp
    <3>1. CASE b \in task[j].got /\ task[j].st = "served"
      <4>1. j \in Slots
        BY DEF Busy
      <4>2. QED
        BY <1>2, <2>1, <3>1, <4>1, InvParts DEF Arrives
    <3>2. CASE \E id \in Stored : b = BlockOf(id)
      BY <3>2, InvParts, BlocksStored
    <3>3. QED
      BY <1>6, <2>1, <3>1, <3>2
  <2>2. QED
    BY <1>1, <1>5, <2>1 DEF Arrives
<1>11. Shows'
  <2>1. SUFFICES ASSUME ~openRaced PROVE Shows'
    BY <1>1 DEF Shows
  <2>2. \A j \in Slots : task'[j].op = "open" => editing.id <= 0
    BY <1>2, <2>1, InvParts DEF Shows
  <2>3. \A j \in Slots : task'[j].op = "save" /\ editing.id > 0 =>
          /\ task'[j].from = session /\ task'[j].id = editing.id
          /\ ~dirty => Content(doc) = Content(task'[j].doc)
    BY <1>2, <2>1, InvParts DEF Shows
  <2>4. QED
    BY <1>1, <1>5, <2>1, <2>2, <2>3, InvParts DEF Shows, IsOpen
<1>12. Fetched'
  <2>1. ASSUME NEW j \in Slots, task'[j].op = "list", task'[j].st = "served",
               task'[j].alone \/ ~listRaced
        PROVE  task'[j].got = ListOf(task'[j].lib)
    <3>1. CASE j = i
      BY <1>2, <2>1, <3>1
    <3>2. CASE j # i
      BY <1>2, <2>1, <3>2, InvParts DEF Fetched
    <3>3. QED
      BY <3>1, <3>2
  <2>2. QED
    BY <1>1, <1>2, <2>1 DEF Fetched, ListOf, Stored, BlockOf
<1>13. Lists'
  <2>1. SUFFICES ASSUME ~listRaced PROVE Lists'
    BY <1>1 DEF Lists
  <2>2. \A j \in Slots : task'[j].op \in {"list", "save"} => task'[j].lib = selected
    BY <1>2, <2>1, InvParts DEF Lists
  <2>3. ASSUME NEW j \in Slots, task'[j].op = "delete"
        PROVE  /\ task'[j].got = listed
               /\ task'[j].st = "sent" => Visible = ListOf(selected)
               /\ task'[j].st = "served" =>
                    {b \in Visible : b.id # task'[j].id} = ListOf(selected)
    <3>1. CASE j = i
      BY <1>2, <2>1, <2>3, <3>1, InvParts DEF Lists
    <3>2. CASE j # i
      BY <1>2, <2>1, <2>3, <3>2, InvParts DEF Lists
    <3>3. QED
      BY <3>1, <3>2
  <2>4. ListOf(selected)' = ListOf(selected)
    BY <1>1 DEF ListOf, Stored, BlockOf
  <2>5. QED
    BY <1>1, <1>5, <2>1, <2>2, <2>3, <2>4, InvParts DEF Lists
<1>14. QED
  BY <1>3, <1>4, <1>7, <1>8, <1>9, <1>10, <1>11, <1>12, <1>13 DEF LibraryInv

(* A call that changed the store: at most one block is new or has a new
   version, the others are as they were or gone. *)
LEMMA StoreKeeps ==
  ASSUME LibraryInv, NEW i \in Slots, NEW got \in SUBSET Blocks, NEW c \in Nat,
         task' = [task EXCEPT ![i] = Returned(task[i], "served", got)],
         UNCHANGED <<editorVars, page, races>>, StoreTypes',
         task[i].op \in {"save", "delete", "clear", "drop"}, task[i].st = "sent",
         born' >= born /\ (c > 0 => c <= born'),
         \A id \in Stored' : id # c => id \in Stored /\ store'[id] = store[id],
         task[i].op = "save" =>
           \A b \in got : b.id = c /\ (~swapped => b.doc.of \in {0, task[i].id, c}),
         task[i].op = "save" /\ task[i].id # 0 => c = task[i].id,
         c \in Stored' =>
           /\ task[i].op = "save"
           /\ \A b \in got : b.doc = store'[c].doc /\ b.stamp = store'[c].stamp
           /\ \/ /\ c = task[i].id /\ c \in Stored
                 /\ store'[c].doc = task[i].doc /\ store'[c].stamp = store[c].stamp + 1
              \/ c > born /\ task[i].id = 0 /\ store'[c].doc.of \in {0, c},
         task[i].op = "delete" =>
           /\ got = task[i].got
           /\ ListOf(selected)' = {x \in ListOf(selected) : x.id # task[i].id}
  PROVE  LibraryInv'
<1>1. /\ UNCHANGED <<editing, doc, dirty, hist, session>>
      /\ UNCHANGED <<selected, listed, listRaced, openRaced, swapped>>
  BY DEF editorVars, fields, history, page, races
<1>2. /\ task' \in [Slots -> Calls]
      /\ task'[i].st = "served" /\ task'[i].got = got
      /\ \A j \in Slots : /\ task'[j].op = task[j].op /\ task'[j].id = task[j].id
                          /\ task'[j].lib = task[j].lib /\ task'[j].doc = task[j].doc
                          /\ task'[j].from = task[j].from /\ task'[j].alone = task[j].alone
      /\ \A j \in Slots \ {i} : task'[j] = task[j]
  BY InvParts, ReturnFacts
<1>3. HistoryInv' /\ SimInv' /\ PageTypes' /\ Solo'
  BY <1>2, PageKeeps
<1>4. Busy(OpenOps)' = Busy(OpenOps) /\ Busy(ListOps)' = Busy(ListOps) /\ i \in Busy(ListOps)
  BY <1>2 DEF Busy, ListOps
<1>5. /\ born \in Nat /\ born' \in Nat /\ editing.id \in Int
      /\ \A id \in Ids : id \in Nat /\ id > 0
      /\ \A id \in Stored : id \in Ids /\ id \in Nat /\ id > 0 /\ store[id].stamp \in Nat
      /\ \A j \in Slots : \A b \in task[j].got : b.id \in Nat /\ b.id > 0 /\ b.stamp \in Nat
  <2>1. born \in Nat /\ born' \in Nat
    BY InvParts DEF StoreTypes
  <2>2. editing.id \in Int
    BY InvParts DEF PageTypes
  <2>3. \A id \in Ids : id \in Nat /\ id > 0
    BY EditorAssumption DEF Ids
  <2>4. \A id \in Stored : id \in Ids /\ id \in Nat /\ id > 0 /\ store[id].stamp \in Nat
    BY InvParts, BlocksStored
  <2>5. ASSUME NEW j \in Slots, NEW b \in task[j].got
        PROVE  b.id \in Nat /\ b.id > 0 /\ b.stamp \in Nat
    <3>1. task[j] \in Calls
      BY InvParts DEF PageTypes
    <3>2. b \in Blocks
      BY <3>1 DEF Calls
    <3>3. b.id \in Nat \ {0} /\ b.stamp \in Nat
      BY <3>2 DEF Blocks
    <3>4. QED
      BY <3>3
  <2>6. QED
    BY <2>1, <2>2, <2>3, <2>4, <2>5
<1>6. \A id \in Stored : id <= born
  BY <1>5, InvParts DEF Given, Stored
(* The calls about a block: the one that changed it, and those that began before. *)
<1>7. \A j \in Busy(OpenOps) : \A b \in task'[j].got :
        \/ j # i /\ b \in task[j].got /\ task'[j] = task[j] /\ b.id <= born
        \/ j = i /\ task[i].op = "save" /\ b \in got /\ b.id = c
  <2>1. ASSUME NEW j \in Busy(OpenOps), NEW b \in task'[j].got, j # i
        PROVE  b \in task[j].got /\ task'[j] = task[j] /\ b.id <= born
    <3>1. task'[j] = task[j]
      BY <1>2, <2>1 DEF Busy
    <3>2. QED
      BY <3>1, InvParts DEF Given
  <2>2. ASSUME i \in Busy(OpenOps), NEW b \in task'[i].got
        PROVE  task[i].op = "save" /\ b \in got /\ b.id = c
    <3>1. task[i].op = "save"
      BY <2>2 DEF Busy, OpenOps
    <3>2. QED
      BY <1>2, <3>1
  <2>3. QED
    BY <2>1, <2>2
<1>8. Given'
  <2>1. \A id \in Ids : id > born' => store'[id].stamp = 0
    <3>1. SUFFICES ASSUME NEW id \in Ids, id > born', store'[id].stamp # 0 PROVE FALSE
      OBVIOUS
    <3>2. store'[id] \in [lib : Libraries, doc : Docs, stamp : Nat]
      BY DEF StoreTypes
    <3>3. id \in Stored'
      BY <3>1, <3>2 DEF Stored
    <3>4. QED
      BY <1>5, <1>6, <3>1, <3>3
  <2>2. editing'.id <= born'
    BY <1>1, <1>5, InvParts DEF Given
  <2>3. \A j \in Busy(OpenOps) : \A b \in task'[j].got : b.id <= born'
    <3>1. SUFFICES ASSUME NEW j \in Busy(OpenOps), NEW b \in task'[j].got PROVE b.id <= born'
      OBVIOUS
    <3>2. CASE b \in task[j].got /\ b.id <= born
      <4>1. b.id \in Nat
        BY <1>5, <3>2 DEF Busy
      <4>2. QED
        BY <1>5, <3>2, <4>1
    <3>3. CASE b \in got /\ b.id = c
      <4>1. b \in Blocks
        BY <3>3
      <4>2. c > 0
        BY <3>3, <4>1 DEF Blocks
      <4>3. QED
        BY <3>3, <4>2
    <3>4. QED
      BY <1>7, <3>2, <3>3
  <2>4. QED
    BY <1>4, <2>1, <2>2, <2>3 DEF Given
<1>9. MadeFor'
  <2>1. SUFFICES ASSUME ~swapped PROVE MadeFor'
    BY <1>1 DEF MadeFor
  <2>2. \A j \in Slots : task[j].op = "save" => task[j].doc.of \in {0, task[j].id}
    BY <2>1, InvParts DEF MadeFor
  <2>3. \A id \in Stored' : store'[id].doc.of \in {0, id}
    BY <2>1, <2>2, InvParts DEF MadeFor
  <2>4. ASSUME NEW j \in Busy(OpenOps), NEW b \in task'[j].got PROVE b.doc.of \in {0, b.id}
    <3>1. CASE b \in task[j].got
      BY <2>1, <3>1, InvParts DEF MadeFor
    <3>2. CASE task[i].op = "save" /\ b \in got /\ b.id = c
      <4>1. b.doc.of \in {0, task[i].id, c}
        BY <2>1, <3>2
      <4>2. task[i].id = 0 \/ task[i].id = c
        BY <3>2
      <4>3. QED
        BY <3>2, <4>1, <4>2
    <3>3. QED
      BY <1>7, <3>1, <3>2
  <2>5. QED
    BY <1>1, <1>2, <1>4, <2>1, <2>2, <2>3, <2>4, InvParts DEF MadeFor, IsOpen
<1>10. Versions'
  <2>1. ASSUME NEW j \in Busy(OpenOps), NEW b \in task'[j].got, b.id \in Stored'
        PROVE  /\ b.stamp <= store'[b.id].stamp
               /\ b.stamp = store'[b.id].stamp => b.doc = store'[b.id].doc
    <3>1. CASE b \in task[j].got /\ b.id <= born
      <4>1. b.id \in Nat /\ b.stamp \in Nat /\ j \in Slots
        BY <1>5, <3>1 DEF Busy
      <4>2. b.id \in Stored
        BY <1>5, <2>1, <3>1, <4>1
      <4>3. /\ b.stamp <= store[b.id].stamp /\ store[b.id].stamp \in Nat
            /\ b.stamp = store[b.id].stamp => b.doc = store[b.id].doc
        BY <1>5, <3>1, <4>2, InvParts DEF Versions
      <4>4. CASE b.id # c
        BY <2>1, <4>3, <4>4
      <4>5. CASE b.id = c
        <5>1. store'[c].stamp = store[c].stamp + 1
          BY <1>5, <2>1, <3>1, <4>5
        <5>2. QED
          BY <4>1, <4>3, <4>5, <5>1
      <4>6. QED
        BY <4>4, <4>5
    <3>2. CASE b \in got /\ b.id = c
      <4>1. b.doc = store'[c].doc /\ b.stamp = store'[c].stamp
        BY <2>1, <3>2
      <4>2. b.stamp \in Nat
        BY <3>2 DEF Blocks
      <4>3. QED
        BY <3>2, <4>1, <4>2
    <3>3. QED
      BY <1>7, <3>1, <3>2
  <2>2. ASSUME IsOpen, editing.id \in Stored'
        PROVE  /\ editing.stamp <= store'[editing.id].stamp
               /\ editing.stamp = store'[editing.id].stamp /\ ~dirty =>
                    Content(doc) = Content(store'[editing.id].doc)
    <3>1. editing.id <= born
      BY InvParts DEF Given
    <3>2. editing.id \in Stored
      BY <1>5, <2>2, <3>1
    <3>3. /\ editing.stamp <= store[editing.id].stamp
          /\ editing.stamp = store[editing.id].stamp /\ ~dirty =>
               Content(doc) = Content(store[editing.id].doc)
      BY <2>2, <3>2, InvParts DEF Versions
    <3>4. CASE editing.id # c
      BY <2>2, <3>3, <3>4
    <3>5. CASE editing.id = c
      <4>1. store'[c].stamp = store[c].stamp + 1
        BY <1>5, <2>2, <3>1, <3>5
      <4>2. editing.stamp \in Nat /\ store[c].stamp \in Nat
        BY <1>5, <3>2, <3>5, InvParts DEF PageTypes
      <4>3. QED
        BY <3>3, <3>5, <4>1, <4>2
    <3>6. QED
      BY <3>4, <3>5
  <2>3. QED
    BY <1>1, <1>4, <2>1, <2>2 DEF Versions, IsOpen
<1>11. Arrives'
  <2>1. SUFFICES ASSUME NEW j \in Busy(OpenOps), task'[j].st = "served",
                        task'[j].alone \/ ~openRaced, NEW b \in task'[j].got, b.id \in Stored'
                 PROVE  b.stamp = store'[b.id].stamp
    BY <1>1, <1>4 DEF Arrives
  <2>2. CASE j = i /\ b \in got /\ b.id = c
    BY <2>1, <2>2
  <2>3. CASE j # i /\ b \in task[j].got /\ task'[j] = task[j] /\ b.id <= born
    <3>1. j \in Slots /\ b.id \in Nat
      BY <1>5, <2>3 DEF Busy
    <3>2. b.id \in Stored
      BY <1>5, <2>1, <2>3, <3>1
    <3>3. b.stamp = store[b.id].stamp
      BY <2>1, <2>3, <3>2, InvParts DEF Arrives
    <3>4. CASE b.id # c
      BY <2>1, <3>3, <3>4
    <3>5. CASE b.id = c
      <4>1. task[i].op = "save" /\ i \in Busy(OpenOps)
        BY <2>1, <3>5 DEF Busy, OpenOps
      <4>2. ~openRaced => FALSE
        BY <2>3, <4>1, InvParts DEF Solo
      <4>3. task[j].alone => FALSE
        <5>1. Overlap(task[j].op, task[i].op)
          BY <4>1 DEF Overlap, Busy
        <5>2. QED
          BY <2>3, <3>1, <5>1, InvParts DEF Solo
      <4>4. QED
        BY <2>1, <2>3, <4>2, <4>3
    <3>6. QED
      BY <3>4, <3>5
  <2>4. QED
    BY <1>7, <2>1, <2>2, <2>3
<1>12. Shows'
  <2>1. SUFFICES ASSUME ~openRaced PROVE Shows'
    BY <1>1 DEF Shows
  <2>2. \A j \in Slots : task'[j].op = "open" => editing.id <= 0
    BY <1>2, <2>1, InvParts DEF Shows
  <2>3. \A j \in Slots : task'[j].op = "save" /\ editing.id > 0 =>
          /\ task'[j].from = session /\ task'[j].id = editing.id
          /\ ~dirty => Content(doc) = Content(task'[j].doc)
    BY <1>2, <2>1, InvParts DEF Shows
  <2>4. ASSUME IsOpen, ~dirty, editing.id \in Stored'
        PROVE  Content(doc) = Content(store'[editing.id].doc)
    <3>1. editing.id <= born
      BY InvParts DEF Given
    <3>2. editing.id \in Stored
      BY <1>5, <2>4, <3>1
    <3>3. CASE editing.id # c
      BY <2>1, <2>4, <3>2, <3>3, InvParts DEF Shows
    <3>4. CASE editing.id = c
      <4>1. task[i].op = "save" /\ store'[c].doc = task[i].doc
        BY <1>5, <2>4, <3>1, <3>4
      <4>2. editing.id > 0
        BY <1>5, <3>2
      <4>3. QED
        BY <2>1, <2>4, <3>4, <4>1, <4>2, InvParts DEF Shows
    <3>5. QED
      BY <3>3, <3>4
  <2>5. QED
    BY <1>1, <1>2, <2>1, <2>2, <2>3, <2>4 DEF Shows, IsOpen
<1>13. Fetched'
  <2>1. SUFFICES ASSUME NEW j \in Slots, task[j].op = "list", task[j].alone \/ ~listRaced
                 PROVE  FALSE
    BY <1>1, <1>2 DEF Fetched
  <2>2. j # i /\ j \in Busy(ListOps) /\ Overlap(task[j].op, task[i].op)
    BY <1>4, <2>1 DEF Busy, ListOps, Overlap
  <2>3. QED
    BY <1>4, <2>1, <2>2, InvParts DEF Solo
<1>14. Lists'
  <2>1. SUFFICES ASSUME ~listRaced PROVE Lists'
    BY <1>1 DEF Lists
  <2>2. \A j \in Slots : task'[j].op \in {"list", "save"} => task'[j].lib = selected
    BY <1>2, <2>1, InvParts DEF Lists
  <2>3. ASSUME NEW j \in Slots, task'[j].op = "delete"
        PROVE  /\ task'[j].got = listed /\ task'[j].st = "served"
               /\ {b \in Visible : b.id # task'[j].id} = ListOf(selected)'
    <3>1. j \in Busy(ListOps) /\ task[j].op = "delete"
      BY <1>2, <2>3 DEF Busy, ListOps
    <3>2. j = i
      BY <1>4, <2>1, <3>1, InvParts DEF Solo
    <3>3. task[i].got = listed
      BY <2>1, <3>1, <3>2, InvParts DEF Lists
    <3>4. Visible = ListOf(selected)
      BY <2>1, <3>1, <3>2, InvParts DEF Lists
    <3>5. QED
      BY <1>2, <3>1, <3>2, <3>3, <3>4
  <2>4. Visible' = Visible
    BY <1>1 DEF Visible
  <2>5. QED
    BY <1>1, <1>4, <2>1, <2>2, <2>3, <2>4 DEF Lists
<1>15. QED
  BY <1>3, <1>8, <1>9, <1>10, <1>11, <1>12, <1>13, <1>14 DEF LibraryInv

(* A call refused, by the service or because it failed. *)
LEMMA NotFoundKeeps ==
  ASSUME LibraryInv, NEW i \in Slots, NotFound(i), UNCHANGED <<editorVars, server, page, races>>
  PROVE  LibraryInv'
<1>1. task[i] \in Calls
  BY InvParts DEF PageTypes
<1>2. task[i].got \in SUBSET Blocks
  BY <1>1 DEF Calls
<1>3. QED
  BY <1>2, ReturnKeeps DEF NotFound

LEMMA ListServed ==
  ASSUME LibraryInv, NEW i \in Slots, ServeList(i)
  PROVE  LibraryInv'
<1>1. task[i].op = "list" /\ UNCHANGED <<editorVars, server, page, races>>
  BY DEF ServeList, Asked, Rest
<1>2. Served(i, ListOf(task[i].lib))
  BY DEF ServeList, ListOf
<1>3. ListOf(task[i].lib) \in SUBSET Blocks
  BY InvParts, BlocksStored DEF ListOf
<1>4. "list" \notin OpenOps
  BY DEF OpenOps
<1>5. QED
  BY <1>1, <1>2, <1>3, <1>4, ReturnKeeps DEF Served

LEMMA OpenServed ==
  ASSUME LibraryInv, NEW i \in Slots, ServeOpen(i)
  PROVE  LibraryInv'
<1>1. task[i].op = "open" /\ UNCHANGED <<editorVars, server, page, races>>
  BY DEF ServeOpen, Asked, Rest
<1>2. CASE task[i].id \in Stored
  <2>1. Served(i, {BlockOf(task[i].id)})
    BY <1>2 DEF ServeOpen
  <2>2. {BlockOf(task[i].id)} \in SUBSET Blocks
    BY <1>2, InvParts, BlocksStored
  <2>3. QED
    BY <1>1, <1>2, <2>1, <2>2, ReturnKeeps DEF Served
<1>3. CASE task[i].id \notin Stored
  BY <1>1, <1>3, NotFoundKeeps DEF ServeOpen
<1>4. QED
  BY <1>2, <1>3

LEMMA PostServed ==
  ASSUME LibraryInv, NEW i \in Slots, ServePost(i)
  PROVE  LibraryInv'
<1>1. /\ task[i].op = "save" /\ task[i].st = "sent" /\ task[i].id = 0
      /\ UNCHANGED <<editorVars, page, races>>
  BY DEF ServePost, Asked, Rest
<1>2. CASE NotFound(i) /\ UNCHANGED server
  BY <1>1, <1>2, NotFoundKeeps
<1>3. CASE /\ \E id \in SameSource(task[i].doc) : Served(i, {BlockOf(id)})
           /\ UNCHANGED server
  <2>1. PICK id \in Stored : Served(i, {BlockOf(id)})
    BY <1>3 DEF SameSource
  <2>2. {BlockOf(id)} \in SUBSET Blocks
    BY InvParts, BlocksStored
  <2>3. QED
    BY <1>1, <1>3, <2>1, <2>2, ReturnKeeps DEF Served
<1> DEFINE d == task[i].doc
           n == born + 1
           own == Own(d, n)
<1>4. CASE /\ task[i].lib \in libs
           /\ store' = [store EXCEPT ![n] = [lib |-> task[i].lib, doc |-> own, stamp |-> 1]]
           /\ born' = n
           /\ Served(i, {[id |-> n, lib |-> task[i].lib, doc |-> own, stamp |-> 1]})
           /\ UNCHANGED libs
  <2>1. born \in Nat /\ n \in Nat \ {0} /\ n \in Nat /\ n > born
    BY InvParts DEF StoreTypes
  <2>2. task[i] \in Calls
    BY InvParts DEF PageTypes
  <2>3. d \in Docs /\ task[i].lib \in Libraries
    BY <2>2 DEF Calls
  <2>4. own \in Docs /\ own.of = n
    BY <2>1, <2>3 DEF Own, Doc, Docs
  <2> HIDE DEF d, n, own
  <2>5. PICK block : block = [id |-> n, lib |-> task[i].lib, doc |-> own, stamp |-> 1]
    OBVIOUS
  <2>6. {block} \in SUBSET Blocks /\ block.id = n /\ block.doc = own /\ block.stamp = 1
    BY <2>1, <2>3, <2>4, <2>5 DEF Blocks
  <2>7. PICK kept : kept = [lib |-> task[i].lib, doc |-> own, stamp |-> 1]
    OBVIOUS
  <2>8. kept \in [lib : Libraries, doc : Docs, stamp : Nat] /\ kept.doc = own /\ kept.stamp = 1
    BY <2>3, <2>4, <2>7
  <2>9. /\ store' = [store EXCEPT ![n] = kept]
        /\ store \in [Ids -> [lib : Libraries, doc : Docs, stamp : Nat]]
        /\ libs \subseteq Libraries
    BY <1>4, <2>7, InvParts DEF StoreTypes
  <2>10. StoreTypes'
    BY <1>4, <2>1, <2>8, <2>9 DEF StoreTypes, n
  <2>11. \A id \in Stored' : id # n => id \in Stored /\ store'[id] = store[id]
    BY <2>9 DEF Stored
  <2>12. n \in Stored' => store'[n].doc = own /\ store'[n].stamp = 1
    BY <2>8, <2>9 DEF Stored
  <2>13. Served(i, {block})
    BY <1>4, <2>5
  <2>14. born' >= born /\ (n > 0 => n <= born')
    BY <1>4, <2>1
  <2>15. \A b \in {block} : b.id = n /\ b.doc.of \in {0, task[i].id, n}
    BY <2>4, <2>6
  <2>16. n \in Stored' =>
           /\ \A b \in {block} : b.doc = store'[n].doc /\ b.stamp = store'[n].stamp
           /\ n > born /\ task[i].id = 0 /\ store'[n].doc.of \in {0, n}
    BY <1>1, <2>1, <2>4, <2>6, <2>12
  <2>17. task' = [task EXCEPT ![i] = Returned(task[i], "served", {block})]
    BY <2>13 DEF Served
  <2>18. QED
    BY <1>1, <2>1, <2>6, <2>10, <2>11, <2>14, <2>15, <2>16, <2>17, StoreKeeps
<1>5. QED
  BY <1>2, <1>3, <1>4 DEF ServePost

LEMMA PutServed ==
  ASSUME LibraryInv, NEW i \in Slots, ServePut(i)
  PROVE  LibraryInv'
<1> DEFINE id == task[i].id
<1>1. /\ task[i].op = "save" /\ task[i].st = "sent" /\ id # 0
      /\ UNCHANGED <<editorVars, page, races>>
  BY DEF ServePut, Asked, Rest
<1>2. CASE id \notin Stored
  BY <1>1, <1>2, NotFoundKeeps DEF ServePut
<1>3. CASE id \in Stored
  <2>1. /\ id \in Ids /\ id \in Nat /\ id > 0 /\ store[id].stamp \in Nat
        /\ store \in [Ids -> [lib : Libraries, doc : Docs, stamp : Nat]]
    BY <1>3, InvParts, BlocksStored DEF StoreTypes
  <2>2. task[i] \in Calls /\ store[id] \in [lib : Libraries, doc : Docs, stamp : Nat]
    BY <2>1, InvParts DEF PageTypes
  <2>3. task[i].doc \in Docs /\ store[id].lib \in Libraries
    BY <2>2 DEF Calls
  <2>4. PICK kept : kept = [lib |-> store[id].lib, doc |-> task[i].doc,
                            stamp |-> store[id].stamp + 1]
    OBVIOUS
  <2>5. /\ kept \in [lib : Libraries, doc : Docs, stamp : Nat]
        /\ kept.doc = task[i].doc /\ kept.stamp = store[id].stamp + 1 /\ kept.lib = store[id].lib
    BY <2>1, <2>3, <2>4
  <2>6. PICK block : block = [id |-> id, lib |-> kept.lib, doc |-> kept.doc,
                              stamp |-> kept.stamp]
    OBVIOUS
  <2>7. /\ store' = [store EXCEPT ![id] = kept] /\ Served(i, {block})
        /\ UNCHANGED <<libs, born>>
    BY <1>3, <2>4, <2>6 DEF ServePut
  <2>8. /\ {block} \in SUBSET Blocks /\ block.id = id
        /\ block.doc = kept.doc /\ block.stamp = kept.stamp
    BY <2>1, <2>3, <2>5, <2>6 DEF Blocks
  <2> HIDE DEF id
  <2>9. libs \subseteq Libraries /\ born \in Nat
    BY InvParts DEF StoreTypes
  <2>10. StoreTypes'
    BY <2>1, <2>5, <2>7, <2>9 DEF StoreTypes
  <2>11. \A x \in Stored' : x # id => x \in Stored /\ store'[x] = store[x]
    BY <2>1, <2>7 DEF Stored
  <2>12. store'[id] = kept
    BY <2>1, <2>7
  <2>13. id <= born /\ born' = born
    <3>1. id \in Ids /\ store[id].stamp > 0
      BY <1>3 DEF Stored
    <3>2. QED
      BY <2>1, <2>7, <2>9, <3>1, InvParts DEF Given
  <2>14. born' >= born /\ (id > 0 => id <= born')
    BY <2>9, <2>13
  <2>15. \A b \in {block} : b.id = id /\ (~swapped => b.doc.of \in {0, task[i].id, id})
    <3>1. ~swapped => task[i].doc.of \in {0, task[i].id}
      BY <1>1, InvParts DEF MadeFor
    <3>2. QED
      BY <2>5, <2>8, <3>1
  <2>16. id = task[i].id
    BY DEF id
  <2>17. /\ \A b \in {block} : b.doc = store'[id].doc /\ b.stamp = store'[id].stamp
         /\ store'[id].doc = task[i].doc /\ store'[id].stamp = store[id].stamp + 1
    BY <2>5, <2>8, <2>12
  <2>18. task' = [task EXCEPT ![i] = Returned(task[i], "served", {block})]
    BY <2>7 DEF Served
  <2>19. QED
    BY <1>1, <1>3, <2>1, <2>8, <2>10, <2>11, <2>14, <2>15, <2>16, <2>17, <2>18, StoreKeeps
<1>4. QED
  BY <1>2, <1>3

(* Blocks that go. *)
LEMMA Removed ==
  ASSUME StoreTypes, NEW gone \in SUBSET Ids,
         store' = [id \in Ids |-> IF id \in gone THEN NoBlock ELSE store[id]],
         libs' \subseteq libs, born' = born
  PROVE  StoreTypes' /\ \A id \in Stored' : id \in Stored \ gone /\ store'[id] = store[id]
<1>1. NewDoc \in Docs
  BY DEF NewDoc, Doc, Docs
<1>2. NoBlock \in [lib : Libraries, doc : Docs, stamp : Nat] /\ NoBlock.stamp = 0
  BY <1>1, LibraryAssumption DEF NoBlock
<1> HIDE DEF NoBlock
<1>3. StoreTypes'
  BY <1>2 DEF StoreTypes
<1>4. QED
  BY <1>2, <1>3 DEF Stored

(* The store only lost blocks. *)
LEMMA GoneKeeps ==
  ASSUME LibraryInv, NEW i \in Slots, NEW got \in SUBSET Blocks,
         task' = [task EXCEPT ![i] = Returned(task[i], "served", got)],
         UNCHANGED <<editorVars, page, races>>, StoreTypes',
         task[i].op \in {"delete", "clear", "drop"}, task[i].st = "sent", born' = born,
         \A id \in Stored' : id \in Stored /\ store'[id] = store[id],
         task[i].op = "delete" =>
           /\ got = task[i].got
           /\ ListOf(selected)' = {x \in ListOf(selected) : x.id # task[i].id}
  PROVE  LibraryInv'
<1>1. 0 \notin Stored
  BY InvParts, BlocksStored
<1>2. 0 \notin Stored'
  BY <1>1
<1>3. born' >= born /\ (0 > 0 => 0 <= born')
  BY InvParts DEF StoreTypes
<1>4. PICK c \in Nat : c = 0
  OBVIOUS
<1>5. task[i].op # "save" /\ c \notin Stored' /\ born' >= born /\ (c > 0 => c <= born')
  BY <1>2, <1>3, <1>4
<1>6. QED
  BY <1>5, StoreKeeps

LEMMA DeleteServed ==
  ASSUME LibraryInv, NEW i \in Slots, ServeDelete(i)
  PROVE  LibraryInv'
<1>1. /\ task[i].op = "delete" /\ task[i].st = "sent"
      /\ UNCHANGED <<editorVars, page, races>>
  BY DEF ServeDelete, Asked, Rest
<1>2. CASE task[i].id \notin Stored
  BY <1>1, <1>2, NotFoundKeeps DEF ServeDelete
<1>3. CASE task[i].id \in Stored
  <2>1. /\ store' = [store EXCEPT ![task[i].id] = NoBlock]
        /\ task' = [task EXCEPT ![i] = Returned(task[i], "served", task[i].got)]
        /\ UNCHANGED <<libs, born>>
    BY <1>3 DEF ServeDelete, Served
  <2>2. PICK gone \in SUBSET Ids : gone = {task[i].id}
    BY <1>3 DEF Stored
  <2>3. store \in [Ids -> [lib : Libraries, doc : Docs, stamp : Nat]]
    BY InvParts DEF StoreTypes
  <2>4. store' = [id \in Ids |-> IF id \in gone THEN NoBlock ELSE store[id]]
    BY <2>1, <2>2, <2>3
  <2>5. StoreTypes' /\ \A id \in Stored' : id \in Stored \ gone /\ store'[id] = store[id]
    BY <2>1, <2>4, InvParts, Removed
  <2>6. Stored' = Stored \ gone
    BY <2>4, <2>5 DEF Stored
  <2>7. \A id \in Stored' : BlockOf(id)' = BlockOf(id) /\ store'[id].lib = store[id].lib
    BY <2>5 DEF BlockOf
  <2>8. selected' = selected
    BY <1>1 DEF page
  <2>9. ListOf(selected)' = {x \in ListOf(selected) : x.id # task[i].id}
    <3>1. ListOf(selected)' = {BlockOf(id) : id \in {b \in Stored \ gone : store[b].lib = selected}}
      BY <2>6, <2>7, <2>8 DEF ListOf
    <3>2. \A id \in Stored : BlockOf(id).id = id
      BY InvParts, BlocksStored
    <3>3. QED
      BY <2>2, <3>1, <3>2 DEF ListOf
  <2>10. task[i] \in Calls
    BY InvParts DEF PageTypes
  <2>11. task[i].got \in SUBSET Blocks
    BY <2>10 DEF Calls
  <2>12. QED
    BY <1>1, <2>1, <2>5, <2>9, <2>11, GoneKeeps
<1>4. QED
  BY <1>2, <1>3

LEMMA EmptiedServed ==
  ASSUME LibraryInv, NEW i \in Slots, task[i].op \in {"clear", "drop"}, task[i].st = "sent",
         UNCHANGED <<editorVars, page, races>>,
         store' = Emptied(task[i].lib) \/ store' = store, libs' \subseteq libs, born' = born,
         Served(i, {})
  PROVE  LibraryInv'
<1>1. StoreTypes /\ store \in [Ids -> [lib : Libraries, doc : Docs, stamp : Nat]]
  BY InvParts DEF StoreTypes
<1>2. PICK gone \in SUBSET Ids :
         store' = [id \in Ids |-> IF id \in gone THEN NoBlock ELSE store[id]]
  <2>1. CASE store' = Emptied(task[i].lib)
    <3>1. PICK gone \in SUBSET Ids : gone = {id \in Ids : store[id].lib = task[i].lib}
      OBVIOUS
    <3>2. store' = [id \in Ids |-> IF id \in gone THEN NoBlock ELSE store[id]]
      BY <2>1, <3>1 DEF Emptied
    <3>3. QED
      BY <3>2
  <2>2. CASE store' = store
    <3>1. store' = [id \in Ids |-> IF id \in {} THEN NoBlock ELSE store[id]]
      BY <1>1, <2>2
    <3>2. QED
      BY <3>1
  <2>3. QED
    BY <2>1, <2>2
<1>3. StoreTypes' /\ \A id \in Stored' : id \in Stored \ gone /\ store'[id] = store[id]
  BY <1>1, <1>2, Removed
<1>4. task' = [task EXCEPT ![i] = Returned(task[i], "served", {})] /\ {} \in SUBSET Blocks
  BY DEF Served
<1>5. QED
  BY <1>3, <1>4, GoneKeeps

LEMMA ServeKeeps ==
  ASSUME LibraryInv, NEW i \in Slots, Serve(i)
  PROVE  LibraryInv'
<1>1. ServeClear(i) => LibraryInv'
  BY EmptiedServed DEF ServeClear, Asked, Rest
<1>2. ASSUME ServeDrop(i) PROVE LibraryInv'
  <2>1. /\ task[i].op = "drop" /\ task[i].st = "sent"
        /\ UNCHANGED <<editorVars, page, races>>
    BY <1>2 DEF ServeDrop, Asked, Rest
  <2>2. CASE task[i].lib \in libs
    BY <1>2, <2>1, <2>2, EmptiedServed DEF ServeDrop
  <2>3. CASE task[i].lib \notin libs
    BY <1>2, <2>1, <2>3, NotFoundKeeps DEF ServeDrop
  <2>4. QED
    BY <2>2, <2>3
<1>3. QED
  BY <1>1, <1>2, ListServed, OpenServed, PostServed, PutServed, DeleteServed DEF Serve

LEMMA FailKeeps ==
  ASSUME LibraryInv, NEW i \in Slots, Fail(i)
  PROVE  LibraryInv'
BY NotFoundKeeps DEF Fail

-----------------------------------------------------------------------------
(* The library page: what the engineer asks for. *)

LEMMA SendKeeps ==
  ASSUME LibraryInv, NEW call \in Calls, Send(call), Addressed(call), selected' \in Libraries,
         UNCHANGED <<editing, fields, session, history, sim, server, listed, swapped>>
  PROVE  LibraryInv'
<1>1. PICK i \in Slots : task[i].op = "idle" /\ Put(i, call)
  BY SendFacts
<1>2. Marked(call)
  BY DEF Send, Marked
<1>3. QED
  BY <1>1, <1>2, SentKeeps

LEMMA TypesFacts ==
  ASSUME LibraryInv
  PROVE  /\ PageTypes /\ session \in Nat /\ selected \in Libraries /\ listed \in SUBSET Blocks
         /\ NewDoc \in Docs /\ doc \in Docs /\ {} \in SUBSET Blocks
         /\ \A id \in Ids : id \in Nat
         /\ IsOpen => editing.id \in Nat
         /\ ~IsOpen => editing.id <= 0
         /\ editing.id \in Int
<1>1. PageTypes /\ doc \in Docs
  BY InvParts DEF HistoryInv
<1>2. session \in Nat /\ selected \in Libraries /\ listed \in SUBSET Blocks
  BY <1>1 DEF PageTypes
<1>3. editing.id \in Nat \cup {-1}
  BY <1>1 DEF PageTypes
<1>4. NewDoc \in Docs
  BY DEF NewDoc, Doc, Docs
<1>5. \A id \in Ids : id \in Nat
  BY EditorAssumption DEF Ids
<1>6. QED
  BY <1>1, <1>2, <1>3, <1>4, <1>5 DEF IsOpen

LEMMA SelectKeeps ==
  ASSUME LibraryInv, NEW lib \in Libraries, SelectLibrary(lib)
  PROVE  LibraryInv'
<1>1. PICK call : call = Call("list", "sent", 0, lib, NewDoc, session, FALSE, {})
  OBVIOUS
<1>2. /\ call \in Calls /\ call.op = "list" /\ call.st = "sent" /\ call.lib = lib
  BY <1>1, TypesFacts DEF Call, Calls, ListOps
<1>3. Send(call) /\ selected' = lib
  BY <1>1 DEF SelectLibrary, fetchBlocks, Sent
<1>4. Addressed(call)
  BY <1>2, <1>3 DEF Addressed, ListOps, OpenOps
<1>5. QED
  BY <1>2, <1>3, <1>4, SendKeeps DEF SelectLibrary, PageAct

LEMMA OpenKeeps ==
  ASSUME LibraryInv, NEW id \in Ids, handleOpenEditor(id)
  PROVE  LibraryInv'
<1>1. PICK call : call = Call("open", "sent", id, selected, NewDoc, session, FALSE, {})
  OBVIOUS
<1>2. call \in Calls /\ call.op = "open" /\ call.st = "sent" /\ call.got = {}
  BY <1>1, TypesFacts DEF Call, Calls, ListOps
<1>3. Send(call) /\ selected' = selected /\ listed' = listed /\ ~IsOpen
  BY <1>1 DEF handleOpenEditor, PageAct, Sent, page
<1>4. Addressed(call)
  BY <1>2, <1>3, TypesFacts DEF Addressed, ListOps, OpenOps
<1>5. QED
  BY <1>2, <1>3, <1>4, TypesFacts, SendKeeps DEF handleOpenEditor, PageAct

LEMMA DeleteKeeps ==
  ASSUME LibraryInv, NEW id \in Ids, handleDeleteBlock(id)
  PROVE  LibraryInv'
<1>1. PICK call : call = Call("delete", "sent", id, selected, NewDoc, session, FALSE, listed)
  OBVIOUS
<1>2. call \in Calls /\ call.op = "delete" /\ call.st = "sent" /\ call.got = listed
  BY <1>1, TypesFacts DEF Call, Calls, ListOps
<1>3. Send(call) /\ selected' = selected /\ listed' = listed
  BY <1>1 DEF handleDeleteBlock, page
<1>4. Addressed(call)
  BY <1>2, <1>3 DEF Addressed, ListOps, OpenOps
<1>5. QED
  BY <1>2, <1>3, <1>4, TypesFacts, SendKeeps DEF handleDeleteBlock, PageAct

LEMMA EmptyKeeps ==
  ASSUME LibraryInv, NEW lib \in Libraries, handleDelete(lib) \/ handleClear(lib)
  PROVE  LibraryInv'
<1>1. PICK op \in {"drop", "clear"} : Send(Sent(op, 0, lib, NewDoc))
  BY DEF handleDelete, handleClear
<1>2. PICK call : call = Call(op, "sent", 0, lib, NewDoc, session, FALSE, {})
  OBVIOUS
<1>3. call \in Calls /\ call.op = op /\ call.st = "sent"
  BY <1>2, TypesFacts DEF Call, Calls, ListOps
<1>4. Send(call)
  BY <1>1, <1>2 DEF Sent
<1>5. Addressed(call)
  BY <1>3 DEF Addressed, ListOps, OpenOps
<1>6. /\ UNCHANGED <<editing, fields, session, history, sim, server, listed, swapped>>
      /\ selected' = selected
  BY DEF handleDelete, handleClear, PageAct, page
<1>7. QED
  BY <1>3, <1>4, <1>5, <1>6, TypesFacts, SendKeeps

LEMMA SaveKeeps ==
  ASSUME LibraryInv, handleSave
  PROVE  LibraryInv'
<1>1. PICK call : call = Call("save", "sent", editing.id, selected, doc, session, FALSE, {})
  OBVIOUS
<1>2. Send(call) /\ selected' = selected /\ listed' = listed /\ IsOpen
  BY <1>1 DEF handleSave, Sent, page
<1>3. editing.id \in Nat
  BY <1>2, TypesFacts
<1>4. /\ call \in Calls /\ call.op = "save" /\ call.st = "sent" /\ call.got = {}
      /\ call.id = editing.id /\ call.lib = selected /\ call.doc = doc /\ call.from = session
  BY <1>1, <1>3, TypesFacts DEF Call, Calls, ListOps
<1>5. Addressed(call)
  BY <1>2, <1>4 DEF Addressed, ListOps, OpenOps
<1>6. QED
  BY <1>2, <1>4, <1>5, TypesFacts, SendKeeps DEF handleSave

-----------------------------------------------------------------------------
(* The editor is given a block. *)

LEMMA GivenBlock ==
  ASSUME HistoryInv, SimInv, session \in Nat, NEW b, b.doc \in Docs, b.id \in Nat,
         SetEditing(b), edits' = edits
  PROVE  /\ HistoryInv' /\ SimInv' /\ session' \in Nat
         /\ editing' = [id |-> b.id, stamp |-> b.stamp]
         /\ \/ IsOpen /\ editing' = editing /\ doc' = doc /\ dirty' = dirty
            \/ doc' = b.doc /\ dirty' = FALSE
         /\ \A k \in DOMAIN hist' : \/ hist'[k] = b.doc
                                    \/ IsOpen /\ k \in DOMAIN hist /\ hist'[k] = hist[k]
<1>1. editing' = [id |-> b.id, stamp |-> b.stamp] /\ IsOpen'
  BY DEF SetEditing, IsOpen
<1>2. CASE ~IsOpen
  <2>1. PICK d \in Docs : d = b.doc /\ Mounted(d)
    BY <1>2 DEF SetEditing
  <2>2. /\ doc' = d /\ dirty' = FALSE /\ session' = session + 1
        /\ hist' = <<d>> /\ at' = 1 /\ pending' = (d.source = 0) /\ lagged' = FALSE
        /\ sim' = NoSim
    BY <2>1 DEF Mounted
  <2>3. <<d>> \in Seq(Docs) /\ Len(<<d>>) = 1 /\ <<d>>[1] = d /\ DOMAIN <<d>> = {1}
    OBVIOUS
  <2>4. MaxHistory \in Nat /\ 1 <= MaxHistory
    BY EditorAssumption
  <2>5. pending' \in BOOLEAN /\ at' \in 1 .. Len(hist') /\ Len(hist') <= MaxHistory
    BY <2>2, <2>3, <2>4
  <2>6. hist' \in Seq(Docs) /\ hist'[at'] = doc' /\ doc' \in Docs
    BY <2>2, <2>3
  <2>7. edits' \in Nat
    BY DEF HistoryInv
  <2>8. HistoryInv'
    BY <2>2, <2>5, <2>6, <2>7 DEF HistoryInv
  <2>9. QED
    BY <1>1, <2>1, <2>2, <2>3, <2>8, TabsKeep
<1>3. CASE IsOpen /\ editing' = editing
  <2>1. UNCHANGED <<doc, dirty, session, hist, at, pending, lagged, sim>>
    BY <1>3 DEF SetEditing, history
  <2>2. HistoryInv'
    BY <1>3, <2>1 DEF HistoryInv, IsOpen
  <2>3. QED
    BY <1>1, <1>3, <2>1, <2>2, TabsKeep
<1>4. CASE IsOpen /\ editing' # editing
  <2>1. /\ doc' = b.doc /\ dirty' = FALSE
        /\ lagged' = (lagged \/ Content(b.doc) # Content(doc))
        /\ UNCHANGED <<session, hist, at, pending, sim>>
    BY <1>4 DEF SetEditing
  <2>2. lagged' \in BOOLEAN /\ (~lagged' => ~lagged /\ Content(doc') = Content(doc))
    BY <2>1 DEF HistoryInv
  <2>3. HistoryInv'
    BY <1>4, <2>1, <2>2 DEF HistoryInv
  <2>4. QED
    BY <1>1, <1>4, <2>1, <2>3, TabsKeep
<1>5. QED
  BY <1>2, <1>3, <1>4

(* Nothing of the calls, the store or the list changes, and no block that is
   stored is open. *)
LEMMA NoneOpenKeeps ==
  ASSUME LibraryInv, HistoryInv', SimInv', editing' \in [id : {-1, 0}, stamp : Nat],
         session' \in Nat,
         IsOpen' => doc'.of = 0 /\ \A k \in DOMAIN hist' : hist'[k].of = 0,
         UNCHANGED <<server, page, task, races>>
  PROVE  LibraryInv'
<1>1. UNCHANGED <<libs, store, born, selected, listed, task, listRaced, openRaced, swapped>>
  BY DEF server, page, races
<1>2. editing'.id \in {-1, 0} /\ 0 \notin Stored /\ -1 \notin Stored /\ born \in Nat
      /\ editing' \in [id : Nat \cup {-1}, stamp : Nat]
  <2>1. 0 \notin Ids /\ -1 \notin Ids
    BY EditorAssumption DEF Ids
  <2>2. QED
    BY <2>1, InvParts DEF Stored, StoreTypes
<1>3. StoreTypes' /\ PageTypes' /\ Solo'
  BY <1>1, <1>2, InvParts DEF StoreTypes, PageTypes, Solo, Busy
<1>4. Given' /\ Arrives'
  BY <1>1, <1>2, InvParts DEF Given, Arrives, Busy, Stored
<1>5. Fetched' /\ Lists'
  BY <1>1, InvParts DEF Fetched, Lists, Busy, Stored, ListOf, BlockOf, Visible
<1>6. MadeFor'
  BY <1>1, <1>2, InvParts DEF MadeFor, Busy, Stored
<1>7. Versions'
  BY <1>1, <1>2, InvParts DEF Versions, Busy, Stored
<1>8. Shows'
  BY <1>1, <1>2 DEF Shows, Stored
<1>9. QED
  BY <1>3, <1>4, <1>5, <1>6, <1>7, <1>8 DEF LibraryInv

LEMMA CreateKeeps ==
  ASSUME LibraryInv, handleCreateBlock
  PROVE  LibraryInv'
<1>1. PICK b : b = [id |-> 0, doc |-> NewDoc, stamp |-> 0]
  OBVIOUS
<1>2. b.id = 0 /\ b.doc = NewDoc /\ b.stamp = 0
  BY <1>1
<1>3. ~IsOpen /\ SetEditing(b) /\ edits' = edits /\ UNCHANGED <<server, page, task, races>>
  BY <1>1 DEF handleCreateBlock
<1>4. b.doc \in Docs /\ b.id \in Nat /\ session \in Nat /\ HistoryInv /\ SimInv
  BY <1>2, InvParts, TypesFacts
<1>5. /\ HistoryInv' /\ SimInv' /\ session' \in Nat
      /\ editing' = [id |-> b.id, stamp |-> b.stamp]
      /\ doc' = b.doc
      /\ \A k \in DOMAIN hist' : hist'[k] = b.doc
  BY <1>3, <1>4, GivenBlock
<1>6. NewDoc.of = 0 /\ editing' \in [id : {-1, 0}, stamp : Nat]
  BY <1>2, <1>5 DEF NewDoc, Doc
<1>7. QED
  BY <1>2, <1>3, <1>5, <1>6, NoneOpenKeeps

LEMMA CloseKeeps ==
  ASSUME LibraryInv, Close
  PROVE  LibraryInv'
<1>1. /\ editing' = Closed /\ doc' = NewDoc /\ dirty' = FALSE /\ hist' = <<>> /\ at' = 0
      /\ pending' = FALSE /\ lagged' = FALSE /\ sim' = NoSim
      /\ session' = session /\ edits' = edits /\ UNCHANGED <<server, page, task, races>>
  BY DEF Close, handleClose
<1>2. editing' = [id |-> -1, stamp |-> 0] /\ ~IsOpen'
  BY <1>1 DEF Closed, IsOpen
<1>3. <<>> \in Seq(Docs)
  OBVIOUS
<1>4. HistoryInv'
  BY <1>1, <1>2, <1>3, TypesFacts, InvParts DEF HistoryInv
<1>5. editing' \in [id : {-1, 0}, stamp : Nat]
  BY <1>2
<1>6. QED
  BY <1>1, <1>2, <1>4, <1>5, TypesFacts, TabsKeep, NoneOpenKeeps

-----------------------------------------------------------------------------
(* The library page: an answer is handled. *)

(* The call in slot i is over; its slot, and perhaps a free one, is idle again
   or fetches a list. *)
Fresh(t) == t.op \in {"idle", "list"} /\ t.st = "sent"
Handled(i) ==
  /\ task' \in [Slots -> Calls] /\ Fresh(task'[i])
  /\ \A j \in Slots \ {i} :
       \/ task[j].op = "idle" /\ Fresh(task'[j])
       \/ Same(task'[j], task[j]) /\ (task'[j].alone => task[j].alone)
  /\ \A j, k \in Slots : j # k /\ task'[j].alone => ~Overlap(task'[j].op, task'[k].op)

LEMMA DoneHandled ==
  ASSUME LibraryInv, NEW i \in Slots, Done(i)
  PROVE  Handled(i) /\ task'[i].op = "idle" /\ \A j \in Slots \ {i} : task'[j] = task[j]
<1>1. /\ task' \in [Slots -> Calls]
      /\ task'[i].op = "idle" /\ ~task'[i].alone
      /\ \A j \in Slots \ {i} : task'[j] = task[j]
  BY InvParts, DoneFacts
<1>2. task'[i].st = "sent"
  <2>1. task'[i] = Idle
    BY InvParts DEF Done, PageTypes
  <2>2. QED
    BY <2>1 DEF Idle, Call
<1>3. ASSUME NEW j \in Slots, NEW k \in Slots, j # k, task'[j].alone
      PROVE  ~Overlap(task'[j].op, task'[k].op)
  <2>1. j # i /\ task'[j] = task[j]
    BY <1>1, <1>3
  <2>2. CASE k = i
    BY <1>1, <2>2 DEF Overlap, ListOps, OpenOps
  <2>3. CASE k # i
    BY <1>1, <1>3, <2>1, <2>3, InvParts DEF Solo
  <2>4. QED
    BY <2>2, <2>3
<1>4. QED
  BY <1>1, <1>2, <1>3 DEF Handled, Fresh, Same

LEMMA RefetchHandled ==
  ASSUME LibraryInv, NEW i \in Slots, NEW lib \in Libraries, Refetch(i, lib)
  PROVE  /\ Handled(i) /\ task'[i].op = "list" /\ task'[i].lib = lib
         /\ \A j \in Slots \ {i} : Same(task'[j], task[j])
<1>1. PICK call : call = Call("list", "sent", 0, lib, NewDoc, session, FALSE, {})
  OBVIOUS
<1>2. call \in Calls /\ call.op = "list" /\ call.st = "sent" /\ call.lib = lib
  BY <1>1, TypesFacts DEF Call, Calls, ListOps
<1>3. Put(i, call)
  BY <1>1 DEF Refetch, fetchBlocks, Sent
<1>4. /\ task' \in [Slots -> Calls]
      /\ Same(task'[i], call)
      /\ task'[i].alone => \A j \in Slots \ {i} : ~Overlap(call.op, task[j].op)
      /\ \A j \in Slots \ {i} :
           /\ Same(task'[j], task[j])
           /\ task'[j].alone => task[j].alone /\ ~Overlap(call.op, task[j].op)
  BY <1>2, <1>3, InvParts, PutFacts
<1>5. task'[i].op = "list" /\ task'[i].st = "sent" /\ task'[i].lib = lib
  BY <1>2, <1>4 DEF Same
<1>6. ASSUME NEW j \in Slots, NEW k \in Slots, j # k, task'[j].alone
      PROVE  ~Overlap(task'[j].op, task'[k].op)
  <2>1. CASE j = i
    BY <1>2, <1>4, <1>5, <1>6, <2>1 DEF Same
  <2>2. CASE k = i
    BY <1>2, <1>4, <1>5, <1>6, <2>2 DEF Same, Overlap
  <2>3. CASE j # i /\ k # i
    BY <1>4, <1>6, <2>3, InvParts DEF Same, Solo
  <2>4. QED
    BY <2>1, <2>2, <2>3
<1>7. QED
  BY <1>4, <1>5, <1>6 DEF Handled, Fresh

LEMMA HandledFacts ==
  ASSUME LibraryInv, NEW i \in Slots, Handled(i)
  PROVE  /\ i \notin Busy(OpenOps)'
         /\ \A j \in Busy(OpenOps)' : /\ j \in Busy(OpenOps) /\ j # i /\ j \in Slots
                                      /\ Same(task'[j], task[j])
                                      /\ task'[j].alone => task[j].alone
         /\ \A j \in Slots : task'[j].op \notin {"idle", "list"} =>
              j # i /\ Same(task'[j], task[j])
         /\ \A j \in Slots : task'[j].st # "sent" =>
              j # i /\ Same(task'[j], task[j]) /\ (task'[j].alone => task[j].alone)
<1>1. \A j \in Slots : \/ Fresh(task'[j])
                       \/ /\ j # i /\ Same(task'[j], task[j])
                          /\ task'[j].alone => task[j].alone
  BY DEF Handled
<1>2. i \notin Busy(OpenOps)'
  BY DEF Handled, Fresh, Busy, OpenOps
<1>3. \A j \in Busy(OpenOps)' : j \in Slots /\ ~Fresh(task'[j])
  BY DEF Busy, OpenOps, Fresh
<1>4. \A j \in Busy(OpenOps)' : j \in Busy(OpenOps)
  BY <1>1, <1>3 DEF Busy, Same
<1>5. QED
  BY <1>1, <1>2, <1>3, <1>4 DEF Fresh

(* The invariants of the open block, when the answer is not about it. *)
EditorParts ==
  /\ HistoryInv /\ SimInv /\ StoreTypes /\ Given /\ MadeFor /\ Versions /\ Arrives /\ Shows
  /\ ~openRaced => \A i, j \in Busy(OpenOps) : i = j

LEMMA EditorUntouched ==
  ASSUME LibraryInv, NEW i \in Slots, Handled(i),
         UNCHANGED <<editing, fields, session, history, sim, server, swapped>>,
         openRaced => openRaced'
  PROVE  EditorParts'
<1>1. /\ UNCHANGED <<editing, doc, dirty, edits, hist, at, pending, lagged, session, sim>>
      /\ UNCHANGED <<libs, store, born, swapped>>
  BY DEF fields, history, server
<1>2. \A j \in Busy(OpenOps)' : /\ j \in Busy(OpenOps) /\ task'[j].got = task[j].got
                                /\ task'[j].st = task[j].st
                                /\ task'[j].alone => task[j].alone
  BY HandledFacts DEF Same
<1>3. \A j \in Slots : task'[j].op \in {"save", "open"} =>
        /\ task'[j].op = task[j].op /\ task'[j].id = task[j].id /\ task'[j].doc = task[j].doc
        /\ task'[j].from = task[j].from
  BY HandledFacts DEF Same
<1>4. HistoryInv' /\ SimInv' /\ StoreTypes'
  BY <1>1, InvParts DEF HistoryInv, SimInv, IsOpen, StoreTypes
<1>5. Given' /\ Versions'
  BY <1>1, <1>2, InvParts DEF Given, Versions, IsOpen, Stored
<1>6. MadeFor'
  BY <1>1, <1>2, <1>3, InvParts DEF MadeFor, IsOpen, Stored
<1>7. Arrives'
  BY <1>1, <1>2, InvParts DEF Arrives, Stored
<1>8. Shows'
  BY <1>1, <1>3, InvParts DEF Shows, IsOpen, Stored
<1>9. ~openRaced' => \A j, k \in Busy(OpenOps)' : j = k
  BY <1>2, InvParts DEF Solo
<1>10. QED
  BY <1>4, <1>5, <1>6, <1>7, <1>8, <1>9 DEF EditorParts

(* The same, when it brings the block that opens or was saved. *)
LEMMA EditorLoaded ==
  ASSUME LibraryInv, NEW i \in Slots, Handled(i), task[i].op \in OpenOps, task[i].st = "served",
         NEW b \in task[i].got, SetEditing(b), edits' = edits, UNCHANGED server,
         swapped \/ (IsOpen /\ editing.id \notin {0, b.id}) => swapped',
         openRaced' = IF task[i].alone /\ Last(i, OpenOps) THEN FALSE ELSE openRaced
  PROVE  EditorParts' /\ session' \in Nat /\ editing' \in [id : Nat \cup {-1}, stamp : Nat]
<1>1. UNCHANGED <<libs, store, born>> /\ i \in Busy(OpenOps) /\ task[i] \in Calls
  BY InvParts DEF server, Busy, PageTypes
<1>2. b \in Blocks
  BY <1>1 DEF Calls
<1>3. b.id \in Nat \ {0} /\ b.doc \in Docs /\ b.stamp \in Nat \ {0}
  BY <1>2 DEF Blocks
<1>4. HistoryInv /\ SimInv /\ session \in Nat /\ b.id \in Nat
  BY <1>3, InvParts, TypesFacts
<1>5. /\ HistoryInv' /\ SimInv' /\ session' \in Nat
      /\ editing' = [id |-> b.id, stamp |-> b.stamp]
      /\ \/ IsOpen /\ editing' = editing /\ doc' = doc /\ dirty' = dirty
         \/ doc' = b.doc /\ dirty' = FALSE
      /\ \A k \in DOMAIN hist' : \/ hist'[k] = b.doc
                                 \/ IsOpen /\ k \in DOMAIN hist /\ hist'[k] = hist[k]
  BY <1>3, <1>4, GivenBlock
<1>6. editing'.id = b.id /\ editing'.stamp = b.stamp /\ IsOpen'
      /\ editing' \in [id : Nat \cup {-1}, stamp : Nat]
  BY <1>3, <1>5 DEF IsOpen
<1>7. \A j \in Busy(OpenOps)' : /\ j \in Busy(OpenOps) /\ j # i /\ task'[j].got = task[j].got
                                /\ task'[j].st = task[j].st
                                /\ task'[j].alone => task[j].alone
  BY HandledFacts DEF Same
<1>8. \A j \in Slots : task'[j].op \in {"save", "open"} =>
        /\ j \in Busy(OpenOps)'
        /\ task'[j].op = task[j].op /\ task'[j].id = task[j].id /\ task'[j].doc = task[j].doc
  BY HandledFacts DEF Same, Busy, OpenOps
(* Unless calls overlapped, none is left, and the block is as it is stored. *)
<1>9. ASSUME ~openRaced'
      PROVE  /\ Busy(OpenOps)' = {}
             /\ b.id \in Stored => b.stamp = store[b.id].stamp /\ b.doc = store[b.id].doc
  <2>1. task[i].alone \/ ~openRaced
    BY <1>9
  <2>2. \A j \in Busy(OpenOps) : j = i
    <3>1. CASE task[i].alone /\ Last(i, OpenOps)
      BY <3>1 DEF Last
    <3>2. CASE ~openRaced
      BY <1>1, <3>2, InvParts DEF Solo
    <3>3. QED
      BY <1>9, <3>1, <3>2
  <2>3. b.id \in Stored => b.stamp = store[b.id].stamp
    BY <1>1, <2>1, InvParts DEF Arrives
  <2>4. b.id \in Stored /\ b.stamp = store[b.id].stamp => b.doc = store[b.id].doc
    BY <1>1, InvParts DEF Versions
  <2>5. QED
    BY <1>7, <2>2, <2>3, <2>4
<1>10. StoreTypes'
  BY <1>1, InvParts DEF StoreTypes
<1>11. Given'
  <2>1. b.id <= born
    BY <1>1, InvParts DEF Given
  <2>2. QED
    BY <1>1, <1>6, <1>7, <2>1, InvParts DEF Given
<1>12. MadeFor'
  <2>1. SUFFICES ASSUME ~swapped, ~(IsOpen /\ editing.id \notin {0, b.id}) PROVE MadeFor'
    BY DEF MadeFor
  <2>2. b.doc.of \in {0, b.id}
    BY <1>1, <2>1, InvParts DEF MadeFor
  <2>3. IsOpen => /\ doc.of \in {0, b.id}
                  /\ \A k \in DOMAIN hist : hist[k].of \in {0, b.id}
    <3>1. IsOpen => /\ doc.of \in {0, editing.id}
                    /\ \A k \in DOMAIN hist : hist[k].of \in {0, editing.id}
      BY <2>1, InvParts DEF MadeFor
    <3>2. QED
      BY <2>1, <3>1
  <2>4. /\ doc'.of \in {0, b.id}
        /\ \A k \in DOMAIN hist' : hist'[k].of \in {0, b.id}
    BY <1>5, <2>2, <2>3
  <2>5. \A id \in Stored' : store'[id].doc.of \in {0, id}
    BY <1>1, <2>1, InvParts DEF MadeFor, Stored
  <2>6. \A j \in Slots : task'[j].op = "save" => task'[j].doc.of \in {0, task'[j].id}
    BY <1>8, <2>1, InvParts DEF MadeFor
  <2>7. \A j \in Busy(OpenOps)' : \A x \in task'[j].got : x.doc.of \in {0, x.id}
    BY <1>7, <2>1, InvParts DEF MadeFor
  <2>8. QED
    BY <1>6, <2>4, <2>5, <2>6, <2>7 DEF MadeFor
<1>13. Versions'
  <2>1. \A j \in Busy(OpenOps)' : \A x \in task'[j].got : x.id \in Stored =>
          /\ x.stamp <= store[x.id].stamp
          /\ x.stamp = store[x.id].stamp => x.doc = store[x.id].doc
    BY <1>7, InvParts DEF Versions
  <2>2. b.id \in Stored =>
          /\ b.stamp <= store[b.id].stamp
          /\ b.stamp = store[b.id].stamp => b.doc = store[b.id].doc
    BY <1>1, InvParts DEF Versions
  <2>3. IsOpen /\ editing' = editing /\ b.id \in Stored /\ b.stamp = store[b.id].stamp /\ ~dirty =>
          Content(doc) = Content(store[b.id].doc)
    BY <1>6, InvParts DEF Versions
  <2>4. b.id \in Stored /\ b.stamp = store[b.id].stamp /\ ~dirty' =>
          Content(doc') = Content(store[b.id].doc)
    BY <1>5, <2>2, <2>3
  <2>5. QED
    BY <1>1, <1>6, <2>1, <2>2, <2>4 DEF Versions, Stored
<1>14. Arrives'
  <2>1. \A j \in Busy(OpenOps)' : task'[j].st = "served" /\ (task'[j].alone \/ ~openRaced') =>
          \A x \in task'[j].got : x.id \in Stored => x.stamp = store[x.id].stamp
    BY <1>7, <1>9, InvParts DEF Arrives
  <2>2. QED
    BY <1>1, <2>1 DEF Arrives, Stored
<1>15. Shows'
  <2>1. SUFFICES ASSUME ~openRaced' PROVE Shows'
    BY DEF Shows
  <2>2. \A j \in Slots : task'[j].op \notin {"save", "open"}
    BY <1>8, <1>9, <2>1
  <2>3. ASSUME b.id \in Stored, ~dirty'
        PROVE  Content(doc') = Content(store[b.id].doc)
    <3>1. b.stamp = store[b.id].stamp /\ b.doc = store[b.id].doc
      BY <1>9, <2>1, <2>3
    <3>2. QED
      BY <1>5, <1>6, <2>3, <3>1, InvParts DEF Versions
  <2>4. QED
    BY <1>1, <1>6, <2>2, <2>3 DEF Shows, Stored
<1>16. ~openRaced' => \A j, k \in Busy(OpenOps)' : j = k
  BY <1>9
<1>17. QED
  BY <1>5, <1>6, <1>10, <1>11, <1>12, <1>13, <1>14, <1>15, <1>16 DEF EditorParts

(* The invariants of the list. *)
ListParts ==
  /\ Fetched /\ Lists
  /\ ~listRaced => \A i, j \in Busy(ListOps) : i = j

LEMMA AnswerKeeps ==
  ASSUME NEW i \in Slots, Handled(i), EditorParts', ListParts', PageTypes'
  PROVE  LibraryInv'
<1>1. Solo'
  BY DEF Handled, EditorParts, ListParts, Solo
<1>2. QED
  BY <1>1 DEF EditorParts, ListParts, LibraryInv

LEMMA FetchedAfter ==
  ASSUME LibraryInv, NEW i \in Slots, Handled(i), UNCHANGED server,
         ~listRaced' => ~listRaced \/ Busy(ListOps) \subseteq {i}
  PROVE  Fetched'
<1>1. SUFFICES ASSUME NEW j \in Slots, task'[j].op = "list", task'[j].st = "served",
                      task'[j].alone \/ ~listRaced'
               PROVE  (task[j].got = ListOf(task[j].lib))'
  BY DEF Fetched
<1>2. j # i /\ Same(task'[j], task[j]) /\ (task'[j].alone => task[j].alone)
  BY <1>1, HandledFacts
<1>3. /\ task[j].op = "list" /\ task[j].st = "served" /\ task'[j].got = task[j].got
      /\ task'[j].lib = task[j].lib
  BY <1>1, <1>2 DEF Same
<1>4. j \in Busy(ListOps)
  BY <1>3 DEF Busy, ListOps
<1>5. task[j].got = ListOf(task[j].lib)
  BY <1>1, <1>2, <1>3, <1>4, InvParts DEF Fetched
<1>6. QED
  BY <1>3, <1>5 DEF ListOf, Stored, BlockOf, server

(* The list is fetched again: unless calls overlapped, that fetch is alone. *)
LEMMA RefetchLists ==
  ASSUME LibraryInv, NEW i \in Slots, NEW lib \in Libraries, Refetch(i, lib), UNCHANGED server,
         ~listRaced => lib = selected'
  PROVE  ListParts'
<1>1. /\ Handled(i) /\ task'[i].op = "list" /\ task'[i].lib = lib
      /\ \A j \in Slots \ {i} : Same(task'[j], task[j])
  BY RefetchHandled
<1>2. ~listRaced' => ~listRaced /\ Busy(ListOps) = {i}
  BY DEF Refetch, Last
<1>3. Fetched'
  BY <1>1, <1>2, FetchedAfter
<1>4. ASSUME ~listRaced' PROVE Busy(ListOps)' = {i}
  <2>1. \A j \in Slots \ {i} : task'[j].op \notin ListOps
    BY <1>1, <1>2, <1>4 DEF Same, Busy
  <2>2. i \in Busy(ListOps)'
    BY <1>1 DEF Busy, ListOps
  <2>3. QED
    BY <2>1, <2>2 DEF Busy
<1>5. Lists'
  <2>1. SUFFICES ASSUME ~listRaced' PROVE Lists'
    BY DEF Lists
  <2>2. \A j \in Slots : task'[j].op \in ListOps => j = i
    BY <1>4, <2>1 DEF Busy
  <2>3. \A j \in Slots : task'[j].op # "delete"
    BY <1>1, <2>2 DEF ListOps
  <2>4. \A j \in Slots : task'[j].op \in {"list", "save"} => j = i
    BY <2>2 DEF ListOps
  <2>5. QED
    BY <1>1, <1>2, <1>4, <2>1, <2>3, <2>4 DEF Lists
<1>6. QED
  BY <1>3, <1>4, <1>5 DEF ListParts

(* An answer that does not change the list. *)
LEMMA ListsUntouched ==
  ASSUME LibraryInv, NEW i \in Slots, Done(i), UNCHANGED <<server, page>>,
         ~listRaced' => ~listRaced /\ task[i].op \notin ListOps
  PROVE  ListParts'
<1>1. Handled(i) /\ task'[i].op = "idle" /\ \A j \in Slots \ {i} : task'[j] = task[j]
  BY DoneHandled
<1>2. Fetched'
  BY <1>1, FetchedAfter
<1>3. UNCHANGED <<selected, listed, store>>
  BY DEF page, server
<1>4. ASSUME ~listRaced' PROVE Busy(ListOps)' = Busy(ListOps)
  <2>1. task[i].op \notin ListOps /\ task'[i].op \notin ListOps
    BY <1>1, <1>4 DEF ListOps
  <2>2. QED
    BY <1>1, <2>1 DEF Busy
<1>5. Lists'
  <2>1. SUFFICES ASSUME ~listRaced' PROVE Lists'
    BY DEF Lists
  <2>2. Visible' = Visible /\ ListOf(selected)' = ListOf(selected)
    BY <1>3 DEF Visible, ListOf, Stored, BlockOf
  <2>3. \A j \in Slots : task'[j].op # "idle" => task'[j] = task[j]
    BY <1>1
  <2>4. QED
    BY <1>3, <1>4, <2>1, <2>2, <2>3, InvParts DEF Lists
<1>6. QED
  BY <1>2, <1>4, <1>5, InvParts DEF ListParts, Solo

(* The list was the only call in flight that changes it. *)
LEMMA ListsArrived ==
  ASSUME LibraryInv, NEW i \in Slots, Done(i), UNCHANGED <<server, selected>>,
         ~listRaced' => /\ Busy(ListOps) \subseteq {i}
                        /\ {b \in listed' : b.lib = selected} = ListOf(selected)
  PROVE  ListParts'
<1>1. Handled(i) /\ task'[i].op = "idle" /\ \A j \in Slots \ {i} : task'[j] = task[j]
  BY DoneHandled
<1>2. Fetched'
  BY <1>1, FetchedAfter
<1>3. ASSUME ~listRaced' PROVE \A j \in Slots : task'[j].op \notin ListOps
  BY <1>1, <1>3 DEF Busy, ListOps
<1>4. ListOf(selected)' = ListOf(selected) /\ Visible' = {b \in listed' : b.lib = selected}
  BY DEF Visible, ListOf, Stored, BlockOf, server
<1>5. Lists'
  <2>1. SUFFICES ASSUME ~listRaced' PROVE Lists'
    BY DEF Lists
  <2>2. \A j \in Slots : task'[j].op \notin {"list", "save", "delete"}
    BY <1>3, <2>1 DEF ListOps
  <2>3. QED
    BY <1>4, <2>1, <2>2 DEF Lists
<1>6. QED
  BY <1>2, <1>3, <1>5 DEF ListParts, Busy

LEMMA ListAnswered ==
  ASSUME LibraryInv, NEW i \in Slots, ListAnswer(i)
  PROVE  LibraryInv'
<1>1. /\ task[i].op = "list" /\ task[i].st = "served" /\ listed' = task[i].got /\ Done(i)
      /\ listRaced' = IF task[i].alone /\ Last(i, ListOps) THEN task[i].lib # selected
                      ELSE listRaced
      /\ UNCHANGED <<editorVars, server, selected, openRaced, swapped>>
  BY DEF ListAnswer, Back
<1>2. /\ UNCHANGED <<editing, fields, session, history, sim>>
      /\ selected \in Libraries
  BY <1>1, TypesFacts DEF editorVars
<1>3. i \in Busy(ListOps)
  BY <1>1 DEF Busy, ListOps
<1>4. ASSUME ~listRaced'
      PROVE  Busy(ListOps) \subseteq {i} /\ {b \in listed' : b.lib = selected} = ListOf(selected)
  <2>1. CASE task[i].alone /\ Last(i, ListOps)
    <3>1. Busy(ListOps) = {i} /\ task[i].lib = selected
      BY <1>1, <1>4, <2>1 DEF Last
    <3>2. task[i].got = ListOf(selected)
      BY <1>1, <2>1, <3>1, InvParts DEF Fetched
    <3>3. QED
      BY <1>1, <3>1, <3>2, InvParts, BlocksStored DEF ListOf
  <2>2. CASE ~(task[i].alone /\ Last(i, ListOps))
    <3>1. ~listRaced
      BY <1>1, <1>4, <2>2
    <3>2. Busy(ListOps) \subseteq {i}
      BY <1>3, <3>1, InvParts DEF Solo
    <3>3. task[i].lib = selected /\ task[i].got = ListOf(selected)
      BY <1>1, <3>1, InvParts DEF Lists, Fetched
    <3>4. QED
      BY <1>1, <3>2, <3>3, InvParts, BlocksStored DEF ListOf
  <2>3. QED
    BY <2>1, <2>2
<1>5. ListParts'
  BY <1>1, <1>4, ListsArrived
<1>6. Handled(i) /\ task' \in [Slots -> Calls]
  BY <1>1, DoneHandled DEF Handled
<1>7. EditorParts'
  BY <1>1, <1>2, <1>6, EditorUntouched
<1>8. PageTypes'
  <2>1. task[i] \in Calls
    BY InvParts DEF PageTypes
  <2>2. listed' \subseteq Blocks /\ listRaced' \in BOOLEAN
    <3>1. listed' \subseteq Blocks
      BY <1>1, <2>1 DEF Calls
    <3>2. listRaced \in BOOLEAN
      BY InvParts DEF PageTypes
    <3>3. QED
      BY <1>1, <3>1, <3>2
  <2>3. QED
    BY <1>1, <1>2, <1>6, <2>2, InvParts DEF PageTypes
<1>9. QED
  BY <1>5, <1>6, <1>7, <1>8, AnswerKeeps

LEMMA OpenAnswered ==
  ASSUME LibraryInv, NEW i \in Slots, OpenAnswer(i)
  PROVE  LibraryInv'
<1>1. /\ task[i].op = "open" /\ task[i].st = "served" /\ Done(i)
      /\ openRaced' = IF task[i].alone /\ Last(i, OpenOps) THEN FALSE ELSE openRaced
      /\ UNCHANGED <<edits, server, page, listRaced>>
  BY DEF OpenAnswer, Back
<1>2. PICK b \in task[i].got :
         SetEditing(b) /\ swapped' = (swapped \/ (IsOpen /\ b.id # editing.id))
  BY DEF OpenAnswer
<1>3. task[i].op \in OpenOps /\ task[i].op \notin ListOps
  BY <1>1 DEF OpenOps, ListOps
<1>4. Handled(i) /\ task' \in [Slots -> Calls]
  BY <1>1, DoneHandled DEF Handled
<1>5. EditorParts' /\ session' \in Nat /\ editing' \in [id : Nat \cup {-1}, stamp : Nat]
  BY <1>1, <1>2, <1>3, <1>4, EditorLoaded
<1>6. ListParts'
  BY <1>1, <1>3, ListsUntouched
<1>7. PageTypes'
  <2>1. swapped \in BOOLEAN /\ openRaced \in BOOLEAN
    BY InvParts DEF PageTypes
  <2>2. swapped' \in BOOLEAN /\ openRaced' \in BOOLEAN
    BY <1>1, <1>2, <2>1
  <2>3. QED
    BY <1>1, <1>4, <1>5, <2>2, InvParts DEF PageTypes, page
<1>8. QED
  BY <1>4, <1>5, <1>6, <1>7, AnswerKeeps

LEMMA SaveAnswered ==
  ASSUME LibraryInv, NEW i \in Slots, SaveAnswer(i)
  PROVE  LibraryInv'
<1>1. /\ task[i].op = "save" /\ task[i].st = "served" /\ Refetch(i, task[i].lib)
      /\ openRaced' = IF task[i].alone /\ Last(i, OpenOps) THEN FALSE ELSE openRaced
      /\ UNCHANGED <<edits, server, selected>>
  BY DEF SaveAnswer, Back
<1>2. PICK b \in task[i].got :
         /\ SetEditing(b)
         /\ listed' = {IF l.id = b.id THEN b ELSE l : l \in listed}
         /\ swapped' = (swapped \/ (IsOpen /\ (task[i].from # session
                                                 \/ editing.id \notin {0, b.id})))
  BY DEF SaveAnswer
<1>3. task[i].op \in OpenOps /\ task[i] \in Calls
  BY <1>1, InvParts DEF OpenOps, PageTypes
<1>4. task[i].lib \in Libraries /\ b \in Blocks
  BY <1>3 DEF Calls
<1>5. Handled(i) /\ task' \in [Slots -> Calls]
  BY <1>1, <1>4, RefetchHandled DEF Handled
<1>6. EditorParts' /\ session' \in Nat /\ editing' \in [id : Nat \cup {-1}, stamp : Nat]
  BY <1>1, <1>2, <1>3, <1>5, EditorLoaded
<1>7. ~listRaced => task[i].lib = selected'
  BY <1>1, InvParts DEF Lists
<1>8. ListParts'
  BY <1>1, <1>4, <1>7, RefetchLists
<1>9. PageTypes'
  <2>1. swapped \in BOOLEAN /\ openRaced \in BOOLEAN /\ listRaced \in BOOLEAN
        /\ listed \subseteq Blocks
    BY InvParts DEF PageTypes
  <2>2. swapped' \in BOOLEAN /\ openRaced' \in BOOLEAN
    BY <1>1, <1>2, <2>1
  <2>3. listRaced' \in BOOLEAN
    BY <1>1, <2>1 DEF Refetch
  <2>4. listed' \subseteq Blocks
    BY <1>2, <1>4, <2>1
  <2>5. QED
    BY <1>1, <1>5, <1>6, <2>2, <2>3, <2>4, InvParts DEF PageTypes
<1>10. QED
  BY <1>5, <1>6, <1>8, <1>9, AnswerKeeps

LEMMA DeleteAnswered ==
  ASSUME LibraryInv, NEW i \in Slots, DeleteAnswer(i)
  PROVE  LibraryInv'
<1>1. /\ task[i].op = "delete" /\ task[i].st = "served" /\ Done(i)
      /\ listed' = {b \in task[i].got : b.id # task[i].id}
      /\ UNCHANGED <<editorVars, server, selected, listRaced, openRaced, swapped>>
  BY DEF DeleteAnswer, Back, races
<1>2. UNCHANGED <<editing, fields, session, history, sim>>
  BY <1>1 DEF editorVars
<1>3. ASSUME ~listRaced'
      PROVE  Busy(ListOps) \subseteq {i} /\ {b \in listed' : b.lib = selected} = ListOf(selected)
  <2>1. i \in Busy(ListOps) /\ ~listRaced
    BY <1>1, <1>3 DEF Busy, ListOps
  <2>2. task[i].got = listed /\ {b \in Visible : b.id # task[i].id} = ListOf(selected)
    BY <1>1, <2>1, InvParts DEF Lists
  <2>3. QED
    BY <1>1, <2>1, <2>2, InvParts DEF Solo, Visible
<1>4. ListParts'
  BY <1>1, <1>3, ListsArrived
<1>5. Handled(i) /\ task' \in [Slots -> Calls]
  BY <1>1, DoneHandled DEF Handled
<1>6. EditorParts'
  BY <1>1, <1>2, <1>5, EditorUntouched
<1>7. PageTypes'
  <2>1. task[i] \in Calls
    BY InvParts DEF PageTypes
  <2>2. listed' \subseteq Blocks
    BY <1>1, <2>1 DEF Calls
  <2>3. QED
    BY <1>1, <1>2, <1>5, <2>2, InvParts DEF PageTypes
<1>8. QED
  BY <1>4, <1>5, <1>6, <1>7, AnswerKeeps

(* The refresh that follows clearing or dropping a library. *)
LEMMA Refreshed ==
  ASSUME LibraryInv, NEW i \in Slots, Refetch(i, selected),
         UNCHANGED <<editorVars, server, page, openRaced, swapped>>
  PROVE  LibraryInv'
<1>1. UNCHANGED <<editing, fields, session, history, sim>> /\ UNCHANGED <<selected, listed>>
  BY DEF editorVars, page
<1>2. selected \in Libraries
  BY TypesFacts
<1>3. Handled(i) /\ task' \in [Slots -> Calls]
  BY <1>2, RefetchHandled DEF Handled
<1>4. ListParts'
  BY <1>1, <1>2, RefetchLists
<1>5. EditorParts'
  BY <1>1, <1>3, EditorUntouched
<1>6. PageTypes'
  <2>1. listRaced' \in BOOLEAN
    BY InvParts DEF Refetch, PageTypes
  <2>2. QED
    BY <1>1, <1>3, <2>1, InvParts DEF PageTypes
<1>7. QED
  BY <1>3, <1>4, <1>5, <1>6, AnswerKeeps

(* The selected library was dropped: its list and the one of user-default are
   fetched together. *)
LEMMA DroppedSelected ==
  ASSUME LibraryInv, NEW i \in Slots, task[i].op = "drop", NEW j \in Free,
         task' = [k \in Slots |->
                    IF k = i THEN fetchBlocks(selected)
                    ELSE IF k = j THEN fetchBlocks(UserDefault)
                    ELSE Lonely(task[k], FALSE)],
         selected' = UserDefault, listRaced' = TRUE,
         UNCHANGED <<editorVars, server, listed, openRaced, swapped>>
  PROVE  LibraryInv'
<1>1. UNCHANGED <<editing, fields, session, history, sim>>
  BY DEF editorVars
<1>2. j \in Slots /\ j # i /\ task[j].op = "idle"
  BY DEF Free
<1>3. /\ UserDefault \in Libraries /\ selected \in Libraries
      /\ \A k \in Slots : task[k] \in Calls
  BY TypesFacts, LibraryAssumption DEF PageTypes
<1>4. \A lib \in Libraries :
        /\ fetchBlocks(lib) \in Calls /\ Fresh(fetchBlocks(lib)) /\ ~fetchBlocks(lib).alone
  BY TypesFacts DEF fetchBlocks, Sent, Call, Calls, ListOps, Fresh
<1>5. \A k \in Slots : /\ Lonely(task[k], FALSE) \in Calls
                       /\ Same(Lonely(task[k], FALSE), task[k]) /\ ~Lonely(task[k], FALSE).alone
  BY <1>3, LonelyIsSame
<1>6. /\ task'[i] = fetchBlocks(selected) /\ task'[j] = fetchBlocks(UserDefault)
      /\ \A k \in Slots \ {i, j} : task'[k] = Lonely(task[k], FALSE)
  BY <1>2
<1>7. \A k \in Slots : task'[k] \in Calls /\ ~task'[k].alone
  BY <1>3, <1>4, <1>5, <1>6
<1>8. task' \in [Slots -> Calls]
  <2>1. task' = [k \in Slots |-> task'[k]]
    OBVIOUS
  <2>2. QED
    BY <1>7, <2>1
<1>9. Handled(i)
  BY <1>2, <1>3, <1>4, <1>5, <1>6, <1>7, <1>8 DEF Handled
<1>10. Fetched'
  BY <1>9, FetchedAfter
<1>11. ListParts'
  BY <1>10 DEF ListParts, Lists
<1>12. EditorParts'
  BY <1>1, <1>9, EditorUntouched
<1>13. PageTypes'
  BY <1>1, <1>3, <1>8, InvParts DEF PageTypes
<1>14. QED
  BY <1>9, <1>11, <1>12, <1>13, AnswerKeeps

LEMMA DropAnswered ==
  ASSUME LibraryInv, NEW i \in Slots, DropAnswer(i)
  PROVE  LibraryInv'
<1>1. /\ task[i].op = "drop"
      /\ UNCHANGED <<editorVars, server, listed, openRaced, swapped>>
  BY DEF DropAnswer, Back
<1>2. CASE Refetch(i, selected) /\ UNCHANGED selected
  BY <1>1, <1>2, Refreshed DEF page
<1>3. CASE \E j \in Free :
             /\ selected' = UserDefault
             /\ task' = [k \in Slots |->
                           IF k = i THEN fetchBlocks(selected)
                           ELSE IF k = j THEN fetchBlocks(UserDefault)
                           ELSE Lonely(task[k], FALSE)]
             /\ listRaced' = TRUE
  BY <1>1, <1>3, DroppedSelected
<1>4. QED
  BY <1>2, <1>3 DEF DropAnswer

LEMMA RefusedKeeps ==
  ASSUME LibraryInv, NEW i \in Slots, Refused(i)
  PROVE  LibraryInv'
<1>1. /\ Done(i)
      /\ listRaced' = (listRaced \/ task[i].op \in ListOps)
      /\ openRaced' = (openRaced \/ (task[i].op = "save" /\ task[i].from # session))
      /\ UNCHANGED <<editing, fields, session, history, sim, server, page, swapped>>
  BY DEF Refused
<1>2. Handled(i) /\ task' \in [Slots -> Calls]
  BY <1>1, DoneHandled DEF Handled
<1>3. EditorParts'
  BY <1>1, <1>2, EditorUntouched
<1>4. ListParts'
  BY <1>1, ListsUntouched
<1>5. PageTypes'
  <2>1. listRaced' \in BOOLEAN /\ openRaced' \in BOOLEAN
    BY <1>1, InvParts DEF PageTypes
  <2>2. QED
    BY <1>1, <1>2, <2>1, InvParts DEF PageTypes, page
<1>6. QED
  BY <1>2, <1>3, <1>4, <1>5, AnswerKeeps

LEMMA AnsweredKeeps ==
  ASSUME LibraryInv, NEW i \in Slots, Answer(i)
  PROVE  LibraryInv'
<1>1. ClearAnswer(i) => LibraryInv'
  BY Refreshed DEF ClearAnswer
<1>2. QED
  BY <1>1, ListAnswered, OpenAnswered, SaveAnswered, DeleteAnswered, DropAnswered, RefusedKeeps
     DEF Answer

-----------------------------------------------------------------------------
(* The theorems. *)

LEMMA InitInv == Init => LibraryInv
<1> SUFFICES ASSUME Init PROVE LibraryInv
  OBVIOUS
<1>1. /\ editing = [id |-> -1, stamp |-> 0] /\ ~IsOpen /\ session = 0
      /\ doc = NewDoc /\ dirty = FALSE /\ hist = <<>> /\ pending = FALSE /\ lagged = FALSE
      /\ edits = 0 /\ sim = NoSim
  BY DEF Init, EditorInit, Closed, IsOpen
<1>2. /\ libs = Libraries /\ born = 2 /\ selected = UserDefault
      /\ listed = {BlockOf(id) : id \in Stored} /\ task = [i \in Slots |-> Idle]
      /\ listRaced = FALSE /\ openRaced = FALSE /\ swapped = FALSE
  BY DEF Init
<1>3. NewDoc \in Docs /\ NewDoc.of = 0 /\ <<>> \in Seq(Docs)
  BY DEF NewDoc, Doc, Docs
<1>4. HistoryInv /\ SimInv
  BY <1>1, <1>3, TabsKeep DEF HistoryInv, SimInv, NoSim
<1>5. Idle \in Calls /\ Idle.op = "idle" /\ Idle.alone = FALSE
  BY <1>3, LibraryAssumption DEF Idle, Call, Calls
<1>6. \A i \in Slots : task[i] \in Calls /\ task[i].op = "idle" /\ task[i].alone = FALSE
  BY <1>2, <1>5
<1>7. Busy(ListOps) = {} /\ Busy(OpenOps) = {}
  BY <1>6 DEF Busy, ListOps, OpenOps
<1>8. \A id \in Ids : id \in Nat /\ id > 0
  BY EditorAssumption DEF Ids
<1>9. NoBlock \in [lib : Libraries, doc : Docs, stamp : Nat] /\ NoBlock.stamp = 0
  BY <1>3, LibraryAssumption DEF NoBlock
<1>10. \A id \in Ids : Doc(id, 0, MaxEdits + id, 0, 0) \in Docs /\ Doc(id, 0, MaxEdits + id, 0, 0).of = id
  BY <1>8, EditorAssumption DEF Doc, Docs
<1>11. \A id \in Ids :
         /\ store[id] \in [lib : Libraries, doc : Docs, stamp : Nat]
         /\ id > 2 => store[id].stamp = 0
         /\ store[id].stamp > 0 => store[id].lib = UserDefault /\ store[id].doc.of = id
  <2>1. SUFFICES ASSUME NEW id \in Ids
                 PROVE  /\ store[id] \in [lib : Libraries, doc : Docs, stamp : Nat]
                        /\ id > 2 => store[id].stamp = 0
                        /\ store[id].stamp > 0 => /\ store[id].lib = UserDefault
                                                  /\ store[id].doc.of = id
    OBVIOUS
  <2>2. CASE id <= 2
    <3>1. store[id] = [lib |-> UserDefault, stamp |-> 1, doc |-> Doc(id, 0, MaxEdits + id, 0, 0)]
      BY <2>2 DEF Init
    <3>2. QED
      BY <1>8, <1>10, <2>2, <3>1, LibraryAssumption
  <2>3. CASE ~(id <= 2)
    <3>1. store[id] = NoBlock
      BY <2>3 DEF Init
    <3>2. QED
      BY <1>9, <3>1
  <2>4. QED
    BY <2>2, <2>3
<1>12. store \in [Ids -> [lib : Libraries, doc : Docs, stamp : Nat]]
  <2>1. store = [id \in Ids |-> store[id]]
    BY DEF Init
  <2>2. QED
    BY <1>11, <2>1
<1>13. StoreTypes
  BY <1>2, <1>12 DEF StoreTypes
<1>14. PageTypes
  <2>1. listed \subseteq Blocks
    BY <1>2, <1>13, BlocksStored
  <2>2. task \in [Slots -> Calls]
    BY <1>2, <1>5
  <2>3. editing \in [id : Nat \cup {-1}, stamp : Nat]
    BY <1>1
  <2>4. QED
    BY <1>1, <1>2, <2>1, <2>2, <2>3, LibraryAssumption DEF PageTypes
<1>15. Given /\ MadeFor /\ Versions
  BY <1>1, <1>2, <1>6, <1>7, <1>11 DEF Given, MadeFor, Versions, Stored
<1>16. Solo /\ Arrives /\ Shows /\ Fetched
  BY <1>1, <1>6, <1>7 DEF Solo, Arrives, Shows, Fetched
<1>17. Visible = ListOf(selected)
  <2>1. \A id \in Stored : store[id].lib = UserDefault /\ BlockOf(id).lib = UserDefault
    BY <1>11, <1>13, BlocksStored DEF Stored
  <2>2. QED
    BY <1>2, <2>1 DEF Visible, ListOf
<1>18. Lists
  BY <1>6, <1>17 DEF Lists
<1>19. QED
  BY <1>4, <1>13, <1>14, <1>15, <1>16, <1>18 DEF LibraryInv

LEMMA NextInv == LibraryInv /\ [Next]_vars => LibraryInv'
<1> SUFFICES ASSUME LibraryInv, [Next]_vars PROVE LibraryInv'
  OBVIOUS
<1>1. CASE EditorAct /\ UNCHANGED <<server, page, task, faults, races>>
  BY <1>1, InvParts, EditorActKeeps, EditorOnly
<1>2. CASE Engineer
  BY <1>1, <1>2, SelectKeeps, OpenKeeps, DeleteKeeps, EmptyKeeps, CreateKeeps, SaveKeeps,
     CloseKeeps DEF Engineer
<1>3. CASE Runner
  <2>1. PICK ok \in BOOLEAN : RunAnswer(ok)
    BY <1>3 DEF Runner
  <2>2. FieldsKept /\ SimInv' /\ UNCHANGED <<editing, saving, session>>
    BY <2>1, InvParts, RunAnswerKeeps
  <2>3. QED
    BY <1>3, <2>2, EditorOnly DEF Runner
<1>4. CASE Timer
  <2>1. Debounced /\ UNCHANGED <<server, page, task, faults, races>>
    BY <1>4 DEF Timer
  <2>2. FieldsKept /\ SimInv' /\ UNCHANGED <<editing, session>>
    BY <2>1, InvParts, DebouncedKeeps, TabsKeep DEF Debounced
  <2>3. QED
    BY <2>1, <2>2, EditorOnly
<1>5. CASE \E i \in Slots : Serve(i) \/ Answer(i) \/ Fail(i)
  BY <1>5, ServeKeeps, AnsweredKeeps, FailKeeps
<1>6. CASE UNCHANGED vars
  <2>1. UNCHANGED <<editing, session, server, page, task, faults, races, fields, history, sim>>
    BY <1>6 DEF vars, editorVars
  <2>2. FieldsKept /\ SimInv'
    BY <2>1, InvParts, NothingEdited, TabsKeep
  <2>3. QED
    BY <2>1, <2>2, EditorOnly
<1>7. QED
  BY <1>2, <1>3, <1>4, <1>5, <1>6 DEF Next

(* The invariant of the library page, its editor and the calls between them and
   the library service: what the marks of overlapping calls say, which version
   of a block each answer brings, what the editor and the list show until an
   answer comes. *)
THEOREM LibraryInvariant == Spec => []LibraryInv
<1>1. QED
  BY InitInv, NextInv, PTL DEF Spec

(* Undo stands on what the fields show, about pushSnapshot, debouncedPush and
   restoreSnapshot, for a history of any length. *)
THEOREM UndoStandsOnFields == Spec => []HistoryTracks
<1>1. LibraryInv => HistoryTracks
  BY InvParts, HistoryFacts DEF HistoryInv, HistoryTracks
<1>2. QED
  BY <1>1, LibraryInvariant, PTL

(* A cycle run shown was driven by the grid shown, about buildStimulus and
   runCycles, for any inputs and any number of cycles. *)
THEOREM RunIsOfTheGrid == Spec => []RunMatchesGrid
<1>1. ASSUME LibraryInv PROVE RunMatchesGrid
  <2>1. SUFFICES ASSUME sim.on, sim.run.ok, ~sim.stale, sim.run.kind # "truth"
                 PROVE  /\ sim.run.k <= Len(sim.grid)
                        /\ \A c \in 1 .. sim.run.k, p \in Ports :
                             Driven(sim.run.stim, c, p) = sim.grid[c][p]
    BY DEF RunMatchesGrid
  <2>2. sim.grid \in Grids /\ MadeFrom(sim.grid, sim.run)
    BY <1>1, <2>1, InvParts, TabFacts
  <2>3. PICK grid, k : grid = sim.grid /\ k = sim.run.k
    OBVIOUS
  <2>4. grid \in Grids /\ k \in 1 .. Len(grid) /\ sim.run.stim = buildStimulus(grid, k)
    BY <2>1, <2>2, <2>3 DEF MadeFrom
  <2>5. \A c \in 1 .. k, p \in Ports : Driven(buildStimulus(grid, k), c, p) = grid[c][p]
    BY <2>4, StimulusDrives
  <2>6. k <= Len(grid)
    BY <2>4, GridRows
  <2>7. QED
    BY <2>3, <2>4, <2>5, <2>6
<1>2. QED
  BY <1>1, LibraryInvariant, PTL

(* With no list-changing call in flight the page shows the store's blocks, about
   fetchBlocks and the refreshes that follow each call. *)
THEOREM ListIsTheStore == Spec => []ListMatches
<1>1. LibraryInv => ListMatches
  BY InvParts DEF Lists, ListOf, ListMatches
<1>2. QED
  BY <1>1, LibraryInvariant, PTL

(* An editor without the unsaved mark shows what is stored, about handleSave,
   the reset effect and handleSaveBlock. *)
THEOREM CleanEditorIsStored == Spec => []EditorCleanIsStored
<1>1. LibraryInv => EditorCleanIsStored
  BY InvParts DEF Shows, EditorCleanIsStored
<1>2. QED
  BY <1>1, LibraryInvariant, PTL

(* Undo stays within the block that is open, about the history that outlives the
   block it began with. *)
THEOREM UndoKeepsToBlock == Spec => []UndoStaysInBlock
<1>1. LibraryInv => UndoStaysInBlock
  BY InvParts DEF MadeFor, UndoStaysInBlock
<1>2. QED
  BY <1>1, LibraryInvariant, PTL
=============================================================================

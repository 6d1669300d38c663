------------------------------- MODULE GraphRuns -------------------------------
(***************************************************************************)
(* What the chart editor shows of its runs: the checker, the analysis that  *)
(* follows every edit, the simulation, and the timeline that replays it     *)
(* (GraphEditorPage.tsx and the panels below it).                           *)
(*                                                                         *)
(* The chart on the sheet is its revision number, `rev`; the back end       *)
(* measures the revision the autosave last stored, `saved` (GraphEditor has *)
(* how it gets there).  A run is a call in a slot: sent, served, handled.   *)
(***************************************************************************)
EXTENDS Integers

CONSTANTS
  MaxEdits,   \* bound: edits the engineer makes
  MaxSlots,   \* bound: calls in flight at once
  MaxCycles,  \* bound: scan cycles of a run
  MaxRuns     \* bound: runs started from a button

Slots == 1 .. MaxSlots
Runs  == {"analysis", "sim"}
Waits == {"check", "analysis", "sim"}
Nothing == [shown |-> FALSE, of |-> 0, cycles |-> 0]
Idle == [op |-> "idle", st |-> "sent", of |-> 0, cycles |-> 0, check |-> FALSE]

VARIABLES
  rev, saved,  \* the chart on the sheet, the chart in the store
  task,        \* calls in flight
  stale,       \* analysisStale, simStale
  again,       \* the auto-analysis timer is armed
  busy,        \* busy, analysisBusy, simBusy
  checked,     \* report?.ok
  result,      \* the shown analysis and the shown run
  matched,     \* history: the result was of the chart on the sheet when it came
  cycle,       \* the cycle being replayed
  runs, failed \* runs started; whether one was refused

chart == <<rev, saved>>
marks == <<stale, again, busy, checked, result, matched>>
vars == <<chart, task, marks, cycle, runs, failed>>

-----------------------------------------------------------------------------
(* The chart and its store. *)

(* Mutant of Patch: the edit forgets the simulation. *)
PatchKeepsRun ==
  /\ rev < MaxEdits
  /\ rev' = rev + 1
  /\ stale' = [stale EXCEPT !["analysis"] = TRUE]
  /\ again' = TRUE
  /\ UNCHANGED <<saved, task, busy, checked, result, matched, cycle, runs, failed>>

(* Mutant of Patch: the auto-analysis effect does not run for it. *)
PatchWithoutTimer ==
  /\ rev < MaxEdits
  /\ rev' = rev + 1
  /\ stale' = [m \in Runs |-> TRUE]
  /\ UNCHANGED <<saved, task, again, busy, checked, result, matched, cycle, runs, failed>>

(* patch: whatever was measured belongs to the chart before this edit, and the
   auto-analysis timer starts anew. *)
Patch ==
  /\ rev < MaxEdits
  /\ rev' = rev + 1
  /\ stale' = [m \in Runs |-> TRUE]
  /\ again' = TRUE
  /\ UNCHANGED <<saved, task, busy, checked, result, matched, cycle, runs, failed>>

(* An autosave was stored. *)
Stored ==
  /\ saved < rev
  /\ saved' \in saved + 1 .. rev
  /\ UNCHANGED <<rev, task, marks, cycle, runs, failed>>

-----------------------------------------------------------------------------
(* Calls. *)

Sent(op, cycles, check) ==
  [op |-> op, st |-> "sent", of |-> 0, cycles |-> cycles, check |-> check]

Start(i, op, cycles) ==
  /\ task[i] = Idle
  /\ \A j \in Slots : j < i => task[j] # Idle
  /\ task' = [task EXCEPT ![i] = Sent(op, cycles, FALSE)]

Answer(i, st, of) ==
  task' = [task EXCEPT ![i] = [op |-> task[i].op, st |-> st, of |-> of,
                               cycles |-> task[i].cycles, check |-> task[i].check]]

Button == runs < MaxRuns /\ runs' = runs + 1

(* The back end reads the stored chart ... *)
Serve(i) ==
  /\ task[i].op # "idle" /\ task[i].st = "sent"
  /\ Answer(i, "served", saved)
  /\ UNCHANGED <<chart, marks, cycle, runs, failed>>

(* ... or the call fails. *)
Refuse(i) ==
  /\ task[i].op # "idle" /\ task[i].st = "sent"
  /\ ~failed
  /\ failed' = TRUE
  /\ Answer(i, "refused", 0)
  /\ UNCHANGED <<chart, marks, cycle, runs>>

(* What the panels offer: the analysis to a chart whose last report is clean, the
   checker and the run (toolbar, simulation panel, stimulus panel) when none of
   the kind is under way. *)
AnalysisOffered == checked /\ ~busy["analysis"]
CheckOffered == ~busy["check"]
SimOffered == ~busy["sim"]

(* runAnalysis, from its panel. *)
RunAnalysis(i) ==
  /\ AnalysisOffered
  /\ Button
  /\ Start(i, "analysis", 0)
  /\ busy' = [busy EXCEPT !["analysis"] = TRUE]
  /\ UNCHANGED <<chart, stale, again, checked, result, matched, cycle, failed>>

(* 500 ms after an edit, whatever is under way. *)
AutoAnalysis(i) ==
  /\ again
  /\ Start(i, "analysis", 0)
  /\ again' = FALSE
  /\ busy' = [busy EXCEPT !["analysis"] = TRUE]
  /\ UNCHANGED <<chart, stale, checked, result, matched, cycle, runs, failed>>

(* Its answer is shown as fresh, and stops the timer an edit has armed since. *)
AnalysisAnswer(i) ==
  /\ task[i].op = "analysis" /\ task[i].st # "sent"
  /\ IF task[i].st = "served"
     THEN /\ result' = [result EXCEPT !["analysis"] =
                          [shown |-> TRUE, of |-> task[i].of, cycles |-> 0]]
          /\ stale' = [stale EXCEPT !["analysis"] = FALSE]
          /\ again' = FALSE
          /\ matched' = [matched EXCEPT !["analysis"] = task[i].of = rev]
     ELSE UNCHANGED <<result, stale, again, matched>>
  /\ busy' = [busy EXCEPT !["analysis"] = FALSE,
                          !["check"] = @ /\ ~task[i].check]
  /\ task' = [task EXCEPT ![i] = Idle]
  /\ UNCHANGED <<chart, checked, cycle, runs, failed>>

RunCheck(i) ==
  /\ CheckOffered
  /\ Button
  /\ Start(i, "check", 0)
  /\ busy' = [busy EXCEPT !["check"] = TRUE]
  /\ UNCHANGED <<chart, stale, again, checked, result, matched, cycle, failed>>

(* runCheck: the report and the text are shown; a clean chart goes straight to
   measurement, in the same task. *)
CheckAnswer(i, ok) ==
  /\ task[i].op = "check" /\ task[i].st # "sent"
  /\ IF task[i].st = "served" /\ ok
     THEN /\ task' = [task EXCEPT ![i] = Sent("analysis", 0, TRUE)]
          /\ busy' = [busy EXCEPT !["analysis"] = TRUE]
     ELSE /\ task' = [task EXCEPT ![i] = Idle]
          /\ busy' = [busy EXCEPT !["check"] = FALSE]
  /\ checked' = IF task[i].st = "served" THEN ok ELSE checked
  /\ UNCHANGED <<chart, stale, again, result, matched, cycle, runs, failed>>

-----------------------------------------------------------------------------
(* Simulation. *)

(* runSim, from the toolbar, the simulation panel or the stimulus panel. *)
RunSim(i) ==
  /\ SimOffered
  /\ Button
  /\ \E n \in 1 .. MaxCycles : Start(i, "sim", n)
  /\ busy' = [busy EXCEPT !["sim"] = TRUE]
  /\ UNCHANGED <<chart, stale, again, checked, result, matched, cycle, failed>>

(* Mutant of SimAnswer: the replay goes on from the cycle it was at. *)
SimAnswerKeepsCycle(i, ok) ==
  /\ task[i].op = "sim" /\ task[i].st # "sent"
  /\ IF task[i].st = "served"
     THEN /\ result' = [result EXCEPT !["sim"] =
                          [shown |-> TRUE, of |-> task[i].of,
                           cycles |-> IF ok THEN task[i].cycles ELSE 0]]
          /\ stale' = [stale EXCEPT !["sim"] = FALSE]
          /\ matched' = [matched EXCEPT !["sim"] = task[i].of = rev]
          /\ UNCHANGED cycle
     ELSE /\ result' = [result EXCEPT !["sim"] = Nothing]
          /\ UNCHANGED <<stale, cycle, matched>>
  /\ busy' = [busy EXCEPT !["sim"] = FALSE]
  /\ task' = [task EXCEPT ![i] = Idle]
  /\ UNCHANGED <<chart, again, checked, runs, failed>>

(* The run is shown from its first cycle, or the refusal is (ok is the run's own
   verdict: a refused run has no timeline).  A call that fails takes the last
   run off the sheet. *)
SimAnswer(i, ok) ==
  /\ task[i].op = "sim" /\ task[i].st # "sent"
  /\ IF task[i].st = "served"
     THEN /\ result' = [result EXCEPT !["sim"] =
                          [shown |-> TRUE, of |-> task[i].of,
                           cycles |-> IF ok THEN task[i].cycles ELSE 0]]
          /\ stale' = [stale EXCEPT !["sim"] = FALSE]
          /\ cycle' = 0
          /\ matched' = [matched EXCEPT !["sim"] = task[i].of = rev]
     ELSE /\ result' = [result EXCEPT !["sim"] = Nothing]
          /\ UNCHANGED <<stale, cycle, matched>>
  /\ busy' = [busy EXCEPT !["sim"] = FALSE]
  /\ task' = [task EXCEPT ![i] = Idle]
  /\ UNCHANGED <<chart, again, checked, runs, failed>>

(* pinValues, pinForced: the sheet shows the frame of a run that no edit has
   retired; the panels show any result, with its mark. *)
Fresh(m) == result[m].shown /\ ~stale[m]

Count == result["sim"].cycles

(* The timeline: one cycle back or on, either end, or the slider. *)
Scrub(n) ==
  /\ n \in 0 .. Count - 1
  /\ cycle' = n
  /\ UNCHANGED <<chart, task, marks, runs, failed>>

(* The interval, every 250 ms while the engineer lets it play; it wraps. *)
Tick ==
  /\ Count > 1
  /\ cycle' = (cycle + 1) % Count
  /\ UNCHANGED <<chart, task, marks, runs, failed>>

-----------------------------------------------------------------------------

Init ==
  /\ rev = 0 /\ saved = 0
  /\ task = [i \in Slots |-> Idle]
  /\ stale = [m \in Runs |-> FALSE] /\ again = FALSE
  /\ busy = [w \in Waits |-> FALSE] /\ checked = FALSE
  /\ result = [m \in Runs |-> Nothing]
  /\ matched = [m \in Runs |-> FALSE]
  /\ cycle = 0
  /\ runs = 0 /\ failed = FALSE

Handle(i) ==
  \/ AnalysisAnswer(i)
  \/ \E ok \in BOOLEAN : CheckAnswer(i, ok) \/ SimAnswer(i, ok)

Next ==
  \/ Patch \/ Stored \/ Tick
  \/ \E n \in 0 .. MaxCycles : Scrub(n)
  \/ \E i \in Slots :
       \/ RunAnalysis(i) \/ AutoAnalysis(i) \/ RunCheck(i) \/ RunSim(i)
       \/ Serve(i) \/ Refuse(i) \/ Handle(i)

(* The timers go off, calls are answered and answers handled. *)
Fairness ==
  /\ WF_vars(\E i \in Slots : AutoAnalysis(i))
  /\ \A i \in Slots : WF_vars(Serve(i)) /\ WF_vars(Handle(i))

Spec == Init /\ [][Next]_vars /\ Fairness

-----------------------------------------------------------------------------
(* Properties. *)

(* A result that was of the chart on the sheet when it came is marked as out of
   date by the next edit, and by every later one, whatever calls are in flight:
   patch marks every result, and only a newer answer takes the mark away. *)
RunsOfThisChart ==
  \A m \in Runs :
    Fresh(m) /\ matched[m] => result[m].of = rev

(* The cycle being replayed is a cycle of the run that is shown, however short
   the new run is and whether or not the last one was playing: runSim starts
   the replay over, and the timeline clamps and wraps (SimTimeline). *)
ShownCycleExists == Count > 0 => cycle < Count

(* An edit is analysed: the timer of the edit, or an analysis already under
   way, removes the mark, unless a call fails. *)
AnalysisSettles == stale["analysis"] ~> (~stale["analysis"] \/ failed)
=============================================================================

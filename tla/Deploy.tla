------------------------------- MODULE Deploy -------------------------------
(***************************************************************************)
(* The IDE's deploy service (veri-ide/src/veri_ide/backend/deploy/         *)
(* service.py) around one run of veristc-agent: it generates the frame     *)
(* stream, runs the agent as a child process with a timeout, and decides   *)
(* from the exit code and the status frames what to tell the user.         *)
(*                                                                         *)
(* The stream carries the image that was asked for, so what the receiver   *)
(* hands over is that image or nothing (DownloadWire: FinishedWhole).      *)
(***************************************************************************)
EXTENDS Agent

VARIABLES
  stage,                \* "generate", "send", "report"
  outcome,              \* what DeployResult tells the user
  sasm_file,            \* the image to deploy
  alive                 \* the agent process has not been killed

deployVars == <<stage, outcome, sasm_file, alive>>
allVars == <<agentVars, deployVars>>

DeployInit ==
  /\ AgentInit
  /\ stage = "generate"
  /\ outcome = "none"
  /\ sasm_file \in Images
  /\ alive = TRUE

(* _generate_frames succeeds. *)
Generate ==
  /\ stage = "generate"
  /\ stage' = "send"
  /\ UNCHANGED <<agentVars, outcome, sasm_file, alive>>

(* A bad key, a missing file, or dl_frames.py fails: nothing is launched. *)
GenerateFails ==
  /\ stage = "generate"
  /\ stage' = "report"
  /\ outcome' = "error"
  /\ alive' = FALSE
  /\ UNCHANGED <<agentVars, sasm_file>>

(* The process is launched, and may be signalled while its loop runs. *)
AgentStarts ==
  /\ alive
  /\ stage # "generate"
  /\ \/ \E img \in Images \cup {NoImage} : Boot(img)
     \/ StartRefused \/ Start \/ StreamUnreadable \/ Signal
  /\ UNCHANGED deployVars

(* Its scan loop runs on the stream of sasm_file. *)
AgentRuns ==
  /\ alive
  /\ stage # "generate"
  /\ \/ Finish \/ Boundary \/ BoundarySwitch
     \/ ScanOk \/ ScanRollback \/ ScanFailed
     \/ EndCycle \/ ServeRefused
     \/ ServeImage(sasm_file)
  /\ UNCHANGED deployVars

(* Mutant of Timeout: subprocess.run is called without a timeout. *)
TimeoutNever == stage = "never" /\ UNCHANGED allVars

(* subprocess.run gives up after its timeout and kills the child: the agent *)
(* itself (_send_via_file), or only the shell in front of it                *)
(* (_send_via_pipe), and then the agent lives on until it next writes to    *)
(* the closed pipe.                                                         *)
Timeout ==
  /\ stage = "send"
  /\ pc # "end"
  /\ stage' = "report"
  /\ outcome' = "error"
  /\ alive' \in BOOLEAN
  /\ UNCHANGED <<agentVars, sasm_file>>

(* The orphaned agent is stopped by SIGPIPE. *)
PipeBreaks ==
  /\ stage = "report"
  /\ alive /\ pc # "end"
  /\ alive' = FALSE
  /\ UNCHANGED <<agentVars, stage, outcome, sasm_file>>

(* The exit code of a run that ended. *)
ExitOk == ~failed /\ "end" \in events

(* Mutant of Judgement: a rollback is not looked at. *)
JudgementBlind ==
  IF ~ExitOk THEN "error"
  ELSE IF "switch" \in events THEN "success" ELSE "incomplete"

(* deploy: exit code first, then the frames. *)
Judgement ==
  IF ~ExitOk THEN "error"
  ELSE IF "rollback" \in events THEN "rolled_back"
  ELSE IF {"end", "switch"} \subseteq events THEN "success"
  ELSE "incomplete"

Report ==
  /\ stage = "send"
  /\ pc = "end"
  /\ stage' = "report"
  /\ outcome' = Judgement
  /\ UNCHANGED <<agentVars, sasm_file, alive>>

Reported ==
  /\ stage = "report"
  /\ ~alive \/ pc = "end"
  /\ UNCHANGED allVars

DeployNext ==
  \/ Generate \/ GenerateFails \/ AgentStarts \/ AgentRuns
  \/ Timeout \/ PipeBreaks \/ Report \/ Reported

(* The service goes on and waits at most for its timeouts.  The agent's loop *)
(* is one thread that never blocks; its start-up and signals are not fair.   *)
DeploySpec == DeployInit /\ [][DeployNext]_allVars
                /\ WF_allVars(Generate \/ Timeout \/ Report)
                /\ WF_allVars(AgentRuns)

-----------------------------------------------------------------------------
(* What the agent's frames and flags say of the image that was sent. *)
Delivered ==
  /\ g_pending_switch => module[pending_slot] = sasm_file
  /\ switches = 1 /\ rollbacks = 0 =>
       /\ vm_slot # NoSlot /\ module[vm_slot] = sasm_file
       /\ health_left > 0 \/ "health_ok" \in events \/ cfg.health_cycles = 0
  /\ "switch" \in events <=> switches = 1
  /\ "rollback" \in events <=> rollbacks = 1

(* A verdict other than an error is the judgement of a run that is over. *)
Judged ==
  outcome \in {"success", "rolled_back", "incomplete"} =>
    pc = "end" /\ outcome = Judgement

(* The inductive invariant of a deployment, next to LoopInv. *)
DeployInv == Delivered /\ Judged

(* The user is told the truth about the program on the target: "successful" *)
(* only when the deployed image runs, no scan of it has failed, and its      *)
(* health window is over or the rollback is still at hand; "rolled back" or  *)
(* "incomplete" only when the first image runs (deploy of service.py).       *)
OutcomeTruthful ==
  /\ outcome = "success" =>
       /\ Running = sasm_file /\ ~failed /\ rollbacks = 0
       /\ \/ "health_ok" \in events \/ cfg.health_cycles = 0
          \/ OnTrial /\ CanRollback
  /\ outcome \in {"rolled_back", "incomplete"} => Running = first

(* Unless its process is killed, the agent's loop gets on: a stop request    *)
(* ends it wherever in the cycle the signal arrives; --cycles N ends it      *)
(* (but for the largest N, which every uint32_t is within); a download whose *)
(* stream was read is served before the counter wraps; a staged image is     *)
(* switched to at the next boundary.                                         *)
Gone == pc = "end" \/ ~alive
LoopProgress ==
  /\ g_stop ~> Gone
  /\ pc = "boundary" /\ cfg.max_cycles \in 1 .. CycleMod - 2 ~> Gone
  /\ pc = "boundary" /\ g_service_open ~> ~g_service_open \/ Gone
  /\ g_pending_switch ~> "switch" \in events \/ Gone

(* Every deployment is reported, also when the agent never ends by itself. *)
EventuallyReported == <>(outcome # "none")
=============================================================================

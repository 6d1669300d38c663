------------------------------- MODULE Agent -------------------------------
(***************************************************************************)
(* veristc-agent (veri-runtime/agent/agent_main.c): the scan loop that     *)
(* hosts the VM, serves one download, applies the switch at the cycle      *)
(* boundary, watches the new program for health_cycles scans and rolls it  *)
(* back when one of them fails; SIGINT/SIGTERM may arrive at any moment.   *)
(*                                                                         *)
(* The download manager is the module extended here: an action of the loop *)
(* conjoins the manager's own action with what the loop does around it.    *)
(* The receiver of the frame stream is DownloadWire; here its verdict is   *)
(* an input of Serve: an image, or NoImage for a refused stream.           *)
(***************************************************************************)
EXTENDS DownloadManager

CONSTANTS Faulty,       \* images whose vm_run may return an error
          CycleMod      \* cycle counters are uint32_t: they wrap at CycleMod

ASSUME AgentAssumption ==
  /\ Faulty \subseteq Images
  /\ CycleMod \in Nat \ {0, 1}
  /\ MaxVersion > 1
  /\ Calls = {"full"}

Counter == 0 .. CycleMod - 1

Event == {"start", "download_begin", "download_staged", "download_rejected",
          "switch", "switch_failed", "health_ok", "rollback", "cycle_error",
          "end"}

VARIABLES
  cfg,                  \* [max_cycles, download_at, health_cycles], 0 = no limit
  pc,                   \* "boot", "vm", "boundary", "scan", "serve" or "end"
  cycle,
  health_left,
  g_pending_switch, g_service_open, g_stop,
  failed,               \* the exit code is AG_EX_CYCLE
  switches, rollbacks,
  events,               \* the status frames sent so far
  first,                \* history: the image of the first load
  clean                 \* history: scans without error since the last switch

loopVars == <<cfg, pc, cycle, health_left, g_pending_switch, g_service_open,
              g_stop, failed, switches, rollbacks, events, first, clean>>
agentVars == <<dlVars, loopVars>>

AgentTypes ==
  /\ cfg \in [max_cycles : Counter, download_at : Counter, health_cycles : Counter]
  /\ pc \in {"boot", "vm", "boundary", "scan", "serve", "end"}
  /\ cycle \in Counter
  /\ health_left \in Counter
  /\ switches \in 0 .. 1
  /\ rollbacks \in 0 .. 1
  /\ events \in SUBSET Event
  /\ first \in Images \cup {NoImage}
  /\ clean \in Nat

AgentFlags ==
  /\ g_pending_switch \in BOOLEAN
  /\ g_service_open \in BOOLEAN
  /\ g_stop \in BOOLEAN
  /\ failed \in BOOLEAN

(* Every variable of the scan loop keeps its type; in particular a run      *)
(* makes at most one switch and at most one rollback.                       *)
AgentTypeOK == DMTypeOK /\ AgentTypes /\ AgentFlags

-----------------------------------------------------------------------------
(* The process starts with its options parsed. *)
AgentInit ==
  /\ DMInit
  /\ cfg \in [max_cycles : Counter, download_at : Counter, health_cycles : Counter]
  /\ pc = "boot"
  /\ cycle = 1
  /\ health_left = 0
  /\ g_pending_switch = FALSE
  /\ g_service_open = FALSE
  /\ g_stop = FALSE
  /\ failed = FALSE
  /\ switches = 0
  /\ rollbacks = 0
  /\ events = {}
  /\ first = NoImage
  /\ clean = 0

Emit(set) == events' = events \cup set

(* Bad options, a missing or malformed key, an unreadable image file: exit  *)
(* codes 2, 4 and 3 before anything is loaded.                              *)
StartRefused ==
  /\ pc = "boot"
  /\ pc' = "end"
  /\ UNCHANGED <<dlVars, cfg, cycle, health_left, g_pending_switch, g_service_open,
                 g_stop, failed, switches, rollbacks, events, first, clean>>

(* dl_manager_load_image of the image file; a refusal is exit code 3. *)
Boot(img) ==
  /\ pc = "boot"
  /\ LoadImage(img)
  /\ pc' = IF img \in Accepted THEN "vm" ELSE "end"
  /\ first' = img
  /\ UNCHANGED <<cfg, cycle, health_left, g_pending_switch, g_service_open,
                 g_stop, failed, switches, rollbacks, events, clean>>

(* vm_init on the active module; with --download-from the stream is read to *)
(* EOF and the service opens; the handlers are installed.                   *)
Start ==
  /\ pc = "vm"
  /\ VmInit
  /\ g_service_open' \in BOOLEAN
  /\ pc' = "boundary"
  /\ Emit({"start"})
  /\ UNCHANGED <<cfg, cycle, health_left, g_pending_switch, g_stop, failed,
                 switches, rollbacks, first, clean>>

(* The stream cannot be read: exit code 6. *)
StreamUnreadable ==
  /\ pc = "vm"
  /\ VmInit
  /\ pc' = "end"
  /\ UNCHANGED <<cfg, cycle, health_left, g_pending_switch, g_service_open,
                 g_stop, failed, switches, rollbacks, events, first, clean>>

(* on_signal, once the handlers are installed. *)
Signal ==
  /\ pc \in {"boundary", "scan", "serve"}
  /\ ~g_stop
  /\ g_stop' = TRUE
  /\ UNCHANGED <<dlVars, cfg, pc, cycle, health_left, g_pending_switch,
                 g_service_open, failed, switches, rollbacks, events, first, clean>>

(* The loop condition. *)
InRange == cfg.max_cycles = 0 \/ cycle <= cfg.max_cycles

(* Mutant of StopSeen: the flag the handler sets is never tested. *)
StopSeenNever == FALSE

(* The loop looks at the signal flag once per cycle. *)
StopSeen == g_stop

(* The loop ends: its bound is reached or a signal has been seen. *)
Finish ==
  /\ pc = "boundary"
  /\ ~InRange \/ StopSeen
  /\ pc' = "end"
  /\ Emit({"end"})
  /\ UNCHANGED <<dlVars, cfg, cycle, health_left, g_pending_switch, g_service_open,
                 g_stop, failed, switches, rollbacks, first, clean>>

(* A staged image is waiting for the boundary. *)
SwitchGate == g_pending_switch

(* The cycle boundary with no switch to make. *)
Boundary ==
  /\ pc = "boundary"
  /\ InRange /\ ~StopSeen
  /\ ~SwitchGate
  /\ pc' = "scan"
  /\ UNCHANGED <<dlVars, cfg, cycle, health_left, g_pending_switch, g_service_open,
                 g_stop, failed, switches, rollbacks, events, first, clean>>

(* The length of a new program's health window. *)
TrialLength == cfg.health_cycles

(* dl_apply_switch at the cycle boundary; a refusal is reported and the     *)
(* scan goes on with the old program.                                       *)
BoundarySwitch ==
  /\ pc = "boundary"
  /\ InRange /\ ~StopSeen
  /\ SwitchGate
  /\ g_pending_switch' = FALSE
  /\ pc' = "scan"
  /\ IF module[pending_slot] \in Valid
       THEN /\ ApplySwitch
            /\ switches' = switches + 1
            /\ health_left' = TrialLength
            /\ clean' = 0
            /\ Emit({"switch"})
       ELSE /\ CommitRejected
            /\ Emit({"switch_failed"})
            /\ UNCHANGED <<switches, health_left, clean>>
  /\ UNCHANGED <<cfg, cycle, g_service_open, g_stop, failed, rollbacks, first>>

(* vm_run returns OK: one scan of the health window has passed. *)
ScanOk ==
  /\ pc = "scan"
  /\ VmRun
  /\ health_left' = IF health_left > 0 THEN health_left - 1 ELSE 0
  /\ IF health_left = 1 THEN Emit({"health_ok"}) ELSE UNCHANGED events
  /\ clean' = IF health_left > 0 THEN clean + 1 ELSE clean
  /\ pc' = "serve"
  /\ UNCHANGED <<cfg, cycle, g_pending_switch, g_service_open, g_stop, failed,
                 switches, rollbacks, first>>

(* Mutant of OnTrial: the last scan of the window is not covered. *)
OnTrialShort == health_left > 1

(* Mutant of OnTrial: an error rolls back whenever a switch has happened. *)
OnTrialAlways == switches > 0

(* The new program is inside its health window. *)
OnTrial == health_left > 0

(* vm_run fails inside the health window and dl_rollback lands. *)
ScanRollback ==
  /\ pc = "scan"
  /\ module[vm_slot] \in Faulty
  /\ OnTrial
  /\ Rollback(TRUE)
  /\ rollbacks' = rollbacks + 1
  /\ health_left' = 0
  /\ Emit({"rollback"})
  /\ pc' = "serve"
  /\ UNCHANGED <<cfg, cycle, g_pending_switch, g_service_open, g_stop, failed,
                 switches, first, clean>>

(* vm_run fails with nothing to roll back to, or outside the window: the    *)
(* loop is left at once.                                                    *)
ScanFailed ==
  /\ pc = "scan"
  /\ module[vm_slot] \in Faulty
  /\ ~OnTrial \/ ~CanRollback
  /\ VmRun
  /\ failed' = TRUE
  /\ pc' = "end"
  /\ Emit({"cycle_error", "end"})
  /\ UNCHANGED <<cfg, cycle, health_left, g_pending_switch, g_service_open,
                 g_stop, switches, rollbacks, first, clean>>

(* The download is served once, at the first cycle not before download_at. *)
Due == g_service_open /\ cycle >= cfg.download_at

NextCycle == (cycle + 1) % CycleMod

(* The end of an iteration with no download due. *)
EndCycle ==
  /\ pc = "serve"
  /\ ~Due
  /\ cycle' = NextCycle
  /\ pc' = "boundary"
  /\ UNCHANGED <<dlVars, cfg, health_left, g_pending_switch, g_service_open,
                 g_stop, failed, switches, rollbacks, events, first, clean>>

(* serve_download: the receiver refuses the stream. *)
ServeRefused ==
  /\ pc = "serve"
  /\ Due
  /\ g_service_open' = FALSE
  /\ Emit({"download_begin", "download_rejected"})
  /\ cycle' = NextCycle
  /\ pc' = "boundary"
  /\ UNCHANGED <<dlVars, cfg, health_left, g_pending_switch, g_stop, failed,
                 switches, rollbacks, first, clean>>

(* dl_stage_image accepts img. *)
Staged(img) == img \in Accepted

(* serve_download: a whole image arrives and goes to dl_stage_image. *)
ServeImage(img) ==
  /\ pc = "serve"
  /\ Due
  /\ g_service_open' = FALSE
  /\ StageImage(img)
  /\ IF Staged(img)
       THEN /\ g_pending_switch' = TRUE
            /\ Emit({"download_begin", "download_staged"})
       ELSE /\ UNCHANGED g_pending_switch
            /\ Emit({"download_begin", "download_rejected"})
  /\ cycle' = NextCycle
  /\ pc' = "boundary"
  /\ UNCHANGED <<cfg, health_left, g_stop, failed, switches, rollbacks, first, clean>>

(* The process is gone. *)
Ended == pc = "end" /\ UNCHANGED agentVars

Loop ==
  \/ Finish \/ Boundary \/ BoundarySwitch
  \/ ScanOk \/ ScanRollback \/ ScanFailed
  \/ EndCycle \/ ServeRefused
  \/ \E img \in Images : ServeImage(img)

AgentNext ==
  \/ \E img \in Images \cup {NoImage} : Boot(img)
  \/ StartRefused
  \/ Start
  \/ StreamUnreadable
  \/ Signal
  \/ Loop
  \/ Ended

AgentSafe == AgentInit /\ [][AgentNext]_agentVars

(* The loop is one thread that never blocks (period_ms only sleeps).  No    *)
(* fairness on signals or on the start-up, and none between the outcomes of *)
(* a scan.                                                                  *)
AgentSpec == AgentSafe /\ WF_agentVars(Loop)

-----------------------------------------------------------------------------
Looping == pc \in {"boundary", "scan", "serve"}

(* The download service is used once: open, then at most one switch. *)
OneDownload ==
  /\ g_pending_switch => download_in_progress /\ pc \in {"boundary", "end"}
  /\ download_in_progress => g_pending_switch
  /\ g_pending_switch => switches = 0 /\ ~g_service_open
  /\ g_service_open => switches = 0 /\ "download_rejected" \notin events
  /\ "download_rejected" \in events => switches = 0 /\ ~g_pending_switch
  /\ "switch_failed" \notin events

(* What the rollback slot holds, and when there is one. *)
Landing ==
  /\ switch_applied => /\ switches = 1 /\ rollbacks = 0
                       /\ previous_slot \in valid
                       /\ module[previous_slot] = before
                       /\ before = first
  /\ rollbacks > 0 => switches = 1 /\ health_left = 0
  /\ health_left > 0 => switch_applied /\ before = first /\ ~failed

(* What the VM runs, from the first load on. *)
Bound ==
  /\ pc = "boot" => next_version_id = 0 /\ vm_slot = NoSlot
  /\ pc \in {"boot", "vm"} => switches = 0 /\ events = {} /\ ~switch_applied
  /\ pc = "vm" => /\ vm_slot = NoSlot /\ Booted
                  /\ module[active_slot] = first
                  /\ version_id[active_slot] = 0
  /\ Looping \/ events # {} => vm_slot # NoSlot
  /\ Looping => ~failed
  /\ vm_slot # NoSlot /\ (switches = 0 \/ rollbacks = 1) => module[vm_slot] = first
  /\ vm_slot # NoSlot /\ switches = 0 => version_id[active_slot] = 0
  /\ failed => vm_slot # NoSlot /\ module[vm_slot] \in Faulty

(* How many scans of the window are behind the new program. *)
Window ==
  /\ health_left > 0 => health_left + clean = cfg.health_cycles
  /\ "health_ok" \in events => /\ clean = cfg.health_cycles
                               /\ rollbacks = 0 /\ switches = 1
                               /\ health_left = 0

(* The inductive invariant of the loop: what its flags, counters and status *)
(* frames say of the slots and of the program that runs.                    *)
LoopInv == OneDownload /\ Landing /\ Bound /\ Window

(* A scan that fails inside the health window never ends the process: the   *)
(* program from before the switch is still there to land on.  The window    *)
(* outlives any order of staging, refusal and signal, so the                *)
(* "rollback_failed" frame is never sent.                                   *)
WindowNeverFatal == failed => health_left = 0

(* Invariant I2 of spec/download-spec.md: after a refused download the      *)
(* first program runs on, nothing was switched, and only its own fault can  *)
(* make the exit code other than 0.                                         *)
RefusalHarmless ==
  "download_rejected" \in events =>
    /\ switches = 0
    /\ module[vm_slot] = first /\ version_id[active_slot] = 0
    /\ failed => first \in Faulty

(* The health window counts scans of the new program: it has health_cycles  *)
(* scans behind it when it closes well, and never closes early.             *)
HealthWindowExact ==
  /\ health_left > 0 => health_left + clean = cfg.health_cycles
  /\ "health_ok" \in events => clean = cfg.health_cycles /\ rollbacks = 0

(* A switch that is waiting is a switch that will be accepted: at the       *)
(* boundary dl_apply_switch finds a validated image, so "switch_failed" is  *)
(* never sent.                                                              *)
SwitchReady ==
  /\ g_pending_switch => download_in_progress /\ module[pending_slot] \in Valid
  /\ "switch_failed" \notin events

(* In the agent the rollback slot is never reused, because the service is   *)
(* open once: a rollback restores the program that ran before the switch    *)
(* with all its scans, whichever way the cycles fall.                       *)
AgentRollbackRestores ==
  [][rollbacks' # rollbacks => /\ module'[vm_slot'] = first
                               /\ mem_owner' = NoImage]_agentVars

-----------------------------------------------------------------------------
(* The agent implements the promise of a full download. *)
Running == IF vm_slot = NoSlot THEN NoImage ELSE module[vm_slot]
Fallback == IF health_left > 0 THEN before ELSE NoImage

PS == INSTANCE ProgramSwitch
        WITH Programs <- Accepted, None <- NoImage,
             running <- Running, fallback <- Fallback, taken <- switches

(* The scan loop with its slots, versions, cycles and signals implements    *)
(* the abstract switch: one accepted program at a time, replaced in one     *)
(* step, restored exactly while on trial and never after.                   *)
SwitchesAsPromised == PS!Spec
=============================================================================

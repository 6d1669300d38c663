---------------------------- MODULE Deploy_proofs ----------------------------
(***************************************************************************)
(* Proofs about the download manager, the agent that extends it and the    *)
(* deploy service that runs the agent, for any images, any verdict of the  *)
(* loader and the validator, any fault behaviour of the programs, any      *)
(* bound on the versions and any width of the cycle counter.               *)
(***************************************************************************)
EXTENDS Deploy, TLAPS

-----------------------------------------------------------------------------
(* The download manager (DownloadManager). *)

(* A slot written by dl_slot_load_raw holds something a slot may hold. *)
LEMMA LoadedType ==
  ASSUME NEW old \in Contents, NEW img \in Images \cup {NoImage}
  PROVE  LoadedContents(old, img) \in Contents
BY ImagesAssumption DEF LoadedContents, Contents

(* The two flags stay Boolean. *)
LEMMA FlagStep == FlagTypes /\ [DMNext]_dlVars => FlagTypes'
BY DEF FlagTypes, DMNext, LoadImage, ManagerInit, VmInit, VmRun, StageImage,
       PrepareDownload, SwapSlots, CommitRejected, CommitSwitch, ApplySwitch,
       Rollback, DetachedRollback, dlVars, dmVars

(* The slots, versions and the VM binding keep their types. *)
LEMMA SlotStep == SlotTypes /\ [DMNext]_dlVars => SlotTypes'
<1> SUFFICES ASSUME SlotTypes, [DMNext]_dlVars
             PROVE  SlotTypes'
  OBVIOUS
<1> USE DEF SlotTypes, Slot, NoSlot
<1>0. NoImage \in Contents /\ Images \subseteq Contents
  BY DEF Contents
<1>1. ASSUME NEW img \in Images \cup {NoImage}, LoadImage(img)
      PROVE  SlotTypes'
  <2>1. LoadedContents(NoImage, img) \in Contents
    BY <1>0, LoadedType
  <2>2. QED
    BY <1>0, <1>1, <2>1 DEF LoadImage, vmVars, histVars
<1>2. ASSUME NEW img \in Images, ManagerInit(img)
      PROVE  SlotTypes'
  BY <1>0, <1>2 DEF ManagerInit, vmVars, histVars
<1>3. CASE VmInit
  BY <1>0, <1>3 DEF VmInit, dmVars, histVars
<1>4. CASE VmRun
  BY <1>4 DEF VmRun, dmVars, histVars
<1>5. ASSUME NEW img \in Images \cup {NoImage}, StageImage(img)
      PROVE  SlotTypes'
  <2>1. LoadedContents(module[pending_slot], img) \in Contents
    BY LoadedType
  <2>2. QED
    BY <1>5, <2>1 DEF StageImage, LoadRaw, vmVars, histVars
<1>6. ASSUME NEW img \in Images, PrepareDownload(img)
      PROVE  SlotTypes'
  BY <1>0, <1>6 DEF PrepareDownload, vmVars, histVars
<1>7. CASE CommitRejected
  BY <1>7 DEF CommitRejected, slotVars, vmVars, histVars
<1>8. CASE CommitSwitch
  BY <1>8 DEF CommitSwitch, SwapSlots, vmVars
<1>9. CASE ApplySwitch
  BY <1>0, <1>9 DEF ApplySwitch, SwapSlots, VmRebind
<1>10. ASSUME NEW rebind \in BOOLEAN, Rollback(rebind)
       PROVE  SlotTypes'
  BY <1>0, <1>10 DEF Rollback, VmRebind, vmVars
<1>11. CASE UNCHANGED dlVars
  BY <1>11 DEF dlVars, dmVars, vmVars, histVars
<1>12. QED
  BY <1>1, <1>2, <1>3, <1>4, <1>5, <1>6, <1>7, <1>8, <1>9, <1>10, <1>11
     DEF DMNext, DetachedRollback

(* Type correctness of the version slots and the VM binding, whichever of   *)
(* the entry points the host calls.                                         *)
THEOREM TypeCorrect == DMSpec => []DMTypeOK
<1>1. DMInit => SlotTypes
  BY DEF DMInit, SlotTypes, Slot, NoSlot, Contents
<1>2. DMInit => FlagTypes
  BY DEF DMInit, FlagTypes
<1>3. QED
  BY <1>1, <1>2, FlagStep, SlotStep, PTL DEF DMSpec, DMTypeOK

-----------------------------------------------------------------------------
(* A version waiting to be committed is neither withdrawn nor the active    *)
(* one.                                                                     *)
StagedFresh ==
  download_in_progress =>
    /\ version_id[pending_slot] \notin rolled_back
    /\ version_id[pending_slot] # version_id[active_slot]

(* The inductive invariant of every combination of entry points: it says    *)
(* nothing of what the slots hold, since the patch path commits modules     *)
(* that never met the loader.                                               *)
AnyPathInv == SlotsConsistent /\ VersionsBelowNext /\ StagedFresh

(* One call of any entry point preserves it. *)
LEMMA AnyPathStep ==
  ASSUME DMTypeOK, AnyPathInv, [DMNext]_dlVars
  PROVE  AnyPathInv'
<1> USE DEF DMTypeOK, SlotTypes, FlagTypes, AnyPathInv, SlotsConsistent,
            VersionsBelowNext, StagedFresh, Slot, NoSlot, Booted
<1>1. ASSUME NEW img \in Images \cup {NoImage}, LoadImage(img)
      PROVE  AnyPathInv'
  BY <1>1 DEF LoadImage, vmVars, histVars
<1>2. ASSUME NEW img \in Images, ManagerInit(img)
      PROVE  AnyPathInv'
  BY <1>2 DEF ManagerInit, vmVars, histVars
<1>3. CASE VmInit
  BY <1>3 DEF VmInit, dmVars, histVars
<1>4. CASE VmRun
  BY <1>4 DEF VmRun, dmVars, histVars
<1>5. ASSUME NEW img \in Images \cup {NoImage}, StageImage(img)
      PROVE  AnyPathInv'
  BY <1>5 DEF StageImage, LoadRaw, vmVars, histVars
<1>6. ASSUME NEW img \in Images, PrepareDownload(img)
      PROVE  AnyPathInv'
  BY <1>6 DEF PrepareDownload, vmVars, histVars
<1>7. CASE CommitRejected
  BY <1>7 DEF CommitRejected, slotVars, vmVars, histVars
<1>8. ASSUME download_in_progress, SwapSlots,
             vm_slot' \in {vm_slot, pending_slot}
      PROVE  AnyPathInv'
  BY <1>8 DEF SwapSlots
<1>9. CASE CommitSwitch
  BY <1>8, <1>9 DEF CommitSwitch, vmVars
<1>10. CASE ApplySwitch
  BY <1>8, <1>10 DEF ApplySwitch, VmRebind
<1>11. ASSUME NEW rebind \in BOOLEAN, Rollback(rebind)
       PROVE  AnyPathInv'
  <2> USE <1>11 DEF Rollback, CanRollback
  <2>1. Booted /\ previous_slot = 1 - active_slot /\ previous_slot \in valid
    OBVIOUS
  <2>2. version_id[previous_slot] # version_id[active_slot]
    BY <2>1
  <2>3. vm_slot' # NoSlot => Booted
    BY <2>1
  <2>4. \A s \in Slot : s \in valid' <=> s = previous_slot
    BY <2>1
  <2>5. SlotsConsistent'
    BY <2>1, <2>3, <2>4
  <2>6. VersionsBelowNext'
    BY <2>1, <2>2, <2>4
  <2>7. QED
    BY <2>5, <2>6
<1>12. CASE UNCHANGED dlVars
  BY <1>12 DEF dlVars, dmVars, vmVars, histVars
<1>13. QED
  BY <1>1, <1>2, <1>3, <1>4, <1>5, <1>6, <1>7, <1>9, <1>10, <1>11, <1>12
     DEF DMNext, DetachedRollback

(* AnyPathInv holds in every reachable state, whatever entry points the     *)
(* host mixes (dl_stage_image, dl_prepare_download, dl_commit_switch,       *)
(* dl_apply_switch, dl_rollback with and without a VM).                     *)
THEOREM AnyPathInvariant == DMSpec => []AnyPathInv
<1>1. DMInit => AnyPathInv
  BY DEF DMInit, AnyPathInv, SlotsConsistent, VersionsBelowNext, StagedFresh,
         Booted, NoSlot, Slot
<1>2. DMTypeOK /\ AnyPathInv /\ [DMNext]_dlVars => AnyPathInv'
  BY AnyPathStep
<1>3. QED
  BY <1>1, <1>2, TypeCorrect, PTL DEF DMSpec

(* A manager that is set up always has a valid active slot and the other    *)
(* one pending, whatever the host calls.                                    *)
THEOREM ActiveAlwaysUsable == DMSpec => []ActiveUsable
<1>1. AnyPathInv => ActiveUsable
  BY DEF AnyPathInv, SlotsConsistent, ActiveUsable
<1>2. QED
  BY <1>1, AnyPathInvariant, PTL

(* A version dl_rollback has withdrawn is never active again, on the patch  *)
(* path as on the full-image path.                                          *)
THEOREM WithdrawnStaysOut == DMSpec => []RolledBackStaysOut
<1>1. AnyPathInv /\ DMTypeOK => RolledBackStaysOut
  BY DEF AnyPathInv, SlotsConsistent, VersionsBelowNext, RolledBackStaysOut,
         DMTypeOK, SlotTypes
<1>2. QED
  BY <1>1, AnyPathInvariant, TypeCorrect, PTL

(* No call rewrites the slot that is active before and after it.            *)
THEOREM ActiveSlotNeverRewritten == DMSpec => ActiveSlotFrozen
<1> DEFINE Kept == /\ module'[active_slot] = module[active_slot]
                   /\ version_id'[active_slot] = version_id[active_slot]
                   /\ (active_slot \in valid' <=> active_slot \in valid)
           Frozen == Booted /\ active_slot' = active_slot => Kept
<1>1. DMTypeOK /\ AnyPathInv /\ [DMNext]_dlVars => [Frozen]_dlVars
  <2> SUFFICES ASSUME DMTypeOK, AnyPathInv, DMNext, Booted, active_slot' = active_slot
               PROVE  Kept
    OBVIOUS
  <2> USE DEF DMTypeOK, SlotTypes, FlagTypes, AnyPathInv, SlotsConsistent, Slot, Booted
  <2>1. ASSUME NEW img \in Images \cup {NoImage}, StageImage(img)
        PROVE  Kept
    BY <2>1 DEF StageImage, LoadRaw
  <2>2. ASSUME NEW img \in Images, PrepareDownload(img)
        PROVE  Kept
    BY <2>2 DEF PrepareDownload
  <2>3. ~ApplySwitch /\ ~CommitSwitch
    BY DEF ApplySwitch, CommitSwitch, SwapSlots
  <2>4. ASSUME NEW rebind \in BOOLEAN
        PROVE  ~Rollback(rebind)
    BY DEF Rollback, CanRollback
  <2>5. ASSUME NEW img \in Images \cup {NoImage}
        PROVE  ~LoadImage(img) /\ ~ManagerInit(img)
    BY DEF LoadImage, ManagerInit
  <2>6. CASE VmInit \/ VmRun \/ CommitRejected
    BY <2>6 DEF VmInit, VmRun, CommitRejected, dmVars, slotVars
  <2>7. QED
    BY <2>1, <2>2, <2>3, <2>4, <2>5, <2>6 DEF DMNext, DetachedRollback
<1>2. QED
  BY <1>1, TypeCorrect, AnyPathInvariant, PTL DEF DMSpec, ActiveSlotFrozen

-----------------------------------------------------------------------------
(* The full-image path: the host calls neither the patch entry points nor a *)
(* rollback without a VM.                                                   *)
FullPath == "patch" \notin Calls /\ "detach" \notin Calls

(* One step of the full-image path preserves the inductive invariant. *)
LEMMA InvStep ==
  ASSUME FullPath, DMTypeOK, DMInv, [DMNext]_dlVars
  PROVE  DMInv'
<1> USE DEF DMTypeOK, SlotTypes, FlagTypes, DMInv, SlotsConsistent, ValidIsAccepted, VersionsBelowNext,
            VmRunsActive, ColdStart, Slot, NoSlot, Booted
<1>1. ASSUME NEW img \in Images \cup {NoImage}, LoadImage(img)
      PROVE  DMInv'
  BY <1>1, ImagesAssumption
     DEF LoadImage, LoadedContents, Accepted, vmVars, histVars
<1>2. CASE VmInit
  BY <1>2 DEF VmInit, dmVars, histVars
<1>3. CASE VmRun
  BY <1>3 DEF VmRun, dmVars, histVars
<1>4. ASSUME NEW img \in Images \cup {NoImage}, StageImage(img)
      PROVE  DMInv'
  <2>1. img \in Accepted => LoadedContents(module[pending_slot], img) = img
    BY ImagesAssumption DEF LoadedContents, Accepted
  <2>2. QED
    BY <1>4, <2>1 DEF StageImage, LoadRaw, vmVars, histVars
<1>5. CASE CommitRejected
  BY <1>5 DEF CommitRejected, slotVars, vmVars, histVars
<1>6. CASE ApplySwitch
  BY <1>6 DEF ApplySwitch, SwapSlots, VmRebind
<1>7. CASE Rollback(TRUE)
  <2> USE <1>7 DEF Rollback, CanRollback, VmRebind
  <2>1. Booted /\ previous_slot = 1 - active_slot
    OBVIOUS
  <2>2. 0 \in valid /\ 1 \in valid
    BY <2>1
  <2>3. version_id[previous_slot] # version_id[active_slot]
    BY <2>1, <2>2
  <2>4. \A s \in Slot : s \in valid' <=> s = previous_slot
    BY <2>1, <2>2
  <2>5. (SlotsConsistent /\ ValidIsAccepted)'
    BY <2>1, <2>4
  <2>6. VersionsBelowNext'
    BY <2>1, <2>3, <2>4
  <2>7. (VmRunsActive /\ ColdStart)'
    BY <2>1
  <2>8. QED
    BY <2>5, <2>6, <2>7
<1>8. CASE UNCHANGED dlVars
  BY <1>8 DEF dlVars, dmVars, vmVars, histVars
<1>9. ~(\E img \in Images : ManagerInit(img) \/ PrepareDownload(img))
      /\ ~CommitSwitch /\ ~DetachedRollback
  BY DEF FullPath, ManagerInit, PrepareDownload, CommitSwitch, DetachedRollback
<1>10. QED
  BY <1>1, <1>2, <1>3, <1>4, <1>5, <1>6, <1>7, <1>8, <1>9 DEF DMNext

(* On the full-image path, for every set of images and every number of       *)
(* downloads, the slots and the VM binding stay consistent: DMInv holds.     *)
THEOREM FullPathInvariant == ASSUME FullPath PROVE DMSpec => []DMInv
<1>1. DMInit => DMInv
  BY DEF DMInit, DMInv, SlotsConsistent, ValidIsAccepted, VersionsBelowNext,
         VmRunsActive, ColdStart, Booted, NoSlot, Slot
<1>2. DMTypeOK /\ DMInv /\ [DMNext]_dlVars => DMInv'
  BY InvStep
<1>3. QED
  BY <1>1, <1>2, TypeCorrect, PTL DEF DMSpec

(* The VM runs only the accepted image it was bound to, which is the active  *)
(* one (the invariant the download protocol calls the one it cannot give     *)
(* up: a refused download never disturbs the running program).               *)
THEOREM RunningImageSafe == ASSUME FullPath PROVE DMSpec => []VmRunsActive
<1>1. DMInv => VmRunsActive
  BY DEF DMInv
<1>2. QED
  BY <1>1, FullPathInvariant, PTL

-----------------------------------------------------------------------------
(* The agent, and the deploy service (Agent, Deploy). *)

(* The loop drives the download manager through its own operations only. *)
LEMMA ManagerStep == [AgentNext]_agentVars => [DMNext]_dlVars
<1> SUFFICES ASSUME [AgentNext]_agentVars
             PROVE  [DMNext]_dlVars
  OBVIOUS
<1>1. ASSUME NEW img \in Images \cup {NoImage}, Boot(img)
      PROVE  DMNext
  BY <1>1 DEF Boot, DMNext
<1>2. CASE Start \/ StreamUnreadable
  BY <1>2 DEF Start, StreamUnreadable, DMNext
<1>3. CASE BoundarySwitch
  BY <1>3 DEF BoundarySwitch, DMNext
<1>4. CASE ScanOk \/ ScanRollback \/ ScanFailed
  BY <1>4 DEF ScanOk, ScanRollback, ScanFailed, DMNext
<1>5. ASSUME NEW img \in Images, ServeImage(img)
      PROVE  DMNext
  BY <1>5 DEF ServeImage, DMNext
<1>6. CASE StartRefused \/ Signal \/ Finish \/ Boundary \/ EndCycle \/ ServeRefused
  BY <1>6 DEF StartRefused, Signal, Finish, Boundary, EndCycle, ServeRefused
<1>7. CASE Ended \/ UNCHANGED agentVars
  BY <1>7 DEF Ended, agentVars
<1>8. QED
  BY <1>1, <1>2, <1>3, <1>4, <1>5, <1>6, <1>7 DEF AgentNext, Loop

(* The agent implements the download manager's specification, so what is    *)
(* proved of the manager holds under the agent.                             *)
THEOREM AgentDrivesManager == AgentSafe => DMSpec
<1>1. AgentInit => DMInit
  BY DEF AgentInit
<1>2. QED
  BY <1>1, ManagerStep, PTL DEF AgentSafe, DMSpec

(* The agent uses the full-image path only. *)
LEMMA AgentFullPath == FullPath
BY AgentAssumption DEF FullPath

(* The manager's invariant under the agent. *)
LEMMA ManagerInvariant == AgentSafe => [](DMTypeOK /\ DMInv)
BY AgentDrivesManager, AgentFullPath, TypeCorrect, FullPathInvariant, PTL

-----------------------------------------------------------------------------
(* The loop's flags stay Boolean. *)
LEMMA AgentFlagStep == AgentFlags /\ [AgentNext]_agentVars => AgentFlags'
<1> SUFFICES ASSUME AgentFlags, [AgentNext]_agentVars
             PROVE  AgentFlags'
  OBVIOUS
<1> USE DEF AgentFlags
<1>1. ASSUME NEW img \in Images, ServeImage(img)
      PROVE  AgentFlags'
  BY <1>1, Zenon DEF ServeImage
<1>2. ASSUME NEW img \in Images \cup {NoImage}, Boot(img)
      PROVE  AgentFlags'
  BY <1>2, Zenon DEF Boot
<1>3. CASE StartRefused \/ Start \/ StreamUnreadable \/ Signal \/ Finish
        \/ Boundary \/ BoundarySwitch
  BY <1>3, Zenon
     DEF StartRefused, Start, StreamUnreadable, Signal, Finish, Boundary, BoundarySwitch
<1>4. CASE ScanOk \/ ScanRollback \/ ScanFailed \/ EndCycle \/ ServeRefused
  BY <1>4, Zenon DEF ScanOk, ScanRollback, ScanFailed, EndCycle, ServeRefused
<1>5. CASE Ended \/ UNCHANGED agentVars
  BY <1>5, Zenon DEF Ended, agentVars, loopVars
<1>6. QED
  BY <1>1, <1>2, <1>3, <1>4, <1>5 DEF AgentNext, Loop

(* The cycle counter stays within its width. *)
LEMMA NextCycleInRange == AgentTypes => NextCycle \in Counter
BY AgentAssumption DEF AgentTypes, NextCycle, Counter

(* The inductive step of the loop: types, because at most one switch fits   *)
(* into a run, and the invariant together.                                  *)
LEMMA LoopStep ==
  ASSUME DMTypeOK, DMInv, AgentTypes, AgentFlags, LoopInv, [AgentNext]_agentVars
  PROVE  AgentTypes' /\ LoopInv'
<1> USE AgentAssumption, ImagesAssumption
<1> USE DEF DMTypeOK, SlotTypes, FlagTypes, DMInv, SlotsConsistent, ValidIsAccepted,
            VmRunsActive, Slot, NoSlot, Booted,
            AgentTypes, AgentFlags, Counter, Event,
            LoopInv, OneDownload, Landing, Bound, Window, Looping
<1>1. ASSUME NEW img \in Images \cup {NoImage}, Boot(img)
      PROVE  AgentTypes' /\ LoopInv'
  <2>1. AgentTypes'
    BY <1>1 DEF Boot, LoadImage, LoadedContents, Accepted, vmVars, histVars
  <2>2. OneDownload'
    BY <1>1 DEF Boot, LoadImage, LoadedContents, Accepted, vmVars, histVars
  <2>3. Landing'
    BY <1>1 DEF Boot, LoadImage, LoadedContents, Accepted, vmVars, histVars
  <2>4. Bound'
    BY <1>1 DEF Boot, LoadImage, LoadedContents, Accepted, vmVars, histVars
  <2>5. Window'
    BY <1>1 DEF Boot, LoadImage, LoadedContents, Accepted, vmVars, histVars
  <2>6. QED
    BY <2>1, <2>2, <2>3, <2>4, <2>5
<1>2. CASE Start \/ StreamUnreadable
  <2>1. AgentTypes'
    BY <1>2 DEF Start, StreamUnreadable, VmInit, Emit, dmVars, histVars
  <2>2. OneDownload'
    BY <1>2 DEF Start, StreamUnreadable, VmInit, Emit, dmVars, histVars
  <2>3. Landing'
    BY <1>2 DEF Start, StreamUnreadable, VmInit, Emit, dmVars, histVars
  <2>4. Bound'
    BY <1>2 DEF Start, StreamUnreadable, VmInit, Emit, dmVars, histVars
  <2>5. Window'
    BY <1>2 DEF Start, StreamUnreadable, VmInit, Emit, dmVars, histVars
  <2>6. QED
    BY <2>1, <2>2, <2>3, <2>4, <2>5
<1>3. CASE StartRefused \/ Signal \/ Finish \/ Boundary
  <2>1. AgentTypes'
    BY <1>3
       DEF StartRefused, Signal, Finish, Boundary, Emit, SwitchGate, dlVars, dmVars, vmVars, histVars
  <2>2. OneDownload'
    BY <1>3
       DEF StartRefused, Signal, Finish, Boundary, Emit, SwitchGate, dlVars, dmVars, vmVars, histVars
  <2>3. Landing'
    BY <1>3
       DEF StartRefused, Signal, Finish, Boundary, Emit, SwitchGate, dlVars, dmVars, vmVars, histVars
  <2>4. Bound'
    BY <1>3
       DEF StartRefused, Signal, Finish, Boundary, Emit, SwitchGate, dlVars, dmVars, vmVars, histVars
  <2>5. Window'
    BY <1>3
       DEF StartRefused, Signal, Finish, Boundary, Emit, SwitchGate, dlVars, dmVars, vmVars, histVars
  <2>6. QED
    BY <2>1, <2>2, <2>3, <2>4, <2>5
<1>4. CASE BoundarySwitch
  <2>1. AgentTypes'
    <3>1. events' \in SUBSET Event
      BY <1>4 DEF BoundarySwitch, Emit
    <3>2. health_left' \in Counter /\ clean' \in Nat /\ switches' \in 0 .. 1
      BY <1>4 DEF BoundarySwitch, TrialLength, SwitchGate
    <3>3. QED
      BY <1>4, <3>1, <3>2 DEF BoundarySwitch
  <2>2. OneDownload'
    BY <1>4
       DEF BoundarySwitch, ApplySwitch, SwapSlots, VmRebind, CommitRejected, Emit,
         SwitchGate, TrialLength, Accepted
  <2>3. Landing'
    BY <1>4
       DEF BoundarySwitch, ApplySwitch, SwapSlots, VmRebind, CommitRejected, Emit,
         SwitchGate, TrialLength, Accepted
  <2>4. Bound'
    BY <1>4
       DEF BoundarySwitch, ApplySwitch, SwapSlots, VmRebind, CommitRejected, Emit,
         SwitchGate, TrialLength, Accepted
  <2>5. Window'
    BY <1>4
       DEF BoundarySwitch, ApplySwitch, SwapSlots, VmRebind, CommitRejected, Emit,
         SwitchGate, TrialLength, Accepted
  <2>6. QED
    BY <2>1, <2>2, <2>3, <2>4, <2>5
<1>5. CASE ScanOk
  <2>1. AgentTypes'
    <3>1. events' \in SUBSET Event
      BY <1>5 DEF ScanOk, Emit
    <3>2. health_left' \in Counter /\ clean' \in Nat
      BY <1>5 DEF ScanOk
    <3>3. QED
      BY <1>5, <3>1, <3>2 DEF ScanOk
  <2>2. OneDownload'
    BY <1>5 DEF ScanOk, VmRun, Emit, dmVars, histVars
  <2>3. Landing'
    BY <1>5 DEF ScanOk, VmRun, Emit, dmVars, histVars
  <2>4. Bound'
    BY <1>5 DEF ScanOk, VmRun, Emit, dmVars, histVars
  <2>5. Window'
    BY <1>5 DEF ScanOk, VmRun, Emit, dmVars, histVars
  <2>6. QED
    BY <2>1, <2>2, <2>3, <2>4, <2>5
<1>6. CASE ScanRollback
  <2>1. AgentTypes'
    BY <1>6 DEF ScanRollback, Rollback, CanRollback, VmRebind, Emit, OnTrial
  <2>2. OneDownload'
    BY <1>6 DEF ScanRollback, Rollback, CanRollback, VmRebind, Emit, OnTrial
  <2>3. Landing'
    BY <1>6 DEF ScanRollback, Rollback, CanRollback, VmRebind, Emit, OnTrial
  <2>4. Bound'
    BY <1>6 DEF ScanRollback, Rollback, CanRollback, VmRebind, Emit, OnTrial
  <2>5. Window'
    BY <1>6 DEF ScanRollback, Rollback, CanRollback, VmRebind, Emit, OnTrial
  <2>6. QED
    BY <2>1, <2>2, <2>3, <2>4, <2>5
<1>7. CASE ScanFailed
  <2>1. AgentTypes'
    BY <1>7 DEF ScanFailed, VmRun, CanRollback, Emit, OnTrial, dmVars, histVars
  <2>2. OneDownload'
    BY <1>7 DEF ScanFailed, VmRun, CanRollback, Emit, OnTrial, dmVars, histVars
  <2>3. Landing'
    BY <1>7 DEF ScanFailed, VmRun, CanRollback, Emit, OnTrial, dmVars, histVars
  <2>4. Bound'
    BY <1>7 DEF ScanFailed, VmRun, CanRollback, Emit, OnTrial, dmVars, histVars
  <2>5. Window'
    BY <1>7 DEF ScanFailed, VmRun, CanRollback, Emit, OnTrial, dmVars, histVars
  <2>6. QED
    BY <2>1, <2>2, <2>3, <2>4, <2>5
<1>8. CASE EndCycle \/ ServeRefused
  <2>1. AgentTypes'
    <3>1. events' \in SUBSET Event
      BY <1>8 DEF EndCycle, ServeRefused, Emit
    <3>2. cycle' \in Counter
      BY <1>8, NextCycleInRange DEF EndCycle, ServeRefused
    <3>3. QED
      BY <1>8, <3>1, <3>2 DEF EndCycle, ServeRefused
  <2>2. OneDownload'
    BY <1>8
       DEF EndCycle, ServeRefused, NextCycle, Emit, Due, dlVars, dmVars, vmVars, histVars
  <2>3. Landing'
    BY <1>8
       DEF EndCycle, ServeRefused, NextCycle, Emit, Due, dlVars, dmVars, vmVars, histVars
  <2>4. Bound'
    BY <1>8
       DEF EndCycle, ServeRefused, NextCycle, Emit, Due, dlVars, dmVars, vmVars, histVars
  <2>5. Window'
    BY <1>8
       DEF EndCycle, ServeRefused, NextCycle, Emit, Due, dlVars, dmVars, vmVars, histVars
  <2>6. QED
    BY <2>1, <2>2, <2>3, <2>4, <2>5
<1>9. ASSUME NEW img \in Images, ServeImage(img)
      PROVE  AgentTypes' /\ LoopInv'
  <2>1. AgentTypes'
    <3>1. events' \in SUBSET Event
      BY <1>9 DEF ServeImage, Emit
    <3>2. cycle' \in Counter
      BY <1>9, NextCycleInRange DEF ServeImage
    <3>3. QED
      BY <1>9, <3>1, <3>2 DEF ServeImage
  <2>2. OneDownload'
    BY <1>9
       DEF ServeImage, StageImage, LoadRaw, LoadedContents, Accepted, Staged, Due,
         NextCycle, Emit, vmVars, histVars
  <2>3. Landing'
    BY <1>9
       DEF ServeImage, StageImage, LoadRaw, LoadedContents, Accepted, Staged, Due,
         NextCycle, Emit, vmVars, histVars
  <2>4. Bound'
    BY <1>9
       DEF ServeImage, StageImage, LoadRaw, LoadedContents, Accepted, Staged, Due,
         NextCycle, Emit, vmVars, histVars
  <2>5. Window'
    BY <1>9
       DEF ServeImage, StageImage, LoadRaw, LoadedContents, Accepted, Staged, Due,
         NextCycle, Emit, vmVars, histVars
  <2>6. QED
    BY <2>1, <2>2, <2>3, <2>4, <2>5
<1>10. CASE Ended \/ UNCHANGED agentVars
  <2>1. AgentTypes'
    BY <1>10 DEF Ended, agentVars, loopVars, dlVars, dmVars, vmVars, histVars
  <2>2. OneDownload'
    BY <1>10 DEF Ended, agentVars, loopVars, dlVars, dmVars, vmVars, histVars
  <2>3. Landing'
    BY <1>10 DEF Ended, agentVars, loopVars, dlVars, dmVars, vmVars, histVars
  <2>4. Bound'
    BY <1>10 DEF Ended, agentVars, loopVars, dlVars, dmVars, vmVars, histVars
  <2>5. Window'
    BY <1>10 DEF Ended, agentVars, loopVars, dlVars, dmVars, vmVars, histVars
  <2>6. QED
    BY <2>1, <2>2, <2>3, <2>4, <2>5
<1>11. QED
  BY <1>1, <1>2, <1>3, <1>4, <1>5, <1>6, <1>7, <1>8, <1>9, <1>10 DEF AgentNext, Loop

(* Type correctness and the loop's invariant, for every option and image. *)
THEOREM LoopInvariant == AgentSafe => [](AgentTypeOK /\ LoopInv)
<1>1. AgentInit => AgentTypes /\ LoopInv
  BY AgentAssumption
     DEF AgentInit, DMInit, AgentTypes, Counter, Event, LoopInv, OneDownload, Landing,
         Bound, Window, Looping, NoSlot, Booted
<1>2. AgentInit => AgentFlags
  BY Zenon DEF AgentInit, AgentFlags
<1>3. QED
  BY <1>1, <1>2, LoopStep, AgentFlagStep, ManagerInvariant, PTL
     DEF AgentSafe, AgentTypeOK

(* A failing scan inside the health window never ends the process. *)
THEOREM WindowIsSurvived == AgentSafe => []WindowNeverFatal
<1>1. AgentTypeOK /\ LoopInv => WindowNeverFatal
  BY DEF AgentTypeOK, AgentTypes, Counter, LoopInv, Landing, WindowNeverFatal
<1>2. QED
  BY <1>1, LoopInvariant, PTL

(* A refused download leaves the first program running, unswitched. *)
THEOREM RefusalIsHarmless == AgentSafe => []RefusalHarmless
<1>1. LoopInv => RefusalHarmless
  BY DEF LoopInv, OneDownload, Bound, RefusalHarmless
<1>2. QED
  BY <1>1, LoopInvariant, PTL

(* The health window is exactly health_cycles scans of the new program. *)
THEOREM WindowIsExact == AgentSafe => []HealthWindowExact
<1>1. LoopInv => HealthWindowExact
  BY DEF LoopInv, Window, HealthWindowExact
<1>2. QED
  BY <1>1, LoopInvariant, PTL

(* A requested switch is accepted at the boundary. *)
THEOREM SwitchIsReady == AgentSafe => []SwitchReady
<1>1. DMTypeOK /\ DMInv /\ LoopInv => SwitchReady
  BY DEF DMTypeOK, SlotTypes, DMInv, ValidIsAccepted, Accepted, LoopInv, OneDownload,
         SwitchReady
<1>2. QED
  BY <1>1, LoopInvariant, ManagerInvariant, PTL

(* A rollback restores the first program, with cleared memory. *)
THEOREM RollbackIsExact == AgentSafe => AgentRollbackRestores
<1> DEFINE Restores == rollbacks' # rollbacks => module'[vm_slot'] = first /\ mem_owner' = NoImage
<1>1. DMTypeOK /\ AgentTypes /\ LoopInv /\ [AgentNext]_agentVars => [Restores]_agentVars
  <2> SUFFICES ASSUME DMTypeOK, AgentTypes, LoopInv, AgentNext, rollbacks' # rollbacks
               PROVE  module'[vm_slot'] = first /\ mem_owner' = NoImage
    OBVIOUS
  <2>1. ScanRollback
    BY DEF AgentNext, Loop, Boot, StartRefused, Start, StreamUnreadable, Signal, Finish, Boundary,
           BoundarySwitch, ScanOk, ScanFailed, EndCycle, ServeRefused, ServeImage,
           Ended, agentVars, loopVars
  <2>2. QED
    BY <2>1
       DEF ScanRollback, OnTrial, Rollback, CanRollback, VmRebind, LoopInv, Landing
<1>2. QED
  BY <1>1, LoopInvariant, ManagerInvariant, PTL
     DEF AgentSafe, AgentTypeOK, AgentRollbackRestores

-----------------------------------------------------------------------------
(* One step of the agent is a step of ProgramSwitch, or none. *)
LEMMA RefinementStep ==
  ASSUME DMTypeOK, DMInv, DMInv', AgentTypes, AgentFlags, LoopInv, LoopInv',
         [AgentNext]_agentVars
  PROVE  [PS!Next]_PS!vars
<1> USE AgentAssumption, ImagesAssumption
<1> USE DEF DMTypeOK, SlotTypes, FlagTypes, DMInv, SlotsConsistent, ValidIsAccepted,
            VmRunsActive, Slot, NoSlot, Booted, AgentTypes, AgentFlags, Counter,
            LoopInv, OneDownload, Landing, Bound, Looping,
            Running, Fallback, PS!vars
<1>1. ASSUME NEW img \in Images \cup {NoImage}, Boot(img)
      PROVE  UNCHANGED PS!vars
  BY <1>1 DEF Boot, LoadImage, vmVars, histVars
<1>2. CASE Start \/ StreamUnreadable
  BY <1>2
     DEF Start, StreamUnreadable, VmInit, dmVars, histVars, PS!Next, PS!Start, Accepted
<1>3. CASE StartRefused \/ Signal \/ Finish \/ Boundary \/ EndCycle \/ ServeRefused
  BY <1>3
     DEF StartRefused, Signal, Finish, Boundary, EndCycle, ServeRefused, dlVars, dmVars, vmVars, histVars
<1>4. CASE BoundarySwitch
  BY <1>4 DEF BoundarySwitch, ApplySwitch, SwapSlots, VmRebind, CommitRejected,
              SwitchGate, TrialLength, Accepted, PS!Next, PS!Switch
<1>5. CASE ScanOk
  BY <1>5 DEF ScanOk, VmRun, dmVars, histVars, PS!Next, PS!Confirm
<1>6. CASE ScanRollback
  <2>1. module[previous_slot] = before /\ before # NoImage
    BY <1>6 DEF ScanRollback, Rollback, CanRollback, Accepted
  <2>2. Fallback = before /\ Running' = before /\ Fallback' = NoImage
    BY <1>6, <2>1 DEF ScanRollback, Rollback, VmRebind, OnTrial
  <2>3. QED
    BY <1>6, <2>1, <2>2 DEF ScanRollback, PS!Next, PS!Revert
<1>7. CASE ScanFailed
  BY <1>7 DEF ScanFailed, VmRun, dmVars, histVars
<1>8. ASSUME NEW img \in Images, ServeImage(img)
      PROVE  UNCHANGED PS!vars
  BY <1>8 DEF ServeImage, StageImage, LoadRaw, vmVars, histVars
<1>9. CASE Ended \/ UNCHANGED agentVars
  BY <1>9 DEF Ended, agentVars, loopVars, dlVars, dmVars, vmVars, histVars
<1>10. QED
  BY <1>1, <1>2, <1>3, <1>4, <1>5, <1>6, <1>7, <1>8, <1>9 DEF AgentNext, Loop

(* The agent implements the abstract switch. *)
THEOREM AgentImplementsSwitch == AgentSafe => SwitchesAsPromised
<1>1. AgentInit => PS!Init
  BY DEF AgentInit, DMInit, PS!Init, Running, Fallback
<1>2. QED
  BY <1>1, RefinementStep, LoopInvariant, ManagerInvariant, PTL
     DEF AgentSafe, AgentTypeOK, SwitchesAsPromised, PS!Spec

-----------------------------------------------------------------------------
(* Whatever the service does, the agent takes its own steps or none, and    *)
(* the image to deploy stays the one that was asked for.                    *)
LEMMA ServiceStep ==
  ASSUME sasm_file \in Images, [DeployNext]_allVars
  PROVE  [AgentNext]_agentVars /\ sasm_file' = sasm_file
<1>1. CASE Generate \/ GenerateFails \/ Timeout \/ PipeBreaks \/ Report
  BY <1>1 DEF Generate, GenerateFails, Timeout, PipeBreaks, Report
<1>2. CASE AgentStarts
  BY <1>2 DEF AgentStarts, AgentNext, deployVars
<1>3. CASE AgentRuns
  BY <1>3 DEF AgentRuns, AgentNext, Loop, deployVars
<1>4. CASE Reported \/ UNCHANGED allVars
  BY <1>4 DEF Reported, allVars, deployVars
<1>5. QED
  BY <1>1, <1>2, <1>3, <1>4 DEF DeployNext

(* A deployment is a run of the agent: everything proved of AgentSafe holds *)
(* of the agent the service starts, whenever it is timed out or orphaned.   *)
THEOREM DeployRunsAgent == DeploySpec => AgentSafe /\ [](sasm_file \in Images)
<1>1. DeployInit => AgentInit /\ sasm_file \in Images
  BY DEF DeployInit
<1>2. sasm_file \in Images /\ [DeployNext]_allVars =>
        [AgentNext]_agentVars /\ (sasm_file \in Images)'
  BY ServiceStep
<1>3. QED
  BY <1>1, <1>2, PTL DEF DeploySpec, AgentSafe

(* The agent's own steps keep what the frames say of the image sent. *)
LEMMA DeliveredStep ==
  ASSUME sasm_file \in Images, DMTypeOK, DMInv, AgentTypes, AgentFlags, LoopInv,
         Delivered, [DeployNext]_allVars
  PROVE  Delivered'
<1> USE ImagesAssumption
<1> USE DEF DMTypeOK, SlotTypes, FlagTypes, DMInv, SlotsConsistent, VmRunsActive,
            Slot, NoSlot, Booted, AgentTypes, AgentFlags, Counter,
            LoopInv, OneDownload, Landing, Bound, Looping, Delivered
<1>1. CASE UNCHANGED agentVars /\ sasm_file' = sasm_file
  BY <1>1 DEF agentVars, loopVars, dlVars, dmVars, vmVars
<1>2. CASE Generate \/ GenerateFails \/ Timeout \/ PipeBreaks \/ Report \/ Reported
           \/ UNCHANGED allVars
  BY <1>1, <1>2 DEF Generate, GenerateFails, Timeout, PipeBreaks, Report, Reported,
                    allVars, deployVars
<1>3. CASE AgentStarts
  <2>1. sasm_file' = sasm_file
    BY <1>3 DEF AgentStarts, deployVars
  <2>2. ASSUME NEW img \in Images \cup {NoImage}, Boot(img)
        PROVE  Delivered'
    BY <2>1, <2>2 DEF Boot, LoadImage, vmVars
  <2>3. CASE Start \/ StreamUnreadable
    BY <2>1, <2>3 DEF Start, StreamUnreadable, VmInit, Emit, dmVars
  <2>4. CASE StartRefused \/ Signal
    BY <2>1, <2>4 DEF StartRefused, Signal, dlVars, dmVars, vmVars
  <2>5. QED
    BY <1>3, <2>2, <2>3, <2>4 DEF AgentStarts
<1>4. CASE AgentRuns
  <2>1. sasm_file' = sasm_file
    BY <1>4 DEF AgentRuns, deployVars
  <2>2. CASE Finish \/ Boundary \/ EndCycle \/ ServeRefused
    BY <2>1, <2>2 DEF Finish, Boundary, EndCycle, ServeRefused, Emit, dlVars, dmVars, vmVars
  <2>3. CASE BoundarySwitch
    BY <2>1, <2>3 DEF BoundarySwitch, ApplySwitch, SwapSlots, VmRebind, CommitRejected,
                      SwitchGate, TrialLength, Emit, slotVars, vmVars
  <2>4. CASE ScanOk
    BY <2>1, <2>4 DEF ScanOk, VmRun, Emit, dmVars
  <2>5. CASE ScanRollback
    BY <2>1, <2>5 DEF ScanRollback, Rollback, CanRollback, VmRebind, OnTrial, Emit
  <2>6. CASE ScanFailed
    BY <2>1, <2>6 DEF ScanFailed, VmRun, Emit, dmVars
  <2>7. CASE ServeImage(sasm_file)
    BY <2>1, <2>7 DEF ServeImage, StageImage, LoadRaw, LoadedContents, Accepted, Staged,
                      Due, Emit, vmVars
  <2>8. QED
    BY <1>4, <2>2, <2>3, <2>4, <2>5, <2>6, <2>7 DEF AgentRuns
<1>5. QED
  BY <1>2, <1>3, <1>4 DEF DeployNext

(* Once reported, a verdict stays the judgement of the run that is over. *)
LEMMA JudgedStep ==
  ASSUME Judged, [DeployNext]_allVars
  PROVE  Judged'
<1>1. ASSUME pc = "end", UNCHANGED <<agentVars, outcome>>
      PROVE  Judged'
  BY <1>1 DEF Judged, Judgement, ExitOk, agentVars, loopVars
<1>2. CASE Report
  BY <1>2 DEF Report, Judged, Judgement, ExitOk, agentVars, loopVars
<1>3. CASE GenerateFails \/ Timeout
  BY <1>3 DEF GenerateFails, Timeout, Judged
<1>4. CASE Generate \/ PipeBreaks \/ Reported \/ UNCHANGED allVars
  BY <1>4 DEF Generate, PipeBreaks, Reported, Judged, Judgement, ExitOk,
              allVars, deployVars, agentVars, loopVars
<1>5. CASE AgentStarts \/ AgentRuns
  <2>1. outcome' = outcome
    BY <1>5 DEF AgentStarts, AgentRuns, deployVars
  <2>2. pc # "end"
    BY <1>5 DEF AgentStarts, AgentRuns, Boot, StartRefused, Start, StreamUnreadable,
                Signal, Finish, Boundary, BoundarySwitch, ScanOk, ScanRollback,
                ScanFailed, EndCycle, ServeRefused, ServeImage
  <2>3. QED
    BY <2>1, <2>2 DEF Judged
<1>6. QED
  BY <1>2, <1>3, <1>4, <1>5 DEF DeployNext

(* The deployment invariant, for every image and every moment the timeout,  *)
(* a signal or the end of the run may come.                                 *)
THEOREM DeployInvariant == DeploySpec => []DeployInv
<1>1. DeployInit => DeployInv
  BY DEF DeployInit, AgentInit, DMInit, DeployInv, Delivered, Judged
<1>2. (/\ sasm_file \in Images /\ DMTypeOK /\ DMInv
       /\ AgentTypeOK /\ LoopInv /\ DeployInv
       /\ [DeployNext]_allVars) => DeployInv'
  BY DeliveredStep, JudgedStep DEF DeployInv, AgentTypeOK
<1>3. QED
  BY <1>1, <1>2, DeployRunsAgent, LoopInvariant, ManagerInvariant, PTL DEF DeploySpec

(* The user is told the truth: a reported success is the deployed image     *)
(* running, and a reported rollback or incomplete run is the first one.     *)
THEOREM UserIsToldTheTruth == DeploySpec => []OutcomeTruthful
<1>1. AgentTypeOK /\ LoopInv /\ DeployInv => OutcomeTruthful
  <2> SUFFICES ASSUME AgentTypeOK, LoopInv, DeployInv
               PROVE  OutcomeTruthful
    OBVIOUS
  <2> USE DEF AgentTypeOK, AgentTypes, AgentFlags, LoopInv, Landing, Bound, DeployInv,
              Delivered, Judged, Judgement, ExitOk, Running, OnTrial, CanRollback, Counter
  <2>1. CASE outcome = "success"
    BY <2>1 DEF OutcomeTruthful
  <2>2. CASE outcome \in {"rolled_back", "incomplete"}
    BY <2>2 DEF OutcomeTruthful
  <2>3. QED
    BY <2>1, <2>2 DEF OutcomeTruthful
<1>2. QED
  BY <1>1, DeployInvariant, DeployRunsAgent, LoopInvariant, PTL

(* Under the service too, the agent switches as promised and a failing scan *)
(* of the window does not end it.                                           *)
THEOREM DeploySwitchesAsPromised ==
  DeploySpec => SwitchesAsPromised /\ []WindowNeverFatal /\ []DMInv
BY DeployRunsAgent, AgentImplementsSwitch, WindowIsSurvived, ManagerInvariant, PTL
=============================================================================

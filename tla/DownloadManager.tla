-------------------------- MODULE DownloadManager --------------------------
(***************************************************************************)
(* The download manager of the runtime (veri-runtime/hotstandby/download.c):*)
(* two version slots, one of them active, a one-level rollback, and the    *)
(* binding of the VM to the module held in a slot (vm_init, vm_rebind of   *)
(* veri-runtime/core/safeasm_interp.c).                                    *)
(*                                                                         *)
(* An image is an opaque value; what sasm_load and sasm_validate say of it *)
(* is its membership of Loadable and of Valid.  A slot holds a module, not *)
(* a pointer to one, so a VM bound to a slot runs whatever the slot holds  *)
(* now: the history variable vm_image remembers what it held when the VM   *)
(* was bound.                                                              *)
(***************************************************************************)
EXTENDS Naturals

CONSTANTS Images,       \* byte streams a host may hand to the manager
          Loadable,     \* those sasm_load accepts
          Valid,        \* those whose module sasm_validate accepts
          NoImage,      \* an all-zero slot; also "raw = NULL or len = 0"
          Torn,         \* what a failed sasm_load leaves in a slot
          MaxVersion,   \* bound on next_version_id
          Calls         \* entry points the host uses: "full", "patch", "detach"

ASSUME ImagesAssumption ==
  /\ Loadable \subseteq Images
  /\ Valid \subseteq Images
  /\ NoImage \notin Images
  /\ Torn \notin Images
  /\ NoImage # Torn

ASSUME BoundAssumption == MaxVersion \in Nat

Slot == 0 .. 1
NoSlot == 2

(* Images that pass both gates of dl_slot_load_raw. *)
Accepted == Loadable \cap Valid

VARIABLES
  module,               \* [Slot -> contents]
  version_id,           \* [Slot -> Nat]
  valid,                \* the slots whose valid flag is set
  active_slot, pending_slot, previous_slot,
  switch_applied,
  next_version_id,
  download_in_progress,
  vm_slot,              \* the slot vm->module points into, or NoSlot
  vm_image,             \* history: what that slot held when the VM was bound
  mem_owner,            \* the image whose values vm->memory holds, or NoImage
  before,               \* history: what was active before the last switch
  rolled_back           \* history: the version ids dl_rollback has withdrawn

slotVars == <<module, version_id, valid>>
dmVars == <<module, version_id, valid, active_slot, pending_slot, previous_slot,
            switch_applied, next_version_id, download_in_progress>>
vmVars == <<vm_slot, vm_image, mem_owner>>
histVars == <<before, rolled_back>>
dlVars == <<dmVars, vmVars, histVars>>

Contents == Images \cup {NoImage, Torn}

SlotTypes ==
  /\ module \in [Slot -> Contents]
  /\ version_id \in [Slot -> Nat]
  /\ valid \in SUBSET Slot
  /\ active_slot \in Slot
  /\ pending_slot \in Slot
  /\ previous_slot \in Slot
  /\ next_version_id \in Nat
  /\ vm_slot \in Slot \cup {NoSlot}
  /\ vm_image \in Contents
  /\ mem_owner \in Contents
  /\ before \in Contents
  /\ rolled_back \in SUBSET Nat

FlagTypes ==
  /\ switch_applied \in BOOLEAN
  /\ download_in_progress \in BOOLEAN

(* The manager's variables keep their types: slot numbers stay in range and  *)
(* a slot holds an image, nothing, or what a failed load left (download.c).  *)
DMTypeOK == SlotTypes /\ FlagTypes

-----------------------------------------------------------------------------
(* Start-up: static storage is zero, no VM exists. *)
DMInit ==
  /\ module = [s \in Slot |-> NoImage]
  /\ version_id = [s \in Slot |-> 0]
  /\ valid = {}
  /\ active_slot = 0
  /\ pending_slot = 0
  /\ previous_slot = 0
  /\ switch_applied = FALSE
  /\ next_version_id = 0
  /\ download_in_progress = FALSE
  /\ vm_slot = NoSlot
  /\ vm_image = NoImage
  /\ mem_owner = NoImage
  /\ before = NoImage
  /\ rolled_back = {}

(* What dl_slot_load_raw leaves in a slot that held `old`: an argument error *)
(* returns before the bytes are copied, a load error leaves a half-parsed    *)
(* module, a validation error the whole (unusable) one.                      *)
LoadedContents(old, img) ==
  IF img = NoImage THEN old
  ELSE IF img \in Loadable THEN img ELSE Torn

(* dl_slot_load_raw: the slot is invalid unless both gates accept. *)
LoadRaw(s, img, vid) ==
  /\ module' = [module EXCEPT ![s] = LoadedContents(@, img)]
  /\ valid' = IF img \in Accepted THEN valid \cup {s} ELSE valid \ {s}
  /\ version_id' = [version_id EXCEPT ![s] = IF img \in Accepted THEN vid ELSE @]

(* dl_manager_load_image: everything is cleared, the image goes to slot 0. *)
LoadImage(img) ==
  /\ vm_slot = NoSlot
  /\ next_version_id = 0
  /\ module' = [s \in Slot |-> IF s = 0 THEN LoadedContents(NoImage, img) ELSE NoImage]
  /\ valid' = IF img \in Accepted THEN {0} ELSE {}
  /\ version_id' = [s \in Slot |-> 0]
  /\ active_slot' = 0
  /\ pending_slot' = 1
  /\ previous_slot' = 0
  /\ switch_applied' = FALSE
  /\ next_version_id' = IF img \in Accepted THEN 1 ELSE 0
  /\ download_in_progress' = FALSE
  /\ UNCHANGED <<vmVars, histVars>>

(* dl_manager_init: the initial module is taken as it is, unvalidated. *)
ManagerInit(img) ==
  /\ "patch" \in Calls
  /\ vm_slot = NoSlot
  /\ next_version_id = 0
  /\ module' = [s \in Slot |-> IF s = 0 THEN img ELSE NoImage]
  /\ valid' = {0}
  /\ version_id' = [s \in Slot |-> 0]
  /\ active_slot' = 0
  /\ pending_slot' = 1
  /\ previous_slot' = 0
  /\ switch_applied' = FALSE
  /\ next_version_id' = 1
  /\ download_in_progress' = FALSE
  /\ UNCHANGED <<vmVars, histVars>>

(* The host's vm_init on dl_get_active_module(), NULL for an invalid slot. *)
VmInit ==
  /\ vm_slot = NoSlot
  /\ next_version_id > 0
  /\ active_slot \in valid
  /\ vm_slot' = active_slot
  /\ vm_image' = module[active_slot]
  /\ mem_owner' = NoImage
  /\ UNCHANGED <<dmVars, histVars>>

(* One scan (vm_run): the program that runs is what the slot holds now. *)
VmRun ==
  /\ vm_slot # NoSlot
  /\ mem_owner' = module[vm_slot]
  /\ UNCHANGED <<dmVars, vm_slot, vm_image, histVars>>

(* Mutant of VmRebind: the memory of the previous program is kept. *)
VmRebindWarm(s, img) ==
  /\ vm_slot' = s
  /\ vm_image' = img
  /\ UNCHANGED mem_owner

(* vm_rebind of a running VM to slot s: execution state and memory cleared. *)
VmRebind(s, img) ==
  /\ vm_slot' = s
  /\ vm_image' = img
  /\ mem_owner' = NoImage

-----------------------------------------------------------------------------
Booted == next_version_id > 0

(* dl_stage_image.  While a download is in progress the call is EBUSY and   *)
(* changes nothing, so it is left out of Next.                              *)
StageImage(img) ==
  /\ Booted
  /\ "full" \in Calls
  /\ ~download_in_progress
  /\ next_version_id < MaxVersion
  /\ LoadRaw(pending_slot, img, next_version_id)
  /\ IF img \in Accepted
       THEN /\ next_version_id' = next_version_id + 1
            /\ download_in_progress' = TRUE
       ELSE UNCHANGED <<next_version_id, download_in_progress>>
  /\ UNCHANGED <<active_slot, pending_slot, previous_slot, switch_applied,
                 vmVars, histVars>>

(* dl_prepare_download: no test of download_in_progress; the diff it        *)
(* computes into patch_buf is never applied.                                *)
PrepareDownload(img) ==
  /\ Booted
  /\ "patch" \in Calls
  /\ next_version_id < MaxVersion
  /\ active_slot \in valid
  /\ module' = [module EXCEPT ![pending_slot] = img]
  /\ version_id' = [version_id EXCEPT ![pending_slot] = next_version_id]
  /\ valid' = valid \ {pending_slot}
  /\ next_version_id' = next_version_id + 1
  /\ download_in_progress' = TRUE
  /\ UNCHANGED <<active_slot, pending_slot, previous_slot, switch_applied,
                 vmVars, histVars>>

(* The part of dl_commit_switch after a successful sasm_validate. *)
SwapSlots ==
  /\ valid' = valid \cup {pending_slot}
  /\ previous_slot' = active_slot
  /\ switch_applied' = TRUE
  /\ active_slot' = pending_slot
  /\ pending_slot' = active_slot
  /\ download_in_progress' = FALSE
  /\ before' = module[active_slot]
  /\ UNCHANGED <<module, version_id, next_version_id, rolled_back>>

(* dl_commit_switch on a module that does not validate. *)
CommitRejected ==
  /\ download_in_progress
  /\ module[pending_slot] \notin Valid
  /\ download_in_progress' = FALSE
  /\ UNCHANGED <<slotVars, active_slot, pending_slot, previous_slot,
                 switch_applied, next_version_id, vmVars, histVars>>

(* dl_commit_switch called by itself: the slots swap, no VM is rebound. *)
CommitSwitch ==
  /\ "patch" \in Calls
  /\ download_in_progress
  /\ module[pending_slot] \in Valid
  /\ SwapSlots
  /\ UNCHANGED vmVars

(* dl_apply_switch with a VM: commit, then rebind to the new active slot.   *)
(* vm_rebind refuses only a NULL module, which the commit has just ruled    *)
(* out, so the automatic rollback of a failed rebind cannot be taken.       *)
ApplySwitch ==
  /\ vm_slot # NoSlot
  /\ download_in_progress
  /\ module[pending_slot] \in Valid
  /\ SwapSlots
  /\ VmRebind(pending_slot, module[pending_slot])

(* dl_rollback: back to previous_slot, the failed slot becomes invalid.     *)
(* `rebind` is whether the host passes a VM or NULL.                        *)
(* Mutant of CanRollback: the landing slot is not tested. *)
CanRollbackBlind == switch_applied

CanRollback == switch_applied /\ previous_slot \in valid

(* Mutant of Rollback: the staged download survives the rollback. *)
RollbackKeepsDownload(rebind) ==
  /\ CanRollback
  /\ valid' = valid \ {active_slot}
  /\ pending_slot' = active_slot
  /\ active_slot' = previous_slot
  /\ switch_applied' = FALSE
  /\ IF rebind
       THEN /\ vm_slot # NoSlot
            /\ VmRebind(previous_slot, module[previous_slot])
       ELSE UNCHANGED vmVars
  /\ rolled_back' = rolled_back \cup {version_id[active_slot]}
  /\ UNCHANGED <<module, version_id, next_version_id, before, previous_slot,
                 download_in_progress>>

Rollback(rebind) ==
  /\ CanRollback
  /\ valid' = valid \ {active_slot}
  /\ pending_slot' = active_slot
  /\ active_slot' = previous_slot
  /\ switch_applied' = FALSE
  /\ UNCHANGED previous_slot
  /\ download_in_progress' = FALSE
  /\ IF rebind
       THEN /\ vm_slot # NoSlot
            /\ VmRebind(previous_slot, module[previous_slot])
       ELSE UNCHANGED vmVars
  /\ rolled_back' = rolled_back \cup {version_id[active_slot]}
  /\ UNCHANGED <<module, version_id, next_version_id, before>>

DetachedRollback == "detach" \in Calls /\ Rollback(FALSE)

DMNext ==
  \/ \E img \in Images \cup {NoImage} : LoadImage(img)
  \/ \E img \in Images : ManagerInit(img)
  \/ VmInit
  \/ VmRun
  \/ \E img \in Images \cup {NoImage} : StageImage(img)
  \/ \E img \in Images : PrepareDownload(img)
  \/ CommitRejected
  \/ CommitSwitch
  \/ ApplySwitch
  \/ Rollback(TRUE)
  \/ DetachedRollback

DMSpec == DMInit /\ [][DMNext]_dlVars

-----------------------------------------------------------------------------
(* The inductive invariant of the full-image path. *)
SlotsConsistent ==
  /\ Booted => /\ active_slot \in valid
               /\ pending_slot = 1 - active_slot
               /\ switch_applied => previous_slot = pending_slot
  /\ switch_applied \/ download_in_progress \/ vm_slot # NoSlot => Booted

(* Whatever is marked valid passed both gates, and so did what is staged. *)
ValidIsAccepted ==
  /\ \A s \in Slot : s \in valid => module[s] \in Accepted
  /\ download_in_progress => pending_slot \in valid

(* Version ids are handed out once, and only withdrawn ones are invalid. *)
VersionsBelowNext ==
  /\ Booted => \A s \in Slot : version_id[s] < next_version_id
  /\ \A v \in rolled_back : v < next_version_id
  /\ Booted => \A s \in Slot : s \in valid => version_id[s] \notin rolled_back
  /\ Booted /\ 0 \in valid /\ 1 \in valid => version_id[0] # version_id[1]

(* The VM never runs anything but the accepted image it was bound to, and   *)
(* that image is the active one: staging, a rejected image, a switch and a  *)
(* rollback in any order never rewrite the module under a bound VM          *)
(* (dl_stage_image: no failure path touches the active slot).               *)
VmRunsActive ==
  vm_slot # NoSlot =>
    /\ vm_slot = active_slot
    /\ active_slot \in valid
    /\ module[vm_slot] = vm_image
    /\ vm_image \in Accepted

(* Full download is a cold start: a scan never sees values another image    *)
(* left in the linear memory, however switches and rollbacks alternate      *)
(* (vm_rebind clears the memory with the execution state).                  *)
ColdStart == mem_owner \in {NoImage, vm_image}

(* The inductive invariant of the full-image path: what the slots, the      *)
(* versions and the VM binding know of each other between two calls.        *)
DMInv ==
  /\ SlotsConsistent
  /\ ValidIsAccepted
  /\ VersionsBelowNext
  /\ VmRunsActive
  /\ ColdStart

(* Once the manager is set up there is always a valid active slot and the   *)
(* other slot is the pending one, whatever is staged, prepared, committed   *)
(* or rolled back (dl_get_active_module never returns NULL to a running     *)
(* host).                                                                   *)
ActiveUsable ==
  Booted => /\ active_slot \in valid
            /\ pending_slot = 1 - active_slot

(* No step rewrites the slot that is active before and after it: only a     *)
(* switch or a rollback, which change active_slot, change what is active.   *)
ActiveSlotFrozen ==
  [][Booted /\ active_slot' = active_slot =>
       /\ module'[active_slot] = module[active_slot]
       /\ version_id'[active_slot] = version_id[active_slot]
       /\ (active_slot \in valid' <=> active_slot \in valid)]_dlVars

(* A version that was rolled back is never active again: dl_rollback        *)
(* withdraws the failed slot so that it cannot be committed a second time.  *)
RolledBackStaysOut == Booted => version_id[active_slot] \notin rolled_back
=============================================================================

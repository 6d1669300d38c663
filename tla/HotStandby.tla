----------------------------- MODULE HotStandby -----------------------------
(***************************************************************************)
(* The dual-machine hot standby (veri-runtime/hotstandby/state_machine.c,   *)
(* sync.c, snapshot.c): two nodes, each with a VM, run hs_run_cycle on       *)
(* their own processor and talk through a shared memory of two areas, one    *)
(* written by each node and consumed by the other.                           *)
(*                                                                         *)
(* Every access to the shared memory is a step of its own.  A VM's memory   *)
(* is reduced to its always synchronised pages (GLOBAL and FB_DATA), each   *)
(* holding the number of the scan that wrote it; a snapshot carries those   *)
(* pages and the names of the other pages marked dirty.  Its bytes travel   *)
(* in two parts, `lo` and `hi`, because memcpy is not atomic.  Its CRC holds *)
(* when both parts and the length belong to one snapshot.  fault_count and   *)
(* heartbeat_lost_count saturate at the value they are compared with, so    *)
(* nothing the code tests is lost.                                          *)
(***************************************************************************)
EXTENDS Naturals, FiniteSets

CONSTANTS
  Primary,           \* the node initialised with is_master = true
  Secondary,         \* the other one
  Globals,           \* pages hs_snapshot_create always includes
  LowPages,          \* those of Globals carried by the first part of the copy
  Tracked,           \* pages included only when marked dirty
  MaxSnapshotPages,  \* pages that fit HS_MAX_SNAPSHOT_SIZE
  MaxChannelPages,   \* pages that fit half of the shared memory
  RetryMax,          \* HS_SYNC_RETRY_MAX
  LostMax,           \* lost heartbeats a standby tolerates
  MaxScans,          \* bound on the scans of one behaviour
  MaxHost            \* bound on faults and host calls of one behaviour

Nodes == {Primary, Secondary}

ASSUME StandbyAssumption ==
  /\ Primary # Secondary
  /\ LowPages \subseteq Globals
  /\ IsFiniteSet(Globals) /\ IsFiniteSet(Tracked)
  /\ MaxSnapshotPages \in Nat /\ MaxChannelPages \in Nat
  /\ RetryMax \in Nat \ {0} /\ LostMax \in Nat \ {0}
  /\ MaxScans \in Nat /\ MaxHost \in Nat

VARIABLES
  state,        \* hs->state of each node
  masters,      \* the nodes with is_master
  fault_count,
  lost_count,   \* heartbeat_lost_count
  mem,          \* vm->memory of each node, Globals only
  dirty,        \* dirty_tracker of each node, Tracked only
  buf,          \* snapshot_buf of each node: what it sends or has received
  area,         \* the shared memory: area[n] is written by n
  up,           \* the nodes that are powered
  pc,           \* where each node is in its cycle
  call,         \* the entry point being executed
  scans,        \* scans run so far: the next scan's number
  host          \* faults and host calls so far

roleVars == <<state, masters, fault_count, lost_count>>
hsVars == <<state, masters, fault_count, lost_count, mem, dirty, buf, area,
            up, pc, call, scans, host>>

States == {"UNINIT", "ACTIVE", "STANDBY", "FAILED", "SWITCHING"}
Peer(n) == IF n = Primary THEN Secondary ELSE Primary

-----------------------------------------------------------------------------
(* hs_handle_event *)

Bump(c, max) == IF c < max THEN c + 1 ELSE max

NewFault(s, f, e) ==
  IF (s = "ACTIVE" /\ e \in {"HEARTBEAT_LOST", "SYNC_FAILED", "FAULT_DETECTED"})
     \/ (s = "STANDBY" /\ e = "SYNC_FAILED")
  THEN Bump(f, RetryMax)
  ELSE IF (s \in {"ACTIVE", "STANDBY"} /\ e = "SYNC_SUCCESS")
          \/ (s = "FAILED" /\ e = "HEARTBEAT_OK")
  THEN 0 ELSE f

NewLost(s, l, e) ==
  IF s = "STANDBY" /\ e = "HEARTBEAT_OK" THEN 0
  ELSE IF s = "STANDBY" /\ e = "HEARTBEAT_LOST" THEN Bump(l, LostMax)
  ELSE l

(* The state after an event; f and l are the counters after it. *)
NewState(s, f, l, isMaster, e) ==
  IF s = "ACTIVE" THEN
       IF e \in {"HEARTBEAT_LOST", "SYNC_FAILED"}
       THEN IF f >= RetryMax THEN "FAILED" ELSE s
       ELSE IF e = "FAULT_DETECTED" THEN "FAILED"
       ELSE IF e = "SWITCH_REQUEST" THEN "SWITCHING" ELSE s
  ELSE IF s = "STANDBY" THEN
       IF e = "HEARTBEAT_LOST" THEN IF l >= LostMax THEN "SWITCHING" ELSE s
       ELSE IF e = "FAULT_DETECTED" THEN "FAILED"
       ELSE IF e = "SWITCH_REQUEST" THEN "SWITCHING" ELSE s
  ELSE IF s = "FAILED" THEN
       IF e = "HEARTBEAT_OK" THEN "STANDBY"
       ELSE IF e = "SWITCH_REQUEST" THEN "SWITCHING" ELSE s
  ELSE IF s = "SWITCHING" /\ e = "NONE" THEN
       IF isMaster THEN "ACTIVE" ELSE "STANDBY"
  ELSE s

(* Mutant of HandleEvent: a standby that lost the heartbeat takes the role. *)
HandleEventPromotes(n, e) ==
  /\ fault_count' = [fault_count EXCEPT ![n] = NewFault(state[n], @, e)]
  /\ lost_count' = [lost_count EXCEPT ![n] = NewLost(state[n], @, e)]
  /\ state' = [state EXCEPT ![n] = NewState(@, fault_count'[n], lost_count'[n],
                                            n \in masters, e)]
  /\ masters' = IF state[n] = "ACTIVE" /\ e = "SWITCH_REQUEST" THEN masters \ {n}
                ELSE IF e = "HEARTBEAT_LOST" /\ lost_count'[n] >= LostMax
                THEN masters \cup {n} ELSE masters

(* Only an ACTIVE node that is asked to switch gives up is_master; nothing  *)
(* sets it.                                                                 *)
HandleEvent(n, e) ==
  /\ fault_count' = [fault_count EXCEPT ![n] = NewFault(state[n], @, e)]
  /\ lost_count' = [lost_count EXCEPT ![n] = NewLost(state[n], @, e)]
  /\ state' = [state EXCEPT ![n] = NewState(@, fault_count'[n], lost_count'[n],
                                            n \in masters, e)]
  /\ masters' = IF state[n] = "ACTIVE" /\ e = "SWITCH_REQUEST" THEN masters \ {n}
                ELSE masters

Goto(n, l) == pc' = [pc EXCEPT ![n] = l]
At(n, l) == n \in up /\ pc[n] = l

-----------------------------------------------------------------------------
(* Initial states: both nodes freshly initialised by hs_init. *)

NoSnapshot == [pages |-> {}, mem |-> [p \in Globals |-> 0]]
EmptyBuf == [size |-> 0, lo |-> NoSnapshot, hi |-> NoSnapshot]

HsInit ==
  /\ state = [n \in Nodes |-> IF n = Primary THEN "ACTIVE" ELSE "STANDBY"]
  /\ masters = {Primary}
  /\ fault_count = [n \in Nodes |-> 0]
  /\ lost_count = [n \in Nodes |-> 0]
  /\ mem = [n \in Nodes |-> [p \in Globals |-> 0]]
  /\ dirty = [n \in Nodes |-> {}]
  /\ buf = [n \in Nodes |-> EmptyBuf]
  /\ area = [n \in Nodes |-> [magic |-> "NONE", size |-> 0,
                              lo |-> NoSnapshot, hi |-> NoSnapshot]]
  /\ up = Nodes
  /\ pc = [n \in Nodes |-> "idle"]
  /\ call = [n \in Nodes |-> "cycle"]
  /\ scans = 0
  /\ host = 0

-----------------------------------------------------------------------------
(* The sending side: hs_master_cycle, and hs_sync_cycle of a node with       *)
(* is_master, which looks at neither the state nor the running flag.         *)

MayScan(n, c) ==
  /\ At(n, "idle")
  /\ scans < MaxScans
  /\ scans' = scans + 1
  /\ call' = [call EXCEPT ![n] = c]
  /\ \/ c = "cycle" /\ state[n] = "ACTIVE" /\ UNCHANGED host
     \/ c = "sync" /\ n \in masters /\ host < MaxHost /\ host' = host + 1

(* vm_run succeeds. *)
ScanOk(n, c) ==
  /\ MayScan(n, c)
  /\ mem' = [mem EXCEPT ![n] = [p \in Globals |-> scans + 1]]
  /\ Goto(n, "create")
  /\ UNCHANGED <<state, masters, fault_count, lost_count, dirty, buf, area, up>>

(* vm_run fails on the way: some pages are written, the cycle ends. *)
ScanFails(n, c, written) ==
  /\ MayScan(n, c)
  /\ mem' = [mem EXCEPT ![n] = [p \in Globals |->
                                  IF p \in written THEN scans + 1 ELSE @[p]]]
  /\ HandleEvent(n, "FAULT_DETECTED")
  /\ UNCHANGED <<dirty, buf, area, up, pc>>

SnapshotPages(n) == Globals \cup dirty[n]

(* What hs_master_cycle does with the result of hs_sync_send; hs_sync_cycle *)
(* only returns it.                                                         *)
AfterSend(n, e) ==
  IF call[n] = "cycle"
  THEN HandleEvent(n, e) /\ Goto(n, "beat")
  ELSE Goto(n, "idle") /\ UNCHANGED roleVars

(* hs_snapshot_create runs out of buffer: the dirty marks stay. *)
CreateFails(n) ==
  /\ At(n, "create")
  /\ Cardinality(SnapshotPages(n)) > MaxSnapshotPages
  /\ AfterSend(n, "SYNC_FAILED")
  /\ UNCHANGED <<mem, dirty, buf, area, up, call, scans, host>>

(* hs_snapshot_create, which clears the dirty marks, and the size test of    *)
(* shmem_send.                                                              *)
Create(n) ==
  /\ At(n, "create")
  /\ Cardinality(SnapshotPages(n)) <= MaxSnapshotPages
  /\ LET snap == [pages |-> SnapshotPages(n), mem |-> mem[n]]
         size == Cardinality(SnapshotPages(n))
     IN  /\ buf' = [buf EXCEPT ![n] = [size |-> size, lo |-> snap, hi |-> snap]]
         /\ IF size > MaxChannelPages
            THEN AfterSend(n, "SYNC_FAILED")
            ELSE Goto(n, "header") /\ UNCHANGED roleVars
  /\ dirty' = [dirty EXCEPT ![n] = {}]
  /\ UNCHANGED <<mem, area, up, call, scans, host>>

(* shmem_send: the header first, then the payload. *)
WriteHeader(n) ==
  /\ At(n, "header")
  /\ area' = [area EXCEPT ![n].magic = "SNAP", ![n].size = buf[n].size]
  /\ Goto(n, "payload_lo")
  /\ UNCHANGED <<state, masters, fault_count, lost_count, mem, dirty, buf, up,
                 call, scans, host>>

WriteLow(n) ==
  /\ At(n, "payload_lo")
  /\ area' = [area EXCEPT ![n].lo = buf[n].lo]
  /\ Goto(n, "payload_hi")
  /\ UNCHANGED <<state, masters, fault_count, lost_count, mem, dirty, buf, up,
                 call, scans, host>>

WriteHigh(n) ==
  /\ At(n, "payload_hi")
  /\ area' = [area EXCEPT ![n].hi = buf[n].hi]
  /\ AfterSend(n, "SYNC_SUCCESS")
  /\ UNCHANGED <<mem, dirty, buf, up, call, scans, host>>

(* hs_heartbeat_send overwrites the header, read or not. *)
SendBeat(n) ==
  /\ At(n, "beat")
  /\ area' = [area EXCEPT ![n].magic = "HBT", ![n].size = 0]
  /\ Goto(n, "idle")
  /\ UNCHANGED <<state, masters, fault_count, lost_count, mem, dirty, buf, up,
                 call, scans, host>>

-----------------------------------------------------------------------------
(* The receiving side: hs_standby_cycle, hs_sync_cycle of a node without      *)
(* is_master, and hs_heartbeat_check called by the host.                     *)

(* Where the node goes on after hs_heartbeat_check: hs_standby_cycle receives *)
(* whatever the check did to its state.                                      *)
AfterCheck(n, c) == Goto(n, IF c = "cycle" THEN "recv" ELSE "idle")

StartCheck(n, c) ==
  /\ At(n, "idle")
  /\ \/ c = "cycle" /\ state[n] = "STANDBY" /\ UNCHANGED host
     \/ c = "check" /\ host < MaxHost /\ host' = host + 1
  /\ call' = [call EXCEPT ![n] = c]

(* hs_heartbeat_check finds the beat and is about to consume it. *)
SeeBeat(n, c) ==
  /\ StartCheck(n, c)
  /\ area[Peer(n)].magic = "HBT"
  /\ Goto(n, "clear_beat")
  /\ UNCHANGED <<state, masters, fault_count, lost_count, mem, dirty, buf, area,
                 up, scans>>

(* hs_heartbeat_check finds anything else, a snapshot included. *)
MissBeat(n, c) ==
  /\ StartCheck(n, c)
  /\ area[Peer(n)].magic # "HBT"
  /\ HandleEvent(n, "HEARTBEAT_LOST")
  /\ AfterCheck(n, c)
  /\ UNCHANGED <<mem, dirty, buf, area, up, scans>>

(* Mutant of ClearBeat: the beat stays in the area. *)
ClearBeatKeeps(n) ==
  /\ At(n, "clear_beat")
  /\ HandleEvent(n, "HEARTBEAT_OK")
  /\ AfterCheck(n, call[n])
  /\ UNCHANGED <<mem, dirty, buf, area, up, call, scans, host>>

ClearBeat(n) ==
  /\ At(n, "clear_beat")
  /\ area' = [area EXCEPT ![Peer(n)].magic = "NONE"]
  /\ HandleEvent(n, "HEARTBEAT_OK")
  /\ AfterCheck(n, call[n])
  /\ UNCHANGED <<mem, dirty, buf, up, call, scans, host>>

(* hs_sync_cycle of a node without is_master goes straight to the receive. *)
StartReceive(n) ==
  /\ At(n, "idle")
  /\ n \notin masters
  /\ host < MaxHost
  /\ host' = host + 1
  /\ call' = [call EXCEPT ![n] = "sync"]
  /\ Goto(n, "recv")
  /\ UNCHANGED <<state, masters, fault_count, lost_count, mem, dirty, buf, area,
                 up, scans>>

(* shmem_recv: look at the header, copy the payload, clear the header. *)
ReadHeader(n) ==
  /\ At(n, "recv")
  /\ LET a == area[Peer(n)]
     IN  IF a.magic = "SNAP" /\ a.size # 0
         THEN /\ buf' = [buf EXCEPT ![n].size = a.size]
              /\ Goto(n, "copy_lo")
         ELSE /\ Goto(n, "idle")
              /\ UNCHANGED buf
  /\ UNCHANGED <<state, masters, fault_count, lost_count, mem, dirty, area, up,
                 call, scans, host>>

CopyLow(n) ==
  /\ At(n, "copy_lo")
  /\ buf' = [buf EXCEPT ![n].lo = area[Peer(n)].lo]
  /\ Goto(n, "copy_hi")
  /\ UNCHANGED <<state, masters, fault_count, lost_count, mem, dirty, area, up,
                 call, scans, host>>

CopyHigh(n) ==
  /\ At(n, "copy_hi")
  /\ buf' = [buf EXCEPT ![n].hi = area[Peer(n)].hi]
  /\ Goto(n, "clear_header")
  /\ UNCHANGED <<state, masters, fault_count, lost_count, mem, dirty, area, up,
                 call, scans, host>>

ClearHeader(n) ==
  /\ At(n, "clear_header")
  /\ area' = [area EXCEPT ![Peer(n)].magic = "NONE", ![Peer(n)].size = 0]
  /\ Goto(n, "apply")
  /\ UNCHANGED <<state, masters, fault_count, lost_count, mem, dirty, buf, up,
                 call, scans, host>>

(* Mutant of CrcHolds: the checksum is not looked at. *)
CrcIgnored(b) == b.lo.pages # {}

(* hs_snapshot_verify_crc on the received bytes. *)
CrcHolds(b) == b.lo = b.hi /\ b.size = Cardinality(b.lo.pages) /\ b.size # 0

(* hs_snapshot_apply and the event hs_sync_receive derives from its result. *)
Apply(n) ==
  /\ At(n, "apply")
  /\ Goto(n, "idle")
  /\ IF CrcHolds(buf[n])
     THEN /\ mem' = [mem EXCEPT ![n] = [p \in Globals |->
                       IF p \in LowPages THEN buf[n].lo.mem[p] ELSE buf[n].hi.mem[p]]]
          /\ HandleEvent(n, "SYNC_SUCCESS")
     ELSE /\ HandleEvent(n, "SYNC_FAILED")
          /\ UNCHANGED mem
  /\ UNCHANGED <<dirty, buf, area, up, call, scans, host>>

-----------------------------------------------------------------------------
(* hs_run_cycle in SWITCHING. *)
EndSwitch(n) ==
  /\ At(n, "idle")
  /\ state[n] = "SWITCHING"
  /\ HandleEvent(n, "NONE")
  /\ UNCHANGED <<mem, dirty, buf, area, up, pc, call, scans, host>>

-----------------------------------------------------------------------------
(* The host and the environment. *)

HostCall(n) == At(n, "idle") /\ host < MaxHost /\ host' = host + 1

(* hs_request_switch, or hs_handle_event with a fault the host detected. *)
HostEvent(n, e) ==
  /\ HostCall(n)
  /\ HandleEvent(n, e)
  /\ UNCHANGED <<mem, dirty, buf, area, up, pc, call, scans>>

(* hs_dirty_mark: the VM does not call it, the host may. *)
MarkDirty(n, p) ==
  /\ HostCall(n)
  /\ dirty' = [dirty EXCEPT ![n] = @ \cup {p}]
  /\ UNCHANGED <<state, masters, fault_count, lost_count, mem, buf, area, up,
                 pc, call, scans>>

(* hs_deinit. *)
Deinit(n) ==
  /\ HostCall(n)
  /\ state' = [state EXCEPT ![n] = "UNINIT"]
  /\ UNCHANGED <<masters, fault_count, lost_count, mem, dirty, buf, area, up, pc,
                 call, scans>>

(* The node loses power anywhere in its cycle; the shared memory keeps what  *)
(* was written.                                                              *)
Crash(n) ==
  /\ n \in up
  /\ host < MaxHost
  /\ host' = host + 1
  /\ up' = up \ {n}
  /\ pc' = [pc EXCEPT ![n] = "idle"]
  /\ UNCHANGED <<state, masters, fault_count, lost_count, mem, dirty, buf, area,
                 call, scans>>

(* hs_init in the configured role: after a power loss on a fresh VM, after   *)
(* hs_deinit on the VM as it is.                                             *)
Boot(n) ==
  /\ n \notin up \/ (state[n] = "UNINIT" /\ pc[n] = "idle")
  /\ state' = [state EXCEPT ![n] = IF n = Primary THEN "ACTIVE" ELSE "STANDBY"]
  /\ masters' = IF n = Primary THEN masters \cup {n} ELSE masters \ {n}
  /\ fault_count' = [fault_count EXCEPT ![n] = 0]
  /\ lost_count' = [lost_count EXCEPT ![n] = 0]
  /\ mem' = IF n \in up THEN mem ELSE [mem EXCEPT ![n] = [p \in Globals |-> 0]]
  /\ dirty' = [dirty EXCEPT ![n] = {}]
  /\ buf' = [buf EXCEPT ![n] = EmptyBuf]
  /\ up' = up \cup {n}
  /\ UNCHANGED <<area, pc, call, scans, host>>

-----------------------------------------------------------------------------
(* hs_run_cycle from its start to its end; the calls a host makes itself      *)
(* share every step but the first.                                           *)
RunCycle(n) ==
  \/ ScanOk(n, "cycle")
  \/ \E written \in SUBSET Globals : ScanFails(n, "cycle", written)
  \/ SeeBeat(n, "cycle")
  \/ MissBeat(n, "cycle")
  \/ EndSwitch(n)
  \/ CreateFails(n) \/ Create(n)
  \/ WriteHeader(n) \/ WriteLow(n) \/ WriteHigh(n) \/ SendBeat(n)
  \/ ClearBeat(n)
  \/ ReadHeader(n) \/ CopyLow(n) \/ CopyHigh(n) \/ ClearHeader(n) \/ Apply(n)

HostStep(n) ==
  \/ ScanOk(n, "sync")
  \/ \E written \in SUBSET Globals : ScanFails(n, "sync", written)
  \/ StartReceive(n)
  \/ SeeBeat(n, "check")
  \/ MissBeat(n, "check")
  \/ \E e \in {"FAULT_DETECTED", "SWITCH_REQUEST"} : HostEvent(n, e)
  \/ \E p \in Tracked : MarkDirty(n, p)
  \/ Deinit(n)
  \/ Crash(n)
  \/ Boot(n)

HsNext == \E n \in Nodes : RunCycle(n) \/ HostStep(n)

(* Each powered node calls hs_run_cycle again and again, and a call that has *)
(* begun ends.  The host owes nothing.                                       *)
HsFairness == \A n \in Nodes : WF_hsVars(RunCycle(n))

HsSpec == HsInit /\ [][HsNext]_hsVars
HsLiveSpec == HsSpec /\ HsFairness

-----------------------------------------------------------------------------
Labels == {"idle", "create", "header", "payload_lo", "payload_hi", "beat",
           "clear_beat", "recv", "copy_lo", "copy_hi", "clear_header", "apply"}
Memories == [Globals -> Nat]
Snapshots == [pages : SUBSET (Globals \cup Tracked), mem : Memories]
Buffers == [size : Nat, lo : Snapshots, hi : Snapshots]
Areas == [magic : {"NONE", "SNAP", "HBT"}, size : Nat, lo : Snapshots, hi : Snapshots]

(* The variables of both nodes keep their types, the counters stop at their  *)
(* thresholds, and whoever is ACTIVE has is_master (hs_handle_event).         *)
HsTypeOK ==
  /\ state \in [Nodes -> States]
  /\ \A n \in Nodes : state[n] = "ACTIVE" => n \in masters
  /\ masters \in SUBSET Nodes
  /\ fault_count \in [Nodes -> 0 .. RetryMax]
  /\ lost_count \in [Nodes -> 0 .. LostMax]
  /\ mem \in [Nodes -> Memories]
  /\ dirty \in [Nodes -> SUBSET Tracked]
  /\ buf \in [Nodes -> Buffers]
  /\ area \in [Nodes -> Areas]
  /\ up \in SUBSET Nodes
  /\ pc \in [Nodes -> Labels]
  /\ call \in [Nodes -> {"cycle", "sync", "check"}]
  /\ scans \in Nat
  /\ host \in Nat

(* Never two acting masters: whatever heartbeats are lost, faults detected,  *)
(* switches requested and nodes restarted, at most one powered node is       *)
(* ACTIVE and drives the outputs (state_machine.c, hs_handle_event).         *)
OneMaster ==
  \A m, n \in Nodes :
    m # n => ~(/\ m \in up /\ n \in up
               /\ state[m] = "ACTIVE" /\ state[n] = "ACTIVE")

Uniform(v) == \A p, q \in Globals : v[p] = v[q]

(* The secondary's VM always holds the memory of one whole scan, never pages *)
(* of two: a snapshot overtaken by the next one, by a heartbeat or by the    *)
(* sender's power loss while it is being copied is refused by its CRC        *)
(* (sync.c shmem_send and shmem_recv, snapshot.c hs_snapshot_apply).         *)
NoTornSnapshot == Uniform(mem[Secondary])

Silent(n) == n \notin up \/ state[n] # "ACTIVE"
InService(n) == n \in up /\ state[n] \in {"STANDBY", "SWITCHING"}

(* Silence is noticed: when the peer has stopped sending for good, the       *)
(* standby goes on starting switches, each of which ends, and is not lulled  *)
(* by a heartbeat it has already counted (sync.c hs_heartbeat_check consumes *)
(* the beat).                                                                *)
SilenceNoticed ==
  \A n \in Nodes :
    <>[](Silent(Peer(n)) /\ InService(n)) =>
      []<>(state[n] = "SWITCHING") /\ []<>(state[n] # "SWITCHING")

(* state_machine.c says a standby that has lost three heartbeats carries out *)
(* the standby-to-master switch: with the peer silent for good, the standby  *)
(* becomes ACTIVE.                                                           *)
StandbyTakesOver ==
  \A n \in Nodes :
    <>[](Silent(Peer(n)) /\ n \in up /\ state[n] # "FAILED" /\ state[n] # "UNINIT")
      => <>(state[n] = "ACTIVE")
=============================================================================

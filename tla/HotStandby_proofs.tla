-------------------------- MODULE HotStandby_proofs --------------------------
(***************************************************************************)
(* The runtime's two schedulers.  The hot standby never has two acting      *)
(* masters and never applies a torn snapshot, for any set of pages, any     *)
(* split of the copy, any sizes and thresholds, and any number of scans and *)
(* host calls; the threads of the RT-Thread port never share the VM.        *)
(***************************************************************************)
EXTENDS HotStandby, Platform, FiniteSetTheorems, TLAPS

RoleTypes ==
  /\ state \in [Nodes -> States]
  /\ masters \in SUBSET Nodes
  /\ fault_count \in [Nodes -> 0 .. RetryMax]
  /\ lost_count \in [Nodes -> 0 .. LostMax]
  /\ \A n \in Nodes : state[n] = "ACTIVE" => n \in masters

DataTypes ==
  /\ mem \in [Nodes -> Memories]
  /\ dirty \in [Nodes -> SUBSET Tracked]
  /\ buf \in [Nodes -> Buffers]
  /\ area \in [Nodes -> Areas]

FlowTypes ==
  /\ up \in SUBSET Nodes
  /\ pc \in [Nodes -> Labels]
  /\ call \in [Nodes -> {"cycle", "sync", "check"}]
  /\ scans \in Nat
  /\ host \in Nat

(* Only the node configured as master ever has is_master. *)
RoleKept == masters \subseteq {Primary}

(* Every snapshot anywhere carries the memory of one whole scan: the         *)
(* buffers, both parts of both areas, the memory a snapshot is about to be   *)
(* made of, and the secondary's VM.                                          *)
WholeScans ==
  /\ \A n \in Nodes : /\ Uniform(buf[n].lo.mem) /\ Uniform(buf[n].hi.mem)
                      /\ Uniform(area[n].lo.mem) /\ Uniform(area[n].hi.mem)
                      /\ pc[n] = "create" => Uniform(mem[n])
  /\ Uniform(mem[Secondary])

-----------------------------------------------------------------------------
(* hs_handle_event keeps the role variables well typed, leaves only masters  *)
(* ACTIVE and never adds a master.                                           *)
LEMMA EventKeepsRoles ==
  ASSUME RoleTypes, RoleKept, NEW n \in Nodes, NEW e, HandleEvent(n, e)
  PROVE  RoleTypes' /\ RoleKept'
<1> USE StandbyAssumption
<1>1. fault_count' \in [Nodes -> 0 .. RetryMax]
  BY DEF HandleEvent, RoleTypes, NewFault, Bump
<1>2. lost_count' \in [Nodes -> 0 .. LostMax]
  BY DEF HandleEvent, RoleTypes, NewLost, Bump
<1>3. masters' \subseteq masters
  BY DEF HandleEvent
<1>4. state' \in [Nodes -> States]
  BY DEF HandleEvent, RoleTypes, NewState, States
<1>5. \A m \in Nodes : state'[m] = "ACTIVE" => m \in masters'
  <2> TAKE m \in Nodes
  <2>1. CASE m # n
    BY <2>1 DEF HandleEvent, RoleTypes
  <2>2. CASE m = n
    BY <2>2 DEF HandleEvent, RoleTypes, NewState, States
  <2> QED BY <2>1, <2>2
<1> QED BY <1>1, <1>2, <1>3, <1>4, <1>5 DEF RoleTypes, RoleKept

(* AfterSend handles at most one event and goes to a known place. *)
LEMMA SendKeepsRoles ==
  ASSUME RoleTypes, RoleKept, FlowTypes, NEW n \in Nodes, NEW e, AfterSend(n, e)
  PROVE  /\ RoleTypes' /\ RoleKept'
         /\ pc' \in [Nodes -> Labels]
         /\ \A m \in Nodes : pc'[m] = "create" => pc[m] = "create" /\ m # n
<1>1. RoleTypes' /\ RoleKept'
  <2>1. CASE call[n] = "cycle"
    BY <2>1, EventKeepsRoles DEF AfterSend
  <2>2. CASE call[n] # "cycle"
    BY <2>2 DEF AfterSend, roleVars, RoleTypes, RoleKept
  <2> QED BY <2>1, <2>2
<1>2. /\ pc' \in [Nodes -> Labels]
      /\ \A m \in Nodes : pc'[m] = "create" => pc[m] = "create" /\ m # n
  BY DEF AfterSend, Goto, FlowTypes, Labels
<1> QED BY <1>1, <1>2

Inductive == RoleTypes /\ RoleKept /\ DataTypes /\ FlowTypes /\ WholeScans

LEMMA InductiveInit == HsInit => Inductive
<1> SUFFICES ASSUME HsInit PROVE Inductive
  OBVIOUS
<1> USE StandbyAssumption
<1>0. NoSnapshot \in Snapshots /\ Uniform(NoSnapshot.mem)
  BY DEF NoSnapshot, Snapshots, Memories, Uniform
<1>1. RoleTypes /\ RoleKept
  BY DEF HsInit, RoleTypes, RoleKept, Nodes, States
<1>2. DataTypes
  BY <1>0 DEF HsInit, DataTypes, EmptyBuf, Buffers, Areas, Memories
<1>3. FlowTypes
  BY DEF HsInit, FlowTypes, Labels
<1>4. WholeScans
  BY <1>0 DEF HsInit, WholeScans, EmptyBuf, Uniform, Nodes
<1> QED BY <1>1, <1>2, <1>3, <1>4 DEF Inductive

-----------------------------------------------------------------------------
(* The steps of a cycle that touch no role. *)
LEMMA WriterStep ==
  ASSUME Inductive, NEW n \in Nodes,
         WriteHeader(n) \/ WriteLow(n) \/ SendBeat(n)
  PROVE  Inductive'
<1>1. RoleTypes' /\ RoleKept'
  BY DEF Inductive, RoleTypes, RoleKept, WriteHeader, WriteLow, SendBeat
<1>2. FlowTypes' /\ \A m \in Nodes : pc'[m] = "create" => pc[m] = "create"
  BY DEF Inductive, FlowTypes, WriteHeader, WriteLow, SendBeat, Goto, Labels
<1>3. area' \in [Nodes -> Areas]
  <2>1. buf[n] \in Buffers /\ area[n] \in Areas
    BY DEF Inductive, DataTypes
  <2>2. CASE WriteHeader(n)
    BY <2>1, <2>2 DEF WriteHeader, Inductive, DataTypes, Areas, Buffers
  <2>3. CASE WriteLow(n)
    BY <2>1, <2>3 DEF WriteLow, Inductive, DataTypes, Areas, Buffers
  <2>4. CASE SendBeat(n)
    BY <2>1, <2>4 DEF SendBeat, Inductive, DataTypes, Areas, Buffers
  <2> QED BY <2>2, <2>3, <2>4
<1>4. DataTypes'
  BY <1>3 DEF Inductive, DataTypes, WriteHeader, WriteLow, SendBeat
<1>5. \A m \in Nodes : /\ area'[m].lo \in {area[m].lo, buf[m].lo}
                      /\ area'[m].hi = area[m].hi
  BY DEF Inductive, DataTypes, Areas, WriteHeader, WriteLow, SendBeat
<1>6. WholeScans'
  BY <1>2, <1>5 DEF Inductive, WholeScans, WriteHeader, WriteLow, SendBeat
<1> QED BY <1>1, <1>2, <1>4, <1>6 DEF Inductive

LEMMA ReaderStep ==
  ASSUME Inductive, NEW n \in Nodes,
         ReadHeader(n) \/ CopyLow(n) \/ CopyHigh(n) \/ ClearHeader(n)
  PROVE  Inductive'
<1>0. Peer(n) \in Nodes
  BY DEF Peer, Nodes
<1>1. RoleTypes' /\ RoleKept'
  BY DEF Inductive, RoleTypes, RoleKept, ReadHeader, CopyLow, CopyHigh, ClearHeader
<1>2. FlowTypes' /\ \A m \in Nodes : pc'[m] = "create" => pc[m] = "create"
  BY DEF Inductive, FlowTypes, ReadHeader, CopyLow, CopyHigh, ClearHeader, Goto,
         Labels
<1>a. buf[n] \in Buffers /\ area[Peer(n)] \in Areas
  BY <1>0 DEF Inductive, DataTypes
<1>3. buf' \in [Nodes -> Buffers] /\ area' \in [Nodes -> Areas]
  <2>1. CASE ReadHeader(n)
    BY <1>0, <1>a, <2>1 DEF ReadHeader, Inductive, DataTypes, Areas, Buffers
  <2>2. CASE CopyLow(n)
    BY <1>0, <1>a, <2>2 DEF CopyLow, Inductive, DataTypes, Areas, Buffers
  <2>3. CASE CopyHigh(n)
    BY <1>0, <1>a, <2>3 DEF CopyHigh, Inductive, DataTypes, Areas, Buffers
  <2>4. CASE ClearHeader(n)
    BY <1>0, <1>a, <2>4 DEF ClearHeader, Inductive, DataTypes, Areas, Buffers
  <2> QED BY <2>1, <2>2, <2>3, <2>4
<1>4. DataTypes'
  BY <1>3 DEF Inductive, DataTypes, ReadHeader, CopyLow, CopyHigh, ClearHeader
<1>5. \A m \in Nodes : /\ buf'[m].lo \in {buf[m].lo, area[Peer(m)].lo}
                      /\ buf'[m].hi \in {buf[m].hi, area[Peer(m)].hi}
                      /\ area'[m].lo = area[m].lo
                      /\ area'[m].hi = area[m].hi
  <2> TAKE m \in Nodes
  <2>0. buf[m] \in Buffers /\ area[m] \in Areas
    BY DEF Inductive, DataTypes
  <2>1. CASE ReadHeader(n)
    <3>1. area' = area /\ buf' \in {buf, [buf EXCEPT ![n].size = area[Peer(n)].size]}
      BY <2>1 DEF ReadHeader
    <3>2. buf'[m].lo = buf[m].lo /\ buf'[m].hi = buf[m].hi
      BY <2>0, <3>1 DEF Inductive, DataTypes, Buffers
    <3> QED BY <3>1, <3>2
  <2>2. CASE CopyLow(n)
    BY <1>0, <2>0, <2>2 DEF CopyLow, Inductive, DataTypes, Areas, Buffers
  <2>3. CASE CopyHigh(n)
    BY <1>0, <2>0, <2>3 DEF CopyHigh, Inductive, DataTypes, Areas, Buffers
  <2>4. CASE ClearHeader(n)
    BY <1>0, <2>0, <2>4 DEF ClearHeader, Inductive, DataTypes, Areas, Buffers
  <2> QED BY <2>1, <2>2, <2>3, <2>4
<1>6. \A m \in Nodes : Peer(m) \in Nodes
  BY DEF Peer, Nodes
<1>7. mem' = mem
  BY DEF ReadHeader, CopyLow, CopyHigh, ClearHeader
<1>8. WholeScans'
  BY <1>2, <1>5, <1>6, <1>7 DEF Inductive, WholeScans
<1> QED BY <1>1, <1>2, <1>4, <1>8 DEF Inductive

-----------------------------------------------------------------------------
(* hs_snapshot_create and the end of hs_sync_send. *)
LEMMA SendStep ==
  ASSUME Inductive, NEW n \in Nodes,
         CreateFails(n) \/ Create(n) \/ WriteHigh(n)
  PROVE  Inductive'
<1> DEFINE size == Cardinality(SnapshotPages(n))
           snap == [pages |-> SnapshotPages(n), mem |-> mem[n]]
<1>0. size \in Nat
  <2>1. IsFiniteSet(dirty[n])
    BY FS_Subset, StandbyAssumption DEF Inductive, DataTypes
  <2> QED BY <2>1, FS_Union, FS_CardinalityType, StandbyAssumption DEF SnapshotPages
<1>1. snap \in Snapshots
  BY DEF Inductive, DataTypes, Snapshots, SnapshotPages
<1>2. /\ RoleTypes' /\ RoleKept'
      /\ pc' \in [Nodes -> Labels]
      /\ \A m \in Nodes : pc'[m] = "create" => pc[m] = "create"
  <2>1. ASSUME NEW e, AfterSend(n, e)
        PROVE  /\ RoleTypes' /\ RoleKept'
               /\ pc' \in [Nodes -> Labels]
               /\ \A m \in Nodes : pc'[m] = "create" => pc[m] = "create"
    BY <2>1, SendKeepsRoles DEF Inductive
  <2>2. CASE Goto(n, "header") /\ UNCHANGED roleVars
    BY <2>2 DEF Goto, roleVars, Inductive, RoleTypes, RoleKept, FlowTypes, Labels
  <2>3. CASE CreateFails(n)
    BY <2>1, <2>3 DEF CreateFails
  <2>4. CASE Create(n)
    BY <2>1, <2>2, <2>4 DEF Create
  <2>5. CASE WriteHigh(n)
    BY <2>1, <2>5 DEF WriteHigh
  <2> QED BY <2>3, <2>4, <2>5
<1>3. FlowTypes'
  BY <1>2 DEF CreateFails, Create, WriteHigh, Inductive, FlowTypes
<1>4. /\ buf' \in {buf, [buf EXCEPT ![n] = [size |-> size, lo |-> snap, hi |-> snap]]}
      /\ area' \in {area, [area EXCEPT ![n].hi = buf[n].hi]}
      /\ dirty' \in {dirty, [dirty EXCEPT ![n] = {}]}
      /\ mem' = mem
  BY DEF CreateFails, Create, WriteHigh
<1>5. buf' = buf \/ (At(n, "create") /\ area' = area)
  BY DEF CreateFails, Create, WriteHigh
<1>6. buf[n] \in Buffers /\ area[n] \in Areas
  BY DEF Inductive, DataTypes
<1>7. DataTypes'
  <2>1. buf' \in [Nodes -> Buffers]
    BY <1>0, <1>1, <1>4 DEF Inductive, DataTypes, Buffers
  <2>2. area' \in [Nodes -> Areas]
    BY <1>4, <1>6 DEF Inductive, DataTypes, Areas, Buffers
  <2>3. dirty' \in [Nodes -> SUBSET Tracked]
    BY <1>4 DEF Inductive, DataTypes
  <2> QED BY <1>4, <2>1, <2>2, <2>3 DEF Inductive, DataTypes
<1>8. WholeScans'
  <2>1. ASSUME NEW m \in Nodes
        PROVE  Uniform(buf'[m].lo.mem) /\ Uniform(buf'[m].hi.mem)
    <3>1. CASE buf' = buf
      BY <3>1 DEF Inductive, WholeScans
    <3>2. CASE buf' # buf
      <4>1. Uniform(mem[n])
        BY <1>5, <3>2 DEF At, Inductive, WholeScans
      <4>2. buf' = [buf EXCEPT ![n] = [size |-> size, lo |-> snap, hi |-> snap]]
        BY <1>4, <3>2
      <4>3. CASE m = n
        BY <4>1, <4>2, <4>3 DEF Inductive, DataTypes
      <4>4. CASE m # n
        BY <4>2, <4>4 DEF Inductive, DataTypes, WholeScans
      <4> QED BY <4>3, <4>4
    <3> QED BY <3>1, <3>2
  <2>2. ASSUME NEW m \in Nodes
        PROVE  Uniform(area'[m].lo.mem) /\ Uniform(area'[m].hi.mem)
    <3>1. area[m] \in Areas
      BY DEF Inductive, DataTypes
    <3>2. area'[m].lo = area[m].lo /\ area'[m].hi \in {area[m].hi, buf[m].hi}
      BY <1>4, <3>1 DEF Inductive, DataTypes, Areas
    <3> QED BY <3>2 DEF Inductive, WholeScans
  <2> QED BY <1>2, <1>4, <2>1, <2>2 DEF Inductive, WholeScans
<1> QED BY <1>2, <1>3, <1>7, <1>8 DEF Inductive

(* A scan: only a node with is_master, hence the primary, runs one. *)
LEMMA ScanStep ==
  ASSUME Inductive, NEW n \in Nodes, NEW c \in {"cycle", "sync"},
         ScanOk(n, c) \/ \E written \in SUBSET Globals : ScanFails(n, c, written)
  PROVE  Inductive'
<1> USE StandbyAssumption
<1>1. n = Primary
  BY DEF ScanOk, ScanFails, MayScan, Inductive, RoleTypes, RoleKept
<1>2. RoleTypes' /\ RoleKept'
  <2>1. CASE ScanOk(n, c)
    BY <2>1 DEF ScanOk, Inductive, RoleTypes, RoleKept
  <2>2. CASE \E written \in SUBSET Globals : ScanFails(n, c, written)
    BY <2>2, EventKeepsRoles DEF ScanFails, Inductive
  <2> QED BY <2>1, <2>2
<1>3. FlowTypes'
  BY DEF ScanOk, ScanFails, MayScan, Goto, Inductive, FlowTypes, Labels
<1>4. mem' \in [Nodes -> Memories]
  <2>0. mem[n] \in Memories
    BY DEF Inductive, DataTypes
  <2>1. CASE ScanOk(n, c)
    BY <2>1 DEF ScanOk, Inductive, DataTypes, FlowTypes, Memories
  <2>2. CASE \E written \in SUBSET Globals : ScanFails(n, c, written)
    BY <2>0, <2>2 DEF ScanFails, Inductive, DataTypes, FlowTypes, Memories
  <2> QED BY <2>1, <2>2
<1>5. DataTypes'
  BY <1>4 DEF ScanOk, ScanFails, Inductive, DataTypes
<1>6. mem'[Secondary] = mem[Secondary] /\ buf' = buf /\ area' = area
  BY <1>1 DEF ScanOk, ScanFails, Inductive, DataTypes, Nodes
<1>7. ASSUME NEW m \in Nodes, pc'[m] = "create" PROVE Uniform(mem'[m])
  <2>1. CASE m # n
    BY <1>1, <1>6, <2>1 DEF Inductive, WholeScans, Nodes
  <2>2. CASE m = n
    <3>1. ScanOk(n, c)
      BY <1>7, <2>2 DEF ScanFails, MayScan, At
    <3> QED BY <2>2, <3>1 DEF ScanOk, Inductive, DataTypes, Uniform
  <2> QED BY <2>1, <2>2
<1>8. WholeScans'
  BY <1>6, <1>7 DEF Inductive, WholeScans
<1> QED BY <1>2, <1>3, <1>5, <1>8 DEF Inductive

-----------------------------------------------------------------------------
(* hs_heartbeat_check and the start of a receive. *)
LEMMA CheckStep ==
  ASSUME Inductive, NEW n \in Nodes, NEW c \in {"cycle", "check"},
         SeeBeat(n, c) \/ MissBeat(n, c) \/ ClearBeat(n) \/ StartReceive(n)
  PROVE  Inductive'
<1>0. Peer(n) \in Nodes
  BY DEF Peer, Nodes
<1>1. RoleTypes' /\ RoleKept'
  <2>1. CASE MissBeat(n, c) \/ ClearBeat(n)
    BY <2>1, EventKeepsRoles DEF MissBeat, ClearBeat, Inductive
  <2>2. CASE SeeBeat(n, c) \/ StartReceive(n)
    BY <2>2 DEF SeeBeat, StartReceive, Inductive, RoleTypes, RoleKept
  <2> QED BY <2>1, <2>2
<1>2. FlowTypes' /\ \A m \in Nodes : pc'[m] = "create" => pc[m] = "create"
  <2>1. CASE SeeBeat(n, c)
    BY <2>1 DEF SeeBeat, StartCheck, Goto, Inductive, FlowTypes, Labels
  <2>2. CASE MissBeat(n, c)
    BY <2>2 DEF MissBeat, StartCheck, AfterCheck, Goto, Inductive, FlowTypes, Labels
  <2>3. CASE ClearBeat(n)
    BY <2>3 DEF ClearBeat, AfterCheck, Goto, Inductive, FlowTypes, Labels
  <2>4. CASE StartReceive(n)
    BY <2>4 DEF StartReceive, Goto, Inductive, FlowTypes, Labels
  <2> QED BY <2>1, <2>2, <2>3, <2>4
<1>3. /\ mem' = mem /\ dirty' = dirty /\ buf' = buf
      /\ area' \in {area, [area EXCEPT ![Peer(n)].magic = "NONE"]}
  BY DEF SeeBeat, MissBeat, ClearBeat, StartReceive
<1>4. area[Peer(n)] \in Areas
  BY <1>0 DEF Inductive, DataTypes
<1>5. area' \in [Nodes -> Areas]
  BY <1>0, <1>3, <1>4 DEF Inductive, DataTypes, Areas
<1>6. DataTypes'
  BY <1>3, <1>5 DEF Inductive, DataTypes
<1>7. \A m \in Nodes : area'[m].lo = area[m].lo /\ area'[m].hi = area[m].hi
  BY <1>0, <1>3, <1>4 DEF Inductive, DataTypes, Areas
<1>8. WholeScans'
  BY <1>2, <1>3, <1>7 DEF Inductive, WholeScans
<1> QED BY <1>1, <1>2, <1>6, <1>8 DEF Inductive

(* hs_snapshot_apply: what passes the CRC is one snapshot. *)
LEMMA ApplyStep ==
  ASSUME Inductive, NEW n \in Nodes, Apply(n)
  PROVE  Inductive'
<1>1. RoleTypes' /\ RoleKept'
  BY EventKeepsRoles DEF Apply, Inductive
<1>2. FlowTypes' /\ \A m \in Nodes : pc'[m] = "create" => (pc[m] = "create" /\ m # n)
  BY DEF Apply, Goto, Inductive, FlowTypes, Labels
<1>3. dirty' = dirty /\ buf' = buf /\ area' = area
  BY DEF Apply
<1>4. mem' = mem \/ (/\ mem' = [mem EXCEPT ![n] = buf[n].lo.mem])
  <2>1. CASE ~CrcHolds(buf[n])
    BY <2>1 DEF Apply
  <2>2. CASE CrcHolds(buf[n])
    <3>1. buf[n].lo.mem \in [Globals -> Nat]
      BY DEF Inductive, DataTypes, Buffers, Snapshots, Memories
    <3>2. [p \in Globals |-> IF p \in LowPages THEN buf[n].lo.mem[p]
                             ELSE buf[n].hi.mem[p]] = buf[n].lo.mem
      BY <2>2, <3>1 DEF CrcHolds
    <3> QED BY <2>2, <3>2 DEF Apply
  <2> QED BY <2>1, <2>2
<1>5. DataTypes'
  <2>1. buf[n].lo.mem \in Memories
    BY DEF Inductive, DataTypes, Buffers, Snapshots
  <2>2. mem' \in [Nodes -> Memories]
    BY <1>4, <2>1 DEF Inductive, DataTypes
  <2> QED BY <1>3, <2>2 DEF Inductive, DataTypes
<1>6. \A m \in Nodes : m # n => mem'[m] = mem[m]
  BY <1>4 DEF Inductive, DataTypes
<1>7. Uniform(mem'[Secondary])
  <2>1. Secondary \in Nodes
    BY DEF Nodes
  <2>2. CASE mem' = mem
    BY <2>2 DEF Inductive, WholeScans
  <2>3. CASE mem' = [mem EXCEPT ![n] = buf[n].lo.mem]
    BY <2>1, <2>3 DEF Inductive, WholeScans, DataTypes
  <2> QED BY <1>4, <2>2, <2>3
<1>8. WholeScans'
  BY <1>2, <1>3, <1>6, <1>7 DEF Inductive, WholeScans
<1> QED BY <1>1, <1>2, <1>5, <1>8 DEF Inductive

(* The end of a switch, the host's calls and power losses. *)
LEMMA HostKeeps ==
  ASSUME Inductive, NEW n \in Nodes,
         \/ EndSwitch(n)
         \/ \E e \in {"FAULT_DETECTED", "SWITCH_REQUEST"} : HostEvent(n, e)
         \/ \E p \in Tracked : MarkDirty(n, p)
         \/ Deinit(n) \/ Crash(n)
  PROVE  Inductive'
<1>1. RoleTypes' /\ RoleKept'
  <2>1. CASE EndSwitch(n) \/ \E e \in {"FAULT_DETECTED", "SWITCH_REQUEST"} : HostEvent(n, e)
    BY <2>1, EventKeepsRoles DEF EndSwitch, HostEvent, Inductive
  <2>2. CASE (\E p \in Tracked : MarkDirty(n, p)) \/ Crash(n)
    BY <2>2 DEF MarkDirty, Crash, Inductive, RoleTypes, RoleKept
  <2>3. CASE Deinit(n)
    BY <2>3 DEF Deinit, Inductive, RoleTypes, RoleKept, States
  <2> QED BY <2>1, <2>2, <2>3
<1>2. FlowTypes' /\ \A m \in Nodes : pc'[m] = "create" => pc[m] = "create"
  BY DEF EndSwitch, HostEvent, MarkDirty, Deinit, Crash, HostCall, Inductive,
         FlowTypes, Labels
<1>3. mem' = mem /\ buf' = buf /\ area' = area
  BY DEF EndSwitch, HostEvent, MarkDirty, Deinit, Crash
<1>4. dirty' \in [Nodes -> SUBSET Tracked]
  BY DEF EndSwitch, HostEvent, MarkDirty, Deinit, Crash, Inductive, DataTypes
<1>5. DataTypes'
  BY <1>3, <1>4 DEF Inductive, DataTypes
<1>6. WholeScans'
  BY <1>2, <1>3 DEF Inductive, WholeScans
<1> QED BY <1>1, <1>2, <1>5, <1>6 DEF Inductive

LEMMA BootStep ==
  ASSUME Inductive, NEW n \in Nodes, Boot(n)
  PROVE  Inductive'
<1> USE StandbyAssumption
<1>0. NoSnapshot \in Snapshots /\ Uniform(NoSnapshot.mem)
  BY DEF NoSnapshot, Snapshots, Memories, Uniform
<1>1. RoleTypes' /\ RoleKept'
  BY DEF Boot, Inductive, RoleTypes, RoleKept, States, Nodes
<1>2. FlowTypes' /\ pc' = pc
  BY DEF Boot, Inductive, FlowTypes
<1>3. area' = area /\ \A m \in Nodes : buf'[m] \in {buf[m], EmptyBuf}
  BY DEF Boot, Inductive, DataTypes
<1>4. buf' \in [Nodes -> Buffers] /\ dirty' \in [Nodes -> SUBSET Tracked]
  BY <1>0 DEF Boot, Inductive, DataTypes, EmptyBuf, Buffers
<1>5. [p \in Globals |-> 0] \in Memories /\ Uniform([p \in Globals |-> 0])
  BY DEF Memories, Uniform
<1>6. mem' \in [Nodes -> Memories]
      /\ \A m \in Nodes : mem'[m] \in {mem[m], [p \in Globals |-> 0]}
  BY <1>5 DEF Boot, Inductive, DataTypes
<1>7. DataTypes'
  BY <1>3, <1>4, <1>6 DEF Inductive, DataTypes
<1>8. WholeScans'
  <2>1. \A m \in Nodes : Uniform(buf'[m].lo.mem) /\ Uniform(buf'[m].hi.mem)
    BY <1>0, <1>3 DEF EmptyBuf, Inductive, WholeScans
  <2>2. \A m \in Nodes : Uniform(mem[m]) => Uniform(mem'[m])
    BY <1>5, <1>6
  <2>3. Secondary \in Nodes
    BY DEF Nodes
  <2> QED BY <1>2, <1>3, <2>1, <2>2, <2>3 DEF Inductive, WholeScans
<1> QED BY <1>1, <1>2, <1>7, <1>8 DEF Inductive

-----------------------------------------------------------------------------
LEMMA InductiveStep == Inductive /\ [HsNext]_hsVars => Inductive'
<1> SUFFICES ASSUME Inductive, [HsNext]_hsVars PROVE Inductive'
  OBVIOUS
<1>1. CASE UNCHANGED hsVars
  BY <1>1 DEF hsVars, Inductive, RoleTypes, RoleKept, DataTypes, FlowTypes, WholeScans
<1>2. CASE HsNext
  <2>1. PICK n \in Nodes : RunCycle(n) \/ HostStep(n)
    BY <1>2 DEF HsNext
  <2>2. CASE RunCycle(n)
    BY <2>2, ScanStep, CheckStep, HostKeeps, SendStep, WriterStep, ReaderStep,
       ApplyStep DEF RunCycle
  <2>3. CASE HostStep(n)
    BY <2>3, ScanStep, CheckStep, HostKeeps, BootStep DEF HostStep
  <2> QED BY <2>1, <2>2, <2>3
<1> QED BY <1>1, <1>2

(* The inductive invariant holds in every reachable state. *)
THEOREM StandbyInvariant == HsSpec => []Inductive
  BY InductiveInit, InductiveStep, PTL DEF HsSpec

(* The variables keep their types and only nodes with is_master are ACTIVE  *)
(* (hs_handle_event, hs_init), for every value of the constants.            *)
THEOREM StandbyTypes == HsSpec => []HsTypeOK
<1>1. Inductive => HsTypeOK
  BY DEF Inductive, RoleTypes, DataTypes, FlowTypes, HsTypeOK
<1> QED BY <1>1, StandbyInvariant, PTL

(* At most one powered node is ACTIVE, whatever is lost, requested or        *)
(* restarted: is_master stays with the node it was configured for.           *)
THEOREM OneActingMaster == HsSpec => []OneMaster
<1>1. Inductive => OneMaster
  BY StandbyAssumption DEF Inductive, RoleTypes, RoleKept, OneMaster
<1> QED BY <1>1, StandbyInvariant, PTL

(* The secondary never runs on pages of two scans: every snapshot, torn or   *)
(* not, is made of uniform parts, and the CRC lets only equal parts through. *)
THEOREM SnapshotsAreWhole == HsSpec => []NoTornSnapshot
<1>1. Inductive => NoTornSnapshot
  BY DEF Inductive, WholeScans, NoTornSnapshot
<1> QED BY <1>1, StandbyInvariant, PTL

-----------------------------------------------------------------------------
(* The RT-Thread port, for any number of starts and stops and any subset of the
   threads. *)

(* The program counters, semaphores and counters keep their types. *)
LEMMA ThreadStep == ThreadTypes /\ [PlatformNext]_pfVars => ThreadTypes'
<1> SUFFICES ASSUME ThreadTypes, [PlatformNext]_pfVars
             PROVE  ThreadTypes'
  OBVIOUS
<1> USE PlatformAssumption
<1> USE DEF ThreadTypes, ctlVars, semVars, wdtVars, statVars
<1>1. CASE StartPlatform \/ StopPlatform
  BY <1>1 DEF StartPlatform, StopPlatform
<1>2. CASE IoStart \/ IoCheck \/ IoReadEnd \/ IoWake \/ IoSleepEnd
  BY <1>2 DEF IoStart, IoCheck, IoReadEnd, IoWake, IoSleepEnd
<1>3. CASE IoWriteEnd
  <2>1. NextCount \in 0 .. CountMod - 1
    BY DEF NextCount
  <2>2. QED
    BY <1>3, <2>1 DEF IoWriteEnd
<1>4. CASE VmThread
  BY <1>4 DEF VmThread, VmStart, VmCheck, VmWake, VmRunEnd
<1>5. CASE WdtThread
  <2>1. CASE WdtStart
    BY <2>1 DEF WdtStart
  <2>2. CASE WdtCheck
    BY <2>2 DEF WdtCheck
  <2>3. CASE WdtLook
    BY <2>3 DEF WdtLook
  <2>4. CASE WdtInitEnd \/ WdtNote
    BY <2>4 DEF WdtInitEnd, WdtNote
  <2>5. QED
    BY <1>5, <2>1, <2>2, <2>3, <2>4 DEF WdtThread
<1>6. CASE UNCHANGED pfVars
  BY <1>6 DEF pfVars
<1>7. QED
  BY <1>1, <1>2, <1>3, <1>4, <1>5, <1>6 DEF PlatformNext, IoThread

(* The flags stay Boolean. *)
LEMMA FlagsStep == FlagsOK /\ [PlatformNext]_pfVars => FlagsOK'
<1> SUFFICES ASSUME FlagsOK, [PlatformNext]_pfVars
             PROVE  FlagsOK'
  OBVIOUS
<1> USE DEF FlagsOK, ctlVars, semVars, wdtVars, statVars
<1>1. CASE StartPlatform \/ StopPlatform
  BY <1>1, Zenon DEF StartPlatform, StopPlatform
<1>2. CASE IoThread
  BY <1>2, Zenon DEF IoThread, IoStart, IoCheck, IoReadEnd, IoWake, IoWriteEnd, IoSleepEnd
<1>3. CASE VmStart \/ VmCheck \/ VmWake
  BY <1>3, Zenon DEF VmStart, VmCheck, VmWake
<1>4. CASE VmRunEnd(TRUE) \/ VmRunEnd(FALSE)
  BY <1>4, Zenon DEF VmRunEnd
<1>5. CASE WdtThread
  BY <1>5, Zenon DEF WdtThread, WdtStart, WdtCheck, WdtLook, WdtInitEnd, WdtNote
<1>6. CASE UNCHANGED pfVars
  BY <1>6, Zenon DEF pfVars
<1>7. QED
  BY <1>1, <1>2, <1>3, <1>4, <1>5, <1>6 DEF PlatformNext, VmThread

(* Exactly one thread, or one semaphore, holds the scan. *)
LEMMA HandOverStep == ThreadTypes /\ HandOver /\ [PlatformNext]_pfVars => HandOver'
<1> SUFFICES ASSUME ThreadTypes, HandOver, [PlatformNext]_pfVars
             PROVE  HandOver'
  OBVIOUS
<1> USE DEF ThreadTypes, HandOver, ctlVars, semVars, wdtVars, statVars
<1>1. CASE StartPlatform \/ StopPlatform
  BY <1>1 DEF StartPlatform, StopPlatform
<1>2. CASE IoThread
  BY <1>2 DEF IoThread, IoStart, IoCheck, IoReadEnd, IoWake, IoWriteEnd, IoSleepEnd
<1>3. CASE VmThread
  BY <1>3 DEF VmThread, VmStart, VmCheck, VmWake, VmRunEnd
<1>4. CASE WdtThread
  BY <1>4 DEF WdtThread, WdtStart, WdtCheck, WdtLook, WdtInitEnd, WdtNote
<1>5. CASE UNCHANGED pfVars
  BY <1>5 DEF pfVars
<1>6. QED
  BY <1>1, <1>2, <1>3, <1>4, <1>5 DEF PlatformNext

(* The hand-over invariant, with the types it rests on. *)
THEOREM HandOverInvariant == PlatformSafe => [](ThreadTypes /\ FlagsOK /\ HandOver)
<1>1. PlatformInit => ThreadTypes /\ HandOver
  BY PlatformAssumption DEF PlatformInit, ThreadTypes, HandOver
<1>2. PlatformInit => FlagsOK
  BY Zenon DEF PlatformInit, FlagsOK
<1>3. QED
  BY <1>1, <1>2, ThreadStep, FlagsStep, HandOverStep, PTL DEF PlatformSafe

(* The I/O thread and the VM thread are never in the VM's memory together. *)
THEOREM ScanIsExclusive == PlatformSafe => []ScanExclusive
<1>1. HandOver => ScanExclusive
  BY DEF HandOver, ScanExclusive
<1>2. QED
  BY <1>1, HandOverInvariant, PTL

(* The threads and semaphores implement the scan cycle. *)
THEOREM ScanCycleImplemented == PlatformSafe => ScanOrder
<1>1. PlatformInit => Cycle!Init
  BY DEF PlatformInit, Cycle!Init, Phase
<1>2. ThreadTypes /\ HandOver /\ [PlatformNext]_pfVars => [Cycle!Next]_Phase
  <2> SUFFICES ASSUME ThreadTypes, HandOver, [PlatformNext]_pfVars
               PROVE  [Cycle!Next]_Phase
    OBVIOUS
  <2> USE DEF ThreadTypes, HandOver, ctlVars, semVars, wdtVars, statVars, Phase
  <2>1. CASE StartPlatform \/ StopPlatform \/ WdtThread \/ UNCHANGED pfVars
    BY <2>1 DEF StartPlatform, StopPlatform, WdtThread, WdtStart, WdtCheck, WdtLook,
                WdtInitEnd, WdtNote, pfVars
  <2>2. CASE IoReadEnd
    BY <2>2 DEF IoReadEnd, Cycle!Next, Cycle!Read
  <2>3. CASE IoWriteEnd
    BY <2>3 DEF IoWriteEnd, Cycle!Next, Cycle!Write
  <2>4. CASE IoStart \/ IoCheck \/ IoWake \/ IoSleepEnd
    BY <2>4 DEF IoStart, IoCheck, IoWake, IoSleepEnd
  <2>5. CASE VmRunEnd(TRUE) \/ VmRunEnd(FALSE)
    BY <2>5 DEF VmRunEnd, Cycle!Next, Cycle!Scan
  <2>6. CASE VmStart \/ VmCheck \/ VmWake
    BY <2>6 DEF VmStart, VmCheck, VmWake
  <2>7. QED
    BY <2>1, <2>2, <2>3, <2>4, <2>5, <2>6 DEF PlatformNext, IoThread, VmThread
<1>3. QED
  BY <1>1, <1>2, HandOverInvariant, PTL DEF PlatformSafe, ScanOrder, Cycle!Spec
=============================================================================

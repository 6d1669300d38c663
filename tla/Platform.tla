------------------------------ MODULE Platform ------------------------------
(***************************************************************************)
(* The RT-Thread port (veri-runtime/rtos/rtthread/vm_rtthread.c): an I/O   *)
(* thread, a VM thread and a watchdog thread that share the VM and its     *)
(* statistics, hand the scan over with two semaphores, and are started and *)
(* stopped by the application.                                             *)
(*                                                                         *)
(* A step between two labels of a thread is atomic; the accesses to the    *)
(* VM (reading inputs, a scan, writing outputs, a re-initialisation) have  *)
(* a beginning and an end, so that they can overlap.  Threads interleave   *)
(* freely: the priorities are configuration.                               *)
(***************************************************************************)
EXTENDS Naturals

CONSTANTS CountMod,     \* cycle_count is uint32_t: it wraps at CountMod
          MaxStarts,    \* bound on the calls of vm_rtthread_start
          Stops,        \* TRUE if the application may call vm_rtthread_stop
          TicksPerSecond,   \* RT_TICK_PER_SECOND of the board
          ScanMs,       \* config.scan_cycle_ms
          Elapsed       \* ticks the three steps of a cycle may take

ASSUME PlatformAssumption ==
  /\ CountMod \in Nat \ {0, 1}
  /\ MaxStarts \in Nat
  /\ Stops \in BOOLEAN
  /\ TicksPerSecond \in Nat \ {0}
  /\ ScanMs \in Nat
  /\ Elapsed \subseteq Nat

VARIABLES
  io, vm, wdt,          \* where each thread is
  start_sem, io_sem, vm_sem,
  running, started,
  cycle_count,
  last_error,           \* "ok" or "error"
  last_cycle_count,     \* local to the watchdog
  sleep_ticks,          \* what the I/O thread sleeps, with the ticks it ran
  starts,               \* calls of vm_rtthread_start so far
  stopped               \* history: vm_rtthread_stop has been called

ctlVars == <<running, started, starts, stopped>>
semVars == <<start_sem, io_sem, vm_sem>>
wdtVars == <<wdt, last_cycle_count>>
statVars == <<cycle_count, last_error, sleep_ticks>>
pfVars == <<io, vm, wdtVars, ctlVars, semVars, statVars>>

ThreadTypes ==
  /\ io \in {"none", "start", "check", "read", "wait", "write", "sleep", "done"}
  /\ vm \in {"none", "start", "check", "wait", "run", "done"}
  /\ wdt \in {"none", "start", "check", "delay", "init", "note", "done"}
  /\ start_sem \in Nat
  /\ io_sem \in Nat
  /\ vm_sem \in Nat
  /\ cycle_count \in 0 .. CountMod - 1
  /\ last_cycle_count \in 0 .. CountMod - 1
  /\ last_error \in {"ok", "error"}
  /\ starts \in 0 .. MaxStarts

FlagsOK ==
  /\ running \in BOOLEAN
  /\ started \in BOOLEAN
  /\ stopped \in BOOLEAN

SleepOK == sleep_ticks \in [ran : Nat, slept : Nat]

(* The threads are where their code can be, the counters in range. *)
PlatformTypeOK == ThreadTypes /\ FlagsOK /\ SleepOK

-----------------------------------------------------------------------------
(* vm_rtthread_init has returned 0.  It starts the threads that could be    *)
(* created and does not report the ones that could not.                     *)
PlatformInit ==
  /\ io \in {"none", "start"}
  /\ vm \in {"none", "start"}
  /\ wdt \in {"none", "start"}
  /\ start_sem = 0 /\ io_sem = 0 /\ vm_sem = 0
  /\ running = TRUE
  /\ started = FALSE
  /\ cycle_count = 0
  /\ last_error = "ok"
  /\ last_cycle_count = 0
  /\ sleep_ticks = [ran |-> 0, slept |-> 0]
  /\ starts = 0
  /\ stopped = FALSE

(* vm_rtthread_start; a call while started returns at once. *)
StartPlatform ==
  /\ ~started
  /\ starts < MaxStarts
  /\ running' = TRUE
  /\ started' = TRUE
  /\ start_sem' = start_sem + 3
  /\ starts' = starts + 1
  /\ UNCHANGED <<io, vm, io_sem, vm_sem, stopped, wdtVars, statVars>>

(* vm_rtthread_stop: it only clears the flags. *)
StopPlatform ==
  /\ Stops
  /\ running
  /\ running' = FALSE
  /\ started' = FALSE
  /\ stopped' = TRUE
  /\ UNCHANGED <<io, vm, starts, semVars, wdtVars, statVars>>

-----------------------------------------------------------------------------
(* The I/O thread. *)
IoStart ==
  /\ io = "start"
  /\ start_sem > 0
  /\ start_sem' = start_sem - 1
  /\ io' = "check"
  /\ UNCHANGED <<vm, io_sem, vm_sem, ctlVars, wdtVars, statVars>>

IoCheck ==
  /\ io = "check"
  /\ io' = IF running THEN "read" ELSE "done"
  /\ UNCHANGED <<vm, ctlVars, semVars, wdtVars, statVars>>

(* io_mapping_read_all ends and the VM thread is woken. *)
IoReadEnd ==
  /\ io = "read"
  /\ io_sem' = io_sem + 1
  /\ io' = "wait"
  /\ UNCHANGED <<vm, start_sem, vm_sem, ctlVars, wdtVars, statVars>>

(* Mutant of IoWake: a timeout instead of RT_WAITING_FOREVER. *)
IoWakeTimeout ==
  /\ io = "wait"
  /\ vm_sem' = IF vm_sem > 0 THEN vm_sem - 1 ELSE 0
  /\ io' = "write"
  /\ UNCHANGED <<vm, start_sem, io_sem, ctlVars, wdtVars, statVars>>

IoWake ==
  /\ io = "wait"
  /\ vm_sem > 0
  /\ vm_sem' = vm_sem - 1
  /\ io' = "write"
  /\ UNCHANGED <<vm, start_sem, io_sem, ctlVars, wdtVars, statVars>>

(* rt_tick_from_millisecond of RT-Thread: rounds up. *)
TicksOf(ms) == (TicksPerSecond * ms + 999) \div 1000

(* What is left of the cycle after `ran` ticks.  The code converts the      *)
(* elapsed ticks with the function that takes milliseconds.                 *)
SleepFor(ran) ==
  LET elapsed_ms == TicksOf(ran)
  IN  IF elapsed_ms < ScanMs THEN TicksOf(ScanMs - elapsed_ms) ELSE 0

NextCount == (cycle_count + 1) % CountMod

(* io_mapping_write_all ends; the statistics; the sleep. *)
IoWriteEnd ==
  /\ io = "write"
  /\ \E ran \in Elapsed :
       sleep_ticks' = [ran |-> ran, slept |-> SleepFor(ran)]
  /\ cycle_count' = NextCount
  /\ io' = "sleep"
  /\ UNCHANGED <<vm, last_error, ctlVars, semVars, wdtVars>>

IoSleepEnd ==
  /\ io = "sleep"
  /\ io' = "check"
  /\ UNCHANGED <<vm, ctlVars, semVars, wdtVars, statVars>>

-----------------------------------------------------------------------------
(* The VM thread. *)
VmStart ==
  /\ vm = "start"
  /\ start_sem > 0
  /\ start_sem' = start_sem - 1
  /\ vm' = "check"
  /\ UNCHANGED <<io, io_sem, vm_sem, ctlVars, wdtVars, statVars>>

VmCheck ==
  /\ vm = "check"
  /\ vm' = IF running THEN "wait" ELSE "done"
  /\ UNCHANGED <<io, ctlVars, semVars, wdtVars, statVars>>

VmWake ==
  /\ vm = "wait"
  /\ io_sem > 0
  /\ io_sem' = io_sem - 1
  /\ vm' = "run"
  /\ UNCHANGED <<io, start_sem, vm_sem, ctlVars, wdtVars, statVars>>

(* Mutant of VmRunEnd: a failed scan does not wake the I/O thread. *)
VmRunEndSilent(ok) ==
  /\ vm = "run"
  /\ last_error' = IF ok THEN last_error ELSE "error"
  /\ vm_sem' = IF ok THEN vm_sem + 1 ELSE vm_sem
  /\ vm' = "check"
  /\ UNCHANGED <<io, start_sem, io_sem, cycle_count, sleep_ticks, ctlVars, wdtVars>>

(* vm_run ends, well or not, and the I/O thread is woken either way. *)
VmRunEnd(ok) ==
  /\ vm = "run"
  /\ last_error' = IF ok THEN last_error ELSE "error"
  /\ vm_sem' = vm_sem + 1
  /\ vm' = "check"
  /\ UNCHANGED <<io, start_sem, io_sem, cycle_count, sleep_ticks, ctlVars, wdtVars>>

-----------------------------------------------------------------------------
(* The watchdog thread. *)
WdtStart ==
  /\ wdt = "start"
  /\ start_sem > 0
  /\ start_sem' = start_sem - 1
  /\ wdt' = "check"
  /\ UNCHANGED <<io, vm, io_sem, vm_sem, last_cycle_count, ctlVars, statVars>>

WdtCheck ==
  /\ wdt = "check"
  /\ wdt' = IF running THEN "delay" ELSE "done"
  /\ UNCHANGED <<io, vm, last_cycle_count, ctlVars, semVars, statVars>>

(* The cycle has not advanced since the last look, and a scan had failed. *)
Stuck == cycle_count = last_cycle_count /\ last_error # "ok"

(* After its delay the watchdog begins to re-initialise the VM, or not. *)
WdtLook ==
  /\ wdt = "delay"
  /\ wdt' = IF Stuck THEN "init" ELSE "note"
  /\ UNCHANGED <<io, vm, cycle_count, last_error, last_cycle_count, sleep_ticks, ctlVars, semVars>>

(* vm_init is done; the error is taken as dealt with. *)
WdtInitEnd ==
  /\ wdt = "init"
  /\ last_error' = "ok"
  /\ wdt' = "note"
  /\ UNCHANGED <<io, vm, cycle_count, last_cycle_count, sleep_ticks, ctlVars, semVars>>

WdtNote ==
  /\ wdt = "note"
  /\ last_cycle_count' = cycle_count
  /\ wdt' = "check"
  /\ UNCHANGED <<io, vm, ctlVars, semVars, statVars>>

-----------------------------------------------------------------------------
IoThread == IoStart \/ IoCheck \/ IoReadEnd \/ IoWake \/ IoWriteEnd \/ IoSleepEnd
VmThread == VmStart \/ VmCheck \/ VmWake \/ VmRunEnd(TRUE) \/ VmRunEnd(FALSE)
WdtThread == WdtStart \/ WdtCheck \/ WdtLook \/ WdtInitEnd \/ WdtNote

PlatformNext == StartPlatform \/ StopPlatform \/ IoThread \/ VmThread \/ WdtThread

PlatformSafe == PlatformInit /\ [][PlatformNext]_pfVars

(* RT-Thread runs every ready thread (the two above the watchdog sleep or   *)
(* wait in every cycle); delays end.  Nothing makes the application call    *)
(* start or stop.                                                           *)
PlatformSpec ==
  /\ PlatformSafe
  /\ WF_pfVars(IoThread)
  /\ WF_pfVars(VmThread)
  /\ WF_pfVars(WdtThread)

-----------------------------------------------------------------------------
(* Who holds the scan: the I/O thread, or while it waits exactly one of     *)
(* io_sem, the VM thread and vm_sem.                                        *)
HandOver ==
  /\ io_sem + vm_sem <= 1
  /\ io # "wait" => io_sem = 0 /\ vm_sem = 0 /\ vm # "run"
  /\ io = "wait" => \/ io_sem = 1 /\ vm_sem = 0 /\ vm # "run"
                    \/ io_sem = 0 /\ vm_sem = 1 /\ vm # "run"
                    \/ io_sem = 0 /\ vm_sem = 0 /\ vm = "run"

(* The I/O thread never touches the VM's memory while a scan runs, however  *)
(* often the platform is stopped and started, whichever threads exist and   *)
(* whatever the watchdog does.                                              *)
ScanExclusive == ~(io \in {"read", "write"} /\ vm = "run")

Phase ==
  IF vm = "run" \/ io_sem > 0 THEN "scan"
  ELSE IF vm_sem > 0 \/ io = "write" THEN "output"
  ELSE "input"

Cycle == INSTANCE ScanCycle WITH phase <- Phase

(* The two semaphores implement the scan cycle: every scan runs on inputs   *)
(* read since the last one, and every scan's outputs are written once.      *)
ScanOrder == Cycle!Spec

(* While nobody stops the platform, and all threads could be created, the   *)
(* outputs are written again and again, also when scans fail.               *)
Complete == io # "none" /\ vm # "none"
CyclesKeepGoing == started /\ ~stopped /\ Complete /\ io # "write"
                     ~> io = "write" \/ stopped

(* After the last stop the VM and the outputs are left alone: no scan runs   *)
(* and no output is written any more.  The threads need not end: one that   *)
(* waits for a partner that has ended stays where it is.                    *)
StopQuiesces == <>[](stopped /\ ~started) => <>[](vm # "run" /\ io \in {"none", "start", "wait", "done"})

(* Both: the loop neither stalls while it should run nor runs on after a     *)
(* stop (vm_rtthread.c, the three thread entries).                           *)
PlatformLive == CyclesKeepGoing /\ StopQuiesces
=============================================================================

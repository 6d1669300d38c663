--------------------------- MODULE ProgramSwitch ---------------------------
(***************************************************************************)
(* What a full download promises of the program on the target              *)
(* (spec/download-spec.md section 4), with no slots, versions or cycles:   *)
(* one accepted program runs; a new one takes its place in one step and is *)
(* on trial; while it is on trial the program it replaced is at hand, and  *)
(* a failure brings exactly that program back.  A run of the target takes  *)
(* one download.                                                           *)
(***************************************************************************)
CONSTANTS Programs,     \* programs that pass the loader and the validator
          None          \* no program

VARIABLES running,      \* the program the target executes
          fallback,     \* what a failure brings back; None outside a trial
          taken         \* downloads taken, 0 or 1

vars == <<running, fallback, taken>>

Init == running = None /\ fallback = None /\ taken = 0

(* The first program. *)
Start(p) ==
  /\ running = None
  /\ running' = p
  /\ UNCHANGED <<fallback, taken>>

(* A new program takes over, with a trial or (no health window) without. *)
Switch(p) ==
  /\ running # None
  /\ taken = 0
  /\ taken' = 1
  /\ running' = p
  /\ fallback' \in {running, None}

(* The trial ends well. *)
Confirm ==
  /\ fallback # None
  /\ fallback' = None
  /\ UNCHANGED <<running, taken>>

(* The trial fails. *)
Revert ==
  /\ fallback # None
  /\ running' = fallback
  /\ fallback' = None
  /\ UNCHANGED taken

Next ==
  \/ \E p \in Programs : Start(p) \/ Switch(p)
  \/ Confirm
  \/ Revert

Spec == Init /\ [][Next]_vars
=============================================================================

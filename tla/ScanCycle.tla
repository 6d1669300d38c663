----------------------------- MODULE ScanCycle -----------------------------
(***************************************************************************)
(* The scan cycle every host of the VM promises: read all inputs, run the  *)
(* program once on them, write all outputs, and so on, never two of them   *)
(* at the same time and none of them left out.                             *)
(***************************************************************************)
VARIABLE phase          \* what the next access to the VM's memory is

Init == phase = "input"

Read  == phase = "input"  /\ phase' = "scan"
Scan  == phase = "scan"   /\ phase' = "output"
Write == phase = "output" /\ phase' = "input"

Next == Read \/ Scan \/ Write

Spec == Init /\ [][Next]_phase
=============================================================================

---------------------------- MODULE MCProcesses ----------------------------
(* Instances of Processes for TLC. *)
EXTENDS ProcessesInvariant

\* No interrupt inside sys_execute and sys_halt: cli ... sti around them.
MaskAll == Critical
\* The code as it is, but for the end of entry(): interrupts are enabled only
\* when the first shell runs.
MaskBoot == {"boot"}
=============================================================================

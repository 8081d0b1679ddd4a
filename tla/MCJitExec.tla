----------------------------- MODULE MCJitExec -----------------------------
(* The System V register lists for TLC. *)
EXTENDS JitExec
SysVArgRegs == <<7, 6, 2, 1, 8, 9>>
SysVCalleeSaved == <<3, 12, 13, 14, 15>>
=============================================================================

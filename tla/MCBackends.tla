----------------------------- MODULE MCBackends -----------------------------
(* One argument register for each convention, so that two arguments need   *)
(* the stack.                                                              *)
EXTENDS Backends
OneArgReg == <<7>>
OneWinArgReg == <<1>>
BothCalleeSaved == <<3, 12, 13, 14, 15>>
=============================================================================

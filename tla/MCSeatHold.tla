----------------------------- MODULE MCSeatHold -----------------------------
(***************************************************************************)
(* Small instances of SeatHold for TLC.  Both configurations check         *)
(* temporal properties or name single calls, so neither uses symmetry.     *)
(***************************************************************************)
EXTENDS SeatHold

=============================================================================

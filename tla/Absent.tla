------------------------------- MODULE Absent -------------------------------
(* What a column, a field or a slot that holds nothing holds. *)

CONSTANT None
=============================================================================

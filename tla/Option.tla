------------------------------- MODULE Option -------------------------------
(* Option::None of the source, and what NULL is in a table. *)

CONSTANT None

=============================================================================

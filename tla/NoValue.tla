------------------------------- MODULE NoValue -------------------------------
(* What the code has None for: a field, an answer or a record that is absent. *)
CONSTANT None
=============================================================================

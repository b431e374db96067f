-------------------------- MODULE MCDisenchantQueue --------------------------
(* Small instances of DisenchantQueue. *)
EXTENDS DisenchantQueue
=============================================================================

--------------------------- MODULE MCRunRecovery ---------------------------
(* A family of three: its leader, a member, a straggler. *)
EXTENDS RunRecovery

MCFamily == {"lead", "mate", "stray"}
MCWarlocks == {"mate"}

=============================================================================

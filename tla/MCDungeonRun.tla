---------------------------- MODULE MCDungeonRun ----------------------------
(* Small instances of DungeonRun. *)
EXTENDS DungeonRun

MCMembers == {"lead", "member"}

=============================================================================

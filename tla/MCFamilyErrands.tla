-------------------------- MODULE MCFamilyErrands --------------------------
(* Small instances of FamilyErrands: two members, one of whom learns by a   *)
(* profession errand.                                                       *)
EXTENDS FamilyErrands

MCMembers == {"head", "mate"}
MCSkilled == {"mate"}
MCWishes == {"mate"}
MCLoads == {{}, {"mate"}}
=============================================================================

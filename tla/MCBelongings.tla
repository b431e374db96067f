---------------------------- MODULE MCBelongings ----------------------------
(* Small instances of Belongings.  The characters are interchangeable, and *)
(* every property here is a safety property.                               *)
EXTENDS Belongings, TLC

Perms == Permutations(Chars)
=============================================================================

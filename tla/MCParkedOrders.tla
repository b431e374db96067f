--------------------------- MODULE MCParkedOrders ---------------------------
(* Small instances of ParkedOrders. *)
EXTENDS ParkedOrders

TwoSlots == {1, 2}
AllVerbs == Rows
AllDrives == {"stage", "sick", "settle"}
=============================================================================

--------------------------- MODULE MCLeaseSystem ----------------------------
(***************************************************************************)
(* Instances of LeaseSystem for TLC.                                       *)
(***************************************************************************)
EXTENDS LeaseSystem, TLC

CONSTANTS m1, p1

Entry(p) == [profile |-> p, machine |-> m1, status |-> "Available", accounts |-> {}]

MCReports == {<<Entry(p1)>>}
=============================================================================

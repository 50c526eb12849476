------------------------------ MODULE MCServer ------------------------------
(* Instances of Server for TLC.                                            *)
EXTENDS Server

CONSTANTS p1, p2, c1, c2

GrowPlans == {{p1}, {p1, p2}, {p2}}

=============================================================================

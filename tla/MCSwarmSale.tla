---------------------------- MODULE MCSwarmSale ----------------------------
(* SwarmSale on small instances: model values, symmetric where no liveness   *)
(* property is checked.                                                      *)
EXTENDS SwarmSale, TLC

CONSTANTS r1, r2, r3, p1, p2, o1, o2, o3, o4, o5, t1, t2, pin, sib

MCSymmetry == Permutations(Requests) \cup Permutations(Payments) \cup
              Permutations(Tasks)
=============================================================================

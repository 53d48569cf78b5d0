---------------------------- MODULE MCPaidRoute ----------------------------
(* PaidRoute on small instances: one route of each kind. *)
EXTENDS PaidRoute, TLC

CONSTANTS r1, r2, r3, p1, p2, city, pack, decision, demo, gated

MCKind == (city :> "city") @@ (pack :> "pack") @@
          (decision :> "decision") @@ (demo :> "demo") @@ (gated :> "gated")

MCSymmetry == Permutations(Requests) \cup Permutations(Payments)
=============================================================================

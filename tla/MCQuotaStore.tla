---------------------------- MODULE MCQuotaStore ----------------------------
(***************************************************************************)
(* QuotaStore on small instances: one buyer's purchases, one of them a     *)
(* Stripe purchase whose webhook is delivered twice.  Beside it the        *)
(* counters and reports of the sales funnel, the settle decision, the      *)
(* finality check and the free probes.  They share no state: the first two *)
(* keep theirs under different keys of the same Redis, the probes in       *)
(* memory, the others read a chain's node.  So one of them moves in a      *)
(* behaviour and the others stand still.                                   *)
(***************************************************************************)
EXTENDS QuotaStore, Demand, FeePulse, Finality, Probing, TLC

CONSTANTS a1, a2, q1, q2, c1, c2, c3, c4, c5, buy, pro, hookA, hookB, b1, b2, w1, w2, w3, w4,
          Parts           \* the parts that move

VARIABLE part             \* the part that moves

allVars == <<part, vars, demandVars, feeVars, finalityVars, probeVars>>

MCKeyOf == [d \in Deliveries |-> IF d \in {hookA, hookB} THEN "evt" ELSE NoKey]
MCBuyerOf == [d \in Deliveries |-> a1]
MCGoodOf == [d \in Deliveries |-> IF d = pro THEN "pro" ELSE "credits"]

\* The free probes are alike: they are numbered in the order in which they come.  Those
\* over MCP do not touch the window: one is enough.
MCInOrder ==
    /\ \A p \in Probes \ {w1} : probe'[p].door = "http"
    /\ probe'[w2].at # "new" => probe'[w1].at # "new"
    /\ probe'[w3].at # "new" => probe'[w2].at # "new"
    /\ probe'[w4].at # "new" => probe'[w3].at # "new"

MCInit ==
    /\ part \in Parts
    /\ Init /\ DemandInit /\ FeeInit /\ FinalityInit /\ ProbeInit
    /\ part # "demand" => inRedis
    /\ part # "fees" => fills = <<49>>

MCNext ==
    /\ UNCHANGED part
    /\ \/ part = "quota" /\ Next /\ UNCHANGED <<demandVars, feeVars, finalityVars, probeVars>>
       \/ part = "demand" /\ DemandNext /\ UNCHANGED <<vars, feeVars, finalityVars, probeVars>>
       \/ part = "fees" /\ FeeNext /\ UNCHANGED <<vars, demandVars, finalityVars, probeVars>>
       \/ part = "finality" /\ FinalityNext /\ UNCHANGED <<vars, demandVars, feeVars, probeVars>>
       \/ part = "probing" /\ ProbeNext /\ MCInOrder /\ UNCHANGED <<vars, demandVars, feeVars, finalityVars>>

MCSpec == MCInit /\ [][MCNext]_allVars

MCSymmetry == Permutations(Calls) \cup Permutations(Procs)
=============================================================================

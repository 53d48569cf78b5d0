------------------------------ MODULE SaleBook ------------------------------
(***************************************************************************)
(* What the storefront promises about one payment, whatever requests,      *)
(* republishing and restarts do: its funds move, one request claims it,    *)
(* one row books it.  A stage is never left backwards (a claim survives a  *)
(* restart) and no payment is booked twice.  A claimed payment may stay    *)
(* unbooked for ever: the promise is at most once.                         *)
(***************************************************************************)
CONSTANT Payments
VARIABLE stage

Stages == {"unpaid", "paid", "claimed", "booked"}

Init == stage = [p \in Payments |-> "unpaid"]

Pay(p)   == stage[p] = "unpaid"  /\ stage' = [stage EXCEPT ![p] = "paid"]
Claim(p) == stage[p] = "paid"    /\ stage' = [stage EXCEPT ![p] = "claimed"]
Book(p)  == stage[p] = "claimed" /\ stage' = [stage EXCEPT ![p] = "booked"]

Next == \E p \in Payments : Pay(p) \/ Claim(p) \/ Book(p)

Spec == Init /\ [][Next]_stage
=============================================================================

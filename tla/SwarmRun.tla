------------------------------ MODULE SwarmRun ------------------------------
(***************************************************************************)
(* The buying side of the swarm: a run scouts for paid upstream services,  *)
(* the warden approves purchases against ledger/policy.json and the spend  *)
(* ledger, the treasurer pays them one after the other, and what they cost *)
(* is composed into a listed product.                                      *)
(*                                                                         *)
(* Review is one synchronous step; every payment is an await, during which *)
(* other runs, midnight and a crash may come.  An upstream is not trusted: *)
(* it may take a payment and not say so, or report one it never took, and  *)
(* the buyer believes the report.  Amounts are atomic USDC; pricing ratios *)
(* are in units of 1/One.                                                  *)
(***************************************************************************)
EXTENDS Integers, Sequences, FiniteSets, SequencesExt, Filters

CONSTANTS
    Runs,          \* calls of run_swarm_research
    Services,      \* upstream x402 services, each listed once by discovery
    NoPrice,       \* a service whose price is not known
    ListPrice,     \* service -> price that the scout learns of it, or NoPrice
    Upstreams,     \* SWARM_UPSTREAM_URLS, asked when discovery finds nothing
    Ceiling,       \* run -> max_price_usdc of its caller
    AskPrice,      \* service -> prices its own 402 may ask
    Allowed,       \* services that pass the host and network rules
    PerCall, DailyCap, MonthlyCap,      \* policy.json
    MaxCalls,      \* settings.swarm_max_upstream_calls
    Markup, Target, Margin, MinPrice,   \* pricing ratios, and the price floor
    DaysPerMonth, MaxDay,               \* the clock and its bound
    MaxUntrue,     \* bound on answers that do not say what was paid
    MaxFaults      \* bound on failed appends and crashes

ASSUME SwarmRunAssumption ==
    /\ IsFiniteSet(Runs) /\ IsFiniteSet(Services) /\ NoPrice \notin Nat
    /\ ListPrice \in [Services -> Nat \cup {NoPrice}]
    /\ AskPrice \in [Services -> SUBSET Nat]
    /\ Upstreams \in Seq(Services) /\ Ceiling \in [Runs -> Nat]
    /\ Allowed \subseteq Services
    /\ {PerCall, DailyCap, MonthlyCap, MaxCalls, Markup, Target, MinPrice} \subseteq Nat
    /\ Margin \in Int
    /\ DaysPerMonth \in Nat \ {0} /\ MaxDay \in Nat
    /\ MaxUntrue \in Nat /\ MaxFaults \in Nat

VARIABLES
    day,
    rows,      \* the spend ledger: settled rows [run, svc, day, amt]
    paid,      \* what the chain has: payments [run, svc, day, amt, post]
    status,    \* SwarmRun.status; "cut" when the process died
    ended,     \* the handler of the run has returned or raised
    queue,     \* approved services still to be paid
    posted,    \* the head of the queue is asked a second time, by POST
    charged,   \* the upstream has taken a payment for the request under way
    bought,    \* the purchases the handler holds
    audit,     \* SwarmRun.purchases
    product,   \* listed product of the run: its cost basis and price
    faults,
    crowded,   \* history: two runs were in flight together
    denied,    \* history: payments behind which the answer showed no settlement
    claimed    \* history: rows of settlements reported without a payment

buying == <<posted, charged>>
history == <<crowded, denied, claimed>>
vars == <<day, rows, paid, status, ended, queue, buying, bought, audit, product,
          faults, history>>

NoProduct == [cost |-> 0, price |-> 0]
InFlight == {r \in Runs : status[r] # "idle" /\ ~ended[r]}
MonthOf(d) == d \div DaysPerMonth

Total(S) == FoldSet(LAMBDA x, n : x.amt + n, 0, S)
OfDay(S, d) == {x \in S : x.day = d}
OfMonth(S, m) == {x \in S : MonthOf(x.day) = m}
OfRun(S, r) == {x \in S : x.run = r}

Init ==
    /\ day = 0 /\ rows = {} /\ paid = {}
    /\ status = [r \in Runs |-> "idle"]
    /\ ended = [r \in Runs |-> FALSE]
    /\ queue = [r \in Runs |-> <<>>]
    /\ posted = [r \in Runs |-> FALSE] /\ charged = [r \in Runs |-> FALSE]
    /\ bought = [r \in Runs |-> {}]
    /\ audit = [r \in Runs |-> {}]
    /\ product = [r \in Runs |-> NoProduct]
    /\ faults = 0 /\ crowded = FALSE /\ denied = {} /\ claimed = {}

Fault == faults < MaxFaults /\ faults' = faults + 1

NewDay == /\ day < MaxDay
          /\ day' = day + 1
          /\ UNCHANGED <<rows, paid, status, ended, queue, buying, bought, audit,
                         product, faults, history>>

-----------------------------------------------------------------------------
(* Scout and warden. *)

\* The run is registered; with paid inputs on it goes scouting, else it composes
\* from free inputs.
Start(r) ==
    /\ status[r] = "idle"
    /\ crowded' = (crowded \/ InFlight # {})
    /\ \E s \in {"scouting", "composing"} : status' = [status EXCEPT ![r] = s]
    /\ UNCHANGED <<day, rows, paid, ended, queue, buying, bought, audit, product,
                   faults, denied, claimed>>

\* review_purchase, with the totals of the day and the month so far.
Approves(s, today, month) ==
    /\ ListPrice[s] # NoPrice
    /\ ListPrice[s] <= PerCall
    /\ today + ListPrice[s] <= DailyCap
    /\ month + ListPrice[s] <= MonthlyCap
    /\ s \in Allowed

\* Mutant: an approval is not reserved for the rest of the batch.
Review_NoReserve(cands) ==
    LET today == Total(OfDay(rows, day))
        month == Total(OfMonth(rows, MonthOf(day)))
    IN  SelectSeq(cands, LAMBDA s : Approves(s, today, month))

\* warden_review: in the order of discovery, each approval reserved, at most
\* MaxCalls.
Review(cands) ==
    LET Vet(acc, s) ==
            IF Len(acc.ok) < MaxCalls /\ Approves(s, acc.today, acc.month)
            THEN [ok |-> Append(acc.ok, s), today |-> acc.today + ListPrice[s],
                  month |-> acc.month + ListPrice[s]]
            ELSE acc
    IN  FoldLeft(Vet, [ok |-> <<>>, today |-> Total(OfDay(rows, day)),
                       month |-> Total(OfMonth(rows, MonthOf(day)))], cands).ok

\* The handler ends with this status.
End(r, s) == /\ status' = [status EXCEPT ![r] = s]
             /\ ended' = [ended EXCEPT ![r] = TRUE]

\* A page of the catalog is cut down to what is within the ceiling, unless nothing
\* is: then the whole page stands.  An option without an amount counts as free.
WithinCeiling(r, page, blank) ==
    LET cheap == Keep(page, {s \in Services : IF ListPrice[s] = NoPrice THEN s \in blank
                                              ELSE ListPrice[s] <= Ceiling[r]})
    IN  IF cheap = <<>> THEN page ELSE cheap

\* What the searches bring: for the topic, its first word, then anything.
Discovered(r) ==
    {WithinCeiling(r, page, blank) : page \in SetToAllKPermutations(Services),
                                     blank \in SUBSET {s \in Services : ListPrice[s] = NoPrice}}

\* Every configured upstream is asked for its own terms, some in vain: without a
\* price the warden will have none of them.
Probed == {Keep(Upstreams, told) : told \in SUBSET ToSet(Upstreams)}

\* What the scout comes back with; a search that fails is one that found nothing.
Candidates(r) == (Discovered(r) \ {<<>>}) \cup Probed

\* The warden reviews what the scout found at once.  The ceiling is no rule of his:
\* of a page on which nothing was within it, and of the configured upstreams, he may
\* approve a dearer one.
Scouted(r) ==
    /\ status[r] = "scouting"
    /\ \E cands \in Candidates(r) :
        \/ /\ Review(cands) = <<>>
           /\ End(r, "failed")
           /\ UNCHANGED queue
        \/ /\ Review(cands) # <<>>
           /\ queue' = [queue EXCEPT ![r] = Review(cands)]
           /\ status' = [status EXCEPT ![r] = "buying"]
           /\ UNCHANGED ended
    /\ UNCHANGED <<day, rows, paid, buying, bought, audit, product, faults, history>>

-----------------------------------------------------------------------------
(* Treasurer. *)

\* The upstream takes the payment it asks for in its own 402.
Charge(r) ==
    /\ status[r] = "buying" /\ ~charged[r]
    /\ charged' = [charged EXCEPT ![r] = TRUE]
    /\ \E p \in AskPrice[Head(queue[r])] :
          paid' = paid \cup {[run |-> r, svc |-> Head(queue[r]), day |-> day, amt |-> p,
                             post |-> posted[r]]}
    /\ UNCHANGED <<day, rows, status, ended, queue, posted, bought, audit, product, faults,
                   history>>

\* What the request under way has paid.
Paying(r) == IF charged[r] THEN {y \in paid : /\ y.run = r /\ y.svc = Head(queue[r])
                                              /\ y.post = posted[r]}
             ELSE {}

Untrue == Cardinality(denied) + Cardinality(claimed) < MaxUntrue

\* The answer shows no settlement, though there may have been a payment.
Denies(r) == /\ charged[r] => Untrue
             /\ denied' = denied \cup Paying(r)

\* A 404 or 405 is taken for an answer before any payment: the service is asked once
\* more, by POST, which may be paid for again.
AskAgain(r) ==
    /\ status[r] = "buying" /\ ~posted[r]
    /\ posted' = [posted EXCEPT ![r] = TRUE]
    /\ charged' = [charged EXCEPT ![r] = FALSE]
    /\ Denies(r)
    /\ UNCHANGED <<day, rows, paid, status, ended, queue, bought, audit, product, faults,
                   crowded, claimed>>

Maximum(S) == CHOOSE x \in S : \A y \in S : x >= y

\* A ratio of one: the settings are taken to carry four decimals.
One == 10000

\* n/d rounded to an atomic unit.
Rounded(n, d) == (2 * n + d) \div (2 * d)

\* Mutant: the price is left where the markup put it.
PriceOf_NoFloor(cost) ==
    Maximum({Rounded(cost * Markup, One), Rounded(cost * Target, One), MinPrice})

\* The margin floor, clamped so that it can be reached.
Floor == IF Margin < 0 THEN 0 ELSE IF Margin > 9900 THEN 9900 ELSE Margin

\* archivist_compose and optimize_pricing: markup, target ratio and minimum, then
\* the margin floor.
PriceOf(cost) ==
    LET price == PriceOf_NoFloor(cost)
    IN  IF cost > 0 /\ One * (price - cost) < Floor * price
        THEN Rounded(cost * One, One - Floor)
        ELSE price

\* Behind the last purchase: compose, price and list, without an await.  Building
\* the challenge of the listing may raise.
Compose(r, purchases) ==
    /\ audit' = [audit EXCEPT ![r] = purchases]
    /\ \/ purchases # {} /\ End(r, "listed")
          /\ product' = [product EXCEPT ![r] = [cost |-> Total(purchases),
                                                price |-> PriceOf(Total(purchases))]]
       \/ End(r, "failed") /\ UNCHANGED product

\* On to the next approved service, or to the product.
Advance(r, purchases) ==
    /\ queue' = [queue EXCEPT ![r] = Tail(@)]
    /\ posted' = [posted EXCEPT ![r] = FALSE]
    /\ charged' = [charged EXCEPT ![r] = FALSE]
    /\ bought' = [bought EXCEPT ![r] = purchases]
    /\ IF Len(queue[r]) = 1 THEN Compose(r, purchases)
       ELSE UNCHANGED <<audit, product, status, ended>>

\* The row of a purchase carries the price the warden saw.
Row(r) == [run |-> r, svc |-> Head(queue[r]), day |-> day, amt |-> ListPrice[Head(queue[r])]]

\* Mutant: an attempt is taken for a purchase, settled or not.
Settled_Unpaid(r) ==
    /\ status[r] = "buying"
    /\ rows' = rows \cup {Row(r)}
    /\ Advance(r, bought[r] \cup {Row(r)})
    /\ UNCHANGED <<day, paid, faults, history>>

\* The PAYMENT-RESPONSE of a 2xx says settled, whether or not a payment was taken.
Reported(r) == /\ charged[r] \/ Untrue
               /\ claimed' = IF charged[r] THEN claimed ELSE claimed \cup {Row(r)}

\* The answer shows a settlement: the spend is recorded.
Settled(r) ==
    /\ status[r] = "buying"
    /\ Reported(r)
    /\ rows' = rows \cup {Row(r)}
    /\ Advance(r, bought[r] \cup {Row(r)})
    /\ UNCHANGED <<day, paid, faults, crowded, denied>>

\* The append of the spend row raises, whether or not the row was written: the
\* run fails with the purchases it holds.
RecordFails(r) ==
    /\ status[r] = "buying" /\ Fault
    /\ Reported(r)
    /\ rows' \in {rows, rows \cup {Row(r)}}
    /\ End(r, "failed")
    /\ UNCHANGED <<day, paid, queue, buying, bought, audit, product, crowded, denied>>

\* Mutant: a service that did not answer goes to the end of the queue.
PassedOver_Retries(r) ==
    /\ status[r] = "buying"
    /\ queue' = [queue EXCEPT ![r] = Append(Tail(@), Head(@))]
    /\ posted' = [posted EXCEPT ![r] = FALSE]
    /\ charged' = [charged EXCEPT ![r] = FALSE]
    /\ Denies(r)
    /\ UNCHANGED <<day, rows, paid, status, ended, bought, audit, product, faults, crowded,
                   claimed>>

\* No settlement in the answer, or the request raised: logged and passed over, also
\* when the answer was lost behind a payment or does not own to it.
PassedOver(r) ==
    /\ status[r] = "buying"
    /\ Denies(r)
    /\ Advance(r, bought[r])
    /\ UNCHANGED <<day, rows, paid, faults, crowded, claimed>>

\* No wallet key: the run fails at its first payment.
NoWallet(r) ==
    /\ status[r] = "buying" /\ ~charged[r] /\ ~posted[r] /\ bought[r] = {}
    /\ End(r, "failed")
    /\ UNCHANGED <<day, rows, paid, queue, buying, bought, audit, product, faults, history>>

-----------------------------------------------------------------------------
(* Free inputs, a crash. *)

\* The pulse is published, or the publish raises out of the handler.
ZeroCost(r) ==
    /\ status[r] = "composing" /\ ~ended[r]
    /\ \/ End(r, "listed")
       \/ ended' = [ended EXCEPT ![r] = TRUE] /\ UNCHANGED status
    /\ UNCHANGED <<day, rows, paid, queue, buying, bought, audit, product, faults, history>>

\* The process dies; the ledger stays.
Crash ==
    /\ Fault /\ InFlight # {}
    /\ status' = [r \in Runs |-> IF r \in InFlight THEN "cut" ELSE status[r]]
    /\ ended' = [r \in Runs |-> ended[r] \/ r \in InFlight]
    /\ posted' = [r \in Runs |-> FALSE] /\ charged' = [r \in Runs |-> FALSE]
    /\ queue' = [r \in Runs |-> <<>>]
    /\ UNCHANGED <<day, rows, paid, bought, audit, product, history>>

Next ==
    \/ NewDay \/ Crash
    \/ \E r \in Runs :
        \/ Start(r) \/ Scouted(r) \/ Charge(r) \/ AskAgain(r) \/ Settled(r)
        \/ RecordFails(r) \/ PassedOver(r) \/ NoWallet(r) \/ ZeroCost(r)

\* Discovery, upstreams and the publisher answer or time out.
Fairness == \A r \in Runs : /\ WF_vars(Scouted(r)) /\ WF_vars(ZeroCost(r))
                            /\ WF_vars(Settled(r) \/ PassedOver(r))

Spec == Init /\ [][Next]_vars
LiveSpec == Spec /\ Fairness

-----------------------------------------------------------------------------
(* Properties. *)

Payments == [run : Runs, svc : Services, day : 0 .. MaxDay, amt : Nat]

TypeOK ==
    /\ day \in 0 .. MaxDay
    /\ rows \subseteq Payments /\ claimed \subseteq Payments /\ denied \subseteq paid
    /\ \A y \in paid : /\ [run |-> y.run, svc |-> y.svc, day |-> y.day, amt |-> y.amt]
                             \in Payments
                       /\ y.post \in BOOLEAN
    /\ status \in [Runs -> {"idle", "scouting", "buying", "composing", "listed",
                            "failed", "cut"}]
    /\ ended \in [Runs -> BOOLEAN]
    /\ queue \in [Runs -> Seq(Services)]
    /\ posted \in [Runs -> BOOLEAN] /\ charged \in [Runs -> BOOLEAN]
    /\ bought \in [Runs -> SUBSET rows] /\ audit \in [Runs -> SUBSET rows]
    /\ product \in [Runs -> [cost : Nat, price : Nat]]
    /\ faults \in 0 .. MaxFaults /\ crowded \in BOOLEAN

WithinCaps ==
    /\ \A d \in 0 .. MaxDay : Total(OfDay(rows, d)) <= DailyCap
    /\ \A m \in 0 .. MonthOf(MaxDay) : Total(OfMonth(rows, m)) <= MonthlyCap

\* The spend ledger keeps within the daily and the monthly cap: the reservation of
\* the warden is enough through midnight, lost answers and crashes, as long as no
\* two runs were in flight together.
AloneWithinCaps == crowded \/ WithinCaps

\* The spend ledger and the chain agree as far as the upstreams report truly, however
\* runs overlap.  Every spend row stands for a payment its run made, unless the
\* upstream reported one it never took; and as long as no append failed and nothing
\* crashed, every payment a run made is in the ledger, but for the one it is waiting
\* on and those behind which the answer showed no settlement, be it a 404 that had
\* the service asked and paid again.  Amounts may differ: a row has the price of the
\* listing, a payment what the upstream asked.
LedgerMatchesChain ==
    /\ \A x \in rows : x \in claimed \/ \E y \in paid : y.run = x.run /\ y.svc = x.svc
    /\ faults = 0 => \A y \in paid \ denied :
          \/ \E x \in rows : x.run = y.run /\ x.svc = y.svc
          \/ charged[y.run] /\ Head(queue[y.run]) = y.svc

\* A listed product repays all its run has in the spend ledger, by the target
\* ratio and by the margin floor, each but for the rounding of half a unit.
ListedRepaysSpend ==
    \A r \in Runs : status[r] = "listed" =>
        LET cost == Total(OfRun(rows, r))
            price == product[r].price
        IN  /\ 2 * One * price >= 2 * Target * cost - One
            /\ 2 * One * (price - cost) >= 2 * Floor * price - (One - Floor)

\* A run that was started comes to its end.
RunsEnd == \A r \in Runs : status[r] = "scouting" ~> ended[r]

(* What a doc or a comment says and the code does not do; see the README. *)

\* "running daily/monthly totals derived from the spend ledger so an autonomous
\* buyer cannot drain the wallet" (policy.py): the caps hold for all the runs
\* together.  Two runs in flight are reviewed against the same totals.
LedgerWithinCaps == WithinCaps
=============================================================================

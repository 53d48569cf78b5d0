----------------------------- MODULE PaidRoute -----------------------------
(***************************************************************************)
(* The paid HTTP routes.  A request without a signature is answered 402    *)
(* with a challenge, one with a signature is checked, verified and         *)
(* settled, does its work, books the sale and delivers.  The challenge is  *)
(* built once per set of inputs and kept in memory and in Redis, so that a *)
(* facilitator that is down does not stop the sale.  The payment           *)
(* middleware has no such cache: it asks the facilitator what it supports  *)
(* when the first request reaches it, and answers 500 while that fails.    *)
(*                                                                         *)
(* The routes differ in what comes first and in what a failure of the work *)
(* becomes: city checks ("city"), the diligence pack ("pack"), the fee     *)
(* decision ("decision"), the seller demo ("demo") and the routes behind   *)
(* the payment middleware ("gated"), which settle only behind the work.  A *)
(* challenge is told apart by the price it asks; prices change with a new  *)
(* deployment.                                                             *)
(*                                                                         *)
(* No route remembers a signature.  The funds of a payment move once, but  *)
(* whether a second settle of it is refused or answered like the first is  *)
(* the facilitator's choice, and a route that is answered delivers again.  *)
(***************************************************************************)
EXTENDS Naturals, FiniteSets

CONSTANTS
    Requests, Payments,
    Routes, Kind,        \* route -> its kind
    Prices, NoPrice, NoPay, NoReq, NoRoute,
    MaxDeploys,          \* bound on restarts
    MaxFaults            \* bound on lost answers and losses of Redis

ASSUME PaidRouteAssumption ==
    /\ Kind \in [Routes -> {"city", "pack", "decision", "demo", "gated"}]
    /\ Prices \subseteq Nat /\ NoPrice \notin Prices
    /\ NoPay \notin Payments /\ NoReq \notin Requests /\ NoRoute \notin Routes
    /\ MaxDeploys \in Nat /\ MaxFaults \in Nat

VARIABLES
    price,      \* the configured price
    mem, redis, \* cached challenges: route -> price it asks
    ready,      \* the middleware of this process has heard from the facilitator
    client,     \* the process found Redis when it started
    up,         \* Redis answers
    req,        \* the requests
    signed,     \* payment -> price it authorizes
    moved,      \* chain: payment -> the request that moved its funds
    echoed,     \* requests whose settle was answered although the funds had moved
    rows,       \* revenue ledger: [req, amt]
    deploys, faults

cache == <<mem, redis, ready>>
chain == <<moved, echoed>>
outside == <<client, up, deploys>>
vars == <<price, cache, req, signed, chain, rows, outside, faults>>

InFlight == {"paying", "paid", "working", "settling"}
Ended == {"200", "402", "422", "500", "502", "503", "gone"}
Request == [pc : {"new"} \cup InFlight \cup Ended, route : Routes \cup {NoRoute},
            pay : Payments \cup {NoPay}, ask : Prices \cup {NoPrice},
            stale : BOOLEAN,    \* its challenge asks a price no longer configured
            good : BOOLEAN, lost : BOOLEAN]
New == [pc |-> "new", route |-> NoRoute, pay |-> NoPay, ask |-> NoPrice,
        stale |-> FALSE, good |-> FALSE, lost |-> FALSE]

TypeOK ==
    /\ price \in Prices
    /\ mem \in [Routes -> Prices \cup {NoPrice}]
    /\ redis \in [Routes -> Prices \cup {NoPrice}]
    /\ ready \in BOOLEAN /\ client \in BOOLEAN /\ up \in BOOLEAN
    /\ req \in [Requests -> Request]
    /\ signed \in [Payments -> Prices \cup {NoPrice}]
    /\ moved \in [Payments -> Requests \cup {NoReq}] /\ echoed \subseteq Requests
    /\ rows \subseteq [req : Requests, amt : Prices]
    /\ deploys \in 0 .. MaxDeploys /\ faults \in 0 .. MaxFaults
    /\ \A r \in Requests : req[r].pc \in InFlight =>
           /\ req[r].route \in Routes /\ req[r].pay \in Payments
           /\ req[r].ask \in Prices

Init ==
    /\ price \in Prices
    /\ mem = [rt \in Routes |-> NoPrice] /\ redis = [rt \in Routes |-> NoPrice]
    /\ ready = FALSE /\ client \in BOOLEAN /\ up = client
    /\ req = [r \in Requests |-> New]
    /\ signed = [p \in Payments |-> NoPrice]
    /\ moved = [p \in Payments |-> NoReq] /\ echoed = {}
    /\ rows = {} /\ deploys = 0 /\ faults = 0

Fault == faults < MaxFaults /\ faults' = faults + 1

-----------------------------------------------------------------------------
(* The challenge. *)

\* Mutant: only the running process is asked.
Loaded_MemoryOnly(rt) == mem[rt]

\* The cached challenge: from memory, else from Redis, which may fail.
Loaded(rt) == IF mem[rt] # NoPrice THEN mem[rt]
              ELSE IF client /\ up THEN redis[rt] ELSE NoPrice

\* The middleware has its options from the configuration; it answers none of its
\* routes before initialize() has succeeded in this process.
GatedChallenge(ask) ==
    /\ \/ ask = price /\ ready' = TRUE
       \/ ~ready /\ ask = NoPrice /\ UNCHANGED ready
    /\ UNCHANGED <<mem, redis>>

\* get_or_build: a cached challenge of the same inputs is served; else one is built
\* and stored, the write to Redis at best; a build that fails falls back on any
\* cached challenge, and without one there is none (NoPrice).
CachedChallenge(rt, ask) ==
    /\ \/ /\ Loaded(rt) = price /\ ask = price
          /\ UNCHANGED redis
       \/ /\ Loaded(rt) # price /\ ask = price
          /\ redis' = IF client /\ up THEN [redis EXCEPT ![rt] = price] ELSE redis
       \/ /\ Loaded(rt) # price /\ ask = Loaded(rt)
          /\ UNCHANGED redis
    /\ mem' = [mem EXCEPT ![rt] = ask]
    /\ UNCHANGED ready

Challenge(rt, ask) == IF Kind[rt] = "gated" THEN GatedChallenge(ask)
                                            ELSE CachedChallenge(rt, ask)

\* The answer for want of a challenge.
Without(rt) == IF Kind[rt] = "gated" THEN "500" ELSE "503"

Set(r, changes) == req' = [req EXCEPT ![r] = changes]
To(r, pc) == Set(r, [req[r] EXCEPT !.pc = pc])

\* A request without a signature: only the fee decision looks at its input before
\* the challenge.
Ask(r, rt) ==
    /\ req[r].pc = "new"
    /\ \/ \E ask \in Prices \cup {NoPrice} :
            /\ Challenge(rt, ask)
            /\ Set(r, [New EXCEPT !.pc = IF ask = NoPrice THEN Without(rt) ELSE "402",
                                  !.route = rt, !.ask = ask])
       \/ /\ Kind[rt] = "decision"
          /\ Set(r, [New EXCEPT !.pc = "422", !.route = rt])
          /\ UNCHANGED cache
    /\ UNCHANGED <<price, signed, chain, rows, outside, faults>>

\* The buyer signs the challenge of a 402.
Sign(p, r) ==
    /\ signed[p] = NoPrice /\ req[r].pc = "402" /\ req[r].ask # NoPrice
    /\ signed' = [signed EXCEPT ![p] = req[r].ask]
    /\ UNCHANGED <<price, cache, req, chain, rows, outside, faults>>

-----------------------------------------------------------------------------
(* A request with a signature. *)

\* Mutant: the input is looked at when the work begins.
Pay_ValidatesLater(r, rt, p, good) ==
    /\ req[r].pc = "new" /\ signed[p] # NoPrice
    /\ \E ask \in Prices \cup {NoPrice} :
        /\ Challenge(rt, ask)
        /\ Set(r, [New EXCEPT !.pc = IF ask = NoPrice THEN Without(rt) ELSE "paying",
                              !.stale = ask # price,
                              !.route = rt, !.pay = p, !.ask = ask, !.good = good])
    /\ UNCHANGED <<price, signed, chain, rows, outside, faults>>

\* The fee decision looks at its input first, the city checks and the pack behind
\* the challenge, all before the facilitator is called; the middleware leaves it to
\* the handler, and the demo has no input.
Pay(r, rt, p, good) ==
    /\ req[r].pc = "new" /\ signed[p] # NoPrice
    /\ Kind[rt] = "demo" => good
    /\ LET asked == [New EXCEPT !.route = rt, !.pay = p, !.good = good]
       IN  \/ /\ Kind[rt] = "decision" /\ ~good
              /\ Set(r, [asked EXCEPT !.pc = "422"])
              /\ UNCHANGED cache
           \/ /\ Kind[rt] = "decision" => good
              /\ \E ask \in Prices \cup {NoPrice} :
                  /\ Challenge(rt, ask)
                  /\ Set(r, [asked EXCEPT !.ask = ask, !.stale = ask # price,
                             !.pc = IF ask = NoPrice THEN Without(rt)
                                    ELSE IF Kind[rt] \in {"city", "pack"} /\ ~good THEN "422"
                                    ELSE "paying"])
    /\ UNCHANGED <<price, signed, chain, rows, outside, faults>>

\* The facilitator accepts a payment of the price the challenge asks.
Acceptable(r) == signed[req[r].pay] = req[r].ask

\* External: it moves the funds of a payment once, and answers a settle of a payment
\* whose funds have moved with a refusal or with the transaction it has.
Settles(r) ==
    /\ Acceptable(r)
    /\ LET p == req[r].pay
       IN  \/ /\ moved[p] = NoReq
              /\ moved' = [moved EXCEPT ![p] = r]
              /\ UNCHANGED echoed
           \/ /\ moved[p] # NoReq
              /\ echoed' = echoed \cup {r}
              /\ UNCHANGED moved

\* Mutant: a verified payment is as good as a settled one.
VerifyAndSettle_ValidOnly(r) ==
    /\ req[r].pc = "paying" /\ Kind[req[r].route] # "gated"
    /\ \/ To(r, "402") /\ UNCHANGED <<chain, faults>>
       \/ Settles(r) /\ To(r, "paid") /\ UNCHANGED faults
       \/ Acceptable(r) /\ To(r, "paid") /\ UNCHANGED <<chain, faults>>
    /\ UNCHANGED <<price, cache, signed, rows, outside>>

\* verify and settle, any failure of which is a 402 with the challenge again; the
\* answer of a settle that moved the funds may be lost.
VerifyAndSettle(r) ==
    /\ req[r].pc = "paying" /\ Kind[req[r].route] # "gated"
    /\ \/ To(r, "402") /\ UNCHANGED <<chain, faults>>
       \/ Settles(r) /\ To(r, "paid") /\ UNCHANGED faults
       \/ /\ Settles(r) /\ Fault
          /\ Set(r, [req[r] EXCEPT !.pc = "402", !.lost = TRUE])
    /\ UNCHANGED <<price, cache, signed, rows, outside>>

\* record_revenue: the append goes to the store found at start-up; one that fails is
\* swallowed, the buyer has the delivery all the same.
Book(r, amt) ==
    rows' = IF client /\ ~up THEN rows ELSE rows \cup {[req |-> r, amt |-> amt]}

\* Mutant: the sale is delivered and not booked.
Work_NoRow(r) ==
    /\ req[r].pc = "paid"
    /\ \/ To(r, "200") /\ UNCHANGED rows
       \/ To(r, "502") /\ UNCHANGED rows
    /\ UNCHANGED <<price, cache, signed, chain, outside, faults>>

\* Mutant: a failure of the work is answered like a failed payment.
Work_Rechallenges(r) ==
    /\ req[r].pc = "paid"
    /\ \/ Book(r, price) /\ To(r, "200")
       \/ To(r, "402") /\ UNCHANGED rows
    /\ UNCHANGED <<price, cache, signed, chain, outside, faults>>

\* A city check answers a work that raises with 502 and the receipt.
CityWork(r) == /\ Kind[req[r].route] = "city"
               /\ \/ Book(r, price) /\ To(r, "200")
                  \/ To(r, "502") /\ UNCHANGED rows

\* The fee decision has nothing that catches one.
DecisionWork(r) == /\ Kind[req[r].route] = "decision"
                   /\ \/ Book(r, price) /\ To(r, "200")
                      \/ To(r, "500") /\ UNCHANGED rows

\* The pack turns every failed city of it into an item of what it delivers.
PackWork(r) == Kind[req[r].route] = "pack" /\ Book(r, price) /\ To(r, "200")

\* The demo has nothing to do.
DemoWork(r) == Kind[req[r].route] = "demo" /\ Book(r, price) /\ To(r, "200")

\* The work is done, the sale booked at the configured price and delivered; nothing
\* is booked when the work raises.
Work(r) ==
    /\ req[r].pc = "paid"
    /\ CityWork(r) \/ PackWork(r) \/ DecisionWork(r) \/ DemoWork(r)
    /\ UNCHANGED <<price, cache, signed, chain, outside, faults>>

-----------------------------------------------------------------------------
(* The middleware. *)

\* verify, then the handler.
GatedVerify(r) ==
    /\ req[r].pc = "paying" /\ Kind[req[r].route] = "gated"
    /\ \/ To(r, "402")
       \/ Acceptable(r) /\ To(r, "working")
    /\ UNCHANGED <<price, cache, signed, chain, rows, outside, faults>>

\* Bad input or a failure of the work: no settlement.
GatedWork(r) ==
    /\ req[r].pc = "working"
    /\ \/ req[r].good /\ \E pc \in {"settling", "500"} : To(r, pc)
       \/ ~req[r].good /\ To(r, "422")
    /\ UNCHANGED <<price, cache, signed, chain, rows, outside, faults>>

\* settle; the hook behind it books what was settled.
GatedSettle(r) ==
    /\ req[r].pc = "settling"
    /\ \/ To(r, "402") /\ UNCHANGED <<chain, rows, faults>>
       \/ Settles(r) /\ Book(r, signed[req[r].pay]) /\ To(r, "200") /\ UNCHANGED faults
       \/ /\ Settles(r) /\ Fault
          /\ Set(r, [req[r] EXCEPT !.pc = "402", !.lost = TRUE])
          /\ UNCHANGED rows
    /\ UNCHANGED <<price, cache, signed, outside>>

-----------------------------------------------------------------------------
\* The process ends and starts again, perhaps with another price.
Redeploy ==
    /\ deploys < MaxDeploys /\ deploys' = deploys + 1
    /\ price' \in Prices
    /\ mem' = [rt \in Routes |-> NoPrice] /\ ready' = FALSE
    /\ client' = up
    /\ req' = [r \in Requests |-> IF req[r].pc \in InFlight
                                  THEN [req[r] EXCEPT !.pc = "gone"] ELSE req[r]]
    /\ UNCHANGED <<redis, up, signed, chain, rows, faults>>

\* Redis goes away and comes back; a process that started without it uses files.
RedisDown == /\ up /\ Fault /\ up' = FALSE
             /\ UNCHANGED <<price, cache, client, req, signed, chain, rows, deploys>>
RedisBack == /\ ~up /\ faults > 0 /\ up' = TRUE
             /\ UNCHANGED <<price, cache, client, req, signed, chain, rows, deploys, faults>>

Next ==
    \/ \E r \in Requests :
        \/ \E rt \in Routes : \/ Ask(r, rt)
                              \/ \E p \in Payments, good \in BOOLEAN : Pay(r, rt, p, good)
        \/ \E p \in Payments : Sign(p, r)
        \/ VerifyAndSettle(r) \/ Work(r)
        \/ GatedVerify(r) \/ GatedWork(r) \/ GatedSettle(r)
    \/ Redeploy \/ RedisDown \/ RedisBack

Spec == Init /\ [][Next]_vars

-----------------------------------------------------------------------------
(* Properties. *)

\* The facilitator has told this request that its payment is settled.
Settled(r) == /\ req[r].pay \in Payments /\ moved[req[r].pay] # NoReq
              /\ moved[req[r].pay] = r \/ r \in echoed

\* Every delivery follows a settle of its own of the price it was asked: a verified
\* payment is not enough, nor one settled for another request.  Of requests with one
\* signature a second is served only if the facilitator answered its settle too.
DeliveredIsSettled ==
    \A r \in Requests : req[r].pc = "200" =>
        Settled(r) /\ signed[req[r].pay] = req[r].ask

\* "a paying caller with a bad address is rejected without being charged": on no
\* kind of route does a request with bad input move funds.
NoChargeForBadInput ==
    \A p \in Payments : moved[p] \in Requests => req[moved[p]].good

\* A settled request that ends without a row: a city check whose work raised, and the
\* fee decision likewise, and one whose process ended.
Unbooked(r) == \/ req[r].pc = "502" /\ Kind[req[r].route] = "city"
               \/ req[r].pc = "500" /\ Kind[req[r].route] = "decision"
               \/ req[r].pc = "gone"

\* The ledger agrees with the chain.  A row stands for one settled request and has the
\* amount that was paid, unless the request was asked an older price while the
\* facilitator was down.  As long as no answer is lost and Redis did not go away a
\* settled request has its row, or is still at its work, or ended as Unbooked says.
RowsMatchChain ==
    /\ \A x \in rows : /\ Settled(x.req)
                       /\ x.amt = signed[req[x.req].pay] \/ req[x.req].stale
    /\ \A x, y \in rows : x.req = y.req => x = y
    /\ faults = 0 => \A r \in Requests : Settled(r) =>
           \/ \E x \in rows : x.req = r
           \/ req[r].pc = "paid" \/ Unbooked(r)

\* "Payment already settled - never re-challenge": who has paid, and whose answer the
\* server has, is not answered with the challenge, with a validation error or with
\* try again; only the fee decision answers one with 500.
SettledNotRechallenged ==
    \A r \in Requests : Settled(r) =>
        /\ req[r].pc \in {"402", "422", "503"} => req[r].lost
        /\ req[r].pc = "500" => Kind[req[r].route] = "decision"

\* A facilitator that is down does not stop the sale: once a route has handed out a
\* challenge nobody is turned away for want of one, after restarts and new prices too,
\* as long as there is Redis and it did not go away.  The routes behind the middleware
\* have this promise only until the process restarts.
OutageServesLastKnown ==
    [][\A r \in Requests : req[r].pc = "new" /\ req'[r].pc \in {"500", "503"} =>
          LET rt == req'[r].route
          IN  \/ IF Kind[rt] = "gated" THEN deploys > 0 ELSE faults > 0 \/ ~client
              \/ \A q \in Requests : req[q].route = rt => req[q].ask = NoPrice]_vars
=============================================================================

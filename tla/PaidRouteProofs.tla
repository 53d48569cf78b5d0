-------------------------- MODULE PaidRouteProofs --------------------------
(***************************************************************************)
(* Proofs about PaidRoute for any requests, payments, routes, prices,      *)
(* deployments and faults.  The strengthening says where a settled payment *)
(* can be: its request has that payment and good input, and is behind the  *)
(* settlement, gone, or a 402 whose answer was lost.                       *)
(***************************************************************************)
EXTENDS PaidRoute, TLAPS

USE PaidRouteAssumption

\* The facilitator has answered a settle of this request.
Answered(r) == r \in echoed \/ \E p \in Payments : moved[p] = r

\* A request behind its settlement was told so, of the price it was asked.
PaidIsSettled ==
    \A r \in Requests : req[r].pc \in {"paid", "200", "502"} =>
        /\ Settled(r) /\ req[r].ask \in Prices /\ signed[req[r].pay] = req[r].ask

\* Where a request can be whose settle was answered.
Behind(r) == \/ req[r].pc \in {"paid", "200", "gone"}
             \/ req[r].pc = "502" /\ Kind[req[r].route] = "city"
             \/ req[r].pc = "500" /\ Kind[req[r].route] = "decision"
             \/ req[r].pc = "402" /\ req[r].lost

AnsweredIsBehind ==
    \A r \in Requests : Answered(r) => Settled(r) /\ req[r].good /\ Behind(r)

MovedByPayer == \A p \in Payments : moved[p] \in Requests => req[moved[p]].pay = p

\* Only good input is on its way to a settlement.
GoodBeforeSettle ==
    \A r \in Requests :
        /\ req[r].pc = "paying" /\ Kind[req[r].route] # "gated" => req[r].good
        /\ req[r].pc = "settling" => req[r].good

\* The configured price stands while a request is on its way.
AskedThePrice ==
    \A r \in Requests :
        req[r].pc \in {"paying", "paid"} => req[r].stale \/ req[r].ask = price

Money == PaidIsSettled /\ AnsweredIsBehind /\ MovedByPayer

\* A row is there for deliveries only, once, of the amount paid, and while Redis is not
\* lost for each; a lost answer is a fault.
RowsAreDeliveries ==
    /\ \A x \in rows : /\ req[x.req].pc = "200"
                       /\ x.amt = signed[req[x.req].pay] \/ req[x.req].stale
    /\ \A x, y \in rows : x.req = y.req => x = y
    /\ faults = 0 => /\ client => up
                     /\ \A r \in Requests : ~req[r].lost
                     /\ \A r \in Requests : req[r].pc = "200" => \E x \in rows : x.req = r

Strength == Money /\ GoodBeforeSettle /\ AskedThePrice /\ RowsAreDeliveries
IInv == TypeOK /\ Strength

\* The challenge a step serves is a price or none, and the caches keep their type.
LEMMA ChallengeTyped ==
    ASSUME TypeOK, NEW rt \in Routes, NEW ask \in Prices \cup {NoPrice},
           Challenge(rt, ask)
    PROVE  /\ mem' \in [Routes -> Prices \cup {NoPrice}]
           /\ redis' \in [Routes -> Prices \cup {NoPrice}]
           /\ ready' \in BOOLEAN
<1>1. CASE Kind[rt] = "gated"
  <2>1. GatedChallenge(ask)
    BY <1>1 DEF Challenge
  <2>2. ready' \in BOOLEAN
    BY <2>1, Zenon DEF GatedChallenge, TypeOK
  <2> QED BY <2>1, <2>2 DEF GatedChallenge, TypeOK
<1>2. CASE Kind[rt] # "gated"
  <2>1. CachedChallenge(rt, ask)
    BY <1>2 DEF Challenge
  <2>2. ready' \in BOOLEAN
    BY <2>1, Zenon DEF CachedChallenge, TypeOK
  <2> QED BY <2>1, <2>2 DEF CachedChallenge, TypeOK
<1> QED BY <1>1, <1>2

\* Moving a request on changes nothing else of it.
LEMMA MovedOn ==
    ASSUME NEW x \in Request, NEW pc \in {"new"} \cup InFlight \cup Ended
    PROVE  LET y == [x EXCEPT !.pc = pc]
           IN  /\ y \in Request
               /\ y.pc = pc /\ y.route = x.route /\ y.pay = x.pay /\ y.ask = x.ask
               /\ y.good = x.good /\ y.lost = x.lost /\ y.stale = x.stale
BY Zenon DEF Request

\* The requests but one stay as they are.
LEMMA SetTyped ==
    ASSUME req \in [Requests -> Request], NEW r \in Requests, NEW x \in Request,
           Set(r, x)
    PROVE  /\ req' \in [Requests -> Request]
           /\ req'[r] = x
           /\ \A q \in Requests : q # r => req'[q] = req[q]
BY DEF Set

LEMMA ToTyped ==
    ASSUME req \in [Requests -> Request], NEW r \in Requests,
           NEW pc \in {"new"} \cup InFlight \cup Ended, To(r, pc)
    PROVE  /\ req' \in [Requests -> Request]
           /\ req'[r].pc = pc /\ req'[r].route = req[r].route
           /\ req'[r].pay = req[r].pay /\ req'[r].ask = req[r].ask
           /\ req'[r].good = req[r].good /\ req'[r].lost = req[r].lost
           /\ req'[r].stale = req[r].stale
           /\ \A q \in Requests : q # r => req'[q] = req[q]
<1>1. req[r] \in Request
  OBVIOUS
<1>2. [req[r] EXCEPT !.pc = pc] \in Request
  BY <1>1, MovedOn
<1>3. /\ req' \in [Requests -> Request]
      /\ req'[r] = [req[r] EXCEPT !.pc = pc]
      /\ \A q \in Requests : q # r => req'[q] = req[q]
  BY <1>2, SetTyped DEF To
<1> QED BY <1>1, <1>3, MovedOn

\* A settlement whose answer is lost leaves the request at its challenge.
LEMMA LostTyped ==
    ASSUME req \in [Requests -> Request], NEW r \in Requests,
           Set(r, [req[r] EXCEPT !.pc = "402", !.lost = TRUE])
    PROVE  /\ req' \in [Requests -> Request]
           /\ req'[r].pc = "402" /\ req'[r].lost = TRUE
           /\ req'[r].route = req[r].route /\ req'[r].ask = req[r].ask
           /\ req'[r].pay = req[r].pay /\ req'[r].good = req[r].good
           /\ req'[r].stale = req[r].stale
           /\ \A q \in Requests : q # r => req'[q] = req[q]
<1> DEFINE y == [req[r] EXCEPT !.pc = "402", !.lost = TRUE]
<1>1. req[r] \in Request
  OBVIOUS
<1>2. /\ y \in Request /\ y.pc = "402" /\ y.lost = TRUE
      /\ y.pay = req[r].pay /\ y.good = req[r].good
      /\ y.route = req[r].route /\ y.ask = req[r].ask /\ y.stale = req[r].stale
  BY <1>1, Zenon DEF Request, Ended
<1>3. Set(r, y)
  OBVIOUS
<1> HIDE DEF y
<1>4. /\ req' \in [Requests -> Request] /\ req'[r] = y
      /\ \A q \in Requests : q # r => req'[q] = req[q]
  BY <1>2, <1>3, SetTyped
<1> QED BY <1>2, <1>4

LEMMA InitTyped == Init => TypeOK
<1> SUFFICES ASSUME Init PROVE TypeOK
  OBVIOUS
<1>1. ready \in BOOLEAN /\ client \in BOOLEAN /\ up \in BOOLEAN
  BY Zenon DEF Init
<1> QED BY <1>1 DEF Init, TypeOK, New, Request, InFlight, Ended

\* Every step keeps the types.
LEMMA NextTyped == TypeOK /\ [Next]_vars => TypeOK'
<1> SUFFICES ASSUME TypeOK, [Next]_vars PROVE TypeOK'
  OBVIOUS
<1> USE DEF InFlight, Ended
<1>1. ASSUME NEW r \in Requests, NEW rt \in Routes, Ask(r, rt) PROVE TypeOK'
  <2>1. CASE \E ask \in Prices \cup {NoPrice} :
              /\ Challenge(rt, ask)
              /\ Set(r, [New EXCEPT !.pc = IF ask = NoPrice THEN Without(rt) ELSE "402",
                                    !.route = rt, !.ask = ask])
    <3>1. PICK ask \in Prices \cup {NoPrice} :
              /\ Challenge(rt, ask)
              /\ Set(r, [New EXCEPT !.pc = IF ask = NoPrice THEN Without(rt) ELSE "402",
                                    !.route = rt, !.ask = ask])
      BY <2>1
    <3>2. req' \in [Requests -> Request]
      BY <3>1 DEF Set, New, Request, TypeOK, Without
    <3>3. \A q \in Requests : req'[q] = req[q] \/ req'[q].pc \in {"402", "500", "503"}
      BY <3>1 DEF Set, New, TypeOK, Without
    <3> QED BY <1>1, <3>1, <3>2, <3>3, ChallengeTyped DEF Ask, TypeOK, outside, chain
  <2>2. CASE /\ Set(r, [New EXCEPT !.pc = "422", !.route = rt])
             /\ UNCHANGED cache
    <3>2. req' \in [Requests -> Request]
      BY <2>2 DEF Set, New, Request, TypeOK, Without
    <3>3. \A q \in Requests : req'[q] = req[q] \/ req'[q].pc = "422"
      BY <2>2 DEF Set, New, TypeOK, Without
    <3> QED BY <1>1, <2>2, <3>2, <3>3 DEF Ask, TypeOK, outside, cache, chain
  <2> QED BY <1>1, <2>1, <2>2 DEF Ask
<1>2. ASSUME NEW p \in Payments, NEW r \in Requests, Sign(p, r) PROVE TypeOK'
  BY <1>2 DEF Sign, TypeOK, Request, cache, chain, outside
<1>3. ASSUME NEW r \in Requests, NEW rt \in Routes, NEW p \in Payments,
             NEW good \in BOOLEAN, Pay(r, rt, p, good)
      PROVE  TypeOK'
  <2> DEFINE asked == [New EXCEPT !.route = rt, !.pay = p, !.good = good]
  <2>1. CASE Set(r, [asked EXCEPT !.pc = "422"]) /\ UNCHANGED cache
    <3>2. req' \in [Requests -> Request]
      BY <2>1 DEF Set, New, Request, TypeOK, Without
    <3>3. \A q \in Requests : req'[q] = req[q] \/ req'[q].pc = "422"
      BY <2>1 DEF Set, New, TypeOK, Without
    <3> QED BY <1>3, <2>1, <3>2, <3>3 DEF Pay, TypeOK, outside, cache, chain
  <2>2. ASSUME NEW ask \in Prices \cup {NoPrice}, Challenge(rt, ask),
               Set(r, [asked EXCEPT !.ask = ask, !.stale = ask # price,
                       !.pc = IF ask = NoPrice THEN Without(rt)
                              ELSE IF Kind[rt] \in {"city", "pack"} /\ ~good THEN "422"
                              ELSE "paying"])
        PROVE  TypeOK'
    <3>2. req' \in [Requests -> Request]
      BY <2>2 DEF Set, New, Request, TypeOK, Without
    <3>3. \A q \in Requests : \/ req'[q] = req[q]
                              \/ req'[q].pc \in {"500", "503", "422"}
                              \/ /\ req'[q].route \in Routes /\ req'[q].pay \in Payments
                                 /\ req'[q].ask \in Prices
      BY <2>2 DEF Set, New, TypeOK, Without
    <3> QED BY <1>3, <2>2, <3>2, <3>3, ChallengeTyped DEF Pay, TypeOK, outside, chain
  <2> QED BY <1>3, <2>1, <2>2 DEF Pay
<1>4. ASSUME NEW r \in Requests, VerifyAndSettle(r) PROVE TypeOK'
  <2>1. req[r].pay \in Payments /\ req[r] \in Request
    BY <1>4 DEF VerifyAndSettle, TypeOK
  <2>2. moved' \in [Payments -> Requests \cup {NoReq}] /\ echoed' \subseteq Requests
    BY <1>4, <2>1 DEF VerifyAndSettle, Settles, chain, TypeOK
  <2>4. faults' \in 0 .. MaxFaults
    BY <1>4 DEF VerifyAndSettle, Fault, TypeOK
  <2>3. /\ req' \in [Requests -> Request]
        /\ \A q \in Requests : \/ req'[q] = req[q] \/ req'[q].pc = "402"
                               \/ /\ req'[q].route = req[q].route /\ req'[q].pay = req[q].pay
                                  /\ req'[q].ask = req[q].ask /\ req[q].pc = "paying"
    <3>1. CASE To(r, "402")
      BY <3>1, ToTyped DEF TypeOK
    <3>2. CASE To(r, "paid")
      BY <1>4, <3>2, ToTyped DEF TypeOK, VerifyAndSettle
    <3>3. CASE Set(r, [req[r] EXCEPT !.pc = "402", !.lost = TRUE])
      BY <3>3, LostTyped DEF TypeOK
    <3> QED BY <1>4, <3>1, <3>2, <3>3 DEF VerifyAndSettle
  <2> QED BY <1>4, <2>2, <2>3, <2>4 DEF VerifyAndSettle, TypeOK, cache, chain, outside
<1>5. ASSUME NEW r \in Requests, Work(r) PROVE TypeOK'
  <2>1. req' \in [Requests -> Request]
    <3>1. PICK pc \in {"200", "502", "500"} : To(r, pc)
      BY <1>5 DEF Work, CityWork, PackWork, DecisionWork, DemoWork
    <3> QED BY <3>1, ToTyped DEF TypeOK
  <2>2. \A q \in Requests : req'[q] = req[q] \/ req'[q].pc \in {"200", "502", "500"}
    BY <1>5 DEF Work, CityWork, PackWork, DecisionWork, DemoWork, To, Set, TypeOK, Request
  <2>3. rows' \subseteq [req : Requests, amt : Prices]
    BY <1>5 DEF Work, CityWork, PackWork, DecisionWork, DemoWork, Book, TypeOK
  <2> QED BY <1>5, <2>1, <2>2, <2>3 DEF Work, CityWork, PackWork, DecisionWork, DemoWork,
    TypeOK, cache, chain, outside
<1>6. ASSUME NEW r \in Requests, GatedVerify(r) PROVE TypeOK'
  <2>1. req' \in [Requests -> Request]
    BY <1>6 DEF GatedVerify, To, Set, TypeOK, Request
  <2>2. \A q \in Requests : \/ req'[q] = req[q] \/ req'[q].pc = "402"
                            \/ /\ req'[q].route = req[q].route /\ req'[q].pay = req[q].pay
                               /\ req'[q].ask = req[q].ask /\ req[q].pc = "paying"
    BY <1>6 DEF GatedVerify, To, Set, TypeOK, Request
  <2> QED BY <1>6, <2>1, <2>2 DEF GatedVerify, TypeOK, cache, chain, outside
<1>7. ASSUME NEW r \in Requests, GatedWork(r) PROVE TypeOK'
  <2>1. req' \in [Requests -> Request]
    <3>1. PICK pc \in {"settling", "500", "422"} : To(r, pc)
      BY <1>7 DEF GatedWork
    <3> QED BY <3>1, ToTyped DEF TypeOK
  <2>2. \A q \in Requests : \/ req'[q] = req[q] \/ req'[q].pc \in {"422", "500"}
                            \/ /\ req'[q].route = req[q].route /\ req'[q].pay = req[q].pay
                               /\ req'[q].ask = req[q].ask /\ req[q].pc = "working"
    BY <1>7 DEF GatedWork, To, Set, TypeOK, Request
  <2> QED BY <1>7, <2>1, <2>2 DEF GatedWork, TypeOK, cache, chain, outside
<1>8. ASSUME NEW r \in Requests, GatedSettle(r) PROVE TypeOK'
  <2>1. req[r].pay \in Payments /\ req[r].ask \in Prices /\ req[r] \in Request
    BY <1>8 DEF GatedSettle, TypeOK
  <2>2. moved' \in [Payments -> Requests \cup {NoReq}] /\ echoed' \subseteq Requests
    BY <1>8, <2>1 DEF GatedSettle, Settles, chain, TypeOK
  <2>4. faults' \in 0 .. MaxFaults
    BY <1>8 DEF GatedSettle, Fault, TypeOK
  <2>3. /\ req' \in [Requests -> Request]
        /\ \A q \in Requests : req'[q] = req[q] \/ req'[q].pc \in {"402", "200"}
    <3>1. CASE To(r, "402")
      BY <3>1, ToTyped DEF TypeOK
    <3>2. CASE To(r, "200")
      BY <3>2, ToTyped DEF TypeOK
    <3>3. CASE Set(r, [req[r] EXCEPT !.pc = "402", !.lost = TRUE])
      BY <3>3, LostTyped DEF TypeOK
    <3> QED BY <1>8, <3>1, <3>2, <3>3 DEF GatedSettle
  <2>5. rows' \subseteq [req : Requests, amt : Prices]
    BY <1>8, <2>1 DEF GatedSettle, Settles, Acceptable, Book, TypeOK
  <2> QED BY <1>8, <2>2, <2>3, <2>4, <2>5 DEF GatedSettle, TypeOK, cache, chain, outside
<1>9. ASSUME Redeploy PROVE TypeOK'
  <2>1. req' \in [Requests -> Request]
    BY <1>9 DEF Redeploy, TypeOK, Request
  <2>2. \A q \in Requests : req'[q].pc \notin InFlight
    BY <1>9 DEF Redeploy, TypeOK, Request
  <2>3. client' \in BOOLEAN
    BY <1>9, Zenon DEF Redeploy, TypeOK
  <2>4. /\ price' \in Prices /\ mem' \in [Routes -> Prices \cup {NoPrice}]
        /\ deploys' \in 0 .. MaxDeploys
    BY <1>9 DEF Redeploy, TypeOK
  <2> QED BY <1>9, <2>1, <2>2, <2>3, <2>4 DEF Redeploy, TypeOK, chain
<1>10. CASE RedisDown
  <2>1. up' \in BOOLEAN /\ client' \in BOOLEAN
    BY <1>10, Zenon DEF RedisDown, TypeOK
  <2>2. faults' \in 0 .. MaxFaults
    BY <1>10 DEF RedisDown, Fault, TypeOK
  <2> QED BY <1>10, <2>1, <2>2 DEF RedisDown, TypeOK, cache, chain
<1>11. CASE RedisBack
  <2>1. up' \in BOOLEAN /\ client' \in BOOLEAN
    BY <1>11, Zenon DEF RedisBack, TypeOK
  <2> QED BY <1>11, <2>1 DEF RedisBack, TypeOK, cache, chain
<1>12. CASE UNCHANGED vars
  BY <1>12 DEF vars, cache, chain, outside, TypeOK
<1>13. CASE Next
  BY <1>1, <1>2, <1>3, <1>4, <1>5, <1>6, <1>7, <1>8, <1>9, <1>10, <1>11, <1>13 DEF Next
<1> QED BY <1>12, <1>13

\* Requests, caches, chain and ledger keep their types on every kind of route,
\* through restarts and losses of Redis; a request in flight has a payment and a
\* challenge.
THEOREM RouteTypeCorrect == Spec => []TypeOK
BY InitTyped, NextTyped, PTL DEF Spec

-----------------------------------------------------------------------------
(* The strengthening is inductive. *)

LEMMA InitStrong == Init => IInv
<1> SUFFICES ASSUME Init PROVE IInv
  OBVIOUS
<1>1. TypeOK
  BY InitTyped
<1>2. \A r \in Requests : req[r].pc = "new" /\ req[r].lost = FALSE
  BY DEF Init, New
<1>3. \A r \in Requests : ~Answered(r)
  BY DEF Init, Answered
<1>4. rows = {} /\ (client => up)
  BY Zenon DEF Init
<1>5. Money
  BY <1>2, <1>3 DEF Init, Money, PaidIsSettled, AnsweredIsBehind, MovedByPayer
<1>6. GoodBeforeSettle /\ AskedThePrice
  BY <1>2 DEF GoodBeforeSettle, AskedThePrice
<1>7. RowsAreDeliveries
  BY <1>2, <1>4 DEF RowsAreDeliveries
<1> QED BY <1>1, <1>5, <1>6, <1>7 DEF IInv, Strength

\* A request whose settle has not been answered: neither one that arrives nor one that
\* is on its way there.
LEMMA NotYetAnswered ==
    ASSUME IInv, NEW r \in Requests,
           req[r].pc \in {"new", "paying", "working", "settling"}
    PROVE  ~Answered(r) /\ ~Settled(r)
<1>1. ~Answered(r)
  BY DEF IInv, Strength, Money, AnsweredIsBehind, Behind
<1> QED BY <1>1 DEF Settled, Answered

\* Who was told of a settlement was answered, and the other way round.
LEMMA SettledIsAnswered ==
    ASSUME IInv, NEW r \in Requests
    PROVE  Settled(r) <=> Answered(r)
BY DEF IInv, Strength, Money, AnsweredIsBehind, Settled, Answered

\* What becomes of Money when one request changes and the chain does not.
LEMMA MoneyStands ==
    ASSUME IInv, NEW r \in Requests,
           \A q \in Requests : q # r => req'[q] = req[q],
           UNCHANGED <<moved, echoed, signed>>,
           req'[r].pc \in {"paid", "200", "502"} =>
               /\ req[r].pc = "paid"
               /\ req'[r].pay = req[r].pay /\ req'[r].ask = req[r].ask,
           Answered(r) => /\ req'[r].pay = req[r].pay /\ req'[r].good = req[r].good
                          /\ Behind(r)'
    PROVE  Money'
<1>1. \A q \in Requests : Answered(q)' <=> Answered(q)
  BY DEF Answered
<1>2. \A q \in Requests : q # r => (Settled(q)' <=> Settled(q)) /\ (Behind(q)' <=> Behind(q))
  BY DEF Settled, Behind
<1>3. req'[r].pay = req[r].pay => (Settled(r)' <=> Settled(r))
  BY DEF Settled
<1>4. PaidIsSettled'
  BY <1>2, <1>3 DEF IInv, Strength, Money, PaidIsSettled
<1>5. AnsweredIsBehind'
  BY <1>1, <1>2, <1>3 DEF IInv, Strength, Money, AnsweredIsBehind
<1>6. MovedByPayer'
  <2> SUFFICES ASSUME NEW p \in Payments, moved[p] \in Requests PROVE req'[moved[p]].pay = p
    BY DEF MovedByPayer
  <2>1. req[moved[p]].pay = p /\ Answered(moved[p])
    BY DEF IInv, Strength, Money, MovedByPayer, Answered
  <2> QED BY <2>1
<1> QED BY <1>4, <1>5, <1>6 DEF Money

\* Without a delivery the ledger stands; a fault ends what it promises of all deliveries.
LEMMA RowsStand ==
    ASSUME IInv, NEW r \in Requests, req[r].pc # "200", req'[r].pc # "200",
           \A q \in Requests : q # r => req'[q] = req[q],
           UNCHANGED <<rows, signed, client, up>>,
           \/ faults' = faults /\ (req'[r].lost => req[r].lost)
           \/ faults' # 0
    PROVE  RowsAreDeliveries'
<1>1. \A x \in rows : x.req \in Requests /\ x.req # r
  BY DEF IInv, Strength, RowsAreDeliveries, TypeOK
<1>2. \A x \in rows : /\ req'[x.req].pc = "200"
                      /\ x.amt = signed[req'[x.req].pay] \/ req'[x.req].stale
  BY <1>1 DEF IInv, Strength, RowsAreDeliveries
<1>3. faults' = 0 => /\ client => up
                     /\ \A q \in Requests : ~req'[q].lost
                     /\ \A q \in Requests : req'[q].pc = "200" => \E x \in rows : x.req = q
  BY DEF IInv, Strength, RowsAreDeliveries
<1> QED BY <1>2, <1>3 DEF IInv, Strength, RowsAreDeliveries

\* A request that arrives has moved nothing.
LEMMA Arrives ==
    ASSUME IInv, NEW r \in Requests, req[r].pc = "new",
           req'[r].pc \in {"402", "422", "500", "503", "paying"}, req'[r].lost = FALSE,
           req'[r].pc = "paying" /\ Kind[req'[r].route] # "gated" => req'[r].good,
           req'[r].pc = "paying" => req'[r].stale \/ req'[r].ask = price,
           \A q \in Requests : q # r => req'[q] = req[q],
           UNCHANGED <<price, moved, echoed, signed, rows, client, up, faults>>
    PROVE  Strength'
<1>1. Money'
  BY NotYetAnswered, MoneyStands
<1>2. GoodBeforeSettle'
  BY DEF IInv, Strength, GoodBeforeSettle
<1>3. AskedThePrice'
  BY DEF IInv, Strength, AskedThePrice
<1>4. RowsAreDeliveries'
  BY RowsStand
<1> QED BY <1>1, <1>2, <1>3, <1>4 DEF Strength

\* A request keeps everything but its state, and the others keep that too.
Keeps(r) == /\ req'[r].route = req[r].route /\ req'[r].pay = req[r].pay
            /\ req'[r].ask = req[r].ask /\ req'[r].good = req[r].good
            /\ req'[r].stale = req[r].stale
            /\ \A q \in Requests : q # r => req'[q] = req[q]

\* A request that goes on without a settlement or a row.
LEMMA GoesOn ==
    ASSUME IInv, NEW r \in Requests, req[r].pc \in InFlight,
           req'[r].pc \in {"402", "422", "500", "502", "working", "settling"},
           req[r].pc = "paid" =>
               \/ req'[r].pc = "502" /\ Kind[req[r].route] = "city"
               \/ req'[r].pc = "500" /\ Kind[req[r].route] = "decision",
           req'[r].pc = "502" => req[r].pc = "paid",
           req'[r].pc = "settling" => req[r].good,
           Keeps(r), req'[r].lost = req[r].lost,
           UNCHANGED <<price, moved, echoed, signed, rows, client, up, faults>>
    PROVE  Strength'
<1> USE DEF InFlight
<1>1. Money'
  <2>1. Answered(r) => req[r].pc = "paid"
    BY NotYetAnswered
  <2>2. Answered(r) => Behind(r)'
    BY <2>1 DEF Keeps, Behind
  <2> QED BY <2>2, MoneyStands DEF Keeps
<1>2. GoodBeforeSettle'
  BY DEF IInv, Strength, GoodBeforeSettle, Keeps
<1>3. AskedThePrice'
  BY DEF IInv, Strength, AskedThePrice, Keeps
<1>4. RowsAreDeliveries'
  BY RowsStand DEF Keeps
<1> QED BY <1>1, <1>2, <1>3, <1>4 DEF Strength

\* A request whose settle is answered, for the first time or again.
LEMMA IsSettled ==
    ASSUME IInv, NEW r \in Requests, req[r].pc \in {"paying", "settling"}, req[r].good,
           Settles(r), Keeps(r),
           \/ req'[r].pc \in {"paid", "200"}
           \/ req'[r].pc = "402" /\ req'[r].lost = TRUE,
           UNCHANGED signed
    PROVE  Money'
<1>1. /\ req[r].pay \in Payments /\ req[r].ask \in Prices /\ NoReq \notin Requests
      /\ moved \in [Payments -> Requests \cup {NoReq}] /\ echoed \subseteq Requests
  BY DEF IInv, TypeOK, InFlight
<1>2. PICK p : p = req[r].pay /\ p \in Payments
  BY <1>1
<1>3. \/ moved[p] = NoReq /\ moved' = [moved EXCEPT ![p] = r] /\ echoed' = echoed
      \/ moved[p] # NoReq /\ echoed' = echoed \cup {r} /\ moved' = moved
  BY <1>2 DEF Settles
<1>4. /\ Settled(r)' /\ Behind(r)'
      /\ req'[r].pay = p /\ req'[r].good /\ req'[r].ask = req[r].ask
  <2>1. Settled(r)'
    BY <1>1, <1>2, <1>3 DEF Settled, Keeps
  <2> QED BY <1>2, <2>1 DEF Behind, Keeps
<1>5. signed'[p] = req[r].ask
  BY <1>2 DEF Settles, Acceptable
<1>6. ASSUME NEW q \in Requests, q # r
      PROVE  /\ Settled(q) => Settled(q)'
             /\ Answered(q)' => Answered(q)
             /\ Behind(q)' <=> Behind(q)
             /\ req'[q] = req[q]
  <2>1. req'[q] = req[q]
    BY <1>6 DEF Keeps
  <2>2. Settled(q) => Settled(q)'
    <3>1. CASE moved[p] = NoReq /\ moved' = [moved EXCEPT ![p] = r] /\ echoed' = echoed
      BY <1>1, <1>2, <2>1, <3>1 DEF Settled
    <3>2. CASE moved[p] # NoReq /\ echoed' = echoed \cup {r} /\ moved' = moved
      BY <1>1, <1>2, <2>1, <3>2 DEF Settled
    <3> QED BY <1>3, <3>1, <3>2
  <2>3. Answered(q)' => Answered(q)
    BY <1>1, <1>2, <1>3, <1>6 DEF Answered
  <2>4. Behind(q)' <=> Behind(q)
    BY <2>1 DEF Behind
  <2> QED BY <2>1, <2>2, <2>3, <2>4
<1>7. PaidIsSettled'
  BY <1>1, <1>4, <1>5, <1>6 DEF IInv, Strength, Money, PaidIsSettled
<1>8. AnsweredIsBehind'
  BY <1>4, <1>6 DEF IInv, Strength, Money, AnsweredIsBehind
<1>9. MovedByPayer'
  <2> SUFFICES ASSUME NEW x \in Payments, moved'[x] \in Requests
               PROVE  req'[moved'[x]].pay = x
    BY DEF MovedByPayer
  <2>1. CASE moved'[x] = moved[x]
    <3>1. req[moved[x]].pay = x
      BY <2>1 DEF IInv, Strength, Money, MovedByPayer
    <3>2. req'[moved[x]].pay = req[moved[x]].pay
      BY <2>1 DEF Keeps
    <3> QED BY <2>1, <3>1, <3>2
  <2>2. CASE moved'[x] # moved[x]
    BY <1>1, <1>2, <1>3, <1>4, <2>2
  <2> QED BY <2>1, <2>2
<1> QED BY <1>7, <1>8, <1>9 DEF Money

\* The delivery is booked, once, of the amount paid unless the challenge was an older
\* one, and unless Redis went away.
LEMMA BooksDelivery ==
    ASSUME IInv, NEW r \in Requests, req[r].pc # "200", req'[r].pc = "200",
           Keeps(r), req'[r].lost = req[r].lost,
           NEW amt, Book(r, amt), amt = signed[req[r].pay] \/ req[r].stale,
           UNCHANGED <<signed, client, up, faults>>
    PROVE  RowsAreDeliveries'
<1>1. \A x \in rows : /\ x.req \in Requests /\ x.req # r /\ req'[x.req].pc = "200"
                      /\ x.amt = signed'[req'[x.req].pay] \/ req'[x.req].stale
  BY DEF IInv, Strength, RowsAreDeliveries, TypeOK, Keeps
<1>2. CASE client /\ ~up
  <2>1. rows' = rows
    BY <1>2, Zenon DEF Book
  <2>2. faults = 0 => (client => up)
    BY Zenon DEF IInv, Strength, RowsAreDeliveries
  <2>3. faults' # 0
    BY <1>2, <2>2, Zenon
  <2> QED BY <1>1, <2>1, <2>3 DEF IInv, Strength, RowsAreDeliveries
<1>3. CASE ~(client /\ ~up)
  <2> DEFINE row == [req |-> r, amt |-> amt]
  <2>1. rows' = rows \cup {row} /\ (client => up)
    BY <1>3, Zenon DEF Book
  <2>2. row.req = r /\ row.amt = amt
    OBVIOUS
  <2> HIDE DEF row
  <2>3. \A x \in rows' : /\ req'[x.req].pc = "200"
                         /\ x.amt = signed'[req'[x.req].pay] \/ req'[x.req].stale
    BY <1>1, <2>1, <2>2 DEF Keeps
  <2>4. \A x, y \in rows' : x.req = y.req => x = y
    BY <1>1, <2>1, <2>2 DEF IInv, Strength, RowsAreDeliveries
  <2>5. faults = 0 => \A q \in Requests : req'[q].pc = "200" => \E x \in rows' : x.req = q
    <3> SUFFICES ASSUME faults = 0, NEW q \in Requests, req'[q].pc = "200"
                 PROVE  \E x \in rows' : x.req = q
      OBVIOUS
    <3>1. CASE q = r
      BY <2>1, <2>2, <3>1
    <3>2. CASE q # r
      <4>1. \E x \in rows : x.req = q
        BY <3>2 DEF IInv, Strength, RowsAreDeliveries, Keeps
      <4> QED BY <2>1, <4>1
    <3> QED BY <3>1, <3>2
  <2>6. faults = 0 => \A q \in Requests : ~req'[q].lost
    BY DEF IInv, Strength, RowsAreDeliveries, Keeps
  <2> QED BY <2>1, <2>3, <2>4, <2>5, <2>6 DEF RowsAreDeliveries
<1> QED BY <1>2, <1>3

\* What else the strengthening says of a request that was settled or delivered.
LEMMA InputAndPriceStand ==
    ASSUME IInv, NEW r \in Requests, Keeps(r), req'[r].pc \notin {"paying", "settling"},
           req'[r].pc = "paid" => req[r].pc = "paying", UNCHANGED price
    PROVE  (GoodBeforeSettle /\ AskedThePrice)'
<1>1. GoodBeforeSettle'
  BY DEF IInv, Strength, GoodBeforeSettle, Keeps
<1>2. AskedThePrice'
  BY DEF IInv, Strength, AskedThePrice, Keeps
<1> QED BY <1>1, <1>2

LEMMA NextStrong == IInv /\ [Next]_vars => IInv'
<1> SUFFICES ASSUME IInv, [Next]_vars PROVE IInv'
  OBVIOUS
<1>0. TypeOK /\ TypeOK'
  BY NextTyped DEF IInv
<1> SUFFICES Strength'
  BY <1>0 DEF IInv
<1> USE DEF chain
<1>1. ASSUME NEW r \in Requests, NEW rt \in Routes, Ask(r, rt) PROVE Strength'
  <2>1. CASE \E ask \in Prices \cup {NoPrice} :
              Set(r, [New EXCEPT !.pc = IF ask = NoPrice THEN Without(rt) ELSE "402",
                                 !.route = rt, !.ask = ask])
    <3>1. /\ req'[r].pc \in {"402", "500", "503"} /\ req'[r].lost = FALSE
          /\ \A q \in Requests : q # r => req'[q] = req[q]
      BY <1>0, <2>1 DEF Set, New, TypeOK, Without
    <3> QED BY <1>1, <3>1, Arrives DEF Ask, outside
  <2>2. CASE Set(r, [New EXCEPT !.pc = "422", !.route = rt])
    <3>1. /\ req'[r].pc = "422" /\ req'[r].lost = FALSE
          /\ \A q \in Requests : q # r => req'[q] = req[q]
      BY <1>0, <2>2 DEF Set, New, TypeOK
    <3> QED BY <1>1, <3>1, Arrives DEF Ask, outside
  <2> QED BY <1>1, <2>1, <2>2 DEF Ask
<1>2. ASSUME NEW p \in Payments, NEW r \in Requests, Sign(p, r) PROVE Strength'
  <2>1. /\ signed[p] = NoPrice /\ \A x \in Payments : x # p => signed'[x] = signed[x]
        /\ UNCHANGED <<price, req, moved, echoed, rows, client, up, faults>>
    BY <1>0, <1>2 DEF Sign, TypeOK, outside
  <2>2. \A q \in Requests : Settled(q)' = Settled(q) /\ Answered(q)' = Answered(q)
                            /\ Behind(q)' = Behind(q)
    <3>1. moved' = moved /\ echoed' = echoed /\ req' = req
      BY <2>1
    <3> QED BY <3>1, Zenon DEF Settled, Answered, Behind
  <2>3. \A q \in Requests : req[q].pc \in {"paid", "200", "502"} =>
            req[q].pay \in Payments /\ req[q].pay # p
    BY <1>0, <2>1 DEF IInv, Strength, Money, PaidIsSettled, Settled
  <2>4. Money'
    BY <2>1, <2>2, <2>3 DEF IInv, Strength, Money, PaidIsSettled, AnsweredIsBehind,
      MovedByPayer
  <2>5. GoodBeforeSettle' /\ AskedThePrice'
    BY <2>1 DEF IInv, Strength, GoodBeforeSettle, AskedThePrice
  <2>6. \A x \in rows : x.req \in Requests
    BY <1>0 DEF TypeOK
  <2>7. RowsAreDeliveries'
    BY <2>1, <2>3, <2>6 DEF IInv, Strength, RowsAreDeliveries
  <2> QED BY <2>4, <2>5, <2>7 DEF Strength
<1>3. ASSUME NEW r \in Requests, NEW rt \in Routes, NEW p \in Payments,
             NEW good \in BOOLEAN, Pay(r, rt, p, good)
      PROVE  Strength'
  <2> DEFINE asked == [New EXCEPT !.route = rt, !.pay = p, !.good = good]
  <2>1. CASE Set(r, [asked EXCEPT !.pc = "422"])
    <3>1. /\ req'[r].pc = "422" /\ req'[r].lost = FALSE
          /\ \A q \in Requests : q # r => req'[q] = req[q]
      BY <1>0, <2>1 DEF Set, New, TypeOK
    <3> QED BY <1>3, <3>1, Arrives DEF Pay, outside
  <2>2. ASSUME NEW ask \in Prices \cup {NoPrice},
               Kind[rt] = "decision" => good, Kind[rt] = "demo" => good,
               Set(r, [asked EXCEPT !.ask = ask, !.stale = ask # price,
                       !.pc = IF ask = NoPrice THEN Without(rt)
                              ELSE IF Kind[rt] \in {"city", "pack"} /\ ~good THEN "422"
                              ELSE "paying"])
        PROVE  Strength'
    <3>1. /\ req'[r].pc \in {"402", "422", "500", "503", "paying"}
          /\ req'[r].route = rt /\ req'[r].lost = FALSE
          /\ \A q \in Requests : q # r => req'[q] = req[q]
      BY <1>0, <2>2 DEF Set, New, TypeOK, Without
    <3>2. req'[r].pc = "paying" /\ Kind[rt] # "gated" => good
      BY <1>0, <2>2 DEF Set, New, TypeOK, Without
    <3>3. req'[r].good = good /\ req'[r].ask = ask /\ req'[r].stale = (ask # price)
      BY <1>0, <2>2 DEF Set, New, TypeOK
    <3>4. req'[r].stale \/ req'[r].ask = price
      BY <3>3
    <3> QED BY <1>3, <3>1, <3>2, <3>3, <3>4, Arrives DEF Pay, outside
  <2> QED BY <1>3, <2>1, <2>2 DEF Pay
<1>4. ASSUME NEW r \in Requests, VerifyAndSettle(r) PROVE Strength'
  <2>1. req[r].pc = "paying" /\ req[r].good
    BY <1>4 DEF VerifyAndSettle, IInv, Strength, GoodBeforeSettle
  <2>2. CASE To(r, "402") /\ UNCHANGED <<chain, faults>>
    <3>1. Keeps(r) /\ req'[r].pc = "402" /\ req'[r].lost = req[r].lost
      BY <1>0, <2>2, ToTyped DEF TypeOK, Ended, InFlight, Keeps
    <3> QED BY <1>4, <2>1, <2>2, <3>1, GoesOn DEF VerifyAndSettle, outside, InFlight
  <2>3. CASE Settles(r) /\ To(r, "paid") /\ UNCHANGED faults
    <3>1. Keeps(r) /\ req'[r].pc = "paid" /\ req'[r].lost = req[r].lost
      BY <1>0, <2>3, ToTyped DEF TypeOK, Ended, InFlight, Keeps
    <3>2. Money'
      BY <1>4, <2>1, <2>3, <3>1, IsSettled DEF VerifyAndSettle
    <3>3. (GoodBeforeSettle /\ AskedThePrice)'
      BY <1>4, <2>1, <3>1, InputAndPriceStand DEF VerifyAndSettle
    <3>4. RowsAreDeliveries'
      BY <1>4, <2>1, <2>3, <3>1, RowsStand DEF VerifyAndSettle, outside, Keeps
    <3> QED BY <3>2, <3>3, <3>4 DEF Strength
  <2>4. CASE /\ Settles(r) /\ Fault
             /\ Set(r, [req[r] EXCEPT !.pc = "402", !.lost = TRUE])
    <3>1. Keeps(r) /\ req'[r].pc = "402" /\ req'[r].lost = TRUE
      BY <1>0, <2>4, LostTyped DEF TypeOK, Keeps
    <3>2. Money'
      BY <1>4, <2>1, <2>4, <3>1, IsSettled DEF VerifyAndSettle
    <3>3. (GoodBeforeSettle /\ AskedThePrice)'
      BY <1>4, <2>1, <3>1, InputAndPriceStand DEF VerifyAndSettle
    <3>4. faults' # 0
      BY <1>0, <2>4 DEF Fault, TypeOK
    <3>5. RowsAreDeliveries'
      BY <1>4, <2>1, <3>1, <3>4, RowsStand DEF VerifyAndSettle, outside, Keeps
    <3> QED BY <3>2, <3>3, <3>5 DEF Strength
  <2> QED BY <1>4, <2>2, <2>3, <2>4 DEF VerifyAndSettle
<1>5. ASSUME NEW r \in Requests, Work(r) PROVE Strength'
  <2>0. /\ req[r].pc = "paid"
        /\ UNCHANGED <<price, moved, echoed, signed, client, up, faults>>
    BY <1>5 DEF Work, outside
  <2>1. CASE Book(r, price) /\ To(r, "200")
    <3>1. Keeps(r) /\ req'[r].pc = "200" /\ req'[r].lost = req[r].lost
      BY <1>0, <2>1, ToTyped DEF TypeOK, Ended, InFlight, Keeps
    <3>2. Money'
      BY <2>0, <3>1, MoneyStands DEF Keeps, Behind
    <3>3. (GoodBeforeSettle /\ AskedThePrice)'
      BY <2>0, <3>1, InputAndPriceStand
    <3>4. price = signed[req[r].pay] \/ req[r].stale
      BY <2>0 DEF IInv, Strength, Money, PaidIsSettled, AskedThePrice
    <3>5. RowsAreDeliveries'
      BY <2>0, <2>1, <3>1, <3>4, BooksDelivery
    <3> QED BY <3>2, <3>3, <3>5 DEF Strength
  <2>2. ASSUME To(r, "502"), UNCHANGED rows, Kind[req[r].route] = "city" PROVE Strength'
    <3>1. Keeps(r) /\ req'[r].pc = "502" /\ req'[r].lost = req[r].lost
      BY <1>0, <2>2, ToTyped DEF TypeOK, Ended, InFlight, Keeps
    <3> QED BY <2>0, <2>2, <3>1, GoesOn DEF InFlight
  <2>3. ASSUME To(r, "500"), UNCHANGED rows, Kind[req[r].route] = "decision"
        PROVE  Strength'
    <3>1. Keeps(r) /\ req'[r].pc = "500" /\ req'[r].lost = req[r].lost
      BY <1>0, <2>3, ToTyped DEF TypeOK, Ended, InFlight, Keeps
    <3> QED BY <2>0, <2>3, <3>1, GoesOn DEF InFlight
  <2> QED BY <1>5, <2>1, <2>2, <2>3 DEF Work, CityWork, PackWork, DecisionWork, DemoWork
<1>6. ASSUME NEW r \in Requests, GatedVerify(r) PROVE Strength'
  <2>1. PICK pc \in {"402", "working"} : To(r, pc)
    BY <1>6 DEF GatedVerify
  <2>2. Keeps(r) /\ req'[r].pc = pc /\ req'[r].lost = req[r].lost
    BY <1>0, <2>1, ToTyped DEF TypeOK, Ended, InFlight, Keeps
  <2> QED BY <1>6, <2>2, GoesOn DEF GatedVerify, outside, InFlight
<1>7. ASSUME NEW r \in Requests, GatedWork(r) PROVE Strength'
  <2>1. PICK pc \in {"422", "500", "settling"} :
             To(r, pc) /\ (pc = "settling" => req[r].good)
    BY <1>7 DEF GatedWork
  <2>2. Keeps(r) /\ req'[r].pc = pc /\ req'[r].lost = req[r].lost
    BY <1>0, <2>1, ToTyped DEF TypeOK, Ended, InFlight, Keeps
  <2> QED BY <1>7, <2>1, <2>2, GoesOn DEF GatedWork, outside, InFlight
<1>8. ASSUME NEW r \in Requests, GatedSettle(r) PROVE Strength'
  <2>1. req[r].pc = "settling" /\ req[r].good
    BY <1>8 DEF GatedSettle, IInv, Strength, GoodBeforeSettle
  <2>2. CASE To(r, "402") /\ UNCHANGED <<chain, rows, faults>>
    <3>1. Keeps(r) /\ req'[r].pc = "402" /\ req'[r].lost = req[r].lost
      BY <1>0, <2>2, ToTyped DEF TypeOK, Ended, InFlight, Keeps
    <3> QED BY <1>8, <2>1, <2>2, <3>1, GoesOn DEF GatedSettle, outside, InFlight
  <2>3. CASE Settles(r) /\ Book(r, signed[req[r].pay]) /\ To(r, "200") /\ UNCHANGED faults
    <3>1. Keeps(r) /\ req'[r].pc = "200" /\ req'[r].lost = req[r].lost
      BY <1>0, <2>3, ToTyped DEF TypeOK, Ended, InFlight, Keeps
    <3>2. Money'
      BY <1>8, <2>1, <2>3, <3>1, IsSettled DEF GatedSettle
    <3>3. (GoodBeforeSettle /\ AskedThePrice)'
      BY <1>8, <2>1, <3>1, InputAndPriceStand DEF GatedSettle
    <3>4. RowsAreDeliveries'
      BY <1>8, <2>1, <2>3, <3>1, BooksDelivery DEF GatedSettle, outside
    <3> QED BY <3>2, <3>3, <3>4 DEF Strength
  <2>4. CASE /\ Settles(r) /\ Fault
             /\ Set(r, [req[r] EXCEPT !.pc = "402", !.lost = TRUE])
             /\ UNCHANGED rows
    <3>1. Keeps(r) /\ req'[r].pc = "402" /\ req'[r].lost = TRUE
      BY <1>0, <2>4, LostTyped DEF TypeOK, Keeps
    <3>2. Money'
      BY <1>8, <2>1, <2>4, <3>1, IsSettled DEF GatedSettle
    <3>3. (GoodBeforeSettle /\ AskedThePrice)'
      BY <1>8, <2>1, <3>1, InputAndPriceStand DEF GatedSettle
    <3>4. faults' # 0
      BY <1>0, <2>4 DEF Fault, TypeOK
    <3>5. RowsAreDeliveries'
      BY <1>8, <2>1, <2>4, <3>1, <3>4, RowsStand DEF GatedSettle, outside, Keeps
    <3> QED BY <3>2, <3>3, <3>5 DEF Strength
  <2> QED BY <1>8, <2>2, <2>3, <2>4 DEF GatedSettle
<1>9. ASSUME Redeploy PROVE Strength'
  <2>1. \A q \in Requests : \/ req'[q] = req[q] /\ req[q].pc \notin InFlight
                            \/ /\ req[q].pc \in InFlight /\ req'[q].pc = "gone"
                               /\ req'[q].pay = req[q].pay /\ req'[q].good = req[q].good
                               /\ req'[q].lost = req[q].lost
    BY <1>0, <1>9 DEF Redeploy, TypeOK, Request
  <2>2. UNCHANGED <<moved, echoed, signed, rows, faults>> /\ (client' => up')
    BY <1>9, Zenon DEF Redeploy
  <2>3. \A q \in Requests : /\ Answered(q)' <=> Answered(q)
                            /\ Settled(q)' <=> Settled(q)
                            /\ Behind(q) => Behind(q)'
    BY <2>1, <2>2 DEF Answered, Settled, Behind
  <2>4. Money'
    BY <2>1, <2>2, <2>3
    DEF IInv, Strength, Money, PaidIsSettled, AnsweredIsBehind, MovedByPayer, InFlight
  <2>5. (GoodBeforeSettle /\ AskedThePrice)'
    BY <2>1 DEF GoodBeforeSettle, AskedThePrice, InFlight
  <2>6. \A x \in rows : x.req \in Requests
    BY <1>0 DEF TypeOK
  <2>7. RowsAreDeliveries'
    BY <2>1, <2>2, <2>6 DEF IInv, Strength, RowsAreDeliveries, InFlight
  <2> QED BY <2>4, <2>5, <2>7 DEF Strength
<1>10. ASSUME UNCHANGED <<price, req, moved, echoed, signed, rows>>,
              \/ faults' # 0
              \/ faults' = faults /\ ((client => up) => (client' => up'))
       PROVE  Strength'
  <2>0. moved' = moved /\ echoed' = echoed /\ req' = req /\ signed' = signed /\ rows' = rows
    BY <1>10
  <2>1. \A q \in Requests : Settled(q)' = Settled(q) /\ Answered(q)' = Answered(q)
                            /\ Behind(q)' = Behind(q)
    BY <2>0, Zenon DEF Settled, Answered, Behind
  <2>2. Money'
    BY <2>0, <2>1, Zenon
    DEF IInv, Strength, Money, PaidIsSettled, AnsweredIsBehind, MovedByPayer
  <2>3. (GoodBeforeSettle /\ AskedThePrice)'
    BY <1>10 DEF IInv, Strength, GoodBeforeSettle, AskedThePrice
  <2>4. RowsAreDeliveries'
    <3>1. faults' = 0 => faults = 0 /\ ((client => up) => (client' => up'))
      BY <1>10, Zenon
    <3> QED BY <2>0, <3>1, Zenon DEF IInv, Strength, RowsAreDeliveries
  <2> QED BY <2>2, <2>3, <2>4 DEF Strength
<1>11. CASE RedisDown
  <2>1. faults' # 0
    BY <1>0, <1>11 DEF RedisDown, Fault, TypeOK
  <2> QED BY <1>10, <1>11, <2>1 DEF RedisDown
<1>12. CASE RedisBack
  <2>1. faults' # 0
    BY <1>12 DEF RedisBack, TypeOK
  <2> QED BY <1>10, <1>12, <2>1 DEF RedisBack
<1>13. CASE UNCHANGED vars
  BY <1>10, <1>13 DEF vars, outside
<1>14. CASE Next
  BY <1>1, <1>2, <1>3, <1>4, <1>5, <1>6, <1>7, <1>8, <1>9, <1>11, <1>12, <1>14 DEF Next
<1> QED BY <1>13, <1>14

LEMMA Strong == Spec => []IInv
BY InitStrong, NextStrong, PTL DEF Spec

\* Nothing is delivered but behind a settle of that very request, of the price it was
\* asked, whatever the interleaving of requests that share a signature.
THEOREM DeliveredTheorem == Spec => []DeliveredIsSettled
<1>1. IInv => DeliveredIsSettled
  BY DEF IInv, Strength, Money, PaidIsSettled, DeliveredIsSettled
<1> QED BY <1>1, Strong, PTL

\* No route charges for input it rejects.
THEOREM NoChargeTheorem == Spec => []NoChargeForBadInput
<1>1. IInv => NoChargeForBadInput
  BY DEF IInv, Strength, Money, AnsweredIsBehind, Answered, NoChargeForBadInput
<1> QED BY <1>1, Strong, PTL

\* The ledger agrees with the chain, in requests and in amounts.
THEOREM RowsTheorem == Spec => []RowsMatchChain
<1>1. ASSUME IInv PROVE RowsMatchChain
  <2>1. \A x \in rows : x.req \in Requests
    BY <1>1 DEF IInv, TypeOK
  <2>2. \A x \in rows : /\ Settled(x.req)
                        /\ x.amt = signed[req[x.req].pay] \/ req[x.req].stale
    BY <1>1, <2>1 DEF IInv, Strength, Money, PaidIsSettled, RowsAreDeliveries
  <2>3. ASSUME faults = 0, NEW r \in Requests, Settled(r)
        PROVE  (\E x \in rows : x.req = r) \/ req[r].pc = "paid" \/ Unbooked(r)
    <3>1. Behind(r)
      BY <1>1, <2>3, SettledIsAnswered DEF IInv, Strength, Money, AnsweredIsBehind
    <3>2. /\ ~req[r].lost
          /\ req[r].pc = "200" => \E x \in rows : x.req = r
      BY <1>1, <2>3 DEF IInv, Strength, RowsAreDeliveries
    <3> QED BY <3>1, <3>2 DEF Behind, Unbooked
  <2> QED BY <1>1, <2>2, <2>3 DEF IInv, Strength, RowsAreDeliveries, RowsMatchChain
<1> QED BY <1>1, Strong, PTL

\* Whose payment settled, and the server knows, is not challenged again.
THEOREM NotRechallengedTheorem == Spec => []SettledNotRechallenged
<1>1. ASSUME IInv PROVE SettledNotRechallenged
  <2>1. \A r \in Requests : Settled(r) => Behind(r)
    BY <1>1, SettledIsAnswered DEF IInv, Strength, Money, AnsweredIsBehind
  <2> QED BY <2>1 DEF Behind, SettledNotRechallenged
<1> QED BY <1>1, Strong, PTL

-----------------------------------------------------------------------------
(* The challenge that was handed out stays in Redis. *)

\* As long as Redis answers it has whatever the process cached or served.
RedisHasServed ==
    faults = 0 /\ client =>
        /\ up
        /\ \A rt \in Routes : Kind[rt] # "gated" =>
              /\ mem[rt] # NoPrice => redis[rt] # NoPrice
              /\ \A q \in Requests :
                    req[q].route = rt /\ req[q].ask # NoPrice => redis[rt] # NoPrice

\* Until the process restarts a middleware that has served is ready.
GatedHasServed ==
    deploys = 0 /\ ~ready =>
        \A rt \in Routes, q \in Requests :
            Kind[rt] = "gated" /\ req[q].route = rt => req[q].ask = NoPrice

\* Without a fault the process found Redis if there is one.
RedisFound == faults = 0 /\ up => client

\* A challenge that is served is in Redis, and Redis forgets none.
LEMMA ServedIsCached ==
    ASSUME TypeOK, RedisHasServed, faults = 0, client,
           NEW rt \in Routes, NEW ask \in Prices \cup {NoPrice},
           Kind[rt] # "gated", Challenge(rt, ask)
    PROVE  /\ ask # NoPrice => redis'[rt] # NoPrice
           /\ mem'[rt] # NoPrice => redis'[rt] # NoPrice
           /\ \A x \in Routes : /\ redis[x] # NoPrice => redis'[x] # NoPrice
                                /\ x # rt => mem'[x] = mem[x]
           /\ ask = NoPrice => \A q \in Requests : req[q].route = rt => req[q].ask = NoPrice
<1>1. up /\ price # NoPrice
  BY DEF RedisHasServed, TypeOK
<1>2. Loaded(rt) = IF mem[rt] # NoPrice THEN mem[rt] ELSE redis[rt]
  BY <1>1 DEF Loaded
<1>3. Loaded(rt) # NoPrice => redis[rt] # NoPrice
  BY <1>2 DEF RedisHasServed
<1>0. mem' = [mem EXCEPT ![rt] = ask]
  BY DEF Challenge, CachedChallenge
<1>4. CASE Loaded(rt) = price /\ ask = price /\ UNCHANGED redis
  BY <1>0, <1>1, <1>3, <1>4 DEF TypeOK
<1>5. CASE /\ Loaded(rt) # price /\ ask = price
           /\ redis' = IF client /\ up THEN [redis EXCEPT ![rt] = price] ELSE redis
  BY <1>0, <1>1, <1>5 DEF TypeOK
<1>6. CASE Loaded(rt) # price /\ ask = Loaded(rt) /\ UNCHANGED redis
  BY <1>0, <1>1, <1>2, <1>3, <1>6 DEF TypeOK, RedisHasServed
<1> QED BY <1>4, <1>5, <1>6 DEF Challenge, CachedChallenge

\* A request that is served a challenge keeps RedisHasServed.
LEMMA ServesKeep ==
    ASSUME TypeOK, RedisHasServed, NEW r \in Requests,
           NEW rt \in Routes, NEW ask \in Prices \cup {NoPrice}, Challenge(rt, ask),
           req'[r].route = rt, req'[r].ask = ask,
           \A q \in Requests : q # r => req'[q] = req[q],
           UNCHANGED <<client, up, faults>>
    PROVE  RedisHasServed'
<1> SUFFICES ASSUME faults = 0, client
             PROVE  /\ up
                    /\ \A x \in Routes : Kind[x] # "gated" =>
                          /\ mem'[x] # NoPrice => redis'[x] # NoPrice
                          /\ \A q \in Requests : req'[q].route = x /\ req'[q].ask # NoPrice
                                                    => redis'[x] # NoPrice
  BY DEF RedisHasServed
<1>1. /\ up
      /\ \A x \in Routes : Kind[x] # "gated" =>
            /\ mem[x] # NoPrice => redis[x] # NoPrice
            /\ \A q \in Requests : req[q].route = x /\ req[q].ask # NoPrice
                                      => redis[x] # NoPrice
  BY Zenon DEF RedisHasServed
<1>2. CASE Kind[rt] = "gated"
  <2>1. mem' = mem /\ redis' = redis
    BY <1>2 DEF Challenge, GatedChallenge
  <2> QED BY <1>1, <1>2, <2>1
<1>3. CASE Kind[rt] # "gated"
  <2>1. /\ ask # NoPrice => redis'[rt] # NoPrice
        /\ mem'[rt] # NoPrice => redis'[rt] # NoPrice
        /\ \A x \in Routes : /\ redis[x] # NoPrice => redis'[x] # NoPrice
                             /\ x # rt => mem'[x] = mem[x]
    BY <1>3, ServedIsCached
  <2>2. ASSUME NEW x \in Routes, Kind[x] # "gated", mem'[x] # NoPrice
        PROVE  redis'[x] # NoPrice
    <3>1. CASE x = rt
      BY <2>1, <2>2, <3>1
    <3>2. CASE x # rt
      <4>1. mem[x] # NoPrice
        BY <2>1, <2>2, <3>2
      <4>2. redis[x] # NoPrice
        BY <1>1, <2>2, <4>1, Zenon
      <4> QED BY <2>1, <4>2
    <3> QED BY <3>1, <3>2
  <2>3. ASSUME NEW x \in Routes, Kind[x] # "gated", NEW q \in Requests,
               req'[q].route = x, req'[q].ask # NoPrice
        PROVE  redis'[x] # NoPrice
    <3>1. CASE q = r
      BY <2>1, <2>3, <3>1
    <3>2. CASE q # r
      <4>1. req[q].route = x /\ req[q].ask # NoPrice
        BY <2>3, <3>2
      <4>2. redis[x] # NoPrice
        BY <1>1, <2>3, <4>1, Zenon
      <4> QED BY <2>1, <4>2
    <3> QED BY <3>1, <3>2
  <2> QED BY <1>1, <2>2, <2>3
<1> QED BY <1>2, <1>3

LEMMA InitHasServed == Init => RedisHasServed
<1> SUFFICES ASSUME Init PROVE RedisHasServed
  OBVIOUS
<1>1. client => up
  BY Zenon DEF Init
<1>2. /\ \A rt \in Routes : mem[rt] = NoPrice
      /\ \A q \in Requests : req[q].ask = NoPrice
  BY DEF Init, New
<1> QED BY <1>1, <1>2 DEF RedisHasServed

\* What a step that serves a challenge or none does to the requests.
LEMMA ServesOrNot ==
    ASSUME TypeOK, NEW r \in Requests, NEW rt \in Routes,
           Ask(r, rt) \/ \E p \in Payments, good \in BOOLEAN : Pay(r, rt, p, good)
    PROVE  /\ UNCHANGED <<client, up, deploys, faults>>
           /\ \A q \in Requests : q # r => req'[q] = req[q]
           /\ req'[r].route = rt
           /\ \/ UNCHANGED cache /\ req'[r].ask = NoPrice /\ req'[r].pc = "422"
              \/ \E ask \in Prices \cup {NoPrice} :
                    /\ Challenge(rt, ask) /\ req'[r].ask = ask
                    /\ req'[r].pc \in {"500", "503"} => ask = NoPrice
<1>1. CASE Ask(r, rt)
  <2>1. UNCHANGED <<client, up, deploys, faults>>
    BY <1>1 DEF Ask, outside
  <2>2. CASE Set(r, [New EXCEPT !.pc = "422", !.route = rt]) /\ UNCHANGED cache
    BY <2>1, <2>2 DEF Set, New, TypeOK, Without
  <2>3. ASSUME NEW ask \in Prices \cup {NoPrice}, Challenge(rt, ask),
               Set(r, [New EXCEPT !.pc = IF ask = NoPrice THEN Without(rt) ELSE "402",
                                  !.route = rt, !.ask = ask])
        PROVE  /\ \A q \in Requests : q # r => req'[q] = req[q]
               /\ req'[r].route = rt /\ req'[r].ask = ask
               /\ req'[r].pc \in {"500", "503"} => ask = NoPrice
    BY <2>3 DEF Set, New, TypeOK, Without
  <2> QED BY <1>1, <2>1, <2>2, <2>3 DEF Ask
<1>2. ASSUME NEW p \in Payments, NEW good \in BOOLEAN, Pay(r, rt, p, good)
      PROVE  /\ UNCHANGED <<client, up, deploys, faults>>
             /\ \A q \in Requests : q # r => req'[q] = req[q]
             /\ req'[r].route = rt
             /\ \/ UNCHANGED cache /\ req'[r].ask = NoPrice /\ req'[r].pc = "422"
                \/ \E ask \in Prices \cup {NoPrice} :
                      /\ Challenge(rt, ask) /\ req'[r].ask = ask
                      /\ req'[r].pc \in {"500", "503"} => ask = NoPrice
  <2> DEFINE asked == [New EXCEPT !.route = rt, !.pay = p, !.good = good]
  <2>1. UNCHANGED <<client, up, deploys, faults>>
    BY <1>2 DEF Pay, outside
  <2>2. CASE Set(r, [asked EXCEPT !.pc = "422"]) /\ UNCHANGED cache
    BY <2>1, <2>2 DEF Set, New, TypeOK, Without
  <2>3. ASSUME NEW ask \in Prices \cup {NoPrice}, Challenge(rt, ask),
               Set(r, [asked EXCEPT !.ask = ask, !.stale = ask # price,
                       !.pc = IF ask = NoPrice THEN Without(rt)
                              ELSE IF Kind[rt] \in {"city", "pack"} /\ ~good THEN "422"
                              ELSE "paying"])
        PROVE  /\ \A q \in Requests : q # r => req'[q] = req[q]
               /\ req'[r].route = rt /\ req'[r].ask = ask
               /\ req'[r].pc \in {"500", "503"} => ask = NoPrice
    BY <2>3 DEF Set, New, TypeOK, Without
  <2> QED BY <1>2, <2>1, <2>2, <2>3 DEF Pay
<1> QED BY <1>1, <1>2

\* What happens behind the challenge leaves caches and Redis alone.
LEMMA BehindChallenge ==
    ASSUME TypeOK, NEW r \in Requests,
           \/ VerifyAndSettle(r) \/ Work(r)
           \/ GatedVerify(r) \/ GatedWork(r) \/ GatedSettle(r)
    PROVE  /\ UNCHANGED cache /\ UNCHANGED <<client, up, deploys>> /\ (faults' = 0 => faults = 0)
           /\ req[r].pc # "new"
           /\ \A q \in Requests : q # r => req'[q] = req[q]
           /\ \A q \in Requests : req'[q].route = req[q].route /\ req'[q].ask = req[q].ask
<1>1. UNCHANGED cache /\ UNCHANGED <<client, up, deploys>> /\ (faults' = 0 => faults = 0)
  BY DEF VerifyAndSettle, Work, CityWork, PackWork, DecisionWork, DemoWork, GatedVerify,
    GatedWork, GatedSettle, outside, Fault, TypeOK
<1>2. req[r].pc # "new"
  BY DEF VerifyAndSettle, Work, GatedVerify, GatedWork, GatedSettle
<1>3. \/ \E pc \in InFlight \cup Ended : To(r, pc)
      \/ Set(r, [req[r] EXCEPT !.pc = "402", !.lost = TRUE])
  BY DEF VerifyAndSettle, Work, CityWork, PackWork, DecisionWork, DemoWork, GatedVerify,
    GatedWork, GatedSettle, InFlight, Ended
<1>4. CASE \E pc \in InFlight \cup Ended : To(r, pc)
  BY <1>1, <1>2, <1>4, ToTyped DEF TypeOK
<1>5. CASE Set(r, [req[r] EXCEPT !.pc = "402", !.lost = TRUE])
  BY <1>1, <1>2, <1>5, LostTyped DEF TypeOK
<1> QED BY <1>3, <1>4, <1>5

LEMMA NextFound == TypeOK /\ RedisFound /\ [Next]_vars => RedisFound'
<1> SUFFICES ASSUME TypeOK, RedisFound, [Next]_vars, faults' = 0, up' PROVE client'
  BY DEF RedisFound
<1>1. CASE UNCHANGED <<client, up>> /\ faults = 0
  BY <1>1, Zenon DEF RedisFound
<1>2. ASSUME NEW r \in Requests, NEW rt \in Routes,
             Ask(r, rt) \/ \E p \in Payments, good \in BOOLEAN : Pay(r, rt, p, good)
      PROVE  client'
  BY <1>1, <1>2, ServesOrNot
<1>3. ASSUME NEW r \in Requests,
             \/ VerifyAndSettle(r) \/ Work(r)
             \/ GatedVerify(r) \/ GatedWork(r) \/ GatedSettle(r)
      PROVE  client'
  <2>1. UNCHANGED <<client, up>> /\ (faults' = 0 => faults = 0)
    BY <1>3, BehindChallenge
  <2> QED BY <1>1, <2>1
<1>4. ASSUME NEW p \in Payments, NEW r \in Requests, Sign(p, r) PROVE client'
  <2>1. UNCHANGED <<client, up>> /\ faults = 0
    BY <1>4, Zenon DEF Sign, outside
  <2> QED BY <1>1, <2>1
<1>5. ASSUME Redeploy PROVE client'
  BY <1>5, Zenon DEF Redeploy
<1>6. ASSUME RedisDown \/ RedisBack PROVE FALSE
  <2>1. CASE RedisDown
    BY <2>1, Zenon DEF RedisDown
  <2>2. CASE RedisBack
    BY <2>2 DEF RedisBack, TypeOK
  <2> QED BY <1>6, <2>1, <2>2
<1>7. CASE UNCHANGED vars
  <2>1. UNCHANGED <<client, up>> /\ faults = 0
    BY <1>7, Zenon DEF vars, outside
  <2> QED BY <1>1, <2>1
<1> QED BY <1>2, <1>3, <1>4, <1>5, <1>6, <1>7 DEF Next

LEMMA NextHasServed ==
    TypeOK /\ RedisFound /\ RedisHasServed /\ [Next]_vars => RedisHasServed'
<1> SUFFICES ASSUME TypeOK, RedisFound, RedisHasServed, [Next]_vars PROVE RedisHasServed'
  OBVIOUS
<1>1. ASSUME NEW r \in Requests, NEW rt \in Routes,
             Ask(r, rt) \/ \E p \in Payments, good \in BOOLEAN : Pay(r, rt, p, good)
      PROVE  RedisHasServed'
  <2>1. /\ UNCHANGED <<client, up, faults>>
        /\ \A q \in Requests : q # r => req'[q] = req[q]
        /\ req'[r].route = rt
        /\ \/ UNCHANGED cache /\ req'[r].ask = NoPrice
           \/ \E ask \in Prices \cup {NoPrice} : Challenge(rt, ask) /\ req'[r].ask = ask
    BY <1>1, ServesOrNot
  <2>2. CASE UNCHANGED cache /\ req'[r].ask = NoPrice
    BY <2>1, <2>2 DEF RedisHasServed, cache
  <2>3. CASE \E ask \in Prices \cup {NoPrice} : Challenge(rt, ask) /\ req'[r].ask = ask
    BY <2>1, <2>3, ServesKeep
  <2> QED BY <2>1, <2>2, <2>3
<1>2. ASSUME NEW r \in Requests,
             \/ VerifyAndSettle(r) \/ Work(r)
             \/ GatedVerify(r) \/ GatedWork(r) \/ GatedSettle(r)
      PROVE  RedisHasServed'
  <2>1. UNCHANGED cache /\ UNCHANGED <<client, up>> /\ (faults' = 0 => faults = 0)
    BY <1>2, BehindChallenge
  <2>2. \A q \in Requests : req'[q].route = req[q].route /\ req'[q].ask = req[q].ask
    BY <1>2, BehindChallenge
  <2> QED BY <2>1, <2>2 DEF RedisHasServed, cache
<1>3. ASSUME NEW p \in Payments, NEW r \in Requests, Sign(p, r) PROVE RedisHasServed'
  BY <1>3 DEF Sign, RedisHasServed, cache, outside
<1>4. ASSUME Redeploy PROVE RedisHasServed'
  <2>1. \A q \in Requests : req'[q].route = req[q].route /\ req'[q].ask = req[q].ask
    BY <1>4 DEF Redeploy, TypeOK, Request
  <2>2. /\ UNCHANGED <<redis, up, faults>>
        /\ \A rt \in Routes : mem'[rt] = NoPrice
        /\ faults = 0 /\ client' => client
    BY <1>4, Zenon DEF Redeploy, RedisFound
  <2> QED BY <2>1, <2>2 DEF RedisHasServed
<1>5. CASE RedisDown
  <2>1. faults' # 0
    BY <1>5 DEF RedisDown, Fault, TypeOK
  <2> QED BY <2>1 DEF RedisHasServed
<1>6. CASE RedisBack
  <2>1. faults' # 0
    BY <1>6 DEF RedisBack, TypeOK
  <2> QED BY <2>1 DEF RedisHasServed
<1>7. CASE UNCHANGED vars
  BY <1>7 DEF vars, cache, outside, RedisHasServed
<1>8. CASE Next
  BY <1>1, <1>2, <1>3, <1>4, <1>5, <1>6, <1>8 DEF Next
<1> QED BY <1>7, <1>8

LEMMA NextGatedHasServed == TypeOK /\ GatedHasServed /\ [Next]_vars => GatedHasServed'
<1> SUFFICES ASSUME TypeOK, GatedHasServed, [Next]_vars PROVE GatedHasServed'
  OBVIOUS
<1>1. ASSUME NEW r \in Requests, NEW rt \in Routes,
             Ask(r, rt) \/ \E p \in Payments, good \in BOOLEAN : Pay(r, rt, p, good)
      PROVE  GatedHasServed'
  <2>0. UNCHANGED <<client, up, deploys, faults>>
    BY <1>1, ServesOrNot
  <2>1. /\ deploys' = deploys
        /\ \A q \in Requests : q # r => req'[q] = req[q]
        /\ req'[r].route = rt
        /\ \/ UNCHANGED cache /\ req'[r].ask = NoPrice
           \/ \E ask \in Prices \cup {NoPrice} : Challenge(rt, ask) /\ req'[r].ask = ask
    <3>1. deploys' = deploys
      BY <2>0
    <3>2. /\ \A q \in Requests : q # r => req'[q] = req[q]
          /\ req'[r].route = rt
          /\ \/ UNCHANGED cache /\ req'[r].ask = NoPrice
             \/ \E ask \in Prices \cup {NoPrice} : Challenge(rt, ask) /\ req'[r].ask = ask
      BY <1>1, ServesOrNot
    <3> QED BY <3>1, <3>2
  <2>2. ~ready' => ~ready /\ (Kind[rt] = "gated" => req'[r].ask = NoPrice)
    <3>1. CASE UNCHANGED cache /\ req'[r].ask = NoPrice
      BY <3>1, Zenon DEF cache
    <3>2. ASSUME NEW ask \in Prices \cup {NoPrice}, Challenge(rt, ask), req'[r].ask = ask
          PROVE  ~ready' => ~ready /\ (Kind[rt] = "gated" => req'[r].ask = NoPrice)
      BY <3>2, Zenon DEF Challenge, GatedChallenge, CachedChallenge
    <3> QED BY <2>1, <3>1, <3>2
  <2>3. ASSUME deploys = 0, ~ready', NEW x \in Routes, NEW q \in Requests,
               Kind[x] = "gated", req'[q].route = x
        PROVE  req'[q].ask = NoPrice
    <3>1. CASE q = r
      BY <2>1, <2>2, <2>3, <3>1
    <3>2. CASE q # r
      BY <2>1, <2>2, <2>3, <3>2 DEF GatedHasServed
    <3> QED BY <3>1, <3>2
  <2> QED BY <2>1, <2>3 DEF GatedHasServed
<1>2. ASSUME ready' = ready, deploys' = deploys,
             \A q \in Requests : req'[q].route = req[q].route /\ req'[q].ask = req[q].ask
      PROVE  GatedHasServed'
  BY <1>2 DEF GatedHasServed
<1>3. ASSUME NEW r \in Requests,
             \/ VerifyAndSettle(r) \/ Work(r)
             \/ GatedVerify(r) \/ GatedWork(r) \/ GatedSettle(r)
      PROVE  GatedHasServed'
  <2>1. /\ UNCHANGED cache /\ UNCHANGED <<client, up, deploys>>
        /\ \A q \in Requests : req'[q].route = req[q].route /\ req'[q].ask = req[q].ask
    BY <1>3, BehindChallenge
  <2>2. ready' = ready /\ deploys' = deploys
    BY <2>1, Zenon DEF cache
  <2> QED BY <1>2, <2>1, <2>2
<1>4. ASSUME \/ \E p \in Payments, r \in Requests : Sign(p, r)
             \/ RedisDown \/ RedisBack \/ UNCHANGED vars
      PROVE  GatedHasServed'
  <2>1. req' = req /\ ready' = ready /\ deploys' = deploys
    BY <1>4, Zenon DEF Sign, RedisDown, RedisBack, vars, cache, outside
  <2> QED BY <1>2, <2>1
<1>5. CASE Redeploy
  <2>1. deploys' # 0
    BY <1>5 DEF Redeploy, TypeOK
  <2> QED BY <2>1 DEF GatedHasServed
<1> QED BY <1>1, <1>3, <1>4, <1>5 DEF Next

\* What OutageServesLastKnown says of one step and one request.
TurnedAwayOnlyUnserved(r) ==
    req[r].pc = "new" /\ req'[r].pc \in {"500", "503"} =>
        LET rt == req'[r].route
        IN  \/ IF Kind[rt] = "gated" THEN deploys > 0 ELSE faults > 0 \/ ~client
            \/ \A q \in Requests : req[q].route = rt => req[q].ask = NoPrice

\* Only a request that is served a challenge can be turned away for want of one.
LEMMA TurnedAwayWhenServed ==
    ASSUME TypeOK, [Next]_vars, NEW r \in Requests,
           req[r].pc = "new", req'[r].pc \in {"500", "503"}
    PROVE  \E rt \in Routes :
               Ask(r, rt) \/ \E p \in Payments, good \in BOOLEAN : Pay(r, rt, p, good)
<1>1. ASSUME NEW q \in Requests,
             \/ VerifyAndSettle(q) \/ Work(q)
             \/ GatedVerify(q) \/ GatedWork(q) \/ GatedSettle(q)
      PROVE  FALSE
  BY <1>1, BehindChallenge
<1>2. ASSUME NEW q \in Requests, NEW rt \in Routes,
             Ask(q, rt) \/ \E p \in Payments, good \in BOOLEAN : Pay(q, rt, p, good)
      PROVE  q = r
  BY <1>2, ServesOrNot
<1>3. ASSUME NEW p \in Payments, NEW q \in Requests, Sign(p, q) PROVE FALSE
  BY <1>3 DEF Sign
<1>4. ASSUME Redeploy PROVE FALSE
  BY <1>4 DEF Redeploy, TypeOK, Request
<1>5. ASSUME RedisDown \/ RedisBack PROVE FALSE
  BY <1>5 DEF RedisDown, RedisBack
<1>6. ASSUME UNCHANGED vars PROVE FALSE
  BY <1>6 DEF vars
<1> QED BY <1>1, <1>2, <1>3, <1>4, <1>5, <1>6 DEF Next

\* Once a route has handed out a challenge, a facilitator that is down turns nobody
\* away, through restarts and new prices as long as Redis answers, and on the routes
\* behind the middleware until the process restarts.
THEOREM OutageTheorem == Spec => OutageServesLastKnown
<1>1. ASSUME TypeOK, RedisHasServed, GatedHasServed, [Next]_vars, NEW r \in Requests
      PROVE  TurnedAwayOnlyUnserved(r)
  <2> SUFFICES ASSUME req[r].pc = "new", req'[r].pc \in {"500", "503"}
               PROVE  LET rt == req'[r].route
                      IN  \/ IF Kind[rt] = "gated" THEN deploys > 0 ELSE faults > 0 \/ ~client
                          \/ \A q \in Requests : req[q].route = rt => req[q].ask = NoPrice
    BY DEF TurnedAwayOnlyUnserved
  <2>1. PICK rt \in Routes :
            Ask(r, rt) \/ \E p \in Payments, good \in BOOLEAN : Pay(r, rt, p, good)
    BY <1>1, TurnedAwayWhenServed
  <2>2. req'[r].route = rt /\ Challenge(rt, NoPrice)
    <3>1. /\ req'[r].route = rt
          /\ \/ UNCHANGED cache /\ req'[r].ask = NoPrice /\ req'[r].pc = "422"
             \/ \E ask \in Prices \cup {NoPrice} :
                   /\ Challenge(rt, ask) /\ req'[r].ask = ask
                   /\ req'[r].pc \in {"500", "503"} => ask = NoPrice
      BY <1>1, <2>1, ServesOrNot
    <3> QED BY <3>1
  <2>3. CASE Kind[rt] = "gated"
    <3>1. ~ready
      BY <1>1, <2>2, <2>3, Zenon DEF Challenge, GatedChallenge, TypeOK
    <3>2. deploys = 0 => \A q \in Requests : req[q].route = rt => req[q].ask = NoPrice
      BY <1>1, <2>3, <3>1, Zenon DEF GatedHasServed
    <3>3. deploys # 0 => deploys > 0
      BY <1>1 DEF TypeOK
    <3> QED BY <2>2, <2>3, <3>2, <3>3
  <2>4. CASE Kind[rt] # "gated"
    <3>1. faults = 0 /\ client => \A q \in Requests : req[q].route = rt => req[q].ask = NoPrice
      BY <1>1, <2>2, <2>4, ServedIsCached
    <3>2. faults # 0 => faults > 0
      BY <1>1 DEF TypeOK
    <3> QED BY <2>2, <2>4, <3>1, <3>2
  <2> QED BY <2>3, <2>4
<1>2. TypeOK /\ RedisHasServed /\ GatedHasServed /\ [Next]_vars
        => [\A r \in Requests : TurnedAwayOnlyUnserved(r)]_vars
  BY <1>1
<1>3. Spec => [][\A r \in Requests : TurnedAwayOnlyUnserved(r)]_vars
  <2>1. Init => RedisFound
    BY Zenon DEF Init, RedisFound
  <2>2. Init => GatedHasServed
    BY DEF Init, New, GatedHasServed
  <2> QED
    BY <1>2, <2>1, <2>2, InitTyped, NextTyped, NextFound, InitHasServed, NextHasServed,
       NextGatedHasServed, PTL
    DEF Spec
<1> QED BY <1>3 DEF TurnedAwayOnlyUnserved, OutageServesLastKnown
=============================================================================

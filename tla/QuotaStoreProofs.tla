-------------------------- MODULE QuotaStoreProofs --------------------------
(***************************************************************************)
(* Proofs about QuotaStore: type correctness and the marks of fulfilled    *)
(* payments for any number of processes, and for one process that the      *)
(* month counter covers the calls let through, that no tier gives more     *)
(* than its quota, that credits are conserved, through raised commands,    *)
(* restarts and month ends, and, as long as nothing fails, that no minute  *)
(* has more calls than the rate.  And about Probing, whose window is the   *)
(* one of the free probes.                                                 *)
(*                                                                         *)
(* Both windows are proved in the same way: what is kept of an agent or a  *)
(* client counts its requests from any moment on that is not behind the    *)
(* window, so the length that is compared with the limit is the number of  *)
(* requests in every window that the new one could be in.                  *)
(***************************************************************************)
EXTENDS QuotaStore, Probing, FoldLemmas, FiniteSetTheorems, TLAPS

\* The month of an instant of the modelled clock is a modelled month.
LEMMA MonthTyped == \A t \in 0 .. MaxTime : MonthOf(t) \in Months
<1> SUFFICES ASSUME NEW t \in 0 .. MaxTime PROVE t \div MonthLen \in 0 .. MaxTime
  BY DEF MonthOf, Months
<1>1. t \div MonthLen \in Int /\ t \div MonthLen >= 0 /\ t \div MonthLen <= t
  BY QuotaAssumption
<1> QED BY <1>1, QuotaAssumption

\* The empty store is well typed.
LEMMA InitTyped == Init => TypeOK
BY QuotaAssumption DEF Init, TypeOK, Months, Running, Ended

\* The number of faults stays within its bound.
LEMMA FaultTyped == ASSUME TypeOK, Fault PROVE faults' \in 0 .. MaxFaults
BY QuotaAssumption DEF Fault, TypeOK

\* Every command, grant and fault keeps the types, whatever the processes do.
LEMMA NextTyped == TypeOK /\ [Next]_vars => TypeOK'
<1> SUFFICES ASSUME TypeOK, [Next]_vars PROVE TypeOK'
  OBVIOUS
<1> USE DEF Goto, callVars, delVars, store, Running, Ended
<1>1. CASE Tick
  <2>1. now' \in 0 .. MaxTime
    BY <1>1, QuotaAssumption DEF Tick, TypeOK
  <2> QED BY <1>1, <2>1 DEF Tick, TypeOK
<1>2. ASSUME NEW c \in Calls, NEW p \in Procs, NEW a \in Agents, ReadTier(c, p, a)
      PROVE  TypeOK'
  BY <1>2 DEF ReadTier, Recent, TypeOK
<1>3. ASSUME NEW c \in Calls, ReadCalls(c)
      PROVE  TypeOK'
  <2>1. MonthOf(now) \in Months /\ monthly[agent[c]][MonthOf(now)] \in Nat
    BY <1>3, MonthTyped DEF ReadCalls, TypeOK
  <2>2. cpc' \in [Calls -> {"new"} \cup Running \cup Ended]
        /\ path' \in [Calls -> {"none", "quota", "credit"}]
    BY <1>3 DEF ReadCalls, TypeOK
  <2>3. \A x \in Calls : x # c => cpc'[x] = cpc[x]
    BY <1>3 DEF ReadCalls, TypeOK
  <2> QED BY <1>3, <2>1, <2>2, <2>3 DEF ReadCalls, TypeOK
<1>4. ASSUME NEW c \in Calls, ReadCredits(c)
      PROVE  TypeOK'
  BY <1>4 DEF ReadCredits, TypeOK
<1>5. ASSUME NEW c \in Calls, Spend(c)
      PROVE  TypeOK'
  <2>1. credits' \in [Agents -> Int] /\ path' \in [Calls -> {"none", "quota", "credit"}]
    BY <1>5 DEF Spend, TypeOK
  <2>2. cpc' \in [Calls -> {"new"} \cup Running \cup Ended]
        /\ \A x \in Calls : cpc'[x] # "new" => cpc[x] # "new"
    BY <1>5 DEF Spend, TypeOK
  <2> QED BY <1>5, <2>1, <2>2 DEF Spend, TypeOK
<1>6. ASSUME NEW c \in Calls, Clamp(c)
      PROVE  TypeOK'
  BY <1>6 DEF Clamp, TypeOK
<1>7. ASSUME NEW c \in Calls, Count(c)
      PROVE  TypeOK'
  BY <1>7 DEF Count, TypeOK
<1>8. ASSUME NEW c \in Calls, CallRaises(c)
      PROVE  TypeOK'
  <2>1. monthly' \in [Agents -> [Months -> Nat]]
    <3>1. agent[c] \in Agents /\ seenCalls[c] + 1 \in Nat
      BY <1>8 DEF CallRaises, TypeOK
    <3>2. \/ UNCHANGED monthly
          \/ monthly' = [monthly EXCEPT ![agent[c]][month[c]] = seenCalls[c] + 1]
      BY <1>8 DEF CallRaises
    <3> QED BY <3>1, <3>2 DEF TypeOK
  <2>2. faults' \in 0 .. MaxFaults
    BY <1>8, FaultTyped DEF CallRaises
  <2>3. credits' \in [Agents -> Int]
    BY <1>8 DEF CallRaises, TypeOK
  <2>4. path' \in [Calls -> {"none", "quota", "credit"}]
    BY <1>8 DEF CallRaises, TypeOK
  <2>5. cpc' \in [Calls -> {"new"} \cup Running \cup Ended]
        /\ \A x \in Calls : cpc'[x] # "new" => cpc[x] # "new"
    BY <1>8 DEF CallRaises, TypeOK
  <2>6. UNCHANGED <<now, tier, fulfilled, agent, proc, at, month, seenTier,
                    seenCalls, dpc, dproc>>
    BY <1>8 DEF CallRaises
  <2>7. window' \in [Procs -> [Agents -> SUBSET Calls]]
    <3>1. proc[c] \in Procs /\ agent[c] \in Agents
      BY <1>8 DEF CallRaises, TypeOK
    <3>2. \/ UNCHANGED window
          \/ window' = [window EXCEPT ![proc[c]][agent[c]] = @ \cup {c}]
      BY <1>8 DEF CallRaises
    <3>3. window \in [Procs -> [Agents -> SUBSET Calls]]
      BY DEF TypeOK
    <3>4. [window EXCEPT ![proc[c]][agent[c]] = @ \cup {c}]
              \in [Procs -> [Agents -> SUBSET Calls]]
      BY <3>1, <3>3
    <3> QED BY <3>2, <3>3, <3>4
  <2> QED BY <2>1, <2>2, <2>3, <2>4, <2>5, <2>6, <2>7 DEF TypeOK
<1>9. ASSUME NEW d \in Deliveries, Grant(d)
      PROVE  tier' \in [Agents -> {"free", "pro"}] /\ credits' \in [Agents -> Int]
  <2>1. BuyerOf[d] \in Agents /\ Pack \in Int
    BY QuotaAssumption
  <2>2. credits[BuyerOf[d]] + Pack \in Int
    BY <2>1 DEF TypeOK
  <2>3. CASE GoodOf[d] = "pro"
    BY <1>9, <2>1, <2>3 DEF Grant, TypeOK
  <2>4. CASE GoodOf[d] # "pro"
    BY <1>9, <2>1, <2>2, <2>4 DEF Grant, TypeOK
  <2> QED BY <2>3, <2>4
<1>10. ASSUME NEW d \in Deliveries, NEW p \in Procs, Purchase(d, p)
       PROVE  TypeOK'
  BY <1>9, <1>10 DEF Purchase, TypeOK
<1>11. ASSUME NEW d \in Deliveries, NEW p \in Procs, MarkFulfilled(d, p)
       PROVE  TypeOK'
  <2>1. KeyOf[d] \in STRING
    BY <1>11, QuotaAssumption DEF MarkFulfilled
  <2>2. fulfilled' \subseteq STRING /\ fulfilled \subseteq fulfilled'
    BY <1>11, <2>1 DEF MarkFulfilled, TypeOK
  <2>3. \A e \in Deliveries : dpc'[e] = "marked" =>
            KeyOf[e] \in fulfilled' /\ dproc'[e] \in Procs
    BY <1>11, <2>2 DEF MarkFulfilled, TypeOK
  <2> QED BY <1>11, <2>2, <2>3 DEF MarkFulfilled, TypeOK
<1>12. ASSUME NEW d \in Deliveries, Fulfill(d)
       PROVE  TypeOK'
  <2>1. \A e \in Deliveries : dpc'[e] = "marked" => dpc[e] = "marked"
    BY <1>12 DEF Fulfill, TypeOK
  <2> QED BY <1>9, <1>12, <2>1 DEF Fulfill, TypeOK
<1>13. ASSUME NEW d \in Deliveries, DeliveryRaises(d)
       PROVE  TypeOK'
  <2>1. faults' \in 0 .. MaxFaults
    BY <1>13, FaultTyped DEF DeliveryRaises
  <2>2. UNCHANGED <<now, monthly, window, cpc, agent, proc, at, month, seenTier,
                    seenCalls, path, dproc>>
    BY <1>13 DEF DeliveryRaises
  <2>3. fulfilled' \subseteq STRING /\ fulfilled \subseteq fulfilled'
    BY <1>13, QuotaAssumption DEF DeliveryRaises, TypeOK
  <2>4. tier' \in [Agents -> {"free", "pro"}] /\ credits' \in [Agents -> Int]
    BY <1>9, <1>13 DEF DeliveryRaises, TypeOK
  <2>5. dpc' \in [Deliveries -> {"new", "marked", "granted", "already", "cut"}]
        /\ \A e \in Deliveries : dpc'[e] = "marked" => dpc[e] = "marked"
    BY <1>13 DEF DeliveryRaises, TypeOK
  <2> QED BY <2>1, <2>2, <2>3, <2>4, <2>5 DEF TypeOK
<1>14. ASSUME NEW p \in Procs, Restart(p)
       PROVE  TypeOK'
  <2>1. \A d \in Deliveries : dpc'[d] = "marked" =>
             dpc[d] = "marked" /\ dproc[d] # p
    BY <1>14 DEF Restart, TypeOK
  <2>2. window' \in [Procs -> [Agents -> SUBSET Calls]]
    BY <1>14 DEF Restart, TypeOK
  <2>3. /\ faults' \in 0 .. MaxFaults
        /\ cpc' \in [Calls -> {"new"} \cup Running \cup Ended]
        /\ dpc' \in [Deliveries -> {"new", "marked", "granted", "already", "cut"}]
        /\ \A c \in Calls : cpc'[c] # "new" => cpc[c] # "new"
    BY <1>14, FaultTyped DEF Restart, TypeOK
  <2>4. /\ tier' \in [Agents -> {"free", "pro"}] /\ credits' \in [Agents -> Int]
        /\ monthly' \in [Agents -> [Months -> Nat]] /\ fulfilled' \subseteq STRING
    <3>1. CASE Durable
      BY <1>14, <3>1 DEF Restart, TypeOK
    <3>2. CASE ~Durable
      BY <1>14, <3>2 DEF Restart, TypeOK
    <3> QED BY <3>1, <3>2
  <2>5. \A d \in Deliveries : dpc'[d] = "marked" =>
            KeyOf[d] \in fulfilled' /\ dproc'[d] \in Procs
    <3>1. CASE Durable
      BY <1>14, <2>1, <3>1 DEF Restart, TypeOK
    <3>2. CASE ~Durable
      <4>1. \A d \in Deliveries : dpc[d] = "marked" => dproc[d] = p
        BY <3>2, QuotaAssumption DEF TypeOK
      <4> QED BY <2>1, <4>1
    <3> QED BY <3>1, <3>2
  <2> QED BY <1>14, <2>2, <2>3, <2>4, <2>5 DEF Restart, TypeOK
<1>15. CASE UNCHANGED vars
  BY <1>15 DEF vars, TypeOK
<1> QED
  BY <1>1, <1>2, <1>3, <1>4, <1>5, <1>6, <1>7, <1>8, <1>10, <1>11, <1>12, <1>13,
     <1>14, <1>15 DEF Next

\* The store, the calls and the deliveries keep their types under every
\* interleaving of commands, for any number of processes, agents and calls.
THEOREM QuotaTypeCorrect == Spec => []TypeOK
BY InitTyped, NextTyped, PTL DEF Spec

-----------------------------------------------------------------------------
(* One process on Redis.  Its operations follow one another, so what a call   *)
(* has read is still true when it writes.                                     *)

Exclusive ==
    /\ \A c, d \in Calls : cpc[c] \in Running /\ cpc[d] \in Running => c = d
    /\ \A c \in Calls, d \in Deliveries : ~(cpc[c] \in Running /\ dpc[d] = "marked")

Judged ==
    \A c \in Calls :
        /\ cpc[c] # "clamp"
        /\ cpc[c] \in {"new", "calls", "credits", "spend"} => path[c] = "none"
        /\ cpc[c] \in Running /\ seenTier[c] = "pro" => tier[agent[c]] = "pro"
        /\ cpc[c] \in {"credits", "spend", "count"} =>
               seenCalls[c] = monthly[agent[c]][month[c]]
        /\ cpc[c] = "count" /\ path[c] = "quota" => seenCalls[c] < Quota(seenTier[c])
        /\ cpc[c] = "spend" => credits[agent[c]] > 0

\* When the only process is idle no call runs and no delivery is half done.
LEMMA IdleMeansAll ==
    ASSUME NEW q, Procs = {q}, TypeOK, NEW p \in Procs, IdleProc(p)
    PROVE  /\ \A c \in Calls : cpc[c] \notin Running
           /\ \A d \in Deliveries : dpc[d] # "marked"
BY DEF IdleProc, TypeOK, Running

\* Operations of one process exclude each other.
LEMMA ExclusiveNext ==
    ASSUME NEW q, Procs = {q}, TypeOK, Exclusive, [Next]_vars
    PROVE  Exclusive'
<1> USE DEF Goto, callVars, delVars, store
<1>1. ASSUME NEW c \in Calls, NEW p \in Procs, NEW a \in Agents, ReadTier(c, p, a)
      PROVE  Exclusive'
  <2>1. /\ \A x \in Calls : cpc[x] \notin Running
        /\ \A d \in Deliveries : dpc[d] # "marked"
    BY <1>1, IdleMeansAll DEF ReadTier
  <2>2. \A x \in Calls : x # c => cpc'[x] = cpc[x]
    BY <1>1 DEF ReadTier, TypeOK
  <2> QED BY <1>1, <2>1, <2>2 DEF ReadTier, Exclusive
<1>2. ASSUME NEW c \in Calls,
             ReadCalls(c) \/ ReadCredits(c) \/ Spend(c) \/ Clamp(c) \/ Count(c)
             \/ CallRaises(c)
      PROVE  Exclusive'
  <2>1. cpc[c] \in Running /\ UNCHANGED dpc
    BY <1>2 DEF ReadCalls, ReadCredits, Spend, Clamp, Count, CallRaises, Running
  <2>2. \A x \in Calls : x # c => cpc'[x] = cpc[x]
    BY <1>2 DEF ReadCalls, ReadCredits, Spend, Clamp, Count, CallRaises, TypeOK
  <2> QED BY <2>1, <2>2 DEF Exclusive
<1>3. ASSUME NEW d \in Deliveries, NEW p \in Procs, MarkFulfilled(d, p)
      PROVE  Exclusive'
  <2>1. \A x \in Calls : cpc[x] \notin Running
    BY <1>3, IdleMeansAll DEF MarkFulfilled
  <2> QED BY <1>3, <2>1 DEF MarkFulfilled, Exclusive
<1>4. ASSUME NEW d \in Deliveries,
             (\E p \in Procs : Purchase(d, p)) \/ Fulfill(d) \/ DeliveryRaises(d)
      PROVE  Exclusive'
  <2>1. \A e \in Deliveries : dpc'[e] = "marked" => dpc[e] = "marked"
    BY <1>4 DEF Purchase, Fulfill, DeliveryRaises, TypeOK
  <2>2. UNCHANGED cpc
    BY <1>4 DEF Purchase, Fulfill, DeliveryRaises
  <2> QED BY <2>1, <2>2 DEF Exclusive
<1>5. ASSUME NEW p \in Procs, Restart(p)
      PROVE  Exclusive'
  <2>1. \A c \in Calls : cpc'[c] \in Running => cpc[c] \in Running
    BY <1>5 DEF Restart, Running, TypeOK
  <2>2. \A e \in Deliveries : dpc'[e] = "marked" => dpc[e] = "marked"
    BY <1>5 DEF Restart, TypeOK
  <2> QED BY <2>1, <2>2 DEF Exclusive
<1>6. CASE Tick \/ UNCHANGED vars
  BY <1>6 DEF Tick, vars, Exclusive
<1> QED BY <1>1, <1>2, <1>3, <1>4, <1>5, <1>6 DEF Next

\* So what a running call has read stays true until it is done.
LEMMA JudgedNext ==
    ASSUME NEW q, Procs = {q}, Durable, TypeOK, Exclusive, Judged, [Next]_vars
    PROVE  Judged'
<1> USE DEF Goto, callVars, delVars, store
<1>1. ASSUME NEW c \in Calls, NEW p \in Procs, NEW a \in Agents, ReadTier(c, p, a)
      PROVE  Judged'
  <2>1. \A x \in Calls : cpc[x] \notin Running
    BY <1>1, IdleMeansAll DEF ReadTier
  <2>2. \A x \in Calls : x # c =>
            /\ cpc'[x] = cpc[x] /\ path'[x] = path[x]
            /\ cpc[x] \notin Running
    BY <1>1, <2>1 DEF ReadTier, TypeOK
  <2>3. /\ cpc'[c] = "calls" /\ path'[c] = "none"
        /\ seenTier'[c] = tier'[agent'[c]]
    BY <1>1 DEF ReadTier, TypeOK, Judged
  <2> QED BY <2>2, <2>3 DEF Judged, Running
<1>2. ASSUME NEW c \in Calls, ReadCalls(c)
      PROVE  Judged'
  <2>1. \A x \in Calls : x # c =>
            /\ cpc'[x] = cpc[x] /\ path'[x] = path[x]
            /\ seenCalls'[x] = seenCalls[x] /\ month'[x] = month[x]
    BY <1>2 DEF ReadCalls, TypeOK
  <2>2. /\ seenCalls'[c] = monthly[agent[c]][MonthOf(now)]
        /\ month'[c] = MonthOf(now)
    BY <1>2 DEF ReadCalls, TypeOK
  <2>3. \/ cpc'[c] = "credits" /\ path'[c] = "none"
        \/ cpc'[c] = "overRate"
        \/ cpc'[c] = "count" /\ path'[c] = "quota"
           /\ seenCalls'[c] < Quota(seenTier[c])
    BY <1>2, <2>2 DEF ReadCalls, TypeOK, Judged
  <2>4. UNCHANGED <<tier, credits, monthly, agent, seenTier>> /\ cpc[c] \in Running
    BY <1>2 DEF ReadCalls, Running
  <2> QED BY <2>1, <2>2, <2>3, <2>4 DEF Judged, Running
<1>3. ASSUME NEW c \in Calls, ReadCredits(c)
      PROVE  Judged'
  <2>1. \A x \in Calls : x # c => cpc'[x] = cpc[x]
    BY <1>3 DEF ReadCredits, TypeOK
  <2>2. /\ cpc[c] = "credits"
        /\ \/ cpc'[c] = "spend" /\ credits[agent[c]] > 0
           \/ cpc'[c] = "overQuota"
    BY <1>3 DEF ReadCredits, TypeOK
  <2>3. UNCHANGED <<tier, credits, monthly, agent, seenTier, seenCalls, month, path>>
    BY <1>3 DEF ReadCredits
  <2> QED BY <2>1, <2>2, <2>3 DEF Judged, Running
<1>4. ASSUME NEW c \in Calls, Spend(c)
      PROVE  Judged'
  <2>1. \A x \in Calls : x # c => /\ cpc'[x] = cpc[x] /\ path'[x] = path[x]
                                  /\ cpc[x] \notin Running
    BY <1>4 DEF Spend, TypeOK, Exclusive, Running
  <2>2. agent[c] \in Agents /\ credits[agent[c]] \in Int /\ credits[agent[c]] > 0
    BY <1>4 DEF Spend, TypeOK, Judged
  <2>3. cpc[c] = "spend" /\ cpc'[c] = "count" /\ path'[c] = "credit"
    BY <1>4, <2>2 DEF Spend, TypeOK
  <2>4. UNCHANGED <<tier, monthly, agent, seenTier, seenCalls, month>>
    BY <1>4 DEF Spend
  <2> QED BY <2>1, <2>3, <2>4 DEF Judged, Running
<1>5. ASSUME NEW c \in Calls, Count(c) \/ CallRaises(c)
      PROVE  Judged'
  <2>1. \A x \in Calls : x # c => cpc'[x] = cpc[x] /\ cpc[x] \notin Running
    BY <1>5 DEF Count, CallRaises, TypeOK, Exclusive, Running
  <2>2. cpc'[c] \in {"served", "raised"}
    BY <1>5 DEF Count, CallRaises, TypeOK
  <2>3. \A x \in Calls : x # c => path'[x] = path[x]
    BY <1>5 DEF Count, CallRaises, TypeOK
  <2> QED BY <2>1, <2>2, <2>3 DEF Judged, Running
<1>6. ASSUME NEW d \in Deliveries,
             \/ \E p \in Procs : Purchase(d, p)
             \/ Fulfill(d)
             \/ DeliveryRaises(d) /\ dpc[d] = "marked"
      PROVE  Judged'
  <2>1. \A x \in Calls : cpc[x] \notin Running
    BY <1>6, IdleMeansAll DEF Purchase, Fulfill, Exclusive
  <2>2. UNCHANGED <<cpc, path>>
    BY <1>6 DEF Purchase, Fulfill, DeliveryRaises
  <2> QED BY <2>1, <2>2 DEF Judged, Running
<1>7. ASSUME NEW p \in Procs, Restart(p)
      PROVE  Judged'
  <2>1. \A c \in Calls : cpc'[c] = cpc[c] \/ cpc'[c] = "raised"
    BY <1>7 DEF Restart, TypeOK
  <2>2. UNCHANGED <<tier, credits, monthly, agent, seenTier, seenCalls, month, path>>
    BY <1>7 DEF Restart
  <2> QED BY <2>1, <2>2 DEF Judged, Running
<1>8. ASSUME NEW d \in Deliveries,
             \/ \E p \in Procs : MarkFulfilled(d, p)
             \/ DeliveryRaises(d) /\ dpc[d] # "marked"
      PROVE  Judged'
  <2>1. UNCHANGED <<tier, credits, monthly, agent, seenTier, seenCalls, month, path, cpc>>
    BY <1>8 DEF MarkFulfilled, DeliveryRaises
  <2> QED BY <2>1 DEF Judged
<1>9. ASSUME NEW c \in Calls, Clamp(c)
      PROVE  Judged'
  BY <1>9 DEF Clamp, Judged
<1>10. CASE Tick \/ UNCHANGED vars
  BY <1>10 DEF Tick, vars, Judged
<1> QED
  BY <1>1, <1>2, <1>3, <1>4, <1>5, <1>6, <1>7, <1>8, <1>9, <1>10 DEF Next

-----------------------------------------------------------------------------
\* Subsets of the calls and of the deliveries are finite and can be counted.
LEMMA Counting ==
    /\ \A S \in SUBSET Calls : IsFiniteSet(S) /\ Cardinality(S) \in Nat
    /\ \A S \in SUBSET Deliveries : IsFiniteSet(S) /\ Cardinality(S) \in Nat
BY QuotaAssumption, FS_Subset, FS_CardinalityType

\* A step adds to the calls served at most the one that writes its counter.
LEMMA ServedStep ==
    ASSUME TypeOK, [Next]_vars, NEW a \in Agents, NEW m \in Months
    PROVE  \/ ServedIn(a, m)' = ServedIn(a, m) /\ OnQuota(ServedIn(a, m))' = OnQuota(ServedIn(a, m))
           \/ \E c \in Calls : /\ Count(c) /\ agent[c] = a /\ month[c] = m
                               /\ ServedIn(a, m)' = ServedIn(a, m) \cup {c}
                               /\ OnQuota(ServedIn(a, m))' =
                                      IF path[c] = "quota" THEN OnQuota(ServedIn(a, m)) \cup {c}
                                      ELSE OnQuota(ServedIn(a, m))
<1> USE DEF Goto, callVars, delVars, store
<1>1. ASSUME NEW c \in Calls, Count(c)
      PROVE  /\ UNCHANGED <<agent, month, path>>
             /\ \A x \in Calls : cpc'[x] = "served" <=> cpc[x] = "served" \/ x = c
  BY <1>1 DEF Count, TypeOK
<1>2. ASSUME NEW c \in Calls, Count(c), agent[c] = a, month[c] = m
      PROVE  /\ ServedIn(a, m)' = ServedIn(a, m) \cup {c}
             /\ OnQuota(ServedIn(a, m))' =
                    IF path[c] = "quota" THEN OnQuota(ServedIn(a, m)) \cup {c}
                    ELSE OnQuota(ServedIn(a, m))
  BY <1>1, <1>2 DEF ServedIn, OnQuota
<1>3. ASSUME NEW c \in Calls, Count(c), agent[c] # a \/ month[c] # m
      PROVE  ServedIn(a, m)' = ServedIn(a, m) /\ OnQuota(ServedIn(a, m))' = OnQuota(ServedIn(a, m))
  BY <1>1, <1>3 DEF ServedIn, OnQuota
<1>4. CASE ~ \E c \in Calls : Count(c)
  <2>1. \A x \in Calls :
            /\ cpc'[x] = "served" <=> cpc[x] = "served"
            /\ cpc[x] = "served" => agent'[x] = agent[x] /\ month'[x] = month[x]
                                    /\ path'[x] = path[x]
    <3>1. ASSUME NEW c \in Calls,
                 \/ \E p \in Procs, b \in Agents : ReadTier(c, p, b)
                 \/ ReadCalls(c) \/ ReadCredits(c) \/ Spend(c) \/ Clamp(c)
                 \/ CallRaises(c)
          PROVE  /\ cpc[c] # "served" /\ cpc'[c] # "served"
                 /\ \A x \in Calls : x # c => /\ cpc'[x] = cpc[x] /\ agent'[x] = agent[x]
                                              /\ month'[x] = month[x] /\ path'[x] = path[x]
      BY <3>1 DEF ReadTier, ReadCalls, ReadCredits, Spend, Clamp, CallRaises, TypeOK, Running
    <3>2. ASSUME NEW d \in Deliveries,
                 \/ \E p \in Procs : Purchase(d, p) \/ MarkFulfilled(d, p)
                 \/ Fulfill(d) \/ DeliveryRaises(d)
          PROVE  UNCHANGED <<cpc, agent, month, path>>
      BY <3>2 DEF Purchase, MarkFulfilled, Fulfill, DeliveryRaises
    <3>3. ASSUME NEW p \in Procs, Restart(p)
          PROVE  /\ \A x \in Calls : cpc'[x] = "served" <=> cpc[x] = "served"
                 /\ UNCHANGED <<agent, month, path>>
      BY <3>3 DEF Restart, TypeOK, Running
    <3>4. CASE Tick \/ UNCHANGED vars
      BY <3>4 DEF Tick, vars
    <3> QED BY <1>4, <3>1, <3>2, <3>3, <3>4 DEF Next
  <2> QED BY <2>1 DEF ServedIn, OnQuota
<1> QED BY <1>2, <1>3, <1>4

\* The counter of a month never falls, and a call that is let through raises it.
LEMMA CounterStep ==
    ASSUME NEW q, Procs = {q}, Durable, TypeOK, Judged, [Next]_vars,
           NEW a \in Agents, NEW m \in Months
    PROVE  /\ monthly'[a][m] >= monthly[a][m]
           /\ \A c \in Calls : Count(c) /\ agent[c] = a /\ month[c] = m =>
                  seenCalls[c] = monthly[a][m] /\ monthly'[a][m] = monthly[a][m] + 1
<1> USE DEF Goto, callVars, delVars, store
<1>0. monthly[a][m] \in Nat
  BY DEF TypeOK
<1>1. ASSUME NEW c \in Calls, cpc[c] = "count",
             monthly' = [monthly EXCEPT ![agent[c]][month[c]] = seenCalls[c] + 1]
      PROVE  /\ monthly'[a][m] >= monthly[a][m]
             /\ agent[c] = a /\ month[c] = m =>
                    seenCalls[c] = monthly[a][m] /\ monthly'[a][m] = monthly[a][m] + 1
  <2>1. seenCalls[c] = monthly[agent[c]][month[c]]
    BY <1>1 DEF Judged
  <2>2. agent[c] \in Agents /\ month[c] \in Months /\ seenCalls[c] \in Nat
    BY <1>1 DEF TypeOK
  <2> QED BY <1>0, <1>1, <2>1, <2>2 DEF TypeOK
<1>2. CASE UNCHANGED monthly
  <2>1. monthly'[a][m] >= monthly[a][m]
    BY <1>0, <1>2
  <2>2. ASSUME NEW c \in Calls, Count(c), agent[c] = a, month[c] = m
        PROVE  seenCalls[c] = monthly[a][m] /\ monthly'[a][m] = monthly[a][m] + 1
    <3>1. /\ cpc[c] = "count"
          /\ monthly' = [monthly EXCEPT ![agent[c]][month[c]] = seenCalls[c] + 1]
      BY <2>2 DEF Count
    <3> QED BY <1>1, <2>2, <3>1
  <2> QED BY <2>1, <2>2
<1>3. ASSUME NEW c \in Calls, Count(c) \/ CallRaises(c), ~UNCHANGED monthly
      PROVE  monthly' = [monthly EXCEPT ![agent[c]][month[c]] = seenCalls[c] + 1]
             /\ cpc[c] = "count"
  BY <1>3 DEF Count, CallRaises
<1>4. UNCHANGED monthly \/ \E c \in Calls : Count(c) \/ CallRaises(c)
  BY DEF Next, Tick, ReadTier, ReadCalls, ReadCredits, Spend, Clamp, Purchase,
         MarkFulfilled, Fulfill, DeliveryRaises, Restart, vars
<1>5. \A c \in Calls : Count(c) => /\ cpc[c] = "count"
                        /\ monthly' = [monthly EXCEPT ![agent[c]][month[c]] = seenCalls[c] + 1]
  BY DEF Count
<1> QED BY <1>1, <1>2, <1>3, <1>4, <1>5

\* A tier is never taken back.
LEMMA TierStep ==
    ASSUME Durable, TypeOK, [Next]_vars, NEW a \in Agents
    PROVE  tier[a] = "pro" => tier'[a] = "pro"
<1> USE DEF callVars, delVars, store
<1>1. ASSUME NEW d \in Deliveries, Grant(d)
      PROVE  tier[a] = "pro" => tier'[a] = "pro"
  BY <1>1 DEF Grant, TypeOK
<1>2. UNCHANGED tier \/ \E d \in Deliveries : Grant(d)
  BY DEF Next, Tick, ReadTier, ReadCalls, ReadCredits, Spend, Clamp, Count, CallRaises,
         Purchase, MarkFulfilled, Fulfill, DeliveryRaises, Restart, vars
<1> QED BY <1>1, <1>2

-----------------------------------------------------------------------------
\* The packs granted grow by the delivery granted in the step, the spenders by
\* the call whose credit is spent, and the balance follows both.
LEMMA CreditsNext ==
    ASSUME NEW q, Procs = {q}, Durable, TypeOK, Exclusive, Judged,
           CreditsConserved, [Next]_vars
    PROVE  CreditsConserved'
<1> USE DEF Goto, callVars, delVars, store
<1>0. Pack \in Nat
  BY QuotaAssumption
<1>1. SUFFICES ASSUME NEW a \in Agents
               PROVE  /\ credits'[a] = Pack * Cardinality(Packs(a)') - Cardinality(Spenders(a)')
                      /\ credits'[a] >= 0
  BY DEF CreditsConserved
<1>2. /\ IsFiniteSet(Packs(a)) /\ Cardinality(Packs(a)) \in Nat
      /\ IsFiniteSet(Spenders(a)) /\ Cardinality(Spenders(a)) \in Nat
  BY Counting DEF Packs, Spenders
<1>3. /\ credits[a] = Pack * Cardinality(Packs(a)) - Cardinality(Spenders(a))
      /\ credits[a] >= 0 /\ credits[a] \in Int
  BY DEF CreditsConserved, TypeOK
<1>4. ASSUME NEW d \in Deliveries, dpc[d] # "granted", Grant(d),
             dpc' = [dpc EXCEPT ![d] = "granted"], UNCHANGED callVars
      PROVE  /\ credits'[a] = Pack * Cardinality(Packs(a)') - Cardinality(Spenders(a)')
             /\ credits'[a] >= 0
  <2>1. Spenders(a)' = Spenders(a)
    BY <1>4 DEF Spenders
  <2>2. CASE BuyerOf[d] = a /\ GoodOf[d] = "credits"
    <3>1. Packs(a)' = Packs(a) \cup {d} /\ d \notin Packs(a)
      BY <1>4, <2>2 DEF Packs, TypeOK
    <3>2. Cardinality(Packs(a)') = Cardinality(Packs(a)) + 1
      BY <1>2, <3>1, FS_AddElement
    <3>3. credits'[a] = credits[a] + Pack
      BY <1>4, <2>2 DEF Grant, TypeOK
    <3>4. Pack * (Cardinality(Packs(a)) + 1) = Pack * Cardinality(Packs(a)) + Pack
      BY <1>0, <1>2
    <3> QED BY <1>0, <1>2, <1>3, <2>1, <3>2, <3>3, <3>4
  <2>3. CASE ~(BuyerOf[d] = a /\ GoodOf[d] = "credits")
    <3>1. Packs(a)' = Packs(a)
      BY <1>4, <2>3 DEF Packs, TypeOK
    <3>2. GoodOf[d] \in {"pro", "credits"} /\ BuyerOf[d] \in Agents
      BY QuotaAssumption
    <3>3. credits'[a] = credits[a]
      BY <1>4, <2>3, <3>2 DEF Grant, TypeOK
    <3> QED BY <1>3, <2>1, <3>1, <3>3
  <2> QED BY <2>2, <2>3
<1>5. ASSUME NEW c \in Calls, cpc[c] = "spend", UNCHANGED <<agent, dpc>>,
             credits' = [credits EXCEPT ![agent[c]] = @ - 1],
             path' = [path EXCEPT ![c] = "credit"]
      PROVE  /\ credits'[a] = Pack * Cardinality(Packs(a)') - Cardinality(Spenders(a)')
             /\ credits'[a] >= 0
  <2>1. Packs(a)' = Packs(a)
    BY <1>5 DEF Packs
  <2>2. path[c] = "none" /\ agent[c] \in Agents /\ credits[agent[c]] > 0
    BY <1>5 DEF Judged, TypeOK
  <2>3. CASE agent[c] = a
    <3>1. Spenders(a)' = Spenders(a) \cup {c} /\ c \notin Spenders(a)
      BY <1>5, <2>2, <2>3 DEF Spenders, TypeOK
    <3>2. Cardinality(Spenders(a)') = Cardinality(Spenders(a)) + 1
      BY <1>2, <3>1, FS_AddElement
    <3>3. credits'[a] = credits[a] - 1 /\ credits[a] > 0
      BY <1>5, <2>2, <2>3 DEF TypeOK
    <3>4. Pack * Cardinality(Packs(a)) \in Int
      BY <1>0, <1>2
    <3> QED BY <1>2, <1>3, <2>1, <3>2, <3>3, <3>4
  <2>4. CASE agent[c] # a
    <3>1. Spenders(a)' = Spenders(a)
      BY <1>5, <2>4 DEF Spenders, TypeOK
    <3>2. credits'[a] = credits[a]
      BY <1>5, <2>4 DEF TypeOK
    <3> QED BY <1>3, <2>1, <3>1, <3>2
  <2> QED BY <2>3, <2>4
<1>6. ASSUME Packs(a)' = Packs(a), Spenders(a)' = Spenders(a), UNCHANGED credits
      PROVE  /\ credits'[a] = Pack * Cardinality(Packs(a)') - Cardinality(Spenders(a)')
             /\ credits'[a] >= 0
  BY <1>3, <1>6
<1>7. ASSUME NEW c \in Calls, NEW p \in Procs, NEW b \in Agents, ReadTier(c, p, b)
      PROVE  Packs(a)' = Packs(a) /\ Spenders(a)' = Spenders(a) /\ UNCHANGED credits
  <2>1. path[c] = "none" /\ UNCHANGED <<path, dpc, credits>>
        /\ \A x \in Calls : x # c => agent'[x] = agent[x]
    BY <1>7 DEF ReadTier, Judged, TypeOK
  <2> QED BY <2>1 DEF Packs, Spenders
<1>8. ASSUME NEW c \in Calls, ReadCalls(c)
      PROVE  Packs(a)' = Packs(a) /\ Spenders(a)' = Spenders(a) /\ UNCHANGED credits
  <2>1. path[c] = "none" /\ path'[c] # "credit" /\ UNCHANGED <<agent, dpc, credits>>
        /\ \A x \in Calls : x # c => path'[x] = path[x]
    BY <1>8 DEF ReadCalls, Judged, TypeOK
  <2> QED BY <2>1 DEF Packs, Spenders
<1>9. ASSUME \/ Tick \/ UNCHANGED vars
             \/ \E c \in Calls : ReadCredits(c) \/ Count(c)
             \/ \E c \in Calls : CallRaises(c) /\ cpc[c] \notin {"spend", "clamp"}
      PROVE  Packs(a)' = Packs(a) /\ Spenders(a)' = Spenders(a) /\ UNCHANGED credits
  <2>1. UNCHANGED <<agent, path, dpc, credits>>
    BY <1>9 DEF Tick, vars, ReadCredits, Count, CallRaises
  <2> QED BY <2>1 DEF Packs, Spenders
<1>10. ASSUME NEW d \in Deliveries,
              \/ \E p \in Procs : MarkFulfilled(d, p)
              \/ DeliveryRaises(d) /\ dpc'[d] = "cut"
       PROVE  Packs(a)' = Packs(a) /\ Spenders(a)' = Spenders(a) /\ UNCHANGED credits
  <2>1. UNCHANGED <<agent, path, credits>>
        /\ \A e \in Deliveries : dpc'[e] = "granted" <=> dpc[e] = "granted"
    BY <1>10 DEF MarkFulfilled, DeliveryRaises, TypeOK
  <2> QED BY <2>1 DEF Packs, Spenders
<1>11. ASSUME NEW p \in Procs, Restart(p)
       PROVE  Packs(a)' = Packs(a) /\ Spenders(a)' = Spenders(a) /\ UNCHANGED credits
  <2>1. UNCHANGED <<agent, path, credits>>
        /\ \A e \in Deliveries : dpc'[e] = "granted" <=> dpc[e] = "granted"
    BY <1>11 DEF Restart, TypeOK
  <2> QED BY <2>1 DEF Packs, Spenders
<1>12. ASSUME NEW d \in Deliveries,
              \/ \E p \in Procs : Purchase(d, p)
              \/ Fulfill(d)
              \/ DeliveryRaises(d) /\ dpc'[d] # "cut"
       PROVE  /\ dpc[d] # "granted" /\ Grant(d) /\ UNCHANGED callVars
              /\ dpc' = [dpc EXCEPT ![d] = "granted"]
  BY <1>12 DEF Purchase, Fulfill, DeliveryRaises, TypeOK
<1>13. \A c \in Calls : ~Clamp(c) /\ cpc[c] # "clamp"
  BY DEF Clamp, Judged
<1>14. ASSUME NEW c \in Calls, Spend(c)
       PROVE  /\ cpc[c] = "spend" /\ UNCHANGED <<agent, dpc>>
              /\ credits' = [credits EXCEPT ![agent[c]] = @ - 1]
              /\ path' = [path EXCEPT ![c] = "credit"]
  BY <1>14 DEF Spend
<1>15. ASSUME NEW c \in Calls, CallRaises(c), cpc[c] = "spend"
       PROVE  /\ UNCHANGED <<agent, dpc>>
              /\ \/ UNCHANGED <<credits, path>>
                 \/ /\ credits' = [credits EXCEPT ![agent[c]] = @ - 1]
                    /\ path' = [path EXCEPT ![c] = "credit"]
  BY <1>15 DEF CallRaises
<1>16. ASSUME UNCHANGED <<agent, dpc, credits, path>>
       PROVE  Packs(a)' = Packs(a) /\ Spenders(a)' = Spenders(a) /\ UNCHANGED credits
  BY <1>16 DEF Packs, Spenders
<1> QED
  BY <1>4, <1>5, <1>6, <1>7, <1>8, <1>9, <1>10, <1>11, <1>12, <1>13, <1>14, <1>15,
     <1>16 DEF Next

-----------------------------------------------------------------------------
\* One element more is at most one more.
LEMMA AddAtMostOne ==
    ASSUME NEW S, IsFiniteSet(S), NEW x
    PROVE  /\ Cardinality(S \cup {x}) \in Nat
           /\ Cardinality(S \cup {x}) <= Cardinality(S) + 1
<1>1. /\ IsFiniteSet(S \cup {x})
      /\ Cardinality(S \cup {x}) = IF x \in S THEN Cardinality(S) ELSE Cardinality(S) + 1
  BY FS_AddElement
<1>2. Cardinality(S \cup {x}) \in Nat /\ Cardinality(S) \in Nat
  BY <1>1, FS_CardinalityType
<1> QED BY <1>1, <1>2

\* The calls served in a month stay within its counter.
LEMMA CountedNext ==
    ASSUME NEW q, Procs = {q}, Durable, TypeOK, Judged, ServedIsCounted, [Next]_vars
    PROVE  ServedIsCounted'
<1> SUFFICES ASSUME NEW a \in Agents, NEW m \in Months
             PROVE  Cardinality(ServedIn(a, m)') <= monthly'[a][m]
  BY DEF ServedIsCounted
<1>1. /\ monthly[a][m] \in Nat /\ monthly'[a][m] \in Nat
      /\ Cardinality(ServedIn(a, m)) <= monthly[a][m]
      /\ IsFiniteSet(ServedIn(a, m)) /\ Cardinality(ServedIn(a, m)) \in Nat
  BY NextTyped, Counting DEF ServedIsCounted, TypeOK, ServedIn
<1>2. CASE ServedIn(a, m)' = ServedIn(a, m)
  <2>1. monthly'[a][m] >= monthly[a][m]
    BY CounterStep
  <2> QED BY <1>1, <1>2, <2>1
<1>3. ASSUME NEW c \in Calls, Count(c), agent[c] = a, month[c] = m,
             ServedIn(a, m)' = ServedIn(a, m) \cup {c}
      PROVE  Cardinality(ServedIn(a, m)') <= monthly'[a][m]
  <2>1. monthly'[a][m] = monthly[a][m] + 1
    BY <1>3, CounterStep
  <2>2. Cardinality(ServedIn(a, m) \cup {c}) \in Nat
        /\ Cardinality(ServedIn(a, m) \cup {c}) <= Cardinality(ServedIn(a, m)) + 1
    BY <1>1, AddAtMostOne
  <2> QED BY <1>1, <1>3, <2>1, <2>2
<1> QED BY <1>2, <1>3, ServedStep

\* And the unpaid ones within the quota of the tier.
LEMMA FreeNext ==
    ASSUME NEW q, Procs = {q}, Durable, TypeOK, Judged, ServedIsCounted,
           FreeWithinQuota, [Next]_vars
    PROVE  FreeWithinQuota'
<1> SUFFICES ASSUME NEW a \in Agents, NEW m \in Months
             PROVE  Cardinality(OnQuota(ServedIn(a, m))') <= Quota(tier'[a])
  BY DEF FreeWithinQuota, Quota
<1>1. /\ IsFiniteSet(ServedIn(a, m)) /\ Cardinality(ServedIn(a, m)) \in Nat
      /\ IsFiniteSet(OnQuota(ServedIn(a, m))) /\ Cardinality(OnQuota(ServedIn(a, m))) \in Nat
  BY Counting DEF ServedIn, OnQuota
<1>2. /\ Quota(tier[a]) \in Nat /\ Quota(tier'[a]) \in Nat
      /\ Quota(tier[a]) <= Quota(tier'[a])
  BY QuotaAssumption, TierStep DEF Quota, TypeOK
<1>3. Cardinality(OnQuota(ServedIn(a, m))) <= Quota(tier[a])
  BY DEF FreeWithinQuota
<1>4. CASE OnQuota(ServedIn(a, m))' = OnQuota(ServedIn(a, m))
  BY <1>1, <1>2, <1>3, <1>4
<1>5. ASSUME NEW c \in Calls, Count(c), agent[c] = a, month[c] = m, path[c] = "quota",
             OnQuota(ServedIn(a, m))' = OnQuota(ServedIn(a, m)) \cup {c}
      PROVE  Cardinality(OnQuota(ServedIn(a, m))') <= Quota(tier'[a])
  <2>1. Cardinality(OnQuota(ServedIn(a, m))) <= Cardinality(ServedIn(a, m))
    BY <1>1, FS_Subset DEF OnQuota
  <2>2. Cardinality(ServedIn(a, m)) <= monthly[a][m] /\ monthly[a][m] \in Nat
    BY DEF ServedIsCounted, TypeOK
  <2>3. seenCalls[c] = monthly[a][m] /\ seenCalls[c] < Quota(seenTier[c])
    BY <1>5, CounterStep DEF Count, Judged
  <2>4. Quota(seenTier[c]) <= Quota(tier[a]) /\ Quota(seenTier[c]) \in Nat
    BY <1>5, QuotaAssumption DEF Count, Judged, Running, Quota, TypeOK
  <2> DEFINE S == OnQuota(ServedIn(a, m))
  <2>5. Cardinality(S \cup {c}) \in Nat /\ Cardinality(S \cup {c}) <= Cardinality(S) + 1
    BY <1>1, AddAtMostOne
  <2>6. Cardinality(S \cup {c}) <= Quota(tier'[a])
    <3> HIDE DEF S
    <3> QED BY <1>1, <1>2, <2>1, <2>2, <2>3, <2>4, <2>5 DEF S
  <2> QED BY <1>5, <2>6
<1> QED BY <1>4, <1>5, ServedStep

-----------------------------------------------------------------------------
\* At the start nothing is served, granted or spent.
LEMMA BooksInit ==
    Init => Exclusive /\ Judged /\ ServedIsCounted /\ FreeWithinQuota /\ CreditsConserved
<1> SUFFICES ASSUME Init
             PROVE  Exclusive /\ Judged /\ ServedIsCounted /\ FreeWithinQuota /\ CreditsConserved
  OBVIOUS
<1>1. \A a \in Agents, m \in Months : ServedIn(a, m) = {} /\ OnQuota(ServedIn(a, m)) = {}
  BY DEF Init, ServedIn, OnQuota
<1>2. \A a \in Agents : Packs(a) = {} /\ Spenders(a) = {}
  BY DEF Init, Packs, Spenders
<1>3. Cardinality({}) = 0
  BY FS_EmptySet
<1>4. FreeWithinQuota
  BY <1>1, <1>3, QuotaAssumption DEF FreeWithinQuota, Quota
<1>5. ServedIsCounted
  <2> SUFFICES ASSUME NEW a \in Agents, NEW m \in Months
               PROVE  Cardinality(ServedIn(a, m)) <= monthly[a][m]
    BY DEF ServedIsCounted
  <2>1. Cardinality(ServedIn(a, m)) = 0
    BY <1>1, <1>3
  <2>2. monthly[a][m] = 0
    BY DEF Init
  <2> QED BY <2>1, <2>2
<1>6. CreditsConserved
  <2> SUFFICES ASSUME NEW a \in Agents
               PROVE  /\ credits[a] = Pack * Cardinality(Packs(a)) - Cardinality(Spenders(a))
                      /\ credits[a] >= 0
    BY DEF CreditsConserved
  <2>1. Cardinality(Packs(a)) = 0 /\ Cardinality(Spenders(a)) = 0
    BY <1>2, <1>3
  <2>2. credits[a] = 0
    BY DEF Init
  <2>3. Pack * 0 - 0 = 0
    BY QuotaAssumption
  <2> QED BY <2>1, <2>2, <2>3
<1> QED BY <1>4, <1>5, <1>6 DEF Init, Exclusive, Judged, Running

\* With one process on Redis every call let through is in its month's counter,
\* however many calls raise half way, however often the process restarts and
\* wherever the month ends.
THEOREM CountedTheorem ==
    ASSUME NEW q, Procs = {q}, Durable
    PROVE  Spec => []ServedIsCounted
<1>1. Init => TypeOK /\ Exclusive /\ Judged /\ ServedIsCounted
  BY InitTyped, BooksInit
<1>2. TypeOK /\ Exclusive /\ Judged /\ ServedIsCounted /\ [Next]_vars
          => (TypeOK /\ Exclusive /\ Judged /\ ServedIsCounted)'
  BY NextTyped, ExclusiveNext, JudgedNext, CountedNext
<1> QED BY <1>1, <1>2, PTL DEF Spec

\* With one process on Redis no month gives an agent more unpaid calls than the
\* quota of its tier.
THEOREM FreeQuotaTheorem ==
    ASSUME NEW q, Procs = {q}, Durable
    PROVE  Spec => []FreeWithinQuota
<1> DEFINE IInv == TypeOK /\ Exclusive /\ Judged /\ ServedIsCounted /\ FreeWithinQuota
<1>1. Init => IInv
  BY InitTyped, BooksInit
<1>2. IInv /\ [Next]_vars => IInv'
  BY NextTyped, ExclusiveNext, JudgedNext, CountedNext, FreeNext
<1> QED BY <1>1, <1>2, PTL DEF Spec

\* With one process on Redis credits are conserved: the balance is what was
\* granted less what was spent, and is never negative.
THEOREM CreditsTheorem ==
    ASSUME NEW q, Procs = {q}, Durable
    PROVE  Spec => []CreditsConserved
<1> DEFINE IInv == TypeOK /\ Exclusive /\ Judged /\ CreditsConserved
<1>1. Init => IInv
  BY InitTyped, BooksInit
<1>2. IInv /\ [Next]_vars => IInv'
  BY NextTyped, ExclusiveNext, JudgedNext, CreditsNext
<1> QED BY <1>1, <1>2, PTL DEF Spec
-----------------------------------------------------------------------------
(* Stripe purchases on Redis, with any number of processes: the mark in Redis *)
(* is set before the grant and never taken back, so a key is taken by one     *)
(* delivery, whose grant may have been cut short.                             *)

Took(d) == dpc[d] \in {"marked", "granted", "cut"}

\* A key in the store was put there by a delivery, a delivery behind the mark has
\* its key in the store, and no two have the same one.
MarksHold ==
    /\ \A d \in Deliveries : Took(d) /\ KeyOf[d] # NoKey => KeyOf[d] \in fulfilled
    /\ \A d \in Deliveries : dpc[d] = "already" => KeyOf[d] \in fulfilled
    /\ \A k \in fulfilled : \E e \in Deliveries : KeyOf[e] = k /\ Took(e)
    /\ \A d, e \in Deliveries :
           d # e /\ KeyOf[d] = KeyOf[e] /\ Took(d) /\ Took(e) => KeyOf[d] = NoKey

\* A delivery that takes no key leaves every mark as it was.
LEMMA MarksKept ==
    ASSUME MarksHold, UNCHANGED fulfilled,
           \A d \in Deliveries : Took(d) => Took(d)',
           \A d \in Deliveries : Took(d)' => Took(d) \/ KeyOf[d] = NoKey,
           \A d \in Deliveries : dpc'[d] = "already" =>
               dpc[d] = "already" \/ KeyOf[d] \in fulfilled
    PROVE  MarksHold'
BY DEF MarksHold

\* A delivery that is first to set its key is the only one behind that mark.
LEMMA MarkTaken ==
    ASSUME MarksHold, NEW d \in Deliveries, KeyOf[d] \notin fulfilled, ~Took(d),
           fulfilled' = fulfilled \cup {KeyOf[d]}, Took(d)',
           \A e \in Deliveries : e # d => dpc'[e] = dpc[e]
    PROVE  MarksHold'
<1>1. \A e \in Deliveries : e # d => (Took(e)' <=> Took(e))
  BY DEF Took
<1>2. \A e \in Deliveries : e # d /\ Took(e) /\ KeyOf[e] = KeyOf[d] => KeyOf[d] = NoKey
  BY DEF MarksHold
<1>3. \A e \in Deliveries : dpc'[e] = "already" => e # d
  BY DEF Took
<1>4. \A e \in Deliveries : Took(e) => e # d /\ Took(e)'
  BY <1>1
<1> QED BY <1>1, <1>2, <1>3, <1>4 DEF MarksHold

\* Every command, grant and fault keeps the marks, whichever processes run them.
LEMMA MarksNext == ASSUME Durable, TypeOK, MarksHold, [Next]_vars PROVE MarksHold'
<1> USE DEF Goto, callVars, delVars, store
<1>1. ASSUME UNCHANGED <<fulfilled, dpc>> PROVE MarksHold'
  BY <1>1, MarksKept DEF Took
<1>2. ASSUME NEW d \in Deliveries, NEW p \in Procs, Purchase(d, p) PROVE MarksHold'
  BY <1>2, MarksKept DEF Purchase, Took, TypeOK
<1>3. ASSUME NEW d \in Deliveries, NEW p \in Procs, MarkFulfilled(d, p) PROVE MarksHold'
  <2>1. CASE KeyOf[d] \in fulfilled
    BY <1>3, <2>1, MarksKept DEF MarkFulfilled, Took, TypeOK
  <2>2. CASE KeyOf[d] \notin fulfilled
    <3>1. ~Took(d) /\ Took(d)' /\ fulfilled' = fulfilled \cup {KeyOf[d]}
      BY <1>3, <2>2 DEF MarkFulfilled, Took, TypeOK
    <3>2. \A e \in Deliveries : e # d => dpc'[e] = dpc[e]
      BY <1>3, <2>2 DEF MarkFulfilled, TypeOK
    <3> QED BY <2>2, <3>1, <3>2, MarkTaken
  <2> QED BY <2>1, <2>2
<1>4. ASSUME NEW d \in Deliveries, Fulfill(d) PROVE MarksHold'
  BY <1>4, MarksKept DEF Fulfill, Took, TypeOK
<1>5. ASSUME NEW d \in Deliveries, DeliveryRaises(d) PROVE MarksHold'
  <2>1. CASE dpc[d] = "new"
    <3>1. ~Took(d) /\ Took(d)' /\ fulfilled' = fulfilled \cup {KeyOf[d]}
          /\ KeyOf[d] \notin fulfilled
      BY <1>5, <2>1 DEF DeliveryRaises, Took, TypeOK
    <3>2. \A e \in Deliveries : e # d => dpc'[e] = dpc[e]
      BY <1>5, <2>1 DEF DeliveryRaises, TypeOK
    <3> QED BY <3>1, <3>2, MarkTaken
  <2>2. CASE dpc[d] # "new"
    <3>1. dpc[d] = "marked" /\ UNCHANGED fulfilled
      BY <1>5, <2>2 DEF DeliveryRaises
    <3>2. dpc'[d] \in {"cut", "granted"} /\ \A e \in Deliveries : e # d => dpc'[e] = dpc[e]
      BY <1>5, <2>2 DEF DeliveryRaises, TypeOK
    <3> QED BY <3>1, <3>2, MarksKept DEF Took
  <2> QED BY <2>1, <2>2
<1>6. ASSUME NEW p \in Procs, Restart(p) PROVE MarksHold'
  BY <1>6, MarksKept DEF Restart, Took, TypeOK
<1>7. ASSUME NEW c \in Calls, CallRaises(c) PROVE MarksHold'
  BY <1>1, <1>7 DEF CallRaises
<1>8. ASSUME NEW c \in Calls,
             ReadCalls(c) \/ ReadCredits(c) \/ Spend(c) \/ Clamp(c) \/ Count(c)
      PROVE  MarksHold'
  BY <1>1, <1>8 DEF ReadCalls, ReadCredits, Spend, Clamp, Count
<1>9. ASSUME NEW c \in Calls, NEW p \in Procs, NEW a \in Agents, ReadTier(c, p, a)
      PROVE  MarksHold'
  BY <1>1, <1>9 DEF ReadTier
<1>10. CASE Tick \/ UNCHANGED vars
  BY <1>1, <1>10 DEF Tick, vars
<1> QED
  BY <1>2, <1>3, <1>4, <1>5, <1>6, <1>7, <1>8, <1>9, <1>10 DEF Next

\* On Redis a Stripe purchase is granted at most once, on any number of processes,
\* however often its webhook comes and whatever raises or dies, and "already
\* fulfilled" is only said of a purchase another delivery took.
THEOREM FulfilledTheorem == ASSUME Durable PROVE Spec => []FulfilledOnce
<1>1. Init => TypeOK /\ MarksHold
  BY InitTyped DEF Init, MarksHold, Took
<1>2. TypeOK /\ MarksHold /\ [Next]_vars => (TypeOK /\ MarksHold)'
  BY NextTyped, MarksNext
<1>3. MarksHold => FulfilledOnce
  BY DEF MarksHold, FulfilledOnce, Took
<1> QED BY <1>1, <1>2, <1>3, PTL DEF Spec

-----------------------------------------------------------------------------
(* The rate of one process, as long as nothing fails: the window it keeps has *)
(* every call that may fall into one minute with the call under way.          *)

Served(c) == cpc[c] = "served"

\* A call under way began when the calls that are served now had begun, and has those
\* of the minute before it in its agent's window; so has the clock.
WindowHolds ==
    /\ \A c, d \in Calls : cpc[c] \in Running /\ Served(d) => at[d] <= at[c]
    /\ \A c \in Calls : cpc[c] # "new" => at[c] <= now
    /\ \A d \in Calls : Served(d) /\ at[d] >= now - Minute => d \in window[proc[d]][agent[d]]
    /\ \A c, d \in Calls :
          /\ cpc[c] \in Running /\ Served(d)
          /\ agent[d] = agent[c] /\ at[d] >= at[c] - Minute
          => d \in window[proc[c]][agent[c]]

\* A call that goes on the quota found room in the window, for a tier its agent has.
RoomHeld ==
    \A c \in Calls :
        /\ cpc[c] = "clamp" => path[c] = "credit"
        /\ cpc[c] \in Running /\ seenTier[c] = "pro" => tier[agent[c]] = "pro"
        /\ cpc[c] = "count" /\ path[c] = "quota" =>
              Cardinality(window[proc[c]][agent[c]]) < Rate(seenTier[c])

OnQuotaIn(a, t) ==
    {c \in Calls : /\ cpc[c] = "served" /\ path[c] = "quota"
                   /\ agent[c] = a /\ at[c] \in (t - Minute) .. t}

RateInv == faults = 0 => WindowHolds /\ RoomHeld

LEMMA RateInit == Init => RateInv /\ QuotaCallsWithinRate
<1> SUFFICES ASSUME Init PROVE RateInv /\ QuotaCallsWithinRate
  OBVIOUS
<1>1. RateInv
  BY DEF Init, RateInv, WindowHolds, RoomHeld, Served, Running
<1>2. \A a, t : OnQuotaIn(a, t) = {}
  BY DEF Init, OnQuotaIn
<1>3. \A a \in Agents : Rate(tier[a]) \in Nat
  BY QuotaAssumption DEF Rate
<1>4. Cardinality({}) = 0
  BY FS_EmptySet
<1>5. \A a \in Agents, t \in 0 .. MaxTime : Cardinality(OnQuotaIn(a, t)) <= Rate(tier[a])
  BY <1>2, <1>3, <1>4
<1>6. QED
  BY <1>1, <1>5 DEF QuotaCallsWithinRate, OnQuotaIn

\* A higher tier has the higher rate.
LEMMA RateGrows ==
    /\ \A x : Rate(x) \in Nat
    /\ \A x, y : (x = "pro" => y = "pro") => Rate(x) <= Rate(y)
  BY QuotaAssumption DEF Rate

\* Without a fault nothing takes a tier back.
LEMMA TierKept ==
    ASSUME TypeOK, [Next]_vars, faults' = 0
    PROVE  faults = 0 /\ \A a \in Agents : tier[a] = "pro" => tier'[a] = "pro"
<1>1. ~Fault
  BY DEF Fault, TypeOK
<1>2. CASE Tick \/ UNCHANGED vars
  BY <1>2 DEF Tick, vars, store
<1>3. ASSUME NEW c \in Calls,
             \/ \E p \in Procs, a \in Agents : ReadTier(c, p, a)
             \/ ReadCalls(c) \/ ReadCredits(c) \/ Spend(c) \/ Clamp(c) \/ Count(c)
      PROVE  UNCHANGED <<faults, tier>>
  BY <1>3 DEF ReadTier, ReadCalls, ReadCredits, Spend, Clamp, Count, store
<1>4. ASSUME NEW d \in Deliveries,
             (\E p \in Procs : Purchase(d, p) \/ MarkFulfilled(d, p)) \/ Fulfill(d)
      PROVE  UNCHANGED faults /\ (Grant(d) \/ UNCHANGED tier)
  BY <1>4 DEF Purchase, MarkFulfilled, Fulfill
<1>5. \A d \in Deliveries : Grant(d) => \A a \in Agents : tier[a] = "pro" => tier'[a] = "pro"
  BY DEF Grant, TypeOK
<1>6. QED
  BY <1>1, <1>2, <1>3, <1>4, <1>5 DEF Next, CallRaises, DeliveryRaises, Restart

LEMMA RateKeeps ==
    ASSUME NEW q, Procs = {q}, TypeOK, TypeOK', Exclusive, RateInv, [Next]_vars
    PROVE  RateInv'
<1> SUFFICES ASSUME faults' = 0 PROVE (WindowHolds /\ RoomHeld)'
  BY DEF RateInv
<1>1. faults = 0 /\ WindowHolds /\ RoomHeld /\ ~Fault
      /\ \A a \in Agents : tier[a] = "pro" => tier'[a] = "pro"
  <2>1. faults = 0 /\ \A a \in Agents : tier[a] = "pro" => tier'[a] = "pro"
    BY TierKept
  <2>2. ~Fault
    BY DEF Fault, TypeOK
  <2>3. QED
    BY <2>1, <2>2 DEF RateInv
<1> USE DEF Goto, callVars, delVars, store
<1>2. CASE Tick
  <2>1. now' = now + 1 /\ now \in Int /\ UNCHANGED <<window, callVars, tier>>
    BY <1>2 DEF Tick, TypeOK
  <2>2. \A c \in Calls : at[c] \in Int
    BY DEF TypeOK
  <2>3. Minute \in Nat
    BY QuotaAssumption
  <2>4. \A c \in Calls : /\ at[c] <= now => at[c] <= now + 1
                         /\ at[c] >= (now + 1) - Minute => at[c] >= now - Minute
    BY <2>1, <2>2, <2>3
  <2>5. WindowHolds'
    BY <1>1, <2>1, <2>4 DEF WindowHolds, Served
  <2>6. RoomHeld'
    BY <1>1, <2>1 DEF RoomHeld
  <2>7. QED
    BY <2>5, <2>6
<1>3. ASSUME NEW c \in Calls, NEW p \in Procs, NEW a \in Agents, ReadTier(c, p, a)
      PROVE  (WindowHolds /\ RoomHeld)'
  <2>1. /\ \A x \in Calls : cpc[x] \notin Running
        /\ cpc[c] = "new" /\ p = q
    BY <1>3, IdleMeansAll DEF ReadTier
  <2>2. /\ cpc'[c] = "calls" /\ agent'[c] = a /\ proc'[c] = p /\ at'[c] = now
        /\ seenTier'[c] = tier[a] /\ window'[p][a] = Recent(p, a)
        /\ \A b \in Agents : b # a => window'[p][b] = window[p][b]
        /\ UNCHANGED <<now, tier, path>>
        /\ \A x \in Calls : x # c => /\ cpc'[x] = cpc[x] /\ agent'[x] = agent[x]
                                     /\ proc'[x] = proc[x] /\ at'[x] = at[x]
    BY <1>3 DEF ReadTier, TypeOK
  <2>3. \A x \in Calls : Served(x)' <=> Served(x) /\ x # c
    BY <2>1, <2>2 DEF Served
  <2>4. \A x \in Calls : Served(x) => /\ x # c /\ at[x] \in Int /\ at[x] <= now
                                      /\ agent[x] \in Agents /\ proc[x] = p
    BY <1>1, <2>1 DEF Served, WindowHolds, TypeOK
  <2>5. now \in Int /\ Minute \in Nat
    BY QuotaAssumption DEF TypeOK
  <2>6. \A x \in Calls : Served(x) /\ at[x] >= now - Minute => x \in window'[p][agent[x]]
    BY <1>1, <2>2, <2>4 DEF WindowHolds, Recent
  <2>7. \A x \in Calls : cpc'[x] \in Running => x = c
    BY <2>1, <2>2
  <2>8. WindowHolds'
    <3>1. \A x, d \in Calls : cpc'[x] \in Running /\ Served(d)' => at'[d] <= at'[x]
      BY <2>2, <2>3, <2>4, <2>7
    <3>2. \A x \in Calls : cpc'[x] # "new" => at'[x] <= now'
      BY <1>1, <2>2, <2>5 DEF WindowHolds
    <3>3. \A d \in Calls : Served(d)' /\ at'[d] >= now' - Minute
                            => d \in window'[proc'[d]][agent'[d]]
      BY <2>2, <2>3, <2>4, <2>6
    <3>4. \A x, d \in Calls :
             /\ cpc'[x] \in Running /\ Served(d)'
             /\ agent'[d] = agent'[x] /\ at'[d] >= at'[x] - Minute
             => d \in window'[proc'[x]][agent'[x]]
      BY <2>2, <2>3, <2>4, <2>6, <2>7
    <3>5. QED
      BY <3>1, <3>2, <3>3, <3>4 DEF WindowHolds
  <2>9. RoomHeld'
    <3> SUFFICES ASSUME NEW x \in Calls
                 PROVE  /\ cpc'[x] = "clamp" => path'[x] = "credit"
                        /\ cpc'[x] \in Running /\ seenTier'[x] = "pro" => tier'[agent'[x]] = "pro"
                        /\ cpc'[x] = "count" /\ path'[x] = "quota" =>
                              Cardinality(window'[proc'[x]][agent'[x]]) < Rate(seenTier'[x])
      BY DEF RoomHeld
    <3>1. CASE x = c
      BY <2>2, <3>1
    <3>2. CASE x # c
      BY <2>7, <3>2 DEF Running
    <3>3. QED
      BY <3>1, <3>2
  <2>10. QED
    BY <2>8, <2>9
\* The commands of the call under way: the window stays.
<1>4. ASSUME NEW c \in Calls, ReadCalls(c) \/ ReadCredits(c) \/ Spend(c) \/ Clamp(c)
      PROVE  (WindowHolds /\ RoomHeld)'
  <2>1. /\ cpc[c] \in Running /\ cpc'[c] # "served" /\ cpc'[c] # "new"
        /\ \A x \in Calls : x # c => cpc'[x] = cpc[x]
        /\ UNCHANGED <<now, window, agent, proc, at, seenTier, tier>>
    BY <1>4 DEF ReadCalls, ReadCredits, Spend, Clamp, Running, TypeOK
  <2>2. \A x \in Calls : x # c => cpc[x] \notin Running
    BY <2>1 DEF Exclusive
  <2>3. \A x \in Calls : (Served(x)' <=> Served(x)) /\ (cpc'[x] \in Running => cpc[x] \in Running)
    BY <2>1 DEF Served, Running
  <2>4. WindowHolds'
    BY <1>1, <2>1, <2>3 DEF WindowHolds, Running
  <2>5. \A x \in Calls : x # c => path'[x] = path[x]
    BY <1>4 DEF ReadCalls, ReadCredits, Spend, Clamp, TypeOK
  <2>6. cpc'[c] = "clamp" => path'[c] = "credit"
    BY <1>4 DEF ReadCalls, ReadCredits, Spend, Clamp, TypeOK
  <2>7. cpc'[c] = "count" /\ path'[c] = "quota" =>
           Cardinality(window[proc[c]][agent[c]]) < Rate(seenTier[c])
    <3>1. CASE ReadCalls(c)
      BY <3>1 DEF ReadCalls, TypeOK
    <3>2. CASE ReadCredits(c)
      BY <3>2 DEF ReadCredits, TypeOK
    <3>3. CASE Spend(c)
      BY <3>3 DEF Spend, TypeOK
    <3>4. CASE Clamp(c)
      BY <1>1, <3>4 DEF Clamp, TypeOK, RoomHeld
    <3>5. QED
      BY <1>4, <3>1, <3>2, <3>3, <3>4
  <2>8. RoomHeld'
    BY <1>1, <2>1, <2>2, <2>3, <2>5, <2>6, <2>7 DEF RoomHeld, Running
  <2>9. QED
    BY <2>4, <2>8
<1>5. ASSUME NEW c \in Calls, Count(c)
      PROVE  (WindowHolds /\ RoomHeld)'
  <2>1. /\ cpc[c] = "count" /\ cpc'[c] = "served"
        /\ \A x \in Calls : x # c => cpc'[x] = cpc[x] /\ cpc[x] \notin Running
        /\ UNCHANGED <<now, agent, proc, at, seenTier, tier, path>>
        /\ proc[c] \in Procs /\ agent[c] \in Agents
    BY <1>5 DEF Count, TypeOK, Exclusive, Running
  <2>2. c \in window'[proc[c]][agent[c]]
        /\ \A x \in Calls, p \in Procs, a \in Agents : x \in window[p][a] => x \in window'[p][a]
    BY <1>5, <2>1 DEF Count, TypeOK
  <2>3. \A x \in Calls : cpc'[x] \notin Running
    BY <2>1 DEF Running
  <2>4. \A x \in Calls : Served(x)' => x = c \/ Served(x)
    BY <2>1 DEF Served
  <2>5. \A x \in Calls : Served(x) => proc[x] \in Procs /\ agent[x] \in Agents
    BY DEF Served, TypeOK
  <2>6. WindowHolds'
    BY <1>1, <2>1, <2>2, <2>3, <2>4, <2>5 DEF WindowHolds
  <2>7. RoomHeld'
    BY <2>3 DEF RoomHeld, Running
  <2>8. QED
    BY <2>6, <2>7
<1>6. ASSUME NEW d \in Deliveries,
             (\E p \in Procs : Purchase(d, p) \/ MarkFulfilled(d, p)) \/ Fulfill(d)
      PROVE  (WindowHolds /\ RoomHeld)'
  <2>1. UNCHANGED <<now, window, callVars>>
    BY <1>6 DEF Purchase, MarkFulfilled, Fulfill
  <2>2. WindowHolds'
    BY <1>1, <2>1 DEF WindowHolds, Served
  <2>3. \A c \in Calls : cpc[c] \in Running => agent[c] \in Agents
    BY DEF TypeOK, Running
  <2>4. RoomHeld'
    BY <1>1, <2>1, <2>3 DEF RoomHeld
  <2>5. QED
    BY <2>2, <2>4
<1>7. CASE UNCHANGED vars
  BY <1>1, <1>7 DEF vars, WindowHolds, RoomHeld, Served
<1>8. QED
  BY <1>1, <1>2, <1>3, <1>4, <1>5, <1>6, <1>7 DEF Next, CallRaises, DeliveryRaises, Restart

LEMMA RateNext ==
    ASSUME NEW q, Procs = {q}, TypeOK, TypeOK', Exclusive, RateInv, QuotaCallsWithinRate,
           [Next]_vars
    PROVE  QuotaCallsWithinRate'
<1> SUFFICES ASSUME faults' = 0, NEW a \in Agents, NEW t \in 0 .. MaxTime
             PROVE  Cardinality(OnQuotaIn(a, t)') <= Rate(tier'[a])
  BY DEF QuotaCallsWithinRate, OnQuotaIn
<1>1. faults = 0 /\ WindowHolds /\ RoomHeld /\ ~Fault
      /\ Rate(tier[a]) <= Rate(tier'[a]) /\ Rate(tier[a]) \in Nat /\ Rate(tier'[a]) \in Nat
  <2>1. faults = 0 /\ (tier[a] = "pro" => tier'[a] = "pro")
    BY TierKept
  <2>2. ~Fault
    BY DEF Fault, TypeOK
  <2>3. QED
    BY <2>1, <2>2, RateGrows DEF RateInv
<1>2. /\ Cardinality(OnQuotaIn(a, t)) <= Rate(tier[a])
      /\ IsFiniteSet(OnQuotaIn(a, t)) /\ Cardinality(OnQuotaIn(a, t)) \in Nat
  <2>1. IsFiniteSet(OnQuotaIn(a, t))
    BY FS_Subset, QuotaAssumption DEF OnQuotaIn
  <2>2. QED
    BY <1>1, <2>1, FS_CardinalityType DEF QuotaCallsWithinRate, OnQuotaIn
<1> USE DEF Goto, callVars, delVars, store
<1>3. CASE OnQuotaIn(a, t)' = OnQuotaIn(a, t)
  BY <1>1, <1>2, <1>3
<1>4. ASSUME NEW c \in Calls, Count(c), path[c] = "quota", agent[c] = a, at[c] \in (t - Minute) .. t
      PROVE  Cardinality(OnQuotaIn(a, t)') <= Rate(tier'[a])
  <2>1. /\ cpc[c] = "count" /\ cpc'[c] = "served"
        /\ \A x \in Calls : x # c => cpc'[x] = cpc[x]
        /\ UNCHANGED <<path, agent, at, tier>>
        /\ proc[c] \in Procs
    BY <1>4 DEF Count, TypeOK
  <2>2. OnQuotaIn(a, t)' = OnQuotaIn(a, t) \cup {c} /\ c \notin OnQuotaIn(a, t)
    BY <1>4, <2>1 DEF OnQuotaIn
  <2>3. Cardinality(OnQuotaIn(a, t)') = Cardinality(OnQuotaIn(a, t)) + 1
    BY <1>2, <2>2, FS_AddElement
  <2> DEFINE W == window[proc[c]][agent[c]]
  <2>4. OnQuotaIn(a, t) \subseteq W
    <3> SUFFICES ASSUME NEW d \in OnQuotaIn(a, t) PROVE d \in W
      OBVIOUS
    <3>1. d \in Calls /\ Served(d) /\ agent[d] = agent[c] /\ at[d] \in (t - Minute) .. t
      BY <1>4 DEF OnQuotaIn, Served
    <3>2. Minute \in Nat /\ at[c] \in Int /\ at[d] \in Int /\ t \in Int
      BY <3>1, QuotaAssumption DEF TypeOK
    <3>3. at[d] >= at[c] - Minute
      BY <1>4, <3>1, <3>2
    <3>4. QED
      BY <1>1, <2>1, <3>1, <3>3 DEF WindowHolds, Running
  <2>5. W \subseteq Calls /\ IsFiniteSet(W)
    <3>1. W \subseteq Calls
      BY <1>4, <2>1 DEF TypeOK
    <3>2. QED
      BY <3>1, FS_Subset, QuotaAssumption
  <2>6. Cardinality(OnQuotaIn(a, t)) <= Cardinality(W) /\ Cardinality(W) \in Nat
    BY <2>4, <2>5, FS_Subset, FS_CardinalityType
  <2>7. Cardinality(W) < Rate(seenTier[c]) /\ Rate(seenTier[c]) <= Rate(tier[a])
        /\ Rate(seenTier[c]) \in Nat
    <3>1. Cardinality(W) < Rate(seenTier[c]) /\ (seenTier[c] = "pro" => tier[a] = "pro")
      BY <1>1, <1>4, <2>1 DEF RoomHeld, Running
    <3>2. QED
      BY <3>1, RateGrows
  <2> HIDE DEF W
  <2>8. QED
    BY <1>1, <1>2, <2>3, <2>6, <2>7
<1>5. ASSUME NEW c \in Calls, Count(c), ~(path[c] = "quota" /\ agent[c] = a /\ at[c] \in (t - Minute) .. t)
      PROVE  OnQuotaIn(a, t)' = OnQuotaIn(a, t)
  <2>1. /\ cpc[c] = "count"
        /\ \A x \in Calls : x # c => cpc'[x] = cpc[x]
        /\ UNCHANGED <<path, agent, at>>
    BY <1>5 DEF Count, TypeOK
  <2>2. QED
    BY <1>5, <2>1 DEF OnQuotaIn
<1>6. ASSUME NEW c \in Calls,
             \/ \E p \in Procs, x \in Agents : ReadTier(c, p, x)
             \/ ReadCalls(c) \/ ReadCredits(c) \/ Spend(c) \/ Clamp(c)
      PROVE  OnQuotaIn(a, t)' = OnQuotaIn(a, t)
  <2>1. /\ cpc[c] # "served" /\ cpc'[c] # "served"
        /\ \A x \in Calls : x # c => /\ cpc'[x] = cpc[x] /\ path'[x] = path[x]
                                     /\ agent'[x] = agent[x] /\ at'[x] = at[x]
    BY <1>6 DEF ReadTier, ReadCalls, ReadCredits, Spend, Clamp, TypeOK
  <2>2. QED
    BY <2>1 DEF OnQuotaIn
<1>7. ASSUME NEW d \in Deliveries,
             (\E p \in Procs : Purchase(d, p) \/ MarkFulfilled(d, p)) \/ Fulfill(d)
      PROVE  OnQuotaIn(a, t)' = OnQuotaIn(a, t)
  BY <1>7 DEF Purchase, MarkFulfilled, Fulfill, OnQuotaIn
<1>8. CASE Tick \/ UNCHANGED vars
  BY <1>3, <1>8 DEF Tick, vars, OnQuotaIn
<1>9. QED
  BY <1>1, <1>3, <1>4, <1>5, <1>6, <1>7, <1>8 DEF Next, CallRaises, DeliveryRaises, Restart

\* With one process, on Redis or in memory, and as long as it neither restarts nor has a
\* command raise: no minute, however it lies over the calls, has more of them let through
\* on the quota than the rate of their agent's tier.
THEOREM RateTheorem ==
    ASSUME NEW q, Procs = {q}
    PROVE  Spec => []QuotaCallsWithinRate
<1> DEFINE IInv == TypeOK /\ Exclusive /\ RateInv /\ QuotaCallsWithinRate
<1>1. Init => IInv
  BY InitTyped, RateInit DEF Init, Exclusive, Running
<1>2. IInv /\ [Next]_vars => IInv'
  BY NextTyped, ExclusiveNext, RateKeeps, RateNext
<1> QED BY <1>1, <1>2, PTL DEF Spec

-----------------------------------------------------------------------------
(* The window of the free probes. *)

ProbeSpec == ProbeInit /\ [][ProbeNext]_probeVars

ProbeRecord ==
    [at : {"new", "fetch", "ended"}, door : {"http", "mcp"}, kind : {"url", "card"},
     client : Clients \cup {"none"}, asked : Nat, left : Int,
     answer : {"none", "limited", "unresolved", "blocked", "looked_at", "unreachable", "card"},
     retry : Int]

Since(t) == {u \in Nat : u >= t}
Times(c) == {probe[p].asked : p \in ProbesLetThrough(c)}
FreshProbes(c, t) == {p \in ProbesLetThrough(c) : probe[p].asked >= t}

ProbeTypeOK ==
    /\ probe \in [Probes -> ProbeRecord]
    /\ passed \in [Clients -> Seq(Nat)]
    /\ probeNow \in Nat
    /\ \A p \in Probes : probe[p].at = "fetch" => probe[p].answer # "limited"

\* What is kept of a client counts its requests from any moment on that is not behind
\* the window.
Counted(c) ==
    /\ passed[c] \in Seq(Times(c))
    /\ \A p \in ProbesLetThrough(c) : probe[p].asked <= probeNow
    /\ \A t \in Int : t >= probeNow - ProbeWindow =>
          Cardinality(FreshProbes(c, t)) = Len(Keep(passed[c], Since(t)))

WithinRate(c) ==
    \A t \in Nat :
        Cardinality({p \in ProbesLetThrough(c) :
                        probe[p].asked \in (t - ProbeWindow) .. t}) <= ProbeLimit

\* A client that was refused at t and comes back after the seconds w it was told
\* misses the moment at which a request of moment u is a window old by this much.
Near(t, w, u) ==
    (t + ProbeSecond * w) - (u + ProbeWindow) \in (1 - ProbeSecond) .. ProbeSecond

Refused(p) ==
    probe[p].answer = "limited" =>
        /\ probe[p].client \in Clients
        /\ Cardinality(ProbesBefore(p)) >= ProbeLimit
        /\ \E q \in ProbesBefore(p) : Near(probe[p].asked, probe[p].retry, probe[q].asked)

ProbeInv ==
    /\ ProbeTypeOK
    /\ \A c \in Clients : Counted(c) /\ WithinRate(c)
    /\ \A p \in Probes : Refused(p)

\* A request, field by field.
Request(a, d, k, c, t, l, w, r) ==
    [at |-> a, door |-> d, kind |-> k, client |-> c, asked |-> t, left |-> l, answer |-> w,
     retry |-> r]

LEMMA LetFinite ==
    /\ \A c : ProbesLetThrough(c) \subseteq Probes /\ IsFiniteSet(ProbesLetThrough(c))
    /\ \A c, t : IsFiniteSet(FreshProbes(c, t))
    /\ \A p : IsFiniteSet(ProbesBefore(p))
<1>1. \A c : ProbesLetThrough(c) \subseteq Probes
  BY DEF ProbesLetThrough
<1>2. \A S : S \subseteq Probes => IsFiniteSet(S)
  BY FS_Subset, ProbeAssumption
<1>3. \A c, t : FreshProbes(c, t) \subseteq Probes
  BY <1>1 DEF FreshProbes
<1>4. \A p : ProbesBefore(p) \subseteq Probes
  BY <1>1 DEF ProbesBefore
<1>5. QED
  BY <1>1, <1>2, <1>3, <1>4

LEMMA ProbeInitInv == ProbeInit => ProbeInv
<1> SUFFICES ASSUME ProbeInit PROVE ProbeInv
  OBVIOUS
<1>1. \A p \in Probes : probe[p] = Unprobed
  BY DEF ProbeInit
<1>2. Unprobed \in ProbeRecord
  BY DEF Unprobed, ProbeRecord
<1>3. Unprobed.at = "new" /\ Unprobed.answer = "none"
  BY DEF Unprobed
<1>4. ProbeTypeOK
  BY <1>1, <1>2, <1>3 DEF ProbeInit, ProbeTypeOK
<1>5. \A c : ProbesLetThrough(c) = {}
  BY <1>1, <1>3 DEF ProbesLetThrough
<1>6. Cardinality({}) = 0
  BY FS_EmptySet
<1>7. ASSUME NEW c \in Clients PROVE Counted(c)
  <2>1. passed[c] = <<>>
    BY DEF ProbeInit
  <2>2. \A t : Keep(<<>>, Since(t)) = <<>>
    BY KeepEmpty
  <2>3. \A t : FreshProbes(c, t) = {}
    BY <1>5 DEF FreshProbes
  <2>4. <<>> \in Seq(Times(c)) /\ Len(<<>>) = 0
    OBVIOUS
  <2>5. passed[c] \in Seq(Times(c))
    BY <2>1, <2>4
  <2>6. \A p \in ProbesLetThrough(c) : probe[p].asked <= probeNow
    BY <1>5
  <2>7. \A t : Cardinality(FreshProbes(c, t)) = Len(Keep(passed[c], Since(t)))
    BY <1>6, <2>1, <2>2, <2>3, <2>4
  <2>8. QED
    BY <2>5, <2>6, <2>7 DEF Counted
<1>8. ASSUME NEW c \in Clients PROVE WithinRate(c)
  <2>1. \A t : {p \in ProbesLetThrough(c) : probe[p].asked \in (t - ProbeWindow) .. t} = {}
    BY <1>5
  <2>2. 0 <= ProbeLimit
    BY ProbeAssumption
  <2>3. QED
    BY <1>6, <2>1, <2>2 DEF WithinRate
<1>9. \A p \in Probes : Refused(p)
  BY <1>1, <1>3 DEF Refused
<1>10. QED
  BY <1>4, <1>7, <1>8, <1>9 DEF ProbeInv

-----------------------------------------------------------------------------
\* A request that was let through goes on: nothing that was counted changes.
GoesOn(p) ==
    /\ probe[p].at = "fetch" /\ UNCHANGED <<passed, probeNow>>
    /\ probe' \in [Probes -> ProbeRecord]
    /\ \A q \in Probes : q # p => probe'[q] = probe[q]
    /\ probe'[p].at # "new" /\ probe'[p].answer # "limited"
    /\ probe'[p].client = probe[p].client /\ probe'[p].asked = probe[p].asked

\* A request begins as n.
Begins(p, n) ==
    /\ probe[p].at = "new" /\ n \in ProbeRecord /\ n.at # "new"
    /\ probe' = [probe EXCEPT ![p] = n] /\ UNCHANGED probeNow
    /\ n.at = "fetch" => n.answer # "limited"

LEMMA GoesOnInv ==
    ASSUME ProbeInv, NEW p \in Probes, GoesOn(p) PROVE ProbeInv'
<1>1. ProbeTypeOK'
  BY DEF GoesOn, ProbeInv, ProbeTypeOK
<1>2. probe[p].answer # "limited" /\ probe[p].at # "new"
  BY DEF GoesOn, ProbeInv, ProbeTypeOK
<1>3. /\ \A q \in Probes : /\ probe'[q].asked = probe[q].asked
                           /\ probe'[q].client = probe[q].client
                           /\ probe'[q].answer = "limited" <=> probe[q].answer = "limited"
                           /\ probe'[q].at = "new" <=> probe[q].at = "new"
      /\ \A q \in Probes : probe'[q].answer = "limited" => probe'[q] = probe[q]
  BY <1>2 DEF GoesOn
<1>4. \A c : ProbesLetThrough(c)' = ProbesLetThrough(c)
  BY <1>3 DEF ProbesLetThrough
<1>5. \A c : Times(c)' = Times(c) /\ \A t : FreshProbes(c, t)' = FreshProbes(c, t)
  BY <1>3, <1>4, LetFinite DEF Times, FreshProbes
<1>6. ASSUME NEW c \in Clients PROVE Counted(c)'
  <2>1. Counted(c)
    BY DEF ProbeInv
  <2>2. UNCHANGED <<passed, probeNow>>
    BY DEF GoesOn
  <2>3. \A q \in ProbesLetThrough(c) : q \in Probes
    BY LetFinite
  <2>4. QED
    BY <1>3, <1>4, <1>5, <2>1, <2>2, <2>3 DEF Counted
<1>7. ASSUME NEW c \in Clients PROVE WithinRate(c)'
  <2>1. \A t : {q \in ProbesLetThrough(c)' : probe'[q].asked \in (t - ProbeWindow) .. t}
             = {q \in ProbesLetThrough(c) : probe[q].asked \in (t - ProbeWindow) .. t}
    BY <1>3, <1>4, LetFinite
  <2>2. QED
    BY <2>1 DEF WithinRate, ProbeInv
<1>8. ASSUME NEW q \in Probes PROVE Refused(q)'
  <2>1. CASE probe'[q].answer # "limited"
    BY <2>1 DEF Refused
  <2>2. CASE probe'[q].answer = "limited"
    <3>1. probe'[q] = probe[q] /\ probe[q].answer = "limited"
      BY <1>3, <2>2
    <3>2. ProbesBefore(q)' = ProbesBefore(q)
      BY <1>3, <1>4, <3>1, LetFinite DEF ProbesBefore
    <3>3. Refused(q)
      BY DEF ProbeInv
    <3>4. \A r \in ProbesBefore(q) : probe'[r].asked = probe[r].asked
      BY <1>3, LetFinite DEF ProbesBefore
    <3>5. QED
      BY <3>1, <3>2, <3>3, <3>4 DEF Refused
  <2>3. QED
    BY <2>1, <2>2
<1>9. QED
  BY <1>1, <1>6, <1>7, <1>8 DEF ProbeInv

\* What a new request does to those that were let through.
LEMMA BeginsLet ==
    ASSUME ProbeInv, NEW p \in Probes, NEW n, Begins(p, n)
    PROVE  /\ \A c : p \notin ProbesLetThrough(c)
           /\ \A c : ProbesLetThrough(c)' = ProbesLetThrough(c) \cup
                        (IF n.client = c /\ n.answer # "limited" THEN {p} ELSE {})
           /\ probe'[p] = n /\ \A q \in Probes : q # p => probe'[q] = probe[q]
           /\ \A c : \A q \in ProbesLetThrough(c) : probe'[q] = probe[q]
<1>1. probe'[p] = n /\ \A q \in Probes : q # p => probe'[q] = probe[q]
  BY DEF Begins, ProbeInv, ProbeTypeOK
<1>2. \A c : p \notin ProbesLetThrough(c)
  BY DEF Begins, ProbesLetThrough
<1>3. ASSUME NEW c PROVE ProbesLetThrough(c)' = ProbesLetThrough(c) \cup
                        (IF n.client = c /\ n.answer # "limited" THEN {p} ELSE {})
  BY <1>1 DEF Begins, ProbesLetThrough
<1>4. \A c : \A q \in ProbesLetThrough(c) : probe'[q] = probe[q]
  BY <1>1, <1>2, LetFinite
<1>5. QED
  BY <1>1, <1>2, <1>3, <1>4

\* Who was refused stays refused for the same reason.
LEMMA BeginsRefused ==
    ASSUME ProbeInv, NEW p \in Probes, NEW n, Begins(p, n), NEW q \in Probes, q # p
    PROVE  Refused(q)'
<1> SUFFICES ASSUME probe'[q].answer = "limited" PROVE Refused(q)'
  BY DEF Refused
<1>1. probe'[q] = probe[q] /\ Refused(q)
  BY BeginsLet DEF ProbeInv
<1>2. ProbesBefore(q) \subseteq ProbesBefore(q)'
  BY <1>1, BeginsLet DEF ProbesBefore
<1>3. \A r \in ProbesBefore(q) : probe'[r] = probe[r]
  BY BeginsLet DEF ProbesBefore
<1>4. IsFiniteSet(ProbesBefore(q)') /\ IsFiniteSet(ProbesBefore(q))
  <2>1. ProbesBefore(q)' \subseteq Probes
    BY DEF ProbesBefore, ProbesLetThrough
  <2>2. QED
    BY <2>1, LetFinite, FS_Subset, ProbeAssumption
<1>5. Cardinality(ProbesBefore(q)) <= Cardinality(ProbesBefore(q)')
      /\ Cardinality(ProbesBefore(q)) \in Nat /\ Cardinality(ProbesBefore(q)') \in Nat
  BY <1>2, <1>4, FS_Subset, FS_CardinalityType
<1>6. Cardinality(ProbesBefore(q)) >= ProbeLimit /\ ProbeLimit \in Nat /\ probe[q].client \in Clients
      /\ \E r \in ProbesBefore(q) : Near(probe[q].asked, probe[q].retry, probe[r].asked)
  BY <1>1, ProbeAssumption DEF Refused
<1>7. Cardinality(ProbesBefore(q)') >= ProbeLimit
  BY <1>5, <1>6
<1>8. QED
  BY <1>1, <1>2, <1>3, <1>6, <1>7 DEF Refused

\* The window after the old requests have left.
LEMMA RecentIs ==
    ASSUME ProbeInv, NEW c \in Clients
    PROVE  /\ ProbesRecent(c) \in Seq(Times(c)) /\ Times(c) \subseteq Nat
           /\ ProbesRecent(c) \in Seq(Nat)
           /\ \A i \in 1 .. Len(ProbesRecent(c)) : ProbesRecent(c)[i] >= probeNow - ProbeWindow
           /\ Cardinality(FreshProbes(c, probeNow - ProbeWindow)) = Len(ProbesRecent(c))
           /\ \A t \in Int : t >= probeNow - ProbeWindow =>
                 Keep(ProbesRecent(c), Since(t)) = Keep(passed[c], Since(t))
<1> DEFINE cut == probeNow - ProbeWindow
<1>1. cut \in Int
  BY ProbeAssumption DEF ProbeInv, ProbeTypeOK
<1>2. ProbesRecent(c) = Keep(passed[c], Since(cut))
  BY DEF ProbesRecent, Since
<1>3. Times(c) \subseteq Nat
  BY LetFinite DEF Times, ProbeInv, ProbeTypeOK, ProbeRecord
<1>4. passed[c] \in Seq(Times(c)) /\ passed[c] \in Seq(Nat)
  BY DEF ProbeInv, Counted, ProbeTypeOK
<1>5. ProbesRecent(c) \in Seq(Times(c)) /\ ProbesRecent(c) \in Seq(Nat)
  BY <1>2, <1>4, KeepType
<1>6. Keep(passed[c], Since(cut)) \in Seq(Since(cut))
  BY <1>4, KeepIn DEF Since
<1>7. \A i \in 1 .. Len(ProbesRecent(c)) : ProbesRecent(c)[i] >= cut
  BY <1>2, <1>6 DEF Since
<1>8. Cardinality(FreshProbes(c, cut)) = Len(ProbesRecent(c))
  BY <1>1, <1>2 DEF ProbeInv, Counted
<1>9. ASSUME NEW t \in Int, t >= cut PROVE Keep(ProbesRecent(c), Since(t)) = Keep(passed[c], Since(t))
  <2>1. \A x \in Nat : x \in Since(t) <=> (x \in Since(cut) /\ x \in Since(t))
    BY <1>1, <1>9 DEF Since
  <2>2. QED
    BY <1>2, <1>4, <2>1, KeepKeep
<1>10. QED
  BY <1>3, <1>5, <1>7, <1>8, <1>9

\* A request through one of the tools, which has no client.
LEMMA ToolInv ==
    ASSUME ProbeInv, NEW p \in Probes, NEW n, Begins(p, n), n.client = "none",
           n.answer # "limited", UNCHANGED passed
    PROVE  ProbeInv'
<1>1. ProbeTypeOK'
  BY DEF Begins, ProbeInv, ProbeTypeOK
<1>2. \A c \in Clients : ProbesLetThrough(c)' = ProbesLetThrough(c)
  BY BeginsLet, ProbeAssumption
<1>3. \A c \in Clients : \A q \in ProbesLetThrough(c) : probe'[q] = probe[q]
  BY BeginsLet
<1>4. \A c \in Clients : Times(c)' = Times(c) /\ \A t : FreshProbes(c, t)' = FreshProbes(c, t)
  BY <1>2, <1>3 DEF Times, FreshProbes
<1>5. probeNow' = probeNow
  BY DEF Begins
<1>6. ASSUME NEW c \in Clients PROVE Counted(c)'
  <2>1. Counted(c)
    BY DEF ProbeInv
  <2>2. QED
    BY <1>2, <1>3, <1>4, <1>5, <2>1 DEF Counted
<1>7. ASSUME NEW c \in Clients PROVE WithinRate(c)'
  <2>1. \A t : {q \in ProbesLetThrough(c)' : probe'[q].asked \in (t - ProbeWindow) .. t}
             = {q \in ProbesLetThrough(c) : probe[q].asked \in (t - ProbeWindow) .. t}
    BY <1>2, <1>3
  <2>2. QED
    BY <2>1 DEF WithinRate, ProbeInv
<1>8. Refused(p)'
  BY BeginsLet DEF Refused
<1>9. \A q \in Probes : Refused(q)'
  BY <1>8, BeginsRefused
<1>10. QED
  BY <1>1, <1>6, <1>7, <1>9 DEF ProbeInv

\* A client whose window has room.
LEMMA PassInv ==
    ASSUME ProbeInv, NEW p \in Probes, NEW n, Begins(p, n), NEW c \in Clients, n.client = c,
           n.asked = probeNow, n.answer # "limited", Len(ProbesRecent(c)) < ProbeLimit,
           passed' = [passed EXCEPT ![c] = Append(ProbesRecent(c), probeNow)]
    PROVE  ProbeInv'
<1> DEFINE cut == probeNow - ProbeWindow
           recent == ProbesRecent(c)
<1>1. /\ recent \in Seq(Times(c)) /\ Times(c) \subseteq Nat /\ recent \in Seq(Nat)
      /\ Cardinality(FreshProbes(c, cut)) = Len(recent)
      /\ \A t \in Int : t >= cut => Keep(recent, Since(t)) = Keep(passed[c], Since(t))
  BY RecentIs
<1>2. /\ probeNow \in Nat /\ ProbeWindow \in Nat /\ ProbeLimit \in Nat /\ probeNow' = probeNow
  BY ProbeAssumption DEF ProbeInv, ProbeTypeOK, Begins
<1>3. passed'[c] = Append(recent, probeNow) /\ \A d \in Clients : d # c => passed'[d] = passed[d]
  BY DEF ProbeInv, ProbeTypeOK
<1> HIDE DEF recent
<1>4. Append(recent, probeNow) \in Seq(Nat)
  BY <1>1, <1>2
<1>5. ProbeTypeOK'
  <2>1. passed' \in [Clients -> Seq(Nat)]
    BY <1>4 DEF ProbeInv, ProbeTypeOK, recent
  <2>2. QED
    BY <1>2, <2>1 DEF Begins, ProbeInv, ProbeTypeOK
<1>6. /\ ProbesLetThrough(c)' = ProbesLetThrough(c) \cup {p} /\ p \notin ProbesLetThrough(c)
      /\ probe'[p] = n
      /\ \A d : \A q \in ProbesLetThrough(d) : probe'[q] = probe[q]
      /\ \A d : d # c => ProbesLetThrough(d)' = ProbesLetThrough(d)
  <2>1. /\ \A d : p \notin ProbesLetThrough(d)
        /\ \A d : ProbesLetThrough(d)' = ProbesLetThrough(d) \cup
                     (IF n.client = d /\ n.answer # "limited" THEN {p} ELSE {})
        /\ probe'[p] = n
        /\ \A d : \A q \in ProbesLetThrough(d) : probe'[q] = probe[q]
    BY BeginsLet
  <2>2. n.client = c /\ n.answer # "limited"
    OBVIOUS
  <2>3. ProbesLetThrough(c)' = ProbesLetThrough(c) \cup {p}
    BY <2>1, <2>2
  <2>4. \A d : d # c => ProbesLetThrough(d)' = ProbesLetThrough(d)
    BY <2>1, <2>2
  <2>5. QED
    BY <2>1, <2>3, <2>4
<1>7. \A q \in ProbesLetThrough(c) : probe[q].asked <= probeNow /\ probe[q].asked \in Nat
  BY LetFinite DEF ProbeInv, Counted, ProbeTypeOK, ProbeRecord
<1>8. Counted(c)'
  <2>1. Append(recent, probeNow) \in Seq(Times(c)')
    <3>1. Times(c) \subseteq Times(c)' /\ probeNow \in Times(c)'
      BY <1>6 DEF Times
    <3>2. recent \in Seq(Times(c)')
      BY <1>1, <3>1
    <3>3. QED
      BY <3>1, <3>2
  <2>2. \A q \in ProbesLetThrough(c)' : probe'[q].asked <= probeNow
    BY <1>2, <1>6, <1>7
  <2>3. ASSUME NEW t \in Int, t >= cut
        PROVE  Cardinality(FreshProbes(c, t)') = Len(Keep(Append(recent, probeNow), Since(t)))
    <3>1. Cardinality(FreshProbes(c, t)) = Len(Keep(recent, Since(t)))
      BY <1>1, <2>3 DEF ProbeInv, Counted
    <3>2. Keep(recent, Since(t)) \in Seq(Nat)
      BY <1>1, KeepType
    <3>3. Keep(Append(recent, probeNow), Since(t))
             = IF probeNow \in Since(t) THEN Append(Keep(recent, Since(t)), probeNow)
               ELSE Keep(recent, Since(t))
      <4>1. PICK k \in Nat : k = probeNow
        BY <1>2
      <4>2. PICK s \in Seq(Nat) : s = recent
        BY <1>1
      <4>3. Keep(Append(s, k), Since(t))
               = IF k \in Since(t) THEN Append(Keep(s, Since(t)), k) ELSE Keep(s, Since(t))
        BY KeepAppend
      <4>4. QED
        BY <4>1, <4>2, <4>3
    <3>4. CASE probeNow >= t
      <4>1. FreshProbes(c, t)' = FreshProbes(c, t) \cup {p} /\ p \notin FreshProbes(c, t)
        BY <1>6, <3>4 DEF FreshProbes
      <4>2. Cardinality(FreshProbes(c, t)') = Cardinality(FreshProbes(c, t)) + 1
        BY <4>1, LetFinite, FS_AddElement
      <4>3. probeNow \in Since(t)
        BY <1>2, <3>4 DEF Since
      <4>4. Len(Append(Keep(recent, Since(t)), probeNow)) = Len(Keep(recent, Since(t))) + 1
        BY <1>2, <3>2
      <4>5. QED
        BY <3>1, <3>3, <4>2, <4>3, <4>4
    <3>5. CASE ~(probeNow >= t)
      <4>1. FreshProbes(c, t)' = FreshProbes(c, t)
        BY <1>6, <3>5 DEF FreshProbes
      <4>2. probeNow \notin Since(t)
        BY <3>5 DEF Since
      <4>3. QED
        BY <3>1, <3>3, <4>1, <4>2
    <3>6. QED
      BY <3>4, <3>5
  <2>4. QED
    BY <1>2, <1>3, <2>1, <2>2, <2>3 DEF Counted
<1>9. WithinRate(c)'
  <2> SUFFICES ASSUME NEW t \in Nat
               PROVE  Cardinality({q \in ProbesLetThrough(c)' :
                          probe'[q].asked \in (t - ProbeWindow) .. t}) <= ProbeLimit
    BY DEF WithinRate
  <2> DEFINE Old == {q \in ProbesLetThrough(c) : probe[q].asked \in (t - ProbeWindow) .. t}
             New == {q \in ProbesLetThrough(c)' : probe'[q].asked \in (t - ProbeWindow) .. t}
  <2>1. IsFiniteSet(Old) /\ Cardinality(Old) <= ProbeLimit
    <3>1. Old \subseteq Probes
      BY LetFinite
    <3>2. QED
      BY <3>1, FS_Subset, ProbeAssumption DEF ProbeInv, WithinRate
  <2>2. CASE ~(probeNow \in (t - ProbeWindow) .. t)
    <3>1. New = Old
      BY <1>6, <2>2
    <3>2. QED
      BY <2>1, <3>1
  <2>3. CASE probeNow \in (t - ProbeWindow) .. t
    <3>1. New = Old \cup {p} /\ p \notin Old
      BY <1>6, <2>3
    <3>2. Old \subseteq FreshProbes(c, cut)
      <4>1. \A q \in Old : probe[q].asked >= cut
        BY <1>2, <1>7, <2>3
      <4>2. QED
        BY <4>1 DEF FreshProbes
    <3>3. Cardinality(Old) <= Len(recent) /\ Cardinality(Old) \in Nat /\ Len(recent) \in Nat
      BY <1>1, <2>1, <3>2, LetFinite, FS_Subset, FS_CardinalityType
    <3>4. Cardinality(New) = Cardinality(Old) + 1
      BY <2>1, <3>1, FS_AddElement
    <3>5. Len(recent) < ProbeLimit
      BY DEF recent
    <3> HIDE DEF Old, New
    <3>6. Cardinality(New) <= ProbeLimit
      BY <1>2, <3>3, <3>4, <3>5
    <3>7. QED
      BY <3>6 DEF New
  <2>4. QED
    BY <2>2, <2>3
<1>10. ASSUME NEW d \in Clients, d # c PROVE (Counted(d) /\ WithinRate(d))'
  <2>1. Counted(d) /\ WithinRate(d)
    BY DEF ProbeInv
  <2>2. /\ ProbesLetThrough(d)' = ProbesLetThrough(d) /\ passed'[d] = passed[d]
        /\ \A q \in ProbesLetThrough(d) : probe'[q] = probe[q]
    BY <1>3, <1>6, <1>10
  <2>3. Times(d)' = Times(d) /\ \A t : FreshProbes(d, t)' = FreshProbes(d, t)
    BY <2>2 DEF Times, FreshProbes
  <2>4. \A t : {q \in ProbesLetThrough(d)' : probe'[q].asked \in (t - ProbeWindow) .. t}
             = {q \in ProbesLetThrough(d) : probe[q].asked \in (t - ProbeWindow) .. t}
    BY <2>2
  <2>5. Counted(d)'
    BY <1>2, <2>1, <2>2, <2>3 DEF Counted
  <2>6. WithinRate(d)'
    BY <2>1, <2>4 DEF WithinRate
  <2>7. QED
    BY <2>5, <2>6
<1>11. \A q \in Probes : Refused(q)'
  <2>1. Refused(p)'
    BY <1>6 DEF Refused
  <2>2. QED
    BY <2>1, BeginsRefused
<1>12. QED
  BY <1>5, <1>8, <1>9, <1>10, <1>11 DEF ProbeInv

\* Whole seconds of a wait of d moments, at least one, are off by less than a second
\* below and by one at most above.
LEMMA Truncation ==
    ASSUME NEW d \in Nat, NEW s \in Nat \ {0}, NEW r \in Int,
           r = IF d \div s > 1 THEN d \div s ELSE 1
    PROVE  s * r - d \in (1 - s) .. s /\ s * r \in Int
<1>1. PICK k \in Nat, m \in Nat : k = d \div s /\ m = d % s /\ d = s * k + m /\ m < s
  OBVIOUS
<1>2. CASE k > 1
  <2>1. s * r = s * k /\ s * k \in Int
    BY <1>1, <1>2
  <2>2. QED
    BY <1>1, <2>1
<1>3. CASE k = 1
  <2>1. s * r = s /\ d = s + m
    BY <1>1, <1>3
  <2>2. QED
    BY <1>1, <2>1
<1>4. CASE k = 0
  <2>1. s * r = s /\ d = m
    BY <1>1, <1>4
  <2>2. QED
    BY <1>1, <2>1
<1>5. QED
  BY <1>1, <1>2, <1>3, <1>4

LEMMA NearTold ==
    ASSUME NEW t \in Nat, NEW u \in Nat, u <= t, u >= t - ProbeWindow, NEW r,
           r = IF (ProbeWindow - (t - u)) \div ProbeSecond > 1
               THEN (ProbeWindow - (t - u)) \div ProbeSecond ELSE 1
    PROVE  Near(t, r, u)
<1>1. ProbeWindow \in Nat /\ ProbeSecond \in Nat \ {0}
  BY ProbeAssumption
<1>2. PICK d \in Nat : d = ProbeWindow - (t - u)
  BY <1>1
<1>3. r \in Int /\ r = IF d \div ProbeSecond > 1 THEN d \div ProbeSecond ELSE 1
  BY <1>1, <1>2
<1>4. PICK b \in Int : b = ProbeSecond * r /\ b - d \in (1 - ProbeSecond) .. ProbeSecond
  BY <1>1, <1>3, Truncation
<1>5. (t + b) - (u + ProbeWindow) = b - d
  BY <1>1, <1>2, <1>4
<1>6. QED
  BY <1>4, <1>5 DEF Near

\* A client whose window is full.
LEMMA LimitInv ==
    ASSUME ProbeInv, NEW p \in Probes, NEW n, Begins(p, n), NEW c \in Clients, n.client = c,
           n.asked = probeNow, n.answer = "limited", n.retry = ProbeRetryAfter(ProbesRecent(c)),
           Len(ProbesRecent(c)) >= ProbeLimit, passed' = [passed EXCEPT ![c] = ProbesRecent(c)]
    PROVE  ProbeInv'
<1> DEFINE cut == probeNow - ProbeWindow
           recent == ProbesRecent(c)
<1>1. /\ recent \in Seq(Times(c)) /\ Times(c) \subseteq Nat /\ recent \in Seq(Nat)
      /\ Cardinality(FreshProbes(c, cut)) = Len(recent)
      /\ \A i \in 1 .. Len(recent) : recent[i] >= cut
      /\ \A t \in Int : t >= cut => Keep(recent, Since(t)) = Keep(passed[c], Since(t))
  BY RecentIs
<1>2. /\ probeNow \in Nat /\ ProbeWindow \in Nat \ {0} /\ ProbeLimit \in Nat \ {0}
      /\ probeNow' = probeNow
  BY ProbeAssumption DEF ProbeInv, ProbeTypeOK, Begins
<1>3. passed'[c] = recent /\ \A d \in Clients : d # c => passed'[d] = passed[d]
  BY DEF ProbeInv, ProbeTypeOK
<1>4. Len(recent) >= ProbeLimit /\ n.retry = ProbeRetryAfter(recent)
  OBVIOUS
<1>5. ProbeTypeOK'
  <2>1. passed' \in [Clients -> Seq(Nat)]
    BY <1>1 DEF ProbeInv, ProbeTypeOK
  <2>2. QED
    BY <1>2, <2>1 DEF Begins, ProbeInv, ProbeTypeOK
<1> HIDE DEF recent
<1>6. /\ \A d : ProbesLetThrough(d)' = ProbesLetThrough(d)
      /\ probe'[p] = n
      /\ \A d : \A q \in ProbesLetThrough(d) : probe'[q] = probe[q]
  <2>1. /\ \A d : ProbesLetThrough(d)' = ProbesLetThrough(d) \cup
                     (IF n.client = d /\ n.answer # "limited" THEN {p} ELSE {})
        /\ probe'[p] = n
        /\ \A d : \A q \in ProbesLetThrough(d) : probe'[q] = probe[q]
    BY BeginsLet
  <2>2. n.answer = "limited"
    OBVIOUS
  <2>3. \A d : ProbesLetThrough(d)' = ProbesLetThrough(d)
    BY <2>1, <2>2
  <2>4. QED
    BY <2>1, <2>3
<1>7. \A q \in ProbesLetThrough(c) : probe[q].asked <= probeNow /\ probe[q].asked \in Nat
  BY LetFinite DEF ProbeInv, Counted, ProbeTypeOK, ProbeRecord
<1>8. \A d : Times(d)' = Times(d) /\ \A t : FreshProbes(d, t)' = FreshProbes(d, t)
  BY <1>6 DEF Times, FreshProbes
<1>9. Counted(c)'
  <2>1. Counted(c)
    BY DEF ProbeInv
  <2>2. QED
    BY <1>1, <1>2, <1>3, <1>6, <1>8, <2>1 DEF Counted
<1>10. ASSUME NEW d \in Clients, d # c PROVE Counted(d)'
  <2>1. Counted(d)
    BY DEF ProbeInv
  <2>2. QED
    BY <1>2, <1>3, <1>6, <1>8, <1>10, <2>1 DEF Counted
<1>11. ASSUME NEW d \in Clients PROVE WithinRate(d)'
  <2>1. \A t : {q \in ProbesLetThrough(d)' : probe'[q].asked \in (t - ProbeWindow) .. t}
             = {q \in ProbesLetThrough(d) : probe[q].asked \in (t - ProbeWindow) .. t}
    BY <1>6
  <2>2. QED
    BY <2>1 DEF WithinRate, ProbeInv
<1>12. Refused(p)'
  <2>1. ProbesBefore(p)' = FreshProbes(c, cut)
    <3>1. ProbesBefore(p)' = {q \in ProbesLetThrough(c) : probe[q].asked \in cut .. probeNow}
      BY <1>6 DEF ProbesBefore
    <3>2. cut \in Int
      BY <1>2
    <3>3. QED
      BY <1>2, <1>7, <3>1, <3>2 DEF FreshProbes
  <2>2. Cardinality(ProbesBefore(p)') >= ProbeLimit
    BY <1>1, <1>4, <2>1
  <2>3. PICK q \in ProbesLetThrough(c) : probe[q].asked = recent[1]
    <3>1. recent[1] \in Times(c)
      BY <1>1, <1>2, <1>4
    <3>2. QED
      BY <3>1 DEF Times
  <2>4. recent[1] >= cut /\ recent[1] \in Nat
    BY <1>1, <1>2, <1>4
  <2>5. q \in ProbesBefore(p)'
    BY <2>1, <2>3, <2>4 DEF FreshProbes
  <2>6. Near(probeNow, ProbeRetryAfter(recent), recent[1])
    <3>1. PICK t \in Nat, u \in Nat : t = probeNow /\ u = recent[1]
      BY <1>2, <2>4
    <3>2. PICK r : r = ProbeRetryAfter(recent)
      OBVIOUS
    <3>3. u <= t /\ u >= t - ProbeWindow
      BY <1>2, <1>7, <2>3, <2>4, <3>1
    <3>4. r = IF (ProbeWindow - (t - u)) \div ProbeSecond > 1
              THEN (ProbeWindow - (t - u)) \div ProbeSecond ELSE 1
      BY <3>1, <3>2 DEF ProbeRetryAfter
    <3>5. Near(t, r, u)
      BY <3>3, <3>4, NearTold
    <3>6. QED
      BY <3>1, <3>2, <3>5
  <2>7. probe'[p].asked = probeNow /\ probe'[p].retry = ProbeRetryAfter(recent)
        /\ probe'[q].asked = recent[1] /\ probe'[p].client \in Clients
    BY <1>4, <1>6, <2>3
  <2>8. Near(probe'[p].asked, probe'[p].retry, probe'[q].asked)
    BY <2>6, <2>7
  <2>9. QED
    BY <2>2, <2>5, <2>7, <2>8 DEF Refused
<1>13. \A q \in Probes : Refused(q)'
  BY <1>12, BeginsRefused
<1>14. QED
  BY <1>5, <1>9, <1>10, <1>11, <1>13 DEF ProbeInv

-----------------------------------------------------------------------------
LEMMA OverHttpInv ==
    ASSUME ProbeInv, NEW p \in Probes, ProbeOverHttp(p) PROVE ProbeInv'
<1>1. PICK c \in Clients, kind \in {"url", "card"} :
          LET recent == ProbesRecent(c)
              asked == [Unprobed EXCEPT !.kind = kind, !.client = c, !.asked = probeNow]
          IN  IF Len(recent) >= ProbeLimit
              THEN /\ passed' = [passed EXCEPT ![c] = recent]
                   /\ probe' = [probe EXCEPT ![p] = [asked EXCEPT
                         !.at = "ended", !.answer = "limited", !.retry = ProbeRetryAfter(recent)]]
              ELSE /\ passed' = [passed EXCEPT ![c] = Append(recent, probeNow)]
                   /\ \/ \E n \in Candidates(kind) :
                            probe' = [probe EXCEPT ![p] = [asked EXCEPT !.at = "fetch", !.left = n]]
                      \/ probe' = [probe EXCEPT ![p] = [asked EXCEPT
                            !.at = "ended", !.answer = BlockedAnswer(kind)]]
  BY DEF ProbeOverHttp
<1>2. PICK asked : asked = Request("new", "http", kind, c, probeNow, 0, "none", 0)
  OBVIOUS
<1>3. asked = [Unprobed EXCEPT !.kind = kind, !.client = c, !.asked = probeNow]
  <2>1. PICK t : t = probeNow
    OBVIOUS
  <2>2. Unprobed = Request("new", "http", "url", "none", 0, 0, "none", 0)
    BY DEF Unprobed, Request
  <2>3. PICK m : m = Request("new", "http", kind, "none", 0, 0, "none", 0)
    OBVIOUS
  <2>4. m = [Unprobed EXCEPT !.kind = kind]
    BY <2>2, <2>3 DEF Request
  <2>5. PICK o : o = Request("new", "http", kind, c, 0, 0, "none", 0)
    OBVIOUS
  <2>6. o = [m EXCEPT !.client = c]
    BY <2>3, <2>5 DEF Request
  <2>7. asked = [o EXCEPT !.asked = t]
    BY <1>2, <2>1, <2>5 DEF Request
  <2>8. QED
    BY <2>1, <2>4, <2>6, <2>7
<1>4. /\ probe[p].at = "new" /\ UNCHANGED probeNow
      /\ probeNow \in Nat /\ Len(ProbesRecent(c)) \in Nat /\ ProbeLimit \in Nat
  <2>1. PICK s \in Seq(Nat) : s = ProbesRecent(c)
    BY RecentIs
  <2>2. Len(s) \in Nat
    OBVIOUS
  <2>3. QED
    BY <2>1, <2>2, ProbeAssumption DEF ProbeOverHttp, ProbeInv, ProbeTypeOK
<1>5. CASE Len(ProbesRecent(c)) >= ProbeLimit
  <2>1. /\ passed' = [passed EXCEPT ![c] = ProbesRecent(c)]
        /\ probe' = [probe EXCEPT ![p] = [asked EXCEPT
              !.at = "ended", !.answer = "limited", !.retry = ProbeRetryAfter(ProbesRecent(c))]]
    BY <1>1, <1>3, <1>5
  <2>2. ProbeRetryAfter(ProbesRecent(c)) \in Int
    <3>1. PICK s \in Seq(Nat) : s = ProbesRecent(c)
      BY RecentIs
    <3>2. Len(s) >= ProbeLimit /\ ProbeLimit \in Nat \ {0} /\ ProbeWindow \in Nat
          /\ ProbeSecond \in Nat \ {0}
      BY <1>5, <3>1, ProbeAssumption
    <3>3. s[1] \in Nat
      BY <3>2
    <3>4. QED
      BY <1>4, <3>1, <3>2, <3>3 DEF ProbeRetryAfter
  <2>3. PICK r \in Int : r = ProbeRetryAfter(ProbesRecent(c))
    BY <2>2
  <2>4. PICK n, t : t = probeNow /\ n = Request("ended", "http", kind, c, t, 0, "limited", r)
    OBVIOUS
  <2>5. n = [asked EXCEPT !.at = "ended", !.answer = "limited", !.retry = r]
    <3>1. PICK m : m = Request("ended", "http", kind, c, t, 0, "none", 0)
      OBVIOUS
    <3>2. m = [asked EXCEPT !.at = "ended"]
      BY <1>2, <2>4, <3>1 DEF Request
    <3>3. PICK o : o = Request("ended", "http", kind, c, t, 0, "limited", 0)
      OBVIOUS
    <3>4. o = [m EXCEPT !.answer = "limited"]
      BY <3>1, <3>3 DEF Request
    <3>5. n = [o EXCEPT !.retry = r]
      BY <2>4, <3>3 DEF Request
    <3>6. QED
      BY <3>2, <3>4, <3>5
  <2>6. n \in ProbeRecord /\ n.client = c /\ n.asked = t /\ n.answer = "limited" /\ n.retry = r
        /\ n.at = "ended"
    BY <1>4, <2>4 DEF Request, ProbeRecord
  <2>7. n.asked = probeNow
    BY <2>4, <2>6
  <2>8. Begins(p, n)
    BY <1>4, <2>1, <2>3, <2>5, <2>6, <2>7 DEF Begins
  <2>9. QED
    BY <1>5, <2>1, <2>3, <2>6, <2>7, <2>8, LimitInv
<1>6. CASE ~(Len(ProbesRecent(c)) >= ProbeLimit)
  <2>1. /\ passed' = [passed EXCEPT ![c] = Append(ProbesRecent(c), probeNow)]
        /\ \/ \E n \in Candidates(kind) :
                 probe' = [probe EXCEPT ![p] = [asked EXCEPT !.at = "fetch", !.left = n]]
           \/ probe' = [probe EXCEPT ![p] = [asked EXCEPT
                 !.at = "ended", !.answer = BlockedAnswer(kind)]]
    BY <1>1, <1>3, <1>6
  <2>2. PICK n : /\ Begins(p, n) /\ n.client = c /\ n.asked = probeNow /\ n.answer # "limited"
    <3>1. ASSUME NEW k \in Candidates(kind),
                 probe' = [probe EXCEPT ![p] = [asked EXCEPT !.at = "fetch", !.left = k]]
          PROVE  \E n : /\ Begins(p, n) /\ n.client = c /\ n.asked = probeNow
                        /\ n.answer # "limited"
      <4>1. k \in Int
        BY ProbeAssumption DEF Candidates
      <4>2. PICK n, t : t = probeNow /\ n = Request("fetch", "http", kind, c, t, k, "none", 0)
        OBVIOUS
      <4>3. n = [asked EXCEPT !.at = "fetch", !.left = k]
        <5>1. PICK m : m = Request("fetch", "http", kind, c, t, 0, "none", 0)
          OBVIOUS
        <5>2. m = [asked EXCEPT !.at = "fetch"]
          BY <1>2, <4>2, <5>1 DEF Request
        <5>3. n = [m EXCEPT !.left = k]
          BY <4>2, <5>1 DEF Request
        <5>4. QED
          BY <5>2, <5>3
      <4>4. n \in ProbeRecord /\ n.client = c /\ n.asked = t /\ n.answer = "none" /\ n.at = "fetch"
        BY <1>4, <4>1, <4>2 DEF Request, ProbeRecord
      <4>5. n.asked = probeNow
        BY <4>2, <4>4
      <4>6. Begins(p, n)
        BY <1>4, <3>1, <4>3, <4>4, <4>5 DEF Begins
      <4>7. QED
        BY <4>4, <4>5, <4>6
    <3>2. ASSUME probe' = [probe EXCEPT ![p] = [asked EXCEPT
                              !.at = "ended", !.answer = BlockedAnswer(kind)]]
          PROVE  \E n : /\ Begins(p, n) /\ n.client = c /\ n.asked = probeNow
                        /\ n.answer # "limited"
      <4>1. PICK b \in {"unresolved", "blocked"} : b = BlockedAnswer(kind)
        BY DEF BlockedAnswer
      <4>2. PICK n, t : t = probeNow /\ n = Request("ended", "http", kind, c, t, 0, b, 0)
        OBVIOUS
      <4>3. n = [asked EXCEPT !.at = "ended", !.answer = b]
        <5>1. PICK m : m = Request("ended", "http", kind, c, t, 0, "none", 0)
          OBVIOUS
        <5>2. m = [asked EXCEPT !.at = "ended"]
          BY <1>2, <4>2, <5>1 DEF Request
        <5>3. n = [m EXCEPT !.answer = b]
          BY <4>2, <5>1 DEF Request
        <5>4. QED
          BY <5>2, <5>3
      <4>4. n \in ProbeRecord /\ n.client = c /\ n.asked = t /\ n.answer = b /\ n.at = "ended"
        BY <1>4, <4>1, <4>2 DEF Request, ProbeRecord
      <4>5. n.asked = probeNow /\ n.answer # "limited"
        BY <4>1, <4>2, <4>4
      <4>6. Begins(p, n)
        BY <1>4, <3>2, <4>1, <4>3, <4>4, <4>5 DEF Begins
      <4>7. QED
        BY <4>4, <4>5, <4>6
    <3>3. QED
      BY <2>1, <3>1, <3>2
  <2>3. Len(ProbesRecent(c)) < ProbeLimit
    BY <1>4, <1>6
  <2>4. QED
    BY <2>1, <2>2, <2>3, PassInv
<1>7. QED
  BY <1>5, <1>6

LEMMA OverMcpInv ==
    ASSUME ProbeInv, NEW p \in Probes, ProbeOverMcp(p) PROVE ProbeInv'
<1>1. PICK kind \in {"url", "card"} :
          LET asked == [Unprobed EXCEPT !.door = "mcp", !.kind = kind]
          IN  \/ \E n \in Candidates(kind) :
                    probe' = [probe EXCEPT ![p] = [asked EXCEPT !.at = "fetch", !.left = n]]
              \/ /\ kind = "card"
                 /\ probe' = [probe EXCEPT ![p] = [asked EXCEPT
                       !.at = "ended", !.answer = "unresolved"]]
  BY DEF ProbeOverMcp
<1>2. PICK asked : asked = Request("new", "mcp", kind, "none", 0, 0, "none", 0)
  OBVIOUS
<1>3. asked = [Unprobed EXCEPT !.door = "mcp", !.kind = kind]
  <2>1. Unprobed = Request("new", "http", "url", "none", 0, 0, "none", 0)
    BY DEF Unprobed, Request
  <2>2. PICK m : m = Request("new", "mcp", "url", "none", 0, 0, "none", 0)
    OBVIOUS
  <2>3. m = [Unprobed EXCEPT !.door = "mcp"]
    BY <2>1, <2>2 DEF Request
  <2>4. asked = [m EXCEPT !.kind = kind]
    BY <1>2, <2>2 DEF Request
  <2>5. QED
    BY <2>3, <2>4
<1>4. probe[p].at = "new" /\ UNCHANGED <<passed, probeNow>>
  BY DEF ProbeOverMcp
<1>5. ASSUME NEW k \in Candidates(kind),
             probe' = [probe EXCEPT ![p] = [asked EXCEPT !.at = "fetch", !.left = k]]
      PROVE  \E n : Begins(p, n) /\ n.client = "none" /\ n.answer # "limited"
  <2>1. k \in Int
    BY ProbeAssumption DEF Candidates
  <2>2. PICK n : n = Request("fetch", "mcp", kind, "none", 0, k, "none", 0)
    OBVIOUS
  <2>3. n = [asked EXCEPT !.at = "fetch", !.left = k]
    <3>1. PICK m : m = Request("fetch", "mcp", kind, "none", 0, 0, "none", 0)
      OBVIOUS
    <3>2. m = [asked EXCEPT !.at = "fetch"]
      BY <1>2, <3>1 DEF Request
    <3>3. n = [m EXCEPT !.left = k]
      BY <2>2, <3>1 DEF Request
    <3>4. QED
      BY <3>2, <3>3
  <2>4. n \in ProbeRecord /\ n.client = "none" /\ n.answer = "none" /\ n.at = "fetch"
    BY <2>1, <2>2 DEF Request, ProbeRecord
  <2>5. n.answer # "limited"
    BY <2>4
  <2>6. Begins(p, n)
    BY <1>4, <1>5, <2>3, <2>4, <2>5 DEF Begins
  <2>7. QED
    BY <2>4, <2>5, <2>6
<1>6. ASSUME probe' = [probe EXCEPT ![p] = [asked EXCEPT !.at = "ended", !.answer = "unresolved"]]
      PROVE  \E n : Begins(p, n) /\ n.client = "none" /\ n.answer # "limited"
  <2>1. PICK n : n = Request("ended", "mcp", kind, "none", 0, 0, "unresolved", 0)
    OBVIOUS
  <2>2. n = [asked EXCEPT !.at = "ended", !.answer = "unresolved"]
    <3>1. PICK m : m = Request("ended", "mcp", kind, "none", 0, 0, "none", 0)
      OBVIOUS
    <3>2. m = [asked EXCEPT !.at = "ended"]
      BY <1>2, <3>1 DEF Request
    <3>3. n = [m EXCEPT !.answer = "unresolved"]
      BY <2>1, <3>1 DEF Request
    <3>4. QED
      BY <3>2, <3>3
  <2>3. n \in ProbeRecord /\ n.client = "none" /\ n.answer = "unresolved" /\ n.at = "ended"
    BY <2>1 DEF Request, ProbeRecord
  <2>4. n.answer # "limited"
    BY <2>3
  <2>5. Begins(p, n)
    BY <1>4, <1>6, <2>2, <2>3 DEF Begins
  <2>6. QED
    BY <2>3, <2>4, <2>5
<1>7. PICK n : Begins(p, n) /\ n.client = "none" /\ n.answer # "limited"
  BY <1>1, <1>3, <1>5, <1>6
<1>8. QED
  BY <1>4, <1>7, ToolInv

LEMMA FetchedInv ==
    ASSUME ProbeInv, NEW p \in Probes, UrlAnswers(p) \/ CardFound(p) \/ CardMissing(p)
    PROVE  ProbeInv'
<1>1. probe[p].at = "fetch" /\ UNCHANGED <<passed, probeNow>> /\ probe[p] \in ProbeRecord
      /\ probe \in [Probes -> ProbeRecord]
  BY DEF UrlAnswers, CardFound, CardMissing, ProbeInv, ProbeTypeOK
<1>2. /\ probe[p].door \in {"http", "mcp"} /\ probe[p].kind \in {"url", "card"}
      /\ probe[p].client \in Clients \cup {"none"} /\ probe[p].asked \in Nat
      /\ probe[p].left \in Int /\ probe[p].retry \in Int
      /\ probe[p].answer \in {"none", "limited", "unresolved", "blocked", "looked_at",
                              "unreachable", "card"}
  BY <1>1 DEF ProbeRecord
<1>3. PICK d \in {"http", "mcp"}, k \in {"url", "card"}, c \in Clients \cup {"none"}, t \in Nat :
         d = probe[p].door /\ k = probe[p].kind /\ c = probe[p].client /\ t = probe[p].asked
  BY <1>2
<1>4. PICK l \in Int, r \in Int :
         l = probe[p].left /\ r = probe[p].retry
  BY <1>2
<1>5. PICK w, o : w = probe[p].answer /\ o = probe[p]
  OBVIOUS
<1>6. o = Request("fetch", d, k, c, t, l, w, r)
  BY <1>1, <1>3, <1>4, <1>5 DEF ProbeRecord, Request
<1>7. \E n : /\ \E a \in {"fetch", "ended"}, x \in Int,
                    v \in {"none", "unresolved", "looked_at", "unreachable", "card"} :
                    n = Request(a, d, k, c, t, x, v, r)
             /\ probe' = [probe EXCEPT ![p] = n]
  <2>1. CASE UrlAnswers(p)
    <3>1. PICK v \in {"looked_at", "unreachable"} :
             probe' = [probe EXCEPT ![p].at = "ended", ![p].answer = v, ![p].left = 0]
      BY <2>1 DEF UrlAnswers
    <3>2. PICK m : m = Request("ended", d, k, c, t, l, w, r)
      OBVIOUS
    <3>3. m = [o EXCEPT !.at = "ended"]
      BY <1>6, <3>2 DEF Request
    <3>4. PICK i : i = Request("ended", d, k, c, t, l, v, r)
      OBVIOUS
    <3>5. i = [m EXCEPT !.answer = v]
      BY <3>2, <3>4 DEF Request
    <3>6. PICK n : n = Request("ended", d, k, c, t, 0, v, r)
      OBVIOUS
    <3>7. n = [i EXCEPT !.left = 0]
      BY <3>4, <3>6 DEF Request
    <3>8. probe' = [probe EXCEPT ![p] = n]
      BY <1>1, <1>5, <3>1, <3>3, <3>5, <3>7
    <3>9. PICK x \in Int : x = 0
      OBVIOUS
    <3>10. QED
      BY <3>1, <3>6, <3>8, <3>9
  <2>2. CASE CardFound(p)
    <3>1. probe' = [probe EXCEPT ![p].at = "ended", ![p].answer = "card"]
      BY <2>2 DEF CardFound
    <3>2. PICK m : m = Request("ended", d, k, c, t, l, w, r)
      OBVIOUS
    <3>3. m = [o EXCEPT !.at = "ended"]
      BY <1>6, <3>2 DEF Request
    <3>4. PICK n : n = Request("ended", d, k, c, t, l, "card", r)
      OBVIOUS
    <3>5. n = [m EXCEPT !.answer = "card"]
      BY <3>2, <3>4 DEF Request
    <3>6. probe' = [probe EXCEPT ![p] = n]
      BY <1>1, <1>5, <3>1, <3>3, <3>5
    <3>7. QED
      BY <3>4, <3>6
  <2>3. CASE CardMissing(p)
    <3>1. probe[p].left = l
      BY <1>4
    <3>2. PICK x \in Int : x = probe[p].left - 1
      BY <3>1
    <3>3. PICK a \in {"fetch", "ended"} : a = IF x = 0 THEN "ended" ELSE "fetch"
      OBVIOUS
    <3>4. PICK v \in {"unresolved", "none"} : v = IF x = 0 THEN "unresolved" ELSE "none"
      OBVIOUS
    <3>5. probe' = [probe EXCEPT ![p].left = x, ![p].at = a, ![p].answer = v]
      BY <2>3, <3>2, <3>3, <3>4 DEF CardMissing
    <3>6. PICK m : m = Request("fetch", d, k, c, t, x, w, r)
      OBVIOUS
    <3>7. m = [o EXCEPT !.left = x]
      BY <1>6, <3>6 DEF Request
    <3>8. PICK i : i = Request(a, d, k, c, t, x, w, r)
      OBVIOUS
    <3>9. i = [m EXCEPT !.at = a]
      BY <3>6, <3>8 DEF Request
    <3>10. PICK n : n = Request(a, d, k, c, t, x, v, r)
      OBVIOUS
    <3>11. n = [i EXCEPT !.answer = v]
      BY <3>8, <3>10 DEF Request
    <3>12. probe' = [probe EXCEPT ![p] = n]
      BY <1>1, <1>5, <3>5, <3>7, <3>9, <3>11
    <3>13. QED
      BY <3>10, <3>12
  <2>4. QED
    BY <2>1, <2>2, <2>3
<1>8. PICK n : /\ \E a \in {"fetch", "ended"}, x \in Int,
                      v \in {"none", "unresolved", "looked_at", "unreachable", "card"} :
                      n = Request(a, d, k, c, t, x, v, r)
               /\ probe' = [probe EXCEPT ![p] = n]
  BY <1>7
<1>9. PICK a \in {"fetch", "ended"}, x \in Int,
           v \in {"none", "unresolved", "looked_at", "unreachable", "card"} :
           n = Request(a, d, k, c, t, x, v, r)
  BY <1>8
<1>10. n \in ProbeRecord /\ n.at = a /\ n.answer = v /\ n.client = c /\ n.asked = t
  BY <1>9 DEF Request, ProbeRecord
<1>11. GoesOn(p)
  BY <1>1, <1>3, <1>8, <1>10 DEF GoesOn
<1>12. QED
  BY <1>11, GoesOnInv

LEMMA ProbeTickInv == ASSUME ProbeInv, ProbeTick PROVE ProbeInv'
<1>1. probeNow' = probeNow + 1 /\ UNCHANGED <<probe, passed>> /\ probeNow \in Nat
      /\ ProbeWindow \in Nat
  BY ProbeAssumption DEF ProbeTick, ProbeInv, ProbeTypeOK
<1>2. ProbeTypeOK'
  BY <1>1 DEF ProbeInv, ProbeTypeOK
<1>3. \A c : /\ ProbesLetThrough(c)' = ProbesLetThrough(c) /\ Times(c)' = Times(c)
             /\ \A t : FreshProbes(c, t)' = FreshProbes(c, t)
  BY <1>1 DEF ProbesLetThrough, Times, FreshProbes
<1>4. ASSUME NEW c \in Clients PROVE Counted(c)'
  <2>1. Counted(c)
    BY DEF ProbeInv
  <2>2. \A q \in ProbesLetThrough(c) : probe[q].asked \in Nat
    BY LetFinite DEF ProbeInv, ProbeTypeOK, ProbeRecord
  <2>3. \A q \in ProbesLetThrough(c) : probe[q].asked <= probeNow + 1
    BY <1>1, <2>1, <2>2 DEF Counted
  <2>4. \A t \in Int : t >= (probeNow + 1) - ProbeWindow => t >= probeNow - ProbeWindow
    BY <1>1
  <2>5. \A t \in Int : t >= (probeNow + 1) - ProbeWindow =>
           Cardinality(FreshProbes(c, t)) = Len(Keep(passed[c], Since(t)))
    BY <2>1, <2>4 DEF Counted
  <2>6. QED
    BY <1>1, <1>3, <2>1, <2>3, <2>5 DEF Counted
<1>5. \A c \in Clients : WithinRate(c)'
  BY <1>1, <1>3 DEF WithinRate, ProbeInv
<1>6. \A p \in Probes : Refused(p)'
  <2>1. \A p : ProbesBefore(p)' = ProbesBefore(p)
    BY <1>1, <1>3 DEF ProbesBefore
  <2>2. QED
    BY <1>1, <2>1 DEF Refused, ProbeInv
<1>7. QED
  BY <1>2, <1>4, <1>5, <1>6 DEF ProbeInv

LEMMA ProbeStep == ASSUME ProbeInv, [ProbeNext]_probeVars PROVE ProbeInv'
<1>1. CASE UNCHANGED probeVars
  <2>1. UNCHANGED <<probe, passed, probeNow>>
    BY <1>1 DEF probeVars
  <2>2. \A c : /\ ProbesLetThrough(c)' = ProbesLetThrough(c) /\ Times(c)' = Times(c)
               /\ \A t : FreshProbes(c, t)' = FreshProbes(c, t)
    BY <2>1 DEF ProbesLetThrough, Times, FreshProbes
  <2>3. \A c \in Clients : Counted(c)' /\ WithinRate(c)'
    BY <2>1, <2>2 DEF Counted, WithinRate, ProbeInv
  <2>4. \A p : ProbesBefore(p)' = ProbesBefore(p)
    BY <2>1, <2>2 DEF ProbesBefore
  <2>5. \A p \in Probes : Refused(p)'
    BY <2>1, <2>4 DEF Refused, ProbeInv
  <2>6. QED
    BY <2>1, <2>3, <2>5 DEF ProbeInv, ProbeTypeOK
<1>2. QED
  BY <1>1, OverHttpInv, OverMcpInv, FetchedInv, ProbeTickInv DEF ProbeNext

\* Who comes back a second later than told finds a slot, or another of its requests
\* was let through after it had been refused.
LEMMA WaitIsEnough ==
    ASSUME ProbeInv, NEW p \in Probes, NEW r \in Probes,
           probe[p].answer = "limited", probe[r].answer = "limited",
           probe[r].client = probe[p].client,
           probe[r].asked >= ProbeBack(p) + ProbeSecond
    PROVE  \E q \in ProbesLetThrough(probe[p].client) :
               probe[q].asked \in (probe[p].asked + 1) .. probe[r].asked
<1> SUFFICES ASSUME \A q \in ProbesLetThrough(probe[p].client) :
                        ~(probe[q].asked \in (probe[p].asked + 1) .. probe[r].asked)
             PROVE  FALSE
  OBVIOUS
<1>1. PICK c \in Clients : c = probe[p].client
  BY DEF ProbeInv, Refused
<1>2. PICK t \in Nat, u \in Nat : t = probe[p].asked /\ u = probe[r].asked
  BY DEF ProbeInv, ProbeTypeOK, ProbeRecord
<1>3. PICK q \in ProbesBefore(p) : Near(probe[p].asked, probe[p].retry, probe[q].asked)
  BY DEF ProbeInv, Refused
<1>4. \A x \in ProbesLetThrough(c) : x \in Probes /\ probe[x].asked \in Nat
  BY LetFinite DEF ProbeInv, ProbeTypeOK, ProbeRecord
<1>5. q \in ProbesLetThrough(c) /\ probe[q].asked \in (t - ProbeWindow) .. t
  BY <1>1, <1>2, <1>3 DEF ProbesBefore
<1>6. ProbeWindow \in Nat /\ ProbeSecond \in Nat \ {0} /\ ProbeLimit \in Nat
  BY ProbeAssumption
<1>7. probe[q].asked < u - ProbeWindow
  <2>1. PICK w \in Int, b \in Int : w = probe[p].retry /\ b = ProbeSecond * w
    BY <1>6 DEF ProbeInv, ProbeTypeOK, ProbeRecord
  <2>2. t + b - (probe[q].asked + ProbeWindow) >= 1 - ProbeSecond
    BY <1>2, <1>3, <1>4, <1>5, <1>6, <2>1 DEF Near
  <2>3. u >= t + b + ProbeSecond
    BY <1>2, <2>1 DEF ProbeBack
  <2>4. QED
    BY <1>2, <1>4, <1>5, <1>6, <2>1, <2>2, <2>3
<1> DEFINE W == {x \in ProbesLetThrough(c) : probe[x].asked \in (t - ProbeWindow) .. t}
<1>8. IsFiniteSet(W) /\ Cardinality(W) <= ProbeLimit /\ Cardinality(W) \in Nat
  <2>1. W \subseteq Probes
    BY <1>4
  <2>2. IsFiniteSet(W)
    BY <2>1, ProbeAssumption, FS_Subset
  <2>3. Cardinality(W) <= ProbeLimit
    BY <1>2 DEF ProbeInv, WithinRate
  <2>4. QED
    BY <2>2, <2>3, FS_CardinalityType
<1>9. ProbesBefore(r) \subseteq W \ {q}
  <2>1. SUFFICES ASSUME NEW x \in ProbesBefore(r) PROVE x \in W \ {q}
    OBVIOUS
  <2>2. x \in ProbesLetThrough(c) /\ probe[x].asked \in (u - ProbeWindow) .. u
    BY <1>1, <1>2 DEF ProbesBefore
  <2>3. u >= t
    BY <1>2, <1>4, <1>5, <1>6, <1>7
  <2>4. ~(probe[x].asked \in (t + 1) .. u)
    BY <1>1, <1>2, <2>2
  <2>5. probe[x].asked \in (t - ProbeWindow) .. t
    BY <1>2, <1>4, <1>6, <2>2, <2>3, <2>4
  <2>6. x # q
    BY <1>2, <1>4, <1>6, <1>7, <2>2
  <2>7. QED
    BY <2>2, <2>5, <2>6
<1>10. Cardinality(W \ {q}) = Cardinality(W) - 1 /\ IsFiniteSet(W \ {q})
  <2>1. q \in W
    BY <1>5
  <2>2. QED
    BY <1>8, <2>1, FS_RemoveElement
<1>11. Cardinality(ProbesBefore(r)) <= Cardinality(W \ {q})
  BY <1>9, <1>10, FS_Subset
<1>12. Cardinality(ProbesBefore(r)) >= ProbeLimit
  BY DEF ProbeInv, Refused
<1>13. Cardinality(ProbesBefore(r)) \in Nat
  BY <1>9, <1>10, FS_Subset, FS_CardinalityType
<1>14. QED
  BY <1>6, <1>8, <1>10, <1>11, <1>12, <1>13

\* For any limit, window, clock and clients: no window of the limiter's length lets more
\* than the limit of a client's requests through; who is refused had that many before
\* it; the wait it is told is off by less than a second below and by one at most above;
\* and who waits a second longer is refused again only if another of its requests was
\* let through meanwhile.
THEOREM ProbeTheorem == ProbeSpec => []ProbesWithinRate
<1>1. ProbeInv => ProbesWithinRate
  <2>1. ASSUME NEW p \in Probes, ProbeInv, probe[p].answer = "limited"
        PROVE  /\ Cardinality(ProbesBefore(p)) >= ProbeLimit
               /\ \E q \in ProbesBefore(p) :
                     ProbeBack(p) - (probe[q].asked + ProbeWindow)
                        \in (1 - ProbeSecond) .. ProbeSecond
               /\ \A r \in Probes :
                     /\ probe[r].answer = "limited" /\ probe[r].client = probe[p].client
                     /\ probe[r].asked >= ProbeBack(p) + ProbeSecond
                     => \E q \in ProbesLetThrough(probe[p].client) :
                           probe[q].asked \in (probe[p].asked + 1) .. probe[r].asked
    <3>1. Cardinality(ProbesBefore(p)) >= ProbeLimit
          /\ \E q \in ProbesBefore(p) : Near(probe[p].asked, probe[p].retry, probe[q].asked)
      BY <2>1 DEF ProbeInv, Refused
    <3>2. \E q \in ProbesBefore(p) :
             ProbeBack(p) - (probe[q].asked + ProbeWindow) \in (1 - ProbeSecond) .. ProbeSecond
      BY <3>1 DEF Near, ProbeBack
    <3>3. QED
      BY <2>1, <3>1, <3>2, WaitIsEnough
  <2>2. \A c \in Clients, t \in 0 .. ProbeMaxNow : ProbeInv =>
           Cardinality({p \in ProbesLetThrough(c) :
                           probe[p].asked \in (t - ProbeWindow) .. t}) <= ProbeLimit
    BY DEF ProbeInv, WithinRate
  <2>3. QED
    BY <2>1, <2>2 DEF ProbesWithinRate
<1>2. QED
  BY <1>1, ProbeInitInv, ProbeStep, PTL DEF ProbeSpec
=============================================================================

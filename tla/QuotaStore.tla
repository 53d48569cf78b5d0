----------------------------- MODULE QuotaStore -----------------------------
(***************************************************************************)
(* The call quota: monthly counters, the per-minute window, tiers, prepaid *)
(* credits and Stripe fulfilment marks, kept in memory or in Redis.        *)
(*                                                                         *)
(* The store is synchronous, so one process runs one operation at a time.  *)
(* With Redis an operation is a series of commands; an action is one       *)
(* command and the local code around it.  Between two of them the process  *)
(* may die, a command may raise, the clock may pass into the next month,   *)
(* and another process on the same Redis may run.                          *)
(***************************************************************************)
EXTENDS Integers, FiniteSets

CONSTANTS
    Procs,        \* server processes; one when the store is in memory
    Agents,
    Calls,        \* calls of consume_quota
    Deliveries,   \* grants: x402 purchases and Stripe webhook deliveries
    KeyOf,        \* delivery -> fulfilment key, NoKey for an x402 purchase
    BuyerOf,      \* delivery -> agent
    GoodOf,       \* delivery -> "pro" or "credits"
    NoKey, NoAgent, NoProc,
    FreeQuota, ProQuota, FreeRate, ProRate,
    Pack,         \* credits of one delivery
    Minute,       \* ticks of the rate window
    MonthLen,     \* ticks of a month
    MaxTime,      \* bound on the clock
    Durable,      \* Redis: counters and entitlements outlive the process
    MaxFaults     \* bound on restarts and raised commands

ASSUME QuotaAssumption ==
    /\ IsFiniteSet(Calls) /\ IsFiniteSet(Deliveries)
    /\ KeyOf \in [Deliveries -> STRING \cup {NoKey}]
    /\ BuyerOf \in [Deliveries -> Agents]
    /\ GoodOf \in [Deliveries -> {"pro", "credits"}]
    /\ NoAgent \notin Agents /\ NoProc \notin Procs
    /\ FreeQuota \in Nat /\ ProQuota \in Nat /\ FreeQuota <= ProQuota
    /\ FreeRate \in Nat /\ ProRate \in Nat /\ FreeRate <= ProRate
    /\ Pack \in Nat /\ Minute \in Nat /\ MonthLen \in Nat \ {0}
    /\ MaxTime \in Nat /\ MaxFaults \in Nat
    /\ Durable \in BOOLEAN
    /\ Durable \/ \A p, q \in Procs : p = q

VARIABLES
    now,
    tier, credits, monthly, fulfilled,     \* the store
    window,                                \* per process and agent: its recent calls
    cpc, agent, proc, at, month, seenTier, seenCalls, path,   \* the calls
    dpc, dproc,                            \* the deliveries
    faults

store == <<tier, credits, monthly, fulfilled>>
callVars == <<cpc, agent, proc, at, month, seenTier, seenCalls, path>>
delVars == <<dpc, dproc>>
vars == <<now, store, window, callVars, delVars, faults>>

Months == 0 .. MaxTime
MonthOf(t) == t \div MonthLen
Quota(t) == IF t = "pro" THEN ProQuota ELSE FreeQuota
Rate(t) == IF t = "pro" THEN ProRate ELSE FreeRate

Running == {"calls", "credits", "spend", "clamp", "count"}
Ended == {"served", "overQuota", "overRate", "raised"}

TypeOK ==
    /\ now \in 0 .. MaxTime
    /\ tier \in [Agents -> {"free", "pro"}]
    /\ credits \in [Agents -> Int]
    /\ monthly \in [Agents -> [Months -> Nat]]
    /\ fulfilled \subseteq STRING
    /\ window \in [Procs -> [Agents -> SUBSET Calls]]
    /\ cpc \in [Calls -> {"new"} \cup Running \cup Ended]
    /\ agent \in [Calls -> Agents \cup {NoAgent}]
    /\ proc \in [Calls -> Procs \cup {NoProc}]
    /\ at \in [Calls -> 0 .. MaxTime]
    /\ month \in [Calls -> Months]
    /\ seenTier \in [Calls -> {"free", "pro"}]
    /\ seenCalls \in [Calls -> Nat]
    /\ path \in [Calls -> {"none", "quota", "credit"}]
    /\ dpc \in [Deliveries -> {"new", "marked", "granted", "already", "cut"}]
    /\ dproc \in [Deliveries -> Procs \cup {NoProc}]
    /\ faults \in 0 .. MaxFaults
    /\ \A c \in Calls : cpc[c] # "new" => agent[c] \in Agents /\ proc[c] \in Procs
    /\ \A d \in Deliveries : dpc[d] = "marked" =>
           KeyOf[d] \in fulfilled /\ dproc[d] \in Procs

Init ==
    /\ now = 0
    /\ tier = [a \in Agents |-> "free"]
    /\ credits = [a \in Agents |-> 0]
    /\ monthly = [a \in Agents |-> [m \in Months |-> 0]]
    /\ fulfilled = {}
    /\ window = [p \in Procs |-> [a \in Agents |-> {}]]
    /\ cpc = [c \in Calls |-> "new"]
    /\ agent = [c \in Calls |-> NoAgent]
    /\ proc = [c \in Calls |-> NoProc]
    /\ at = [c \in Calls |-> 0]
    /\ month = [c \in Calls |-> 0]
    /\ seenTier = [c \in Calls |-> "free"]
    /\ seenCalls = [c \in Calls |-> 0]
    /\ path = [c \in Calls |-> "none"]
    /\ dpc = [d \in Deliveries |-> "new"]
    /\ dproc = [d \in Deliveries |-> NoProc]
    /\ faults = 0

-----------------------------------------------------------------------------
IdleProc(p) == /\ \A c \in Calls : cpc[c] \in Running => proc[c] # p
               /\ \A d \in Deliveries : dpc[d] = "marked" => dproc[d] # p

Tick == /\ now < MaxTime
        /\ now' = now + 1
        /\ UNCHANGED <<store, window, callVars, delVars, faults>>

Goto(c, where) == cpc' = [cpc EXCEPT ![c] = where]

(* consume_quota *)

\* Mutant: a call just a minute old leaves too.
Recent_Strict(p, a) == {c \in window[p][a] : at[c] > now - Minute}

\* Calls older than a minute leave the window; one just a minute old stays.
Recent(p, a) == {c \in window[p][a] : at[c] >= now - Minute}

\* The clock and the window are read, then the tier.
ReadTier(c, p, a) ==
    /\ cpc[c] = "new" /\ IdleProc(p)
    /\ agent' = [agent EXCEPT ![c] = a]
    /\ proc' = [proc EXCEPT ![c] = p]
    /\ at' = [at EXCEPT ![c] = now]
    /\ window' = [window EXCEPT ![p][a] = Recent(p, a)]
    /\ seenTier' = [seenTier EXCEPT ![c] = tier[a]]
    /\ Goto(c, "calls")
    /\ UNCHANGED <<now, store, month, seenCalls, path, delVars, faults>>

\* Mutant: one call too many on the quota.
ReadCalls_OffByOne(c) ==
    LET a == agent[c]
        n == monthly[a][MonthOf(now)]
        full == Cardinality(window[proc[c]][a]) >= Rate(seenTier[c])
    IN  /\ cpc[c] = "calls"
        /\ month' = [month EXCEPT ![c] = MonthOf(now)]
        /\ seenCalls' = [seenCalls EXCEPT ![c] = n]
        /\ IF n > Quota(seenTier[c]) THEN Goto(c, "credits") /\ UNCHANGED path
           ELSE IF full THEN Goto(c, "overRate") /\ UNCHANGED path
           ELSE Goto(c, "count") /\ path' = [path EXCEPT ![c] = "quota"]
        /\ UNCHANGED <<now, store, window, agent, proc, at, seenTier, delVars, faults>>

\* The counter of the current month decides: beyond the quota only a credit
\* helps and the rate is not looked at; below it the window must have room.
ReadCalls(c) ==
    LET a == agent[c]
        n == monthly[a][MonthOf(now)]
    IN  /\ cpc[c] = "calls"
        /\ month' = [month EXCEPT ![c] = MonthOf(now)]
        /\ seenCalls' = [seenCalls EXCEPT ![c] = n]
        /\ \/ n >= Quota(seenTier[c]) /\ Goto(c, "credits") /\ UNCHANGED path
           \/ /\ n < Quota(seenTier[c])
              /\ Cardinality(window[proc[c]][a]) >= Rate(seenTier[c])
              /\ Goto(c, "overRate") /\ UNCHANGED path
           \/ /\ n < Quota(seenTier[c])
              /\ Cardinality(window[proc[c]][a]) < Rate(seenTier[c])
              /\ Goto(c, "count")
              /\ path' = [path EXCEPT ![c] = "quota"]
        /\ UNCHANGED <<now, store, window, agent, proc, at, seenTier, delVars, faults>>

\* Mutant: a balance of zero buys a call.
ReadCredits_Zero(c) ==
    /\ cpc[c] = "credits"
    /\ IF credits[agent[c]] >= 0 THEN Goto(c, "spend") ELSE Goto(c, "overQuota")
    /\ UNCHANGED <<now, store, window, agent, proc, at, month, seenTier, seenCalls,
                   path, delVars, faults>>

ReadCredits(c) ==
    /\ cpc[c] = "credits"
    /\ IF credits[agent[c]] > 0 THEN Goto(c, "spend") ELSE Goto(c, "overQuota")
    /\ UNCHANGED <<now, store, window, agent, proc, at, month, seenTier, seenCalls,
                   path, delVars, faults>>

\* DECRBY; a balance below zero is to be set back.
Spend(c) ==
    /\ cpc[c] = "spend"
    /\ credits' = [credits EXCEPT ![agent[c]] = @ - 1]
    /\ path' = [path EXCEPT ![c] = "credit"]
    /\ IF credits[agent[c]] - 1 < 0 THEN Goto(c, "clamp") ELSE Goto(c, "count")
    /\ UNCHANGED <<now, tier, monthly, fulfilled, window, agent, proc, at, month,
                   seenTier, seenCalls, delVars, faults>>

Clamp(c) ==
    /\ cpc[c] = "clamp"
    /\ credits' = [credits EXCEPT ![agent[c]] = 0]
    /\ Goto(c, "count")
    /\ UNCHANGED <<now, tier, monthly, fulfilled, window, agent, proc, at, month,
                   seenTier, seenCalls, path, delVars, faults>>

\* Mutant: the month is looked up again for the write.
Count_MonthNow(c) ==
    /\ cpc[c] = "count"
    /\ monthly' = [monthly EXCEPT ![agent[c]][MonthOf(now)] = seenCalls[c] + 1]
    /\ window' = [window EXCEPT ![proc[c]][agent[c]] = @ \cup {c}]
    /\ Goto(c, "served")
    /\ UNCHANGED <<now, tier, credits, fulfilled, agent, proc, at, month, seenTier,
                   seenCalls, path, delVars, faults>>

\* SET the counter to the value read plus one; the call enters the window and is
\* let through to its work.
Count(c) ==
    /\ cpc[c] = "count"
    /\ monthly' = [monthly EXCEPT ![agent[c]][month[c]] = seenCalls[c] + 1]
    /\ window' = [window EXCEPT ![proc[c]][agent[c]] = @ \cup {c}]
    /\ Goto(c, "served")
    /\ UNCHANGED <<now, tier, credits, fulfilled, agent, proc, at, month, seenTier,
                   seenCalls, path, delVars, faults>>

-----------------------------------------------------------------------------
(* Grants. *)

\* What a delivery adds to the store.
Grant(d) ==
    /\ IF GoodOf[d] = "pro"
       THEN tier' = [tier EXCEPT ![BuyerOf[d]] = "pro"] /\ UNCHANGED credits
       ELSE credits' = [credits EXCEPT ![BuyerOf[d]] = @ + Pack] /\ UNCHANGED tier

\* add_credits or activate_pro_tier after a settled x402 payment: one command.
Purchase(d, p) ==
    /\ dpc[d] = "new" /\ KeyOf[d] = NoKey /\ IdleProc(p)
    /\ Grant(d)
    /\ dpc' = [dpc EXCEPT ![d] = "granted"]
    /\ UNCHANGED <<now, monthly, fulfilled, window, callVars, dproc, faults>>

\* Mutant: the key is looked up and not set.
MarkFulfilled_NoMark(d, p) ==
    /\ dpc[d] = "new" /\ KeyOf[d] # NoKey /\ IdleProc(p)
    /\ KeyOf[d] \notin fulfilled
    /\ dpc' = [dpc EXCEPT ![d] = "marked"]
    /\ dproc' = [dproc EXCEPT ![d] = p]
    /\ UNCHANGED <<now, store, window, callVars, faults>>

\* fulfill_stripe_*: SET NX of the key; a key seen before is answered at once
\* (an empty key is refused before any command).
MarkFulfilled(d, p) ==
    /\ dpc[d] = "new" /\ KeyOf[d] # NoKey /\ IdleProc(p)
    /\ \/ /\ KeyOf[d] \in fulfilled
          /\ dpc' = [dpc EXCEPT ![d] = "already"]
          /\ UNCHANGED <<fulfilled, dproc>>
       \/ /\ KeyOf[d] \notin fulfilled
          /\ fulfilled' = fulfilled \cup {KeyOf[d]}
          /\ dpc' = [dpc EXCEPT ![d] = "marked"]
          /\ dproc' = [dproc EXCEPT ![d] = p]
    /\ UNCHANGED <<now, tier, credits, monthly, window, callVars, faults>>

\* Then the grant itself.
Fulfill(d) ==
    /\ dpc[d] = "marked"
    /\ Grant(d)
    /\ dpc' = [dpc EXCEPT ![d] = "granted"]
    /\ UNCHANGED <<now, monthly, fulfilled, window, callVars, dproc, faults>>

-----------------------------------------------------------------------------
(* Faults. *)

Fault == faults < MaxFaults /\ faults' = faults + 1

\* A command of the call raises (Redis gone or slow); a write may have got through
\* all the same, and behind the counter the balance is read for the answer.  The
\* caller sees an error.
CallRaises(c) ==
    /\ Durable /\ cpc[c] \in Running /\ Fault
    /\ Goto(c, "raised")
    /\ \/ UNCHANGED <<monthly, credits, path, window>>
       \/ /\ cpc[c] = "spend"
          /\ credits' = [credits EXCEPT ![agent[c]] = @ - 1]
          /\ path' = [path EXCEPT ![c] = "credit"]
          /\ UNCHANGED <<monthly, window>>
       \/ /\ cpc[c] = "clamp"
          /\ credits' = [credits EXCEPT ![agent[c]] = 0]
          /\ UNCHANGED <<monthly, path, window>>
       \/ /\ cpc[c] = "count"
          /\ monthly' = [monthly EXCEPT ![agent[c]][month[c]] = seenCalls[c] + 1]
          /\ window' \in {window, [window EXCEPT ![proc[c]][agent[c]] = @ \cup {c}]}
          /\ UNCHANGED <<credits, path>>
    /\ UNCHANGED <<now, tier, fulfilled, agent, proc, at, month, seenTier,
                   seenCalls, delVars>>

\* A command of the delivery raises: a mark that got through has no grant after
\* it, and neither has a grant that did not.
DeliveryRaises(d) ==
    /\ Durable /\ Fault
    /\ \/ /\ dpc[d] = "new" /\ KeyOf[d] \notin fulfilled \cup {NoKey}
          /\ \E p \in Procs : IdleProc(p)
          /\ fulfilled' = fulfilled \cup {KeyOf[d]}
          /\ dpc' = [dpc EXCEPT ![d] = "cut"]
          /\ UNCHANGED <<tier, credits>>
       \/ /\ dpc[d] = "marked"
          /\ dpc' = [dpc EXCEPT ![d] = "cut"]
          /\ UNCHANGED <<tier, credits, fulfilled>>
       \/ /\ dpc[d] = "marked"
          /\ Grant(d)
          /\ dpc' = [dpc EXCEPT ![d] = "granted"]
          /\ UNCHANGED fulfilled
    /\ UNCHANGED <<now, monthly, window, callVars, dproc>>

\* A process dies and starts again: its windows are empty, and without Redis
\* everything else is too.
Restart(p) ==
    /\ Fault
    /\ window' = [window EXCEPT ![p] = [a \in Agents |-> {}]]
    /\ cpc' = [c \in Calls |-> IF proc[c] = p /\ cpc[c] \in Running
                               THEN "raised" ELSE cpc[c]]
    /\ dpc' = [d \in Deliveries |-> IF dproc[d] = p /\ dpc[d] = "marked"
                                    THEN "cut" ELSE dpc[d]]
    /\ IF Durable THEN UNCHANGED store
       ELSE /\ tier' = [a \in Agents |-> "free"]
            /\ credits' = [a \in Agents |-> 0]
            /\ monthly' = [a \in Agents |-> [m \in Months |-> 0]]
            /\ fulfilled' = {}
    /\ UNCHANGED <<now, agent, proc, at, month, seenTier, seenCalls, path, dproc>>

Next ==
    \/ Tick
    \/ \E c \in Calls :
        \/ \E p \in Procs, a \in Agents : ReadTier(c, p, a)
        \/ ReadCalls(c) \/ ReadCredits(c) \/ Spend(c) \/ Clamp(c) \/ Count(c)
        \/ CallRaises(c)
    \/ \E d \in Deliveries :
        \/ \E p \in Procs : Purchase(d, p) \/ MarkFulfilled(d, p)
        \/ Fulfill(d) \/ DeliveryRaises(d)
    \/ \E p \in Procs : Restart(p)

Spec == Init /\ [][Next]_vars

-----------------------------------------------------------------------------
(* Properties. *)

ServedIn(a, m) == {c \in Calls : cpc[c] = "served" /\ agent[c] = a /\ month[c] = m}
OnQuota(S) == {c \in S : path[c] = "quota"}
Spenders(a) == {c \in Calls : agent[c] = a /\ path[c] = "credit"}
Packs(a) == {d \in Deliveries : /\ BuyerOf[d] = a /\ GoodOf[d] = "credits"
                                /\ dpc[d] = "granted"}

\* One process on Redis: every call let through is in the counter of the month
\* the call was judged in, through raised commands, restarts and month ends.
ServedIsCounted ==
    \A a \in Agents, m \in Months : Cardinality(ServedIn(a, m)) <= monthly[a][m]

\* So no month gives an agent more unpaid calls than the quota of its tier.
FreeWithinQuota ==
    \A a \in Agents, m \in Months :
        Cardinality(OnQuota(ServedIn(a, m))) <= Quota(tier[a])

\* One process on Redis: the balance is exactly what was granted less what was
\* spent, so nothing a raised command or a restart does invents or loses a credit.
CreditsConserved ==
    \A a \in Agents :
        /\ credits[a] = Pack * Cardinality(Packs(a)) - Cardinality(Spenders(a))
        /\ credits[a] >= 0

\* As long as no process restarts and no command raises: whatever minute one looks
\* at, the calls let through on the quota in it are within the rate of the agent's
\* tier.
QuotaCallsWithinRate == faults = 0 =>
    \A a \in Agents, t \in 0 .. MaxTime :
        Cardinality({c \in Calls : /\ cpc[c] = "served" /\ path[c] = "quota"
                                   /\ agent[c] = a /\ at[c] \in (t - Minute) .. t})
            <= Rate(tier[a])

\* A Stripe purchase is granted at most once, however often and on however many
\* processes its webhook is delivered, and a delivery is told "already fulfilled"
\* only when another one of its purchase was granted, is about to be, or was cut
\* between the mark and the grant.
FulfilledOnce ==
    /\ \A d, e \in Deliveries :
           d # e /\ KeyOf[d] = KeyOf[e] /\ dpc[d] = "granted" /\ dpc[e] = "granted"
               => KeyOf[d] = NoKey
    /\ \A d \in Deliveries : dpc[d] = "already" =>
           \E e \in Deliveries :
               KeyOf[e] = KeyOf[d] /\ dpc[e] \in {"marked", "granted", "cut"}
=============================================================================

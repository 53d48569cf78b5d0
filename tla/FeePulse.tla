------------------------------ MODULE FeePulse ------------------------------
(***************************************************************************)
(* The settle decision: whether to send a Base transaction now, and at     *)
(* what fee.  A snapshot of the chain is fetched under a lock and shared   *)
(* by everyone who asks within its lifetime; the chain goes on meanwhile.  *)
(*                                                                         *)
(* Time is counted in blocks, one every two seconds.  How full a block is  *)
(* is counted in percent of the gas limit, so that the target is 50.       *)
(***************************************************************************)
EXTENDS Integers, Sequences

CONSTANTS
    Askers,
    Urgencies,       \* what they may ask for, of "now", "soon" and "flexible"
    Fills,           \* how full blocks are
    FirstFees,       \* the base fee of the first block
    Tips,            \* eth_maxPriorityFeePerGas
    Unit,            \* fees are reported in multiples of it
    Depth,           \* blocks of a snapshot
    SnapTTL,         \* _CACHE_TTL_S, in blocks
    FetchBlocks,     \* how long a fetch takes at most
    FeeMaxHeight     \* bound

\* Fees are large against what reporting rounds away and against one wei.
ASSUME FeeAssumption ==
    /\ Fills \subseteq 0 .. 100 /\ Tips \subseteq Nat
    /\ Unit \in Nat \ {0} /\ \A f \in FirstFees : f \in Nat /\ f >= 16 * Unit
    /\ Depth \in Nat \ {0} /\ {SnapTTL, FetchBlocks, FeeMaxHeight} \subseteq Nat

VARIABLES
    fees,            \* the base fee of every block
    fills,           \* how full every block is
    tip,
    snap,            \* _cache
    lock,            \* who holds _cache_lock, and what it has read
    asker,
    advice           \* every answer given

feeVars == <<fees, fills, tip, snap, lock, asker, advice>>

Height == Len(fees)
Free == [by |-> "nobody"]
NoSnap == [at |-> -1]

Target == 50
Denominator == 8
Maximal(a, b) == IF a > b THEN a ELSE b

\* next_base_fee_wei.
NextFee(fee, fill) ==
    IF fill > Target
    THEN fee + Maximal(((fee * (fill - Target)) \div Target) \div Denominator, 1)
    ELSE fee - ((fee * (Target - fill)) \div Target) \div Denominator

FeeInit ==
    /\ \E f \in FirstFees, u \in Fills : fees = <<f>> /\ fills = <<u>>
    /\ tip \in Tips
    /\ snap = NoSnap /\ lock = Free
    /\ asker = [a \in Askers |-> "idle"]
    /\ advice = {}

\* A block, and perhaps another tip.  A fetch that takes longer times out.
NewBlock ==
    /\ Height < FeeMaxHeight
    /\ lock # Free => Height < lock.asOf + FetchBlocks
    /\ fees' = Append(fees, NextFee(fees[Height], fills[Height]))
    /\ \E u \in Fills : fills' = Append(fills, u)
    /\ tip' \in Tips
    /\ UNCHANGED <<snap, lock, asker, advice>>

-----------------------------------------------------------------------------
(* analyze and decide. *)

Congestion(fill) ==
    CASE fill < 20 -> "abundant"
      [] fill < 50 -> "comfortable"
      [] fill < 75 -> "elevated"
      [] fill < 90 -> "busy"
      [] OTHER -> "congested"

\* The least-squares slope of the fills, against two percent of their mean.
Trend(s) ==
    LET n == Len(s)
        total[i \in 0 .. n] == IF i = 0 THEN 0 ELSE total[i - 1] + s[i]
        \* the slope's numerator and denominator, the latter times twelve
        num[i \in 0 .. n] == IF i = 0 THEN 0 ELSE num[i - 1] + (2 * i - n - 1) * s[i]
        slope == 6 * num[n]
        scale == n * (n * n - 1)
    IN  CASE n < 3 \/ total[n] = 0 -> "flat"
          [] 50 * n * slope > scale * total[n] -> "rising"
          [] 50 * n * slope < -(scale * total[n]) -> "falling"
          [] OTHER -> "flat"

Calm(fill) == Congestion(fill) \in {"abundant", "comfortable"}

Verdict(s) ==
    LET now == s[Len(s)]
        tightening == Trend(s) = "rising" /\ now > 55
    IN  CASE Calm(now) /\ ~tightening -> "SETTLE_NOW"
          [] tightening \/ Congestion(now) = "elevated" -> "SETTLE_SOON"
          [] OTHER -> "HOLD_IF_FLEXIBLE"

\* Reported fees are rounded to the unit.
Reported(fee) == ((2 * fee + Unit) \div (2 * Unit)) * Unit

Submit(urgency, verdict) ==
    CASE urgency = "now" -> TRUE
      [] urgency = "soon" -> verdict \in {"SETTLE_NOW", "SETTLE_SOON"}
      [] OTHER -> verdict = "SETTLE_NOW"

\* Mutant: the ceiling is the fee of the moment.
MaxFee_Current(r) == Reported(r.fee) + Reported(r.tip)

\* max_fee_per_gas: twice the base fee and the tip.
MaxFee(r) == 2 * Reported(r.fee) + Reported(r.tip)

Decide(r, urgency) ==
    [at |-> Height, asOf |-> r.asOf, urgency |-> urgency, max |-> MaxFee(r),
     base |-> r.fee, submit |-> Submit(urgency, Verdict(r.series))]

-----------------------------------------------------------------------------
(* The snapshot. *)

AskAdvice(a) ==
    /\ asker[a] = "idle" /\ asker' = [asker EXCEPT ![a] = "waiting"]
    /\ UNCHANGED <<fees, fills, tip, snap, lock, advice>>

Answer(a, r) ==
    /\ \E urgency \in Urgencies : advice' = advice \cup {Decide(r, urgency)}
    /\ asker' = [asker EXCEPT ![a] = "answered"]

FreshSnap == snap # NoSnap /\ Height - snap.at < SnapTTL

\* The lock is had and the snapshot is fresh.
FromSnap(a) ==
    /\ asker[a] = "waiting" /\ lock = Free /\ FreshSnap
    /\ Answer(a, snap.report)
    /\ UNCHANGED <<fees, fills, tip, snap, lock>>

\* The lock is had and a fetch begins: the newest block is looked up first.
FetchBegins(a) ==
    /\ asker[a] = "waiting" /\ lock = Free /\ ~FreshSnap
    /\ lock' = [by |-> a, asOf |-> Height]
    /\ UNCHANGED <<fees, fills, tip, snap, asker, advice>>

\* The last blocks up to the one looked up, then the tip: the report's age is
\* counted from here.
FetchEnds(a) ==
    /\ lock # Free /\ lock.by = a
    /\ LET from == Maximal(lock.asOf - Depth + 1, 1)
           report == [asOf |-> lock.asOf, fee |-> fees[lock.asOf], tip |-> tip,
                      series |-> SubSeq(fills, from, lock.asOf)]
       IN  snap' = [at |-> Height, report |-> report] /\ Answer(a, report)
    /\ lock' = Free
    /\ UNCHANGED <<fees, fills, tip>>

\* A read raises: the old snapshot stays, and the next one who waits fetches.
FetchRaises(a) ==
    /\ lock # Free /\ lock.by = a
    /\ lock' = Free
    /\ asker' = [asker EXCEPT ![a] = "failed"]
    /\ UNCHANGED <<fees, fills, tip, snap, advice>>

FeeNext ==
    \/ NewBlock
    \/ \E a \in Askers :
          AskAdvice(a) \/ FromSnap(a) \/ FetchBegins(a) \/ FetchEnds(a) \/ FetchRaises(a)

-----------------------------------------------------------------------------
(* Properties. *)

\* The ceiling of an answer holds for five full blocks behind the block it is of,
\* an answer is of a block at most a fetch and a lifetime old, and who is flexible
\* is told to send only when the block behind that one is no dearer: the verdict's
\* thresholds on fullness and the chain's fee rule agree.
AdviceHolds ==
    \A d \in advice :
        /\ d.at < d.asOf + FetchBlocks + Maximal(SnapTTL, 1)
        /\ \A h \in d.asOf .. Height : h <= d.asOf + 5 => fees[h] <= d.max
        /\ d.submit /\ d.urgency = "flexible" /\ d.asOf < Height => fees[d.asOf + 1] <= d.base
=============================================================================

--------------------------- MODULE SwarmRunProofs ---------------------------
(***************************************************************************)
(* What a run spends agrees with the chain, stays within the caps and is   *)
(* repaid by what it lists, for any runs, services, prices and caps; and   *)
(* what is streamed of it is complete, for any events and listeners.       *)
(*                                                                         *)
(* The ledger: a row is written only behind a payment of the same run to   *)
(* the same service, the head of its queue, or behind the report of one    *)
(* that was not made. A payment without a row is the one of the request    *)
(* under way. The run goes on past it only when the answer shows no        *)
(* settlement, and those payments are collected.                           *)
(*                                                                         *)
(* The caps: the warden's review reserves what it approves, so that the    *)
(* ledger's sums leave room for the whole queue on any day it may be paid. *)
(* A payment moves an amount from the queue to the rows. A second run      *)
(* reads sums in which the first one's queue is missing, hence the         *)
(* condition that no two were in flight together.                          *)
(*                                                                         *)
(* The price: a run that is buying holds all the rows it has in the        *)
(* ledger, and no row is added once it has composed.                       *)
(*                                                                         *)
(* The stream: what a listener was sent, what is set aside to be replayed  *)
(* and the events of its queue are together the events from where it       *)
(* began, in this order. The alerts: the spends that are kept add up to    *)
(* the purchases of every window that can still be asked for, so that      *)
(* forgetting the others loses nothing.                                    *)
(***************************************************************************)
EXTENDS SwarmRun, OpsEvents, FoldLemmas, TLAPS

HasPaid(r, s) == \E y \in paid : y.run = r /\ y.svc = s
HasRow(r, s) == \E x \in rows : x.run = r /\ x.svc = s
Pending(y) == charged[y.run] /\ Head(queue[y.run]) = y.svc /\ y.post = posted[y.run]

Statuses == {"idle", "scouting", "buying", "composing", "listed", "failed", "cut"}

\* A payment is under way only while its run is buying, or failed over its row.
ChargeInv ==
    /\ faults \in Nat
    /\ status \in [Runs -> Statuses] /\ charged \in [Runs -> BOOLEAN]
    /\ DOMAIN queue = Runs /\ DOMAIN posted = Runs
    /\ \A y \in paid : y.run \in Runs
    /\ \A r \in Runs : charged[r] => /\ status[r] \in {"buying", "failed"}
                                     /\ HasPaid(r, Head(queue[r]))

RowsTrue == \A x \in rows : x \in claimed \/ HasPaid(x.run, x.svc)

\* The payment a run is waiting on is the one of the request under way, GET or POST.
PaymentsKept == faults = 0 => \A y \in paid \ denied : HasRow(y.run, y.svc) \/ Pending(y)

SpendInv == ChargeInv /\ RowsTrue /\ PaymentsKept

-----------------------------------------------------------------------------
LEMMA SpendInit == Init => SpendInv
  BY SwarmRunAssumption DEF Init, SpendInv, ChargeInv, RowsTrue, PaymentsKept, Statuses

\* A step that pays nothing, records nothing and leaves queues and payments under
\* way as they are.
LEMMA NothingSpent ==
    ASSUME SpendInv, UNCHANGED <<rows, paid, queue, posted, charged, denied, claimed>>,
           faults' \in Nat, faults' = 0 => faults = 0,
           status' \in [Runs -> Statuses],
           \A r \in Runs : charged[r] => status'[r] \in {"buying", "failed"}
    PROVE  SpendInv'
<1>1. ChargeInv'
  BY DEF SpendInv, ChargeInv, HasPaid, Statuses
<1>2. RowsTrue' /\ PaymentsKept'
  BY DEF SpendInv, RowsTrue, PaymentsKept, HasPaid, HasRow, Pending
<1>3. QED
  BY <1>1, <1>2 DEF SpendInv

\* The queue of a run for which nothing is under way may change.
LEMMA QueueMoves ==
    ASSUME SpendInv, NEW r \in Runs, ~charged[r],
           UNCHANGED <<rows, paid, faults, posted, charged, denied, claimed>>,
           DOMAIN queue' = Runs, \A x \in Runs \ {r} : queue'[x] = queue[x],
           status' \in [Runs -> Statuses], \A x \in Runs \ {r} : status'[x] = status[x]
    PROVE  SpendInv'
<1>1. ChargeInv'
  BY DEF SpendInv, ChargeInv, HasPaid, Statuses
<1>2. \A y \in paid : charged[y.run] => y.run \in Runs \ {r}
  BY DEF SpendInv, ChargeInv, Statuses
<1>3. PaymentsKept'
  BY <1>2 DEF SpendInv, PaymentsKept, HasRow, Pending
<1>4. RowsTrue'
  BY DEF SpendInv, RowsTrue, HasPaid
<1>5. QED
  BY <1>1, <1>3, <1>4 DEF SpendInv

LEMMA ScoutedInv == ASSUME SpendInv, NEW r \in Runs, Scouted(r) PROVE SpendInv'
<1>1. /\ status[r] = "scouting"
      /\ UNCHANGED <<rows, paid, faults, posted, charged, denied, claimed>>
      /\ \/ queue' = queue /\ status' = [status EXCEPT ![r] = "failed"]
         \/ \E q : queue' = [queue EXCEPT ![r] = q] /\ status' = [status EXCEPT ![r] = "buying"]
  BY DEF Scouted, End, buying, history
<1>2. ~charged[r] /\ status \in [Runs -> Statuses] /\ DOMAIN queue = Runs
  BY <1>1 DEF SpendInv, ChargeInv, Statuses
<1>3. status' \in [Runs -> Statuses] /\ \A x \in Runs \ {r} : status'[x] = status[x]
  BY <1>1, <1>2 DEF Statuses
<1>4. DOMAIN queue' = Runs /\ \A x \in Runs \ {r} : queue'[x] = queue[x]
  BY <1>1, <1>2
<1>5. QED
  BY <1>1, <1>2, <1>3, <1>4, QueueMoves

\* The payment is under way until it has its row.
LEMMA ChargeKeeps == ASSUME SpendInv, NEW r \in Runs, Charge(r) PROVE SpendInv'
<1>1. PICK p : paid' = paid \cup {[run |-> r, svc |-> Head(queue[r]), day |-> day, amt |-> p,
                                   post |-> posted[r]]}
  BY DEF Charge
<1>2. /\ status[r] = "buying" /\ charged' = [charged EXCEPT ![r] = TRUE]
      /\ UNCHANGED <<rows, queue, posted, status, faults, denied, claimed>>
  BY DEF Charge, history
<1> DEFINE new == [run |-> r, svc |-> Head(queue[r]), day |-> day, amt |-> p,
                   post |-> posted[r]]
<1>3. /\ new \in paid' /\ paid' = paid \cup {new}
      /\ new.run = r /\ new.svc = Head(queue[r]) /\ new.post = posted[r]
  BY <1>1
<1> HIDE DEF new
<1>4. charged' \in [Runs -> BOOLEAN] /\ charged'[r] /\ \A x \in Runs \ {r} : charged'[x] = charged[x]
  BY <1>2 DEF SpendInv, ChargeInv, Statuses
<1>5. ChargeInv'
  BY <1>2, <1>3, <1>4 DEF SpendInv, ChargeInv, HasPaid, Statuses
<1>6. RowsTrue'
  BY <1>2, <1>3 DEF SpendInv, RowsTrue, HasPaid
<1>7. ASSUME faults = 0, NEW y \in paid' \ denied
      PROVE  HasRow(y.run, y.svc) \/ Pending(y)'
  <2>1. CASE y = new
    BY <1>2, <1>3, <1>4, <2>1 DEF Pending
  <2>2. CASE y \in paid
    <3>1. y.run \in Runs
      BY <2>2 DEF SpendInv, ChargeInv, Statuses
    <3>2. HasRow(y.run, y.svc) \/ Pending(y)
      BY <1>7, <2>2 DEF SpendInv, PaymentsKept
    <3>3. charged[y.run] => charged'[y.run]
      BY <1>4, <3>1
    <3>4. QED
      BY <1>2, <3>2, <3>3 DEF Pending
  <2>3. QED
    BY <1>3, <2>1, <2>2
<1>8. PaymentsKept'
  BY <1>2, <1>7 DEF PaymentsKept, HasRow
<1>9. QED
  BY <1>5, <1>6, <1>8 DEF SpendInv

\* The request of a run is over: what it has paid has its row or showed no
\* settlement.
LEMMA RequestEnds ==
    ASSUME SpendInv, NEW r \in Runs, status[r] = "buying", paid' = paid, rows \subseteq rows',
           charged' = [charged EXCEPT ![r] = FALSE], DOMAIN posted' = Runs,
           DOMAIN queue' = Runs,
           \A x \in Runs \ {r} : queue'[x] = queue[x] /\ posted'[x] = posted[x],
           status' \in [Runs -> Statuses], \A x \in Runs \ {r} : status'[x] = status[x],
           RowsTrue', denied \subseteq denied', faults' = faults,
           \A y \in Paying(r) : y \in denied' \/ \E x \in rows' : x.run = r /\ x.svc = y.svc
    PROVE  SpendInv'
<1>1. /\ charged' \in [Runs -> BOOLEAN] /\ ~charged'[r]
      /\ \A x \in Runs \ {r} : charged'[x] = charged[x]
  BY DEF SpendInv, ChargeInv, Statuses
<1>2. ChargeInv'
  BY <1>1 DEF SpendInv, ChargeInv, HasPaid, Statuses
<1>3. ASSUME faults = 0, NEW y \in paid \ denied'
      PROVE  (\E x \in rows' : x.run = y.run /\ x.svc = y.svc) \/ Pending(y)'
  <2>1. y.run \in Runs
    BY DEF SpendInv, ChargeInv, Statuses
  <2>2. (\E x \in rows : x.run = y.run /\ x.svc = y.svc) \/ Pending(y)
    BY <1>3 DEF SpendInv, PaymentsKept, HasRow
  <2>3. CASE y.run = r
    <3>1. Pending(y) => y \in Paying(r)
      BY <2>3 DEF Pending, Paying
    <3>2. QED
      BY <1>3, <2>2, <2>3, <3>1
  <2>4. CASE y.run # r
    BY <1>1, <2>1, <2>2, <2>4 DEF Pending
  <2>5. QED
    BY <2>3, <2>4
<1>4. PaymentsKept'
  BY <1>3 DEF PaymentsKept, HasRow
<1>5. QED
  BY <1>2, <1>4 DEF SpendInv

\* On to the next service.
LEMMA AdvanceKeeps ==
    ASSUME SpendInv, NEW r \in Runs, NEW b, status[r] = "buying", Advance(r, b),
           paid' = paid, rows \subseteq rows', RowsTrue', denied \subseteq denied',
           faults' = faults,
           \A y \in Paying(r) : y \in denied' \/ \E x \in rows' : x.run = r /\ x.svc = y.svc
    PROVE  SpendInv'
<1>1. /\ charged' = [charged EXCEPT ![r] = FALSE] /\ queue' = [queue EXCEPT ![r] = Tail(@)]
      /\ posted' = [posted EXCEPT ![r] = FALSE]
      /\ \/ status' = status \/ status' = [status EXCEPT ![r] = "listed"]
         \/ status' = [status EXCEPT ![r] = "failed"]
  BY DEF Advance, Compose, End
<1>2. /\ DOMAIN queue' = Runs /\ DOMAIN posted' = Runs
      /\ \A x \in Runs \ {r} : queue'[x] = queue[x] /\ posted'[x] = posted[x]
  BY <1>1 DEF SpendInv, ChargeInv
<1>3. status' \in [Runs -> Statuses] /\ \A x \in Runs \ {r} : status'[x] = status[x]
  BY <1>1 DEF SpendInv, ChargeInv, Statuses
<1>4. QED
  BY <1>1, <1>2, <1>3, RequestEnds

\* Both writers of a row have a payment for it, or the report of one.
LEMMA RowIsReported ==
    ASSUME SpendInv, NEW r \in Runs, Reported(r), paid' = paid,
           rows' \in {rows, rows \cup {Row(r)}}
    PROVE  RowsTrue' /\ Row(r).run = r /\ Row(r).svc = Head(queue[r])
<1>1. Row(r).run = r /\ Row(r).svc = Head(queue[r])
  BY DEF Row
<1>2. claimed \subseteq claimed' /\ (Row(r) \in claimed' \/ charged[r])
  BY DEF Reported
<1>3. charged[r] => HasPaid(r, Head(queue[r]))
  BY DEF SpendInv, ChargeInv, Statuses
<1>4. Row(r) \in claimed' \/ HasPaid(Row(r).run, Row(r).svc)
  BY <1>1, <1>2, <1>3
<1>5. ASSUME NEW x \in rows' PROVE x \in claimed' \/ HasPaid(x.run, x.svc)
  BY <1>2, <1>4 DEF SpendInv, RowsTrue
<1>6. RowsTrue'
  BY <1>5 DEF RowsTrue, HasPaid
<1>7. QED
  BY <1>1, <1>6

LEMMA SettledKeeps == ASSUME SpendInv, NEW r \in Runs, Settled(r) PROVE SpendInv'
<1>1. /\ status[r] = "buying" /\ Reported(r) /\ rows' = rows \cup {Row(r)}
      /\ Advance(r, bought[r] \cup {Row(r)}) /\ UNCHANGED <<paid, faults, denied>>
  BY DEF Settled
<1>2. RowsTrue' /\ Row(r).run = r /\ Row(r).svc = Head(queue[r])
  BY <1>1, RowIsReported
<1>3. \A y \in Paying(r) : \E x \in rows' : x.run = r /\ x.svc = y.svc
  BY <1>1, <1>2 DEF Paying
<1>4. rows \subseteq rows' /\ denied \subseteq denied'
  BY <1>1
<1>5. QED
  BY <1>1, <1>2, <1>3, <1>4, AdvanceKeeps

\* An answer that shows no settlement leaves no row.
LEMMA DeniedRows ==
    ASSUME SpendInv, UNCHANGED <<rows, paid, claimed>>
    PROVE  RowsTrue'
  BY DEF SpendInv, RowsTrue, HasPaid

LEMMA PassedOverKeeps == ASSUME SpendInv, NEW r \in Runs, PassedOver(r) PROVE SpendInv'
<1>1. /\ status[r] = "buying" /\ Advance(r, bought[r])
      /\ UNCHANGED <<rows, paid, claimed, faults>> /\ denied' = denied \cup Paying(r)
  BY DEF PassedOver, Denies
<1>2. RowsTrue' /\ rows \subseteq rows' /\ denied \subseteq denied'
  BY <1>1, DeniedRows
<1>3. \A y \in Paying(r) : y \in denied'
  BY <1>1
<1>4. QED
  BY <1>1, <1>2, <1>3, AdvanceKeeps

LEMMA AskAgainKeeps == ASSUME SpendInv, NEW r \in Runs, AskAgain(r) PROVE SpendInv'
<1>1. /\ status[r] = "buying" /\ charged' = [charged EXCEPT ![r] = FALSE]
      /\ posted' = [posted EXCEPT ![r] = TRUE] /\ denied' = denied \cup Paying(r)
      /\ UNCHANGED <<rows, paid, claimed, faults, queue, status>>
  BY DEF AskAgain, Denies
<1>2. RowsTrue' /\ rows \subseteq rows' /\ denied \subseteq denied'
  BY <1>1, DeniedRows
<1>3. \A y \in Paying(r) : y \in denied'
  BY <1>1
<1>4. /\ DOMAIN posted' = Runs /\ DOMAIN queue' = Runs /\ status' \in [Runs -> Statuses]
      /\ \A x \in Runs \ {r} : queue'[x] = queue[x] /\ posted'[x] = posted[x]
      /\ \A x \in Runs \ {r} : status'[x] = status[x]
  BY <1>1 DEF SpendInv, ChargeInv
<1>5. QED
  BY <1>1, <1>2, <1>3, <1>4, RequestEnds

LEMMA RecordFailsKeeps == ASSUME SpendInv, NEW r \in Runs, RecordFails(r) PROVE SpendInv'
<1>1. /\ Reported(r) /\ faults' = faults + 1 /\ rows' \in {rows, rows \cup {Row(r)}}
      /\ status' = [status EXCEPT ![r] = "failed"]
      /\ UNCHANGED <<paid, queue, posted, charged>>
  BY DEF RecordFails, Fault, End, buying
<1>2. RowsTrue'
  BY <1>1, RowIsReported
<1>3. faults' \in Nat /\ faults' # 0
  BY <1>1 DEF SpendInv, ChargeInv, Statuses
<1>4. ChargeInv'
  BY <1>1, <1>3 DEF SpendInv, ChargeInv, HasPaid, Statuses
<1>5. QED
  BY <1>2, <1>3, <1>4 DEF SpendInv, PaymentsKept

LEMMA CrashKeeps == ASSUME SpendInv, Crash PROVE SpendInv'
<1>1. /\ faults' = faults + 1 /\ charged' = [r \in Runs |-> FALSE] /\ queue' = [r \in Runs |-> <<>>]
      /\ posted' = [r \in Runs |-> FALSE]
      /\ status' = [r \in Runs |-> IF r \in InFlight THEN "cut" ELSE status[r]]
      /\ UNCHANGED <<rows, paid, claimed>>
  BY DEF Crash, Fault, history
<1>2. faults' \in Nat /\ faults' # 0
  BY <1>1 DEF SpendInv, ChargeInv, Statuses
<1>3. status' \in [Runs -> Statuses]
  BY <1>1 DEF SpendInv, ChargeInv, Statuses
<1>4. ChargeInv'
  BY <1>1, <1>2, <1>3 DEF SpendInv, ChargeInv, Statuses
<1>5. RowsTrue'
  BY <1>1, DeniedRows
<1>6. QED
  BY <1>2, <1>4, <1>5 DEF SpendInv, PaymentsKept

\* The steps that neither pay nor record.
LEMMA StartKeeps == ASSUME SpendInv, NEW r \in Runs, Start(r) PROVE SpendInv'
<1>1. /\ status[r] = "idle"
      /\ UNCHANGED <<rows, paid, queue, posted, charged, denied, claimed, faults>>
      /\ \E s \in {"scouting", "composing"} : status' = [status EXCEPT ![r] = s]
  BY DEF Start, buying
<1>2. ~charged[r]
  BY <1>1 DEF SpendInv, ChargeInv, Statuses
<1>3. /\ faults' \in Nat /\ faults' = faults /\ status' \in [Runs -> Statuses]
      /\ \A x \in Runs : charged[x] => status'[x] \in {"buying", "failed"}
  BY <1>1, <1>2 DEF SpendInv, ChargeInv, Statuses
<1>4. QED
  BY <1>1, <1>3, NothingSpent

LEMMA EndKeeps ==
    ASSUME SpendInv, NEW r \in Runs, ~charged[r],
           UNCHANGED <<rows, paid, queue, posted, charged, denied, claimed, faults>>,
           \/ status' = status \/ \E s \in {"listed", "failed"} : status' = [status EXCEPT ![r] = s]
    PROVE  SpendInv'
<1>1. /\ faults' \in Nat /\ faults' = faults /\ status' \in [Runs -> Statuses]
      /\ \A x \in Runs : charged[x] => status'[x] \in {"buying", "failed"}
  BY DEF SpendInv, ChargeInv, Statuses
<1>2. QED
  BY <1>1, NothingSpent

LEMMA SpendNext == SpendInv /\ [Next]_vars => SpendInv'
<1> SUFFICES ASSUME SpendInv, [Next]_vars PROVE SpendInv'
  OBVIOUS
<1>1. CASE NewDay \/ UNCHANGED vars
  <2>1. UNCHANGED <<rows, paid, queue, posted, charged, denied, claimed, faults, status>>
    BY <1>1 DEF NewDay, vars, buying, history
  <2>2. QED
    BY <2>1, NothingSpent DEF SpendInv, ChargeInv, Statuses
<1>2. CASE Crash
  BY <1>2, CrashKeeps
<1>3. CASE \E r \in Runs : Start(r) \/ Scouted(r) \/ Charge(r) \/ AskAgain(r)
  BY <1>3, StartKeeps, ScoutedInv, ChargeKeeps, AskAgainKeeps
<1>4. CASE \E r \in Runs : Settled(r) \/ RecordFails(r) \/ PassedOver(r)
  BY <1>4, SettledKeeps, RecordFailsKeeps, PassedOverKeeps
<1>5. ASSUME NEW r \in Runs, NoWallet(r) PROVE SpendInv'
  BY <1>5, EndKeeps DEF NoWallet, End, buying, history
<1>6. ASSUME NEW r \in Runs, ZeroCost(r) PROVE SpendInv'
  <2>1. status[r] = "composing"
        /\ UNCHANGED <<rows, paid, queue, posted, charged, denied, claimed, faults>>
        /\ (status' = status \/ status' = [status EXCEPT ![r] = "listed"])
    BY <1>6 DEF ZeroCost, End, buying, history
  <2>2. ~charged[r]
    BY <2>1 DEF SpendInv, ChargeInv, Statuses
  <2>3. QED
    BY <2>1, <2>2, EndKeeps
<1>7. QED
  BY <1>1, <1>2, <1>3, <1>4, <1>5, <1>6 DEF Next

\* For any runs, services and prices, and whatever is lost, raises or crashes: a
\* spend row stands for a payment of its run to its service or for the report of
\* one; and without a fault every payment has a row, but for the one its run is
\* waiting on and those whose answers showed no settlement, the first of two
\* payments behind a 404 among them.
THEOREM LedgerTheorem == Spec => []LedgerMatchesChain
<1>1. SpendInv => LedgerMatchesChain
  BY DEF SpendInv, RowsTrue, PaymentsKept, Pending, HasPaid, HasRow, LedgerMatchesChain
<1>2. QED
  BY SpendInit, SpendNext, <1>1, PTL DEF Spec

-----------------------------------------------------------------------------
(* The sum of a set of rows. *)

\* Total is the sum of the amounts.
LEMMA TotalIs ==
    ASSUME NEW S, IsFiniteSet(S), \A x \in S : x.amt \in Nat
    PROVE  Total(S) = SumOver([x \in S |-> x.amt], S)
<1> DEFINE w == [x \in S |-> x.amt]
           Sums(g) == g = [s \in SUBSET S |-> IF s = {} THEN 0
                             ELSE (CHOOSE x \in s : TRUE).amt + g[s \ {CHOOSE x \in s : TRUE}]]
           iter == CHOOSE g : Sums(g)
<1>1. Total(S) = iter[S]
  BY DEF Total, FoldSet, MapThenFoldSet
<1>2. \A x \in S : w[x] = x.amt /\ w[x] \in Int
  OBVIOUS
<1> HIDE DEF w
<1>3. PICK g : IsSum(g, w, S)
  BY <1>2, SumExists
<1>4. ASSUME NEW s \in SUBSET S
      PROVE  SumStep(g, w, s) = IF s = {} THEN 0 ELSE Pick(s).amt + g[s \ {Pick(s)}]
  BY <1>2, PickIn DEF SumStep
<1>5. Sums(g)
  BY <1>3, <1>4 DEF IsSum, Pick
<1>6. Sums(iter)
  BY <1>5
<1> HIDE DEF iter
<1>7. ASSUME NEW s \in SUBSET S
      PROVE  SumStep(iter, w, s) = IF s = {} THEN 0 ELSE Pick(s).amt + iter[s \ {Pick(s)}]
  BY <1>2, PickIn DEF SumStep
<1>8. IsSum(iter, w, S)
  BY <1>6, <1>7 DEF IsSum, Pick
<1>9. SumOver(w, S) = iter[S]
  BY <1>2, <1>8, SumIs
<1>10. QED
  BY <1>1, <1>9 DEF w

LEMMA TotalAdd ==
    ASSUME NEW S, IsFiniteSet(S), \A x \in S : x.amt \in Nat, NEW x, x.amt \in Nat
    PROVE  /\ Total({}) = 0 /\ Total(S) \in Nat
           /\ Total(S \cup {x}) \in Nat /\ Total(S \cup {x}) <= Total(S) + x.amt
<1> DEFINE W(s) == [y \in s |-> y.amt]
           R == S \cup {x}
<1>1. IsFiniteSet(R) /\ \A y \in R : y.amt \in Nat
  BY FS_AddElement
<1>2. Total(S) = SumOver(W(S), S) /\ Total(R) = SumOver(W(R), R)
  BY <1>1, TotalIs
<1>3. Total(S) \in Nat /\ Total(R) \in Nat
  <2>1. (\A y \in S : W(S)[y] \in Nat) /\ \A y \in R : W(R)[y] \in Nat
    BY <1>1
  <2>2. Nat \in {Nat, Int}
    OBVIOUS
  <2> HIDE DEF W, R
  <2>3. QED
    BY <1>1, <1>2, <2>1, <2>2, SumType
<1>4. Total({}) = 0
  <2>1. IsFiniteSet({}) /\ \A y \in {} : y.amt \in Nat
    BY FS_EmptySet
  <2>2. Total({}) = SumOver(W({}), {})
    BY <2>1, TotalIs
  <2>3. SumOver(W({}), {}) = 0
    BY <2>1, SumRec
  <2>4. QED
    BY <2>2, <2>3
<1>5. CASE x \in S
  <2>1. R = S
    BY <1>5
  <2>2. QED
    BY <1>3, <1>4, <2>1
<1>6. CASE x \notin S
  <2>1. \A y \in R : W(R)[y] \in Int /\ W(R)[y] = y.amt
    BY <1>1
  <2>2. SumOver(W(R), R) = x.amt + SumOver(W(R), S)
    BY <1>6, <2>1, SumAdd
  <2>3. SumOver(W(R), S) = SumOver(W(S), S)
    <3>1. \A y \in S : W(R)[y] \in Int /\ W(R)[y] = W(S)[y]
      BY <1>1
    <3> HIDE DEF W, R
    <3>2. QED
      BY <3>1, SumSame
  <2>4. Total(R) = x.amt + Total(S)
    BY <1>2, <2>2, <2>3
  <2>5. QED
    BY <1>3, <1>4, <2>4
<1>7. QED
  BY <1>3, <1>4, <1>5, <1>6

-----------------------------------------------------------------------------
(* What the warden approves. *)

Priced == {s \in Services : ListPrice[s] \in Nat}

\* The services of q cost b together: f[i] is what the first i cost.
Costs(q, b) ==
    \E f \in [0 .. Len(q) -> Nat] :
        /\ f[0] = 0 /\ f[Len(q)] = b
        /\ \A i \in 1 .. Len(q) : f[i] = f[i - 1] + ListPrice[q[i]]

LEMMA CostsEmpty == Costs(<<>>, 0)
<1> DEFINE f == [i \in 0 .. 0 |-> 0]
<1>1. Len(<<>>) = 0 /\ 1 .. 0 = {} /\ f \in [0 .. 0 -> Nat] /\ f[0] = 0
  OBVIOUS
<1> HIDE DEF f
<1>2. /\ f \in [0 .. Len(<<>>) -> Nat] /\ f[0] = 0 /\ f[Len(<<>>)] = 0
      /\ \A i \in 1 .. Len(<<>>) : f[i] = f[i - 1] + ListPrice[<<>>[i]]
  BY <1>1
<1>3. QED
  BY <1>2 DEF Costs

\* One service more, at the end.
LEMMA CostsAppend ==
    ASSUME NEW q \in Seq(Priced), NEW b \in Nat, NEW s \in Priced, Costs(q, b)
    PROVE  Costs(Append(q, s), b + ListPrice[s])
<1>1. PICK f \in [0 .. Len(q) -> Nat] :
        /\ f[0] = 0 /\ f[Len(q)] = b
        /\ \A i \in 1 .. Len(q) : f[i] = f[i - 1] + ListPrice[q[i]]
  BY DEF Costs
<1> DEFINE n == Len(q)
           q2 == Append(q, s)
           h == [i \in 0 .. n + 1 |-> IF i <= n THEN f[i] ELSE b + ListPrice[s]]
<1>2. n \in Nat /\ Len(q2) = n + 1 /\ q2[n + 1] = s /\ \A i \in 1 .. n : q2[i] = q[i]
  OBVIOUS
<1>3. ListPrice[s] \in Nat
  BY DEF Priced
<1>4. h \in [0 .. n + 1 -> Nat]
  BY <1>2, <1>3
<1>5. h[0] = 0 /\ h[n + 1] = b + ListPrice[s]
  BY <1>1, <1>2
<1>6. ASSUME NEW i \in 1 .. n + 1 PROVE h[i] = h[i - 1] + ListPrice[q2[i]]
  <2>1. CASE i = n + 1
    <3>1. h[i] = b + ListPrice[s] /\ h[i - 1] = f[n]
      BY <2>1, <1>2
    <3>2. QED
      BY <2>1, <3>1, <1>1, <1>2
  <2>2. CASE i \in 1 .. n
    <3>1. h[i] = f[i] /\ h[i - 1] = f[i - 1]
      BY <2>2, <1>2
    <3>2. QED
      BY <2>2, <3>1, <1>1, <1>2
  <2>3. QED
    BY <2>1, <2>2, <1>2
<1> HIDE DEF h, q2
<1>7. h \in [0 .. Len(q2) -> Nat] /\ h[0] = 0 /\ h[Len(q2)] = b + ListPrice[s]
      /\ \A i \in 1 .. Len(q2) : h[i] = h[i - 1] + ListPrice[q2[i]]
  BY <1>2, <1>4, <1>5, <1>6
<1>8. Costs(q2, b + ListPrice[s])
  BY <1>7 DEF Costs
<1>9. QED
  BY <1>8 DEF q2

\* Behind the first service the rest costs what is left.
LEMMA CostsTail ==
    ASSUME NEW q \in Seq(Priced), q # <<>>, NEW b \in Nat, Costs(q, b)
    PROVE  /\ ListPrice[Head(q)] \in Nat
           /\ \E c \in Nat : b = c + ListPrice[Head(q)] /\ Costs(Tail(q), c)
<1>1. PICK f \in [0 .. Len(q) -> Nat] :
        /\ f[0] = 0 /\ f[Len(q)] = b
        /\ \A i \in 1 .. Len(q) : f[i] = f[i - 1] + ListPrice[q[i]]
  BY DEF Costs
<1> DEFINE n == Len(q)
           p == ListPrice[Head(q)]
           t == Tail(q)
<1>2. n \in Nat /\ n >= 1 /\ Head(q) = q[1] /\ q[1] \in Priced
  OBVIOUS
<1>3. Len(t) = n - 1 /\ t \in Seq(Priced) /\ \A i \in 1 .. n - 1 : t[i] = q[i + 1]
  BY <1>2
<1>4. p \in Nat
  BY <1>2 DEF Priced
<1>5. f[1] = p
  BY <1>1, <1>2, <1>4
<1> HIDE DEF p, t
<1>6. \A i \in 1 .. n : ListPrice[q[i]] \in Nat
  BY DEF Priced
<1> DEFINE Bad == {i \in 0 .. n - 1 : f[i + 1] < p}
<1>7. Bad = {}
  <2> SUFFICES ASSUME Bad # {} PROVE FALSE
    OBVIOUS
  <2>1. Bad \subseteq Nat
    BY <1>2
  <2> HIDE DEF Bad
  <2>2. PICK i \in Bad : \A j \in Bad : ~(<<j, i>> \in OpToRel(<, Nat))
    BY <2>1, WFMin, NatLessThanWellFounded
  <2>3. i \in 0 .. n - 1 /\ f[i + 1] < p
    BY DEF Bad
  <2>4. i # 0
    BY <1>5, <2>3, <1>4
  <2>5. i - 1 \notin Bad
    BY <2>1, <2>2, <2>3, <2>4 DEF OpToRel
  <2>6. ~(f[i] < p)
    BY <2>3, <2>4, <2>5, <1>2 DEF Bad
  <2>7. f[i + 1] = f[i] + ListPrice[q[i + 1]] /\ ListPrice[q[i + 1]] \in Nat
    <3>1. i + 1 \in 1 .. n /\ (i + 1) - 1 = i
      BY <1>2, <2>3
    <3>2. f[i + 1] = f[(i + 1) - 1] + ListPrice[q[i + 1]] /\ ListPrice[q[i + 1]] \in Nat
      BY <1>1, <1>6, <3>1
    <3>3. QED
      BY <3>1, <3>2
  <2>8. f[i] \in Nat /\ f[i + 1] \in Nat
    BY <1>2, <2>3
  <2>9. QED
    BY <1>4, <2>3, <2>6, <2>7, <2>8
<1> DEFINE h == [i \in 0 .. n - 1 |-> f[i + 1] - p]
<1>8. \A i \in 0 .. n - 1 : f[i + 1] \in Nat /\ f[i + 1] >= p
  BY <1>2, <1>4, <1>7
<1> HIDE DEF Bad
<1>9. h \in [0 .. n - 1 -> Nat] /\ h[0] = 0 /\ h[n - 1] = b - p
  BY <1>1, <1>2, <1>4, <1>5, <1>8
<1>10. ASSUME NEW i \in 1 .. n - 1 PROVE h[i] = h[i - 1] + ListPrice[t[i]]
  <2>1. h[i] = f[i + 1] - p /\ h[i - 1] = f[i] - p
    BY <1>2
  <2>2. f[i + 1] = f[i] + ListPrice[q[i + 1]] /\ ListPrice[q[i + 1]] \in Nat /\ f[i] \in Nat
    <3>1. i + 1 \in 1 .. n /\ i \in 0 .. n /\ (i + 1) - 1 = i
      BY <1>2
    <3>2. f[i + 1] = f[(i + 1) - 1] + ListPrice[q[i + 1]] /\ ListPrice[q[i + 1]] \in Nat
      BY <1>1, <1>6, <3>1
    <3>3. f[i] \in Nat
      BY <1>1, <3>1
    <3>4. QED
      BY <3>1, <3>2, <3>3
  <2>3. QED
    BY <1>3, <1>4, <2>1, <2>2
<1> HIDE DEF h
<1>11. Costs(t, b - p)
  BY <1>3, <1>9, <1>10 DEF Costs
<1>12. b - p \in Nat /\ b = (b - p) + p
  BY <1>2, <1>4, <1>9
<1>13. QED
  BY <1>4, <1>11, <1>12 DEF p, t

\* A budget of the warden's: approvals that cost what was reserved, and a reservation
\* only within the caps.
Budgets(today, month) ==
    {a \in [ok : Seq(Priced), today : Nat, month : Nat] :
        \E b \in Nat : /\ Costs(a.ok, b) /\ a.today = today + b /\ a.month = month + b
                       /\ b = 0 \/ (a.today <= DailyCap /\ a.month <= MonthlyCap)}

\* What is approved has a price and costs, together with what was spent before, no more
\* than the caps allow, whatever the candidates.
LEMMA ReviewIs ==
    ASSUME NEW cands \in Seq(Services),
           Total(OfDay(rows, day)) \in Nat, Total(OfMonth(rows, MonthOf(day))) \in Nat
    PROVE  /\ Review(cands) \in Seq(Priced)
           /\ \E b \in Nat : /\ Costs(Review(cands), b)
                             /\ b = 0 \/ /\ Total(OfDay(rows, day)) + b <= DailyCap
                                         /\ Total(OfMonth(rows, MonthOf(day))) + b <= MonthlyCap
<1> DEFINE today == Total(OfDay(rows, day))
           month == Total(OfMonth(rows, MonthOf(day)))
           D == DOMAIN cands
           A == Budgets(today, month)
           base == [ok |-> <<>>, today |-> today, month |-> month]
           Vet(acc, s) ==
             IF Len(acc.ok) < MaxCalls /\ Approves(s, acc.today, acc.month)
             THEN [ok |-> Append(acc.ok, s), today |-> acc.today + ListPrice[s],
                   month |-> acc.month + ListPrice[s]]
             ELSE acc
           Folds(g) == g = [s \in SUBSET D |-> IF s = {} THEN base
                                ELSE Vet(g[s \ {Max(s)}], cands[Max(s)])]
           iter == CHOOSE g : Folds(g)
<1>1. Review(cands) = iter[D].ok
  BY DEF Review, FoldLeft, MapThenFoldSet
<1>2. D = 1 .. Len(cands) /\ Len(cands) \in Nat /\ IsFiniteSet(D) /\ \A i \in D : cands[i] \in Services
  <2>1. D = 1 .. Len(cands) /\ Len(cands) \in Nat /\ \A i \in D : cands[i] \in Services
    OBVIOUS
  <2>2. IsFiniteSet(1 .. Len(cands))
    BY FS_Interval
  <2>3. QED
    BY <2>1, <2>2
<1> HIDE DEF iter, D, today, month
<1>3. base \in A
  <2>1. base \in [ok : Seq(Priced), today : Nat, month : Nat]
    BY DEF today, month
  <2>2. Costs(base.ok, 0) /\ base.today = today + 0 /\ base.month = month + 0
    BY CostsEmpty DEF today, month
  <2> HIDE DEF base
  <2>3. QED
    BY <2>1, <2>2 DEF Budgets
<1>4. ASSUME NEW a \in A, NEW s \in Services PROVE Vet(a, s) \in A
  <2>1. /\ a \in [ok : Seq(Priced), today : Nat, month : Nat]
        /\ \E b \in Nat : /\ Costs(a.ok, b) /\ a.today = today + b /\ a.month = month + b
                          /\ b = 0 \/ (a.today <= DailyCap /\ a.month <= MonthlyCap)
    BY DEF Budgets
  <2>2. PICK b \in Nat : Costs(a.ok, b) /\ a.today = today + b /\ a.month = month + b
    BY <2>1
  <2>3. CASE ~(Len(a.ok) < MaxCalls /\ Approves(s, a.today, a.month))
    BY <2>3
  <2>4. CASE Len(a.ok) < MaxCalls /\ Approves(s, a.today, a.month)
    <3>1. /\ s \in Priced /\ ListPrice[s] \in Nat
          /\ a.today + ListPrice[s] <= DailyCap /\ a.month + ListPrice[s] <= MonthlyCap
      BY <2>4, SwarmRunAssumption DEF Approves, Priced
    <3> DEFINE c == [ok |-> Append(a.ok, s), today |-> a.today + ListPrice[s],
                     month |-> a.month + ListPrice[s]]
    <3>2. c \in [ok : Seq(Priced), today : Nat, month : Nat] /\ c.ok = Append(a.ok, s)
          /\ c.today = a.today + ListPrice[s] /\ c.month = a.month + ListPrice[s]
      BY <2>1, <3>1
    <3>3. Costs(Append(a.ok, s), b + ListPrice[s])
      BY <2>1, <2>2, <3>1, CostsAppend
    <3>4. Vet(a, s) = c
      BY <2>4
    <3> HIDE DEF c
    <3>5. /\ b + ListPrice[s] \in Nat /\ Costs(c.ok, b + ListPrice[s])
          /\ c.today = today + (b + ListPrice[s]) /\ c.month = month + (b + ListPrice[s])
          /\ c.today <= DailyCap /\ c.month <= MonthlyCap
      BY <2>2, <3>1, <3>2, <3>3 DEF today, month
    <3>6. c \in A
      BY <3>2, <3>5 DEF Budgets
    <3>7. QED
      BY <3>4, <3>6
  <2>5. QED
    BY <2>3, <2>4
<1> HIDE DEF base, A, Vet
<1> DEFINE pick == [s \in SUBSET D |-> Max(s)]
<1>5. \A s \in SUBSET D : pick[s] = Max(s) /\ (s # {} => Max(s) \in s)
  BY <1>2, MaxIn
<1> HIDE DEF pick
<1>6. Picks(pick, D)
  BY <1>5 DEF Picks
<1> DEFINE Step(U) == [p \in D \X U |-> Vet(p[2], cands[p[1]])]
\* The fold over budgets exists.
<1>7. \E g : Folds(g)
  <2>1. \A x \in D, a \in A : Step(A)[<<x, a>>] = Vet(a, cands[x]) /\ Step(A)[<<x, a>>] \in A
    BY <1>2, <1>4
  <2> HIDE DEF Step
  <2>2. PICK g : IsFold(g, pick, Step(A), base, D)
    BY <1>2, <1>6, FoldExists
  <2>3. \A s \in SUBSET D : g[s] \in A
    <3>1. \A x \in D, a \in A : Step(A)[<<x, a>>] \in A
      BY <2>1
    <3>2. QED
      BY <1>2, <1>3, <1>6, <2>2, <3>1, FoldType
  <2>4. ASSUME NEW s \in SUBSET D
        PROVE  FoldStep(g, pick, Step(A), base, s) =
                 IF s = {} THEN base ELSE Vet(g[s \ {Max(s)}], cands[Max(s)])
    <3>1. s # {} => Max(s) \in D /\ pick[s] = Max(s) /\ g[s \ {Max(s)}] \in A
      BY <1>5, <2>3
    <3>2. QED
      BY <2>1, <3>1 DEF FoldStep
  <2>5. QED
    BY <2>2, <2>4 DEF IsFold
<1>8. Folds(iter)
  BY <1>7 DEF iter
\* Whichever was chosen, all its values are budgets.
<1> DEFINE U == A \cup {iter[s] : s \in SUBSET D}
<1>9. iter[D] \in A
  <2>1. \A x \in D, a \in U : Step(U)[<<x, a>>] = Vet(a, cands[x])
    OBVIOUS
  <2>2. \A x \in D, a \in A : Step(U)[<<x, a>>] \in A
    BY <1>2, <1>4, <2>1
  <2>3. \A s \in SUBSET D : iter[s] \in U
    OBVIOUS
  <2> HIDE DEF Step, U
  <2>4. ASSUME NEW s \in SUBSET D
        PROVE  FoldStep(iter, pick, Step(U), base, s) =
                 IF s = {} THEN base ELSE Vet(iter[s \ {Max(s)}], cands[Max(s)])
    <3>1. s # {} => Max(s) \in D /\ pick[s] = Max(s) /\ iter[s \ {Max(s)}] \in U
      BY <1>5, <2>3
    <3>2. QED
      BY <2>1, <3>1 DEF FoldStep
  <2>5. IsFold(iter, pick, Step(U), base, D)
    BY <1>8, <2>4 DEF IsFold
  <2>6. \A s \in SUBSET D : iter[s] \in A
    BY <1>2, <1>3, <1>6, <2>2, <2>5, FoldType
  <2>7. QED
    BY <2>6
<1>10. iter[D] \in [ok : Seq(Priced), today : Nat, month : Nat]
       /\ \E b \in Nat : /\ Costs(iter[D].ok, b) /\ iter[D].today = today + b
                         /\ iter[D].month = month + b
                         /\ b = 0 \/ (iter[D].today <= DailyCap /\ iter[D].month <= MonthlyCap)
  BY <1>9 DEF A, Budgets
<1>11. QED
  BY <1>1, <1>10 DEF today, month

-----------------------------------------------------------------------------
(* The caps. *)

\* The books: rows of days that have been, of amounts; a run that buys has approved
\* services left to pay.
BookInv ==
    /\ day \in 0 .. MaxDay /\ IsFiniteSet(rows)
    /\ \A x \in rows : x.run \in Runs /\ x.day \in 0 .. day /\ x.amt \in Nat
    /\ status \in [Runs -> Statuses] /\ ended \in [Runs -> BOOLEAN] /\ DOMAIN queue = Runs
    /\ \A r \in Runs : /\ status[r] \in {"idle", "scouting", "buying"} => ~ended[r]
                       /\ status[r] = "buying" => queue[r] \in Seq(Priced) /\ queue[r] # <<>>

\* There is room for b from today on, whatever day it is spent on.
Room(b) ==
    \A d \in day .. MaxDay : /\ Total(OfDay(rows, d)) + b <= DailyCap
                             /\ Total(OfMonth(rows, MonthOf(d))) + b <= MonthlyCap

\* As long as no two runs were in flight together, there is room for all the one that
\* is buying has still to pay.
CapsInv ==
    \/ crowded
    \/ /\ \A r, s \in InFlight : r = s
       /\ WithinCaps
       /\ \A r \in Runs : status[r] = "buying" =>
             \E b \in Nat : Costs(queue[r], b) /\ Room(b)

\* Sums over a day, a month and a run, and what one row more does to them.
LEMMA RowAdds ==
    ASSUME NEW S, IsFiniteSet(S), \A y \in S : y.amt \in Nat, NEW x, x.amt \in Nat, NEW d
    PROVE  /\ Total(OfDay(S, d)) \in Nat /\ Total(OfMonth(S, d)) \in Nat
           /\ Total(OfDay(S \cup {x}, d)) \in Nat /\ Total(OfMonth(S \cup {x}, d)) \in Nat
           /\ Total(OfDay(S \cup {x}, d)) <= Total(OfDay(S, d)) + x.amt
           /\ Total(OfMonth(S \cup {x}, d)) <= Total(OfMonth(S, d)) + x.amt
           /\ x.day # d => OfDay(S \cup {x}, d) = OfDay(S, d)
           /\ MonthOf(x.day) # d => OfMonth(S \cup {x}, d) = OfMonth(S, d)
<1>1. /\ IsFiniteSet(OfDay(S, d)) /\ \A y \in OfDay(S, d) : y.amt \in Nat
      /\ IsFiniteSet(OfMonth(S, d)) /\ \A y \in OfMonth(S, d) : y.amt \in Nat
  <2>1. OfDay(S, d) \in SUBSET S /\ OfMonth(S, d) \in SUBSET S
    BY DEF OfDay, OfMonth
  <2>2. QED
    BY <2>1, FS_Subset
<1>2. /\ x.day = d => OfDay(S \cup {x}, d) = OfDay(S, d) \cup {x}
      /\ x.day # d => OfDay(S \cup {x}, d) = OfDay(S, d)
  BY DEF OfDay
<1>3. /\ MonthOf(x.day) = d => OfMonth(S \cup {x}, d) = OfMonth(S, d) \cup {x}
      /\ MonthOf(x.day) # d => OfMonth(S \cup {x}, d) = OfMonth(S, d)
  BY DEF OfMonth
<1>4. /\ Total(OfDay(S, d)) \in Nat /\ Total(OfDay(S, d) \cup {x}) \in Nat
      /\ Total(OfDay(S, d) \cup {x}) <= Total(OfDay(S, d)) + x.amt
  BY <1>1, TotalAdd
<1>5. /\ Total(OfMonth(S, d)) \in Nat /\ Total(OfMonth(S, d) \cup {x}) \in Nat
      /\ Total(OfMonth(S, d) \cup {x}) <= Total(OfMonth(S, d)) + x.amt
  BY <1>1, TotalAdd
<1>6. /\ Total(OfDay(S \cup {x}, d)) \in Nat
      /\ Total(OfDay(S \cup {x}, d)) <= Total(OfDay(S, d)) + x.amt
  <2>1. CASE x.day = d
    BY <2>1, <1>2, <1>4
  <2>2. CASE x.day # d
    <3>1. Total(OfDay(S \cup {x}, d)) = Total(OfDay(S, d))
      BY <2>2, <1>2
    <3>2. QED
      BY <3>1, <1>4
  <2>3. QED
    BY <2>1, <2>2
<1>7. /\ Total(OfMonth(S \cup {x}, d)) \in Nat
      /\ Total(OfMonth(S \cup {x}, d)) <= Total(OfMonth(S, d)) + x.amt
  <2>1. CASE MonthOf(x.day) = d
    BY <2>1, <1>3, <1>5
  <2>2. CASE MonthOf(x.day) # d
    <3>1. Total(OfMonth(S \cup {x}, d)) = Total(OfMonth(S, d))
      BY <2>2, <1>3
    <3>2. QED
      BY <3>1, <1>5
  <2>3. QED
    BY <2>1, <2>2
<1>8. QED
  BY <1>2, <1>3, <1>4, <1>5, <1>6, <1>7

LEMMA TotalsAreNat ==
    ASSUME BookInv, NEW d
    PROVE  Total(OfDay(rows, d)) \in Nat /\ Total(OfMonth(rows, d)) \in Nat
<1> DEFINE x == [amt |-> 0, day |-> 0]
<1>1. x.amt \in Nat /\ IsFiniteSet(rows) /\ \A y \in rows : y.amt \in Nat
  BY DEF BookInv
<1> HIDE DEF x
<1>2. QED
  BY <1>1, RowAdds

\* Months ascend with the days.
LEMMA MonthsAscend ==
    ASSUME NEW a \in Nat, NEW b \in Nat, a <= b
    PROVE  MonthOf(a) <= MonthOf(b) /\ MonthOf(a) \in Nat
<1> DEFINE k == DaysPerMonth
<1>1. k \in Nat /\ k > 0
  BY SwarmRunAssumption
<1>2. /\ a = k * (a \div k) + (a % k) /\ a % k \in 0 .. k - 1 /\ a \div k \in Int
      /\ b = k * (b \div k) + (b % k) /\ b % k \in 0 .. k - 1 /\ b \div k \in Int
  BY <1>1
<1>3. a \div k \in Nat
  BY <1>1
<1> HIDE DEF k
<1>4. MonthOf(a) = a \div k /\ MonthOf(b) = b \div k
  BY DEF MonthOf, k
<1>5. ASSUME (b \div k) + 1 <= a \div k PROVE FALSE
  <2>1. k * ((b \div k) + 1) <= k * (a \div k)
    BY <1>1, <1>2, <1>5
  <2>2. k * ((b \div k) + 1) = k * (b \div k) + k
    BY <1>1, <1>2
  <2>3. k * (a \div k) \in Int /\ k * (b \div k) \in Int
    BY <1>1, <1>2
  <2>4. QED
    BY <1>1, <1>2, <2>1, <2>2, <2>3
<1>6. QED
  BY <1>2, <1>3, <1>4, <1>5

LEMMA MonthsUpTo ==
    ASSUME BookInv, NEW d \in day .. MaxDay
    PROVE  d \in 0 .. MaxDay /\ MonthOf(d) \in 0 .. MonthOf(MaxDay)
<1>1. d \in Nat /\ MaxDay \in Nat /\ d <= MaxDay
  BY SwarmRunAssumption DEF BookInv
<1>2. MonthOf(d) \in Nat /\ MonthOf(d) <= MonthOf(MaxDay) /\ MonthOf(MaxDay) \in Nat
  BY <1>1, MonthsAscend
<1>3. QED
  BY <1>1, <1>2

LEMMA TotalEmpty == Total({}) = 0
<1> DEFINE x == [amt |-> 0]
<1>1. IsFiniteSet({}) /\ x.amt \in Nat
  BY FS_EmptySet
<1> HIDE DEF x
<1>2. QED
  BY <1>1, TotalAdd

LEMMA CapsAreNat == DailyCap \in Nat /\ MonthlyCap \in Nat
  BY SwarmRunAssumption

\* A later day of another month has no rows yet.
LEMMA LaterMonth ==
    ASSUME BookInv, NEW d \in day .. MaxDay, MonthOf(d) # MonthOf(day)
    PROVE  OfMonth(rows, MonthOf(d)) = {}
<1>1. day \in Nat /\ d \in Nat /\ day <= d /\ DaysPerMonth \in Nat /\ DaysPerMonth > 0
  BY SwarmRunAssumption DEF BookInv
<1>2. \A a, b \in Nat : a <= b => MonthOf(a) <= MonthOf(b) /\ MonthOf(a) \in Nat
  BY MonthsAscend
<1>3. ASSUME NEW x \in rows, MonthOf(x.day) = MonthOf(d) PROVE FALSE
  <2>1. x.day \in Nat /\ x.day <= day
    BY <1>1 DEF BookInv
  <2>2. MonthOf(x.day) <= MonthOf(day) /\ MonthOf(day) <= MonthOf(d)
    BY <1>1, <1>2, <2>1
  <2>3. MonthOf(day) \in Int /\ MonthOf(d) \in Int
    BY <1>1 DEF MonthOf
  <2>4. QED
    BY <1>3, <2>2, <2>3
<1>4. QED
  BY <1>3 DEF OfMonth

LEMMA BookInit == Init => BookInv /\ CapsInv
<1> SUFFICES ASSUME Init PROVE BookInv /\ CapsInv
  OBVIOUS
<1>1. BookInv
  <2>1. IsFiniteSet({}) /\ 0 \in 0 .. MaxDay
    BY FS_EmptySet, SwarmRunAssumption
  <2>2. QED
    BY <2>1 DEF Init, BookInv, Statuses
<1>2. InFlight = {} /\ \A r \in Runs : status[r] # "buying"
  BY DEF Init, InFlight
<1>3. \A d : OfDay(rows, d) = {} /\ OfMonth(rows, d) = {}
  BY DEF Init, OfDay, OfMonth
<1>4. Total({}) = 0
  BY TotalEmpty
<1>5. WithinCaps
  <2>1. DailyCap >= 0 /\ MonthlyCap >= 0
    BY SwarmRunAssumption
  <2>2. QED
    BY <1>3, <1>4, <2>1 DEF WithinCaps
<1>6. CapsInv
  BY <1>2, <1>5 DEF CapsInv
<1>7. QED
  BY <1>1, <1>6

\* A step that records nothing, starts nothing and gives no run another queue.
LEMMA BookQuiet ==
    ASSUME BookInv, UNCHANGED <<rows, day>>, status' \in [Runs -> Statuses],
           ended' \in [Runs -> BOOLEAN], DOMAIN queue' = Runs,
           \A r \in Runs : /\ status'[r] \in {"idle", "scouting", "buying"} => ~ended'[r]
                           /\ status'[r] = "buying" => /\ status[r] = "buying"
                                                       /\ queue'[r] = queue[r]
    PROVE  BookInv'
  BY DEF BookInv, Statuses

LEMMA CapsQuiet ==
    ASSUME CapsInv, UNCHANGED <<rows, day>>, crowded' = crowded, InFlight' \subseteq InFlight,
           \A r \in Runs : status'[r] = "buying" => /\ status[r] = "buying"
                                                    /\ queue'[r] = queue[r]
    PROVE  CapsInv'
<1>1. WithinCaps' <=> WithinCaps
  BY DEF WithinCaps
<1>2. \A b : Room(b)' <=> Room(b)
  BY DEF Room
<1>3. CASE crowded
  BY <1>3 DEF CapsInv
<1>4. CASE ~crowded
  <2>1. \A r, s \in InFlight' : r = s
    BY <1>4 DEF CapsInv
  <2>2. WithinCaps'
    BY <1>1, <1>4 DEF CapsInv
  <2>3. ASSUME NEW r \in Runs, status'[r] = "buying"
        PROVE  \E b \in Nat : Costs(queue'[r], b) /\ Room(b)'
    BY <1>2, <1>4, <2>3 DEF CapsInv
  <2>4. QED
    BY <2>1, <2>2, <2>3 DEF CapsInv
<1>5. QED
  BY <1>3, <1>4

\* The one run that buys is the one in flight.
LEMMA BuyerAlone ==
    ASSUME BookInv, CapsInv, ~crowded, NEW r \in InFlight
    PROVE  \A s \in Runs : status[s] = "buying" => s = r
<1>1. \A s \in Runs : status[s] = "buying" => s \in InFlight
  BY DEF BookInv, InFlight
<1>2. QED
  BY <1>1 DEF CapsInv

\* The scout comes back with sequences of services.
LEMMA CandidatesAre == ASSUME NEW r \in Runs PROVE Candidates(r) \subseteq Seq(Services)
<1>1. Upstreams \in Seq(Services) /\ IsFiniteSet(Services)
  BY SwarmRunAssumption
<1>2. Probed \subseteq Seq(Services)
  BY <1>1, KeepType DEF Probed
<1>3. SetToAllKPermutations(Services) \subseteq Seq(Services)
  <2>1. ASSUME NEW S \in SUBSET Services, NEW f \in [1 .. Cardinality(S) -> S]
        PROVE  f \in Seq(Services)
    <3>1. Cardinality(S) \in Nat
      BY <1>1, FS_Subset, FS_CardinalityType
    <3>2. QED
      BY <3>1
  <2>2. QED
    BY <2>1 DEF SetToAllKPermutations, SetToSeqs
<1>4. ASSUME NEW page \in Seq(Services), NEW blank PROVE WithinCeiling(r, page, blank) \in Seq(Services)
  BY KeepType DEF WithinCeiling
<1>5. Discovered(r) \subseteq Seq(Services)
  BY <1>3, <1>4 DEF Discovered
<1>6. QED
  BY <1>2, <1>5 DEF Candidates

LEMMA NewDayBook == ASSUME BookInv, CapsInv, NewDay PROVE BookInv' /\ CapsInv'
<1>1. /\ day < MaxDay /\ day' = day + 1 /\ MaxDay \in Nat
      /\ UNCHANGED <<rows, status, ended, queue, crowded>>
  BY SwarmRunAssumption DEF NewDay, history
<1>2. BookInv'
  BY <1>1 DEF BookInv, Statuses
<1>3. WithinCaps' <=> WithinCaps
  BY <1>1 DEF WithinCaps
<1>4. InFlight' = InFlight
  BY <1>1 DEF InFlight
<1>5. ASSUME NEW b, Room(b) PROVE Room(b)'
  <2>1. day' .. MaxDay \subseteq day .. MaxDay
    BY <1>1 DEF BookInv
  <2>2. QED
    BY <1>1, <1>5, <2>1 DEF Room
<1>6. CapsInv'
  BY <1>1, <1>3, <1>4, <1>5 DEF CapsInv
<1>7. QED
  BY <1>2, <1>6

\* A run that starts beside nobody is alone and has nothing to pay yet.
LEMMA StartBook == ASSUME BookInv, CapsInv, NEW r \in Runs, Start(r) PROVE BookInv' /\ CapsInv'
<1>1. /\ status[r] = "idle" /\ crowded' = (crowded \/ InFlight # {})
      /\ UNCHANGED <<rows, day, ended, queue>>
  BY DEF Start
<1>2. PICK s \in {"scouting", "composing"} : status' = [status EXCEPT ![r] = s]
  BY DEF Start
<1>3. status \in [Runs -> Statuses] /\ ended \in [Runs -> BOOLEAN] /\ ~ended[r] /\ DOMAIN queue = Runs
  BY <1>1 DEF BookInv
<1>4. /\ status' \in [Runs -> Statuses] /\ status'[r] \notin {"idle", "buying"}
      /\ \A x \in Runs \ {r} : status'[x] = status[x]
  BY <1>2, <1>3 DEF Statuses
<1>5. BookInv'
  BY <1>1, <1>3, <1>4 DEF BookInv, Statuses
<1>6. ASSUME ~crowded' PROVE CapsInv'
  <2>1. InFlight = {} /\ ~crowded
    BY <1>1, <1>6
  <2>2. InFlight' \subseteq {r}
    BY <1>1, <1>4, <2>1 DEF InFlight
  <2>3. \A x \in Runs : status'[x] # "buying"
    BY <1>4, <2>1 DEF InFlight, BookInv
  <2>4. WithinCaps'
    BY <1>1, <2>1 DEF WithinCaps, CapsInv
  <2>5. QED
    BY <2>2, <2>3, <2>4 DEF CapsInv
<1>7. QED
  BY <1>5, <1>6 DEF CapsInv

\* The warden leaves room for all that he approves.
LEMMA ScoutedBook == ASSUME BookInv, CapsInv, NEW r \in Runs, Scouted(r) PROVE BookInv' /\ CapsInv'
<1>1. status[r] = "scouting" /\ UNCHANGED <<rows, day, crowded>>
  BY DEF Scouted, history
<1>2. PICK cands \in Candidates(r) :
        \/ Review(cands) = <<>> /\ End(r, "failed") /\ UNCHANGED queue
        \/ /\ Review(cands) # <<>>
           /\ queue' = [queue EXCEPT ![r] = Review(cands)]
           /\ status' = [status EXCEPT ![r] = "buying"]
           /\ UNCHANGED ended
  BY DEF Scouted
<1>3. /\ status \in [Runs -> Statuses] /\ ended \in [Runs -> BOOLEAN] /\ DOMAIN queue = Runs
      /\ ~ended[r]
  BY <1>1 DEF BookInv
<1>4. CASE End(r, "failed") /\ UNCHANGED queue
  <2>1. /\ status' \in [Runs -> Statuses] /\ ended' \in [Runs -> BOOLEAN]
        /\ status'[r] = "failed" /\ \A x \in Runs \ {r} : status'[x] = status[x]
        /\ ended'[r] /\ \A x \in Runs \ {r} : ended'[x] = ended[x]
    BY <1>3, <1>4 DEF End, Statuses
  <2>2. InFlight' \subseteq InFlight
    BY <2>1 DEF InFlight
  <2>3. /\ DOMAIN queue' = Runs
        /\ \A x \in Runs : /\ status'[x] \in {"idle", "scouting", "buying"} => ~ended'[x]
                           /\ status'[x] = "buying" => status[x] = "buying" /\ queue'[x] = queue[x]
    BY <1>3, <1>4, <2>1 DEF BookInv
  <2>4. QED
    BY <1>1, <2>1, <2>2, <2>3, BookQuiet, CapsQuiet
<1>5. CASE /\ Review(cands) # <<>>
           /\ queue' = [queue EXCEPT ![r] = Review(cands)]
           /\ status' = [status EXCEPT ![r] = "buying"]
           /\ UNCHANGED ended
  <2>1. cands \in Seq(Services)
    BY <1>2, CandidatesAre
  <2> DEFINE q == Review(cands)
             today == Total(OfDay(rows, day))
             month == Total(OfMonth(rows, MonthOf(day)))
  <2>2. today \in Nat /\ month \in Nat
    BY TotalsAreNat
  <2>3. /\ q \in Seq(Priced)
        /\ \E b \in Nat : /\ Costs(q, b)
                          /\ b = 0 \/ (today + b <= DailyCap /\ month + b <= MonthlyCap)
    BY <2>1, <2>2, ReviewIs
  <2> HIDE DEF q, today, month
  <2>4. PICK b \in Nat : /\ Costs(q, b)
                         /\ b = 0 \/ (today + b <= DailyCap /\ month + b <= MonthlyCap)
    BY <2>3
  <2>5. /\ q # <<>> /\ queue'[r] = q /\ DOMAIN queue' = Runs
        /\ \A x \in Runs \ {r} : queue'[x] = queue[x]
        /\ status' \in [Runs -> Statuses] /\ status'[r] = "buying"
        /\ \A x \in Runs \ {r} : status'[x] = status[x]
    BY <1>3, <1>5 DEF q, Statuses
  <2>6. BookInv'
    BY <1>1, <1>3, <1>5, <2>3, <2>5 DEF BookInv, Statuses
  <2>7. ASSUME ~crowded PROVE CapsInv'
    <3>1. WithinCaps /\ r \in InFlight
      BY <1>1, <1>3, <2>7 DEF CapsInv, InFlight
    <3>2. \A x \in Runs : status[x] # "buying"
      BY <1>1, <2>7, <3>1, BuyerAlone
    <3>3. WithinCaps' /\ InFlight' \subseteq InFlight
      BY <1>1, <1>3, <1>5, <2>5, <3>1 DEF WithinCaps, InFlight
    <3>4. day \in Nat /\ MaxDay \in Nat /\ day <= MaxDay
      BY SwarmRunAssumption DEF BookInv
    <3>5. ASSUME NEW d \in day .. MaxDay
          PROVE  /\ Total(OfDay(rows, d)) + b <= DailyCap
                 /\ Total(OfMonth(rows, MonthOf(d))) + b <= MonthlyCap
      <4>1. d \in 0 .. MaxDay /\ MonthOf(d) \in 0 .. MonthOf(MaxDay)
        BY <3>4, MonthsUpTo
      <4>2. /\ Total(OfDay(rows, d)) \in Nat /\ Total(OfMonth(rows, MonthOf(d))) \in Nat
            /\ Total(OfDay(rows, d)) <= DailyCap /\ Total(OfMonth(rows, MonthOf(d))) <= MonthlyCap
        BY <3>1, <4>1, TotalsAreNat DEF WithinCaps
      <4>3. CASE b = 0
        BY <4>2, <4>3
      <4>4. CASE today + b <= DailyCap /\ month + b <= MonthlyCap
        <5>1. Total(OfDay(rows, d)) = today \/ Total(OfDay(rows, d)) = 0
          <6>1. CASE d = day
            BY <6>1 DEF today
          <6>2. CASE d # day
            <7>1. \A x \in rows : x.day # d
              BY <3>4, <6>2 DEF BookInv
            <7>2. OfDay(rows, d) = {}
              BY <7>1 DEF OfDay
            <7>3. QED
              BY <7>2, TotalEmpty
          <6>3. QED
            BY <6>1, <6>2
        <5>2. Total(OfMonth(rows, MonthOf(d))) = month \/ Total(OfMonth(rows, MonthOf(d))) = 0
          <6>1. CASE MonthOf(d) = MonthOf(day)
            BY <6>1 DEF month
          <6>2. CASE MonthOf(d) # MonthOf(day)
            BY <6>2, LaterMonth, TotalEmpty
          <6>3. QED
            BY <6>1, <6>2
        <5>3. QED
          BY <2>2, <4>4, <5>1, <5>2, CapsAreNat DEF today, month
      <4>5. QED
        BY <2>4, <4>3, <4>4
    <3>6. Room(b)'
      BY <1>1, <3>5 DEF Room
    <3>7. \A x \in Runs : status'[x] = "buying" => x = r
      BY <2>5, <3>2
    <3>8. QED
      BY <2>4, <2>5, <2>7, <3>3, <3>6, <3>7 DEF CapsInv
  <2>8. QED
    BY <1>1, <2>6, <2>7 DEF CapsInv
<1>6. QED
  BY <1>2, <1>4, <1>5

\* A purchase is over: its row was written or not, and the run goes on to the next
\* service or ends.
BuyStep(r) ==
    /\ status[r] = "buying" /\ rows' \in {rows, rows \cup {Row(r)}} /\ UNCHANGED <<day, crowded>>
    /\ \/ /\ UNCHANGED <<status, ended>>
          /\ queue' = [queue EXCEPT ![r] = Tail(@)] /\ Len(queue[r]) # 1
       \/ /\ \E s \in {"listed", "failed"} : End(r, s)
          /\ queue' = queue \/ queue' = [queue EXCEPT ![r] = Tail(@)]

\* What is bought was approved, and the room for it shrinks by its price.
LEMMA BuyBook == ASSUME BookInv, CapsInv, NEW r \in Runs, BuyStep(r) PROVE BookInv' /\ CapsInv'
<1> DEFINE q == queue[r]
           p == ListPrice[Head(q)]
<1>1. /\ status[r] = "buying" /\ UNCHANGED <<day, crowded>>
      /\ rows' \in {rows, rows \cup {Row(r)}}
  BY DEF BuyStep
<1>2. /\ status \in [Runs -> Statuses] /\ ended \in [Runs -> BOOLEAN] /\ DOMAIN queue = Runs
      /\ ~ended[r] /\ q \in Seq(Priced) /\ q # <<>> /\ IsFiniteSet(rows)
      /\ day \in 0 .. MaxDay /\ MaxDay \in Nat
  BY <1>1, SwarmRunAssumption DEF BookInv
<1>3. Head(q) \in Priced /\ p \in Nat
  BY <1>2 DEF Priced
<1>4. Row(r).run = r /\ Row(r).day = day /\ Row(r).amt = p
  BY DEF Row
<1> HIDE DEF p
<1>5. /\ status' \in [Runs -> Statuses] /\ ended' \in [Runs -> BOOLEAN] /\ DOMAIN queue' = Runs
      /\ \A x \in Runs \ {r} : /\ status'[x] = status[x] /\ ended'[x] = ended[x]
                               /\ queue'[x] = queue[x]
  BY <1>2 DEF BuyStep, End, Statuses
<1>6. \/ status'[r] = "buying" /\ ended'[r] = ended[r] /\ queue'[r] = Tail(q) /\ Len(q) # 1
      \/ status'[r] \in {"listed", "failed"} /\ ended'[r]
  BY <1>1, <1>2 DEF BuyStep, End
<1>7. Len(q) # 1 => Tail(q) \in Seq(Priced) /\ Tail(q) # <<>>
  <2> HIDE DEF q
  <2>1. Len(Tail(q)) = Len(q) - 1 /\ Tail(q) \in Seq(Priced) /\ Len(q) \in Nat
    BY <1>2
  <2>2. \A t \in Seq(Priced) : Len(t) # 0 => t # <<>>
    OBVIOUS
  <2>3. Len(q) # 1 => Len(Tail(q)) # 0
    BY <2>1
  <2>4. QED
    BY <2>1, <2>2, <2>3
<1>8. BookInv'
  <2>1. IsFiniteSet(rows') /\ \A x \in rows' : x.run \in Runs /\ x.day \in 0 .. day' /\ x.amt \in Nat
    <3>1. IsFiniteSet(rows \cup {Row(r)})
      BY <1>2, FS_AddElement
    <3>2. \A x \in rows \cup {Row(r)} : x.run \in Runs /\ x.day \in 0 .. day /\ x.amt \in Nat
      BY <1>2, <1>3, <1>4 DEF BookInv
    <3>3. QED
      BY <1>1, <1>2, <3>1, <3>2
  <2>2. \A x \in Runs : /\ status'[x] \in {"idle", "scouting", "buying"} => ~ended'[x]
                        /\ status'[x] = "buying" => queue'[x] \in Seq(Priced) /\ queue'[x] # <<>>
    <3> TAKE x \in Runs
    <3>1. CASE x = r
      BY <3>1, <1>2, <1>6, <1>7
    <3>2. CASE x # r
      BY <3>2, <1>5 DEF BookInv
    <3>3. QED
      BY <3>1, <3>2
  <2>3. QED
    BY <1>1, <1>2, <1>5, <2>1, <2>2 DEF BookInv
<1>9. ASSUME ~crowded PROVE CapsInv'
  <2>1. WithinCaps /\ r \in InFlight
    BY <1>1, <1>2, <1>9 DEF CapsInv, InFlight
  <2>2. \A x \in Runs : status[x] = "buying" => x = r
    BY <1>9, <2>1, BuyerAlone
  <2>3. PICK b \in Nat : Costs(q, b) /\ Room(b)
    BY <1>1, <1>9 DEF CapsInv
  <2>4. PICK c \in Nat : b = c + p /\ Costs(Tail(q), c)
    BY <1>2, <2>3, CostsTail DEF p
  <2> HIDE DEF q
  \* One row more costs no more than its price, and only on its day and in its month.
  <2>5. \A d : /\ Total(OfDay(rows, d)) \in Nat /\ Total(OfDay(rows', d)) \in Nat
               /\ Total(OfMonth(rows, d)) \in Nat /\ Total(OfMonth(rows', d)) \in Nat
               /\ Total(OfDay(rows', d)) <= Total(OfDay(rows, d)) + p
               /\ Total(OfMonth(rows', d)) <= Total(OfMonth(rows, d)) + p
               /\ day # d => Total(OfDay(rows', d)) = Total(OfDay(rows, d))
               /\ MonthOf(day) # d => Total(OfMonth(rows', d)) = Total(OfMonth(rows, d))
    <3> TAKE d
    <3>1. Row(r).amt \in Nat /\ \A y \in rows : y.amt \in Nat
      BY <1>3, <1>4 DEF BookInv
    <3>2. CASE rows' = rows
      <4>1. Total(OfDay(rows, d)) \in Nat /\ Total(OfMonth(rows, d)) \in Nat
        BY TotalsAreNat
      <4>2. QED
        BY <4>1, <3>2, <1>3
    <3>3. CASE rows' = rows \cup {Row(r)}
      <4> DEFINE S == rows \cup {Row(r)}
      <4>1. /\ Total(OfDay(rows, d)) \in Nat /\ Total(OfMonth(rows, d)) \in Nat
            /\ Total(OfDay(S, d)) \in Nat /\ Total(OfMonth(S, d)) \in Nat
            /\ Total(OfDay(S, d)) <= Total(OfDay(rows, d)) + Row(r).amt
            /\ Total(OfMonth(S, d)) <= Total(OfMonth(rows, d)) + Row(r).amt
            /\ Row(r).day # d => OfDay(S, d) = OfDay(rows, d)
            /\ MonthOf(Row(r).day) # d => OfMonth(S, d) = OfMonth(rows, d)
        BY <1>2, <3>1, RowAdds
      <4> HIDE DEF S
      <4>2. rows' = S
        BY <3>3 DEF S
      <4>3. QED
        BY <4>1, <4>2, <1>4
    <3>4. QED
      BY <1>1, <3>2, <3>3
  <2>6. DailyCap \in Nat /\ MonthlyCap \in Nat
    BY CapsAreNat
  <2>7. ASSUME NEW d \in day .. MaxDay
        PROVE  /\ Total(OfDay(rows', d)) + c <= DailyCap
               /\ Total(OfMonth(rows', MonthOf(d))) + c <= MonthlyCap
    <3>1. Total(OfDay(rows, d)) + b <= DailyCap /\ Total(OfMonth(rows, MonthOf(d))) + b <= MonthlyCap
      BY <2>3 DEF Room
    <3>2. /\ Total(OfDay(rows, d)) \in Nat /\ Total(OfDay(rows', d)) \in Nat
          /\ Total(OfDay(rows', d)) <= Total(OfDay(rows, d)) + p
      BY <2>5
    <3>3. /\ Total(OfMonth(rows, MonthOf(d))) \in Nat /\ Total(OfMonth(rows', MonthOf(d))) \in Nat
          /\ Total(OfMonth(rows', MonthOf(d))) <= Total(OfMonth(rows, MonthOf(d))) + p
      BY <2>5
    <3>4. QED
      BY <1>3, <2>4, <2>6, <3>1, <3>2, <3>3
  <2>8. Room(c)'
    BY <1>1, <2>7 DEF Room
  <2>9. WithinCaps'
    <3>1. ASSUME NEW d \in 0 .. MaxDay PROVE Total(OfDay(rows', d)) <= DailyCap
      <4>1. CASE d = day
        <5>1. d \in day .. MaxDay
          BY <1>2, <4>1
        <5>2. QED
          BY <5>1, <2>4, <2>5, <2>6, <2>7
      <4>2. CASE d # day
        BY <4>2, <2>1, <2>5 DEF WithinCaps
      <4>3. QED
        BY <4>1, <4>2
    <3>2. ASSUME NEW m \in 0 .. MonthOf(MaxDay) PROVE Total(OfMonth(rows', m)) <= MonthlyCap
      <4>1. CASE m = MonthOf(day)
        <5>1. day \in day .. MaxDay
          BY <1>2
        <5>2. Total(OfMonth(rows', m)) + c <= MonthlyCap /\ Total(OfMonth(rows', m)) \in Nat
          BY <4>1, <5>1, <2>5, <2>7
        <5>3. QED
          BY <5>2, <2>4, <2>6
      <4>2. CASE m # MonthOf(day)
        BY <4>2, <2>1, <2>5 DEF WithinCaps
      <4>3. QED
        BY <4>1, <4>2
    <3>3. QED
      BY <3>1, <3>2 DEF WithinCaps
  <2>10. InFlight' \subseteq InFlight
    BY <1>1, <1>2, <1>5, <2>1 DEF InFlight
  <2>11. \A x \in Runs : status'[x] = "buying" => x = r /\ queue'[x] = Tail(q)
    BY <1>5, <1>6, <2>2 DEF q
  <2>12. QED
    BY <1>1, <1>9, <2>1, <2>4, <2>8, <2>9, <2>10, <2>11 DEF CapsInv
<1>10. QED
  BY <1>1, <1>8, <1>9 DEF CapsInv

\* Settled, passed over, or its row could not be appended.
LEMMA AdvanceIsBuy ==
    ASSUME NEW r \in Runs, NEW b, status[r] = "buying", Advance(r, b), UNCHANGED <<day, crowded>>,
           rows' \in {rows, rows \cup {Row(r)}}
    PROVE  BuyStep(r)
<1>1. queue' = [queue EXCEPT ![r] = Tail(@)]
  BY DEF Advance
<1>2. CASE Len(queue[r]) = 1
  BY <1>1, <1>2 DEF Advance, Compose, BuyStep
<1>3. CASE Len(queue[r]) # 1
  BY <1>1, <1>3 DEF Advance, BuyStep
<1>4. QED
  BY <1>2, <1>3

LEMMA CrashBook == ASSUME BookInv, CapsInv, Crash PROVE BookInv' /\ CapsInv'
<1>1. /\ status' = [r \in Runs |-> IF r \in InFlight THEN "cut" ELSE status[r]]
      /\ ended' = [r \in Runs |-> ended[r] \/ r \in InFlight]
      /\ queue' = [r \in Runs |-> <<>>] /\ UNCHANGED <<rows, day, crowded>>
  BY DEF Crash, history
<1>2. status \in [Runs -> Statuses] /\ ended \in [Runs -> BOOLEAN]
  BY DEF BookInv
<1>3. \A r \in Runs : /\ status'[r] = (IF r \in InFlight THEN "cut" ELSE status[r])
                      /\ ended'[r] = (ended[r] \/ r \in InFlight)
  BY <1>1
<1>4. \A r \in Runs : status[r] \in {"scouting", "buying"} => r \in InFlight
  BY DEF BookInv, InFlight
<1>5. /\ status' \in [Runs -> Statuses] /\ ended' \in [Runs -> BOOLEAN] /\ DOMAIN queue' = Runs
  BY <1>1, <1>2 DEF Statuses
<1>6. \A r \in Runs : /\ status'[r] \in {"idle", "scouting", "buying"} => ~ended'[r]
                      /\ status'[r] # "buying"
  BY <1>3, <1>4 DEF BookInv
<1>7. InFlight' = {}
  BY <1>2, <1>3 DEF InFlight
<1>8. QED
  BY <1>1, <1>5, <1>6, <1>7, BookQuiet, CapsQuiet

\* The steps that buy nothing and approve nothing.
LEMMA RestBook ==
    ASSUME BookInv, CapsInv, NEW r \in Runs, UNCHANGED <<rows, day, crowded, queue>>,
           \/ UNCHANGED <<status, ended>>
           \/ \E s \in {"listed", "failed"} : End(r, s)
           \/ status[r] = "composing" /\ ended' = [ended EXCEPT ![r] = TRUE] /\ UNCHANGED status
    PROVE  BookInv' /\ CapsInv'
<1>1. /\ status \in [Runs -> Statuses] /\ ended \in [Runs -> BOOLEAN] /\ DOMAIN queue = Runs
  BY DEF BookInv
<1>2. /\ status' \in [Runs -> Statuses] /\ ended' \in [Runs -> BOOLEAN] /\ DOMAIN queue' = Runs
      /\ \A x \in Runs : /\ status'[x] \in {"idle", "scouting", "buying"} => ~ended'[x]
                         /\ status'[x] = "buying" => status[x] = "buying" /\ queue'[x] = queue[x]
  BY <1>1 DEF BookInv, End, Statuses
<1>3. InFlight' \subseteq InFlight
  BY <1>1 DEF InFlight, End, BookInv
<1>4. QED
  BY <1>2, <1>3, BookQuiet, CapsQuiet

LEMMA CapsNext == BookInv /\ CapsInv /\ [Next]_vars => BookInv' /\ CapsInv'
<1> SUFFICES ASSUME BookInv, CapsInv, [Next]_vars PROVE BookInv' /\ CapsInv'
  OBVIOUS
<1>1. CASE NewDay \/ Crash
  BY <1>1, NewDayBook, CrashBook
<1>2. CASE UNCHANGED vars
  <2>1. /\ status' = status /\ ended' = ended /\ queue' = queue /\ UNCHANGED <<rows, day, crowded>>
    BY <1>2 DEF vars, history
  <2>2. InFlight' = InFlight
    BY <2>1 DEF InFlight
  <2>3. QED
    BY <2>1, <2>2, CapsQuiet DEF BookInv
<1>3. CASE \E r \in Runs : Start(r) \/ Scouted(r)
  BY <1>3, StartBook, ScoutedBook
<1>4. ASSUME NEW r \in Runs, Charge(r) \/ AskAgain(r) PROVE BookInv' /\ CapsInv'
  BY <1>4, RestBook DEF Charge, AskAgain, history
<1>5. ASSUME NEW r \in Runs, Settled(r) PROVE BookInv' /\ CapsInv'
  <2>1. /\ status[r] = "buying" /\ Advance(r, bought[r] \cup {Row(r)})
        /\ UNCHANGED <<day, crowded>> /\ rows' = rows \cup {Row(r)}
    BY <1>5 DEF Settled
  <2>2. QED
    BY <2>1, AdvanceIsBuy, BuyBook
<1>6. ASSUME NEW r \in Runs, PassedOver(r) PROVE BookInv' /\ CapsInv'
  <2>1. status[r] = "buying" /\ Advance(r, bought[r]) /\ UNCHANGED <<day, crowded, rows>>
    BY <1>6 DEF PassedOver
  <2>2. QED
    BY <2>1, AdvanceIsBuy, BuyBook
<1>7. ASSUME NEW r \in Runs, RecordFails(r) PROVE BookInv' /\ CapsInv'
  <2>1. BuyStep(r)
    BY <1>7 DEF RecordFails, BuyStep
  <2>2. QED
    BY <2>1, BuyBook
<1>8. ASSUME NEW r \in Runs, NoWallet(r) \/ ZeroCost(r) PROVE BookInv' /\ CapsInv'
  BY <1>8, RestBook DEF NoWallet, ZeroCost, history
<1>9. QED
  BY <1>1, <1>2, <1>3, <1>4, <1>5, <1>6, <1>7, <1>8 DEF Next

\* For any services, prices and caps, through midnight, lost answers and crashes: as
\* long as no two runs were in flight together, the spend ledger keeps within the
\* daily and the monthly cap.
THEOREM CapsTheorem == Spec => []AloneWithinCaps
<1>1. CapsInv => AloneWithinCaps
  BY DEF CapsInv, AloneWithinCaps
<1>2. QED
  BY BookInit, CapsNext, <1>1, PTL DEF Spec

-----------------------------------------------------------------------------
(* The price of a product. *)

\* The price repays a cost by the target ratio and by the margin floor, each but for
\* the rounding of half a unit.
Repays(price, cost) == /\ 2 * One * price >= 2 * Target * cost - One
                       /\ 2 * One * (price - cost) >= 2 * Floor * price - (One - Floor)

LEMMA MaximumOfThree ==
    ASSUME NEW a \in Nat, NEW b \in Nat, NEW c \in Nat
    PROVE  Maximum({a, b, c}) \in Nat /\ Maximum({a, b, c}) >= b
<1>1. \E x \in {a, b, c} : \A y \in {a, b, c} : x >= y
  <2>1. CASE a >= b /\ a >= c
    BY <2>1
  <2>2. CASE b >= a /\ b >= c
    BY <2>2
  <2>3. CASE c >= a /\ c >= b
    BY <2>3
  <2>4. QED
    BY <2>1, <2>2, <2>3
<1>2. Maximum({a, b, c}) \in {a, b, c} /\ \A y \in {a, b, c} : Maximum({a, b, c}) >= y
  BY <1>1 DEF Maximum
<1>3. QED
  BY <1>2

\* Rounding loses at most half a unit.
LEMMA RoundedIs ==
    ASSUME NEW n \in Nat, NEW d \in Nat, d > 0
    PROVE  Rounded(n, d) \in Nat /\ 2 * (d * Rounded(n, d)) >= 2 * n - d + 1
<1> DEFINE top == 2 * n + d
           e == 2 * d
           q == top \div e
           rest == top % e
<1>1. top \in Nat /\ e \in Nat /\ e > 0
  OBVIOUS
<1>2. Rounded(n, d) = q
  BY DEF Rounded
<1> HIDE DEF top, e
<1>3. q \in Nat /\ top = e * q + rest /\ rest \in 0 .. e - 1
  BY <1>1
<1> HIDE DEF q, rest
<1>4. e * q = 2 * (d * q) /\ d * q \in Nat
  BY <1>3 DEF e
<1>5. 2 * (d * q) = 2 * n + d - rest /\ rest \in Nat /\ rest <= 2 * d - 1
  BY <1>1, <1>3, <1>4 DEF top, e
<1>6. 2 * (d * q) >= 2 * n - d + 1
  BY <1>4, <1>5
<1>7. QED
  BY <1>2, <1>3, <1>6

LEMMA PriceRepays == ASSUME NEW cost \in Nat PROVE Repays(PriceOf(cost), cost)
<1> DEFINE k == One - Floor
           a == Rounded(cost * Markup, One)
           b == Rounded(cost * Target, One)
           m == PriceOf_NoFloor(cost)
           raised == Rounded(cost * One, k)
           price == PriceOf(cost)
<1>1. Markup \in Nat /\ Target \in Nat /\ MinPrice \in Nat /\ Margin \in Int
  BY SwarmRunAssumption
<1>2. One = 10000 /\ One \in Nat /\ Floor \in Nat /\ Floor = 10000 - k /\ k \in Nat /\ k > 0
  BY <1>1 DEF One, Floor
<1>3. cost * Markup \in Nat /\ cost * Target \in Nat /\ cost * One \in Nat
  BY <1>1, <1>2
<1>4. a \in Nat /\ b \in Nat /\ 2 * (One * b) >= 2 * (cost * Target) - One + 1
  BY <1>2, <1>3, RoundedIs
<1>5. raised \in Nat /\ 2 * (k * raised) >= 2 * (cost * One) - k + 1
  BY <1>2, <1>3, RoundedIs
<1> HIDE DEF a, b
<1>6. m \in Nat /\ m >= b
  BY <1>1, <1>4, MaximumOfThree DEF PriceOf_NoFloor, a, b
<1>7. price = IF cost > 0 /\ One * (m - cost) < Floor * m THEN raised ELSE m
  BY DEF PriceOf
<1> HIDE DEF k, m, raised, price
<1>8. PICK kr \in Nat : kr = k * raised
  BY <1>2, <1>5
<1>9. PICK km \in Nat : km = k * m
  BY <1>2, <1>6
<1>10. PICK ct \in Nat : ct = cost * Target /\ Target * cost = ct
  BY <1>1, <1>3
<1>11. Floor * m = 10000 * m - km /\ Floor * raised = 10000 * raised - kr
  BY <1>2, <1>5, <1>6, <1>8, <1>9
<1>12. 20000 * m >= 2 * ct - 10000 /\ 2 * kr >= 20000 * cost - k + 1
  BY <1>2, <1>4, <1>5, <1>6, <1>8, <1>10
<1>13. Repays(price, cost) <=> /\ 20000 * price >= 2 * ct - 10000
                               /\ 20000 * (price - cost) >= 2 * (Floor * price) - k
  <2>1. price \in Nat
    BY <1>5, <1>6, <1>7
  <2>2. 2 * Target * cost = 2 * ct /\ 2 * Floor * price = 2 * (Floor * price)
    BY <1>1, <1>2, <1>10, <2>1
  <2>3. One - Floor = k
    BY <1>2
  <2>4. QED
    BY <1>2, <2>2, <2>3 DEF Repays
<1>14. CASE ~(cost > 0 /\ One * (m - cost) < Floor * m)
  <2>1. price = m
    BY <1>7, <1>14
  <2>2. 20000 * (m - cost) >= 2 * (10000 * m - km) - k
    BY <1>2, <1>6, <1>9, <1>11, <1>14
  <2>3. Floor * price = 10000 * m - km
    BY <1>11, <2>1
  <2>4. 20000 * price >= 2 * ct - 10000
    BY <1>12, <2>1
  <2>5. 20000 * (price - cost) >= 2 * (Floor * price) - k
    BY <2>1, <2>2, <2>3
  <2>6. QED
    BY <1>13, <2>4, <2>5 DEF price
<1>15. CASE cost > 0 /\ One * (m - cost) < Floor * m
  <2>1. price = raised
    BY <1>7, <1>15
  <2>2. km <= 10000 * cost - 1
    BY <1>2, <1>6, <1>11, <1>15
  <2>3. raised >= m
    <3>1. SUFFICES ASSUME raised + 1 <= m PROVE FALSE
      BY <1>5, <1>6
    <3>2. k * (raised + 1) <= k * m
      BY <3>1, <1>2, <1>5, <1>6
    <3>3. k * (raised + 1) = kr + k
      BY <1>2, <1>5, <1>8
    <3>4. QED
      BY <3>2, <3>3, <2>2, <1>2, <1>9, <1>12
  <2>4. 20000 * raised >= 2 * ct - 10000
    BY <2>3, <1>5, <1>6, <1>12
  <2>5. 20000 * (raised - cost) >= 2 * (10000 * raised - kr) - k
    BY <1>2, <1>5, <1>12
  <2>6. Floor * price = 10000 * raised - kr
    BY <1>11, <2>1
  <2>7. 20000 * price >= 2 * ct - 10000
    BY <2>1, <2>4
  <2>8. 20000 * (price - cost) >= 2 * (Floor * price) - k
    BY <2>1, <2>5, <2>6
  <2>9. QED
    BY <1>13, <2>7, <2>8 DEF price
<1>16. QED
  BY <1>14, <1>15

\* A run that buys holds all it has in the ledger, and a listed product was priced at
\* just that, or had nothing to repay.
RepayInv ==
    /\ DOMAIN product = Runs /\ DOMAIN bought = Runs
    /\ \A r \in Runs :
        /\ status[r] \in {"idle", "scouting", "composing"} => OfRun(rows, r) = {} /\ bought[r] = {}
        /\ status[r] = "buying" => bought[r] = OfRun(rows, r)
        /\ status[r] # "listed" => product[r] = NoProduct
        /\ status[r] = "listed" =>
              /\ ended[r]
              /\ \/ product[r].price = PriceOf(Total(OfRun(rows, r)))
                 \/ OfRun(rows, r) = {} /\ product[r] = NoProduct

\* What holds of one run when its rows, its product and what it holds stay.
LEMMA RepayQuiet ==
    ASSUME BookInv, RepayInv, UNCHANGED <<rows, product, bought>>,
           \A r \in Runs : \/ status'[r] = status[r] /\ (ended[r] => ended'[r])
                           \/ status'[r] \in {"failed", "cut"} /\ status[r] # "listed"
                           \/ /\ status[r] \in {"idle", "scouting", "composing"}
                              /\ \/ status'[r] \in {"scouting", "composing", "buying"}
                                 \/ status'[r] = "listed" /\ ended'[r]
    PROVE  RepayInv'
<1>1. ASSUME NEW r \in Runs
      PROVE  /\ status'[r] \in {"idle", "scouting", "composing"} => OfRun(rows, r) = {} /\ bought[r] = {}
             /\ status'[r] = "buying" => bought[r] = OfRun(rows, r)
             /\ status'[r] # "listed" => product[r] = NoProduct
             /\ status'[r] = "listed" =>
                  /\ ended'[r]
                  /\ \/ product[r].price = PriceOf(Total(OfRun(rows, r)))
                     \/ OfRun(rows, r) = {} /\ product[r] = NoProduct
  BY DEF RepayInv
<1>2. QED
  BY <1>1 DEF RepayInv

\* Only the run that buys gets rows, and it holds what it is listed for.
LEMMA AdvanceRepays ==
    ASSUME BookInv, RepayInv, NEW r \in Runs, NEW b, status[r] = "buying", Advance(r, b),
           \/ rows' = rows /\ b = bought[r]
           \/ rows' = rows \cup {Row(r)} /\ b = bought[r] \cup {Row(r)}
    PROVE  RepayInv'
<1>1. Row(r).run = r
  BY DEF Row
<1>2. /\ OfRun(rows', r) = b
      /\ \A x \in Runs \ {r} : OfRun(rows', x) = OfRun(rows, x)
  <2>1. bought[r] = OfRun(rows, r)
    BY DEF RepayInv
  <2>2. CASE rows' = rows /\ b = bought[r]
    BY <2>1, <2>2
  <2>3. CASE rows' = rows \cup {Row(r)} /\ b = bought[r] \cup {Row(r)}
    BY <1>1, <2>1, <2>3 DEF OfRun
  <2>4. QED
    BY <2>2, <2>3
<1>3. /\ bought' = [bought EXCEPT ![r] = b] /\ DOMAIN bought = Runs /\ DOMAIN product = Runs
      /\ status \in [Runs -> Statuses] /\ ended \in [Runs -> BOOLEAN] /\ product[r] = NoProduct
  BY DEF Advance, RepayInv, BookInv
<1>4. \/ UNCHANGED <<product, status, ended>>
      \/ /\ status' = [status EXCEPT ![r] = "listed"] /\ ended' = [ended EXCEPT ![r] = TRUE]
         /\ product' = [product EXCEPT ![r] = [cost |-> Total(b), price |-> PriceOf(Total(b))]]
      \/ /\ status' = [status EXCEPT ![r] = "failed"] /\ ended' = [ended EXCEPT ![r] = TRUE]
         /\ product' = product
  BY DEF Advance, Compose, End
<1>5. DOMAIN product' = Runs /\ DOMAIN bought' = Runs
  BY <1>3, <1>4
<1>6. ASSUME NEW x \in Runs \ {r}
      PROVE  status'[x] = status[x] /\ ended'[x] = ended[x] /\ product'[x] = product[x]
             /\ bought'[x] = bought[x] /\ OfRun(rows', x) = OfRun(rows, x)
  BY <1>2, <1>3, <1>4
<1>7. /\ bought'[r] = OfRun(rows', r)
      /\ \/ status'[r] = "buying" /\ product'[r] = NoProduct
         \/ status'[r] = "failed" /\ product'[r] = NoProduct
         \/ /\ status'[r] = "listed" /\ ended'[r]
            /\ product'[r].price = PriceOf(Total(OfRun(rows', r)))
  BY <1>2, <1>3, <1>4
<1>8. ASSUME NEW x \in Runs
      PROVE  /\ status'[x] \in {"idle", "scouting", "composing"} => OfRun(rows', x) = {} /\ bought'[x] = {}
             /\ status'[x] = "buying" => bought'[x] = OfRun(rows', x)
             /\ status'[x] # "listed" => product'[x] = NoProduct
             /\ status'[x] = "listed" =>
                  /\ ended'[x]
                  /\ \/ product'[x].price = PriceOf(Total(OfRun(rows', x)))
                     \/ OfRun(rows', x) = {} /\ product'[x] = NoProduct
  <2>1. CASE x = r
    BY <2>1, <1>7
  <2>2. CASE x # r
    BY <2>2, <1>6 DEF RepayInv
  <2>3. QED
    BY <2>1, <2>2
<1>9. QED
  BY <1>5, <1>8 DEF RepayInv

\* A run whose row cannot be appended fails, with or without the row.
LEMMA RecordFailsRepays ==
    ASSUME BookInv, RepayInv, NEW r \in Runs, RecordFails(r)
    PROVE  RepayInv'
<1>1. /\ status[r] = "buying" /\ rows' \in {rows, rows \cup {Row(r)}} /\ UNCHANGED <<bought, product>>
      /\ status' = [status EXCEPT ![r] = "failed"] /\ ended' = [ended EXCEPT ![r] = TRUE]
  BY DEF RecordFails, End
<1>2. status \in [Runs -> Statuses] /\ ended \in [Runs -> BOOLEAN]
  BY DEF BookInv
<1>3. \A x \in Runs \ {r} : OfRun(rows', x) = OfRun(rows, x) /\ status'[x] = status[x] /\ ended'[x] = ended[x]
  <2>1. Row(r).run = r
    BY DEF Row
  <2>2. \A x \in Runs \ {r} : OfRun(rows', x) = OfRun(rows, x)
    BY <1>1, <2>1 DEF OfRun
  <2>3. QED
    BY <1>1, <1>2, <2>2
<1>4. status'[r] = "failed" /\ product[r] = NoProduct
  BY <1>1, <1>2 DEF RepayInv
<1>5. ASSUME NEW x \in Runs
      PROVE  /\ status'[x] \in {"idle", "scouting", "composing"} => OfRun(rows', x) = {} /\ bought'[x] = {}
             /\ status'[x] = "buying" => bought'[x] = OfRun(rows', x)
             /\ status'[x] # "listed" => product'[x] = NoProduct
             /\ status'[x] = "listed" =>
                  /\ ended'[x]
                  /\ \/ product'[x].price = PriceOf(Total(OfRun(rows', x)))
                     \/ OfRun(rows', x) = {} /\ product'[x] = NoProduct
  <2>1. CASE x = r
    BY <2>1, <1>1, <1>4
  <2>2. CASE x # r
    BY <2>2, <1>1, <1>3 DEF RepayInv
  <2>3. QED
    BY <2>1, <2>2
<1>6. QED
  BY <1>1, <1>5 DEF RepayInv

LEMMA RepayNext == BookInv /\ RepayInv /\ [Next]_vars => RepayInv'
<1> SUFFICES ASSUME BookInv, RepayInv, [Next]_vars PROVE RepayInv'
  OBVIOUS
<1>1. status \in [Runs -> Statuses] /\ ended \in [Runs -> BOOLEAN]
  BY DEF BookInv
<1>2. CASE NewDay \/ UNCHANGED vars
  BY <1>2, RepayQuiet DEF NewDay, vars
<1>3. CASE Crash
  <2>1. /\ status' = [r \in Runs |-> IF r \in InFlight THEN "cut" ELSE status[r]]
        /\ ended' = [r \in Runs |-> ended[r] \/ r \in InFlight] /\ UNCHANGED <<rows, product, bought>>
    BY <1>3 DEF Crash
  <2>2. ASSUME NEW r \in Runs
        PROVE  \/ status'[r] = status[r] /\ (ended[r] => ended'[r])
               \/ status'[r] \in {"failed", "cut"} /\ status[r] # "listed"
    BY <2>1, <1>1 DEF InFlight, RepayInv
  <2>3. QED
    BY <2>1, <2>2, RepayQuiet
<1>4. ASSUME NEW r \in Runs, Start(r) PROVE RepayInv'
  BY <1>1, <1>4, RepayQuiet DEF Start
<1>5. ASSUME NEW r \in Runs, Scouted(r) PROVE RepayInv'
  BY <1>1, <1>5, RepayQuiet DEF Scouted, End
<1>6. ASSUME NEW r \in Runs, Charge(r) \/ AskAgain(r) PROVE RepayInv'
  BY <1>6, RepayQuiet DEF Charge, AskAgain
<1>7. ASSUME NEW r \in Runs, Settled(r) PROVE RepayInv'
  BY <1>7, AdvanceRepays DEF Settled
<1>8. ASSUME NEW r \in Runs, PassedOver(r) PROVE RepayInv'
  BY <1>8, AdvanceRepays DEF PassedOver
<1>9. CASE \E r \in Runs : RecordFails(r)
  BY <1>9, RecordFailsRepays
<1>10. ASSUME NEW r \in Runs, NoWallet(r) PROVE RepayInv'
  BY <1>1, <1>10, RepayQuiet DEF NoWallet, End
<1>11. ASSUME NEW r \in Runs, ZeroCost(r) PROVE RepayInv'
  BY <1>1, <1>11, RepayQuiet DEF ZeroCost, End
<1>12. QED
  BY <1>2, <1>3, <1>4, <1>5, <1>6, <1>7, <1>8, <1>9, <1>10, <1>11 DEF Next

\* For any services, prices, pricing rules and faults, however the runs overlap: a
\* listed product repays all its run has in the spend ledger, by the target ratio and by
\* the margin floor, each but for the rounding of half a unit.
THEOREM RepaysTheorem == Spec => []ListedRepaysSpend
<1>1. Init => RepayInv
  BY DEF Init, RepayInv, OfRun
<1>2. ASSUME BookInv, RepayInv PROVE ListedRepaysSpend
  <2> SUFFICES ASSUME NEW r \in Runs, status[r] = "listed"
               PROVE  Repays(product[r].price, Total(OfRun(rows, r)))
    BY DEF ListedRepaysSpend, Repays
  <2>1. Total(OfRun(rows, r)) \in Nat
    <3>1. IsFiniteSet(OfRun(rows, r)) /\ \A x \in OfRun(rows, r) : x.amt \in Nat
      <4>1. OfRun(rows, r) \in SUBSET rows
        BY DEF OfRun
      <4>2. QED
        BY <1>2, <4>1, FS_Subset DEF BookInv
    <3> DEFINE x == [amt |-> 0]
    <3>2. x.amt \in Nat
      OBVIOUS
    <3> HIDE DEF x
    <3>3. QED
      BY <3>1, <3>2, TotalAdd
  <2>2. CASE product[r].price = PriceOf(Total(OfRun(rows, r)))
    BY <2>1, <2>2, PriceRepays
  <2>3. CASE OfRun(rows, r) = {} /\ product[r] = NoProduct
    <3>1. Total(OfRun(rows, r)) = 0 /\ product[r].price = 0
      BY <2>3, TotalEmpty DEF NoProduct
    <3>2. Target \in Nat /\ Floor \in 0 .. 9900 /\ One = 10000
      BY SwarmRunAssumption DEF Floor, One
    <3>3. QED
      BY <3>1, <3>2 DEF Repays
  <2>4. QED
    BY <1>2, <2>2, <2>3 DEF RepayInv
<1>3. QED
  BY BookInit, CapsNext, RepayNext, <1>1, <1>2, PTL DEF Spec

-----------------------------------------------------------------------------
(* The stream of events. *)

OpsSpec == OpsInit /\ [][OpsNext]_opsVars

LevelNames == {Levels[i] : i \in DOMAIN Levels}
Events ==
    {Tool} \cup [kind : {"level"}, previous : LevelNames, status : LevelNames]
           \cup [kind : {"burst"}, sum : Nat, at : Nat]
Spends == [at : Nat, amount : Nat]

LEMMA EventsAre ==
    /\ Beat \notin Events /\ Tool \in Events
    /\ \A a, b \in LevelNames : LevelAlert(a, b) \in Events
    /\ \A n, t \in Nat : [kind |-> "burst", sum |-> n, at |-> t] \in Events
BY DEF Events, Beat, Tool, LevelAlert

-----------------------------------------------------------------------------
(* The end of a sequence. *)

LEMMA LastOfIs ==
    ASSUME NEW T, NEW s \in Seq(T), NEW n \in Nat
    PROVE  /\ LastOf(s, n) \in Seq(T)
           /\ Len(LastOf(s, n)) = IF Len(s) > n THEN n ELSE Len(s)
           /\ \A i \in 1 .. Len(LastOf(s, n)) : LastOf(s, n)[i] = s[Len(s) - Len(LastOf(s, n)) + i]
<1> DEFINE m == IF Len(s) > n THEN Len(s) - n + 1 ELSE 1
           k == Len(s)
<1>1. m \in Int /\ k \in Int /\ k \in Nat /\ \A i \in m .. k : s[i] \in T
  OBVIOUS
<1>2. LastOf(s, n) = SubSeq(s, m, k)
  BY DEF LastOf
<1> HIDE DEF m, k
<1>3. /\ SubSeq(s, m, k) \in Seq(T)
      /\ Len(SubSeq(s, m, k)) = IF m <= k THEN k - m + 1 ELSE 0
      /\ \A i \in 1 .. k - m + 1 : SubSeq(s, m, k)[i] = s[m + i - 1]
  BY <1>1, SubSeqProperties
<1>4. /\ k - m + 1 = IF Len(s) > n THEN n ELSE Len(s)
      /\ (IF m <= k THEN k - m + 1 ELSE 0) = k - m + 1
      /\ m = k - (k - m + 1) + 1
  <2>1. CASE Len(s) > n
    <3>1. m = k - n + 1 /\ k > n
      BY <2>1 DEF m, k
    <3>2. QED
      BY <1>1, <2>1, <3>1
  <2>2. CASE ~(Len(s) > n)
    <3>1. m = 1 /\ k = Len(s)
      BY <2>2 DEF m, k
    <3>2. QED
      BY <1>1, <2>2, <3>1
  <2>3. QED
    BY <2>1, <2>2
<1> DEFINE l == IF Len(s) > n THEN n ELSE Len(s)
<1>5. l \in Nat /\ k = Len(s) /\ k - m + 1 = l
  BY <1>1, <1>4 DEF k
<1> HIDE DEF l
<1>6. \A i \in 1 .. l : m + i - 1 = Len(s) - l + i
  BY <1>1, <1>5
<1>7. /\ LastOf(s, n) \in Seq(T) /\ Len(LastOf(s, n)) = l
      /\ \A i \in 1 .. l : LastOf(s, n)[i] = s[Len(s) - l + i]
  BY <1>2, <1>3, <1>4, <1>5, <1>6
<1>8. QED
  BY <1>7 DEF l

\* The end of what follows the end is the end of what follows.
LEMMA LastOfMore ==
    ASSUME NEW T, NEW s \in Seq(T), NEW t \in Seq(T), NEW n \in Nat
    PROVE  LastOf(LastOf(s, n) \o t, n) = LastOf(s \o t, n)
<1> DEFINE a == LastOf(s, n)
           b == LastOf(a \o t, n)
           c == LastOf(s \o t, n)
<1>1. /\ a \in Seq(T) /\ Len(a) = IF Len(s) > n THEN n ELSE Len(s)
      /\ \A i \in 1 .. Len(a) : a[i] = s[Len(s) - Len(a) + i]
  BY LastOfIs
<1> HIDE DEF a
<1>2. /\ a \o t \in Seq(T) /\ Len(a \o t) = Len(a) + Len(t)
      /\ \A i \in 1 .. Len(a) + Len(t) : (a \o t)[i] = IF i <= Len(a) THEN a[i] ELSE t[i - Len(a)]
  BY <1>1, ConcatProperties
<1>3. /\ s \o t \in Seq(T) /\ Len(s \o t) = Len(s) + Len(t)
      /\ \A i \in 1 .. Len(s) + Len(t) : (s \o t)[i] = IF i <= Len(s) THEN s[i] ELSE t[i - Len(s)]
  BY <1>1, ConcatProperties
<1>4. /\ b \in Seq(T) /\ Len(b) = IF Len(a \o t) > n THEN n ELSE Len(a \o t)
      /\ \A i \in 1 .. Len(b) : b[i] = (a \o t)[Len(a \o t) - Len(b) + i]
  BY <1>2, LastOfIs
<1>5. /\ c \in Seq(T) /\ Len(c) = IF Len(s \o t) > n THEN n ELSE Len(s \o t)
      /\ \A i \in 1 .. Len(c) : c[i] = (s \o t)[Len(s \o t) - Len(c) + i]
  BY <1>3, LastOfIs
<1> HIDE DEF b, c
<1>6. /\ Len(b) = Len(c) /\ Len(b) <= Len(a) + Len(t) /\ Len(b) <= Len(s) + Len(t)
      /\ Len(s) \in Nat /\ Len(t) \in Nat /\ Len(a) \in Nat /\ Len(b) \in Nat
  <2>1. Len(s) \in Nat /\ Len(t) \in Nat /\ Len(a) \in Nat /\ Len(b) \in Nat
    BY <1>1, <1>4
  <2>2. /\ Len(a) = IF Len(s) > n THEN n ELSE Len(s)
        /\ Len(b) = IF Len(a) + Len(t) > n THEN n ELSE Len(a) + Len(t)
        /\ Len(c) = IF Len(s) + Len(t) > n THEN n ELSE Len(s) + Len(t)
    BY <1>1, <1>2, <1>3, <1>4, <1>5
  <2>3. QED
    BY <2>1, <2>2
<1>7. ASSUME NEW i \in 1 .. Len(b) PROVE b[i] = c[i]
  <2> DEFINE p == Len(a) + Len(t) - Len(b) + i
             q == Len(s) + Len(t) - Len(b) + i
  <2>1. p \in 1 .. Len(a) + Len(t) /\ q \in 1 .. Len(s) + Len(t)
    BY <1>6
  <2>2. b[i] = IF p <= Len(a) THEN a[p] ELSE t[p - Len(a)]
    <3>1. b[i] = (a \o t)[p]
      <4>1. b[i] = (a \o t)[Len(a \o t) - Len(b) + i]
        BY <1>4
      <4>2. Len(a \o t) - Len(b) + i = p
        BY <1>2
      <4>3. QED
        BY <4>1, <4>2
    <3> HIDE DEF p
    <3>2. QED
      BY <1>2, <2>1, <3>1
  <2>3. c[i] = IF q <= Len(s) THEN s[q] ELSE t[q - Len(s)]
    <3>1. c[i] = (s \o t)[q]
      <4>1. c[i] = (s \o t)[Len(s \o t) - Len(c) + i]
        BY <1>5, <1>6
      <4>2. Len(s \o t) - Len(c) + i = q
        BY <1>3, <1>6
      <4>3. QED
        BY <4>1, <4>2
    <3> HIDE DEF q
    <3>2. QED
      BY <1>3, <2>1, <3>1
  <2>4. (p <= Len(a) <=> q <= Len(s)) /\ p - Len(a) = q - Len(s) /\ Len(s) - Len(a) + p = q
    BY <1>6
  <2>5. p <= Len(a) => a[p] = s[q]
    <3>1. p <= Len(a) => p \in 1 .. Len(a)
      BY <1>6, <2>1
    <3> HIDE DEF p, q
    <3>2. QED
      BY <1>1, <2>4, <3>1
  <2> HIDE DEF p, q
  <2>6. QED
    BY <2>2, <2>3, <2>4, <2>5
<1>8. b = c
  BY <1>4, <1>5, <1>6, <1>7, SeqEqual
<1>9. QED
  BY <1>8 DEF a, b, c

\* A shorter end of the end, as the rest of the sequence from a place on.
LEMMA LastOfLast ==
    ASSUME NEW T, NEW s \in Seq(T), NEW n \in Nat, NEW m \in Nat, m <= n
    PROVE  LET l == LastOf(LastOf(s, n), m)
           IN  /\ l \in Seq(T) /\ Len(l) <= Len(s)
               /\ l = SubSeq(s, Len(s) - Len(l) + 1, Len(s))
<1> DEFINE a == LastOf(s, n)
           l == LastOf(a, m)
           k == Len(s) - Len(l) + 1
           r == SubSeq(s, k, Len(s))
<1>1. /\ a \in Seq(T) /\ Len(a) = IF Len(s) > n THEN n ELSE Len(s)
      /\ \A i \in 1 .. Len(a) : a[i] = s[Len(s) - Len(a) + i]
  BY LastOfIs
<1> HIDE DEF a
<1>2. /\ l \in Seq(T) /\ Len(l) = IF Len(a) > m THEN m ELSE Len(a)
      /\ \A i \in 1 .. Len(l) : l[i] = a[Len(a) - Len(l) + i]
  BY <1>1, LastOfIs
<1> HIDE DEF l
<1>3. Len(s) \in Nat /\ Len(a) \in Nat /\ Len(l) \in Nat /\ Len(l) <= Len(a) /\ Len(a) <= Len(s)
  BY <1>1, <1>2
<1>4. /\ r \in Seq(T) /\ Len(r) = Len(l)
      /\ \A i \in 1 .. Len(l) : r[i] = s[Len(s) - Len(l) + i]
  <2>1. k \in Int /\ Len(s) \in Int /\ \A i \in k .. Len(s) : s[i] \in T
    BY <1>3
  <2>2. /\ r \in Seq(T) /\ Len(r) = IF k <= Len(s) THEN Len(s) - k + 1 ELSE 0
        /\ \A i \in 1 .. Len(s) - k + 1 : r[i] = s[k + i - 1]
    <3> HIDE DEF k
    <3>1. QED
      BY <2>1, SubSeqProperties
  <2>3. Len(s) - k + 1 = Len(l) /\ \A i \in 1 .. Len(l) : k + i - 1 = Len(s) - Len(l) + i
    BY <1>3
  <2>4. QED
    <3> HIDE DEF r
    <3>1. Len(r) = Len(l)
      BY <1>3, <2>2, <2>3
    <3> HIDE DEF k
    <3>2. QED
      BY <2>2, <2>3, <3>1
<1> HIDE DEF r
<1>5. ASSUME NEW i \in 1 .. Len(l) PROVE l[i] = r[i]
  <2>1. Len(a) - Len(l) + i \in 1 .. Len(a)
    BY <1>3
  <2>2. l[i] = s[Len(s) - Len(a) + (Len(a) - Len(l) + i)]
    BY <1>1, <1>2, <2>1
  <2>3. Len(s) - Len(a) + (Len(a) - Len(l) + i) = Len(s) - Len(l) + i
    BY <1>3
  <2>4. QED
    BY <1>4, <2>2, <2>3
<1>6. l = r
  BY <1>2, <1>4, <1>5, SeqEqual
<1>7. l \in Seq(T) /\ Len(l) <= Len(s) /\ l = SubSeq(s, Len(s) - Len(l) + 1, Len(s))
  <2>1. l \in Seq(T) /\ Len(l) <= Len(s)
    BY <1>2, <1>3
  <2>2. l = SubSeq(s, Len(s) - Len(l) + 1, Len(s))
    BY <1>6 DEF r
  <2>3. QED
    BY <2>1, <2>2
<1>8. QED
  BY <1>7 DEF l, a

-----------------------------------------------------------------------------
(* What a listener was sent, is replayed and has queued. *)

Places ==
    [st : {"away", "replay", "live", "gone"}, replay : Seq(Events), sent : Seq(Events), from : Nat]
Queued == Seq(Events \cup {Beat})

\* The listener l with the queue p is given the events of e from its first one on.
Whole(l, p, e) == l.sent \o l.replay \o Keep(p, Events) = SubSeq(e, l.from + 1, Len(e))

LEMMA RestIs ==
    ASSUME NEW e \in Seq(Events), NEW f \in Nat, f <= Len(e)
    PROVE  LET r == SubSeq(e, f + 1, Len(e))
           IN  /\ r \in Seq(Events) /\ Len(r) = Len(e) - f
               /\ \A i \in 1 .. Len(e) - f : r[i] = e[f + i]
<1> DEFINE r == SubSeq(e, f + 1, Len(e))
<1>1. f + 1 \in Int /\ Len(e) \in Int /\ \A i \in f + 1 .. Len(e) : e[i] \in Events
  OBVIOUS
<1>2. /\ r \in Seq(Events)
      /\ Len(r) = IF f + 1 <= Len(e) THEN Len(e) - (f + 1) + 1 ELSE 0
      /\ \A i \in 1 .. Len(e) - (f + 1) + 1 : r[i] = e[f + 1 + i - 1]
  BY <1>1, SubSeqProperties
<1>3. Len(e) - (f + 1) + 1 = Len(e) - f /\ \A i \in 1 .. Len(e) - f : f + 1 + i - 1 = f + i
  OBVIOUS
<1> HIDE DEF r
<1>4. Len(r) = Len(e) - f
  BY <1>1, <1>2
<1>5. \A i \in 1 .. Len(e) - f : r[i] = e[f + i]
  BY <1>2, <1>3
<1>6. QED
  BY <1>2, <1>4, <1>5 DEF r

\* More events behind the last one.
LEMMA RestMore ==
    ASSUME NEW e \in Seq(Events), NEW x \in Seq(Events), NEW f \in Nat, f <= Len(e)
    PROVE  SubSeq(e \o x, f + 1, Len(e \o x)) = SubSeq(e, f + 1, Len(e)) \o x
<1> DEFINE a == SubSeq(e, f + 1, Len(e))
           b == SubSeq(e \o x, f + 1, Len(e \o x))
<1>1. /\ a \in Seq(Events) /\ Len(a) = Len(e) - f
      /\ \A i \in 1 .. Len(e) - f : a[i] = e[f + i]
  BY RestIs
<1>2. /\ e \o x \in Seq(Events) /\ Len(e \o x) = Len(e) + Len(x) /\ f <= Len(e \o x)
      /\ \A i \in 1 .. Len(e) + Len(x) : (e \o x)[i] = IF i <= Len(e) THEN e[i] ELSE x[i - Len(e)]
  BY ConcatProperties
<1>3. /\ b \in Seq(Events) /\ Len(b) = Len(e \o x) - f
      /\ \A i \in 1 .. Len(e \o x) - f : b[i] = (e \o x)[f + i]
  BY <1>2, RestIs
<1> HIDE DEF a, b
<1>4. /\ a \o x \in Seq(Events) /\ Len(a \o x) = Len(a) + Len(x)
      /\ \A i \in 1 .. Len(a) + Len(x) : (a \o x)[i] = IF i <= Len(a) THEN a[i] ELSE x[i - Len(a)]
  BY <1>1, ConcatProperties
<1>5. Len(b) = Len(a \o x) /\ Len(b) = Len(e) + Len(x) - f /\ Len(a) + Len(x) = Len(b)
  BY <1>1, <1>2, <1>3, <1>4
<1>6. ASSUME NEW i \in 1 .. Len(b) PROVE b[i] = (a \o x)[i]
  <2>1. i \in 1 .. Len(e \o x) - f /\ f + i \in 1 .. Len(e) + Len(x) /\ i \in 1 .. Len(a) + Len(x)
    BY <1>2, <1>5
  <2>2. b[i] = IF f + i <= Len(e) THEN e[f + i] ELSE x[f + i - Len(e)]
    BY <1>2, <1>3, <2>1
  <2>3. (a \o x)[i] = IF i <= Len(a) THEN a[i] ELSE x[i - Len(a)]
    BY <1>4, <2>1
  <2>4. (i <= Len(a) <=> f + i <= Len(e)) /\ i - Len(a) = f + i - Len(e)
    BY <1>1
  <2>5. i <= Len(a) => a[i] = e[f + i]
    BY <1>1
  <2>6. QED
    BY <2>2, <2>3, <2>4, <2>5
<1>7. b = a \o x
  BY <1>3, <1>4, <1>5, <1>6, SeqEqual
<1>8. QED
  BY <1>7 DEF a, b

LEMMA QueuedKeep ==
    ASSUME NEW p \in Queued
    PROVE  /\ Keep(p, Events) \in Seq(Events)
           /\ \A x \in Seq(Events) : /\ p \o x \in Queued
                                     /\ Keep(p \o x, Events) = Keep(p, Events) \o x
           /\ p \o <<Beat>> \in Queued /\ Keep(p \o <<Beat>>, Events) = Keep(p, Events)
<1> DEFINE T == Events \cup {Beat}
<1>1. p \in Seq(T) /\ \A x \in T : x \in Events => x \in Events
  BY DEF Queued
<1>2. Beat \in T /\ Beat \notin Events /\ \A x \in Seq(Events) : x \in Seq(T)
  BY EventsAre
<1> HIDE DEF T
<1>3. Keep(p, Events) \in Seq(Events)
  BY <1>1, KeepIn
<1>4. ASSUME NEW x \in Seq(Events)
      PROVE  p \o x \in Seq(T) /\ Keep(p \o x, Events) = Keep(p, Events) \o x
  <2>1. x \in Seq(T)
    BY <1>2
  <2>2. Keep(x, Events) = x
    BY KeepAll
  <2>3. Keep(p \o x, Events) = Keep(p, Events) \o Keep(x, Events)
    BY <1>1, <2>1, KeepConcat
  <2>4. QED
    BY <1>1, <2>1, <2>2, <2>3
<1>5. p \o <<Beat>> \in Seq(T) /\ Keep(p \o <<Beat>>, Events) = Keep(p, Events)
  <2> DEFINE b == <<Beat>>
  <2>1. b \in Seq(T)
    BY <1>2
  <2>2. Keep(b, Events) = <<>>
    BY <1>2, KeepOne
  <2> HIDE DEF b
  <2>3. Keep(p \o b, Events) = Keep(p, Events) \o Keep(b, Events)
    BY <1>1, <2>1, KeepConcat
  <2>4. p \o b \in Seq(T) /\ Keep(p, Events) \o <<>> = Keep(p, Events)
    BY <1>1, <1>3, <2>1
  <2>5. p \o b \in Seq(T) /\ Keep(p \o b, Events) = Keep(p, Events)
    BY <2>2, <2>3, <2>4
  <2>6. QED
    BY <2>5 DEF b
<1>6. QED
  BY <1>3, <1>4, <1>5 DEF Queued, T

\* The first of the queue: an event is kept, a heartbeat is not.
LEMMA QueuedTail ==
    ASSUME NEW p \in Queued, p # <<>>
    PROVE  /\ Head(p) \in Events \cup {Beat} /\ Tail(p) \in Queued
           /\ Keep(p, Events) = IF Head(p) = Beat THEN Keep(Tail(p), Events)
                                ELSE <<Head(p)>> \o Keep(Tail(p), Events)
<1> DEFINE T == Events \cup {Beat}
<1>1. p \in Seq(T) /\ \A x \in T : x \in Events <=> x # Beat
  BY EventsAre DEF Queued
<1> HIDE DEF T
<1> DEFINE h == <<Head(p)>>
           t == Tail(p)
<1>2. Head(p) \in T /\ t \in Seq(T) /\ h \in Seq(T) /\ p = h \o t
  BY <1>1
<1>3. Keep(h, Events) = IF Head(p) \in Events THEN h ELSE <<>>
  BY KeepOne
<1> HIDE DEF h, t
<1>4. Keep(h \o t, Events) = Keep(h, Events) \o Keep(t, Events)
  BY <1>2, KeepConcat
<1>5. Keep(t, Events) \in Seq(T)
  BY <1>2, KeepType
<1>6. Keep(p, Events) = IF Head(p) = Beat THEN Keep(t, Events) ELSE h \o Keep(t, Events)
  <2>1. <<>> \o Keep(t, Events) = Keep(t, Events)
    BY <1>5
  <2>2. Keep(p, Events) = Keep(h, Events) \o Keep(t, Events)
    BY <1>2, <1>4
  <2>3. QED
    BY <1>1, <1>2, <1>3, <2>1, <2>2
<1>7. QED
  BY <1>2, <1>6 DEF Queued, T, h, t

-----------------------------------------------------------------------------
(* The stream is without a gap. *)

\* Nothing is left to be replayed when the queue is read, and who does not listen has
\* no queue.
Served(l, p, e) ==
    /\ l.from <= Len(e)
    /\ l.st = "live" => l.replay = <<>>
    /\ IF l.st \in {"replay", "live"} THEN Whole(l, p, e) ELSE p = <<>>

StreamInv ==
    /\ emitted \in Seq(Events) /\ ring = LastOf(emitted, Ring)
    /\ pending \in [Listeners -> Queued] /\ listener \in [Listeners -> Places]
    /\ \A r \in Listeners : Served(listener[r], pending[r], emitted)

LEMMA Bounds == Ring \in Nat /\ Replayed \in Nat /\ Replayed <= Ring /\ SpendWindow \in Nat
  BY OpsAssumption

LEMMA StreamIs == StreamInv => StreamIsGapless
<1> SUFFICES ASSUME StreamInv, NEW r \in Listening
             PROVE  LET l == listener[r]
                        events == Keep(pending[r], ToSet(pending[r]) \ {Beat})
                    IN  l.sent \o l.replay \o events = SubSeq(emitted, l.from + 1, Len(emitted))
  BY DEF StreamIsGapless
<1> DEFINE p == pending[r]
           T == Events \cup {Beat}
<1>1. r \in Listeners /\ Whole(listener[r], p, emitted) /\ p \in Seq(T)
  BY DEF StreamInv, Served, Listening, Queued
<1>2. ASSUME NEW i \in 1 .. Len(p) PROVE p[i] \in ToSet(p) \ {Beat} <=> p[i] \in Events
  <2>1. p[i] \in T /\ p[i] \in ToSet(p)
    BY <1>1 DEF ToSet
  <2>2. QED
    BY <2>1, EventsAre
<1> HIDE DEF p, T
<1>3. Keep(p, ToSet(p) \ {Beat}) = Keep(p, Events)
  BY <1>1, <1>2, KeepSame
<1>4. QED
  BY <1>1, <1>3 DEF Whole, p

LEMMA WholeMore ==
    ASSUME NEW l \in Places, NEW p \in Queued, NEW e \in Seq(Events), NEW x \in Seq(Events),
           l.from <= Len(e), Whole(l, p, e)
    PROVE  Whole(l, p \o x, e \o x)
<1>1. /\ l.sent \in Seq(Events) /\ l.replay \in Seq(Events) /\ l.from \in Nat
      /\ Keep(p, Events) \in Seq(Events) /\ Keep(p \o x, Events) = Keep(p, Events) \o x
  BY QueuedKeep DEF Places
<1>2. SubSeq(e \o x, l.from + 1, Len(e \o x)) = SubSeq(e, l.from + 1, Len(e)) \o x
  BY <1>1, RestMore
<1> DEFINE a == l.sent \o l.replay
           k == Keep(p, Events)
<1>3. a \in Seq(Events) /\ k \in Seq(Events)
  BY <1>1
<1> HIDE DEF a, k
<1>4. a \o (k \o x) = (a \o k) \o x
  BY <1>3, ConcatAssociative
<1>5. l.sent \o l.replay \o Keep(p \o x, Events) = (a \o k) \o x
  BY <1>1, <1>4 DEF a, k
<1>6. QED
  BY <1>2, <1>5 DEF Whole, a, k

LEMMA EmitsStream ==
    ASSUME StreamInv, NEW x \in Seq(Events), Emit(x), listener' = listener
    PROVE  StreamInv'
<1>1. /\ emitted' = emitted \o x /\ ring' = LastOf(ring \o x, Ring)
      /\ pending' = [r \in Listeners |->
                        IF r \in Listening THEN pending[r] \o x ELSE pending[r]]
  BY DEF Emit, Broadcast
<1>2. emitted \in Seq(Events) /\ emitted' \in Seq(Events) /\ Len(emitted) <= Len(emitted')
  BY <1>1 DEF StreamInv
<1>3. ring' = LastOf(emitted', Ring)
  BY <1>1, <1>2, Bounds, LastOfMore DEF StreamInv
<1>4. pending' \in [Listeners -> Queued]
  <2>1. ASSUME NEW r \in Listeners PROVE pending'[r] \in Queued
    <3>1. pending[r] \in Queued
      BY DEF StreamInv
    <3>2. QED
      BY <1>1, <3>1, QueuedKeep
  <2>2. QED
    BY <1>1, <2>1
<1>5. ASSUME NEW r \in Listeners PROVE Served(listener[r], pending'[r], emitted')
  <2> DEFINE l == listener[r]
             p == pending[r]
  <2>1. l \in Places /\ p \in Queued /\ Served(l, p, emitted)
    BY DEF StreamInv
  <2>2. pending'[r] = IF l.st \in {"replay", "live"} THEN p \o x ELSE p
    BY <1>1 DEF Listening
  <2> HIDE DEF l, p
  <2>3. l.from \in Nat /\ l.from <= Len(emitted')
    <3>1. l.from \in Nat /\ l.from <= Len(emitted)
      BY <2>1 DEF Places, Served
    <3>2. QED
      BY <1>2, <3>1
  <2>4. CASE l.st \in {"replay", "live"}
    <3>1. Whole(l, p, emitted) /\ l.from <= Len(emitted)
      BY <2>1, <2>4 DEF Served
    <3>2. Whole(l, p \o x, emitted \o x)
      BY <1>2, <2>1, <3>1, WholeMore
    <3>3. QED
      BY <1>1, <2>1, <2>2, <2>3, <2>4, <3>2 DEF Served, l
  <2>5. CASE l.st \notin {"replay", "live"}
    BY <2>1, <2>2, <2>3, <2>5 DEF Served, l
  <2>6. QED
    BY <2>4, <2>5
<1>6. QED
  BY <1>2, <1>3, <1>4, <1>5 DEF StreamInv

LEMMA BeatsStream ==
    ASSUME StreamInv, Broadcast(<<Beat>>), UNCHANGED <<emitted, ring, listener>>
    PROVE  StreamInv'
<1> DEFINE b == <<Beat>>
<1>1. pending' = [r \in Listeners |-> IF r \in Listening THEN pending[r] \o b ELSE pending[r]]
  BY DEF Broadcast
<1>2. \A p \in Queued : p \o b \in Queued /\ Keep(p \o b, Events) = Keep(p, Events)
  BY QueuedKeep
<1> HIDE DEF b
<1>3. pending' \in [Listeners -> Queued]
  BY <1>1, <1>2 DEF StreamInv
<1>4. ASSUME NEW r \in Listeners PROVE Served(listener[r], pending'[r], emitted)
  <2>1. pending[r] \in Queued /\ Served(listener[r], pending[r], emitted)
    BY DEF StreamInv
  <2>2. QED
    BY <1>1, <1>2, <2>1 DEF Served, Whole, Listening
<1>5. QED
  BY <1>3, <1>4 DEF StreamInv

\* A step of one listener.
LEMMA MovesStream ==
    ASSUME StreamInv, NEW r \in Listeners, NEW l \in Places, NEW p \in Queued,
           Served(l, p, emitted), UNCHANGED <<emitted, ring>>,
           listener' = [listener EXCEPT ![r] = l], pending' = [pending EXCEPT ![r] = p]
    PROVE  StreamInv'
<1>1. listener' \in [Listeners -> Places] /\ pending' \in [Listeners -> Queued]
  BY DEF StreamInv
<1>2. ASSUME NEW t \in Listeners PROVE Served(listener'[t], pending'[t], emitted)
  <2>1. CASE t = r
    BY <2>1 DEF StreamInv
  <2>2. CASE t # r
    BY <2>2 DEF StreamInv
  <2>3. QED
    BY <2>1, <2>2
<1>3. QED
  BY <1>1, <1>2 DEF StreamInv

LEMMA SubscribeStream ==
    ASSUME StreamInv, NEW r \in Listeners, Subscribe(r)
    PROVE  StreamInv'
<1> DEFINE q == LastOf(ring, Replayed)
           l == [st |-> "replay", replay |-> q, sent |-> <<>>, from |-> Len(emitted) - Len(q)]
<1>1. /\ q \in Seq(Events) /\ Len(q) <= Len(emitted)
      /\ q = SubSeq(emitted, Len(emitted) - Len(q) + 1, Len(emitted))
  BY Bounds, LastOfLast DEF StreamInv
<1>2. /\ listener' = [listener EXCEPT ![r] = l] /\ listener[r].st = "away"
      /\ UNCHANGED <<emitted, ring, pending>>
  BY DEF Subscribe
<1> HIDE DEF q
<1>3. Len(q) \in Nat /\ Len(emitted) \in Nat
  BY <1>1 DEF StreamInv
<1>4. l \in Places
  BY <1>1, <1>3 DEF Places
<1>5. pending[r] = <<>> /\ pending[r] \in Queued /\ pending' = [pending EXCEPT ![r] = pending[r]]
  BY <1>2 DEF StreamInv, Served
<1>6. Whole(l, <<>>, emitted)
  <2>1. Keep(<<>>, Events) = <<>> /\ (<<>> \o q) \o <<>> = q
    BY <1>1, KeepEmpty
  <2>2. l.sent = <<>> /\ l.replay = q /\ l.from + 1 = Len(emitted) - Len(q) + 1
    OBVIOUS
  <2>3. QED
    BY <1>1, <2>1, <2>2 DEF Whole
<1>7. Served(l, <<>>, emitted)
  BY <1>1, <1>3, <1>6 DEF Served
<1> HIDE DEF l
<1>8. QED
  BY <1>2, <1>4, <1>5, <1>7, MovesStream

SentTo(l, a) == [l EXCEPT !.sent = a]
MovedTo(l, a, b) == [l EXCEPT !.sent = a, !.replay = b]

LEMMA PlaceOf ==
    ASSUME NEW l \in Places, NEW a \in Seq(Events), NEW b \in Seq(Events)
    PROVE  /\ SentTo(l, a) \in Places /\ SentTo(l, a).st = l.st /\ SentTo(l, a).from = l.from
           /\ SentTo(l, a).sent = a /\ SentTo(l, a).replay = l.replay
           /\ MovedTo(l, a, b) \in Places /\ MovedTo(l, a, b).st = l.st
           /\ MovedTo(l, a, b).from = l.from /\ MovedTo(l, a, b).sent = a
           /\ MovedTo(l, a, b).replay = b
BY DEF Places, SentTo, MovedTo

\* The first member of u moved to the end of s.
LEMMA Shift ==
    ASSUME NEW T, NEW s \in Seq(T), NEW u \in Seq(T), u # <<>>
    PROVE  /\ Head(u) \in T /\ Tail(u) \in Seq(T) /\ Append(s, Head(u)) \in Seq(T)
           /\ Append(s, Head(u)) \o Tail(u) = s \o u
<1> DEFINE h == <<Head(u)>>
           t == Tail(u)
<1>1. Head(u) \in T /\ h \in Seq(T) /\ t \in Seq(T) /\ Append(s, Head(u)) = s \o h /\ u = h \o t
  OBVIOUS
<1>2. Append(s, Head(u)) \in Seq(T)
  BY <1>1
<1> HIDE DEF h, t
<1>3. (s \o h) \o t = s \o (h \o t)
  BY <1>1, ConcatAssociative
<1>4. QED
  BY <1>1, <1>2, <1>3 DEF t

LEMMA ReplayStream ==
    ASSUME StreamInv, NEW r \in Listeners, Replay(r)
    PROVE  StreamInv'
<1> DEFINE l == listener[r]
           a == Append(l.sent, Head(l.replay))
           n == IF l.replay = <<>> THEN [l EXCEPT !.st = "live"] ELSE MovedTo(l, a, Tail(l.replay))
<1>1. l.st = "replay" /\ UNCHANGED <<emitted, ring, pending>>
  BY DEF Replay
<1>2. l \in Places /\ pending[r] \in Queued /\ Served(l, pending[r], emitted)
  BY DEF StreamInv
<1>3. /\ pending' = [pending EXCEPT ![r] = pending[r]]
      /\ listener' = [listener EXCEPT ![r] = n]
  BY <1>1 DEF StreamInv, Replay, MovedTo
<1> HIDE DEF l
<1>4. /\ n \in Places /\ n.from = l.from /\ (n.st = "live" => n.replay = <<>>)
      /\ n.st \in {"replay", "live"} /\ n.sent \o n.replay = l.sent \o l.replay
  <2>1. l.sent \in Seq(Events) /\ l.replay \in Seq(Events)
    BY <1>2 DEF Places
  <2>2. CASE l.replay = <<>>
    BY <1>2, <2>2 DEF Places
  <2>3. CASE l.replay # <<>>
    <3> DEFINE s == l.sent
               u == l.replay
               b == Tail(u)
    <3>1. s \in Seq(Events) /\ u \in Seq(Events) /\ u # <<>>
      BY <2>1, <2>3
    <3> HIDE DEF s, u
    <3>2. /\ b \in Seq(Events) /\ Append(s, Head(u)) \in Seq(Events)
          /\ Append(s, Head(u)) \o b = s \o u
      BY <3>1, Shift
    <3>3. a = Append(s, Head(u)) /\ n = MovedTo(l, a, b)
      BY <2>3 DEF s, u
    <3> HIDE DEF a, b, n
    <3>4. n \in Places /\ n.from = l.from /\ n.st = "replay" /\ n.sent = a /\ n.replay = b
      <4>1. a \in Seq(Events) /\ b \in Seq(Events)
        BY <3>2, <3>3
      <4>2. LET m == MovedTo(l, a, b)
            IN  m \in Places /\ m.st = l.st /\ m.from = l.from /\ m.sent = a /\ m.replay = b
        BY <1>2, <4>1, PlaceOf
      <4>3. QED
        BY <1>1, <3>3, <4>2
    <3>5. QED
      BY <3>2, <3>3, <3>4 DEF s, u
  <2>4. QED
    BY <2>2, <2>3
<1> HIDE DEF n
<1>5. Served(n, pending[r], emitted)
  BY <1>1, <1>2, <1>4 DEF Served, Whole
<1>6. QED
  BY <1>1, <1>2, <1>3, <1>4, <1>5, MovesStream

LEMMA TakeStream ==
    ASSUME StreamInv, NEW r \in Listeners, Take(r)
    PROVE  StreamInv'
<1> DEFINE l == listener[r]
           p == pending[r]
           n == [l EXCEPT !.sent = IF Head(p) = Beat THEN @ ELSE Append(@, Head(p))]
<1>1. /\ l \in Places /\ l.st = "live" /\ Served(l, p, emitted) /\ p \in Queued /\ p # <<>>
      /\ pending' = [pending EXCEPT ![r] = Tail(p)]
      /\ listener' = [listener EXCEPT ![r] = n] /\ UNCHANGED <<emitted, ring>>
  BY DEF StreamInv, Take
<1> HIDE DEF l, p
<1>2. /\ Head(p) \in Events \cup {Beat} /\ Tail(p) \in Queued /\ Beat \notin Events
      /\ Keep(Tail(p), Events) \in Seq(Events)
      /\ Keep(p, Events) = IF Head(p) = Beat THEN Keep(Tail(p), Events)
                           ELSE <<Head(p)>> \o Keep(Tail(p), Events)
  BY <1>1, QueuedTail, QueuedKeep, EventsAre
<1>3. /\ l.sent \in Seq(Events) /\ l.replay = <<>> /\ l.from <= Len(emitted)
      /\ l.sent \o <<>> \o Keep(p, Events) = SubSeq(emitted, l.from + 1, Len(emitted))
  BY <1>1 DEF Places, Served, Whole
<1>4. /\ n \in Places /\ n.st = "live" /\ n.from = l.from /\ n.replay = <<>>
      /\ n.sent = IF Head(p) = Beat THEN l.sent ELSE Append(l.sent, Head(p))
  <2> DEFINE a == IF Head(p) = Beat THEN l.sent ELSE Append(l.sent, Head(p))
  <2>1. a \in Seq(Events) /\ n = SentTo(l, a)
    BY <1>2, <1>3 DEF SentTo
  <2> HIDE DEF a, n
  <2>2. n \in Places /\ n.st = "live" /\ n.from = l.from /\ n.replay = <<>> /\ n.sent = a
    BY <1>1, <1>3, <2>1, PlaceOf
  <2>3. QED
    BY <2>2 DEF a
<1> HIDE DEF n
<1>5. n.sent \o <<>> \o Keep(Tail(p), Events) = l.sent \o <<>> \o Keep(p, Events)
  <2> DEFINE k == Keep(Tail(p), Events)
  <2>1. CASE Head(p) = Beat
    BY <1>2, <1>4, <2>1
  <2>2. CASE Head(p) # Beat
    <3>1. Head(p) \in Events /\ n.sent = Append(l.sent, Head(p)) /\ Keep(p, Events) = <<Head(p)>> \o k
      BY <1>2, <1>4, <2>2
    <3>2. k \in Seq(Events)
      BY <1>2
    <3> HIDE DEF k
    <3>3. Append(l.sent, Head(p)) \o <<>> \o k = l.sent \o <<>> \o (<<Head(p)>> \o k)
      <4>1. Append(l.sent, Head(p)) \o k = l.sent \o (<<Head(p)>> \o k)
        <5> DEFINE s == l.sent
                   x == Head(p)
                   h == <<x>>
        <5>1. s \in Seq(Events) /\ x \in Events
          BY <1>3, <3>1
        <5> HIDE DEF s, x
        <5>2. Append(s, x) = s \o h /\ h \in Seq(Events)
          BY <5>1
        <5> HIDE DEF h
        <5>3. (s \o h) \o k = s \o (h \o k)
          BY <3>2, <5>1, <5>2, ConcatAssociative
        <5>4. QED
          BY <5>2, <5>3 DEF h, s, x
      <4>2. /\ Append(l.sent, Head(p)) \o <<>> = Append(l.sent, Head(p))
            /\ l.sent \o <<>> = l.sent
        BY <1>3, <3>1
      <4>3. QED
        BY <4>1, <4>2
    <3>4. QED
      BY <3>1, <3>3 DEF k
  <2>3. QED
    BY <2>1, <2>2
<1>6. Served(n, Tail(p), emitted)
  BY <1>3, <1>4, <1>5 DEF Served, Whole
<1>7. QED
  BY <1>1, <1>2, <1>4, <1>6, MovesStream

LEMMA UnsubscribeStream ==
    ASSUME StreamInv, NEW r \in Listeners, Unsubscribe(r)
    PROVE  StreamInv'
<1> DEFINE n == [st |-> "gone", replay |-> <<>>, sent |-> <<>>, from |-> 0]
<1>1. /\ pending' = [pending EXCEPT ![r] = <<>>] /\ <<>> \in Queued
      /\ listener' = [listener EXCEPT ![r] = n] /\ UNCHANGED <<emitted, ring>>
  BY DEF Unsubscribe, Queued
<1>2. n \in Places
  BY DEF Places
<1>3. Served(n, <<>>, emitted)
  BY DEF Served, StreamInv
<1> HIDE DEF n
<1>4. QED
  BY <1>1, <1>2, <1>3, MovesStream

-----------------------------------------------------------------------------
(* The purchases of a window. *)

Purchases == [at : Nat, amount : Nat, n : Nat]
AmountOf(S) == MapThenSumSet(LAMBDA y : y.amount, S)

LEMMA AmountIs ==
    ASSUME NEW S, IsFiniteSet(S), \A x \in S : x.amount \in Nat
    PROVE  AmountOf(S) = SumOver([x \in S |-> x.amount], S)
<1> DEFINE w == [x \in S |-> x.amount]
           Sums(g) == g = [s \in SUBSET S |-> IF s = {} THEN 0
                             ELSE (CHOOSE x \in s : TRUE).amount + g[s \ {CHOOSE x \in s : TRUE}]]
           iter == CHOOSE g : Sums(g)
<1>1. AmountOf(S) = iter[S]
  BY DEF AmountOf, MapThenSumSet, MapThenFoldSet
<1>2. \A x \in S : w[x] = x.amount /\ w[x] \in Int
  OBVIOUS
<1> HIDE DEF w
<1>3. PICK g : IsSum(g, w, S)
  BY <1>2, SumExists
<1>4. ASSUME NEW s \in SUBSET S
      PROVE  SumStep(g, w, s) = IF s = {} THEN 0 ELSE Pick(s).amount + g[s \ {Pick(s)}]
  BY <1>2, PickIn DEF SumStep
<1>5. Sums(g)
  BY <1>3, <1>4 DEF IsSum, Pick
<1>6. Sums(iter)
  BY <1>5
<1> HIDE DEF iter
<1>7. ASSUME NEW s \in SUBSET S
      PROVE  SumStep(iter, w, s) = IF s = {} THEN 0 ELSE Pick(s).amount + iter[s \ {Pick(s)}]
  BY <1>2, PickIn DEF SumStep
<1>8. IsSum(iter, w, S)
  BY <1>6, <1>7 DEF IsSum, Pick
<1>9. SumOver(w, S) = iter[S]
  BY <1>2, <1>8, SumIs
<1>10. QED
  BY <1>1, <1>9 DEF w

LEMMA AmountAdd ==
    ASSUME NEW S, IsFiniteSet(S), NEW x, x \notin S, \A y \in S \cup {x} : y.amount \in Nat
    PROVE  AmountOf(S \cup {x}) = x.amount + AmountOf(S)
<1> DEFINE R == S \cup {x}
           w == [y \in R |-> y.amount]
           v == [y \in S |-> y.amount]
<1>1. IsFiniteSet(R) /\ (\A y \in R : y.amount \in Nat) /\ (\A y \in S : y.amount \in Nat)
  BY FS_AddElement
<1>2. AmountOf(R) = SumOver(w, R) /\ AmountOf(S) = SumOver(v, S)
  <2> HIDE DEF R
  <2>1. QED
    BY <1>1, AmountIs
<1>3. (\A y \in R : w[y] = y.amount /\ w[y] \in Int) /\ \A y \in S : w[y] = v[y] /\ w[y] \in Int
  BY <1>1
<1> HIDE DEF w, v
<1>4. SumOver(w, R) = w[x] + SumOver(w, S)
  BY <1>3, SumAdd
<1>5. SumOver(w, S) = SumOver(v, S)
  BY <1>3, SumSame
<1>6. QED
  BY <1>2, <1>3, <1>4, <1>5

LEMMA AmountOfNone == AmountOf({}) = 0
<1> DEFINE w == [x \in {} |-> x.amount]
<1>1. IsFiniteSet({}) /\ \A x \in {} : x.amount \in Nat
  BY FS_EmptySet
<1>2. AmountOf({}) = SumOver(w, {})
  BY <1>1, AmountIs
<1> HIDE DEF w
<1>3. SumOver(w, {}) = 0
  <2>1. \A x \in {} : w[x] \in Int
    OBVIOUS
  <2>2. QED
    BY <1>1, <2>1, SumRec
<1>4. QED
  BY <1>2, <1>3

\* SumOf is the sum over the places of the sequence.
LEMMA SumOfIs ==
    ASSUME NEW s \in Seq(Spends)
    PROVE  SumOf(s) = SumOver([i \in 1 .. Len(s) |-> s[i].amount], 1 .. Len(s))
<1> DEFINE S == DOMAIN s
           w == [i \in 1 .. Len(s) |-> s[i].amount]
           Sums(g) == g = [u \in SUBSET S |-> IF u = {} THEN 0
                             ELSE s[CHOOSE x \in u : TRUE].amount + g[u \ {CHOOSE x \in u : TRUE}]]
           iter == CHOOSE g : Sums(g)
<1>1. SumOf(s) = iter[S]
  BY DEF SumOf, FoldSeq, FoldFunction, FoldFunctionOnSet, MapThenFoldSet
<1>2. S = 1 .. Len(s) /\ IsFiniteSet(S) /\ \A i \in S : w[i] = s[i].amount /\ w[i] \in Int
  <2>1. S = 1 .. Len(s) /\ Len(s) \in Nat /\ \A i \in S : s[i] \in Spends
    OBVIOUS
  <2>2. IsFiniteSet(1 .. Len(s))
    BY <2>1, FS_Interval
  <2>3. QED
    BY <2>1, <2>2 DEF Spends
<1> HIDE DEF w, S
<1>3. PICK g : IsSum(g, w, S)
  BY <1>2, SumExists
<1>4. ASSUME NEW u \in SUBSET S
      PROVE  SumStep(g, w, u) = IF u = {} THEN 0 ELSE s[Pick(u)].amount + g[u \ {Pick(u)}]
  BY <1>2, PickIn DEF SumStep
<1>5. Sums(g)
  BY <1>3, <1>4 DEF IsSum, Pick
<1>6. Sums(iter)
  BY <1>5
<1> HIDE DEF iter
<1>7. ASSUME NEW u \in SUBSET S
      PROVE  SumStep(iter, w, u) = IF u = {} THEN 0 ELSE s[Pick(u)].amount + iter[u \ {Pick(u)}]
  BY <1>2, PickIn DEF SumStep
<1>8. IsSum(iter, w, S)
  BY <1>6, <1>7 DEF IsSum, Pick
<1>9. SumOver(w, S) = iter[S]
  <2>1. IsFiniteSet(S) /\ \A i \in S : w[i] \in Int
    BY <1>2
  <2>2. \A u \in SUBSET S : SumOver(w, u) = iter[u]
    BY <2>1, <1>8, SumIs
  <2>3. QED
    BY <2>2
<1>10. QED
  BY <1>1, <1>2, <1>9 DEF w

LEMMA SumOfAppend ==
    ASSUME NEW s \in Seq(Spends), NEW e \in Spends
    PROVE  SumOf(s) \in Nat /\ SumOf(Append(s, e)) = e.amount + SumOf(s)
<1> DEFINE n == Len(s)
           t == Append(s, e)
           S == 1 .. n
           w == [i \in 1 .. Len(t) |-> t[i].amount]
           v == [i \in 1 .. n |-> s[i].amount]
<1>1. /\ n \in Nat /\ t \in Seq(Spends) /\ Len(t) = n + 1 /\ t[n + 1] = e
      /\ \A i \in S : t[i] = s[i] /\ s[i] \in Spends
  OBVIOUS
<1> HIDE DEF t
<1>2. /\ \A i \in S : w[i] = v[i] /\ w[i] \in Int /\ v[i] \in Nat
      /\ w[n + 1] = e.amount /\ e.amount \in Int
  BY <1>1 DEF Spends
<1>3. 1 .. Len(t) = S \cup {n + 1} /\ n + 1 \notin S /\ IsFiniteSet(S)
  <2>1. IsFiniteSet(1 .. n)
    BY <1>1, FS_Interval
  <2>2. QED
    BY <1>1, <2>1
<1>4. SumOf(t) = SumOver(w, 1 .. Len(t)) /\ SumOf(s) = SumOver(v, S)
  BY <1>1, SumOfIs
<1> HIDE DEF w, v, S, n
<1>5. SumOver(w, S \cup {n + 1}) = w[n + 1] + SumOver(w, S)
  BY <1>2, <1>3, SumAdd
<1>6. SumOver(w, S) = SumOver(v, S)
  BY <1>2, <1>3, SumSame
<1>7. SumOver(v, S) \in Nat
  <2>1. Nat \in {Nat, Int}
    OBVIOUS
  <2>2. QED
    BY <1>2, <1>3, <2>1, SumType
<1>8. QED
  BY <1>2, <1>3, <1>4, <1>5, <1>6, <1>7 DEF t

LEMMA SumOfNone == SumOf(<<>>) = 0
<1> DEFINE w == [i \in 1 .. Len(<<>>) |-> <<>>[i].amount]
<1>1. <<>> \in Seq(Spends) /\ 1 .. Len(<<>>) = {}
  OBVIOUS
<1>2. SumOf(<<>>) = SumOver(w, {})
  BY <1>1, SumOfIs
<1> HIDE DEF w
<1>3. SumOver(w, {}) = 0
  <2>1. IsFiniteSet({}) /\ \A x \in {} : w[x] \in Int
    BY FS_EmptySet
  <2>2. QED
    BY <2>1, SumRec
<1>4. QED
  BY <1>2, <1>3

-----------------------------------------------------------------------------
(* The alerts are complete. *)

Since(c) == {e \in Spends : e.at >= c}
Window(x) == {y \in spent : y.at >= x.at - SpendWindow /\ y.n <= x.n}
Bought(c) == {y \in spent : y.at >= c}
LevelAlerts == {e \in Events : e.kind = "level"}
Chain == Keep(emitted, LevelAlerts)

\* The spends that are kept add up to the purchases of every window from now on.
SpendsInv ==
    /\ opsNow \in Nat /\ spends \in Seq(Spends)
    /\ IsFiniteSet(spent) /\ spent \subseteq Purchases
    /\ \A x \in spent : x.at <= opsNow /\ x.n < Cardinality(spent)
    /\ \A c \in Int : c >= opsNow - SpendWindow =>
           SumOf(Keep(spends, Since(c))) = AmountOf(Bought(c))

Alerted(x, e) ==
    AmountOf(Window(x)) > SpendLimit =>
        \E i \in 1 .. Len(e) :
            e[i] = [kind |-> "burst", sum |-> AmountOf(Window(x)), at |-> x.at]

ChainInv ==
    /\ level \in LevelNames /\ Chain \in Seq(LevelAlerts)
    /\ \A i \in 1 .. Len(Chain) :
           Chain[i].previous = IF i = 1 THEN Levels[1] ELSE Chain[i - 1].status
    /\ level = IF Chain = <<>> THEN Levels[1] ELSE Last(Chain).status

OpsInv == StreamInv /\ SpendsInv /\ ChainInv /\ \A x \in spent : Alerted(x, emitted)

LEMMA AlertsAre == OpsInv => AlertsAreComplete
<1> SUFFICES ASSUME OpsInv PROVE AlertsAreComplete
  OBVIOUS
<1>1. ASSUME NEW x \in spent
      PROVE  LET window == {y \in spent : y.at >= x.at - SpendWindow /\ y.n <= x.n}
                 sum == MapThenSumSet(LAMBDA y : y.amount, window)
             IN  sum > SpendLimit =>
                     \E i \in 1 .. Len(emitted) :
                         emitted[i] = [kind |-> "burst", sum |-> sum, at |-> x.at]
  BY DEF OpsInv, Alerted, AmountOf, Window
<1>2. Keep(emitted, {e \in ToSet(emitted) : e.kind = "level"}) = Chain
  <2>1. emitted \in Seq(Events)
    BY DEF OpsInv, StreamInv
  <2> DEFINE K == {e \in ToSet(emitted) : e.kind = "level"}
  <2>2. ASSUME NEW i \in 1 .. Len(emitted) PROVE emitted[i] \in K <=> emitted[i] \in LevelAlerts
    <3>1. emitted[i] \in Events /\ emitted[i] \in ToSet(emitted)
      BY <2>1 DEF ToSet
    <3>2. QED
      BY <3>1 DEF LevelAlerts
  <2> HIDE DEF K
  <2>3. Keep(emitted, K) = Keep(emitted, LevelAlerts)
    BY <2>1, <2>2, KeepSame
  <2>4. QED
    BY <2>3 DEF K, Chain
<1>3. QED
  BY <1>1, <1>2 DEF AlertsAreComplete, OpsInv, ChainInv

LEMMA RecentIs ==
    ASSUME NEW s \in Seq(Spends)
    PROVE  Recent(s) = Keep(s, Since(opsNow - SpendWindow)) /\ Recent(s) \in Seq(Spends)
<1> DEFINE K == {e \in ToSet(s) : e.at >= opsNow - SpendWindow}
           c == opsNow - SpendWindow
<1>1. ASSUME NEW i \in 1 .. Len(s) PROVE s[i] \in K <=> s[i] \in Since(c)
  <2>1. s[i] \in Spends /\ s[i] \in ToSet(s)
    BY DEF ToSet
  <2>2. QED
    BY <2>1 DEF Since
<1>2. Recent(s) = Keep(s, K)
  BY DEF Recent
<1> HIDE DEF K, c
<1>3. Keep(s, K) = Keep(s, Since(c))
  BY <1>1, KeepSame
<1>4. Keep(s, K) \in Seq(Spends)
  BY KeepType
<1>5. QED
  BY <1>2, <1>3, <1>4 DEF c

\* What is kept after a purchase of the amount a adds up, for every window from now on.
LEMMA PurchaseSpends ==
    ASSUME SpendsInv, NEW a \in Nat,
           spends' = Recent(Append(spends, [at |-> opsNow, amount |-> a])),
           spent' = spent \cup {[at |-> opsNow, amount |-> a, n |-> Cardinality(spent)]},
           opsNow' = opsNow
    PROVE  /\ SpendsInv'
           /\ SumOf(spends') = AmountOf({y \in spent' : y.at >= opsNow - SpendWindow})
           /\ SumOf(spends') \in Nat
<1> DEFINE new == [at |-> opsNow, amount |-> a]
           x == [at |-> opsNow, amount |-> a, n |-> Cardinality(spent)]
           s == Append(spends, new)
           c0 == opsNow - SpendWindow
<1>1. /\ opsNow \in Nat /\ spends \in Seq(Spends) /\ IsFiniteSet(spent) /\ spent \subseteq Purchases
      /\ \A y \in spent : y.at <= opsNow /\ y.n < Cardinality(spent)
      /\ Cardinality(spent) \in Nat /\ SpendWindow \in Nat
  BY Bounds, FS_CardinalityType DEF SpendsInv
<1>2. /\ new \in Spends /\ x \in Purchases /\ x \notin spent /\ x.amount = a /\ x.at = opsNow
      /\ x.n = Cardinality(spent) /\ new.at = opsNow /\ new.amount = a
  <2>1. new \in Spends /\ x \in Purchases
    BY <1>1 DEF Spends, Purchases
  <2>2. x.n = Cardinality(spent) /\ ~(Cardinality(spent) < Cardinality(spent))
    BY <1>1
  <2>3. QED
    BY <1>1, <2>1, <2>2
<1> HIDE DEF new, x
<1>3. s \in Seq(Spends) /\ spent' = spent \cup {x}
  BY <1>1, <1>2 DEF x
<1>4. spends' = Keep(s, Since(c0)) /\ spends' \in Seq(Spends)
  BY <1>3, RecentIs DEF new
<1>5. c0 \in Int /\ c0 <= opsNow
  BY <1>1
<1> HIDE DEF c0, s
<1>6. ASSUME NEW c \in Int, c >= c0
      PROVE  SumOf(Keep(spends', Since(c))) = AmountOf({y \in spent' : y.at >= c})
  <2> DEFINE k == Keep(spends, Since(c))
             B == Bought(c)
  <2>1. Keep(spends', Since(c)) = Keep(s, Since(c))
    <3>1. \A e \in Spends : e \in Since(c) <=> (e \in Since(c0) /\ e \in Since(c))
      BY <1>5, <1>6 DEF Since, Spends
    <3>2. Keep(Keep(s, Since(c0)), Since(c)) = Keep(s, Since(c))
      BY <1>3, <3>1, KeepKeep
    <3>3. QED
      BY <1>4, <3>2
  <2>2. Keep(s, Since(c)) = IF new \in Since(c) THEN Append(k, new) ELSE k
    BY <1>1, <1>2, KeepAppend DEF s
  <2>3. SumOf(k) = AmountOf(B)
    BY <1>6 DEF SpendsInv, c0
  <2>4. k \in Seq(Spends)
    BY <1>1, KeepType
  <2>5. B \subseteq spent /\ IsFiniteSet(B) /\ x \notin B /\ \A y \in B \cup {x} : y.amount \in Nat
    BY <1>1, <1>2, FS_Subset DEF Bought, Purchases
  <2>6. CASE opsNow >= c
    <3>1. new \in Since(c) /\ {y \in spent' : y.at >= c} = B \cup {x}
      BY <1>2, <1>3, <2>6 DEF Since, Bought
    <3>2. SumOf(Append(k, new)) = a + SumOf(k)
      BY <1>2, <2>4, SumOfAppend
    <3>3. AmountOf(B \cup {x}) = a + AmountOf(B)
      <4> HIDE DEF B
      <4>1. QED
        BY <1>2, <2>5, AmountAdd
    <3>4. QED
      BY <2>1, <2>2, <2>3, <3>1, <3>2, <3>3
  <2>7. CASE ~(opsNow >= c)
    <3>1. new \notin Since(c) /\ {y \in spent' : y.at >= c} = B
      BY <1>2, <1>3, <2>7 DEF Since, Bought
    <3>2. QED
      BY <2>1, <2>2, <2>3, <3>1
  <2>8. QED
    BY <2>6, <2>7
<1>7. IsFiniteSet(spent') /\ spent' \subseteq Purchases /\ Cardinality(spent') = Cardinality(spent) + 1
  <2>1. IsFiniteSet(spent \cup {x}) /\ Cardinality(spent \cup {x}) = Cardinality(spent) + 1
    BY <1>1, <1>2, FS_AddElement
  <2>2. spent \cup {x} \subseteq Purchases
    BY <1>1, <1>2
  <2>3. QED
    BY <1>3, <2>1, <2>2
<1>8. \A y \in spent' : y.at <= opsNow' /\ y.n < Cardinality(spent')
  BY <1>1, <1>2, <1>3, <1>7 DEF Purchases
<1>9. SpendsInv'
  BY <1>1, <1>4, <1>6, <1>7, <1>8 DEF SpendsInv, Bought, c0
<1>10. SumOf(spends') = AmountOf({y \in spent' : y.at >= c0})
  <2>1. Keep(spends', Since(c0)) = spends'
    <3>1. \A e \in Spends : e \in Since(c0) <=> (e \in Since(c0) /\ e \in Since(c0))
      OBVIOUS
    <3>2. Keep(Keep(s, Since(c0)), Since(c0)) = Keep(s, Since(c0))
      BY <1>3, <3>1, KeepKeep
    <3>3. QED
      BY <1>4, <3>2
  <2>2. c0 >= c0
    BY <1>5
  <2>3. QED
    BY <1>5, <1>6, <2>1, <2>2
<1>11. SumOf(spends') \in Nat
  BY <1>2, <1>4, SumOfAppend
<1>12. QED
  BY <1>9, <1>10, <1>11 DEF c0

\* Events that are about no level leave the chain as it is.
LEMMA QuietChain ==
    ASSUME ChainInv, emitted \in Seq(Events), NEW x \in Seq(Events),
           Keep(x, LevelAlerts) = <<>>, emitted' = emitted \o x, level' = level
    PROVE  ChainInv'
<1>1. \A u \in Seq(Events) :
          Keep(emitted \o u, LevelAlerts) = Keep(emitted, LevelAlerts) \o Keep(u, LevelAlerts)
  BY KeepConcat
<1>2. Keep(emitted, LevelAlerts) \in Seq(LevelAlerts)
  BY DEF ChainInv, Chain
<1>3. Chain' = Chain
  <2>1. Keep(emitted, LevelAlerts) \o <<>> = Keep(emitted, LevelAlerts)
    BY <1>2
  <2>2. Keep(emitted \o x, LevelAlerts) = Keep(emitted, LevelAlerts)
    BY <1>1, <2>1
  <2>3. QED
    BY <2>2 DEF Chain
<1>4. QED
  BY <1>3 DEF ChainInv

LEMMA LevelChain ==
    ASSUME ChainInv, emitted \in Seq(Events), NEW now \in LevelNames,
           emitted' = emitted \o <<LevelAlert(level, now)>>, level' = now
    PROVE  ChainInv'
<1> DEFINE a == LevelAlert(level, now)
           x == <<a>>
           n == Len(Chain)
<1>1. a \in Events /\ a \in LevelAlerts /\ a.previous = level /\ a.status = now
  <2>1. a \in Events
    BY EventsAre DEF ChainInv
  <2>2. a.kind = "level" /\ a.previous = level /\ a.status = now
    BY DEF LevelAlert
  <2>3. QED
    BY <2>1, <2>2 DEF LevelAlerts
<1> HIDE DEF a
<1>2. x \in Seq(Events) /\ Keep(x, LevelAlerts) = x
  BY <1>1, KeepOne
<1>3. \A u \in Seq(Events) :
          Keep(emitted \o u, LevelAlerts) = Keep(emitted, LevelAlerts) \o Keep(u, LevelAlerts)
  BY KeepConcat
<1>4. Chain \in Seq(LevelAlerts) /\ n \in Nat
  BY DEF ChainInv
<1>5. Chain' = Append(Chain, a)
  <2>1. Chain' = Chain \o x
    BY <1>2, <1>3 DEF Chain, a
  <2>2. QED
    BY <1>1, <1>4, <2>1
<1> DEFINE c == Append(Chain, a)
<1>6. /\ c \in Seq(LevelAlerts) /\ Len(c) = n + 1 /\ c[n + 1] = a
      /\ \A i \in 1 .. n : c[i] = Chain[i]
  BY <1>1, <1>4
<1>7. Chain' = c
  BY <1>5
<1> HIDE DEF c
<1>8. ASSUME NEW i \in 1 .. Len(c)
      PROVE  c[i].previous = IF i = 1 THEN Levels[1] ELSE c[i - 1].status
  <2>1. CASE i \in 1 .. n
    <3>1. i # 1 => i - 1 \in 1 .. n
      BY <1>4, <2>1
    <3>2. QED
      BY <1>6, <2>1, <3>1 DEF ChainInv
  <2>2. CASE i = n + 1
    <3>1. c[i].previous = level
      BY <1>1, <1>6, <2>2
    <3>2. CASE n = 0
      <4>1. Chain = <<>>
        BY <1>4, <3>2
      <4>2. QED
        BY <2>2, <3>1, <3>2, <4>1 DEF ChainInv
    <3>3. CASE n # 0
      <4>1. Chain # <<>> /\ i # 1 /\ i - 1 = n /\ n \in 1 .. n
        BY <1>4, <2>2, <3>3
      <4>2. level = Chain[n].status
        BY <4>1 DEF ChainInv, Last
      <4>3. QED
        BY <1>6, <3>1, <4>1, <4>2
    <3>4. QED
      BY <3>2, <3>3
  <2>3. QED
    BY <1>4, <1>6, <2>1, <2>2
<1>9. level' = IF c = <<>> THEN Levels[1] ELSE Last(c).status
  <2>1. c # <<>>
    BY <1>4, <1>6
  <2>2. QED
    BY <1>1, <1>6, <2>1 DEF Last
<1>10. QED
  BY <1>6, <1>7, <1>8, <1>9 DEF ChainInv

\* What was alerted stays alerted.
LEMMA StaysAlerted ==
    ASSUME NEW e \in Seq(Events), NEW x \in Seq(Events), NEW y, Alerted(y, e)
    PROVE  Alerted(y, e \o x)
<1> SUFFICES ASSUME AmountOf(Window(y)) > SpendLimit
             PROVE  \E i \in 1 .. Len(e \o x) : (e \o x)[i] =
                       [kind |-> "burst", sum |-> AmountOf(Window(y)), at |-> y.at]
  BY DEF Alerted
<1>1. PICK i \in 1 .. Len(e) :
           e[i] = [kind |-> "burst", sum |-> AmountOf(Window(y)), at |-> y.at]
  BY DEF Alerted
<1>2. i \in 1 .. Len(e \o x) /\ (e \o x)[i] = e[i]
  BY ConcatProperties
<1>3. QED
  BY <1>1, <1>2

LEMMA LevelAlertsAre ==
    /\ Tool \notin LevelAlerts
    /\ \A n, t : [kind |-> "burst", sum |-> n, at |-> t] \notin LevelAlerts
BY DEF LevelAlerts, Tool

LEMMA ToolStep == ASSUME OpsInv, ToolEvent PROVE OpsInv'
<1> DEFINE x == <<Tool>>
<1>1. /\ Emit(x) /\ emitted' = emitted \o x
      /\ UNCHANGED <<listener, level, spends, spent, opsNow>>
  BY DEF ToolEvent, Emit
<1>2. x \in Seq(Events) /\ Keep(x, LevelAlerts) = <<>>
  BY EventsAre, LevelAlertsAre, KeepOne
<1> HIDE DEF x
<1>3. StreamInv'
  BY <1>1, <1>2, EmitsStream DEF OpsInv
<1>4. ChainInv'
  BY <1>1, <1>2, QuietChain DEF OpsInv, StreamInv
<1>5. SpendsInv'
  BY <1>1 DEF OpsInv, SpendsInv, Bought
<1>6. ASSUME NEW y \in spent' PROVE Alerted(y, emitted)'
  <2>1. Alerted(y, emitted \o x)
    BY <1>1, <1>2, StaysAlerted DEF OpsInv, StreamInv
  <2>2. QED
    BY <1>1, <2>1 DEF Alerted, Window
<1>7. QED
  BY <1>3, <1>4, <1>5, <1>6 DEF OpsInv

LEMMA SampleStep == ASSUME OpsInv, Sample PROVE OpsInv'
<1>1. PICK readings \in [1 .. 3 -> DOMAIN Levels] :
          /\ Emit(<<LevelAlert(level, Worst(readings))>>)
          /\ level' = Worst(readings)
  BY DEF Sample
<1> DEFINE now == Worst(readings)
           x == <<LevelAlert(level, now)>>
<1>2. now \in LevelNames
  <2> DEFINE R == ToSet(readings)
             n == Len(Levels)
  <2>1. Levels \in Seq(STRING)
    BY OpsAssumption
  <2>2. n \in Nat /\ DOMAIN Levels = 1 .. n
    BY <2>1
  <2>3. R \in SUBSET (1 .. n) /\ R # {}
    <3>1. DOMAIN readings = 1 .. 3 /\ \A i \in 1 .. 3 : readings[i] \in 1 .. n
      BY <2>2
    <3>2. 1 \in 1 .. 3
      OBVIOUS
    <3>3. QED
      BY <3>1, <3>2 DEF ToSet
  <2> HIDE DEF R, n
  <2>4. Max(R) \in R
    BY <2>2, <2>3, MaxIn
  <2>5. QED
    BY <2>2, <2>3, <2>4 DEF Worst, LevelNames, R
<1>3. /\ Emit(x) /\ emitted' = emitted \o x /\ level' = now
      /\ UNCHANGED <<listener, spends, spent, opsNow>>
  BY <1>1 DEF Sample, Emit
<1> HIDE DEF now
<1>4. x \in Seq(Events)
  BY <1>2, EventsAre DEF OpsInv, ChainInv
<1>5. ChainInv'
  BY <1>2, <1>3, LevelChain DEF OpsInv, StreamInv
<1> HIDE DEF x
<1>6. StreamInv'
  BY <1>3, <1>4, EmitsStream DEF OpsInv
<1>7. SpendsInv'
  BY <1>3 DEF OpsInv, SpendsInv, Bought
<1>8. ASSUME NEW y \in spent' PROVE Alerted(y, emitted)'
  <2>1. Alerted(y, emitted \o x)
    BY <1>3, <1>4, StaysAlerted DEF OpsInv, StreamInv
  <2>2. QED
    BY <1>3, <2>1 DEF Alerted, Window
<1>9. QED
  BY <1>5, <1>6, <1>7, <1>8 DEF OpsInv

LEMMA SpendStepStep == ASSUME OpsInv, SpendStep PROVE OpsInv'
<1>1. PICK a \in Amounts :
          LET new == [at |-> opsNow, amount |-> a]
              kept == Recent(Append(spends, new))
          IN  /\ Emit(IF SumOf(kept) > SpendLimit THEN <<Tool, SpendAlert(SumOf(kept))>> ELSE <<Tool>>)
              /\ spends' = kept
              /\ spent' = spent \cup {[at |-> opsNow, amount |-> a, n |-> Cardinality(spent)]}
  BY DEF SpendStep
<1> DEFINE b == [kind |-> "burst", sum |-> SumOf(spends'), at |-> opsNow]
           x == IF SumOf(spends') > SpendLimit THEN <<Tool, b>> ELSE <<Tool>>
           new == [at |-> opsNow, amount |-> a, n |-> Cardinality(spent)]
<1>2. UNCHANGED <<listener, level, opsNow>> /\ a \in Nat /\ opsNow \in Nat
  BY OpsAssumption DEF SpendStep, OpsInv, SpendsInv
<1>3. /\ Emit(x) /\ emitted' = emitted \o x
      /\ spends' = Recent(Append(spends, [at |-> opsNow, amount |-> a])) /\ spent' = spent \cup {new}
  BY <1>1 DEF Emit, SpendAlert
<1>4. /\ SpendsInv' /\ SumOf(spends') \in Nat
      /\ SumOf(spends') = AmountOf({y \in spent' : y.at >= opsNow - SpendWindow})
  BY <1>2, <1>3, PurchaseSpends DEF OpsInv
<1>5. b \in Events /\ b \notin LevelAlerts
  BY <1>2, <1>4, EventsAre, LevelAlertsAre
<1>6. x \in Seq(Events) /\ Keep(x, LevelAlerts) = <<>>
  <2> DEFINE T == {Tool, b}
  <2>1. Tool \in T /\ b \in T /\ T \subseteq Events /\ \A e \in T : e \notin LevelAlerts
    BY <1>5, EventsAre, LevelAlertsAre
  <2> HIDE DEF T, b
  <2>2. x \in Seq(T) /\ x \in Seq(Events)
    BY <2>1
  <2> HIDE DEF x
  <2>3. Keep(x, LevelAlerts) = <<>>
    BY <2>1, <2>2, KeepNone
  <2>4. QED
    BY <2>2, <2>3
<1>7. SumOf(spends') > SpendLimit => Len(x) = 2 /\ x[2] = b
  BY DEF x
<1> HIDE DEF x, new
<1>8. StreamInv'
  BY <1>2, <1>3, <1>6, EmitsStream DEF OpsInv
<1>9. ChainInv'
  BY <1>2, <1>3, <1>6, QuietChain DEF OpsInv, StreamInv
<1>10. emitted \in Seq(Events)
  BY DEF OpsInv, StreamInv
<1>11. ASSUME NEW y \in spent' PROVE Alerted(y, emitted)'
  <2>1. CASE y \in spent
    <3>1. Alerted(y, emitted \o x)
      BY <1>6, <1>10, <2>1, StaysAlerted DEF OpsInv
    <3>2. {z \in spent' : z.at >= y.at - SpendWindow /\ z.n <= y.n} = Window(y)
      <4>1. y.n < Cardinality(spent) /\ new.n = Cardinality(spent) /\ y.n \in Nat
            /\ Cardinality(spent) \in Nat
        BY <2>1, FS_CardinalityType DEF OpsInv, SpendsInv, Purchases, new
      <4>2. ~(new.n <= y.n)
        BY <4>1
      <4>3. QED
        BY <1>3, <4>2 DEF Window
    <3>3. QED
      BY <1>3, <3>1, <3>2 DEF Alerted, Window
  <2>2. CASE y = new
    <3>1. {z \in spent' : z.at >= y.at - SpendWindow /\ z.n <= y.n}
            = {z \in spent' : z.at >= opsNow - SpendWindow}
      <4>1. y.at = opsNow /\ y.n = Cardinality(spent) /\ Cardinality(spent) \in Nat
        BY <2>2, FS_CardinalityType DEF OpsInv, SpendsInv, new
      <4>2. \A z \in spent' : z.n <= y.n
        BY <1>3, <2>2, <4>1 DEF OpsInv, SpendsInv, Purchases
      <4>3. QED
        BY <4>1, <4>2
    <3>2. y.at = opsNow
      BY <2>2 DEF new
    <3>3. SumOf(spends') > SpendLimit =>
              \E i \in 1 .. Len(emitted \o x) : (emitted \o x)[i] = b
      <4>1. SUFFICES ASSUME SumOf(spends') > SpendLimit
                     PROVE  \E i \in 1 .. Len(emitted \o x) : (emitted \o x)[i] = b
        OBVIOUS
      <4> DEFINE i == Len(emitted) + 2
      <4>2. /\ i \in 1 .. Len(emitted \o x) /\ ~(i <= Len(emitted)) /\ i - Len(emitted) = 2
            /\ i \in 1 .. Len(emitted) + Len(x)
        <5>1. Len(emitted) \in Nat /\ Len(x) = 2
          BY <1>7, <1>10, <4>1
        <5>2. Len(emitted \o x) = Len(emitted) + 2
          <6>1. \A u \in Seq(Events) : Len(emitted \o u) = Len(emitted) + Len(u)
            BY <1>10, ConcatProperties
          <6>2. QED
            BY <1>6, <5>1, <6>1
        <5>3. QED
          BY <5>1, <5>2
      <4>3. (emitted \o x)[i] = x[2]
        <5> HIDE DEF i
        <5>1. QED
          BY <1>6, <1>10, <4>2, ConcatProperties
      <4>4. QED
        BY <1>7, <4>1, <4>2, <4>3
    <3>4. QED
      BY <1>3, <1>4, <3>1, <3>2, <3>3 DEF Alerted, Window
  <2>3. QED
    BY <1>3, <2>1, <2>2
<1>12. QED
  BY <1>4, <1>8, <1>9, <1>11 DEF OpsInv

\* What a listener or the clock does is not about the emitted events.
LEMMA StillAlerted ==
    ASSUME OpsInv, UNCHANGED <<emitted, level, spends, spent>>,
           opsNow' = opsNow \/ opsNow' = opsNow + 1
    PROVE  SpendsInv' /\ ChainInv' /\ \A y \in spent' : Alerted(y, emitted)'
<1>1. ChainInv'
  BY DEF OpsInv, ChainInv, Chain
<1>2. \A y \in spent' : Alerted(y, emitted)'
  BY DEF OpsInv, Alerted, Window
<1>3. SpendsInv'
  <2>1. opsNow \in Nat /\ opsNow' \in Nat /\ opsNow <= opsNow' /\ SpendWindow \in Nat
    BY Bounds DEF OpsInv, SpendsInv
  <2>2. ASSUME NEW c \in Int, c >= opsNow' - SpendWindow PROVE c >= opsNow - SpendWindow
    <3> DEFINE m == opsNow
               n == opsNow'
    <3>1. m \in Nat /\ n \in Nat /\ m <= n /\ SpendWindow \in Nat /\ c >= n - SpendWindow
      BY <2>1, <2>2
    <3> HIDE DEF m, n
    <3>2. c >= m - SpendWindow
      BY <3>1
    <3>3. QED
      BY <3>2 DEF m
  <2>3. \A y \in spent : y.at \in Nat /\ y.at <= opsNow'
    BY <2>1 DEF OpsInv, SpendsInv, Purchases
  <2>4. QED
    BY <2>1, <2>2, <2>3 DEF OpsInv, SpendsInv, Bought
<1>4. QED
  BY <1>1, <1>2, <1>3

LEMMA OpsInitInv == OpsInit => OpsInv
<1> SUFFICES ASSUME OpsInit PROVE OpsInv
  OBVIOUS
<1>1. Levels \in Seq(STRING) /\ Levels # <<>>
  BY OpsAssumption
<1>2. level \in LevelNames
  <2>1. 1 \in DOMAIN Levels
    BY <1>1
  <2>2. QED
    BY <2>1 DEF OpsInit, LevelNames
<1>3. Chain = <<>>
  BY KeepEmpty DEF OpsInit, Chain
<1>4. ChainInv
  BY <1>2, <1>3 DEF ChainInv, OpsInit
<1>5. StreamInv
  <2>1. LastOf(<<>>, Ring) = <<>>
    <3>1. <<>> \in Seq(Events) /\ Len(<<>>) = 0
      OBVIOUS
    <3>2. LastOf(<<>>, Ring) \in Seq(Events) /\ Len(LastOf(<<>>, Ring)) = IF 0 > Ring THEN Ring ELSE 0
      BY <3>1, Bounds, LastOfIs
    <3>3. Len(LastOf(<<>>, Ring)) = 0
      BY <3>2, Bounds
    <3>4. QED
      BY <3>2, <3>3
  <2>2. pending \in [Listeners -> Queued] /\ listener \in [Listeners -> Places]
    BY DEF OpsInit, Queued, Places
  <2>3. \A r \in Listeners : Served(listener[r], pending[r], emitted)
    BY DEF OpsInit, Served
  <2>4. QED
    BY <2>1, <2>2, <2>3 DEF StreamInv, OpsInit
<1>6. SpendsInv
  <2>1. IsFiniteSet({}) /\ \A c \in Int : Bought(c) = {} /\ Keep(<<>>, Since(c)) = <<>>
    BY FS_EmptySet, KeepEmpty DEF OpsInit, Bought
  <2>2. \A c \in Int : SumOf(Keep(<<>>, Since(c))) = AmountOf(Bought(c))
    BY <2>1, SumOfNone, AmountOfNone
  <2>3. spends = <<>> /\ spent = {} /\ opsNow = 0 /\ <<>> \in Seq(Spends)
    BY DEF OpsInit
  <2>4. QED
    BY <2>1, <2>2, <2>3 DEF SpendsInv
<1>7. QED
  BY <1>4, <1>5, <1>6 DEF OpsInv, OpsInit

LEMMA OpsStepInv == OpsInv /\ [OpsNext]_opsVars => OpsInv'
<1> SUFFICES ASSUME OpsInv, [OpsNext]_opsVars PROVE OpsInv'
  OBVIOUS
<1>1. CASE ToolEvent
  BY <1>1, ToolStep
<1>2. CASE SpendStep
  BY <1>2, SpendStepStep
<1>3. CASE Sample
  BY <1>3, SampleStep
<1>4. CASE OpsTick
  <2>1. /\ UNCHANGED <<emitted, ring, pending, listener, level, spends, spent>>
        /\ opsNow' = opsNow + 1
    BY <1>4 DEF OpsTick
  <2>2. StreamInv'
    BY <2>1 DEF OpsInv, StreamInv
  <2>3. QED
    BY <2>1, <2>2, StillAlerted DEF OpsInv
<1>5. ASSUME NEW r \in Listeners,
             Subscribe(r) \/ Replay(r) \/ Take(r) \/ Heartbeat(r) \/ Unsubscribe(r)
      PROVE  OpsInv'
  <2>1. UNCHANGED <<emitted, ring, level, spends, spent, opsNow>>
    BY <1>5 DEF Subscribe, Replay, Take, Heartbeat, Unsubscribe
  <2>2. StreamInv'
    <3>1. CASE Heartbeat(r)
      <4>1. Broadcast(<<Beat>>) /\ UNCHANGED <<emitted, ring, listener>>
        BY <3>1 DEF Heartbeat
      <4>2. QED
        BY <4>1, BeatsStream DEF OpsInv
    <3>2. QED
      BY <1>5, <3>1, SubscribeStream, ReplayStream, TakeStream, UnsubscribeStream DEF OpsInv
  <2>3. QED
    BY <2>1, <2>2, StillAlerted DEF OpsInv
<1>6. CASE UNCHANGED opsVars
  BY <1>6 DEF opsVars, OpsInv, StreamInv, SpendsInv, ChainInv, Chain, Alerted, Window, Bought
<1>7. QED
  BY <1>1, <1>2, <1>3, <1>4, <1>5, <1>6 DEF OpsNext

\* A listener misses no event, gets none twice and none out of order: a new one begins
\* with the end of the ring, which is the end of all events, and whatever is emitted
\* from then on goes to the end of its queue (ops_events.py, stream_events).
THEOREM StreamTheorem == OpsSpec => []StreamIsGapless
<1>1. OpsInv => StreamIsGapless
  BY StreamIs DEF OpsInv
<1>2. QED
  BY <1>1, OpsInitInv, OpsStepInv, PTL DEF OpsSpec

\* Every window of purchases above the limit was alerted when its last purchase was
\* made, for the spends that are kept add up to the purchases of every window that can
\* still be asked for; and the alerts of the host's level form a chain
\* (os_monitor.py, record_spend and sample).
THEOREM AlertsTheorem == OpsSpec => []AlertsAreComplete
<1>1. OpsInv => AlertsAreComplete
  BY AlertsAre
<1>2. QED
  BY <1>1, OpsInitInv, OpsStepInv, PTL DEF OpsSpec
=============================================================================

-------------------------- MODULE SwarmSaleProofs --------------------------
(***************************************************************************)
(* Proofs about SwarmSale for every number of requests, payments, products *)
(* and publishers: type correctness, and the replay guard.                 *)
(***************************************************************************)
EXTENDS SwarmSale, TLAPS

USE ConstantsAssumption

\* The product objects the code builds are well typed.
LEMMA FreshTyped ==
    /\ Blank \in Product
    /\ \A p \in Pids : FreshProduct(p) \in Product
BY DEF Blank, FreshProduct, Product

\* Marking a product sold keeps it well typed.
LEMMA SoldTyped ==
    ASSUME NEW x \in Product, NEW r \in Requests
    PROVE  Sold(x, r) \in Product
BY DEF Sold, Product

\* So does handing it the revenue of an older object.
LEMMA EarningTyped ==
    ASSUME NEW x \in Product, NEW c \in SUBSET Requests
    PROVE  Earning(x, c) \in Product
BY DEF Earning, Product

\* A saved snapshot is well typed when the registry is.
LEMMA SaveTyped ==
    ASSUME TypeOK, heap' \in [Objs -> Product],
           listed' \in [Pids -> Objs \cup {NoObj}], settledTxs' \subseteq Payments,
           Save
    PROVE  /\ disk' \in [heap : [Objs -> Product],
                         listed : [Pids -> Objs \cup {NoObj}],
                         settled : SUBSET Payments]
           /\ faults' \in 0 .. MaxFaults
<1>1. CASE disk' = (IF Durable THEN Snapshot(heap', listed', settledTxs') ELSE disk)
           /\ UNCHANGED faults
  <2>1. [o \in Objs |-> IF \E p \in Pids : listed'[p] = o THEN heap'[o] ELSE Blank]
            \in [Objs -> Product]
    BY FreshTyped
  <2>2. Snapshot(heap', listed', settledTxs') \in
            [heap : [Objs -> Product], listed : [Pids -> Objs \cup {NoObj}],
             settled : SUBSET Payments]
    BY <2>1 DEF Snapshot
  <2> QED BY <1>1, <2>2 DEF TypeOK
<1>2. CASE Durable /\ Fault("save") /\ UNCHANGED disk
  BY <1>2 DEF TypeOK, Fault
<1> QED BY <1>1, <1>2 DEF Save

\* Pruning keeps the registry and the snapshot well typed and spares the pinned id.
LEMMA PruneTyped ==
    ASSUME TypeOK, Prune
    PROVE  /\ heap' \in [Objs -> Product]
           /\ listed' \in [Pids -> Objs \cup {NoObj}]
           /\ listed'[Pinned] = listed[Pinned]
           /\ settledTxs' \subseteq Payments
           /\ disk' \in [heap : [Objs -> Product],
                         listed : [Pids -> Objs \cup {NoObj}],
                         settled : SUBSET Payments]
           /\ faults' \in 0 .. MaxFaults
<1>1. heap' \in [Objs -> Product] /\ listed' \in [Pids -> Objs \cup {NoObj}]
      /\ settledTxs' \subseteq Payments /\ listed'[Pinned] = listed[Pinned]
  BY DEF TypeOK, Prune, Superseded
<1>2. CASE UNCHANGED <<disk, faults>>
  BY <1>1, <1>2 DEF TypeOK
<1>3. CASE Save
  BY <1>1, <1>3, SaveTyped
<1> QED BY <1>1, <1>2, <1>3 DEF Prune

-----------------------------------------------------------------------------
\* A process that starts on an empty snapshot is well typed.
LEMMA TypeCorrectInit == Init => TypeOK
  <2> SUFFICES ASSUME Init PROVE TypeOK
    OBVIOUS
  <2>1. disk \in [heap : [Objs -> Product], listed : [Pids -> Objs \cup {NoObj}],
                  settled : SUBSET Payments]
    <3>1. [o \in Objs |-> IF \E p \in Pids : listed[p] = o THEN heap[o] ELSE Blank]
              \in [Objs -> Product]
      BY FreshTyped DEF Init
    <3> QED BY <3>1 DEF Init, Snapshot
  <2>2. heap \in [Objs -> Product]
    BY FreshTyped DEF Init
  <2> QED BY <2>1, <2>2 DEF Init, TypeOK, InFlight, Crediting

\* Every step of a handler, of the publisher or of a restart keeps the types.
LEMMA TypeCorrectNext == TypeOK /\ [Next]_vars => TypeOK'
  <2> SUFFICES ASSUME TypeOK, [Next]_vars PROVE TypeOK'
    OBVIOUS
  <2>1. ASSUME NEW r \in Requests, NEW p \in Payments, NEW i \in Pids, Submit(r, p, i)
        PROVE  TypeOK'
    BY <2>1 DEF Submit, TypeOK, regVars, taskVars, InFlight, Crediting, Answered, Gone
  <2>2. ASSUME NEW r \in Requests, NEW valid \in BOOLEAN, Verify(r, valid)
        PROVE  TypeOK'
    BY <2>2 DEF Verify, Finish, TypeOK, regVars, taskVars, InFlight, Crediting, Answered, Gone
  <2>3. ASSUME NEW r \in Requests, NEW moves \in BOOLEAN,
               NEW answer \in {"tx", "notx", "error"}, FacilitatorSettle(r, moves, answer)
        PROVE  TypeOK'
    <3>1. moves => pay[r] \in Payments \cup {NoPay}
      BY DEF TypeOK
    <3> QED BY <2>3 DEF FacilitatorSettle, TypeOK, regVars, taskVars, InFlight, Crediting, Answered, Gone
  <2>4. ASSUME NEW r \in Requests, Resume(r)
        PROVE  TypeOK'
    BY <2>4, SaveTyped DEF Resume, Finish, TypeOK, taskVars, InFlight, Crediting, Answered, Gone
  <2>5. ASSUME NEW r \in Requests, Credit(r)
        PROVE  TypeOK'
    <3>1. heap[obj[r]] \in Product /\ obj[r] \in Objs
      BY <2>5 DEF Credit, TypeOK, Crediting
    <3>2. heap' \in [Objs -> Product]
      BY <2>5, <3>1, SoldTyped DEF Credit, TypeOK
    <3>3. UNCHANGED <<listed, settledTxs>> /\ Save
      BY <2>5 DEF Credit
    <3> QED
      BY <2>5, <3>2, <3>3, SaveTyped
      DEF Credit, TypeOK, taskVars, InFlight, Crediting, Answered, Gone
  <2>6. ASSUME NEW r \in Requests, Record(r)
        PROVE  TypeOK'
    BY <2>6 DEF Record, Fault, Finish, TypeOK, regVars, taskVars, InFlight, Crediting, Answered, Gone
  <2>7. ASSUME NEW t \in Tasks, KeepPinned(t)
        PROVE  TypeOK'
    BY <2>7, PruneTyped DEF KeepPinned, TypeOK, reqVars, taskVars
  <2>8. ASSUME NEW t \in Tasks, StartRebuild(t)
        PROVE  TypeOK'
    BY <2>8 DEF StartRebuild, TypeOK, regVars, reqVars
  <2>9. ASSUME NEW t \in Tasks, NEW i \in Pids, StartPublish(t, i)
        PROVE  TypeOK'
    BY <2>9 DEF StartPublish, TypeOK, regVars, reqVars
  <2>10. ASSUME NEW t \in Tasks, ListProduct(t)
        PROVE  TypeOK'
    <3> DEFINE new == CHOOSE o \in Objs : Unreferenced(o)
    <3>1. new \in Objs /\ tpid[t] \in Pids
      BY <2>10 DEF ListProduct, TypeOK
    <3>2. heap' \in [Objs -> Product]
      <4>1. heap' = [o \in Objs |-> IF o = new THEN FreshProduct(tpid[t])
                                   ELSE IF Unreferenced(o) THEN Blank ELSE heap[o]]
        BY <2>10 DEF ListProduct
      <4> HIDE DEF new
      <4> QED BY <3>1, <4>1, FreshTyped DEF TypeOK
    <3>3. listed' = [listed EXCEPT ![tpid[t]] = new]
      BY <2>10 DEF ListProduct
    <3> HIDE DEF new
    <3>4. listed' \in [Pids -> Objs \cup {NoObj}]
      BY <3>1, <3>3 DEF TypeOK
    <3>5. UNCHANGED <<settledTxs, ledger, issued, reqVars, chain, orphaned>> /\ Save
      BY <2>10 DEF ListProduct
    <3>6. /\ disk' \in [heap : [Objs -> Product], listed : [Pids -> Objs \cup {NoObj}],
                        settled : SUBSET Payments]
          /\ faults' \in 0 .. MaxFaults
      BY <3>2, <3>4, <3>5, SaveTyped DEF TypeOK
    <3>7. CASE tpid[t] = Pinned
      <4>1. tpc' = [tpc EXCEPT ![t] = "relisted"] /\ UNCHANGED <<tpid, existing>>
        BY <2>10, <3>7 DEF ListProduct
      <4>2. listed'[Pinned] \in Objs
        BY <3>1, <3>3, <3>7 DEF TypeOK
      <4> QED BY <3>2, <3>4, <3>5, <3>6, <4>1, <4>2 DEF TypeOK, reqVars
    <3>8. CASE tpid[t] # Pinned
      <4>1. Idle(t)
        BY <2>10, <3>8 DEF ListProduct
      <4>2. listed'[Pinned] = listed[Pinned]
        BY <3>1, <3>3, <3>8 DEF TypeOK
      <4> QED BY <3>2, <3>4, <3>5, <3>6, <4>1, <4>2 DEF Idle, TypeOK, reqVars
    <3> QED BY <3>7, <3>8
  <2>11. ASSUME NEW t \in Tasks, PublishFails(t)
        PROVE  TypeOK'
    BY <2>11 DEF PublishFails, Fault, Idle, TypeOK, regVars, reqVars
  <2>12. ASSUME NEW t \in Tasks, CarryOver(t)
        PROVE  TypeOK'
    <3>1. listed[Pinned] \in Objs /\ heap[listed[Pinned]] \in Product
      BY <2>12 DEF CarryOver, TypeOK
    <3>2. CASE existing[t] = NoObj
      BY <2>12, <3>2 DEF CarryOver, TypeOK, reqVars
    <3>3. CASE existing[t] # NoObj
      <4>1. heap[existing[t]].credits \in SUBSET Requests
        BY <3>3 DEF TypeOK, Product
      <4> DEFINE x == Earning(heap[listed[Pinned]], heap[existing[t]].credits)
      <4>a. x \in Product
        BY <3>1, <4>1, EarningTyped
      <4>b. heap' = [heap EXCEPT ![listed[Pinned]] = x]
        BY <2>12, <3>3 DEF CarryOver
      <4> HIDE DEF x
      <4>2. heap' \in [Objs -> Product]
        BY <3>1, <4>a, <4>b DEF TypeOK
      <4>3. UNCHANGED <<listed, settledTxs>> /\ Save
        BY <2>12, <3>3 DEF CarryOver
      <4> QED
        BY <2>12, <4>2, <4>3, SaveTyped DEF CarryOver, TypeOK, reqVars
    <3> QED BY <3>2, <3>3
  <2>13. ASSUME NEW t \in Tasks, PruneAfterRebuild(t)
        PROVE  TypeOK'
    BY <2>13, PruneTyped DEF PruneAfterRebuild, Idle, TypeOK, reqVars
  <2>14. ASSUME Crash
        PROVE  TypeOK'
    <3>1. orphaned' \subseteq Requests
      BY <2>14 DEF Crash, Uncarried, TypeOK
    <3> QED
      BY <2>14, <3>1 DEF Crash, Fault, TypeOK, InFlight, Crediting, Answered, Gone
  <2>15. CASE UNCHANGED vars
    BY <2>15 DEF vars, TypeOK
  <2> QED
    BY <2>1, <2>2, <2>3, <2>4, <2>5, <2>6, <2>7, <2>8, <2>9, <2>10, <2>11,
       <2>12, <2>13, <2>14, <2>15 DEF Next, Sale, Publisher

\* Every variable keeps its type, whatever the number of requests and faults; in
\* particular a request past its lookup has a payment, a product id and an object.
THEOREM TypeCorrect == Spec => []TypeOK
BY TypeCorrectInit, TypeCorrectNext, PTL DEF Spec

-----------------------------------------------------------------------------
(* The replay guard.  GuardCovers is inductive together with TypeOK when a   *)
(* snapshot backend is configured and its writes do not fail: every step     *)
(* that adds a tx to the guard saves it before anything is credited, so a    *)
(* restart cannot forget it.                                                 *)

\* A save that succeeds leaves the running guard in the snapshot.
LEMMA SaveGuard ==
    ASSUME Durable, "save" \notin FaultKinds, Save
    PROVE  disk'.settled = settledTxs'
BY DEF Save, Fault, Snapshot

\* The snapshot holds the same replay guard as the running process.
SameGuard == disk.settled = settledTxs

\* Pruning and listing save the guard along with the products.
LEMMA PruneGuard ==
    ASSUME Durable, "save" \notin FaultKinds, SameGuard, Prune
    PROVE  SameGuard' /\ UNCHANGED settledTxs
BY SaveGuard DEF Prune, SameGuard

\* Every step keeps the guard, the rows and the requests past it together.
LEMMA GuardNext ==
    ASSUME Durable, "save" \notin FaultKinds
    PROVE  TypeOK /\ GuardCovers /\ SameGuard /\ [Next]_vars => TypeOK' /\ GuardCovers' /\ SameGuard'
  <2> SUFFICES ASSUME TypeOK, GuardCovers, SameGuard, [Next]_vars
               PROVE  TypeOK' /\ GuardCovers' /\ SameGuard'
    OBVIOUS
  <2>0. TypeOK'
    BY TypeCorrectNext
  <2>1. ASSUME NEW r \in Requests, NEW p \in Payments, NEW i \in Pids, Submit(r, p, i)
        PROVE  GuardCovers' /\ SameGuard'
    <3>1. r \notin ledger /\ ~PastGuard(r)
      BY <2>1 DEF Submit, GuardCovers, PastGuard, Crediting
    <3> QED
      BY <2>1, <3>1 DEF Submit, regVars, GuardCovers, SameGuard, PastGuard, Crediting, TypeOK
  <2>2. ASSUME NEW r \in Requests, NEW valid \in BOOLEAN, Verify(r, valid)
        PROVE  GuardCovers' /\ SameGuard'
    BY <2>2 DEF Verify, Finish, regVars, GuardCovers, SameGuard, PastGuard, Crediting, TypeOK
  <2>3. ASSUME NEW r \in Requests, NEW moves \in BOOLEAN,
               NEW answer \in {"tx", "notx", "error"}, FacilitatorSettle(r, moves, answer)
        PROVE  GuardCovers' /\ SameGuard'
    BY <2>3 DEF FacilitatorSettle, regVars, GuardCovers, SameGuard, PastGuard, Crediting, TypeOK
  <2>4. ASSUME NEW r \in Requests, Resume(r)
        PROVE  GuardCovers' /\ SameGuard'
    <3>0. r \notin ledger /\ UNCHANGED <<ledger, pay, reply>>
      BY <2>4 DEF Resume, GuardCovers
    <3>1. CASE UNCHANGED <<settledTxs, disk>>
               /\ (reply[r] # "tx" \/ Finish(r, "refused") \/ Finish(r, "duplicate"))
      <4>1. ~PastGuard(r)'
        BY <2>4, <3>0, <3>1 DEF Resume, Finish, PastGuard, Crediting, TypeOK
      <4>2. \A q \in Requests : q # r => pc'[q] = pc[q]
        BY <2>4 DEF Resume, Finish, TypeOK
      <4> QED
        BY <3>0, <3>1, <4>1, <4>2 DEF GuardCovers, SameGuard, PastGuard, TypeOK
    <3>2. CASE /\ reply[r] = "tx" /\ pay[r] \notin settledTxs
               /\ settledTxs' = settledTxs \cup {pay[r]}
               /\ pc' = [pc EXCEPT ![r] = "guarded"]
               /\ Save
      <4>1. disk'.settled = settledTxs'
        BY <3>2, SaveGuard
      <4>2. \A q \in Requests : q # r => (PastGuard(q)' <=> PastGuard(q))
        BY <3>0, <3>2 DEF PastGuard, TypeOK
      <4> QED
        BY <3>0, <3>2, <4>1, <4>2 DEF GuardCovers, SameGuard, TypeOK
    <3> QED BY <2>4, <3>1, <3>2 DEF Resume
  <2>5. ASSUME NEW r \in Requests, Credit(r)
        PROVE  GuardCovers' /\ SameGuard'
    <3>1. UNCHANGED <<settledTxs, ledger, pay, reply>> /\ Save
          /\ pc[r] = "guarded" /\ pc' = [pc EXCEPT ![r] = "credited"]
      BY <2>5 DEF Credit
    <3>2. disk'.settled = settledTxs'
      BY <3>1, SaveGuard
    <3>3. \A q \in Requests : PastGuard(q)' <=> PastGuard(q)
      BY <3>1 DEF PastGuard, Crediting, TypeOK
    <3> QED BY <3>1, <3>2, <3>3 DEF GuardCovers, SameGuard, TypeOK
  <2>6. ASSUME NEW r \in Requests, Record(r)
        PROVE  GuardCovers' /\ SameGuard'
    <3>1. /\ UNCHANGED <<settledTxs, disk, pay, reply>> /\ pc[r] = "credited"
          /\ \/ ledger' = ledger \cup {r} /\ pc' = [pc EXCEPT ![r] = "sold"]
             \/ ledger' = ledger /\ pc' = [pc EXCEPT ![r] = "failed"]
      BY <2>6 DEF Record, Finish, regVars
    <3>2. \A q \in Requests : PastGuard(q)' <=> PastGuard(q)
      BY <3>1 DEF PastGuard, Crediting, TypeOK
    <3> QED BY <3>1, <3>2 DEF GuardCovers, SameGuard, TypeOK
  <2>7. ASSUME NEW t \in Tasks, KeepPinned(t)
        PROVE  GuardCovers' /\ SameGuard'
    <3>1. UNCHANGED <<ledger, pc, pay, reply, settledTxs>> /\ SameGuard'
      BY <2>7, PruneGuard DEF KeepPinned, reqVars
    <3> QED BY <3>1 DEF GuardCovers, SameGuard, PastGuard
  <2>8. ASSUME NEW t \in Tasks,
               StartRebuild(t) \/ (\E i \in Pids : StartPublish(t, i)) \/ PublishFails(t)
        PROVE  GuardCovers' /\ SameGuard'
    <3>1. UNCHANGED <<ledger, pc, pay, reply, settledTxs, disk>>
      BY <2>8 DEF StartRebuild, StartPublish, PublishFails, regVars, reqVars
    <3> QED BY <3>1 DEF GuardCovers, SameGuard, PastGuard
  <2>9. ASSUME NEW t \in Tasks, ListProduct(t)
        PROVE  GuardCovers' /\ SameGuard'
    <3>1. UNCHANGED <<ledger, pc, pay, reply, settledTxs>> /\ Save
      BY <2>9 DEF ListProduct, reqVars
    <3>2. disk'.settled = settledTxs'
      BY <3>1, SaveGuard
    <3> QED BY <3>1, <3>2 DEF GuardCovers, SameGuard, PastGuard
  <2>10. ASSUME NEW t \in Tasks, CarryOver(t)
        PROVE  GuardCovers' /\ SameGuard'
    <3>1. UNCHANGED <<ledger, pc, pay, reply, settledTxs>> /\ (UNCHANGED disk \/ Save)
      BY <2>10 DEF CarryOver, reqVars
    <3>2. disk'.settled = settledTxs'
      BY <3>1, SaveGuard DEF SameGuard
    <3> QED BY <3>1, <3>2 DEF GuardCovers, SameGuard, PastGuard
  <2>11. ASSUME NEW t \in Tasks, PruneAfterRebuild(t)
        PROVE  GuardCovers' /\ SameGuard'
    <3>1. UNCHANGED <<ledger, pc, pay, reply, settledTxs>> /\ SameGuard'
      BY <2>11, PruneGuard DEF PruneAfterRebuild, reqVars
    <3> QED BY <3>1 DEF GuardCovers, SameGuard, PastGuard
  <2>12. ASSUME Crash
        PROVE  GuardCovers' /\ SameGuard'
    <3>1. /\ UNCHANGED <<disk, ledger, pay, reply>> /\ settledTxs' = disk.settled
          /\ pc' = [q \in Requests |-> IF pc[q] \in Crediting THEN "cut"
                                       ELSE IF pc[q] \in InFlight THEN "dropped" ELSE pc[q]]
      BY <2>12 DEF Crash
    <3>2. \A q \in Requests : PastGuard(q)' => PastGuard(q)
      BY <3>1 DEF PastGuard, Crediting, InFlight, TypeOK
    <3>3. \A q \in ledger : pc'[q] = "sold"
      BY <3>1 DEF GuardCovers, Crediting, InFlight, TypeOK
    <3> QED BY <3>1, <3>2, <3>3 DEF GuardCovers, SameGuard, TypeOK
  <2>13. CASE UNCHANGED vars
    BY <2>0, <2>13 DEF vars, GuardCovers, SameGuard, PastGuard
  <2> QED
    BY <2>0, <2>1, <2>2, <2>3, <2>4, <2>5, <2>6, <2>7, <2>8, <2>9, <2>10, <2>11,
       <2>12, <2>13 DEF Next, Sale, Publisher

\* Under a working snapshot backend a replayed settlement re-credits nothing:
\* no two rows of the revenue ledger carry the same settlement tx, for any
\* number of concurrent requests, retries, rebuilds and restarts.
THEOREM ReplayGuard ==
    ASSUME Durable, "save" \notin FaultKinds
    PROVE  Spec => []LedgerOncePerTx
<1> DEFINE IInv == TypeOK /\ GuardCovers /\ SameGuard
<1>1. Init => IInv
  <2>1. Init => TypeOK
    BY TypeCorrectInit
  <2> QED
    BY <2>1 DEF Init, GuardCovers, PastGuard, SameGuard, Snapshot, Crediting
<1>2. IInv /\ [Next]_vars => IInv'
  BY GuardNext
<1>3. IInv => LedgerOncePerTx
  BY DEF GuardCovers, PastGuard, LedgerOncePerTx, TxRow, TypeOK
<1> QED BY <1>1, <1>2, <1>3, PTL DEF Spec

-----------------------------------------------------------------------------
(* The books and the chain.  A claimant of a tx is a request that passed the *)
(* guard with it, whatever became of it then; every tx in a guard, in memory *)
(* or saved, has one.  Credits and guards, saved ones too, are of payments   *)
(* whose funds moved.  No assumption on the snapshot is needed.              *)

Claimed(p) == \E q \in Requests : /\ pay[q] = p /\ reply[q] = "tx"
                                  /\ q \in ledger \/ pc[q] \in Crediting \cup {"cut", "failed"}

\* Every object of a heap holds credits of payments that moved.
FundedHeap(h) == \A o \in Objs, r \in Requests : r \in h[o].credits => pay[r] \in chain

FundsInv ==
    /\ \A r \in Requests : pc[r] = "new" => pay[r] = NoPay
    /\ \A r \in Requests : pc[r] = "answered" /\ reply[r] \in {"tx", "notx"} => pay[r] \in chain
    /\ \A r \in ledger : pc[r] = "sold"
    /\ \A r \in Requests : pc[r] = "sold" => r \in ledger
    /\ disk.settled \subseteq chain /\ FundedHeap(disk.heap)
    /\ \A p \in settledTxs \cup disk.settled : Claimed(p)

FundsAll == TypeOK /\ FundsInv /\ BooksMatchFunds

\* A snapshot is as well funded as the registry it is taken of.
LEMMA SaveFunded ==
    ASSUME Save, FundedHeap(disk.heap), FundedHeap(heap'), disk.settled \subseteq chain,
           settledTxs' \subseteq chain, UNCHANGED <<pay, chain>>
    PROVE  /\ FundedHeap(disk.heap)' /\ disk'.settled \subseteq chain
           /\ disk'.settled \subseteq settledTxs' \cup disk.settled
<1>1. CASE disk' = disk
  BY <1>1 DEF FundedHeap
<1>2. CASE disk' = Snapshot(heap', listed', settledTxs')
  <2>1. \A o \in Objs : disk'.heap[o] = heap'[o] \/ disk'.heap[o] = Blank
    BY <1>2 DEF Snapshot
  <2>2. disk'.settled = settledTxs'
    BY <1>2 DEF Snapshot
  <2>3. QED
    BY <2>1, <2>2 DEF FundedHeap, Blank
<1>3. QED
  BY <1>1, <1>2 DEF Save

\* A step that ends no sale, moves no funds and claims nothing, and leaves heap and
\* snapshot funded.
LEMMA NothingClaimed ==
    ASSUME FundsAll, TypeOK', UNCHANGED <<ledger, pay, reply, chain>>,
           settledTxs' \subseteq settledTxs \cup disk.settled,
           disk'.settled \subseteq settledTxs \cup disk.settled,
           FundedHeap(heap'), FundedHeap(disk'.heap),
           \A r \in Requests : \/ pc'[r] = pc[r]
                               \/ pc[r] \in InFlight /\ pc'[r] \in {"refused", "dropped"}
                               \/ pc[r] = "verifying" /\ pc'[r] = "settling"
                               \/ pc[r] \in Crediting /\ pc'[r] \in {"credited", "cut"}
    PROVE  FundsAll'
<1>1. \A p : Claimed(p) => Claimed(p)'
  BY DEF Claimed, FundsAll, FundsInv, InFlight, Crediting
<1>2. FundsInv'
  <2>1. \A r \in Requests : pc'[r] \in {"new", "answered", "sold"} => pc'[r] = pc[r]
    BY DEF InFlight, Crediting
  <2>2. \A r \in Requests : pc[r] = "sold" => pc'[r] = "sold"
    BY DEF InFlight, Crediting
  <2>3. /\ \A r \in Requests : pc'[r] = "new" => pay'[r] = NoPay
        /\ \A r \in Requests : pc'[r] = "answered" /\ reply'[r] \in {"tx", "notx"} => pay'[r] \in chain'
        /\ \A r \in Requests : pc'[r] = "sold" => r \in ledger'
    BY <2>1 DEF FundsAll, FundsInv
  <2>4. \A r \in ledger' : pc'[r] = "sold"
    BY <2>2 DEF FundsAll, FundsInv, TypeOK
  <2>5. disk'.settled \subseteq chain' /\ FundedHeap(disk.heap)'
    BY DEF FundsAll, FundsInv, FundedHeap, BooksMatchFunds, NoRevenueWithoutFunds
  <2>6. \A p \in settledTxs' \cup disk'.settled : Claimed(p)'
    BY <1>1 DEF FundsAll, FundsInv
  <2>7. QED
    BY <2>3, <2>4, <2>5, <2>6 DEF FundsInv
<1>3. NoRevenueWithoutFunds'
  BY DEF FundsAll, FundsInv, FundedHeap, InFlight, Crediting, BooksMatchFunds,
         NoRevenueWithoutFunds
<1>4. SettledIsBooked'
  <2>1. \A r \in Requests : pc'[r] \in {"sold", "duplicate"} => pc[r] = pc'[r]
    BY DEF InFlight, Crediting
  <2>2. \A r \in Requests : pc[r] \in {"sold", "duplicate"} /\ reply[r] = "tx" => Claimed(pay[r])
    BY DEF FundsAll, BooksMatchFunds, SettledIsBooked, Claimed
  <2>3. QED
    BY <1>1, <2>1, <2>2 DEF SettledIsBooked, Claimed
<1>5. QED
  BY <1>2, <1>3, <1>4 DEF FundsAll, BooksMatchFunds

LEMMA SubmitFunds ==
    ASSUME FundsAll, NEW r \in Requests, NEW p \in Payments, NEW i \in Pids, Submit(r, p, i)
    PROVE  FundsAll'
<1>0. TypeOK'
  BY TypeCorrectNext DEF FundsAll, Next, Sale
<1>1. /\ pc[r] = "new" /\ UNCHANGED <<heap, settledTxs, disk, ledger, reply, chain>>
      /\ \A q \in Requests \ {r} : pc'[q] = pc[q] /\ pay'[q] = pay[q]
      /\ \/ pc'[r] = "refused" /\ pay'[r] = pay[r]
         \/ pc'[r] = "verifying"
  BY DEF Submit, regVars, FundsAll, TypeOK
<1>2. pay[r] \notin chain /\ r \notin ledger /\ \A o \in Objs : r \notin heap[o].credits /\ r \notin disk.heap[o].credits
  BY <1>1 DEF FundsAll, FundsInv, TypeOK, BooksMatchFunds, NoRevenueWithoutFunds, FundedHeap
<1>3. \A x : Claimed(x) => Claimed(x)'
  BY <1>1, <1>2 DEF Claimed, Crediting
<1>4. FundsInv'
  <2>1. FundedHeap(disk.heap)'
    BY <1>1, <1>2 DEF FundsAll, FundsInv, FundedHeap
  <2>2. \A x \in settledTxs' \cup disk'.settled : Claimed(x)'
    BY <1>1, <1>3 DEF FundsAll, FundsInv
  <2>3. \A x \in ledger' : pc'[x] = "sold"
    BY <1>1, <1>2 DEF FundsAll, FundsInv, TypeOK
  <2>4. /\ \A x \in Requests : pc'[x] = "new" => pay'[x] = NoPay
        /\ \A x \in Requests : pc'[x] = "answered" /\ reply'[x] \in {"tx", "notx"} => pay'[x] \in chain'
        /\ \A x \in Requests : pc'[x] = "sold" => x \in ledger'
        /\ disk'.settled \subseteq chain'
    BY <1>1 DEF FundsAll, FundsInv
  <2>5. QED
    BY <2>1, <2>2, <2>3, <2>4 DEF FundsInv
<1>5. NoRevenueWithoutFunds'
  BY <1>1, <1>2 DEF FundsAll, BooksMatchFunds, NoRevenueWithoutFunds, Crediting
<1>6. SettledIsBooked'
  <2>1. \A q \in Requests : pc'[q] \in {"sold", "duplicate"} => pc[q] = pc'[q] /\ pay'[q] = pay[q]
    BY <1>1
  <2>2. \A q \in Requests : pc[q] \in {"sold", "duplicate"} /\ reply[q] = "tx" => Claimed(pay[q])
    BY DEF FundsAll, BooksMatchFunds, SettledIsBooked, Claimed
  <2>3. \A q \in Requests : pc'[q] \in {"sold", "duplicate"} /\ reply'[q] = "tx" => Claimed(pay[q])'
    BY <1>1, <1>3, <2>1, <2>2
  <2>4. QED
    BY <2>1, <2>3 DEF SettledIsBooked, Claimed
<1>7. QED
  BY <1>0, <1>4, <1>5, <1>6 DEF FundsAll, BooksMatchFunds

\* The funds move before the answer comes; a request at the facilitator has no row.
LEMMA SettleFunds ==
    ASSUME FundsAll, NEW r \in Requests, NEW moves \in BOOLEAN,
           NEW answer \in {"tx", "notx", "error"}, FacilitatorSettle(r, moves, answer)
    PROVE  FundsAll'
<1>0. TypeOK'
  BY TypeCorrectNext DEF FundsAll, Next, Sale
<1>1. /\ pc[r] = "settling" /\ pc' = [pc EXCEPT ![r] = "answered"]
      /\ UNCHANGED <<heap, settledTxs, disk, ledger, pay>>
      /\ \A q \in Requests \ {r} : reply'[q] = reply[q]
      /\ chain \subseteq chain' /\ (reply'[r] \in {"tx", "notx"} => pay[r] \in chain')
  BY DEF FacilitatorSettle, regVars, FundsAll, TypeOK
<1>2. /\ \A q \in Requests \ {r} : pc'[q] = pc[q]
      /\ pc'[r] = "answered" /\ r \notin ledger
  BY <1>1 DEF FundsAll, FundsInv, TypeOK
<1>3. \A x : Claimed(x) => Claimed(x)'
  BY <1>1, <1>2 DEF Claimed, Crediting
<1>4. FundsInv'
  <2>1. FundedHeap(disk.heap)'
    BY <1>1 DEF FundsAll, FundsInv, FundedHeap
  <2>2. \A x \in settledTxs' \cup disk'.settled : Claimed(x)'
    BY <1>1, <1>3 DEF FundsAll, FundsInv
  <2>3. \A x \in ledger' : pc'[x] = "sold"
    BY <1>1, <1>2 DEF FundsAll, FundsInv, TypeOK
  <2>4. /\ \A x \in Requests : pc'[x] = "new" => pay'[x] = NoPay
        /\ \A x \in Requests : pc'[x] = "answered" /\ reply'[x] \in {"tx", "notx"} => pay'[x] \in chain'
        /\ \A x \in Requests : pc'[x] = "sold" => x \in ledger'
        /\ disk'.settled \subseteq chain'
    BY <1>1, <1>2 DEF FundsAll, FundsInv
  <2>5. QED
    BY <2>1, <2>2, <2>3, <2>4 DEF FundsInv
<1>5. NoRevenueWithoutFunds'
  BY <1>1, <1>2 DEF FundsAll, BooksMatchFunds, NoRevenueWithoutFunds, Crediting
<1>6. SettledIsBooked'
  <2>1. \A q \in Requests : pc'[q] \in {"sold", "duplicate"} => pc[q] = pc'[q] /\ reply'[q] = reply[q]
    BY <1>2, <1>1
  <2>2. \A q \in Requests : pc[q] \in {"sold", "duplicate"} /\ reply[q] = "tx" => Claimed(pay[q])
    BY DEF FundsAll, BooksMatchFunds, SettledIsBooked, Claimed
  <2>3. \A q \in Requests : pc'[q] \in {"sold", "duplicate"} /\ reply'[q] = "tx" => Claimed(pay[q])'
    BY <1>1, <1>3, <2>1, <2>2
  <2>4. QED
    BY <1>1, <2>3 DEF SettledIsBooked, Claimed
<1>7. QED
  BY <1>0, <1>4, <1>5, <1>6 DEF FundsAll, BooksMatchFunds

\* How a request ends at the guard or behind it.
ClaimStep(r, how) ==
    /\ pc[r] \in {"answered", "credited"} /\ pc' = [pc EXCEPT ![r] = how]
    /\ settledTxs' \subseteq settledTxs \cup {pay[r]}
    /\ \/ how = "duplicate" /\ pay[r] \in settledTxs /\ ledger' = ledger /\ pc[r] = "answered"
       \/ how = "guarded" /\ ledger' = ledger /\ pc[r] = "answered"
          /\ (settledTxs' # settledTxs => reply[r] = "tx")
       \/ how = "sold" /\ ledger' = ledger \cup {r} /\ settledTxs' = settledTxs
       \/ how = "failed" /\ ledger' = ledger /\ settledTxs' = settledTxs /\ pc[r] = "credited"
    /\ UNCHANGED <<heap, pay, reply, chain>>

\* A request past the guard, told of a duplicate, or behind its row: a claim stays,
\* and whoever is told of one has one.
LEMMA ClaimMoves ==
    ASSUME FundsAll, TypeOK', NEW r \in Requests, NEW how, ClaimStep(r, how), pay[r] \in chain,
           FundedHeap(disk'.heap), disk'.settled \subseteq settledTxs' \cup disk.settled
    PROVE  FundsAll'
<1> USE DEF ClaimStep
<1>1. pc'[r] = how /\ \A q \in Requests \ {r} : pc'[q] = pc[q]
  BY DEF FundsAll, TypeOK
<1>2. r \notin ledger
  BY DEF FundsAll, FundsInv
<1>3. \A x : Claimed(x) => Claimed(x)'
  BY <1>1, <1>2 DEF Claimed, Crediting
<1>4. \A x \in settledTxs' : Claimed(x)'
  BY <1>1, <1>3 DEF FundsAll, FundsInv, Claimed, Crediting
<1>5. FundsInv'
  <2>1. FundedHeap(disk.heap)'
    BY DEF FundedHeap
  <2>2. \A x \in settledTxs' \cup disk'.settled : Claimed(x)'
    BY <1>3, <1>4 DEF FundsAll, FundsInv
  <2>3. \A x \in ledger' : pc'[x] = "sold"
    BY <1>1, <1>2 DEF FundsAll, FundsInv, TypeOK
  <2>4. /\ \A x \in Requests : pc'[x] = "new" => pay'[x] = NoPay
        /\ \A x \in Requests : pc'[x] = "answered" /\ reply'[x] \in {"tx", "notx"} => pay'[x] \in chain'
        /\ \A x \in Requests : pc'[x] = "sold" => x \in ledger'
    BY <1>1 DEF FundsAll, FundsInv
  <2>5. disk'.settled \subseteq chain'
    BY DEF FundsAll, FundsInv, BooksMatchFunds, NoRevenueWithoutFunds
  <2>6. QED
    BY <2>1, <2>2, <2>3, <2>4, <2>5 DEF FundsInv
<1>6. NoRevenueWithoutFunds'
  BY <1>1 DEF FundsAll, BooksMatchFunds, NoRevenueWithoutFunds, Crediting
<1>7. SettledIsBooked'
  <2>1. \A q \in Requests : pc[q] \in {"sold", "duplicate"} /\ reply[q] = "tx" => Claimed(pay[q])
    BY DEF FundsAll, BooksMatchFunds, SettledIsBooked, Claimed
  <2>2. pc'[r] \in {"sold", "duplicate"} /\ reply[r] = "tx" => Claimed(pay[r])'
    BY <1>1, <1>3 DEF FundsAll, FundsInv, Claimed
  <2>3. \A q \in Requests : pc'[q] \in {"sold", "duplicate"} /\ reply'[q] = "tx" => Claimed(pay[q])'
    BY <1>1, <1>3, <2>1, <2>2
  <2>4. QED
    BY <2>3 DEF SettledIsBooked, Claimed
<1>8. QED
  BY <1>5, <1>6, <1>7 DEF FundsAll, BooksMatchFunds

LEMMA ResumeFunds == ASSUME FundsAll, NEW r \in Requests, Resume(r) PROVE FundsAll'
<1>0. TypeOK'
  BY TypeCorrectNext DEF FundsAll, Next, Sale
<1>1. pc[r] = "answered" /\ UNCHANGED <<heap, listed, ledger, pay, reply, chain>>
  BY DEF Resume
<1>2. FundedHeap(heap') /\ FundedHeap(disk.heap) /\ disk.settled \subseteq chain /\ settledTxs \subseteq chain
  BY <1>1 DEF FundsAll, FundsInv, FundedHeap, BooksMatchFunds, NoRevenueWithoutFunds
<1>3. CASE pc' = [pc EXCEPT ![r] = "refused"] /\ UNCHANGED <<settledTxs, disk>>
  <2>1. \A q \in Requests : pc'[q] = pc[q] \/ (pc[q] \in InFlight /\ pc'[q] \in {"refused", "dropped"})
    BY <1>1, <1>3 DEF FundsAll, TypeOK, InFlight
  <2>2. QED
    BY <1>0, <1>1, <1>2, <1>3, <2>1, NothingClaimed
<1>4. CASE reply[r] \in {"tx", "notx"}
  <2>1. pay[r] \in chain
    BY <1>1, <1>4 DEF FundsAll, FundsInv
  <2>2. CASE pc' = [pc EXCEPT ![r] = "duplicate"] /\ UNCHANGED <<settledTxs, disk>> /\ pay[r] \in settledTxs
    <3>1. FundedHeap(disk'.heap) /\ disk'.settled \subseteq settledTxs' \cup disk.settled
      BY <1>2, <2>2
    <3>2. ledger' = ledger /\ settledTxs' \subseteq settledTxs \cup {pay[r]}
      BY <1>1, <2>2
    <3>3. ClaimStep(r, "duplicate")
      BY <1>1, <2>2, <3>2 DEF ClaimStep
    <3>4. QED
      BY <1>0, <2>1, <3>1, <3>2, <3>3, ClaimMoves
  <2>3. CASE pc' = [pc EXCEPT ![r] = "guarded"] /\ UNCHANGED <<settledTxs, disk>>
    <3>1. FundedHeap(disk'.heap) /\ disk'.settled \subseteq settledTxs' \cup disk.settled
      BY <1>2, <2>3
    <3>2. ledger' = ledger /\ settledTxs' = settledTxs /\ settledTxs' \subseteq settledTxs \cup {pay[r]}
      BY <1>1, <2>3
    <3>3. ClaimStep(r, "guarded")
      BY <1>1, <2>3, <3>2 DEF ClaimStep
    <3>4. QED
      BY <1>0, <2>1, <3>1, <3>2, <3>3, ClaimMoves
  <2>4. CASE /\ pc' = [pc EXCEPT ![r] = "guarded"] /\ Save
             /\ settledTxs' = settledTxs \cup {pay[r]} /\ reply[r] = "tx"
    <3>1. /\ FundedHeap(disk.heap)' /\ disk'.settled \subseteq settledTxs' \cup disk.settled
      BY <1>1, <1>2, <2>1, <2>4, SaveFunded
    <3>2. FundedHeap(disk'.heap)
      BY <1>1, <3>1 DEF FundedHeap
    <3>3. ledger' = ledger /\ settledTxs' \subseteq settledTxs \cup {pay[r]}
      BY <1>1, <2>4
    <3>4. ClaimStep(r, "guarded")
      BY <1>1, <2>4, <3>3 DEF ClaimStep
    <3>5. QED
      BY <1>0, <2>1, <3>1, <3>2, <3>3, <3>4, ClaimMoves
  <2>5. QED
    BY <1>3, <1>4, <2>2, <2>3, <2>4 DEF Resume, Finish
<1>5. QED
  BY <1>3, <1>4 DEF Resume, Finish

LEMMA RecordFunds == ASSUME FundsAll, NEW r \in Requests, Record(r) PROVE FundsAll'
<1>0. TypeOK'
  BY TypeCorrectNext DEF FundsAll, Next, Sale
<1>1. /\ pc[r] = "credited" /\ UNCHANGED <<heap, settledTxs, disk, pay, reply, chain>>
      /\ \/ ledger' = ledger \cup {r} /\ pc' = [pc EXCEPT ![r] = "sold"]
         \/ ledger' = ledger /\ pc' = [pc EXCEPT ![r] = "failed"]
  BY DEF Record, Finish, regVars
<1>2. pay[r] \in chain /\ FundedHeap(disk.heap)
  BY <1>1 DEF FundsAll, FundsInv, BooksMatchFunds, NoRevenueWithoutFunds, Crediting
<1>3. FundedHeap(disk'.heap) /\ disk'.settled \subseteq settledTxs' \cup disk.settled
  BY <1>1, <1>2
<1>4. ClaimStep(r, "sold") \/ ClaimStep(r, "failed")
  BY <1>1 DEF ClaimStep
<1>5. QED
  BY <1>0, <1>2, <1>3, <1>4, ClaimMoves

\* The steps that write a heap of funded credits, saved or not.
LEMMA HeapFunds ==
    ASSUME FundsAll, TypeOK', UNCHANGED <<ledger, pay, reply, chain, settledTxs>>,
           FundedHeap(heap'), Save \/ UNCHANGED disk,
           \A r \in Requests : pc'[r] = pc[r] \/ (pc[r] \in Crediting /\ pc'[r] = "credited")
    PROVE  FundsAll'
<1>1. FundedHeap(disk.heap) /\ disk.settled \subseteq chain /\ settledTxs \subseteq chain
  BY DEF FundsAll, FundsInv, BooksMatchFunds, NoRevenueWithoutFunds
<1>2. FundedHeap(disk'.heap) /\ disk'.settled \subseteq settledTxs \cup disk.settled
  <2>1. CASE UNCHANGED disk
    BY <1>1, <2>1
  <2>2. CASE Save
    <3>1. FundedHeap(disk.heap)' /\ disk'.settled \subseteq settledTxs \cup disk.settled
      BY <1>1, <2>2, SaveFunded
    <3>2. QED
      BY <3>1 DEF FundedHeap
  <2>3. QED
    BY <2>1, <2>2
<1>3. QED
  BY <1>2, NothingClaimed

LEMMA CreditFunds == ASSUME FundsAll, NEW r \in Requests, Credit(r) PROVE FundsAll'
<1>0. TypeOK'
  BY TypeCorrectNext DEF FundsAll, Next, Sale
<1>1. /\ pc[r] = "guarded" /\ pc' = [pc EXCEPT ![r] = "credited"] /\ Save
      /\ UNCHANGED <<ledger, pay, reply, chain, settledTxs>>
      /\ heap' = [heap EXCEPT ![obj[r]] = Sold(heap[obj[r]], r)]
  BY DEF Credit
<1>2. pay[r] \in chain /\ FundedHeap(heap) /\ heap \in [Objs -> Product]
  BY <1>1 DEF FundsAll, BooksMatchFunds, NoRevenueWithoutFunds, Crediting, FundedHeap, TypeOK
<1>3. \A o \in Objs : heap'[o].credits \subseteq heap[o].credits \cup {r}
  <2>1. Sold(heap[obj[r]], r).credits = heap[obj[r]].credits \cup {r} \/ obj[r] \notin Objs
    BY <1>2 DEF Sold, Product
  <2> DEFINE x == Sold(heap[obj[r]], r)
  <2>2. heap' = [heap EXCEPT ![obj[r]] = x] /\ (x.credits = heap[obj[r]].credits \cup {r} \/ obj[r] \notin Objs)
    BY <1>1, <2>1
  <2> HIDE DEF x
  <2>3. QED
    BY <1>2, <2>2
<1>4. FundedHeap(heap')
  BY <1>1, <1>2, <1>3 DEF FundedHeap
<1>5. \A q \in Requests : pc'[q] = pc[q] \/ (pc[q] \in Crediting /\ pc'[q] = "credited")
  BY <1>1 DEF FundsAll, TypeOK, Crediting
<1>6. QED
  BY <1>0, <1>1, <1>4, <1>5, HeapFunds

\* The publisher lists objects without credits, or hands credits on.
LEMMA PublisherFunds == ASSUME FundsAll, NEW t \in Tasks, Publisher(t) PROVE FundsAll'
<1>0. TypeOK'
  BY TypeCorrectNext DEF FundsAll, Next
<1>1. UNCHANGED <<ledger, pc, pay, reply, chain, settledTxs>> /\ (Save \/ UNCHANGED disk)
  BY DEF Publisher, KeepPinned, StartRebuild, StartPublish, ListProduct, PublishFails,
         CarryOver, PruneAfterRebuild, Prune, regVars, reqVars
<1>2. FundedHeap(heap) /\ heap \in [Objs -> Product]
  BY DEF FundsAll, BooksMatchFunds, NoRevenueWithoutFunds, FundedHeap, TypeOK
<1>3. CASE heap' = heap
  <2>1. FundedHeap(heap')
    BY <1>2, <1>3
  <2>2. QED
    BY <1>0, <1>1, <2>1, HeapFunds
<1>4. CASE ListProduct(t)
  <2> DEFINE new == CHOOSE o \in Objs : Unreferenced(o)
  <2>1. heap' = [o \in Objs |-> IF o = new THEN FreshProduct(tpid[t])
                                ELSE IF Unreferenced(o) THEN Blank ELSE heap[o]]
    BY <1>4 DEF ListProduct
  <2> HIDE DEF new
  <2>2. FundedHeap(heap')
    BY <1>2, <2>1 DEF FundedHeap, FreshProduct, Blank
  <2>3. QED
    BY <1>0, <1>1, <2>2, HeapFunds
<1>5. CASE CarryOver(t) /\ existing[t] # NoObj
  <2> DEFINE x == Earning(heap[listed[Pinned]], heap[existing[t]].credits)
  <2>1. heap' = [heap EXCEPT ![listed[Pinned]] = x] /\ existing[t] \in Objs /\ listed[Pinned] \in Objs
    BY <1>5 DEF CarryOver, FundsAll, TypeOK
  <2>2. x.credits = heap[existing[t]].credits
    BY <1>2, <2>1 DEF Earning, Product
  <2> HIDE DEF x
  <2>3. FundedHeap(heap')
    BY <1>2, <2>1, <2>2 DEF FundedHeap
  <2>4. QED
    BY <1>0, <1>1, <2>3, HeapFunds
<1>6. QED
  BY <1>3, <1>4, <1>5 DEF Publisher, KeepPinned, StartRebuild, StartPublish, PublishFails,
     CarryOver, PruneAfterRebuild, Prune, regVars

LEMMA CrashFunds == ASSUME FundsAll, Crash PROVE FundsAll'
<1>0. TypeOK'
  BY TypeCorrectNext DEF FundsAll, Next
<1>1. /\ UNCHANGED <<disk, ledger, pay, reply, chain>>
      /\ heap' = disk.heap /\ settledTxs' = disk.settled
      /\ pc' = [q \in Requests |-> IF pc[q] \in Crediting THEN "cut"
                                   ELSE IF pc[q] \in InFlight THEN "dropped" ELSE pc[q]]
  BY DEF Crash
<1>2. FundedHeap(disk.heap)
  BY DEF FundsAll, FundsInv
<1>3. \A q \in Requests : \/ pc'[q] = pc[q] \/ (pc[q] \in InFlight /\ pc'[q] = "dropped")
                          \/ (pc[q] \in Crediting /\ pc'[q] = "cut")
  BY <1>1
<1>4. FundedHeap(heap') /\ FundedHeap(disk'.heap) /\ settledTxs' \subseteq settledTxs \cup disk.settled
      /\ disk'.settled \subseteq settledTxs \cup disk.settled
  BY <1>1, <1>2
<1>5. QED
  BY <1>0, <1>1, <1>3, <1>4, NothingClaimed

LEMMA FundsInit == Init => FundsAll
<1> SUFFICES ASSUME Init PROVE FundsAll
  OBVIOUS
<1>1. TypeOK
  BY TypeCorrectInit
<1>2. disk.settled = {} /\ \A o \in Objs : heap[o].credits = {} /\ disk.heap[o].credits = {}
  BY DEF Init, Snapshot, Blank
<1>3. FundsInv
  BY <1>2 DEF Init, FundsInv, FundedHeap
<1>4. BooksMatchFunds
  BY <1>2 DEF Init, BooksMatchFunds, NoRevenueWithoutFunds, SettledIsBooked, Crediting
<1>5. QED
  BY <1>1, <1>3, <1>4 DEF FundsAll

LEMMA FundsNext == FundsAll /\ [Next]_vars => FundsAll'
<1> SUFFICES ASSUME FundsAll, [Next]_vars PROVE FundsAll'
  OBVIOUS
<1>1. ASSUME NEW r \in Requests, Sale(r) PROVE FundsAll'
  <2>1. ASSUME NEW valid \in BOOLEAN, Verify(r, valid) PROVE FundsAll'
    <3>0. TypeOK'
      BY <1>1, TypeCorrectNext DEF FundsAll, Next
    <3>1. /\ UNCHANGED <<heap, settledTxs, disk, ledger, pay, reply, chain>> /\ pc[r] = "verifying"
          /\ pc' = [pc EXCEPT ![r] = "settling"] \/ pc' = [pc EXCEPT ![r] = "refused"]
      BY <2>1 DEF Verify, Finish, regVars
    <3>2. FundedHeap(heap') /\ FundedHeap(disk'.heap)
      BY <3>1 DEF FundsAll, FundsInv, BooksMatchFunds, NoRevenueWithoutFunds, FundedHeap
    <3>3. \A q \in Requests : \/ pc'[q] = pc[q] \/ (pc[q] \in InFlight /\ pc'[q] \in {"refused", "dropped"})
                              \/ (pc[q] = "verifying" /\ pc'[q] = "settling")
      BY <3>1 DEF FundsAll, TypeOK, InFlight
    <3>4. QED
      BY <3>0, <3>1, <3>2, <3>3, NothingClaimed
  <2>2. QED
    BY <1>1, <2>1, SubmitFunds, SettleFunds, ResumeFunds, CreditFunds, RecordFunds DEF Sale
<1>2. ASSUME UNCHANGED vars PROVE FundsAll'
  BY <1>2 DEF vars, FundsAll, TypeOK, FundsInv, FundedHeap, Claimed, BooksMatchFunds,
     NoRevenueWithoutFunds, SettledIsBooked
<1>3. QED
  BY <1>1, <1>2, PublisherFunds, CrashFunds DEF Next

\* Whatever is saved or not, lost, retried or cut off: nothing is sold, credited or
\* booked on funds that did not move, and nobody is told of a sale that no request
\* has claimed.
THEOREM FundsTheorem == Spec => []BooksMatchFunds
<1>1. FundsAll => BooksMatchFunds
  BY DEF FundsAll
<1>2. QED
  BY FundsInit, FundsNext, <1>1, PTL DEF Spec

-----------------------------------------------------------------------------
(* The refinement.  No payment is "double", for LedgerOncePerTx is invariant; *)
(* a row is of a guarded tx and a guarded tx of funds that moved, so that a   *)
(* payment's stages come one after the other.                                 *)

BookedTx(p) == \E r \in Requests : TxRow(r) /\ pay[r] = p

LEMMA StageNow ==
    LedgerOncePerTx => \A p \in Payments :
        Stage(p) = IF BookedTx(p) THEN "booked" ELSE IF p \in settledTxs THEN "claimed"
                   ELSE IF p \in chain THEN "paid" ELSE "unpaid"
  BY DEF LedgerOncePerTx, Stage, BookedTx

LEMMA StageThen ==
    LedgerOncePerTx' => \A p \in Payments :
        Stage(p)' = IF BookedTx(p)' THEN "booked" ELSE IF p \in settledTxs' THEN "claimed"
                    ELSE IF p \in chain' THEN "paid" ELSE "unpaid"
  BY DEF LedgerOncePerTx, Stage, BookedTx, TxRow

\* A step that leaves rows, guard and chain alone is a stutter of the book.
LEMMA BookStutters ==
    ASSUME LedgerOncePerTx, LedgerOncePerTx', UNCHANGED <<settledTxs, chain>>,
           \A p \in Payments : BookedTx(p)' <=> BookedTx(p)
    PROVE  UNCHANGED stages
<1>1. \A p \in Payments : Stage(p)' = Stage(p)
  BY StageNow, StageThen
<1>2. QED
  BY <1>1 DEF stages

\* Nothing happens to another payment.
OthersStay(p) ==
    \A x \in Payments \ {p} : /\ (BookedTx(x)' <=> BookedTx(x))
                             /\ (x \in settledTxs' <=> x \in settledTxs)
                             /\ (x \in chain' <=> x \in chain)

\* A step that moves one payment on is a step of the book.
LEMMA BookMoves ==
    ASSUME LedgerOncePerTx, LedgerOncePerTx', NEW p \in Payments,
           OthersStay(p),
           \/ Stage(p) = "unpaid" /\ Stage(p)' = "paid"
           \/ Stage(p) = "paid" /\ Stage(p)' = "claimed"
           \/ Stage(p) = "claimed" /\ Stage(p)' = "booked"
    PROVE  Book!Next
<1>1. ASSUME NEW x \in Payments \ {p} PROVE Stage(x)' = Stage(x)
  <2>1. x \in Payments /\ OthersStay(p)
    OBVIOUS
  <2>2. (BookedTx(x)' <=> BookedTx(x)) /\ (x \in settledTxs' <=> x \in settledTxs) /\ (x \in chain' <=> x \in chain)
    BY <2>1 DEF OthersStay
  <2>3. QED
    BY <2>1, <2>2, StageNow, StageThen
<1>2. stages[p] = Stage(p) /\ stages' = [stages EXCEPT ![p] = Stage(p)']
  BY <1>1 DEF stages
<1>3. Book!Pay(p) \/ Book!Claim(p) \/ Book!Book(p)
  BY <1>2 DEF Book!Pay, Book!Claim, Book!Book
<1>4. QED
  BY <1>3 DEF Book!Next

BookInv == FundsAll /\ GuardCovers /\ SameGuard /\ LedgerOncePerTx

LEMMA BookStep ==
    ASSUME BookInv, BookInv', [Next]_vars
    PROVE  [Book!Next]_stages
<1>0. LedgerOncePerTx /\ LedgerOncePerTx' /\ TypeOK /\ TypeOK'
  BY DEF BookInv, FundsAll
<1>1. \A p \in Payments : BookedTx(p) => p \in settledTxs
  BY DEF BookedTx, TxRow, BookInv, GuardCovers, PastGuard
<1>2. settledTxs \subseteq chain
  BY DEF BookInv, FundsAll, BooksMatchFunds, NoRevenueWithoutFunds
<1>3. \A q \in Requests : q \in ledger => pc[q] = "sold"
  BY DEF BookInv, GuardCovers
<1>4. ASSUME UNCHANGED <<ledger, reply, pay, settledTxs, chain>> PROVE UNCHANGED stages
  BY <1>0, <1>4, BookStutters DEF BookedTx, TxRow
<1>5. ASSUME NEW r \in Requests, NEW p \in Payments, NEW i \in Pids, Submit(r, p, i)
      PROVE  UNCHANGED stages
  <2>1. /\ pc[r] = "new" /\ UNCHANGED <<ledger, reply, settledTxs, chain>>
        /\ \A q \in Requests \ {r} : pay'[q] = pay[q]
    BY <1>0, <1>5 DEF Submit, regVars, TypeOK
  <2>2. r \notin ledger
    BY <1>3, <2>1
  <2>3. QED
    BY <1>0, <2>1, <2>2, BookStutters DEF BookedTx, TxRow
<1>6. ASSUME NEW r \in Requests, NEW moves \in BOOLEAN, NEW answer \in {"tx", "notx", "error"},
             FacilitatorSettle(r, moves, answer)
      PROVE  Book!Next \/ UNCHANGED stages
  <2>1. /\ pc[r] = "settling" /\ UNCHANGED <<ledger, pay, settledTxs>>
        /\ \A q \in Requests \ {r} : reply'[q] = reply[q]
        /\ \/ chain' = chain
           \/ chain' = chain \cup {pay[r]} /\ pay[r] \notin chain
    BY <1>0, <1>6 DEF FacilitatorSettle, regVars, TypeOK
  <2>2. r \notin ledger /\ pay[r] \in Payments
    BY <1>0, <1>3, <2>1 DEF TypeOK, InFlight
  <2>3. \A p \in Payments : BookedTx(p)' <=> BookedTx(p)
    BY <2>1, <2>2 DEF BookedTx, TxRow
  <2>4. CASE chain' = chain
    BY <1>0, <2>1, <2>3, <2>4, BookStutters
  <2>5. CASE chain' = chain \cup {pay[r]} /\ pay[r] \notin chain
    <3>1. PICK p \in Payments : p = pay[r]
      BY <2>2
    <3>2. Stage(p) = "unpaid" /\ Stage(p)' = "paid"
      BY <1>0, <1>1, <1>2, <2>1, <2>3, <2>5, <3>1, StageNow, StageThen
    <3>3. OthersStay(p)
      BY <2>1, <2>3, <2>5, <3>1 DEF OthersStay
    <3>4. QED
      BY <1>0, <3>2, <3>3, BookMoves
  <2>6. QED
    BY <2>1, <2>4, <2>5
<1>7. ASSUME NEW r \in Requests, Resume(r) PROVE Book!Next \/ UNCHANGED stages
  <2>1. /\ pc[r] = "answered" /\ UNCHANGED <<ledger, reply, pay, chain>>
        /\ \/ settledTxs' = settledTxs
           \/ /\ reply[r] = "tx" /\ pay[r] \notin settledTxs
              /\ settledTxs' = settledTxs \cup {pay[r]}
    BY <1>7 DEF Resume
  <2>2. CASE settledTxs' = settledTxs
    BY <1>4, <2>1, <2>2
  <2>3. CASE /\ reply[r] = "tx" /\ pay[r] \notin settledTxs
             /\ settledTxs' = settledTxs \cup {pay[r]}
    <3>1. PICK p \in Payments : p = pay[r] /\ p \in chain
      BY <1>0, <2>1, <2>3 DEF TypeOK, InFlight, BookInv, FundsAll, FundsInv
    <3>2. \A x \in Payments : BookedTx(x)' <=> BookedTx(x)
      BY <2>1 DEF BookedTx, TxRow
    <3>3. Stage(p) = "paid" /\ Stage(p)' = "claimed"
      BY <1>0, <1>1, <2>1, <2>3, <3>1, <3>2, StageNow, StageThen
    <3>4. OthersStay(p)
      BY <2>1, <2>3, <3>1, <3>2 DEF OthersStay
    <3>5. QED
      BY <1>0, <3>3, <3>4, BookMoves
  <2>4. QED
    BY <2>1, <2>2, <2>3
<1>8. ASSUME NEW r \in Requests, Record(r) PROVE Book!Next \/ UNCHANGED stages
  <2>1. /\ pc[r] = "credited" /\ UNCHANGED <<reply, pay, settledTxs, chain>>
        /\ ledger' = ledger \/ ledger' = ledger \cup {r}
    BY <1>8 DEF Record, regVars
  <2>2. CASE ledger' = ledger \/ reply[r] # "tx"
    <3>1. \A p \in Payments : BookedTx(p)' <=> BookedTx(p)
      BY <2>1, <2>2 DEF BookedTx, TxRow
    <3>2. QED
      BY <1>0, <2>1, <3>1, BookStutters
  <2>3. CASE ledger' = ledger \cup {r} /\ reply[r] = "tx"
    <3>1. PICK p \in Payments : p = pay[r] /\ p \in settledTxs
      BY <1>0, <2>1, <2>3 DEF TypeOK, Crediting, BookInv, GuardCovers, PastGuard
    <3>2. ~BookedTx(p)
      <4>1. PastGuard(r) /\ r \notin ledger
        BY <1>3, <2>1, <2>3 DEF PastGuard, Crediting
      <4>2. \A q \in Requests : TxRow(q) => PastGuard(q)
        BY <1>3 DEF TxRow, PastGuard
      <4>3. QED
        BY <3>1, <4>1, <4>2 DEF BookedTx, TxRow, BookInv, GuardCovers
    <3>3. BookedTx(p)' /\ \A x \in Payments \ {p} : BookedTx(x)' <=> BookedTx(x)
      BY <2>1, <2>3, <3>1 DEF BookedTx, TxRow
    <3>4. Stage(p) = "claimed" /\ Stage(p)' = "booked"
      <4>1. Stage(p) = "claimed"
        BY <1>0, <3>1, <3>2, StageNow
      <4>2. pay' = pay
        BY <2>1
      <4>3. Stage(p)' = "booked"
        BY <1>0, <3>1, <3>3, <4>2, StageThen
      <4>4. QED
        BY <4>1, <4>3
    <3>5. OthersStay(p)
      BY <2>1, <3>3 DEF OthersStay
    <3>6. QED
      BY <1>0, <3>1, <3>4, <3>5, BookMoves
  <2>4. QED
    BY <2>1, <2>2, <2>3
<1>9. ASSUME \/ \E r \in Requests : Credit(r) \/ \E valid \in BOOLEAN : Verify(r, valid)
             \/ \E t \in Tasks : Publisher(t)
             \/ UNCHANGED vars
      PROVE  UNCHANGED stages
  <2>1. UNCHANGED <<ledger, reply, pay, settledTxs, chain>>
    BY <1>9 DEF Credit, Verify, Publisher, KeepPinned, StartRebuild, StartPublish, ListProduct,
       PublishFails, CarryOver, PruneAfterRebuild, Prune, regVars, reqVars, vars
  <2>2. QED
    BY <1>4, <2>1
\* A restart loads the guard that the process had.
<1>10. ASSUME Crash PROVE UNCHANGED stages
  <2>1. UNCHANGED <<ledger, reply, pay, settledTxs, chain>>
    BY <1>10 DEF Crash, BookInv, SameGuard
  <2>2. QED
    BY <1>4, <2>1
<1>11. QED
  BY <1>5, <1>6, <1>7, <1>8, <1>9, <1>10 DEF Next, Sale

LEMMA BookInvInit ==
    ASSUME Durable, "save" \notin FaultKinds
    PROVE  Init => BookInv
  BY FundsInit DEF Init, BookInv, GuardCovers, PastGuard, SameGuard, Snapshot, Crediting,
     LedgerOncePerTx, TxRow

LEMMA BookInvNext ==
    ASSUME Durable, "save" \notin FaultKinds, BookInv, [Next]_vars
    PROVE  BookInv'
<1>1. FundsAll'
  BY FundsNext DEF BookInv
<1>2. TypeOK' /\ GuardCovers' /\ SameGuard'
  BY GuardNext DEF BookInv, FundsAll
<1>3. LedgerOncePerTx'
  BY <1>2 DEF GuardCovers, PastGuard, LedgerOncePerTx, TxRow, TypeOK
<1>4. QED
  BY <1>1, <1>2, <1>3 DEF BookInv

\* Under a working snapshot backend the sale implements the book, for any number of
\* requests, payments, listings and publishers: every payment is paid, claimed and
\* booked in this order, each once, and a restart takes none of it back.
THEOREM BookTheorem ==
    ASSUME Durable, "save" \notin FaultKinds
    PROVE  Spec => RefinesSaleBook
<1>1. Init => BookInv
  BY BookInvInit
<1>2. BookInv /\ [Next]_vars => BookInv'
  BY BookInvNext
<1>3. Init => Book!Init
  BY DEF Init, Book!Init, stages, Stage, TxRow
<1>4. BookInv /\ BookInv' /\ [Next]_vars => [Book!Next]_stages
  BY BookStep
<1>5. QED
  BY <1>1, <1>2, <1>3, <1>4, PTL DEF Spec, RefinesSaleBook, Book!Spec

-----------------------------------------------------------------------------
(* The registry.  The snapshot is the registry at every step; a product object *)
(* belongs to one id for as long as somebody holds it; whoever is about to     *)
(* replace the pinned listing holds the object that is listed; and a booked    *)
(* sale is with the listed object, or with the one that is being carried over. *)

SameDisk == disk = Snapshot(heap, listed, settledTxs)

\* One stretch without awaits at a time.
Alone ==
    /\ \A q, r \in Requests : pc[q] \in Crediting /\ pc[r] \in Crediting => q = r
    /\ \A t, u \in Tasks : tpc[t] \in {"relisted", "carried"} /\ tpc[u] \in {"relisted", "carried"} => t = u
    /\ \A r \in Requests, t \in Tasks : pc[r] \in Crediting => tpc[t] \notin {"relisted", "carried"}

Dealt == {"credited", "sold", "cut", "failed"}

Owned ==
    /\ \A p \in Pids : listed[p] # NoObj => p \in issued /\ heap[listed[p]].pid = p
    /\ \A o \in Objs : \A r \in heap[o].credits :
          pid[r] = heap[o].pid /\ pid[r] \in Pids /\ pc[r] \in Dealt
    /\ \A r \in Requests : obj[r] # NoObj => heap[obj[r]].pid = pid[r]
    /\ \A t \in Tasks : existing[t] # NoObj => heap[existing[t]].pid = Pinned

Targets ==
    /\ Pinned \in issued
    /\ \A t \in Tasks : tpid[t] # NoPid => tpid[t] \in issued
    /\ \A t, u \in Tasks : tpid[t] = tpid[u] /\ t # u => tpid[t] = NoPid
    /\ \A t \in Tasks : tpc[t] = "publishing" =>
          IF tpid[t] = Pinned THEN existing[t] = listed[Pinned] ELSE listed[tpid[t]] = NoObj
    /\ \A t \in Tasks : tpc[t] \in {"relisted", "carried"} => tpid[t] = Pinned
    /\ \A t \in Tasks : tpc[t] = "relisted" => heap[listed[Pinned]].credits = {}

Shown(r) ==
    /\ pid[r] \in Pids /\ listed[pid[r]] # NoObj
    /\ \/ r \in heap[listed[pid[r]]].credits
       \/ pid[r] = Pinned /\ r \in Uncarried
Kept == \A r \in Requests \ orphaned : r \in ledger \/ pc[r] = "credited" => Shown(r)

RegInv == SameDisk /\ Alone /\ Owned /\ Targets /\ Kept

LEMMA SaveIsNow ==
    ASSUME Durable, "save" \notin FaultKinds, Save PROVE SameDisk'
  BY DEF Save, Fault, SameDisk

\* Pruning removes only what has no credits, and never the pinned id.
LEMMA PruneEffect ==
    ASSUME TypeOK, Prune
    PROVE  /\ UNCHANGED <<heap, settledTxs>> /\ listed'[Pinned] = listed[Pinned]
           /\ \A p \in Pids : \/ listed'[p] = listed[p]
                              \/ listed'[p] = NoObj /\ heap[listed[p]].credits = {}
           /\ listed' = listed \/ Save
<1>1. /\ listed' = [p \in Pids |-> IF p \in Superseded(heap, listed) THEN NoObj ELSE listed[p]]
      /\ UNCHANGED <<heap, settledTxs>>
      /\ Superseded(heap, listed) = {} \/ Save
  BY DEF Prune
<1>2. /\ Pinned \notin Superseded(heap, listed)
      /\ \A p \in Superseded(heap, listed) : heap[listed[p]].credits = {}
  BY DEF Superseded
<1>3. listed \in [Pids -> Objs \cup {NoObj}]
  BY DEF TypeOK
<1>4. CASE Superseded(heap, listed) = {}
  <2>1. listed' = listed
    BY <1>1, <1>3, <1>4
  <2>2. QED
    BY <1>1, <2>1
<1>5. CASE Save
  <2>1. \A p \in Pids : listed'[p] = IF p \in Superseded(heap, listed) THEN NoObj ELSE listed[p]
    BY <1>1
  <2>2. Pinned \in Pids
    OBVIOUS
  <2>3. QED
    BY <1>1, <1>2, <1>5, <2>1, <2>2
<1>6. QED
  BY <1>1, <1>4, <1>5

LEMMA CreditEffect ==
    ASSUME TypeOK, NEW r \in Requests, Credit(r)
    PROVE  /\ obj[r] \in Objs /\ pid[r] \in Pids
           /\ \A o \in Objs : /\ heap'[o].pid = heap[o].pid
                              /\ o # obj[r] => heap'[o] = heap[o]
           /\ heap'[obj[r]].credits = heap[obj[r]].credits \cup {r}
<1>1. obj[r] \in Objs /\ pid[r] \in Pids /\ heap \in [Objs -> Product]
  BY DEF Credit, TypeOK, Crediting
<1> DEFINE x == Sold(heap[obj[r]], r)
<1>2. x.pid = heap[obj[r]].pid /\ x.credits = heap[obj[r]].credits \cup {r}
  BY <1>1 DEF Sold, Product
<1>3. heap' = [heap EXCEPT ![obj[r]] = x]
  BY DEF Credit
<1> HIDE DEF x
<1>4. QED
  BY <1>1, <1>2, <1>3

LEMMA ListEffect ==
    ASSUME TypeOK, NEW t \in Tasks, ListProduct(t)
    PROVE  \E new \in Objs :
               /\ Unreferenced(new) /\ heap'[new].pid = tpid[t] /\ heap'[new].credits = {}
               /\ listed' = [listed EXCEPT ![tpid[t]] = new] /\ tpid[t] \in Pids
               /\ \A o \in Objs : o # new => IF Unreferenced(o) THEN heap'[o].credits = {}
                                                 ELSE heap'[o] = heap[o]
<1> DEFINE new == CHOOSE o \in Objs : Unreferenced(o)
<1>1. new \in Objs /\ Unreferenced(new) /\ tpid[t] \in Pids
  BY DEF ListProduct, TypeOK
<1>2. /\ heap' = [o \in Objs |-> IF o = new THEN FreshProduct(tpid[t])
                               ELSE IF Unreferenced(o) THEN Blank ELSE heap[o]]
      /\ listed' = [listed EXCEPT ![tpid[t]] = new]
  BY DEF ListProduct
<1> HIDE DEF new
<1>3. QED
  BY <1>1, <1>2 DEF FreshProduct, Blank

LEMMA CarryEffect ==
    ASSUME TypeOK, NEW t \in Tasks, CarryOver(t), existing[t] # NoObj
    PROVE  /\ listed[Pinned] \in Objs /\ existing[t] \in Objs /\ Save
           /\ \A o \in Objs : /\ heap'[o].pid = heap[o].pid
                              /\ o # listed[Pinned] => heap'[o] = heap[o]
           /\ heap'[listed[Pinned]].credits = heap[existing[t]].credits
<1>1. listed[Pinned] \in Objs /\ existing[t] \in Objs /\ heap \in [Objs -> Product]
  BY DEF CarryOver, TypeOK
<1> DEFINE x == Earning(heap[listed[Pinned]], heap[existing[t]].credits)
<1>2. x.pid = heap[listed[Pinned]].pid /\ x.credits = heap[existing[t]].credits
  BY <1>1 DEF Earning, Product
<1>3. heap' = [heap EXCEPT ![listed[Pinned]] = x] /\ Save
  BY DEF CarryOver
<1> HIDE DEF x
<1>4. QED
  BY <1>1, <1>2, <1>3

LEMMA DiskNext ==
    ASSUME Durable, "save" \notin FaultKinds, TypeOK, SameDisk, [Next]_vars
    PROVE  SameDisk'
<1>1. ASSUME UNCHANGED <<heap, listed, settledTxs, disk>> PROVE SameDisk'
  BY <1>1 DEF SameDisk
<1>2. ASSUME Prune PROVE SameDisk'
  BY <1>2, SaveIsNow, <1>1, PruneEffect DEF Prune
<1>3. ASSUME NEW r \in Requests, Sale(r) PROVE SameDisk'
  <2>1. UNCHANGED <<heap, listed, settledTxs, disk>> \/ Save
    BY <1>3 DEF Sale, Submit, Verify, FacilitatorSettle, Resume, Credit, Record, regVars
  <2>2. QED
    BY <1>1, <2>1, SaveIsNow
<1>4. ASSUME NEW t \in Tasks, Publisher(t) PROVE SameDisk'
  <2>1. UNCHANGED <<heap, listed, settledTxs, disk>> \/ Save \/ Prune
    BY <1>4 DEF Publisher, KeepPinned, StartRebuild, StartPublish, ListProduct, PublishFails,
       CarryOver, PruneAfterRebuild, regVars
  <2>2. QED
    BY <1>1, <1>2, <2>1, SaveIsNow
<1>5. ASSUME Crash PROVE SameDisk'
  <2>1. heap' = disk.heap /\ listed' = disk.listed /\ settledTxs' = disk.settled /\ disk' = disk
    BY <1>5 DEF Crash
  <2>2. disk = [heap |-> [o \in Objs |-> IF \E p \in Pids : listed[p] = o THEN heap[o] ELSE Blank],
                listed |-> listed, settled |-> settledTxs]
    BY DEF SameDisk, Snapshot
  <2>3. \A o \in Objs : disk.heap[o] = IF \E p \in Pids : listed[p] = o THEN heap[o] ELSE Blank
    BY <2>2
  <2>4. [o \in Objs |-> IF \E p \in Pids : listed[p] = o THEN disk.heap[o] ELSE Blank] = disk.heap
    BY <2>2, <2>3
  <2>5. QED
    BY <2>1, <2>2, <2>4 DEF SameDisk, Snapshot
<1>6. CASE UNCHANGED vars
  BY <1>1, <1>6 DEF vars
<1>7. QED
  BY <1>3, <1>4, <1>5, <1>6 DEF Next

LEMMA AloneNext == ASSUME TypeOK, Alone, [Next]_vars PROVE Alone'
<1>1. ASSUME UNCHANGED <<pc, tpc>> PROVE Alone'
  BY <1>1 DEF Alone
<1>2. ASSUME NEW r \in Requests, Sale(r) PROVE Alone'
  <2>1. tpc' = tpc /\ \A q \in Requests \ {r} : pc'[q] = pc[q]
    BY <1>2 DEF Sale, Submit, Verify, FacilitatorSettle, Resume, Credit, Record, Finish, taskVars, TypeOK
  <2>2. pc'[r] \in Crediting => pc[r] \in Crediting \/ ~Busy
    BY <1>2 DEF Sale, Submit, Verify, FacilitatorSettle, Resume, Credit, Record, Finish, Crediting, TypeOK
  <2>3. QED
    BY <2>1, <2>2 DEF Alone, Busy
<1>3. ASSUME NEW t \in Tasks, Publisher(t) PROVE Alone'
  <2>1. pc' = pc /\ \A u \in Tasks \ {t} : tpc'[u] = tpc[u]
    BY <1>3 DEF Publisher, KeepPinned, StartRebuild, StartPublish, ListProduct, PublishFails,
       CarryOver, PruneAfterRebuild, Idle, reqVars, taskVars, TypeOK
  <2>2. tpc'[t] \in {"relisted", "carried"} => tpc[t] \in {"relisted", "carried"} \/ ~Busy
    BY <1>3 DEF Publisher, KeepPinned, StartRebuild, StartPublish, ListProduct, PublishFails,
       CarryOver, PruneAfterRebuild, Idle, taskVars, TypeOK
  <2>3. QED
    BY <2>1, <2>2 DEF Alone, Busy
<1>4. ASSUME Crash PROVE Alone'
  BY <1>4 DEF Crash, Alone, Crediting, InFlight
<1>5. QED
  BY <1>1, <1>2, <1>3, <1>4 DEF Next, vars

\* Who is credited, listed and held belongs to one id, through every step.
LEMMA OwnedNext ==
    ASSUME Durable, "save" \notin FaultKinds, TypeOK, SameDisk, Owned, Targets, [Next]_vars
    PROVE  Owned'
<1>1. ASSUME NEW r \in Requests, NEW p \in Payments, NEW i \in Pids, Submit(r, p, i) PROVE Owned'
  <2>1. /\ pc[r] = "new" /\ UNCHANGED <<heap, listed, issued, existing>>
        /\ \A q \in Requests \ {r} : pc'[q] = pc[q] /\ pid'[q] = pid[q] /\ obj'[q] = obj[q]
    BY <1>1 DEF Submit, regVars, taskVars, TypeOK
  <2>2. \A o \in Objs : r \notin heap[o].credits
    BY <2>1 DEF Owned, Dealt
  <2>3. obj'[r] # NoObj => heap[obj'[r]].pid = pid'[r]
    BY <1>1 DEF Submit, Owned, TypeOK
  <2>4. \A o \in Objs : \A q \in heap'[o].credits :
            pid'[q] = heap'[o].pid /\ pid'[q] \in Pids /\ pc'[q] \in Dealt
    <3>1. TAKE o \in Objs
    <3>2. TAKE q \in heap'[o].credits
    <3>3. q \in Requests \ {r} /\ q \in heap[o].credits
      BY <2>1, <2>2 DEF TypeOK, Product
    <3>4. QED
      BY <2>1, <3>3 DEF Owned
  <2>5. \A q \in Requests : obj'[q] # NoObj => heap'[obj'[q]].pid = pid'[q]
    BY <2>1, <2>3 DEF Owned
  <2>6. QED
    BY <2>1, <2>4, <2>5 DEF Owned
<1>2. ASSUME NEW r \in Requests,
             \/ \E valid \in BOOLEAN : Verify(r, valid)
             \/ \E m \in BOOLEAN, a \in {"tx", "notx", "error"} : FacilitatorSettle(r, m, a)
             \/ Resume(r) \/ Record(r)
      PROVE  Owned'
  <2>1. UNCHANGED <<heap, listed, issued, pid, existing>>
    BY <1>2 DEF Verify, FacilitatorSettle, Resume, Record, regVars, taskVars
  <2>2. \A q \in Requests : /\ obj'[q] \in {obj[q], NoObj}
                            /\ pc[q] \in Dealt => pc'[q] \in Dealt
    BY <1>2 DEF Verify, FacilitatorSettle, Resume, Record, Finish, Dealt, TypeOK
  <2>3. QED
    BY <2>1, <2>2 DEF Owned, TypeOK, Product
<1>3. ASSUME NEW r \in Requests, Credit(r) PROVE Owned'
  <2>1. /\ UNCHANGED <<listed, issued, pid, obj, existing>>
        /\ pc' = [pc EXCEPT ![r] = "credited"]
    BY <1>3 DEF Credit, taskVars
  <2>2. \A q \in Requests : pc[q] \in Dealt => pc'[q] \in Dealt
    BY <2>1 DEF Dealt, TypeOK
  <2>3. heap[obj[r]].pid = pid[r] /\ pid[r] \in Pids /\ pc'[r] \in Dealt
    BY <1>3, <2>1, CreditEffect DEF Owned, Dealt, TypeOK
  <2>4. /\ obj[r] \in Objs
        /\ \A o \in Objs : heap'[o].pid = heap[o].pid /\ (o # obj[r] => heap'[o] = heap[o])
        /\ heap'[obj[r]].credits = heap[obj[r]].credits \cup {r}
    BY <1>3, CreditEffect
  <2>5. \A o \in Objs : \A q \in heap'[o].credits :
            pid'[q] = heap'[o].pid /\ pid'[q] \in Pids /\ pc'[q] \in Dealt
    <3>1. TAKE o \in Objs
    <3>2. TAKE q \in heap'[o].credits
    <3>3. q \in heap[o].credits \/ (o = obj[r] /\ q = r)
      BY <2>4
    <3>4. CASE q \in heap[o].credits
      <4>1. q \in Requests
        BY <3>4 DEF TypeOK, Product
      <4>2. QED
        BY <2>1, <2>2, <2>4, <3>4, <4>1 DEF Owned
    <3>5. CASE o = obj[r] /\ q = r
      BY <2>1, <2>3, <2>4, <3>5
    <3>6. QED
      BY <3>3, <3>4, <3>5
  <2>6. \A p \in Pids : listed'[p] # NoObj => p \in issued' /\ heap'[listed'[p]].pid = p
    BY <2>1, <2>4 DEF Owned, TypeOK
  <2>7. \A q \in Requests : obj'[q] # NoObj => heap'[obj'[q]].pid = pid'[q]
    BY <2>1, <2>4 DEF Owned, TypeOK
  <2>8. \A u \in Tasks : existing'[u] # NoObj => heap'[existing'[u]].pid = Pinned
    BY <2>1, <2>4 DEF Owned, TypeOK
  <2>9. QED
    BY <2>5, <2>6, <2>7, <2>8 DEF Owned
<1>4. ASSUME NEW t \in Tasks, KeepPinned(t) \/ PruneAfterRebuild(t) PROVE Owned'
  <2>1. /\ Prune /\ UNCHANGED <<issued, pc, pid, obj>>
        /\ \A u \in Tasks : existing'[u] \in {existing[u], NoObj}
    BY <1>4 DEF KeepPinned, PruneAfterRebuild, Idle, reqVars, taskVars, TypeOK
  <2>2. QED
    BY <2>1, PruneEffect DEF Owned
<1>5. ASSUME NEW t \in Tasks, StartRebuild(t) PROVE Owned'
  <2>1. UNCHANGED <<heap, listed, issued, pc, pid, obj>> /\ existing' = [existing EXCEPT ![t] = listed[Pinned]]
    BY <1>5 DEF StartRebuild, regVars, reqVars
  <2>2. QED
    BY <2>1 DEF Owned, TypeOK
<1>6. ASSUME NEW t \in Tasks, (\E i \in Pids : StartPublish(t, i)) \/ PublishFails(t) PROVE Owned'
  <2>1. /\ UNCHANGED <<heap, listed, pc, pid, obj>> /\ issued \subseteq issued'
        /\ \A u \in Tasks : existing'[u] \in {existing[u], NoObj}
    BY <1>6 DEF StartPublish, PublishFails, Idle, regVars, reqVars, TypeOK
  <2>2. QED
    BY <2>1 DEF Owned
<1>7. ASSUME NEW t \in Tasks, ListProduct(t) PROVE Owned'
  <2>1. PICK new \in Objs :
               /\ Unreferenced(new) /\ heap'[new].pid = tpid[t] /\ heap'[new].credits = {}
               /\ listed' = [listed EXCEPT ![tpid[t]] = new] /\ tpid[t] \in Pids
               /\ \A o \in Objs : o # new => IF Unreferenced(o) THEN heap'[o].credits = {}
                                                 ELSE heap'[o] = heap[o]
    BY <1>7, ListEffect
  <2>2. /\ UNCHANGED <<issued, pc, pid, obj>> /\ tpid[t] \in issued
        /\ \A u \in Tasks : existing'[u] \in {existing[u], NoObj}
    BY <1>7, <2>1 DEF ListProduct, Idle, reqVars, Targets, TypeOK
  <2>3. \A p \in Pids : listed'[p] # NoObj => p \in issued' /\ heap'[listed'[p]].pid = p
    BY <2>1, <2>2 DEF Owned, Unreferenced, TypeOK
  <2>4. \A o \in Objs : \A r \in heap'[o].credits : r \in heap[o].credits /\ heap'[o] = heap[o]
    BY <2>1
  <2>5. \A r \in Requests : obj'[r] # NoObj => heap'[obj'[r]].pid = pid'[r]
    BY <2>1, <2>2 DEF Owned, Unreferenced, TypeOK
  <2>6. \A u \in Tasks : existing'[u] # NoObj => heap'[existing'[u]].pid = Pinned
    BY <2>1, <2>2 DEF Owned, Unreferenced, TypeOK
  <2>7. \A o \in Objs : \A r \in heap'[o].credits :
          pid'[r] = heap'[o].pid /\ pid'[r] \in Pids /\ pc'[r] \in Dealt
    BY <2>2, <2>4 DEF Owned
  <2>8. QED
    BY <2>3, <2>5, <2>6, <2>7 DEF Owned
<1>8. ASSUME NEW t \in Tasks, CarryOver(t) PROVE Owned'
  <2>1. UNCHANGED <<listed, issued, pc, pid, obj, existing>>
    BY <1>8 DEF CarryOver, reqVars
  <2>2. CASE existing[t] = NoObj
    BY <1>8, <2>1, <2>2 DEF CarryOver, Owned
  <2>3. CASE existing[t] # NoObj
    <3>1. /\ listed[Pinned] \in Objs /\ existing[t] \in Objs
          /\ \A o \in Objs : heap'[o].pid = heap[o].pid /\ (o # listed[Pinned] => heap'[o] = heap[o])
          /\ heap'[listed[Pinned]].credits = heap[existing[t]].credits
      <4>1. CarryOver(t)
        BY <1>8
      <4>2. QED
        BY <2>3, <4>1, CarryEffect
    <3>2. heap[existing[t]].pid = heap[listed[Pinned]].pid
      BY <2>3, <3>1 DEF Owned, TypeOK
    <3>3. \A o \in Objs : \A r \in heap'[o].credits :
              pid'[r] = heap'[o].pid /\ pid'[r] \in Pids /\ pc'[r] \in Dealt
      BY <2>1, <3>1, <3>2 DEF Owned
    <3>4. /\ \A p \in Pids : listed'[p] # NoObj => p \in issued' /\ heap'[listed'[p]].pid = p
          /\ \A r \in Requests : obj'[r] # NoObj => heap'[obj'[r]].pid = pid'[r]
          /\ \A u \in Tasks : existing'[u] # NoObj => heap'[existing'[u]].pid = Pinned
      BY <2>1, <3>1 DEF Owned, TypeOK
    <3>5. QED
      BY <3>3, <3>4 DEF Owned
  <2>4. QED
    BY <2>2, <2>3
<1>9. ASSUME Crash PROVE Owned'
  <2>1. /\ heap' = disk.heap /\ listed' = disk.listed /\ UNCHANGED <<issued, pid>>
        /\ \A r \in Requests : obj'[r] = NoObj
        /\ \A t \in Tasks : existing'[t] = NoObj
        /\ \A r \in Requests : pc[r] \in Dealt => pc'[r] \in Dealt
    BY <1>9 DEF Crash, Dealt, Crediting, InFlight, TypeOK
  <2>2. /\ disk.listed = listed
        /\ \A o \in Objs : disk.heap[o] = IF \E p \in Pids : listed[p] = o THEN heap[o] ELSE Blank
    BY DEF SameDisk, Snapshot
  <2>3. \A p \in Pids : listed'[p] # NoObj => p \in issued' /\ heap'[listed'[p]].pid = p
    BY <2>1, <2>2 DEF Owned, TypeOK
  <2>4. \A o \in Objs : \A r \in heap'[o].credits :
            pid'[r] = heap'[o].pid /\ pid'[r] \in Pids /\ pc'[r] \in Dealt
    <3>1. TAKE o \in Objs
    <3>2. TAKE r \in heap'[o].credits
    <3>3. heap'[o] = heap[o] \/ heap'[o] = Blank
      BY <2>1, <2>2
    <3>4. heap'[o] = heap[o] /\ r \in Requests
      BY <3>3 DEF Blank, TypeOK, Product
    <3>5. QED
      BY <2>1, <3>4 DEF Owned
  <2>5. QED
    BY <2>1, <2>3, <2>4 DEF Owned
<1>10. CASE UNCHANGED vars
  BY <1>10 DEF vars, Owned
<1>11. QED
  BY <1>1, <1>2, <1>3, <1>4, <1>5, <1>6, <1>7, <1>8, <1>9, <1>10 DEF Next, Sale, Publisher

\* The targets of the publishers: who works on which id, and on whose listing.
LEMMA TargetsNext ==
    ASSUME TypeOK, Alone, Owned, Targets, [Next]_vars
    PROVE  Targets'
<1>1. ASSUME UNCHANGED <<heap, listed, issued, tpc, tpid, existing>> PROVE Targets'
  BY <1>1 DEF Targets
<1>2. ASSUME NEW r \in Requests, Sale(r), ~Credit(r) PROVE Targets'
  BY <1>1, <1>2 DEF Sale, Submit, Verify, FacilitatorSettle, Resume, Record, regVars, taskVars
<1>3. ASSUME NEW r \in Requests, Credit(r) PROVE Targets'
  <2>1. UNCHANGED <<listed, issued, tpc, tpid, existing>>
    BY <1>3 DEF Credit, taskVars
  <2>2. \A t \in Tasks : tpc[t] # "relisted"
    BY <1>3 DEF Credit, Crediting, Alone
  <2>3. QED
    BY <2>1, <2>2 DEF Targets
<1>4. ASSUME NEW t \in Tasks, KeepPinned(t) PROVE Targets'
  <2>1. UNCHANGED <<heap, issued, tpc, tpid, existing>> /\ listed'[Pinned] = listed[Pinned]
        /\ \A p \in Pids : listed[p] = NoObj => listed'[p] = NoObj
    BY <1>4, PruneEffect DEF KeepPinned, taskVars
  <2>2. QED
    BY <2>1 DEF Targets, TypeOK
<1>5. ASSUME NEW t \in Tasks, PruneAfterRebuild(t) PROVE Targets'
  <2>1. /\ UNCHANGED <<heap, issued>> /\ listed'[Pinned] = listed[Pinned]
        /\ \A p \in Pids : listed[p] = NoObj => listed'[p] = NoObj
        /\ tpc' = [tpc EXCEPT ![t] = "idle"] /\ tpid' = [tpid EXCEPT ![t] = NoPid]
        /\ existing' = [existing EXCEPT ![t] = NoObj]
    BY <1>5, PruneEffect DEF PruneAfterRebuild, Idle
  <2>2. QED
    BY <2>1 DEF Targets, TypeOK
<1>6. ASSUME NEW t \in Tasks, StartRebuild(t) PROVE Targets'
  <2>1. /\ UNCHANGED <<heap, listed, issued>> /\ \A u \in Tasks : tpid[u] # Pinned
        /\ tpc' = [tpc EXCEPT ![t] = "publishing"] /\ tpid' = [tpid EXCEPT ![t] = Pinned]
        /\ existing' = [existing EXCEPT ![t] = listed[Pinned]]
    BY <1>6 DEF StartRebuild, Restoring, regVars
  <2>2. Pinned # NoPid
    OBVIOUS
  <2>3. QED
    BY <2>1, <2>2 DEF Targets, TypeOK
<1>7. ASSUME NEW t \in Tasks, NEW i \in Pids, StartPublish(t, i) PROVE Targets'
  <2>1. /\ UNCHANGED <<heap, listed, existing>> /\ i \notin issued /\ issued' = issued \cup {i}
        /\ tpc' = [tpc EXCEPT ![t] = "publishing"] /\ tpid' = [tpid EXCEPT ![t] = i]
    BY <1>7 DEF StartPublish, regVars
  <2>2. listed[i] = NoObj /\ i # Pinned /\ i # NoPid /\ \A u \in Tasks : tpid[u] # i
    BY <2>1 DEF Owned, Targets
  <2>3. QED
    BY <2>1, <2>2 DEF Targets, TypeOK
<1>8. ASSUME NEW t \in Tasks, PublishFails(t) PROVE Targets'
  <2>1. /\ UNCHANGED <<heap, listed, issued>>
        /\ tpc' = [tpc EXCEPT ![t] = "idle"] /\ tpid' = [tpid EXCEPT ![t] = NoPid]
        /\ existing' = [existing EXCEPT ![t] = NoObj]
    BY <1>8 DEF PublishFails, Idle, regVars
  <2>2. QED
    BY <2>1 DEF Targets, TypeOK
<1>9. ASSUME NEW t \in Tasks, ListProduct(t) PROVE Targets'
  <2>1. PICK new \in Objs :
               /\ Unreferenced(new) /\ heap'[new].pid = tpid[t] /\ heap'[new].credits = {}
               /\ listed' = [listed EXCEPT ![tpid[t]] = new] /\ tpid[t] \in Pids
               /\ \A o \in Objs : o # new => IF Unreferenced(o) THEN heap'[o].credits = {}
                                                 ELSE heap'[o] = heap[o]
    BY <1>9, ListEffect
  <2>2. tpid[t] # NoPid /\ issued' = issued /\ \A u \in Tasks : tpc[u] # "relisted"
    BY <1>9, <2>1 DEF ListProduct, Busy
  <2>3. \A u \in Tasks \ {t} : tpid[u] # tpid[t]
    BY <2>2 DEF Targets
  <2>4. CASE tpid[t] = Pinned
    <3>1. tpc' = [tpc EXCEPT ![t] = "relisted"] /\ UNCHANGED <<tpid, existing>>
      BY <1>9, <2>4 DEF ListProduct
    <3>2. listed'[Pinned] = new /\ \A p \in Pids \ {Pinned} : listed'[p] = listed[p]
      BY <2>1, <2>4 DEF TypeOK
    <3>3. \A u \in Tasks : tpc'[u] = "publishing" =>
              tpid'[u] # Pinned /\ tpid'[u] \in Pids /\ listed'[tpid'[u]] = NoObj
      BY <2>2, <2>3, <2>4, <3>1, <3>2 DEF Targets, TypeOK
    <3>4. \A u \in Tasks : tpc'[u] \in {"relisted", "carried"} => tpid'[u] = Pinned
      BY <2>4, <3>1 DEF Targets, TypeOK
    <3>5. heap'[listed'[Pinned]].credits = {}
      BY <2>1, <3>2
    <3>6. QED
      BY <2>2, <3>1, <3>3, <3>4, <3>5 DEF Targets
  <2>5. CASE tpid[t] # Pinned
    <3>1. /\ tpc' = [tpc EXCEPT ![t] = "idle"] /\ tpid' = [tpid EXCEPT ![t] = NoPid]
          /\ existing' = [existing EXCEPT ![t] = NoObj]
      BY <1>9, <2>5 DEF ListProduct, Idle
    <3>2. listed'[Pinned] = listed[Pinned] /\ \A p \in Pids \ {tpid[t]} : listed'[p] = listed[p]
      BY <2>1, <2>5 DEF TypeOK
    <3>3. \A u \in Tasks : tpc'[u] = "publishing" =>
              u # t /\ tpid'[u] = tpid[u] /\ existing'[u] = existing[u] /\ tpc[u] = "publishing"
      BY <3>1 DEF TypeOK
    <3>4. \A u \in Tasks : tpc'[u] = "publishing" =>
             IF tpid'[u] = Pinned THEN existing'[u] = listed'[Pinned] ELSE listed'[tpid'[u]] = NoObj
      BY <2>3, <3>2, <3>3 DEF Targets, TypeOK
    <3>5. QED
      BY <2>2, <3>1, <3>4 DEF Targets, TypeOK
  <2>6. QED
    BY <2>4, <2>5
<1>10. ASSUME NEW t \in Tasks, CarryOver(t) PROVE Targets'
  <2>1. /\ UNCHANGED <<listed, issued, tpid, existing>> /\ tpc[t] = "relisted"
        /\ tpc' = [tpc EXCEPT ![t] = "carried"]
    BY <1>10 DEF CarryOver
  <2>2. \A u \in Tasks : tpc'[u] # "relisted"
    BY <2>1 DEF Alone, TypeOK
  <2>3. QED
    BY <2>1, <2>2 DEF Targets, TypeOK
<1>11. ASSUME Crash PROVE Targets'
  BY <1>11 DEF Crash, Targets
<1>12. QED
  BY <1>1, <1>2, <1>3, <1>4, <1>5, <1>6, <1>7, <1>8, <1>9, <1>10, <1>11 DEF Next, Publisher, vars

\* A sale that counts stays with the listing as long as listing and credits stay.
LEMMA KeptStays ==
    ASSUME TypeOK, Kept, UNCHANGED <<listed, tpc, existing, orphaned>>,
           \A o \in Objs : heap[o].credits \subseteq heap'[o].credits,
           \A q \in Requests : q \in ledger' \/ pc'[q] = "credited" =>
               pid'[q] = pid[q] /\ (q \in ledger \/ pc[q] = "credited")
    PROVE  Kept'
<1>1. Uncarried \subseteq Uncarried'
  BY DEF Uncarried, TypeOK
<1>2. \A q \in Requests : Shown(q) /\ pid'[q] = pid[q] => Shown(q)'
  BY <1>1 DEF Shown, TypeOK
<1>3. QED
  BY <1>2 DEF Kept

LEMMA KeptNext ==
    ASSUME Durable, "save" \notin FaultKinds, TypeOK, FundsInv, RegInv, [Next]_vars
    PROVE  Kept'
<1> USE DEF RegInv
<1>1. ASSUME NEW r \in Requests, Sale(r), ~Credit(r) PROVE Kept'
  <2>1. UNCHANGED <<heap, listed, tpc, existing, orphaned>>
    BY <1>1 DEF Sale, Submit, Verify, FacilitatorSettle, Resume, Record, regVars, taskVars
  <2>2. \A q \in Requests : q \in ledger' \/ pc'[q] = "credited" =>
            pid'[q] = pid[q] /\ (q \in ledger \/ pc[q] = "credited")
    BY <1>1 DEF Sale, Submit, Verify, FacilitatorSettle, Resume, Record, Finish, FundsInv, TypeOK
  <2>3. QED
    BY <2>1, <2>2, KeptStays
<1>2. ASSUME NEW r \in Requests, Credit(r) PROVE Kept'
  <2>1. /\ UNCHANGED <<listed, ledger, pid, tpc, existing>>
        /\ pc' = [pc EXCEPT ![r] = "credited"]
        /\ orphaned' = IF listed[pid[r]] = obj[r] THEN orphaned ELSE orphaned \cup {r}
    BY <1>2 DEF Credit, taskVars
  <2>2. /\ obj[r] \in Objs /\ pid[r] \in Pids
        /\ \A o \in Objs : o # obj[r] => heap'[o] = heap[o]
        /\ heap'[obj[r]].credits = heap[obj[r]].credits \cup {r}
    BY <1>2, CreditEffect
  <2>3. \A o \in Objs : heap[o].credits \subseteq heap'[o].credits
    BY <2>2
  <2>4. Uncarried \subseteq Uncarried'
    BY <2>1, <2>3 DEF Uncarried, TypeOK
  <2>5. \A q \in Requests : Shown(q) => Shown(q)'
    BY <2>1, <2>3, <2>4 DEF Shown, TypeOK
  <2>6. r \notin orphaned' => Shown(r)'
    BY <2>1, <2>2 DEF Shown
  <2>7. QED
    BY <2>1, <2>5, <2>6 DEF Kept, TypeOK
<1>3. ASSUME NEW t \in Tasks, KeepPinned(t) \/ PruneAfterRebuild(t) PROVE Kept'
  <2>1. /\ Prune /\ UNCHANGED <<ledger, pc, pid, orphaned>> /\ tpc[t] # "relisted"
        /\ \A u \in Tasks \ {t} : tpc'[u] = tpc[u] /\ existing'[u] = existing[u]
    BY <1>3 DEF KeepPinned, PruneAfterRebuild, Idle, reqVars, taskVars, TypeOK
  <2>2. /\ heap' = heap /\ listed'[Pinned] = listed[Pinned]
        /\ \A p \in Pids : listed'[p] = listed[p] \/ heap[listed[p]].credits = {}
    BY <2>1, PruneEffect
  <2>3. Uncarried \subseteq Uncarried'
    BY <2>1, <2>2 DEF Uncarried
  <2>4. \A q \in Requests : Shown(q) => Shown(q)'
    BY <2>1, <2>2, <2>3 DEF Shown
  <2>5. QED
    BY <2>1, <2>4 DEF Kept
<1>4. ASSUME NEW t \in Tasks,
             StartRebuild(t) \/ (\E i \in Pids : StartPublish(t, i)) \/ PublishFails(t)
      PROVE  Kept'
  <2>1. /\ UNCHANGED <<heap, listed, ledger, pc, pid, orphaned>> /\ tpc[t] # "relisted"
        /\ \A u \in Tasks \ {t} : tpc'[u] = tpc[u] /\ existing'[u] = existing[u]
    BY <1>4 DEF StartRebuild, StartPublish, PublishFails, Idle, regVars, reqVars, TypeOK
  <2>2. Uncarried \subseteq Uncarried'
    BY <2>1 DEF Uncarried
  <2>3. QED
    BY <2>1, <2>2 DEF Kept, Shown
\* The old pinned object is held by the task that replaces it.
<1>5. ASSUME NEW t \in Tasks, ListProduct(t) PROVE Kept'
  <2>1. PICK new \in Objs :
               /\ Unreferenced(new) /\ heap'[new].pid = tpid[t] /\ heap'[new].credits = {}
               /\ listed' = [listed EXCEPT ![tpid[t]] = new] /\ tpid[t] \in Pids
               /\ \A o \in Objs : o # new => IF Unreferenced(o) THEN heap'[o].credits = {}
                                                 ELSE heap'[o] = heap[o]
    BY <1>5, ListEffect
  <2>2. UNCHANGED <<ledger, pc, pid, orphaned>> /\ tpc[t] = "publishing" /\ Uncarried = {}
    BY <1>5 DEF ListProduct, Busy, Uncarried, reqVars
  <2>3. ASSUME NEW q \in Requests, Shown(q) PROVE Shown(q)'
    <3>1. PICK p \in Pids, o \in Objs : pid[q] = p /\ listed[p] = o /\ q \in heap[o].credits
      BY <2>2, <2>3 DEF Shown, TypeOK
    <3>2. o # new /\ heap'[o] = heap[o]
      BY <2>1, <3>1 DEF Unreferenced
    <3>3. CASE p # tpid[t]
      <4>1. listed'[p] = o
        BY <2>1, <3>1, <3>3 DEF TypeOK
      <4>2. QED
        BY <2>2, <3>1, <3>2, <4>1 DEF Shown
    <3>4. CASE p = tpid[t]
      <4>1. tpid[t] = Pinned /\ existing[t] = o
        BY <2>2, <3>1, <3>4 DEF Targets
      <4>2. tpc' = [tpc EXCEPT ![t] = "relisted"] /\ existing' = existing
        BY <1>5, <4>1 DEF ListProduct
      <4>3. q \in Uncarried'
        BY <3>1, <3>2, <4>1, <4>2 DEF Uncarried, TypeOK
      <4>4. listed'[Pinned] = new
        BY <2>1, <4>1 DEF TypeOK
      <4>5. QED
        BY <2>2, <3>1, <3>4, <4>1, <4>3, <4>4 DEF Shown
    <3>5. QED
      BY <3>3, <3>4
  <2>4. QED
    BY <2>2, <2>3 DEF Kept
\* What was to be carried over is with the new object now.
<1>6. ASSUME NEW t \in Tasks, CarryOver(t) PROVE Kept'
  <2>1. /\ UNCHANGED <<listed, ledger, pc, pid, existing, orphaned>> /\ tpc[t] = "relisted"
        /\ tpid[t] = Pinned /\ heap[listed[Pinned]].credits = {} /\ listed[Pinned] \in Objs
        /\ \A u \in Tasks : tpc[u] = "relisted" => u = t
    BY <1>6 DEF CarryOver, reqVars, Targets, Alone, TypeOK
  <2>2. CASE existing[t] = NoObj
    <3>1. heap' = heap /\ Uncarried = {}
      BY <1>6, <2>1, <2>2 DEF CarryOver, Uncarried
    <3>2. QED
      BY <2>1, <3>1 DEF Kept, Shown
  <2>3. CASE existing[t] # NoObj
    <3>1. /\ \A o \in Objs : o # listed[Pinned] => heap'[o] = heap[o]
          /\ heap'[listed[Pinned]].credits = heap[existing[t]].credits
      <4>1. CarryOver(t)
        BY <1>6
      <4>2. QED
        BY <2>3, <4>1, CarryEffect
    <3>2. \A q \in Uncarried : q \in heap[existing[t]].credits
      BY <2>1 DEF Uncarried
    <3>3. ASSUME NEW q \in Requests, Shown(q) PROVE Shown(q)'
      <4>1. PICK p \in Pids : pid[q] = p /\ listed[p] \in Objs
        BY <3>3 DEF Shown, TypeOK
      <4>2. CASE p = Pinned
        BY <2>1, <3>1, <3>2, <3>3, <4>1, <4>2 DEF Shown
      <4>3. CASE p # Pinned
        <5>1. listed[p] # listed[Pinned]
          BY <2>1, <4>1, <4>3 DEF Owned
        <5>2. q \in heap[listed[p]].credits
          BY <3>3, <4>1, <4>3 DEF Shown
        <5>3. QED
          BY <2>1, <3>1, <3>3, <4>1, <5>1, <5>2 DEF Shown
      <4>4. QED
        BY <4>2, <4>3
    <3>4. QED
      BY <2>1, <3>3 DEF Kept
  <2>4. QED
    BY <2>2, <2>3
<1>7. ASSUME Crash PROVE Kept'
  <2>1. /\ heap' = disk.heap /\ listed' = disk.listed /\ UNCHANGED <<ledger, pid>>
        /\ orphaned' = orphaned \cup Uncarried /\ \A q \in Requests : pc'[q] # "credited"
    BY <1>7 DEF Crash, Crediting, InFlight, TypeOK
  <2>2. /\ disk.listed = listed
        /\ \A o \in Objs : disk.heap[o] = IF \E p \in Pids : listed[p] = o THEN heap[o] ELSE Blank
    BY DEF SameDisk, Snapshot
  <2>3. \A q \in Requests \ Uncarried : Shown(q) => Shown(q)'
    BY <2>1, <2>2 DEF Shown, TypeOK
  <2>4. QED
    BY <2>1, <2>3 DEF Kept, TypeOK
<1>8. CASE UNCHANGED vars
  BY <1>8 DEF vars, Kept, Shown, Uncarried
<1>9. QED
  BY <1>1, <1>2, <1>3, <1>4, <1>5, <1>6, <1>7, <1>8 DEF Next, Publisher

\* Under a working snapshot backend, for any number of requests, listings, publishers and
\* restarts: the registry shows no more revenue than was sold, and a booked sale that was
\* credited to the listed object stays in it, since a rebuild hands on what was earned
\* while it awaited and a prune drops nothing earned.  What the registry does lose is
\* named: a sale credited to an object that a rebuild or a prune replaced during its
\* settle, and what a crash between the two saves of one rebuild forgets.
THEOREM RegistryTheorem ==
    ASSUME Durable, "save" \notin FaultKinds
    PROVE  Spec => []RegistryIsTrue
<1> DEFINE IInv == BookInv /\ RegInv
<1>1. Init => IInv
  <2>1. Init => BookInv
    BY BookInvInit
  <2>2. Init => RegInv
    BY DEF Init, RegInv, SameDisk, Alone, Owned, Targets, Kept, Crediting, Blank
  <2>3. QED
    BY <2>1, <2>2
<1>2. IInv /\ [Next]_vars => IInv'
  BY BookInvNext, DiskNext, AloneNext, OwnedNext, TargetsNext, KeptNext
  DEF RegInv, BookInv, FundsAll
<1>3. IInv => RegistryIsTrue
  <2> SUFFICES ASSUME IInv PROVE RegistryIsTrue
    OBVIOUS
  <2>1. TypeOK /\ FundsInv /\ GuardCovers /\ Owned /\ Kept
    BY DEF BookInv, FundsAll, RegInv
  <2> DEFINE shown == {o \in Objs : \E p \in Pids : listed[p] = o}
             all == UNION {heap[o].credits : o \in shown}
  <2>2. \A p \in Pids : listed[p] # NoObj =>
            \A r \in heap[listed[p]].credits :
                pid[r] = p /\ (r \in ledger \/ pc[r] \in {"credited", "cut", "failed"})
    BY <2>1 DEF Owned, Dealt, FundsInv, TypeOK, Product
  <2>3. \A r \in all : r \in Requests /\ pc[r] \in Dealt
    BY <2>1 DEF Owned, TypeOK, Product
  <2>4. \A q, r \in all : q # r /\ reply[q] = "tx" /\ reply[r] = "tx" => pay[q] # pay[r]
    BY <2>1, <2>3 DEF GuardCovers, PastGuard, Dealt, Crediting
  <2>5. RegistryNeverOvercounts
    BY <2>2, <2>4 DEF RegistryNeverOvercounts
  <2>6. CarryOverKeepsSales
    <3>1. ~Busy => Uncarried = {}
      BY DEF Busy, Uncarried
    <3>2. QED
      BY <2>1, <3>1 DEF CarryOverKeepsSales, Kept, Shown, TypeOK
  <2>7. QED
    BY <2>5, <2>6 DEF RegistryIsTrue
<1>4. QED
  BY <1>1, <1>2, <1>3, PTL DEF Spec
=============================================================================

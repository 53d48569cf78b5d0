----------------------------- MODULE SwarmSale -----------------------------
(***************************************************************************)
(* The sale of a swarm listing: settle_composite_sale running against the  *)
(* publisher that rebuilds and prunes listings, over the registry, its     *)
(* persisted snapshot and the append-only revenue ledger.                  *)
(*                                                                         *)
(* The service is one asyncio event loop, so a stretch of code without an  *)
(* await is atomic for the other handlers.  It is not atomic for a crash:  *)
(* between two durable writes of one stretch the process may die.  Such a  *)
(* stretch is therefore several actions, and while one is unfinished       *)
(* (Busy) no other handler moves, only Crash can.                          *)
(*                                                                         *)
(* CompositeProduct objects are cells of a heap, because the code keeps    *)
(* references to them across awaits.  A revenue amount is the set of the   *)
(* requests whose payment it sums: every credit of a listing is its price, *)
(* and the set tells which sales an amount has forgotten.                  *)
(***************************************************************************)
EXTENDS Naturals, FiniteSets

CONSTANTS
    Requests,     \* calls of settle_composite_sale
    Payments,     \* signed payments; the settlement tx of p is p itself
    Pids,         \* product ids
    Family,       \* the ids whose topic starts with PULSE_TOPIC_PREFIX
    Pinned,       \* PINNED_PULSE_PRODUCT_ID
    Objs,         \* heap cells for CompositeProduct objects
    Tasks,        \* concurrent runs of the publisher's coroutines
    NoObj, NoPid, NoPay,
    Durable,      \* a snapshot backend (Redis or a file) is configured
    OmitsTx,      \* the facilitator may answer a settle without a tx hash
    FaultKinds,   \* which of "crash", "save", "ledger", "publish" may happen
    MaxFaults     \* bound on the number of faults

ASSUME ConstantsAssumption ==
    /\ Pinned \in Family
    /\ Family \subseteq Pids
    /\ NoObj \notin Objs /\ NoPid \notin Pids /\ NoPay \notin Payments
    /\ Durable \in BOOLEAN /\ OmitsTx \in BOOLEAN
    /\ FaultKinds \subseteq {"crash", "save", "ledger", "publish"}
    /\ MaxFaults \in Nat

VARIABLES
    heap,         \* the CompositeProduct objects
    listed,       \* SwarmRegistry._products: pid -> object
    settledTxs,   \* SwarmRegistry._settled_txs, the replay guard
    disk,         \* the persisted snapshot
    ledger,       \* the rows of the revenue ledger, one request each
    issued,       \* the product ids handed out so far (uuid4 never repeats)
    pc, pay, pid, obj, reply,  \* per request: its place, inputs and settle answer
    tpc, tpid, existing,       \* per publisher task: its place, target, old object
    chain,        \* the payments whose funds have moved (external)
    faults,       \* faults so far
    orphaned      \* history: sales the registry loses, credited to an object no longer
                  \* listed, or cut out of a rebuild by a crash

regVars  == <<heap, listed, settledTxs>>
reqVars  == <<pc, pay, pid, obj, reply>>
taskVars == <<tpc, tpid, existing>>
vars == <<heap, listed, settledTxs, disk, ledger, issued, pc, pay, pid, obj,
          reply, tpc, tpid, existing, chain, faults, orphaned>>

InFlight == {"verifying", "settling", "answered"}
Crediting == {"guarded", "credited"}
Answered == {"sold", "duplicate", "refused", "failed"}
Gone     == {"dropped", "cut"}

Product == [pid : Pids \cup {NoPid}, status : {"blank", "listed", "sold"},
            credits : SUBSET Requests]
Blank == [pid |-> NoPid, status |-> "blank", credits |-> {}]
FreshProduct(p) == [pid |-> p, status |-> "listed", credits |-> {}]
Sold(x, r) == [x EXCEPT !.status = "sold", !.credits = @ \cup {r}]
Earning(x, c) == [x EXCEPT !.credits = c]

TypeOK ==
    /\ heap \in [Objs -> Product]
    /\ listed \in [Pids -> Objs \cup {NoObj}]
    /\ settledTxs \subseteq Payments
    /\ disk \in [heap : [Objs -> Product],
                 listed : [Pids -> Objs \cup {NoObj}],
                 settled : SUBSET Payments]
    /\ ledger \subseteq Requests
    /\ issued \subseteq Pids
    /\ pc \in [Requests -> {"new"} \cup InFlight \cup Crediting \cup Answered \cup Gone]
    /\ pay \in [Requests -> Payments \cup {NoPay}]
    /\ pid \in [Requests -> Pids \cup {NoPid}]
    /\ obj \in [Requests -> Objs \cup {NoObj}]
    /\ reply \in [Requests -> {"none", "tx", "notx", "error"}]
    /\ tpc \in [Tasks -> {"idle", "publishing", "relisted", "carried"}]
    /\ tpid \in [Tasks -> Pids \cup {NoPid}]
    /\ existing \in [Tasks -> Objs \cup {NoObj}]
    /\ chain \subseteq Payments
    /\ faults \in 0 .. MaxFaults
    /\ orphaned \subseteq Requests
    /\ \A r \in Requests : pc[r] \in InFlight \cup Crediting =>
           pay[r] \in Payments /\ pid[r] \in Pids /\ obj[r] \in Objs
    /\ \A t \in Tasks : tpc[t] = "publishing" => tpid[t] \in Pids
    /\ \A t \in Tasks : tpc[t] = "relisted" => listed[Pinned] \in Objs

-----------------------------------------------------------------------------
\* A crash may fall inside a stretch without awaits; other handlers may not.
Busy == \/ \E r \in Requests : pc[r] \in Crediting
        \/ \E t \in Tasks : tpc[t] \in {"relisted", "carried"}

Fault(kind) == /\ kind \in FaultKinds
               /\ faults < MaxFaults
               /\ faults' = faults + 1

\* json of the listed products; an object no id points at is not in it.
Snapshot(h, l, s) ==
    [heap |-> [o \in Objs |-> IF \E p \in Pids : l[p] = o THEN h[o] ELSE Blank],
     listed |-> l, settled |-> s]

\* SwarmRegistry.save of the NEXT registry state: a no-op without a backend; a
\* failed write is logged and swallowed, the old snapshot stays.
Save ==
    \/ /\ disk' = IF Durable THEN Snapshot(heap', listed', settledTxs') ELSE disk
       /\ UNCHANGED faults
    \/ Durable /\ Fault("save") /\ UNCHANGED disk

\* Mutant: the pinned listing is not spared.
Superseded_Pinned(h, l) ==
    {p \in Family : /\ l[p] # NoObj
                    /\ h[l[p]].credits = {}
                    /\ h[l[p]].status = "listed"}

\* prune_superseded(Pinned, PULSE_TOPIC_PREFIX): unsold, unearned siblings.
Superseded(h, l) ==
    {p \in Family \ {Pinned} : /\ l[p] # NoObj
                               /\ h[l[p]].credits = {}
                               /\ h[l[p]].status = "listed"}

Prune ==
    /\ listed' = [p \in Pids |-> IF p \in Superseded(heap, listed)
                                 THEN NoObj ELSE listed[p]]
    /\ UNCHANGED <<heap, settledTxs>>
    /\ IF Superseded(heap, listed) = {} THEN UNCHANGED <<disk, faults>> ELSE Save

Init ==
    /\ heap = [o \in Objs |-> Blank]
    /\ listed = [p \in Pids |-> NoObj]
    /\ settledTxs = {}
    /\ disk = Snapshot(heap, listed, {})
    /\ ledger = {}
    /\ issued = {Pinned}
    /\ pc = [r \in Requests |-> "new"]
    /\ pay = [r \in Requests |-> NoPay]
    /\ pid = [r \in Requests |-> NoPid]
    /\ obj = [r \in Requests |-> NoObj]
    /\ reply = [r \in Requests |-> "none"]
    /\ tpc = [t \in Tasks |-> "idle"]
    /\ tpid = [t \in Tasks |-> NoPid]
    /\ existing = [t \in Tasks |-> NoObj]
    /\ chain = {}
    /\ faults = 0
    /\ orphaned = {}

-----------------------------------------------------------------------------
(* settle_composite_sale, from the lookup to the answer. *)

\* The request ends: its handler's reference to the product is dropped.
Finish(r, how) ==
    /\ pc' = [pc EXCEPT ![r] = how]
    /\ obj' = [obj EXCEPT ![r] = NoObj]

\* A purchase with a signature: an unknown id is refused; otherwise the handler
\* keeps the product object and sends its own challenge to be verified.
Submit(r, p, i) ==
    /\ ~Busy /\ pc[r] = "new" /\ i \in issued
    /\ \/ /\ listed[i] = NoObj
          /\ pc' = [pc EXCEPT ![r] = "refused"]
          /\ UNCHANGED <<pay, pid, obj>>
       \/ /\ listed[i] # NoObj
          /\ pay' = [pay EXCEPT ![r] = p]
          /\ pid' = [pid EXCEPT ![r] = i]
          /\ obj' = [obj EXCEPT ![r] = listed[i]]
          /\ pc' = [pc EXCEPT ![r] = "verifying"]
    /\ UNCHANGED <<regVars, disk, ledger, issued, reply, taskVars, chain, faults,
                   orphaned>>

\* The facilitator judges the signature (or the call fails): an invalid payment
\* is refused, a valid one goes on to settle without another await in between.
Verify(r, valid) ==
    /\ ~Busy /\ pc[r] = "verifying"
    /\ IF valid THEN pc' = [pc EXCEPT ![r] = "settling"] /\ UNCHANGED obj
                ELSE Finish(r, "refused")
    /\ UNCHANGED <<regVars, disk, ledger, issued, pay, pid, reply, taskVars,
                   chain, faults, orphaned>>

\* The external facilitator settles.  A first settle moves the funds or not; a
\* repeated one moves nothing and either answers with the same tx or fails.
\* The answer to a settle that moved funds may be lost ("error").
FacilitatorSettle(r, moves, answer) ==
    /\ pc[r] = "settling"
    /\ moves => pay[r] \notin chain
    /\ answer \in {"tx", "notx"} => (moves \/ pay[r] \in chain)
    /\ answer = "notx" => OmitsTx
    /\ chain' = IF moves THEN chain \cup {pay[r]} ELSE chain
    /\ reply' = [reply EXCEPT ![r] = answer]
    /\ pc' = [pc EXCEPT ![r] = "answered"]
    /\ UNCHANGED <<regVars, disk, ledger, issued, pay, pid, obj, taskVars, faults,
                   orphaned>>

\* Mutant: the guard is kept in memory only.
Resume_NoSave(r) ==
    /\ ~Busy /\ pc[r] = "answered"
    /\ UNCHANGED <<heap, listed, ledger, issued, pay, pid, reply, taskVars, chain,
                   orphaned>>
    /\ UNCHANGED <<disk, faults>>
    /\ IF reply[r] = "error" THEN Finish(r, "refused") /\ UNCHANGED settledTxs
       ELSE IF reply[r] = "tx" /\ pay[r] \in settledTxs
       THEN Finish(r, "duplicate") /\ UNCHANGED settledTxs
       ELSE /\ settledTxs' = IF reply[r] = "tx" THEN settledTxs \cup {pay[r]} ELSE settledTxs
            /\ pc' = [pc EXCEPT ![r] = "guarded"]
            /\ UNCHANGED obj

\* Mutant: a failed settle is not answered.
Resume_NoErrorPath(r) ==
    /\ ~Busy /\ pc[r] = "answered" /\ reply[r] # "error"
    /\ UNCHANGED <<heap, listed, ledger, issued, pay, pid, reply, taskVars, chain,
                   orphaned>>
    /\ IF reply[r] = "tx" /\ pay[r] \in settledTxs
       THEN Finish(r, "duplicate") /\ UNCHANGED <<settledTxs, disk, faults>>
       ELSE /\ settledTxs' = IF reply[r] = "tx" THEN settledTxs \cup {pay[r]} ELSE settledTxs
            /\ pc' = [pc EXCEPT ![r] = "guarded"]
            /\ UNCHANGED obj
            /\ Save

\* Back on the loop: not settled is refused; a tx in the guard is a duplicate;
\* a new tx enters the guard, which is saved; no tx bypasses the guard.
Resume(r) ==
    /\ ~Busy /\ pc[r] = "answered"
    /\ UNCHANGED <<heap, listed, ledger, issued, pay, pid, reply, taskVars, chain,
                   orphaned>>
    /\ \/ /\ reply[r] = "error"
          /\ Finish(r, "refused")
          /\ UNCHANGED <<settledTxs, disk, faults>>
       \/ /\ reply[r] = "tx" /\ pay[r] \in settledTxs
          /\ Finish(r, "duplicate")
          /\ UNCHANGED <<settledTxs, disk, faults>>
       \/ /\ reply[r] = "tx" /\ pay[r] \notin settledTxs
          /\ settledTxs' = settledTxs \cup {pay[r]}
          /\ pc' = [pc EXCEPT ![r] = "guarded"]
          /\ UNCHANGED obj
          /\ Save
       \/ /\ reply[r] = "notx"
          /\ pc' = [pc EXCEPT ![r] = "guarded"]
          /\ UNCHANGED <<obj, settledTxs, disk, faults>>

\* The object the handler holds is marked sold and credited, then saved.  If a rebuild
\* or a prune took it off the list during the settle, the registry never shows the sale.
Credit(r) ==
    /\ pc[r] = "guarded"
    /\ heap' = [heap EXCEPT ![obj[r]] = Sold(@, r)]
    /\ orphaned' = IF listed[pid[r]] = obj[r] THEN orphaned ELSE orphaned \cup {r}
    /\ pc' = [pc EXCEPT ![r] = "credited"]
    /\ UNCHANGED <<listed, settledTxs, ledger, issued, pay, pid, obj, reply,
                   taskVars, chain>>
    /\ Save

\* Mutant: a failed append is swallowed and the buyer told the sale is done.
Record_Swallows(r) ==
    /\ pc[r] = "credited"
    /\ Finish(r, "sold")
    /\ \/ ledger' = ledger \cup {r} /\ UNCHANGED faults
       \/ Fault("ledger") /\ UNCHANGED ledger
    /\ UNCHANGED <<regVars, disk, issued, pay, pid, reply, taskVars, chain,
                   orphaned>>

\* ledger_writer.record_revenue appends the row and the buyer is answered; an
\* append that raises leaves the handler with the sale credited but unbooked.
Record(r) ==
    /\ pc[r] = "credited"
    /\ \/ ledger' = ledger \cup {r} /\ Finish(r, "sold") /\ UNCHANGED faults
       \/ Fault("ledger") /\ Finish(r, "failed") /\ UNCHANGED ledger
    /\ UNCHANGED <<regVars, disk, issued, pay, pid, reply, taskVars, chain,
                   orphaned>>

-----------------------------------------------------------------------------
(* The publisher. *)

\* restore_pinned_listing is awaited at start-up and then by one loop, so only
\* one task at a time is in it.
Restoring == \E t \in Tasks : tpid[t] = Pinned

\* restore_pinned_listing finds a sellable listing that is not stale: it only
\* prunes.  The age of a report is left to the clock: a listing is either.
KeepPinned(t) ==
    /\ ~Busy /\ ~Restoring /\ tpc[t] = "idle"
    /\ listed[Pinned] # NoObj
    /\ Prune
    /\ UNCHANGED <<ledger, issued, reqVars, taskVars, chain, orphaned>>

\* It is stale or missing: rebuild_pinned_product takes the old object and
\* starts a publish.
StartRebuild(t) ==
    /\ ~Busy /\ ~Restoring /\ tpc[t] = "idle"
    /\ tpc' = [tpc EXCEPT ![t] = "publishing"]
    /\ tpid' = [tpid EXCEPT ![t] = Pinned]
    /\ existing' = [existing EXCEPT ![t] = listed[Pinned]]
    /\ UNCHANGED <<regVars, disk, ledger, issued, reqVars, chain, faults, orphaned>>

\* POST /pulse/publish and a swarm run publish onto a fresh id.
StartPublish(t, i) ==
    /\ ~Busy /\ tpc[t] = "idle"
    /\ i \notin issued
    /\ issued' = issued \cup {i}
    /\ tpc' = [tpc EXCEPT ![t] = "publishing"]
    /\ tpid' = [tpid EXCEPT ![t] = i]
    /\ UNCHANGED <<regVars, disk, ledger, reqVars, existing, chain, faults, orphaned>>

Idle(t) ==
    /\ tpc' = [tpc EXCEPT ![t] = "idle"]
    /\ tpid' = [tpid EXCEPT ![t] = NoPid]
    /\ existing' = [existing EXCEPT ![t] = NoObj]

Unreferenced(o) ==
    /\ \A p \in Pids : listed[p] # o
    /\ \A r \in Requests : obj[r] # o
    /\ \A t \in Tasks : existing[t] # o

\* The pulse and the requirements are there: a new object, with no revenue, is
\* listed under the id and the registry saved.  Cells nobody points at are free.
ListProduct(t) ==
    /\ ~Busy /\ tpc[t] = "publishing"
    /\ \E o \in Objs : Unreferenced(o)
    /\ LET new == CHOOSE o \in Objs : Unreferenced(o)
       IN  /\ heap' = [o \in Objs |-> IF o = new THEN FreshProduct(tpid[t])
                                      ELSE IF Unreferenced(o) THEN Blank ELSE heap[o]]
           /\ listed' = [listed EXCEPT ![tpid[t]] = new]
    /\ IF tpid[t] = Pinned
       THEN tpc' = [tpc EXCEPT ![t] = "relisted"] /\ UNCHANGED <<tpid, existing>>
       ELSE Idle(t)
    /\ UNCHANGED <<settledTxs, ledger, issued, reqVars, chain, orphaned>>
    /\ Save

\* The RPC or the facilitator fails, or start-up stops waiting (45 s): the old
\* listing stays as it is.
PublishFails(t) ==
    /\ ~Busy /\ tpc[t] = "publishing"
    /\ Fault("publish")
    /\ Idle(t)
    /\ UNCHANGED <<regVars, disk, ledger, issued, reqVars, chain, orphaned>>

\* Mutant: only an unsold listing hands its revenue on.
CarryOver_UnsoldOnly(t) ==
    /\ tpc[t] = "relisted"
    /\ tpc' = [tpc EXCEPT ![t] = "carried"]
    /\ UNCHANGED <<listed, settledTxs, ledger, issued, reqVars, tpid, existing,
                   chain, orphaned>>
    /\ IF existing[t] = NoObj \/ heap[existing[t]].status = "sold"
       THEN UNCHANGED <<heap, disk, faults>>
       ELSE /\ heap' = [heap EXCEPT ![listed[Pinned]] = Earning(@, heap[existing[t]].credits)]
            /\ Save

\* The rebuild copies the old object's revenue onto the new one and saves again.
CarryOver(t) ==
    /\ tpc[t] = "relisted"
    /\ tpc' = [tpc EXCEPT ![t] = "carried"]
    /\ UNCHANGED <<listed, settledTxs, ledger, issued, reqVars, tpid, existing,
                   chain, orphaned>>
    /\ IF existing[t] = NoObj
       THEN UNCHANGED <<heap, disk, faults>>
       ELSE /\ heap' = [heap EXCEPT ![listed[Pinned]] = Earning(@, heap[existing[t]].credits)]
            /\ Save

PruneAfterRebuild(t) ==
    /\ tpc[t] = "carried"
    /\ Prune
    /\ Idle(t)
    /\ UNCHANGED <<ledger, issued, reqVars, chain, orphaned>>

-----------------------------------------------------------------------------
\* Sales of a relisted product whose revenue was not carried over yet: the
\* snapshot of the relisting does not have them.
Uncarried == {r \in Requests : \E t \in Tasks :
                  /\ tpc[t] = "relisted" /\ existing[t] # NoObj
                  /\ r \in heap[existing[t]].credits}

\* Mutant: the load restores the products and not the replay guard.
Crash_ForgetsGuard ==
    /\ Fault("crash")
    /\ heap' = disk.heap
    /\ listed' = disk.listed
    /\ settledTxs' = {}
    /\ pc' = [r \in Requests |-> IF pc[r] \in Crediting THEN "cut"
                                 ELSE IF pc[r] \in InFlight THEN "dropped" ELSE pc[r]]
    /\ obj' = [r \in Requests |-> NoObj]
    /\ tpc' = [t \in Tasks |-> "idle"]
    /\ tpid' = [t \in Tasks |-> NoPid]
    /\ existing' = [t \in Tasks |-> NoObj]
    /\ UNCHANGED <<disk, ledger, issued, pay, pid, reply, chain, orphaned>>

\* The process dies and starts again: the registry is what the snapshot says,
\* every handler and task is gone.  A request cut between the guard and the
\* ledger is "cut", one cut earlier "dropped".
Crash ==
    /\ Fault("crash")
    /\ heap' = disk.heap
    /\ listed' = disk.listed
    /\ settledTxs' = disk.settled
    /\ pc' = [r \in Requests |-> IF pc[r] \in Crediting THEN "cut"
                                 ELSE IF pc[r] \in InFlight THEN "dropped" ELSE pc[r]]
    /\ obj' = [r \in Requests |-> NoObj]
    /\ tpc' = [t \in Tasks |-> "idle"]
    /\ tpid' = [t \in Tasks |-> NoPid]
    /\ existing' = [t \in Tasks |-> NoObj]
    /\ orphaned' = orphaned \cup Uncarried
    /\ UNCHANGED <<disk, ledger, issued, pay, pid, reply, chain>>

Sale(r) == \/ \E p \in Payments, i \in Pids : Submit(r, p, i)
           \/ \E valid \in BOOLEAN : Verify(r, valid)
           \/ \E moves \in BOOLEAN, answer \in {"tx", "notx", "error"} :
                  FacilitatorSettle(r, moves, answer)
           \/ Resume(r) \/ Credit(r) \/ Record(r)

Publisher(t) == \/ KeepPinned(t) \/ StartRebuild(t)
                \/ \E i \in Pids : StartPublish(t, i)
                \/ ListProduct(t)
                \/ PublishFails(t) \/ CarryOver(t) \/ PruneAfterRebuild(t)

Next == (\E r \in Requests : Sale(r)) \/ (\E t \in Tasks : Publisher(t)) \/ Crash

Spec == Init /\ [][Next]_vars

\* asyncio runs ready callbacks first come first served, so a handler that is
\* ready again and again runs (SF); the calls to the facilitator end, if only
\* with a timeout; the refresh loop wakes up for ever and finds a missing
\* listing.  Nobody has to buy, no listing has to grow stale.
Fairness ==
    /\ \A r \in Requests :
        /\ SF_vars(\E valid \in BOOLEAN : Verify(r, valid))
        /\ WF_vars(\E m \in BOOLEAN, a \in {"tx", "notx", "error"} : FacilitatorSettle(r, m, a))
        /\ SF_vars(Resume(r))
        /\ WF_vars(Credit(r) \/ Record(r))
    /\ \A t \in Tasks :
        /\ SF_vars(listed[Pinned] = NoObj /\ StartRebuild(t))
        /\ SF_vars(ListProduct(t) \/ PublishFails(t))
        /\ WF_vars(CarryOver(t) \/ PruneAfterRebuild(t))

FairSpec == Spec /\ Fairness

-----------------------------------------------------------------------------
(* Properties. *)

TxRow(r) == r \in ledger /\ reply[r] = "tx"

\* A replayed settlement re-credits nothing: no two rows of the revenue ledger
\* carry the same settlement tx, across concurrent requests with one signature,
\* retries and restarts (the replay guard of settle_composite_sale).
LedgerOncePerTx ==
    \A q, r \in Requests : TxRow(q) /\ TxRow(r) /\ q # r => pay[q] # pay[r]

PastGuard(r) == reply[r] = "tx" /\ pc[r] \in Crediting \cup {"sold", "failed", "cut"}

\* What makes it so: the tx of every request past the guard, finished or cut, is
\* in the guard of the running process and in the snapshot a restart loads; at
\* most one request per tx ever gets past it; only those write rows.
GuardCovers ==
    /\ \A r \in Requests : PastGuard(r) =>
           pay[r] \in settledTxs /\ pay[r] \in disk.settled
    /\ \A q, r \in Requests : PastGuard(q) /\ PastGuard(r) /\ q # r => pay[q] # pay[r]
    /\ \A r \in ledger : pc[r] = "sold"

\* A sale is answered as sold, is credited to a listing or enters the ledger or the
\* guard only when its funds have moved on chain.
NoRevenueWithoutFunds ==
    /\ \A r \in Requests :
        (r \in ledger \/ pc[r] \in Crediting \cup {"sold", "duplicate"}) => pay[r] \in chain
    /\ \A o \in Objs, r \in Requests : r \in heap[o].credits => pay[r] \in chain
    /\ settledTxs \subseteq chain

\* Nobody is told "sold" or "already settled" about a tx that is missing from
\* the ledger, unless the request that passed the guard with that tx was cut by
\* a crash, lost its ledger append, or is still between the guard and the row.
SettledIsBooked ==
    \A r \in Requests : pc[r] \in {"sold", "duplicate"} /\ reply[r] = "tx" =>
        \E q \in Requests : /\ pay[q] = pay[r] /\ reply[q] = "tx"
                            /\ q \in ledger \/ pc[q] \in Crediting \cup {"cut", "failed"}

\* verify is not settle, and an answer is not a row: what the server books and says
\* matches what moved on chain, in both directions.
BooksMatchFunds == NoRevenueWithoutFunds /\ SettledIsBooked

\* The registry never shows more revenue than was sold: each credit of a listing
\* is a sale of that product that is booked, or about to be, or was cut short,
\* and over all the listings no tx is credited twice.
RegistryNeverOvercounts ==
    LET shown == {o \in Objs : \E p \in Pids : listed[p] = o}
        all == UNION {heap[o].credits : o \in shown}
    IN  /\ \A p \in Pids : listed[p] # NoObj =>
               \A r \in heap[listed[p]].credits :
                   pid[r] = p /\ (r \in ledger \/ pc[r] \in {"credited", "cut", "failed"})
        /\ \A q, r \in all : q # r /\ reply[q] = "tx" /\ reply[r] = "tx" => pay[q] # pay[r]

\* A booked sale that was credited while its product's object was the listed one stays
\* with the listing through every later rebuild, prune and restart
\* (rebuild_pinned_product reads the old object's revenue after the awaits, not before),
\* unless the process died between the save that lists the new product and the save that
\* carries the old revenue over.  Nothing is said of a sale whose settle a rebuild or a
\* prune of the listing overtook: it is credited to the object that was replaced, stays
\* in the ledger and is missing from the registry's revenue, although
\* rebuild_pinned_product means to carry existing revenue over.
CarryOverKeepsSales ==
    ~Busy => \A r \in ledger \ orphaned :
                 listed[pid[r]] # NoObj /\ r \in heap[listed[pid[r]]].credits

\* The registry's revenue is never more than was sold, and less only by the sales
\* that a rebuild, a prune or a crash overtook as CarryOverKeepsSales says: once a sale
\* is in it, no later rebuild, prune or restart takes it out.
RegistryIsTrue == RegistryNeverOvercounts /\ CarryOverKeepsSales

\* Every purchase that was submitted is answered or cut off by a crash.
EveryRequestAnswered ==
    \A r \in Requests : pc[r] # "new" ~> pc[r] \in Answered \cup Gone

\* The cataloged purchase URL does not stay dead: after a start with an empty
\* registry, failed publishes and crashes, the pinned id is listed again and
\* remains listed, whatever the pruning and the other publishers do.
PinnedComesBack == <>[](listed[Pinned] # NoObj)

\* Seen from one payment the sale is SaleBook: paid, then claimed by the guard,
\* then booked, each once and never backwards, through every restart.
Stage(p) ==
    IF \E q, r \in Requests : q # r /\ TxRow(q) /\ TxRow(r) /\ pay[q] = p /\ pay[r] = p
    THEN "double"
    ELSE IF \E r \in Requests : TxRow(r) /\ pay[r] = p THEN "booked"
    ELSE IF p \in settledTxs THEN "claimed"
    ELSE IF p \in chain THEN "paid" ELSE "unpaid"

stages == [p \in Payments |-> Stage(p)]

Book == INSTANCE SaleBook WITH stage <- stages

RefinesSaleBook == Book!Spec

-----------------------------------------------------------------------------
(* What the documentation says and the code does not do; see the README. *)

\* "nothing that carries history or is still doing work is lost" (the
\* prune_superseded docstring): the product of a booked sale is still in the
\* registry.  Pruning looks at the revenue booked so far, not at purchases in
\* flight.
PruneKeepsHistory == \A r \in ledger : listed[pid[r]] # NoObj
=============================================================================

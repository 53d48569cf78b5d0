------------------------------ MODULE A2ATasks ------------------------------
(***************************************************************************)
(* The A2A endpoint: skills are sold as tasks over JSON-RPC.  A priced     *)
(* skill opens a task that waits for input with the payment terms; a       *)
(* message with a payment payload on that task is verified, settled,       *)
(* booked and executed.                                                    *)
(*                                                                         *)
(* The handler of a payment awaits twice, at the facilitator and at the    *)
(* skill, and holds the task's dict through both, while other messages on  *)
(* the task are answered.  A rejected payment puts a new dict into the     *)
(* store: what a handler writes to the old one is not seen any more.       *)
(***************************************************************************)
EXTENDS Naturals, Sequences, FiniteSets, SequencesExt

CONSTANTS
    Tasks,        \* task ids
    Skills,       \* priced skills
    CityOrder,    \* those that are city checks, in the order of the registry
    Calls,        \* messages with a payment payload
    Payments,     \* valid payment payloads
    NoCall, NoTask, NoSkill,
    MaxFaults     \* bound on lost answers, failed appends, restarts

ASSUME A2AAssumption ==
    /\ CityOrder \in Seq(Skills) /\ MaxFaults \in Nat
    /\ NoCall \notin Calls /\ NoTask \notin Tasks /\ NoSkill \notin Skills

VARIABLES
    task,        \* _TASKS
    used,        \* task ids that were given out
    call,        \* the handlers of payment messages
    settledBy,   \* chain: payment -> the call that settled it
    echoed,      \* calls the facilitator told of a settlement another call had made
    rows,        \* revenue ledger: calls whose sale is booked
    faults

chain == <<settledBy, echoed>>
vars == <<task, used, call, settledBy, echoed, rows, faults>>

Absent == [state |-> "absent"]
Stored(t) == task[t] # Absent
Final == {"completed", "failed", "canceled"}
Idle == [st |-> "idle", task |-> NoTask, own |-> FALSE]

Init ==
    /\ task = [t \in Tasks |-> Absent] /\ used = {}
    /\ call = [c \in Calls |-> Idle]
    /\ settledBy = [p \in Payments |-> NoCall] /\ echoed = {}
    /\ rows = {} /\ faults = 0

Fault == faults < MaxFaults /\ faults' = faults + 1

InFlight == {c \in Calls : call[c].st \in {"paying", "paid", "unpaid", "executing"}}

-----------------------------------------------------------------------------
(* Opening, rejecting and canceling a task: no await. *)

\* The product the terms of a skill name.  The closures of the city skills share
\* the loop's variables and see the last city.
TermsOf(s) == IF s \in Range(CityOrder) THEN Last(CityOrder) ELSE s

\* message/send for a priced skill; nothing is stored when the challenge cannot be
\* built.
Open(t, s) ==
    /\ t \notin used
    /\ used' = used \cup {t}
    /\ task' = [task EXCEPT ![t] = [state |-> "input-required", skill |-> s,
                                    terms |-> TermsOf(s), receipts |-> {},
                                    artifact |-> FALSE]]
    /\ UNCHANGED <<call, chain, rows, faults>>

Unbound(state, artifact) ==
    [state |-> state, skill |-> NoSkill, terms |-> NoSkill, receipts |-> {},
     artifact |-> artifact]

\* message/send for a free skill, which is executed and then stored.
OpenFree(t) ==
    /\ t \notin used
    /\ used' = used \cup {t}
    /\ task' = [task EXCEPT ![t] = Unbound("completed", TRUE)]
    /\ UNCHANGED <<call, chain, rows, faults>>

\* payment-rejected: a new dict, whatever was there; the client may name the id.
Reject(t) ==
    /\ used' = used \cup {t}
    /\ task' = [task EXCEPT ![t] = Unbound("canceled", FALSE)]
    /\ call' = [c \in Calls |-> IF call[c].task = t THEN [call[c] EXCEPT !.own = FALSE]
                                ELSE call[c]]
    /\ UNCHANGED <<chain, rows, faults>>

\* tasks/cancel.
Cancel(t) ==
    /\ Stored(t) /\ task[t].state \notin Final
    /\ task' = [task EXCEPT ![t].state = "canceled"]
    /\ UNCHANGED <<used, call, chain, rows, faults>>

-----------------------------------------------------------------------------
(* payment-submitted. *)

Receipt(c, ok) == [call |-> c, ok |-> ok]
Receipts(c) == IF call[c].own THEN task[call[c].task].receipts ELSE {}

\* The handler's stored.update(task) and its receipts, seen if the dict is still the
\* one in the store.
Update(c, state, receipts) ==
    LET t == call[c].task
    IN  task' = IF call[c].own
                THEN [task EXCEPT ![t].state = state, ![t].receipts = receipts,
                                  ![t].artifact = @ \/ state = "completed"]
                ELSE task

\* Calls on the task that have run side by side with another one.
Together(c, t) == {d \in InFlight : call[d].task = t} \cup {c}

\* An unbound task has no terms and the handler raises; a payload that cannot be
\* parsed fails the task; else the payment goes to the facilitator.  There is no
\* look at the task's state.
Submit(c, t) ==
    /\ call[c] = Idle /\ Stored(t)
    /\ LET began(st, pay) ==
               call' = [d \in Calls |->
                   IF d = c
                   THEN [st |-> st, task |-> t, own |-> TRUE, pay |-> pay,
                         lone |-> Together(c, t) = {c}, held |-> {}]
                   ELSE IF d \in Together(c, t) /\ st = "paying"
                        THEN [call[d] EXCEPT !.lone = FALSE] ELSE call[d]]
       IN  \/ /\ task[t].skill = NoSkill
              /\ began("raised", NoCall)
              /\ UNCHANGED task
           \/ /\ task[t].skill # NoSkill
              /\ began("unparsed", NoCall)
              /\ task' = [task EXCEPT ![t].state = "failed",
                                      ![t].receipts = @ \cup {Receipt(c, FALSE)}]
           \/ /\ task[t].skill # NoSkill
              /\ \E p \in Payments \cup {NoCall} : began("paying", p)
              /\ UNCHANGED task
    /\ UNCHANGED <<used, chain, rows, faults>>

Fresh(c) == call[c].pay \in Payments /\ settledBy[call[c].pay] = NoCall

\* verify_and_settle: an invalid payment is refused; a fresh one settles, but the
\* facilitator may fail and its answer may be lost.  Of a payment that has settled
\* nothing moves again: the facilitator fails it, or answers as it did to the first.
Settle(c) ==
    /\ call[c].st = "paying"
    /\ \/ /\ Fresh(c)
          /\ settledBy' = [settledBy EXCEPT ![call[c].pay] = c]
          /\ \/ call' = [call EXCEPT ![c].st = "paid"] /\ UNCHANGED faults
             \/ Fault /\ call' = [call EXCEPT ![c].st = "unpaid"]
          /\ UNCHANGED echoed
       \/ /\ call[c].pay \in Payments /\ ~Fresh(c)
          /\ echoed' = echoed \cup {c}
          /\ call' = [call EXCEPT ![c].st = "paid"]
          /\ UNCHANGED <<settledBy, faults>>
       \/ /\ IF Fresh(c) THEN Fault ELSE UNCHANGED faults
          /\ call' = [call EXCEPT ![c].st = "unpaid"]
          /\ UNCHANGED chain
    /\ UNCHANGED <<task, used, rows>>

\* Mutant: the task is written anew instead of updated.
Refuse_Replaces(c) ==
    /\ call[c].st = "unpaid"
    /\ LET t == call[c].task
       IN  task' = IF call[c].own
                   THEN [task EXCEPT ![t].state = "input-required",
                                     ![t].receipts = @ \cup {Receipt(c, FALSE)},
                                     ![t].artifact = FALSE]
                   ELSE task
    /\ call' = [call EXCEPT ![c].st = "refused"]
    /\ UNCHANGED <<used, chain, rows, faults>>

\* Not valid or not settled: the task waits for another payment.
Refuse(c) ==
    /\ call[c].st = "unpaid"
    /\ Update(c, "input-required", Receipts(c) \cup {Receipt(c, FALSE)})
    /\ call' = [call EXCEPT ![c].st = "refused"]
    /\ UNCHANGED <<used, chain, rows, faults>>

\* Mutant: a valid payment is enough.
Book_Valid(c) ==
    /\ call[c].st \in {"paid", "unpaid"} /\ call[c].pay \in Payments
    /\ call' = [call EXCEPT ![c].st = "executing",
                            ![c].held = Receipts(c) \cup {Receipt(c, TRUE)}]
    /\ rows' = rows \cup {c}
    /\ UNCHANGED <<task, used, chain, faults>>

\* Mutant: the sale is booked when the skill has run.
Book_Later(c) ==
    /\ call[c].st = "paid"
    /\ call' = [call EXCEPT ![c].st = "executing",
                            ![c].held = Receipts(c) \cup {Receipt(c, TRUE)}]
    /\ UNCHANGED <<task, used, chain, rows, faults>>

\* An append that raises is logged and swallowed.
BookSale(c) == \/ rows' = rows \cup {c} /\ UNCHANGED faults
               \/ Fault /\ UNCHANGED rows

\* Settled: the receipts are read, the sale is booked and the skill is started.
Book(c) ==
    /\ call[c].st = "paid"
    /\ call' = [call EXCEPT ![c].st = "executing",
                            ![c].held = Receipts(c) \cup {Receipt(c, TRUE)}]
    /\ BookSale(c)
    /\ UNCHANGED <<task, used, chain>>

\* The skill answers, or raises; the receipts are those read before.
Execute(c) ==
    /\ call[c].st = "executing"
    /\ \E s \in {"completed", "failed"} :
        /\ Update(c, s, call[c].held)
        /\ call' = [call EXCEPT ![c].st = s]
    /\ UNCHANGED <<used, chain, rows, faults>>

-----------------------------------------------------------------------------
\* The tasks are in memory only.
Restart ==
    /\ Fault
    /\ task' = [t \in Tasks |-> Absent]
    /\ call' = [c \in Calls |->
                  IF c \in InFlight THEN [call[c] EXCEPT !.st = "cut", !.own = FALSE]
                  ELSE [call[c] EXCEPT !.own = FALSE]]
    /\ UNCHANGED <<used, chain, rows>>

Next ==
    \/ Restart
    \/ \E t \in Tasks :
        \/ \E s \in Skills : Open(t, s)
        \/ OpenFree(t) \/ Reject(t) \/ Cancel(t)
        \/ \E c \in Calls : Submit(c, t)
    \/ \E c \in Calls : Settle(c) \/ Refuse(c) \/ Book(c) \/ Execute(c)

Spec == Init /\ [][Next]_vars

-----------------------------------------------------------------------------
(* Properties. *)

AllReceipts == [call : Calls, ok : BOOLEAN]
TaskState == [state : Final \cup {"input-required"}, skill : Skills \cup {NoSkill},
              terms : Skills \cup {NoSkill}, receipts : SUBSET AllReceipts,
              artifact : BOOLEAN]
Stages == {"paying", "paid", "unpaid", "executing", "raised", "unparsed", "refused",
           "completed", "failed", "cut"}
CallState == [st : Stages, task : Tasks, own : BOOLEAN, pay : Payments \cup {NoCall},
              lone : BOOLEAN, held : SUBSET AllReceipts]

\* Type correctness; only given out ids are stored, and a handler writes to a stored
\* task with a skill.
TypeOK ==
    /\ task \in [Tasks -> TaskState \cup {Absent}]
    /\ used \subseteq Tasks /\ \A t \in Tasks : Stored(t) => t \in used
    /\ call \in [Calls -> CallState \cup {Idle}]
    /\ \A c \in InFlight : call[c].own =>
          Stored(call[c].task) /\ task[call[c].task].skill # NoSkill
    /\ settledBy \in [Payments -> Calls \cup {NoCall}] /\ echoed \subseteq Calls
    /\ rows \subseteq Calls /\ faults \in 0 .. MaxFaults

\* The funds of the call's payment have moved, and the call itself moved them or was
\* answered with the settlement that did.
Settled(c) ==
    /\ call[c] # Idle /\ call[c].pay \in Payments /\ settledBy[call[c].pay] # NoCall
    /\ settledBy[call[c].pay] = c \/ c \in echoed

\* A priced task shows an artifact only if a payment on it was settled, and is
\* completed only with a receipt of such a payment, through cancels, rejections,
\* repeated payments and whatever the handlers that raced on it wrote.  One payload
\* serves a second message only if the facilitator answers that one, too, with the
\* settlement: the endpoint does not look.
DeliveredIsPaid ==
    \A t \in Tasks :
        Stored(t) /\ task[t].skill # NoSkill =>
            /\ task[t].artifact => \E c \in Calls : call[c].task = t /\ Settled(c)
            /\ task[t].state = "completed" =>
                   \E r \in task[t].receipts : r.ok /\ Settled(r.call)

SamePayment(c, d) == c # d /\ call[c].pay = call[d].pay

\* The books and the chain agree: the payment of a booked sale has settled, one
\* payment is booked twice only when the facilitator answered one of the two calls
\* with a settlement it had made before, and without faults every call that was
\* told of a settlement is booked before the skill is run.
BooksMatchChain ==
    /\ \A c \in rows : Settled(c)
    /\ \A c, d \in rows : SamePayment(c, d) => c \in echoed \/ d \in echoed
    /\ faults = 0 => \A c \in Calls : Settled(c) => c \in rows \/ call[c].st = "paid"

\* What was delivered stays: the artifact is on the task also when a later payment
\* on it fails or its skill raises, as long as the client does not reject and the
\* process lives, and every attempt that has ended left its receipt on the task, if
\* no two payments on the task were under way together.
DeliveryStays ==
    \A c \in Calls : call[c].own =>
        /\ call[c].st = "completed" => task[call[c].task].artifact
        /\ /\ call[c].st \in {"unparsed", "refused", "completed", "failed"}
           /\ \A d \in Calls : call[d].task = call[c].task /\ call[d].own => call[d].lone
           => \E r \in task[call[c].task].receipts : r.call = c

(* What the code says and does not do; see the README. *)

\* "Payment is required for {entry['name']} property compliance check.": the terms of
\* a task are for its own skill.  Every city's task gets the last city's terms.
TermsNameTheSkill ==
    \A t \in Tasks : Stored(t) => task[t].terms = task[t].skill
=============================================================================

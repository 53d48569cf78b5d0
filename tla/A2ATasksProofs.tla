--------------------------- MODULE A2ATasksProofs ---------------------------
(***************************************************************************)
(* What is delivered is paid and stays delivered, and the books agree with *)
(* the chain, for any number of tasks, messages and payments and however   *)
(* they interleave; and the city checks that the tasks' skills run claim   *)
(* no more than the portals showed, for any requests and any data.         *)
(*                                                                         *)
(* Payment is about settled calls.  The invariant adds why a call that     *)
(* executes is one: the payment a call settled is its own, it is never     *)
(* settled again, and a handler that has got past the facilitator holds a  *)
(* receipt of its own through the skill's await, whatever other handlers   *)
(* write to the task meanwhile.  That a delivery stays needs more: of the  *)
(* handlers of one task, as long as none overlapped, only one runs, and    *)
(* the receipts it read before the skill are those of all that ended.      *)
(***************************************************************************)
EXTENDS A2ATasks, CityChecks, FoldLemmas, TLAPS

\* What a payment was settled for, and what a handler behind the facilitator holds.
ChainInv ==
    /\ \A p \in Payments : settledBy[p] # NoCall => Settled(settledBy[p]) /\ call[settledBy[p]].pay = p
    /\ \A c \in Calls : call[c].st \in {"paid", "executing"} \/ c \in echoed => Settled(c)
    /\ \A c \in Calls : call[c].st = "executing" => Receipt(c, TRUE) \in call[c].held

A2AInv == TypeOK /\ ChainInv /\ DeliveredIsPaid /\ BooksMatchChain

\* What a step keeps of the handlers: what they settled, and for which task.
SettledKept ==
    \A c \in Calls : Settled(c) => Settled(c)' /\ call'[c].task = call[c].task

\* What a step keeps of a task: an artifact and a completed state are old ones, or
\* there is a settled payment for them.
TaskKept(t) ==
    task'[t] # Absent /\ task'[t].skill # NoSkill =>
        /\ \/ ~task'[t].artifact
           \/ task[t] # Absent /\ task[t].skill # NoSkill /\ task[t].artifact
           \/ \E c \in Calls : call'[c].task = t /\ Settled(c)'
        /\ \/ task'[t].state # "completed"
           \/ /\ task[t] # Absent /\ task[t].skill # NoSkill /\ task[t].state = "completed"
              /\ task[t].receipts \subseteq task'[t].receipts
           \/ \E r \in task'[t].receipts : r.call \in Calls /\ r.ok /\ Settled(r.call)'

-----------------------------------------------------------------------------
LEMMA DeliveredKept ==
    ASSUME A2AInv, SettledKept, \A t \in Tasks : TaskKept(t)
    PROVE  DeliveredIsPaid'
<1> SUFFICES ASSUME NEW t \in Tasks, task'[t] # Absent, task'[t].skill # NoSkill
             PROVE  /\ task'[t].artifact => \E c \in Calls : call'[c].task = t /\ Settled(c)'
                    /\ task'[t].state = "completed" =>
                          \E r \in task'[t].receipts : r.ok /\ Settled(r.call)'
  BY DEF DeliveredIsPaid, Stored, Absent
<1>1. TaskKept(t)
  OBVIOUS
<1>2. ASSUME task'[t].artifact PROVE \E c \in Calls : call'[c].task = t /\ Settled(c)'
  <2>1. CASE task[t] # Absent /\ task[t].skill # NoSkill /\ task[t].artifact
    <3>1. PICK c \in Calls : call[c].task = t /\ Settled(c)
      BY <2>1 DEF A2AInv, DeliveredIsPaid, Stored
    <3>2. QED
      BY <3>1 DEF SettledKept
  <2>2. QED
    BY <1>1, <1>2, <2>1 DEF TaskKept
<1>3. ASSUME task'[t].state = "completed"
      PROVE  \E r \in task'[t].receipts : r.ok /\ Settled(r.call)'
  <2>1. CASE /\ task[t] # Absent /\ task[t].skill # NoSkill /\ task[t].state = "completed"
             /\ task[t].receipts \subseteq task'[t].receipts
    <3>1. PICK r \in task[t].receipts : r.ok /\ Settled(r.call)
      BY <2>1 DEF A2AInv, DeliveredIsPaid, Stored
    <3>2. r.call \in Calls
      BY <2>1, <3>1 DEF A2AInv, TypeOK, TaskState, AllReceipts
    <3>3. QED
      BY <2>1, <3>1, <3>2 DEF SettledKept
  <2>2. QED
    BY <1>1, <1>3, <2>1 DEF TaskKept
<1>4. QED
  BY <1>2, <1>3

\* What a step that settles and books nothing keeps of a handler.
CallKept(c) ==
    /\ call[c] # Idle => /\ call'[c] # Idle
                         /\ call'[c].pay = call[c].pay /\ call'[c].task = call[c].task
    /\ call'[c].st \in {"paid", "executing"} =>
          call'[c].st = call[c].st /\ call'[c].held = call[c].held
    /\ call[c].st = "paid" => call'[c].st = "paid" \/ faults' # 0

LEMMA NothingSettled ==
    ASSUME A2AInv, UNCHANGED <<settledBy, echoed, rows>>, faults' = 0 => faults = 0,
           \A c \in Calls : CallKept(c)
    PROVE  SettledKept /\ ChainInv' /\ BooksMatchChain'
<1> USE DEF A2AInv
<1>1. \A c \in Calls : Settled(c) => Settled(c)' /\ call'[c].task = call[c].task
  BY DEF CallKept, Settled
<1>2. ASSUME NEW c \in Calls, Settled(c)' PROVE Settled(c)
  <2>1. /\ call'[c].pay \in Payments /\ c # NoCall
        /\ settledBy[call'[c].pay] = c \/ c \in echoed
    BY <1>2, A2AAssumption DEF Settled
  <2>2. QED
    BY <2>1 DEF ChainInv
<1>3. ChainInv'
  <2>1. ASSUME NEW p \in Payments, settledBy[p] # NoCall
        PROVE  Settled(settledBy[p])' /\ call'[settledBy[p]].pay = p
    <3>1. settledBy[p] \in Calls /\ Settled(settledBy[p]) /\ call[settledBy[p]].pay = p
      BY <2>1 DEF ChainInv, TypeOK
    <3>2. QED
      BY <1>1, <3>1 DEF CallKept, Settled
  <2>2. ASSUME NEW c \in Calls, call'[c].st \in {"paid", "executing"} \/ c \in echoed
        PROVE  Settled(c)' /\ (call'[c].st = "executing" => Receipt(c, TRUE) \in call'[c].held)
    BY <1>1, <2>2 DEF CallKept, ChainInv
  <2>3. QED
    BY <2>1, <2>2 DEF ChainInv, Receipt
<1>4. BooksMatchChain'
  <2>1. \A c \in rows : c \in Calls
    BY DEF TypeOK
  <2>2. \A c, d \in rows : SamePayment(c, d)' => c \in echoed \/ d \in echoed
    BY <1>1, <2>1 DEF BooksMatchChain, SamePayment, Settled
  <2>3. QED
    BY <1>1, <1>2, <2>1, <2>2 DEF BooksMatchChain, CallKept
<1>5. QED
  BY <1>1, <1>3, <1>4 DEF SettledKept

\* A call that was not made is nobody's already.
LEMMA IdleDisowned == [Idle EXCEPT !.own = FALSE] = Idle
<1> DEFINE Alike == [st : {"idle"}, task : {NoTask}, own : {FALSE}]
<1>1. Idle \in Alike /\ [Idle EXCEPT !.own = FALSE] \in Alike
  BY DEF Idle
<1>2. ASSUME NEW p \in Alike PROVE p = Idle
  BY DEF Idle
<1>3. QED
  BY <1>1, <1>2

\* The shape of a handler's record after a change of it.
LEMMA Disowned ==
    ASSUME NEW q \in CallState \cup {Idle}
    PROVE  /\ [q EXCEPT !.own = FALSE] \in CallState \cup {Idle}
           /\ q = Idle => [q EXCEPT !.own = FALSE] = Idle
           /\ q # Idle => /\ [q EXCEPT !.own = FALSE] # Idle
                          /\ [q EXCEPT !.own = FALSE].task = q.task
                          /\ [q EXCEPT !.own = FALSE].pay = q.pay
                          /\ [q EXCEPT !.own = FALSE].held = q.held
           /\ [q EXCEPT !.own = FALSE].st = q.st /\ [q EXCEPT !.own = FALSE].own = FALSE
<1>1. CASE q = Idle
  <2>1. Idle.own = FALSE
    BY DEF Idle
  <2>2. QED
    BY <1>1, <2>1, IdleDisowned
<1>2. CASE q \in CallState /\ q # Idle
  <2>1. [q EXCEPT !.own = FALSE] \in CallState /\ [q EXCEPT !.own = FALSE].st = q.st
    BY <1>2 DEF CallState
  <2>2. q.st # "idle"
    BY <1>2 DEF CallState, Stages
  <2>3. [q EXCEPT !.own = FALSE] # Idle
    BY <2>1, <2>2 DEF Idle
  <2>4. QED
    BY <1>2, <2>1, <2>3 DEF CallState
<1>3. QED
  BY <1>1, <1>2

LEMMA NotIdle == ASSUME NEW q \in CallState PROVE q # Idle /\ q.st # "idle"
  BY DEF CallState, Stages, Idle

LEMMA A2AInitInv == Init => A2AInv
<1> SUFFICES ASSUME Init PROVE A2AInv
  OBVIOUS
<1>1. \A c \in Calls : call[c] = Idle /\ call[c].st = "idle" /\ call[c].own = FALSE
  BY DEF Init, Idle
<1>2. \A t \in Tasks : ~Stored(t)
  BY DEF Init, Stored
<1>3. InFlight = {} /\ \A c \in Calls : ~Settled(c)
  BY <1>1 DEF InFlight, Settled
<1>4. TypeOK
  BY <1>1, <1>2, <1>3, A2AAssumption DEF Init, TypeOK
<1>5. ChainInv /\ DeliveredIsPaid /\ BooksMatchChain
  BY <1>1, <1>2, <1>3 DEF Init, ChainInv, DeliveredIsPaid, BooksMatchChain
<1>6. QED
  BY <1>4, <1>5 DEF A2AInv

-----------------------------------------------------------------------------
(* Steps without an await. *)

LEMMA OpenInv == ASSUME A2AInv, NEW t \in Tasks, NEW s \in Skills, Open(t, s) PROVE A2AInv'
<1> USE DEF A2AInv
<1>1. TermsOf(s) \in Skills
  <2>1. CASE s \in Range(CityOrder)
    <3>1. CityOrder \in Seq(Skills) /\ Len(CityOrder) \in Nat /\ DOMAIN CityOrder = 1 .. Len(CityOrder)
      BY A2AAssumption
    <3>2. \E i \in DOMAIN CityOrder : CityOrder[i] = s
      BY <2>1 DEF Range
    <3>3. CityOrder[Len(CityOrder)] \in Skills
      BY <3>1, <3>2
    <3>4. QED
      BY <2>1, <3>3 DEF TermsOf, Last
  <2>2. CASE s \notin Range(CityOrder)
    BY <2>2 DEF TermsOf
  <2>3. QED
    BY <2>1, <2>2
<1>2. TypeOK'
  BY <1>1, A2AAssumption DEF TypeOK, Open, TaskState, Stored, Absent, Final, InFlight, chain
<1>3. SettledKept /\ ChainInv' /\ BooksMatchChain'
  BY DEF Open, chain, SettledKept, Settled, SamePayment, ChainInv, BooksMatchChain
<1>4. \A u \in Tasks : TaskKept(u)
  BY DEF Open, TaskKept, TypeOK
<1>5. QED
  BY <1>2, <1>3, <1>4, DeliveredKept

LEMMA OpenFreeInv == ASSUME A2AInv, NEW t \in Tasks, OpenFree(t) PROVE A2AInv'
<1> USE DEF A2AInv
<1>1. TypeOK'
  BY A2AAssumption DEF TypeOK, OpenFree, Unbound, TaskState, Stored, Absent, Final, InFlight, chain
<1>2. SettledKept /\ ChainInv' /\ BooksMatchChain'
  BY DEF OpenFree, chain, SettledKept, Settled, SamePayment, ChainInv, BooksMatchChain
<1>3. \A u \in Tasks : TaskKept(u)
  BY DEF OpenFree, Unbound, TaskKept, TypeOK
<1>4. QED
  BY <1>1, <1>2, <1>3, DeliveredKept

LEMMA CancelInv == ASSUME A2AInv, NEW t \in Tasks, Cancel(t) PROVE A2AInv'
<1> USE DEF A2AInv
<1>1. TypeOK'
  BY A2AAssumption DEF TypeOK, Cancel, TaskState, Stored, Absent, Final, InFlight, chain
<1>2. SettledKept /\ ChainInv' /\ BooksMatchChain'
  BY DEF Cancel, chain, SettledKept, Settled, SamePayment, ChainInv, BooksMatchChain
<1>3. \A u \in Tasks : TaskKept(u)
  BY DEF Cancel, TaskKept, TypeOK, Stored, TaskState
<1>4. QED
  BY <1>1, <1>2, <1>3, DeliveredKept

\* A rejected task's handlers write to it no more.
LEMMA RejectInv == ASSUME A2AInv, NEW t \in Tasks, Reject(t) PROVE A2AInv'
<1> USE DEF A2AInv
<1>1. /\ call' = [c \in Calls |-> IF call[c].task = t THEN [call[c] EXCEPT !.own = FALSE] ELSE call[c]]
      /\ UNCHANGED <<settledBy, echoed, rows, faults>>
  BY DEF Reject, chain
<1>2. \A c \in Calls :
        /\ call'[c] \in CallState \cup {Idle} /\ call'[c].st = call[c].st
        /\ call'[c].own => call[c].own /\ call[c].task # t
        /\ call[c] # Idle => /\ call'[c] # Idle /\ call'[c].task = call[c].task
                             /\ call'[c].pay = call[c].pay /\ call'[c].held = call[c].held
        /\ call[c] = Idle => call'[c] = Idle
  BY <1>1, Disowned DEF TypeOK
<1>3. SettledKept /\ ChainInv' /\ BooksMatchChain'
  <2>1. \A c \in Calls : call[c].st \in {"paid", "executing"} => call[c] # Idle
    BY DEF Idle
  <2>2. QED
    BY <1>1, <1>2, <2>1, NothingSettled DEF CallKept
<1>4. TypeOK'
  <2>1. task' \in [Tasks -> TaskState \cup {Absent}] /\ used' \subseteq Tasks
        /\ \A u \in Tasks : task'[u] # Absent => u \in used'
    BY DEF Reject, Unbound, TypeOK, TaskState, Stored, Final
  <2>2. call' \in [Calls -> CallState \cup {Idle}]
    BY <1>1, <1>2
  <2>3. ASSUME NEW c \in Calls, c \in InFlight', call'[c].own
        PROVE  task'[call'[c].task] # Absent /\ task'[call'[c].task].skill # NoSkill
    <3>1. c \in InFlight /\ call[c].own /\ call[c].task # t
      BY <1>2, <2>3 DEF InFlight
    <3>2. call[c] # Idle /\ call[c].task \in Tasks
      BY <3>1 DEF TypeOK, CallState, InFlight, Idle
    <3>3. task'[call[c].task] = task[call[c].task]
      BY <3>1, <3>2 DEF Reject, TypeOK
    <3>4. QED
      BY <1>2, <3>1, <3>2, <3>3 DEF TypeOK, Stored
  <2>4. QED
    BY <1>1, <2>1, <2>2, <2>3 DEF TypeOK, Stored, InFlight, Absent
<1>5. \A u \in Tasks : TaskKept(u)
  BY DEF Reject, Unbound, TaskKept, TypeOK
<1>6. QED
  BY <1>3, <1>4, <1>5, DeliveredKept

\* A restart forgets tasks, but neither the chain nor the books.
LEMMA RestartInv == ASSUME A2AInv, Restart PROVE A2AInv'
<1> USE DEF A2AInv
<1>1. /\ call' = [c \in Calls |->
                  IF c \in InFlight THEN [call[c] EXCEPT !.st = "cut", !.own = FALSE]
                  ELSE [call[c] EXCEPT !.own = FALSE]]
      /\ UNCHANGED <<used, settledBy, echoed, rows>>
      /\ task' = [t \in Tasks |-> Absent]
  BY DEF Restart, chain
<1>f. faults' \in 0 .. MaxFaults /\ faults' # 0
  <2>1. faults \in 0 .. MaxFaults /\ MaxFaults \in Nat
    BY A2AAssumption DEF TypeOK
  <2>2. faults < MaxFaults /\ faults' = faults + 1
    BY DEF Restart, Fault
  <2>3. QED
    BY <2>1, <2>2
<1>2. \A c \in Calls :
        /\ call'[c] \in CallState \cup {Idle} /\ call'[c].own = FALSE
        /\ call'[c].st \notin {"paying", "paid", "unpaid", "executing"}
        /\ call[c] # Idle => /\ call'[c] # Idle /\ call'[c].task = call[c].task
                             /\ call'[c].pay = call[c].pay
  <2> TAKE c \in Calls
  <2>1. CASE c \in InFlight
    <3>0. call[c] # Idle
      BY <2>1 DEF InFlight, Idle
    <3>1. call[c] \in CallState /\ call'[c] = [call[c] EXCEPT !.st = "cut", !.own = FALSE]
      BY <1>1, <2>1, <3>0 DEF TypeOK
    <3>2. "cut" \in Stages
      BY DEF Stages
    <3>3. /\ call'[c] \in CallState /\ call'[c].own = FALSE /\ call'[c].st = "cut"
          /\ call'[c].task = call[c].task /\ call'[c].pay = call[c].pay
      BY <3>1, <3>2 DEF CallState
    <3>4. QED
      BY <3>3, NotIdle
  <2>2. CASE c \notin InFlight
    <3>1. call[c] \in CallState \cup {Idle} /\ call'[c] = [call[c] EXCEPT !.own = FALSE]
      BY <1>1, <2>2 DEF TypeOK
    <3>2. call[c].st \notin {"paying", "paid", "unpaid", "executing"}
      BY <2>2 DEF InFlight
    <3>3. QED
      BY <3>1, <3>2, Disowned
  <2>3. QED
    BY <2>1, <2>2
<1>3. SettledKept /\ ChainInv' /\ BooksMatchChain'
  <2>1. \A c \in Calls : CallKept(c)
    BY <1>2, <1>f DEF CallKept
  <2>2. QED
    BY <1>1, <1>f, <2>1, NothingSettled
<1>4. TypeOK'
  <2>1. call' \in [Calls -> CallState \cup {Idle}]
    BY <1>1, <1>2
  <2>3. InFlight' = {}
    BY <1>2 DEF InFlight
  <2>4. QED
    BY <1>1, <1>f, <2>1, <2>3 DEF TypeOK, Stored
<1>5. \A u \in Tasks : TaskKept(u)
  BY <1>1 DEF TaskKept
<1>6. QED
  BY <1>3, <1>4, <1>5, DeliveredKept

-----------------------------------------------------------------------------
(* The handler of a payment. *)

\* What an update of a task by its handler leaves.
LEMMA UpdateGives ==
    ASSUME TypeOK, NEW c \in InFlight, NEW s \in {"input-required", "completed", "failed"},
           NEW receipts \in SUBSET AllReceipts, Update(c, s, receipts)
    PROVE  /\ task' \in [Tasks -> TaskState \cup {Absent}]
           /\ \A t \in Tasks : /\ task'[t] # Absent <=> task[t] # Absent
                               /\ task'[t] # Absent => task'[t].skill = task[t].skill
           /\ \A t \in Tasks : \/ task'[t] = task[t]
                               \/ /\ t = call[c].task /\ call[c].own
                                  /\ task'[t].state = s /\ task'[t].receipts = receipts
                                  /\ task'[t].artifact = (task[t].artifact \/ s = "completed")
<1> DEFINE t == call[c].task
<1>1. CASE ~call[c].own
  BY <1>1 DEF Update, TypeOK
<1>2. CASE call[c].own
  <2>1. t \in Tasks /\ task[t] \in TaskState /\ task[t] # Absent
    BY <1>2 DEF TypeOK, InFlight, Idle, CallState, Stored
  <2> DEFINE q == [task[t] EXCEPT !.state = s, !.receipts = receipts,
                                  !.artifact = @ \/ s = "completed"]
  <2>2. task' = [task EXCEPT ![t] = q]
    BY <1>2, <2>1 DEF Update, TypeOK
  <2>3. /\ q \in TaskState /\ q.skill = task[t].skill /\ q.state = s /\ q.receipts = receipts
        /\ q.artifact = (task[t].artifact \/ s = "completed")
    BY <2>1 DEF TaskState, Final
  <2>4. q # Absent
    BY <2>3 DEF TaskState, Final, Absent
  <2> HIDE DEF q
  <2>5. QED
    BY <1>2, <2>1, <2>2, <2>3, <2>4 DEF TypeOK
<1>3. QED
  BY <1>1, <1>2

\* The end of a handler, which writes to its task if that is still in the store.
LEMMA HandlerEnds ==
    ASSUME A2AInv, NEW c \in InFlight, NEW s \in {"input-required", "completed", "failed"},
           NEW e \in {"refused", "completed", "failed"},
           NEW receipts \in SUBSET AllReceipts, Update(c, s, receipts),
           call' = [call EXCEPT ![c].st = e], UNCHANGED <<used, settledBy, echoed, rows, faults>>,
           s = "completed" => Settled(c) /\ Receipt(c, TRUE) \in receipts,
           call[c].st # "paid"
    PROVE  A2AInv'
<1> USE DEF A2AInv
<1>1. c \in Calls /\ call[c] \in CallState /\ call[c] # Idle
  BY DEF TypeOK, InFlight, Idle
<1> DEFINE q == [call[c] EXCEPT !.st = e]
<1>2. /\ q \in CallState /\ q.st = e /\ q.pay = call[c].pay /\ q.task = call[c].task
      /\ q.own = call[c].own /\ call' = [call EXCEPT ![c] = q]
  BY <1>1 DEF CallState, Stages, TypeOK
<1>3. q # Idle
  BY <1>2, NotIdle
<1> HIDE DEF q
<1>4. /\ call'[c] = q /\ \A d \in Calls : d # c => call'[d] = call[d]
  BY <1>1, <1>2 DEF TypeOK
<1>5. SettledKept /\ ChainInv' /\ BooksMatchChain'
  <2>1. \A d \in Calls : CallKept(d)
    BY <1>1, <1>2, <1>3, <1>4 DEF CallKept
  <2>2. QED
    BY <2>1, NothingSettled
<1>6. TypeOK'
  <2>1. call' \in [Calls -> CallState \cup {Idle}]
    BY <1>1, <1>2 DEF TypeOK
  <2>2. InFlight' = InFlight \ {c}
    BY <1>2, <1>4 DEF InFlight
  <2>3. \A d \in InFlight' : call'[d] = call[d] /\ call[d].task \in Tasks
    BY <1>4, <2>2 DEF InFlight, TypeOK, Idle, CallState
  <2>4. QED
    BY <2>1, <2>2, <2>3, UpdateGives DEF TypeOK, Stored
<1>7. \A t \in Tasks : TaskKept(t)
  <2> TAKE t \in Tasks
  <2>1. CASE task'[t] = task[t]
    BY <2>1 DEF TaskKept
  <2>2. CASE /\ t = call[c].task /\ call[c].own
             /\ task'[t].state = s /\ task'[t].receipts = receipts
             /\ task'[t].artifact = (task[t].artifact \/ s = "completed")
    <3>1. call'[c].task = t
      BY <1>2, <1>4, <2>2
    <3>2. CASE s = "completed"
      <4>1. Settled(c)'
        BY <1>1, <1>5, <3>2 DEF SettledKept
      <4>2. Receipt(c, TRUE) \in receipts /\ Receipt(c, TRUE).call = c /\ Receipt(c, TRUE).ok
        BY <3>2 DEF Receipt
      <4>3. QED
        BY <1>1, <2>2, <3>1, <4>1, <4>2 DEF TaskKept
    <3>3. CASE s # "completed"
      BY <2>2, <3>3, UpdateGives DEF TaskKept
    <3>4. QED
      BY <3>2, <3>3
  <2>3. QED
    BY <2>1, <2>2, UpdateGives
<1>8. QED
  BY <1>5, <1>6, <1>7, DeliveredKept

LEMMA ExecuteInv == ASSUME A2AInv, NEW c \in Calls, Execute(c) PROVE A2AInv'
<1>1. call[c].st = "executing" /\ c \in InFlight
  BY DEF Execute, InFlight
<1>2. Settled(c) /\ Receipt(c, TRUE) \in call[c].held
  BY <1>1 DEF A2AInv, ChainInv
<1>3. call[c].held \in SUBSET AllReceipts
  BY <1>1 DEF A2AInv, TypeOK, Idle, CallState
<1>4. PICK s \in {"completed", "failed"} :
        Update(c, s, call[c].held) /\ call' = [call EXCEPT ![c].st = s]
  BY DEF Execute
<1>5. UNCHANGED <<used, settledBy, echoed, rows, faults>>
  BY DEF Execute, chain
<1>6. QED
  BY <1>1, <1>2, <1>3, <1>4, <1>5, HandlerEnds

LEMMA ReceiptsType ==
    ASSUME TypeOK, NEW c \in InFlight, NEW ok \in BOOLEAN
    PROVE  Receipts(c) \cup {Receipt(c, ok)} \in SUBSET AllReceipts
<1>1. c \in Calls /\ call[c] \in CallState
  BY DEF TypeOK, InFlight, Idle
<1>2. CASE call[c].own
  <2>1. call[c].task \in Tasks /\ task[call[c].task] \in TaskState
    BY <1>1, <1>2 DEF TypeOK, CallState, Stored
  <2>2. QED
    BY <1>1, <2>1 DEF Receipts, Receipt, AllReceipts, TaskState
<1>3. CASE ~call[c].own
  BY <1>1, <1>3 DEF Receipts, Receipt, AllReceipts
<1>4. QED
  BY <1>2, <1>3

LEMMA RefuseInv == ASSUME A2AInv, NEW c \in Calls, Refuse(c) PROVE A2AInv'
<1>1. call[c].st = "unpaid" /\ c \in InFlight
  BY DEF Refuse, InFlight
<1>2. Receipts(c) \cup {Receipt(c, FALSE)} \in SUBSET AllReceipts
  BY <1>1, ReceiptsType DEF A2AInv
<1>3. QED
  BY <1>1, <1>2, HandlerEnds DEF Refuse, chain

\* A settlement: the payment was nobody's, and the answer may be lost.
LEMMA SettleInv == ASSUME A2AInv, NEW c \in Calls, Settle(c) PROVE A2AInv'
<1> USE DEF A2AInv
<1>1. /\ call[c].st = "paying" /\ c \in InFlight /\ call[c] # Idle /\ call[c] \in CallState
      /\ UNCHANGED <<task, used, rows>>
  BY DEF Settle, InFlight, Idle, TypeOK
<1>2. PICK e \in {"paid", "unpaid"} :
        /\ call' = [call EXCEPT ![c].st = e]
        /\ \/ /\ Fresh(c) /\ settledBy' = [settledBy EXCEPT ![call[c].pay] = c]
              /\ e = "paid" \/ Fault
              /\ UNCHANGED echoed
           \/ /\ call[c].pay \in Payments /\ ~Fresh(c) /\ echoed' = echoed \cup {c}
              /\ e = "paid" /\ UNCHANGED settledBy
           \/ e = "unpaid" /\ UNCHANGED <<settledBy, echoed>>
  BY DEF Settle, chain
<1> DEFINE q == [call[c] EXCEPT !.st = e]
<1>3. /\ q \in CallState /\ q.st = e /\ q.pay = call[c].pay /\ q.task = call[c].task
      /\ q.own = call[c].own /\ q.held = call[c].held /\ call' = [call EXCEPT ![c] = q]
  BY <1>1, <1>2 DEF CallState, Stages, TypeOK
<1>4. q # Idle
  BY <1>3, NotIdle
<1> HIDE DEF q
<1>5. call'[c] = q /\ \A d \in Calls : d # c => call'[d] = call[d]
  BY <1>1, <1>3 DEF TypeOK
<1>6. faults \in 0 .. MaxFaults /\ MaxFaults \in Nat
  BY A2AAssumption DEF TypeOK
<1>7. faults' \in 0 .. MaxFaults /\ (faults' = 0 => faults = 0)
  BY <1>6 DEF Settle, Fault
<1>8. ASSUME settledBy' \in [Payments -> Calls \cup {NoCall}], echoed' \subseteq Calls PROVE TypeOK'
  <2>1. call' \in [Calls -> CallState \cup {Idle}]
    BY <1>3 DEF TypeOK
  <2>2. \A d \in InFlight' : d \in InFlight /\ call'[d].own = call[d].own /\ call'[d].task = call[d].task
    BY <1>1, <1>3, <1>5 DEF InFlight
  <2>3. QED
    BY <1>1, <1>7, <1>8, <2>1, <2>2 DEF TypeOK, Stored
<1>9. \A t \in Tasks : TaskKept(t)
  BY <1>1 DEF TaskKept
<1>10. CASE e = "unpaid" /\ UNCHANGED <<settledBy, echoed>>
  <2>1. settledBy' = settledBy /\ echoed' = echoed /\ e = "unpaid"
    BY <1>10
  <2>2. SettledKept /\ ChainInv' /\ BooksMatchChain'
    <3>1. \A d \in Calls : CallKept(d)
      BY <1>1, <1>3, <1>4, <1>5, <2>1 DEF CallKept
    <3>2. QED
      BY <1>1, <1>7, <2>1, <3>1, NothingSettled
  <2>3. QED
    BY <1>8, <1>9, <2>1, <2>2, DeliveredKept DEF TypeOK
<1>11. CASE \/ /\ Fresh(c) /\ settledBy' = [settledBy EXCEPT ![call[c].pay] = c]
               /\ e = "paid" \/ Fault
               /\ UNCHANGED echoed
            \/ /\ call[c].pay \in Payments /\ ~Fresh(c) /\ echoed' = echoed \cup {c}
               /\ e = "paid" /\ UNCHANGED settledBy
  <2>1. /\ call[c].pay \in Payments /\ c # NoCall /\ \A d \in Calls : d # NoCall
        /\ settledBy'[call[c].pay] # NoCall
        /\ settledBy'[call[c].pay] = c \/ c \in echoed'
        /\ e = "paid" \/ faults' # 0
    BY <1>6, <1>11, A2AAssumption DEF Fresh, Fault, TypeOK
  <2>2. /\ \A p \in Payments : p # call[c].pay \/ settledBy[p] # NoCall => settledBy'[p] = settledBy[p]
        /\ settledBy'[call[c].pay] \in {c, settledBy[call[c].pay]}
        /\ \A d \in Calls : d # c => (d \in echoed' <=> d \in echoed)
        /\ settledBy' \in [Payments -> Calls \cup {NoCall}] /\ echoed' \subseteq Calls
    BY <1>11, <2>1 DEF TypeOK, Fresh
  <2>3. Settled(c)'
    BY <1>3, <1>4, <1>5, <2>1, <2>2 DEF Settled
  <2>4. ASSUME NEW d \in Calls, d # c PROVE Settled(d)' <=> Settled(d)
    <3>1. call'[d] = call[d] /\ (d \in echoed' <=> d \in echoed)
      BY <1>5, <2>2, <2>4
    <3>2. ASSUME Settled(d) PROVE Settled(d)'
      BY <2>2, <3>1, <3>2 DEF Settled
    <3>3. ASSUME Settled(d)' PROVE Settled(d)
      <4>1. CASE d \in echoed
        BY <4>1 DEF ChainInv
      <4>2. CASE d \notin echoed
        <5>1. call[d] # Idle /\ call[d].pay \in Payments /\ settledBy'[call[d].pay] = d
          BY <3>1, <3>3, <4>2 DEF Settled
        <5>2. settledBy[call[d].pay] = d
          BY <2>1, <2>2, <2>4, <5>1
        <5>3. QED
          BY <2>1, <5>1, <5>2 DEF Settled
      <4>3. QED
        BY <4>1, <4>2
    <3>4. QED
      BY <3>2, <3>3
  <2>5. SettledKept
    BY <1>3, <1>5, <2>3, <2>4 DEF SettledKept
  <2>6. ChainInv'
    <3>1. ASSUME NEW p \in Payments, settledBy'[p] # NoCall
          PROVE  (Settled(settledBy[p]) /\ call[settledBy[p]].pay = p)'
      <4>1. CASE settledBy'[p] = c
        <5>1. CASE p = call[c].pay
          BY <1>3, <1>5, <2>3, <4>1, <5>1
        <5>2. CASE p # call[c].pay
          BY <1>3, <1>5, <2>1, <2>2, <2>3, <4>1, <5>2 DEF ChainInv
        <5>3. QED
          BY <5>1, <5>2
      <4>2. CASE settledBy'[p] # c
        <5>1. settledBy'[p] = settledBy[p] /\ settledBy[p] \in Calls /\ settledBy[p] # NoCall
          BY <2>2, <3>1, <4>2 DEF TypeOK
        <5>2. Settled(settledBy[p]) /\ call[settledBy[p]].pay = p /\ settledBy[p] # c
          BY <4>2, <5>1 DEF ChainInv
        <5>3. QED
          BY <1>5, <2>4, <5>1, <5>2
      <4>3. QED
        BY <4>1, <4>2
    <3>2. ASSUME NEW d \in Calls, call'[d].st \in {"paid", "executing"} \/ d \in echoed'
          PROVE  Settled(d)' /\ (call'[d].st = "executing" => Receipt(d, TRUE) \in call'[d].held)
      BY <1>3, <1>5, <2>2, <2>3, <2>4, <3>2 DEF ChainInv
    <3>3. QED
      BY <3>1, <3>2 DEF ChainInv, Receipt
  <2>7. BooksMatchChain'
    <3>1. \A d \in rows : d \in Calls /\ Settled(d)'
      BY <2>3, <2>4 DEF BooksMatchChain, TypeOK
    <3>2. ASSUME faults' = 0, NEW d \in Calls, Settled(d)' PROVE d \in rows \/ call'[d].st = "paid"
      BY <1>3, <1>5, <1>7, <2>1, <2>4, <3>2 DEF BooksMatchChain
    <3>3. \A d, f \in rows : SamePayment(d, f)' => d \in echoed' \/ f \in echoed'
      BY <3>1 DEF SamePayment, Settled
    <3>4. QED
      BY <1>1, <3>1, <3>2, <3>3 DEF BooksMatchChain
  <2>9. QED
    BY <1>8, <1>9, <2>2, <2>5, <2>6, <2>7, DeliveredKept
<1>12. QED
  BY <1>2, <1>10, <1>11

LEMMA BookInv == ASSUME A2AInv, NEW c \in Calls, Book(c) PROVE A2AInv'
<1> USE DEF A2AInv
<1>1. /\ call[c].st = "paid" /\ c \in InFlight /\ call[c] # Idle /\ call[c] \in CallState
      /\ UNCHANGED <<task, used, settledBy, echoed>>
  BY DEF Book, InFlight, Idle, TypeOK, chain
<1> DEFINE h == Receipts(c) \cup {Receipt(c, TRUE)}
           q == [call[c] EXCEPT !.st = "executing", !.held = h]
<1>2. h \in SUBSET AllReceipts /\ "executing" \in Stages
  BY <1>1, ReceiptsType DEF Stages
<1>3. call' = [call EXCEPT ![c] = q]
  BY DEF Book
<1>4. Receipt(c, TRUE) \in h
  OBVIOUS
<1> HIDE DEF h
<1>5. /\ q \in CallState /\ q.st = "executing" /\ q.pay = call[c].pay /\ q.task = call[c].task
      /\ q.own = call[c].own /\ q.held = h
  BY <1>1, <1>2 DEF CallState
<1>6. q # Idle
  BY <1>5, NotIdle
<1> HIDE DEF q
<1>7. call'[c] = q /\ \A d \in Calls : d # c => call'[d] = call[d]
  BY <1>1, <1>3 DEF TypeOK
<1>8. faults \in 0 .. MaxFaults /\ MaxFaults \in Nat
  BY A2AAssumption DEF TypeOK
<1>9. /\ faults' \in 0 .. MaxFaults /\ (faults' = 0 => faults = 0)
      /\ \/ rows' = rows \cup {c}
         \/ rows' = rows /\ faults' # 0
  BY <1>8 DEF Book, BookSale, Fault
<1>10. Settled(c) /\ \A d \in Calls : Settled(d)' <=> Settled(d)
  BY <1>1, <1>5, <1>6, <1>7 DEF Settled, ChainInv
<1>11. SettledKept
  BY <1>5, <1>7, <1>10 DEF SettledKept
<1>12. ChainInv'
  <2>1. ASSUME NEW p \in Payments, settledBy[p] # NoCall
        PROVE  Settled(settledBy[p])' /\ call'[settledBy[p]].pay = p
    <3>1. settledBy[p] \in Calls /\ Settled(settledBy[p]) /\ call[settledBy[p]].pay = p
      BY <2>1 DEF ChainInv, TypeOK
    <3>2. \A d \in Calls : Settled(d) /\ d = settledBy[p] => Settled(settledBy[p])'
      BY <1>1, <1>10
    <3>3. QED
      BY <1>5, <1>7, <3>1, <3>2
  <2>2. ASSUME NEW d \in Calls, call'[d].st \in {"paid", "executing"} \/ d \in echoed
        PROVE  Settled(d)' /\ (call'[d].st = "executing" => Receipt(d, TRUE) \in call'[d].held)
    BY <1>4, <1>5, <1>7, <1>10, <2>2 DEF ChainInv
  <2>3. QED
    BY <1>1, <2>1, <2>2 DEF ChainInv, Receipt
<1>13. BooksMatchChain'
  <2>1. \A d \in rows' : Settled(d)'
    BY <1>9, <1>10 DEF BooksMatchChain, TypeOK
  <2>2. ASSUME faults' = 0, NEW d \in Calls, Settled(d)' PROVE d \in rows' \/ call'[d].st = "paid"
    BY <1>7, <1>9, <1>10, <2>2 DEF BooksMatchChain
  <2>3. \A d, f \in rows' : SamePayment(d, f)' => d \in echoed' \/ f \in echoed'
    BY <2>1 DEF SamePayment, Settled
  <2>4. QED
    BY <2>1, <2>2, <2>3 DEF BooksMatchChain
<1>14. TypeOK'
  <2>1. call' \in [Calls -> CallState \cup {Idle}] /\ rows' \subseteq Calls
    BY <1>3, <1>5, <1>9 DEF TypeOK
  <2>2. \A d \in InFlight' : d \in InFlight /\ call'[d].own = call[d].own /\ call'[d].task = call[d].task
    BY <1>1, <1>5, <1>7 DEF InFlight
  <2>3. QED
    BY <1>1, <1>9, <2>1, <2>2 DEF TypeOK, Stored
<1>15. \A t \in Tasks : TaskKept(t)
  BY <1>1 DEF TaskKept
<1>16. QED
  BY <1>11, <1>12, <1>13, <1>14, <1>15, DeliveredKept

\* A payment comes: the handler begins, and those under way on the task are no longer
\* alone.
LEMMA SubmitInv == ASSUME A2AInv, NEW c \in Calls, NEW t \in Tasks, Submit(c, t) PROVE A2AInv'
<1> USE DEF A2AInv
<1> DEFINE q(st, pay) == [st |-> st, task |-> t, own |-> TRUE, pay |-> pay,
                          lone |-> Together(c, t) = {c}, held |-> {}]
           other(st, d) == IF d \in Together(c, t) /\ st = "paying"
                           THEN [call[d] EXCEPT !.lone = FALSE] ELSE call[d]
<1>1. /\ call[c] = Idle /\ Stored(t) /\ UNCHANGED <<used, settledBy, echoed, rows, faults>>
  BY DEF Submit, chain
<1>2. PICK st \in {"raised", "unparsed", "paying"}, pay \in Payments \cup {NoCall} :
        /\ call' = [d \in Calls |-> IF d = c THEN q(st, pay) ELSE other(st, d)]
        /\ st # "raised" => task[t].skill # NoSkill
        /\ \/ UNCHANGED task /\ st # "unparsed"
           \/ st = "unparsed" /\ task' = [task EXCEPT ![t].state = "failed",
                                        ![t].receipts = @ \cup {Receipt(c, FALSE)}]
  <2>1. CASE /\ task[t].skill = NoSkill /\ UNCHANGED task
             /\ call' = [d \in Calls |-> IF d = c THEN q("raised", NoCall) ELSE other("raised", d)]
    BY <2>1
  <2>2. CASE /\ task[t].skill # NoSkill
             /\ task' = [task EXCEPT ![t].state = "failed",
                                     ![t].receipts = @ \cup {Receipt(c, FALSE)}]
             /\ call' = [d \in Calls |-> IF d = c THEN q("unparsed", NoCall) ELSE other("unparsed", d)]
    BY <2>2
  <2>3. CASE /\ task[t].skill # NoSkill /\ UNCHANGED task
             /\ \E pay \in Payments \cup {NoCall} :
                   call' = [d \in Calls |-> IF d = c THEN q("paying", pay) ELSE other("paying", d)]
    BY <2>3
  <2>4. QED
    BY <2>1, <2>2, <2>3 DEF Submit
<1>3. /\ q(st, pay) \in CallState /\ q(st, pay).st = st /\ q(st, pay).task = t
  <2>1. st \in Stages
    BY DEF Stages
  <2>2. (Together(c, t) = {c}) \in BOOLEAN
    OBVIOUS
  <2>3. QED
    BY <2>1, <2>2 DEF CallState
<1>4. ASSUME NEW d \in Calls, d # c
      PROVE  LET o == other(st, d)
             IN  /\ o \in CallState \cup {Idle} /\ o.st = call[d].st /\ o.own = call[d].own
                 /\ call[d] # Idle => /\ o # Idle /\ o.task = call[d].task
                                      /\ o.pay = call[d].pay /\ o.held = call[d].held
                 /\ call[d] = Idle => o = Idle
  <2>1. CASE d \in Together(c, t) /\ st = "paying"
    <3>1. call[d] \in CallState /\ call[d] # Idle /\ other(st, d) = [call[d] EXCEPT !.lone = FALSE]
      BY <1>4, <2>1 DEF Together, InFlight, Idle, TypeOK
    <3> DEFINE o == [call[d] EXCEPT !.lone = FALSE]
    <3>2. /\ o \in CallState /\ o.st = call[d].st /\ o.own = call[d].own
          /\ o.task = call[d].task /\ o.pay = call[d].pay /\ o.held = call[d].held
      BY <3>1 DEF CallState
    <3>3. QED
      BY <3>1, <3>2, NotIdle
  <2>2. CASE ~(d \in Together(c, t) /\ st = "paying")
    BY <2>2 DEF TypeOK
  <2>3. QED
    BY <2>1, <2>2
<1>5. \A d \in Calls : call'[d] = IF d = c THEN q(st, pay) ELSE other(st, d)
  BY <1>2
<1>6. q(st, pay) # Idle /\ q(st, pay).st \notin {"paid", "executing"}
  BY <1>3, NotIdle
<1> HIDE DEF q, other
<1>7. SettledKept /\ ChainInv' /\ BooksMatchChain'
  <2>1. CallKept(c)
    <3>1. call[c].st = "idle"
      BY <1>1 DEF Idle
    <3>2. QED
      BY <1>1, <1>5, <1>6, <3>1 DEF CallKept
  <2>2. ASSUME NEW d \in Calls, d # c PROVE CallKept(d)
    <3>1. call[d].st \in {"paid", "executing"} => call[d] # Idle
      BY DEF Idle
    <3>2. call'[d] = other(st, d)
      BY <1>5, <2>2
    <3>3. QED
      BY <1>4, <2>2, <3>1, <3>2 DEF CallKept
  <2>3. QED
    BY <1>1, <2>1, <2>2, NothingSettled
<1>8. /\ task' \in [Tasks -> TaskState \cup {Absent}]
      /\ \A u \in Tasks : /\ task'[u] # Absent <=> task[u] # Absent
                          /\ task'[u] # Absent => task'[u].skill = task[u].skill
      /\ \A u \in Tasks : \/ task'[u] = task[u]
                          \/ task'[u].state = "failed" /\ task'[u].artifact = task[u].artifact
  <2>1. CASE UNCHANGED task
    BY <2>1 DEF TypeOK
  <2>2. CASE task' = [task EXCEPT ![t].state = "failed",
                                  ![t].receipts = @ \cup {Receipt(c, FALSE)}]
    <3>1. task[t] \in TaskState
      BY <1>1 DEF TypeOK, Stored
    <3>2. Receipt(c, FALSE) \in AllReceipts
      BY DEF Receipt, AllReceipts
    <3> DEFINE r == [task[t] EXCEPT !.state = "failed", !.receipts = @ \cup {Receipt(c, FALSE)}]
    <3>3. /\ r \in TaskState /\ r.skill = task[t].skill /\ r.state = "failed"
          /\ r.artifact = task[t].artifact /\ task' = [task EXCEPT ![t] = r]
      BY <2>2, <3>1, <3>2 DEF TaskState, Final, TypeOK
    <3>4. r # Absent
      BY <3>3 DEF Absent
    <3> HIDE DEF r
    <3>5. QED
      BY <1>1, <3>3, <3>4 DEF TypeOK, Stored
  <2>3. QED
    BY <1>2, <2>1, <2>2
<1>9. TypeOK'
  <2>1. call' \in [Calls -> CallState \cup {Idle}]
    BY <1>2, <1>3, <1>4, <1>5
  <2>2. ASSUME NEW d \in InFlight', call'[d].own
        PROVE  task'[call'[d].task] # Absent /\ task'[call'[d].task].skill # NoSkill
    <3>1. CASE d = c
      <4>1. call'[d].st = st /\ call'[d].task = t /\ d \in Calls
        BY <1>3, <1>5, <3>1
      <4>2. st # "raised"
        BY <2>2, <4>1 DEF InFlight
      <4>3. QED
        BY <1>1, <1>2, <1>8, <4>1, <4>2 DEF Stored
    <3>2. CASE d # c
      <4>1. d \in Calls /\ call'[d] = other(st, d)
        BY <1>5, <2>2, <3>2 DEF InFlight
      <4>2. d \in InFlight /\ call[d].own
        BY <1>4, <2>2, <3>2, <4>1 DEF InFlight
      <4>3. call[d] # Idle /\ call[d].task \in Tasks
        BY <4>2 DEF InFlight, Idle, TypeOK, CallState
      <4>4. QED
        BY <1>4, <1>8, <3>2, <4>1, <4>2, <4>3 DEF TypeOK, Stored
    <3>3. QED
      BY <3>1, <3>2
  <2>3. QED
    BY <1>1, <1>8, <2>1, <2>2 DEF TypeOK, Stored, Absent
<1>10. \A u \in Tasks : TaskKept(u)
  BY <1>8 DEF TaskKept
<1>11. QED
  BY <1>7, <1>9, <1>10, DeliveredKept

-----------------------------------------------------------------------------
LEMMA A2AStepInv == A2AInv /\ [Next]_vars => A2AInv'
<1> SUFFICES ASSUME A2AInv, [Next]_vars PROVE A2AInv'
  OBVIOUS
<1>1. CASE Restart
  BY <1>1, RestartInv
<1>2. ASSUME NEW t \in Tasks, NEW s \in Skills, Open(t, s) PROVE A2AInv'
  BY <1>2, OpenInv
<1>3. ASSUME NEW t \in Tasks, OpenFree(t) PROVE A2AInv'
  BY <1>3, OpenFreeInv
<1>4. ASSUME NEW t \in Tasks, Reject(t) PROVE A2AInv'
  BY <1>4, RejectInv
<1>5. ASSUME NEW t \in Tasks, Cancel(t) PROVE A2AInv'
  BY <1>5, CancelInv
<1>6. ASSUME NEW t \in Tasks, NEW c \in Calls, Submit(c, t) PROVE A2AInv'
  BY <1>6, SubmitInv
<1>7. ASSUME NEW c \in Calls, Settle(c) PROVE A2AInv'
  BY <1>7, SettleInv
<1>8. ASSUME NEW c \in Calls, Refuse(c) PROVE A2AInv'
  BY <1>8, RefuseInv
<1>9. ASSUME NEW c \in Calls, Book(c) PROVE A2AInv'
  BY <1>9, BookInv
<1>10. ASSUME NEW c \in Calls, Execute(c) PROVE A2AInv'
  BY <1>10, ExecuteInv
<1>11. CASE UNCHANGED vars
  <2>1. SettledKept /\ TypeOK' /\ ChainInv' /\ BooksMatchChain'
    BY <1>11 DEF vars, A2AInv, TypeOK, ChainInv, BooksMatchChain, SettledKept, Settled, Stored,
       SamePayment, InFlight, Receipt
  <2>2. \A t \in Tasks : TaskKept(t)
    BY <1>11 DEF vars, TaskKept
  <2>3. QED
    BY <2>1, <2>2, DeliveredKept DEF A2AInv
<1>12. QED
  BY <1>1, <1>2, <1>3, <1>4, <1>5, <1>6, <1>7, <1>8, <1>9, <1>10, <1>11 DEF Next

\* The invariant holds throughout.
LEMMA A2AInvHolds == Spec => []A2AInv
  BY A2AInitInv, A2AStepInv, PTL DEF Spec

\* However payments, cancels and rejections interleave on a task: what it shows as
\* delivered was paid by a settlement a message on it made or was answered with.
THEOREM DeliveredTheorem == Spec => []DeliveredIsPaid
<1>1. A2AInv => DeliveredIsPaid
  BY DEF A2AInv
<1>2. QED
  BY <1>1, A2AInvHolds, PTL

\* Whatever is lost or restarted, the payment of a booked sale has settled, two sales are
\* booked for one payment only if the facilitator repeated its answer, and no settlement a
\* call was told of is missing in the books unless a fault took it.
THEOREM BooksTheorem == Spec => []BooksMatchChain
<1>1. A2AInv => BooksMatchChain
  BY DEF A2AInv
<1>2. QED
  BY <1>1, A2AInvHolds, PTL
-----------------------------------------------------------------------------
(* What was delivered stays.  A handler writes the receipts it read before the *)
(* skill ran, so it must have had those of every payment that ended meanwhile: *)
(* true as long as nobody else on the task was under way.                      *)

Owners(t) == {c \in Calls : call[c].own /\ call[c].task = t}
AllLone(t) == \A c \in Owners(t) : call[c].lone
Answered == {"unparsed", "refused", "completed", "failed"}
Running == {"paying", "paid", "unpaid", "executing"}
Receipted(c, receipts) == \E r \in receipts : r.call = c

TaskInv(t) ==
    \A c \in Owners(t) :
        /\ Stored(t)
        /\ call[c].st = "completed" => task[t].artifact
        /\ AllLone(t) =>
            /\ call[c].st \in Answered => Receipted(c, task[t].receipts)
            /\ call[c].st = "executing" =>
                  \A d \in Owners(t) : call[d].st \in Answered => Receipted(d, call[c].held)
            /\ call[c].st \in Running =>
                  \A d \in Owners(t) : call[d].st \in Running => d = c

DeliveryInv == \A t \in Tasks : TaskInv(t)

\* A step that leaves a task to the handlers it had, and what they hold and read.
Steady(t) ==
    \/ Owners(t)' = {}
    \/ /\ Owners(t)' = Owners(t) /\ Stored(t)'
       /\ task'[t].receipts = task[t].receipts
       /\ task[t].artifact => task'[t].artifact
       /\ \A c \in Owners(t) :
             /\ call'[c].lone = call[c].lone /\ call'[c].held = call[c].held
             /\ \/ call'[c].st = call[c].st
                \/ {call[c].st, call'[c].st} \subseteq {"paying", "paid", "unpaid"}

LEMMA SteadyKeeps == ASSUME NEW t \in Tasks, TaskInv(t), Steady(t) PROVE TaskInv(t)'
<1>1. CASE Owners(t)' = {}
  BY <1>1 DEF TaskInv
<1>2. CASE Owners(t)' # {}
  <2>1. Owners(t)' = Owners(t) /\ (AllLone(t)' <=> AllLone(t))
    BY <1>2 DEF Steady, AllLone
  <2>2. \A c \in Owners(t) :
            /\ call'[c].st = "completed" <=> call[c].st = "completed"
            /\ call'[c].st = "executing" <=> call[c].st = "executing"
            /\ call'[c].st \in Answered <=> call[c].st \in Answered
            /\ call'[c].st \in Running <=> call[c].st \in Running
    BY <1>2 DEF Steady, Answered, Running
  <2>3. /\ Stored(t)' /\ task'[t].receipts = task[t].receipts
        /\ task[t].artifact => task'[t].artifact
        /\ \A c \in Owners(t) : call'[c].held = call[c].held
    BY <1>2 DEF Steady
  <2>4. QED
    BY <2>1, <2>2, <2>3 DEF TaskInv, Receipted
<1>3. QED
  BY <1>1, <1>2

\* The handlers of one task when a record of another task's handler changes.
LEMMA OwnerOf ==
    ASSUME TypeOK, NEW c \in Calls, call[c].own
    PROVE  call[c] \in CallState /\ call[c] # Idle /\ call[c].task \in Tasks
<1>1. call[c] # Idle
  BY DEF Idle
<1>2. QED
  BY <1>1 DEF TypeOK, CallState

LEMMA DeliveryInit == Init => DeliveryInv
<1> SUFFICES ASSUME Init, NEW t \in Tasks, NEW c \in Calls, call[c].own PROVE FALSE
  BY DEF DeliveryInv, TaskInv, Owners
<1>1. call[c] = Idle
  BY DEF Init
<1>2. QED
  BY <1>1 DEF Idle

\* A step that changes one handler, on one task.
OneHandler(c) ==
    /\ \A d \in Calls : d # c => call'[d] = call[d]
    /\ call'[c].own = call[c].own /\ call'[c].task = call[c].task
    /\ call'[c].lone = call[c].lone

LEMMA OwnersKept ==
    ASSUME NEW c \in Calls, OneHandler(c), NEW t \in Tasks
    PROVE  Owners(t)' = Owners(t) /\ (AllLone(t)' <=> AllLone(t))
<1>1. \A d \in Calls : call'[d].own = call[d].own /\ call'[d].task = call[d].task
                         /\ call'[d].lone = call[d].lone
  BY DEF OneHandler
<1>2. QED
  BY <1>1 DEF Owners, AllLone

\* It is of no concern to the tasks that it does not write to.
LEMMA ElsewhereSteady ==
    ASSUME NEW c \in Calls, OneHandler(c), NEW t \in Tasks, TaskInv(t), task'[t] = task[t],
           c \notin Owners(t)
    PROVE  TaskInv(t)'
<1>1. Owners(t)' = Owners(t)
  BY OwnersKept
<1>2. \A d \in Owners(t) : call'[d] = call[d]
  BY DEF OneHandler, Owners
<1>3. Owners(t) # {} => Stored(t)'
  BY DEF TaskInv, Stored
<1>4. Steady(t)
  BY <1>1, <1>2, <1>3 DEF Steady
<1>5. QED
  BY <1>4, SteadyKeeps

\* A handler that ends: what it writes has the receipts of all that ended before it.
LEMMA DeliveryEnds ==
    ASSUME A2AInv, DeliveryInv, NEW c \in InFlight,
           NEW s \in {"input-required", "completed", "failed"},
           NEW e \in {"refused", "completed", "failed"},
           NEW receipts \in SUBSET AllReceipts, Update(c, s, receipts),
           call' = [call EXCEPT ![c].st = e], e = "completed" => s = "completed",
           Receipted(c, receipts),
           \/ call[c].st = "executing" /\ receipts = call[c].held
           \/ call[c].own => task[call[c].task].receipts \subseteq receipts
    PROVE  DeliveryInv'
<1> SUFFICES ASSUME NEW t \in Tasks PROVE TaskInv(t)'
  BY DEF DeliveryInv
<1>1. TypeOK /\ TaskInv(t) /\ c \in Calls /\ call[c] \in CallState
  BY DEF A2AInv, DeliveryInv, TypeOK, InFlight, Idle
<1>2. /\ OneHandler(c) /\ call'[c].st = e /\ call'[c].held = call[c].held
      /\ \A d \in Calls : d # c => call'[d] = call[d]
  BY <1>1 DEF OneHandler, TypeOK, CallState
<1>3. Owners(t)' = Owners(t) /\ (AllLone(t)' <=> AllLone(t))
  BY <1>1, <1>2, OwnersKept
<1>4. CASE c \notin Owners(t)
  <2>1. task'[t] = task[t]
    BY <1>1, <1>4, UpdateGives DEF Owners
  <2>2. QED
    BY <1>1, <1>2, <1>4, <2>1, ElsewhereSteady
<1>5. CASE c \in Owners(t)
  <2>1. /\ call[c].own /\ call[c].task = t /\ Stored(t)
        /\ task[t] \in TaskState
    BY <1>1, <1>5 DEF Owners, TaskInv, TypeOK, Stored
  <2>2. /\ Stored(t)' /\ task'[t].receipts = receipts
        /\ task'[t].artifact = (task[t].artifact \/ s = "completed")
    <3> DEFINE q == [task[t] EXCEPT !.state = s, !.receipts = receipts,
                                    !.artifact = @ \/ s = "completed"]
    <3>1. task' = [task EXCEPT ![t] = q]
      BY <1>1, <2>1 DEF Update, TypeOK
    <3>2. /\ q \in TaskState /\ q.receipts = receipts
          /\ q.artifact = (task[t].artifact \/ s = "completed")
      BY <2>1 DEF TaskState, Final
    <3>3. q # Absent
      BY <3>2 DEF TaskState, Final, Absent
    <3> HIDE DEF q
    <3>4. task'[t] = q
      BY <1>1, <3>1 DEF TypeOK
    <3>5. QED
      BY <3>2, <3>3, <3>4 DEF Stored, Absent
  <2>3. \A d \in Owners(t) : call'[d].st = "completed" => task'[t].artifact
    BY <1>1, <1>2, <2>2 DEF TaskInv, Owners
  <2>4. call[c].st \in Running /\ call'[c].st \in Answered
    BY <1>2 DEF InFlight, Running, Answered
  <2>5. ASSUME AllLone(t)
        PROVE  /\ \A d \in Owners(t) : call'[d].st \in Answered => Receipted(d, receipts)
               /\ \A d \in Owners(t) : call'[d].st \notin Running
    <3>1. \A d \in Owners(t) : d # c => call'[d] = call[d]
      BY <1>2 DEF Owners
    <3>2. \A d \in Owners(t) : d # c => call[d].st \notin Running
      BY <1>1, <1>5, <2>4, <2>5 DEF TaskInv
    <3>3. \A d \in Owners(t) : d # c /\ call[d].st \in Answered => Receipted(d, receipts)
      <4>1. CASE call[c].st = "executing" /\ receipts = call[c].held
        BY <1>1, <1>5, <2>5, <4>1 DEF TaskInv
      <4>2. CASE task[t].receipts \subseteq receipts
        BY <1>1, <2>5, <4>2 DEF TaskInv, Receipted
      <4>3. QED
        BY <2>1, <4>1, <4>2
    <3>4. call'[c].st \notin Running
      BY <1>2 DEF Running
    <3>5. QED
      BY <3>1, <3>2, <3>3, <3>4
  <2>6. \A d \in Owners(t) : call'[d].st = "executing" => call'[d].st \in Running
    BY DEF Running
  <2>7. QED
    BY <1>3, <2>2, <2>3, <2>5, <2>6 DEF TaskInv, Receipted
<1>6. QED
  BY <1>4, <1>5

LEMMA DeliveryExecute ==
    ASSUME A2AInv, DeliveryInv, NEW c \in Calls, Execute(c) PROVE DeliveryInv'
<1>1. call[c].st = "executing" /\ c \in InFlight
  BY DEF Execute, InFlight
<1>2. Receipted(c, call[c].held)
  BY <1>1 DEF A2AInv, ChainInv, Receipted, Receipt
<1>3. call[c].held \in SUBSET AllReceipts
  BY <1>1 DEF A2AInv, TypeOK, Idle, CallState
<1>4. PICK s \in {"completed", "failed"} :
        Update(c, s, call[c].held) /\ call' = [call EXCEPT ![c].st = s]
  BY DEF Execute
<1>5. QED
  BY <1>1, <1>2, <1>3, <1>4, DeliveryEnds

LEMMA DeliveryRefuse ==
    ASSUME A2AInv, DeliveryInv, NEW c \in Calls, Refuse(c) PROVE DeliveryInv'
<1> DEFINE receipts == Receipts(c) \cup {Receipt(c, FALSE)}
<1>1. call[c].st = "unpaid" /\ c \in InFlight
  BY DEF Refuse, InFlight
<1>2. receipts \in SUBSET AllReceipts
  BY <1>1, ReceiptsType DEF A2AInv
<1>3. Receipted(c, receipts) /\ (call[c].own => task[call[c].task].receipts \subseteq receipts)
  <2>1. Receipt(c, FALSE) \in receipts /\ Receipt(c, FALSE).call = c
    BY DEF Receipt
  <2>2. call[c].own => task[call[c].task].receipts \subseteq receipts
    BY DEF Receipts
  <2>3. QED
    BY <2>1, <2>2 DEF Receipted
<1>4. Update(c, "input-required", receipts) /\ call' = [call EXCEPT ![c].st = "refused"]
  BY DEF Refuse
<1> HIDE DEF receipts
<1>5. QED
  BY <1>1, <1>2, <1>3, <1>4, DeliveryEnds

\* The handler reads the receipts that all who ended have left.
LEMMA DeliveryBook ==
    ASSUME A2AInv, DeliveryInv, NEW c \in Calls, Book(c) PROVE DeliveryInv'
<1> SUFFICES ASSUME NEW t \in Tasks PROVE TaskInv(t)'
  BY DEF DeliveryInv
<1>1. TypeOK /\ TaskInv(t) /\ call[c].st = "paid" /\ call[c] \in CallState
  BY DEF A2AInv, DeliveryInv, TypeOK, Book, Idle
<1>2. /\ OneHandler(c) /\ call'[c].st = "executing" /\ UNCHANGED task
      /\ call'[c].held = Receipts(c) \cup {Receipt(c, TRUE)}
      /\ \A d \in Calls : d # c => call'[d] = call[d]
  BY <1>1 DEF OneHandler, Book, TypeOK, CallState
<1>3. Owners(t)' = Owners(t) /\ (AllLone(t)' <=> AllLone(t))
  BY <1>2, OwnersKept
<1>4. CASE c \notin Owners(t)
  BY <1>1, <1>2, <1>4, ElsewhereSteady
<1>5. CASE c \in Owners(t)
  <2>1. call[c].own /\ call[c].task = t /\ task[t].receipts \subseteq call'[c].held
    BY <1>2, <1>5 DEF Owners, Receipts
  <2>2. \A d \in Owners(t) : call'[d].st \in Answered => d # c /\ call'[d] = call[d]
    BY <1>2 DEF Owners, Answered
  <2>3. \A d \in Owners(t) : call'[d].st \in Running <=> call[d].st \in Running
    BY <1>1, <1>2 DEF Owners, Running
  <2>4. \A d \in Owners(t) : call'[d].st = "executing" =>
            call'[d].held = IF d = c THEN call'[c].held ELSE call[d].held
    BY <1>2 DEF Owners
  <2>5. \A d \in Owners(t) : call'[d].st = "executing" =>
            d = c \/ call[d].st = "executing"
    BY <1>2 DEF Owners
  <2>6. \A d \in Owners(t) : call'[d].st = "completed" => call[d].st = "completed"
    BY <1>2 DEF Owners
  <2>7. ASSUME AllLone(t), NEW d \in Owners(t), call'[d].st = "executing", NEW f \in Owners(t),
               call'[f].st \in Answered
        PROVE  Receipted(f, call'[d].held)
    <3>1. call[f].st \in Answered /\ Receipted(f, task[t].receipts)
      BY <1>1, <2>2, <2>7 DEF TaskInv
    <3>2. CASE d = c
      BY <2>1, <3>1, <3>2 DEF Receipted
    <3>3. CASE d # c
      <4>1. call[d].st = "executing" /\ call'[d].held = call[d].held
        BY <1>2, <2>7, <3>3 DEF Owners
      <4>2. QED
        BY <1>1, <2>7, <3>1, <4>1 DEF TaskInv
    <3>4. QED
      BY <3>2, <3>3
  <2>8. ASSUME AllLone(t), NEW d \in Owners(t), call'[d].st \in Answered
        PROVE  Receipted(d, task[t].receipts)
    BY <1>1, <2>2, <2>8 DEF TaskInv
  <2>9. Stored(t)' /\ task'[t] = task[t]
    BY <1>1, <1>2, <1>5 DEF TaskInv, Stored
  <2>10. \A d \in Owners(t) : call'[d].st = "completed" => task[t].artifact
    BY <1>1, <2>6 DEF TaskInv
  <2>11. ASSUME AllLone(t), NEW d \in Owners(t), call'[d].st \in Running,
                NEW f \in Owners(t), call'[f].st \in Running
         PROVE  f = d
    BY <1>1, <2>3, <2>11 DEF TaskInv
  <2>12. QED
    BY <1>3, <2>7, <2>8, <2>9, <2>10, <2>11 DEF TaskInv, Receipted
<1>6. QED
  BY <1>4, <1>5

LEMMA DeliverySettle ==
    ASSUME A2AInv, DeliveryInv, NEW c \in Calls, Settle(c) PROVE DeliveryInv'
<1> SUFFICES ASSUME NEW t \in Tasks PROVE TaskInv(t)'
  BY DEF DeliveryInv
<1>1. TypeOK /\ TaskInv(t) /\ call[c].st = "paying" /\ call[c] \in CallState
  BY DEF A2AInv, DeliveryInv, TypeOK, Settle, Idle
<1>2. PICK e \in {"paid", "unpaid"} : call' = [call EXCEPT ![c].st = e] /\ UNCHANGED task
  BY DEF Settle
<1>3. /\ OneHandler(c) /\ call'[c].st = e /\ call'[c].held = call[c].held
  BY <1>1, <1>2 DEF OneHandler, TypeOK, CallState
<1>4. Owners(t)' = Owners(t)
  BY <1>3, OwnersKept
<1>5. \A d \in Owners(t) :
             /\ call'[d].lone = call[d].lone /\ call'[d].held = call[d].held
             /\ \/ call'[d].st = call[d].st
                \/ {call[d].st, call'[d].st} \subseteq {"paying", "paid", "unpaid"}
  <2> TAKE d \in Owners(t)
  <2>1. CASE d = c
    BY <1>1, <1>3, <2>1 DEF OneHandler
  <2>2. CASE d # c
    BY <1>3, <2>2 DEF OneHandler, Owners
  <2>3. QED
    BY <2>1, <2>2
<1>6. Owners(t) # {} => Stored(t)'
  BY <1>1, <1>2 DEF TaskInv, Stored
<1>7. Steady(t)
  BY <1>2, <1>4, <1>5, <1>6 DEF Steady
<1>8. QED
  BY <1>1, <1>7, SteadyKeeps

\* Opening, rejecting, canceling and a restart write to no task that keeps a handler.
LEMMA DeliveryQuiet ==
    ASSUME A2AInv, DeliveryInv,
           \A c \in Calls : call'[c].own => call'[c] = call[c],
           \A c \in Calls : call[c].own =>
               \/ \A d \in Calls : call'[d].own => call[d].task # call[c].task
               \/ /\ call'[c] = call[c] /\ Stored(call[c].task)'
                  /\ task'[call[c].task].receipts = task[call[c].task].receipts
                  /\ task'[call[c].task].artifact = task[call[c].task].artifact
    PROVE  DeliveryInv'
<1> SUFFICES ASSUME NEW t \in Tasks PROVE TaskInv(t)'
  BY DEF DeliveryInv
<1>1. TaskInv(t)
  BY DEF DeliveryInv
<1>2. Owners(t)' \subseteq Owners(t)
  BY DEF Owners
<1>3. CASE \A d \in Owners(t)' : FALSE
  BY <1>1, <1>3, SteadyKeeps DEF Steady
<1>4. CASE \E d \in Owners(t)' : TRUE
  <2>1. PICK d \in Owners(t) : call'[d].own
    BY <1>2, <1>4 DEF Owners
  <2>2. \A c \in Owners(t) : call'[c] = call[c]
    BY <2>1 DEF Owners
  <2>3. /\ Stored(t)' /\ task'[t].receipts = task[t].receipts
        /\ task'[t].artifact = task[t].artifact
    BY <2>1 DEF Owners
  <2>4. Owners(t)' = Owners(t)
    BY <1>2, <2>2 DEF Owners
  <2>5. Steady(t)
    BY <2>2, <2>3, <2>4 DEF Steady
  <2>6. QED
    BY <1>1, <2>5, SteadyKeeps
<1>5. QED
  BY <1>3, <1>4

LEMMA DeliveryOpen ==
    ASSUME A2AInv, DeliveryInv, NEW t \in Tasks,
           (\E s \in Skills : Open(t, s)) \/ OpenFree(t)
    PROVE  DeliveryInv'
<1>1. UNCHANGED call /\ t \notin used /\ \A u \in Tasks : u # t => task'[u] = task[u]
  BY DEF Open, OpenFree, A2AInv, TypeOK
<1>2. \A c \in Calls : call[c].own => call[c].task # t /\ call[c].task \in Tasks
                                      /\ Stored(call[c].task)
  <2> TAKE c \in Calls
  <2>1. call[c].own => call[c].task \in Tasks /\ TaskInv(call[c].task)
    BY OwnerOf DEF A2AInv, DeliveryInv
  <2>2. call[c].own => Stored(call[c].task)
    BY <2>1 DEF TaskInv, Owners
  <2>3. QED
    BY <1>1, <2>1, <2>2 DEF A2AInv, TypeOK
<1>3. \A c \in Calls : call[c].own => task'[call[c].task] = task[call[c].task]
  BY <1>1, <1>2
<1>4. \A c \in Calls : call[c].own => Stored(call[c].task)'
  BY <1>1, <1>2, <1>3 DEF Stored
<1>5. QED
  BY <1>1, <1>3, <1>4, DeliveryQuiet

LEMMA DeliveryCancel ==
    ASSUME A2AInv, DeliveryInv, NEW t \in Tasks, Cancel(t) PROVE DeliveryInv'
<1>1. UNCHANGED call /\ task[t] \in TaskState
  BY DEF Cancel, A2AInv, TypeOK, Stored
<1> DEFINE q == [task[t] EXCEPT !.state = "canceled"]
<1>2. task' = [task EXCEPT ![t] = q] /\ q.receipts = task[t].receipts
      /\ q.artifact = task[t].artifact /\ q \in TaskState
  BY <1>1 DEF Cancel, TaskState, Final
<1>3. q # Absent
  BY <1>2 DEF TaskState, Final, Absent
<1> HIDE DEF q
<1>4. \A u \in Tasks : /\ Stored(u) => Stored(u)'
                        /\ task'[u].receipts = task[u].receipts
                        /\ task'[u].artifact = task[u].artifact
  BY <1>2, <1>3 DEF A2AInv, TypeOK, Stored, Absent
<1>5. \A c \in Calls : call[c].own => call[c].task \in Tasks /\ Stored(call[c].task)
  <2> TAKE c \in Calls
  <2>1. call[c].own => call[c].task \in Tasks /\ TaskInv(call[c].task)
    BY OwnerOf DEF A2AInv, DeliveryInv
  <2>2. QED
    BY <2>1 DEF TaskInv, Owners
<1>6. \A c \in Calls : call[c].own =>
          /\ Stored(call[c].task)'
          /\ task'[call[c].task].receipts = task[call[c].task].receipts
          /\ task'[call[c].task].artifact = task[call[c].task].artifact
  BY <1>1, <1>4, <1>5
<1>7. QED
  BY <1>1, <1>6, DeliveryQuiet

LEMMA DeliveryReject ==
    ASSUME A2AInv, DeliveryInv, NEW t \in Tasks, Reject(t) PROVE DeliveryInv'
<1>1. /\ call' = [c \in Calls |-> IF call[c].task = t THEN [call[c] EXCEPT !.own = FALSE]
                                  ELSE call[c]]
      /\ \A u \in Tasks : u # t => task'[u] = task[u]
  BY DEF Reject, A2AInv, TypeOK
<1>2. ASSUME NEW c \in Calls
      PROVE  /\ call[c].task = t => ~call'[c].own
             /\ call[c].task # t => call'[c] = call[c]
  <2>1. call[c] \in CallState \cup {Idle}
    BY DEF A2AInv, TypeOK
  <2>2. [call[c] EXCEPT !.own = FALSE].own = FALSE
    BY <2>1, Disowned
  <2>3. QED
    BY <1>1, <2>2
<1>3. ASSUME NEW c \in Calls, call[c].own, call[c].task # t
      PROVE  Stored(call[c].task)' /\ task'[call[c].task] = task[call[c].task]
  <2>1. call[c].task \in Tasks /\ TaskInv(call[c].task)
    BY <1>3, OwnerOf DEF A2AInv, DeliveryInv
  <2>2. Stored(call[c].task)
    BY <1>3, <2>1 DEF TaskInv, Owners
  <2>3. task'[call[c].task] = task[call[c].task] /\ call'[c].task = call[c].task
    BY <1>1, <1>2, <1>3, <2>1
  <2>4. QED
    BY <2>2, <2>3 DEF Stored
<1>4. ASSUME NEW c \in Calls, call[c].own
      PROVE  \/ \A d \in Calls : call'[d].own => call[d].task # call[c].task
             \/ /\ call'[c] = call[c] /\ Stored(call[c].task)'
                /\ task'[call[c].task].receipts = task[call[c].task].receipts
                /\ task'[call[c].task].artifact = task[call[c].task].artifact
  BY <1>2, <1>3, <1>4
<1>5. QED
  BY <1>2, <1>4, DeliveryQuiet

LEMMA DeliveryRestart == ASSUME A2AInv, DeliveryInv, Restart PROVE DeliveryInv'
<1>1. ASSUME NEW c \in Calls PROVE ~call'[c].own
  <2>1. CASE c \in InFlight
    <3>1. call[c] \in CallState
      BY <2>1 DEF A2AInv, TypeOK, InFlight, Idle
    <3>2. QED
      BY <2>1, <3>1 DEF Restart, CallState
  <2>2. CASE c \notin InFlight
    <3>1. call[c] \in CallState \cup {Idle} /\ call'[c] = [call[c] EXCEPT !.own = FALSE]
      BY <2>2 DEF A2AInv, TypeOK, Restart
    <3>2. QED
      BY <3>1, Disowned
  <2>3. QED
    BY <2>1, <2>2
<1>2. QED
  BY <1>1, DeliveryQuiet

\* A payment that comes alone finds no other under way; one that does not is marked,
\* and marks the others.
LEMMA DeliverySubmit ==
    ASSUME A2AInv, DeliveryInv, NEW c \in Calls, NEW t \in Tasks, Submit(c, t)
    PROVE  DeliveryInv'
<1> DEFINE q(st, pay) == [st |-> st, task |-> t, own |-> TRUE, pay |-> pay,
                          lone |-> Together(c, t) = {c}, held |-> {}]
           other(st, d) == IF d \in Together(c, t) /\ st = "paying"
                           THEN [call[d] EXCEPT !.lone = FALSE] ELSE call[d]
<1>1. /\ call[c] = Idle /\ Stored(t) /\ TypeOK /\ task[t] \in TaskState
  BY DEF Submit, A2AInv, TypeOK, Stored
<1>2. PICK st \in {"raised", "unparsed", "paying"}, pay \in Payments \cup {NoCall} :
        /\ call' = [d \in Calls |-> IF d = c THEN q(st, pay) ELSE other(st, d)]
        /\ \/ UNCHANGED task /\ st # "unparsed"
           \/ st = "unparsed" /\ task' = [task EXCEPT ![t].state = "failed",
                                        ![t].receipts = @ \cup {Receipt(c, FALSE)}]
  <2>1. CASE /\ task[t].skill = NoSkill /\ UNCHANGED task
             /\ call' = [d \in Calls |-> IF d = c THEN q("raised", NoCall) ELSE other("raised", d)]
    BY <2>1
  <2>2. CASE /\ task[t].skill # NoSkill
             /\ task' = [task EXCEPT ![t].state = "failed",
                                     ![t].receipts = @ \cup {Receipt(c, FALSE)}]
             /\ call' = [d \in Calls |-> IF d = c THEN q("unparsed", NoCall) ELSE other("unparsed", d)]
    BY <2>2
  <2>3. CASE /\ task[t].skill # NoSkill /\ UNCHANGED task
             /\ \E pay \in Payments \cup {NoCall} :
                   call' = [d \in Calls |-> IF d = c THEN q("paying", pay) ELSE other("paying", d)]
    BY <2>3
  <2>4. QED
    BY <2>1, <2>2, <2>3 DEF Submit
<1>3. /\ q(st, pay).st = st /\ q(st, pay).task = t /\ q(st, pay).own
      /\ q(st, pay).lone = (Together(c, t) = {c})
  OBVIOUS
<1>4. ASSUME NEW d \in Calls, d # c
      PROVE  LET o == other(st, d)
             IN  /\ o.own = call[d].own /\ o.st = call[d].st
                 /\ call[d].own => o.task = call[d].task /\ o.held = call[d].held
                 /\ d \in Together(c, t) \/ o = call[d]
  <2>1. CASE d \in Together(c, t) /\ st = "paying"
    <3>1. call[d] \in CallState
      BY <1>1, <1>4, <2>1 DEF Together, InFlight, Idle, TypeOK
    <3>2. QED
      BY <2>1, <3>1 DEF CallState
  <2>2. CASE ~(d \in Together(c, t) /\ st = "paying")
    BY <2>2
  <2>3. QED
    BY <2>1, <2>2
<1>5. \A d \in Calls : call'[d] = IF d = c THEN q(st, pay) ELSE other(st, d)
  BY <1>2
<1> HIDE DEF q, other
<1>6. call[c].own = FALSE /\ \A u \in Tasks : c \notin Owners(u)
  BY <1>1 DEF Idle, Owners
<1>7. \A d \in Calls : d # c =>
          /\ call'[d].own = call[d].own /\ call'[d].st = call[d].st
          /\ call[d].own => call'[d].task = call[d].task /\ call'[d].held = call[d].held
          /\ d \in Together(c, t) \/ call'[d] = call[d]
  BY <1>4, <1>5
<1>8. /\ call'[c].st = st /\ call'[c].task = t /\ call'[c].own
      /\ call'[c].lone = (Together(c, t) = {c})
  BY <1>3, <1>5
<1>9. ASSUME NEW u \in Tasks, u # t PROVE TaskInv(u)'
  <2>1. TaskInv(u) /\ task'[u] = task[u]
    BY <1>2, <1>9 DEF DeliveryInv, A2AInv, TypeOK
  <2>2. Owners(u)' = Owners(u)
    BY <1>6, <1>7, <1>8, <1>9 DEF Owners
  <2>3. \A d \in Owners(u) : d \notin Together(c, t)
    BY <1>6, <1>9 DEF Owners, Together
  <2>4. \A d \in Owners(u) : call'[d] = call[d]
    BY <1>6, <1>7, <2>3 DEF Owners
  <2>5. Owners(u) # {} => Stored(u)'
    BY <2>1 DEF TaskInv, Stored
  <2>6. Steady(u)
    BY <2>1, <2>2, <2>4, <2>5 DEF Steady
  <2>7. QED
    BY <2>1, <2>6, SteadyKeeps
<1>10. TaskInv(t)'
  <2>1. TaskInv(t) /\ Owners(t)' = Owners(t) \cup {c}
    BY <1>6, <1>7, <1>8 DEF DeliveryInv, Owners
  <2>2. /\ Stored(t)' /\ task'[t].artifact = task[t].artifact
        /\ task[t].receipts \subseteq task'[t].receipts
        /\ st = "unparsed" => Receipt(c, FALSE) \in task'[t].receipts
    <3>1. CASE UNCHANGED task /\ st # "unparsed"
      BY <1>1, <3>1 DEF Stored
    <3>2. CASE task' = [task EXCEPT ![t].state = "failed",
                                    ![t].receipts = @ \cup {Receipt(c, FALSE)}]
      <4> DEFINE r == [task[t] EXCEPT !.state = "failed", !.receipts = @ \cup {Receipt(c, FALSE)}]
      <4>1. /\ r.state = "failed" /\ r.artifact = task[t].artifact
            /\ r.receipts = task[t].receipts \cup {Receipt(c, FALSE)}
        BY <1>1 DEF TaskState
      <4>2. r # Absent
        BY <4>1 DEF Absent
      <4>3. task'[t] = r
        BY <1>1, <3>2 DEF TypeOK
      <4> HIDE DEF r
      <4>4. QED
        BY <4>1, <4>2, <4>3 DEF Stored, Absent
    <3>3. QED
      BY <1>2, <3>1, <3>2
  <2>3. \A d \in Owners(t)' : call'[d].st = "completed" => task'[t].artifact
    <3>1. \A d \in Owners(t) : call'[d].st = "completed" => task[t].artifact
      BY <1>6, <1>7, <2>1 DEF TaskInv, Owners
    <3>2. call'[c].st # "completed"
      BY <1>8
    <3>3. QED
      BY <2>1, <2>2, <3>1, <3>2
  <2>4. ASSUME AllLone(t)'
        PROVE  /\ \A d \in Owners(t) : /\ call'[d] = call[d]
                                       /\ call[d].st \notin Running
               /\ AllLone(t)
    <3>1. Together(c, t) = {c}
      BY <1>8, <2>1, <2>4 DEF AllLone
    <3>2. \A d \in Owners(t) : d \in Calls /\ d # c /\ d \notin Together(c, t)
      BY <1>6, <3>1 DEF Owners
    <3>3. \A d \in Owners(t) : d \notin InFlight
      BY <3>2 DEF Together, Owners
    <3>4. \A d \in Owners(t) : call'[d] = call[d] /\ call[d].st \notin Running
      BY <1>7, <3>2, <3>3 DEF InFlight, Running, Owners
    <3>5. QED
      BY <2>1, <2>4, <3>4 DEF AllLone
  <2>5. ASSUME AllLone(t)', NEW d \in Owners(t)', call'[d].st \in Answered
        PROVE  Receipted(d, task'[t].receipts)
    <3>1. CASE d = c
      <4>1. Receipt(c, FALSE) \in task'[t].receipts /\ Receipt(c, FALSE).call = c
        BY <1>8, <2>2, <2>5, <3>1 DEF Answered, Receipt
      <4>2. QED
        BY <3>1, <4>1 DEF Receipted
    <3>2. CASE d # c
      <4>1. d \in Owners(t) /\ call[d].st \in Answered
        BY <2>1, <2>4, <2>5, <3>2
      <4>2. Receipted(d, task[t].receipts)
        BY <2>1, <2>4, <2>5, <4>1 DEF TaskInv
      <4>3. QED
        BY <2>2, <4>2 DEF Receipted
    <3>3. QED
      BY <3>1, <3>2
  <2>6. ASSUME AllLone(t)', NEW d \in Owners(t)', call'[d].st \in Running
        PROVE  d = c /\ call'[d].st # "executing"
    BY <1>8, <2>1, <2>4, <2>6
  <2>7. \A d \in Owners(t)' : call'[d].st = "executing" => call'[d].st \in Running
    BY DEF Running
  <2>8. QED
    BY <2>2, <2>3, <2>5, <2>6, <2>7 DEF TaskInv, Receipted
<1>11. QED
  BY <1>9, <1>10 DEF DeliveryInv

LEMMA DeliveryStepInv == A2AInv /\ DeliveryInv /\ [Next]_vars => DeliveryInv'
<1> SUFFICES ASSUME A2AInv, DeliveryInv, [Next]_vars PROVE DeliveryInv'
  OBVIOUS
<1>1. CASE Restart
  BY <1>1, DeliveryRestart
<1>2. ASSUME NEW t \in Tasks, (\E s \in Skills : Open(t, s)) \/ OpenFree(t) PROVE DeliveryInv'
  BY <1>2, DeliveryOpen
<1>3. ASSUME NEW t \in Tasks, Reject(t) PROVE DeliveryInv'
  BY <1>3, DeliveryReject
<1>4. ASSUME NEW t \in Tasks, Cancel(t) PROVE DeliveryInv'
  BY <1>4, DeliveryCancel
<1>5. ASSUME NEW t \in Tasks, NEW c \in Calls, Submit(c, t) PROVE DeliveryInv'
  BY <1>5, DeliverySubmit
<1>6. ASSUME NEW c \in Calls, Settle(c) PROVE DeliveryInv'
  BY <1>6, DeliverySettle
<1>7. ASSUME NEW c \in Calls, Refuse(c) PROVE DeliveryInv'
  BY <1>7, DeliveryRefuse
<1>8. ASSUME NEW c \in Calls, Book(c) PROVE DeliveryInv'
  BY <1>8, DeliveryBook
<1>9. ASSUME NEW c \in Calls, Execute(c) PROVE DeliveryInv'
  BY <1>9, DeliveryExecute
<1>10. CASE UNCHANGED vars
  BY <1>10 DEF vars, DeliveryInv, TaskInv, Owners, AllLone, Stored, Receipted
<1>11. QED
  BY <1>1, <1>2, <1>3, <1>4, <1>5, <1>6, <1>7, <1>8, <1>9, <1>10 DEF Next

\* As long as the client does not reject and the process lives, an artifact stays on
\* its task whatever payments come after it, and no receipt of a payment is lost
\* unless two payments on the task were under way together.
THEOREM DeliveryTheorem == Spec => []DeliveryStays
<1>1. A2AInv /\ DeliveryInv => DeliveryStays
  <2> SUFFICES ASSUME A2AInv, DeliveryInv, NEW c \in Calls, call[c].own
               PROVE  /\ call[c].st = "completed" => task[call[c].task].artifact
                      /\ /\ call[c].st \in Answered
                         /\ \A d \in Calls : call[d].task = call[c].task /\ call[d].own => call[d].lone
                         => \E r \in task[call[c].task].receipts : r.call = c
    BY DEF DeliveryStays, Answered
  <2>1. call[c].task \in Tasks /\ c \in Owners(call[c].task)
    BY OwnerOf DEF A2AInv, Owners
  <2>2. TaskInv(call[c].task)
    BY <2>1 DEF DeliveryInv
  <2>3. (\A d \in Calls : call[d].task = call[c].task /\ call[d].own => call[d].lone)
            => AllLone(call[c].task)
    BY DEF AllLone, Owners
  <2>4. QED
    BY <2>1, <2>2, <2>3 DEF TaskInv, Receipted
<1>2. Spec => []DeliveryInv
  BY A2AInvHolds, DeliveryInit, DeliveryStepInv, PTL DEF Spec
<1>3. QED
  BY <1>1, <1>2, A2AInvHolds, PTL
-----------------------------------------------------------------------------
(***************************************************************************)
(* The city checks.  What a check got is a page of what a portal held      *)
(* while the check ran, or nothing where a failure counts as nothing; that *)
(* is an invariant of the steps, whatever the cities publish meanwhile.    *)
(* That the verdict made of such answers claims no more than the portals   *)
(* held is a fact about the adapters, proved for all of them at once from  *)
(* what they have in common.                                               *)
(***************************************************************************)

\* CityChecks by itself, in any of the cities.
CitySpec == (\E c \in CityCodes : CityInit(c)) /\ [][CityNext]_cityVars

-----------------------------------------------------------------------------
\* What every adapter is: its alternatives are sequences of queries, it judges no more
\* data than a page has, no query for cases is one whose failure counts as no data, and
\* none that asks for the newest rows has its page sifted.
AdapterInv(a) ==
    /\ a.reg \in Seq(Queries)
    /\ a.cases \in [BOOLEAN -> Seq(Queries)]
    /\ a.boarded \in [BOOLEAN -> Seq(Queries)]
    /\ \A b \in BOOLEAN : ToSet(a.cases[b]) \cap a.lenient = {}
    /\ a.regBy \in {"any", "status"} /\ a.casesBy \in {"any", "status"}
    /\ a.judged \in Nat /\ a.judged <= Page
    /\ a.newest \cap a.sifted = {}

LEMMA PlainInv == AdapterInv(Plain)
<1>1. <<>> \in Seq(Queries) /\ ToSet(<<>>) = {}
  BY DEF ToSet
<1>2. Page \in Nat
  BY CityAssumption
<1>3. QED
  BY <1>1, <1>2 DEF AdapterInv, Plain, Either, Which

LEMMA AdaptersInv == \A c \in DOMAIN Adapters : AdapterInv(Adapters[c])
<1>1. /\ <<>> \in Seq(Queries) /\ <<"reg">> \in Seq(Queries) /\ <<"cases">> \in Seq(Queries)
      /\ <<"wide">> \in Seq(Queries) /\ <<"cases", "wide">> \in Seq(Queries)
      /\ <<"reg", "wideReg">> \in Seq(Queries)
      /\ <<"boarded">> \in Seq(Queries) /\ <<"wideBoarded">> \in Seq(Queries)
  BY DEF Queries
<1>2. Page \in Nat /\ Shown \in Nat /\ Shown <= Page
  BY CityAssumption
<1>3. /\ ToSet(<<>>) = {} /\ ToSet(<<"cases">>) = {"cases"} /\ ToSet(<<"wide">>) = {"wide"}
      /\ ToSet(<<"cases", "wide">>) = {"cases", "wide"}
  BY DEF ToSet
<1>4. AdapterInv(Registry("reg", "status")) /\ AdapterInv(Registry("reg", "any"))
  BY <1>1, <1>2, <1>3 DEF AdapterInv, Registry, Plain, Either, Which
<1>5. AdapterInv(Cases("status")) /\ AdapterInv(Cases("any"))
  BY <1>1, <1>2, <1>3 DEF AdapterInv, Cases, Plain, Either, Which
<1>6. AdapterInv(StrictThenWide("status")) /\ AdapterInv(StrictThenWide("any"))
  BY <1>1, <1>2, <1>3 DEF AdapterInv, StrictThenWide, Cases, Plain, Either, Which
<1>7. AdapterInv(nyc)
  BY <1>1, <1>2, <1>3 DEF AdapterInv, nyc, Plain, Either, Which
<1>8. AdapterInv(bos) /\ AdapterInv(lax) /\ AdapterInv(sf)
  BY <1>1, <1>2, <1>3 DEF AdapterInv, bos, lax, sf, StrictThenWide, Cases, Plain, Either, Which
<1>9. AdapterInv(chi) /\ AdapterInv(phi)
  BY <1>1, <1>2, <1>3 DEF AdapterInv, chi, phi, StrictThenWide, Cases, Plain, Either, Which
<1>10. AdapterInv(moco) /\ AdapterInv(den)
  BY <1>1, <1>2, <1>3 DEF AdapterInv, moco, den, Registry, Plain, Either, Which
<1>11. AdapterInv(sd)
  BY <1>1, <1>2, <1>3 DEF AdapterInv, sd, Registry, Plain, Either, Which
<1>12. AdapterInv(mn)
  BY <1>1, <1>2, <1>3 DEF AdapterInv, mn, Registry, Plain, Either, Which
<1>13. AdapterInv(Plain)
  BY PlainInv
<1>14. QED
  BY <1>4, <1>5, <1>6, <1>7, <1>8, <1>9, <1>10, <1>11, <1>12, <1>13
     DEF Adapters, kc, gain, sea, orl, atx, bna, nola, mia, atl

-----------------------------------------------------------------------------
LEMMA FirstRowsOf ==
    ASSUME NEW T, NEW data \in Seq(T), NEW n \in Nat
    PROVE  /\ FirstRows(data, n) \in Seq(T)
           /\ Len(FirstRows(data, n)) = IF Len(data) < n THEN Len(data) ELSE n
           /\ \A i \in 1 .. Len(FirstRows(data, n)) : FirstRows(data, n)[i] = data[i]
<1> DEFINE k == IF Len(data) < n THEN Len(data) ELSE n
<1>1. Len(data) \in Nat
  BY LenProperties
<1>2. k \in Nat /\ k <= Len(data)
  BY <1>1
<1>3. FirstRows(data, n) = SubSeq(data, 1, k)
  BY DEF FirstRows
<1> HIDE DEF k
<1>4. \A i \in 1 .. k : data[i] \in T
  BY <1>2, ElementOfSeq
<1>5. /\ SubSeq(data, 1, k) \in Seq(T)
      /\ Len(SubSeq(data, 1, k)) = IF 1 <= k THEN k - 1 + 1 ELSE 0
      /\ \A i \in 1 .. k - 1 + 1 : SubSeq(data, 1, k)[i] = data[1 + i - 1]
  BY <1>2, <1>4, SubSeqProperties
<1>6. Len(SubSeq(data, 1, k)) = k
  BY <1>2, <1>5
<1>7. \A i \in 1 .. k : SubSeq(data, 1, k)[i] = data[i]
  BY <1>2, <1>5
<1>8. QED
  BY <1>3, <1>5, <1>6, <1>7 DEF k

LEMMA FirstRowsEmpty ==
    ASSUME NEW T, NEW data \in Seq(T), NEW n \in Nat \ {0}
    PROVE  FirstRows(data, n) = <<>> <=> data = <<>>
<1>1. Len(data) \in Nat /\ Len(FirstRows(data, n)) \in Nat
  BY FirstRowsOf, LenProperties
<1>2. FirstRows(data, n) \in Seq(T) /\ Len(FirstRows(data, n)) = IF Len(data) < n THEN Len(data) ELSE n
  BY FirstRowsOf
<1>3. \A t \in Seq(T) : t = <<>> <=> Len(t) = 0
  OBVIOUS
<1>4. QED
  BY <1>1, <1>2, <1>3

LEMMA FirstRowsIn ==
    ASSUME NEW T, NEW data \in Seq(T), NEW n \in Nat, NEW x, x \in ToSet(FirstRows(data, n))
    PROVE  x \in ToSet(data)
<1> DEFINE f == FirstRows(data, n)
<1>1. f \in Seq(T) /\ Len(f) = (IF Len(data) < n THEN Len(data) ELSE n)
  BY FirstRowsOf
<1>2. \A i \in 1 .. Len(f) : f[i] = data[i]
  BY FirstRowsOf
<1> HIDE DEF f
<1>3. DOMAIN f = 1 .. Len(f) /\ DOMAIN data = 1 .. Len(data) /\ Len(data) \in Nat
  BY <1>1
<1>4. PICK i \in 1 .. Len(f) : f[i] = x
  BY <1>3 DEF ToSet, f
<1>5. i \in 1 .. Len(data) /\ data[i] = x
  BY <1>1, <1>2, <1>3, <1>4
<1>6. QED
  BY <1>3, <1>5 DEF ToSet

\* The first rows of a page are the first rows of what it is a page of.
LEMMA FirstRowsTwice ==
    ASSUME NEW T, NEW data \in Seq(T), NEW n \in Nat, NEW m \in Nat, m <= n
    PROVE  FirstRows(FirstRows(data, n), m) = FirstRows(data, m)
<1> DEFINE f == FirstRows(data, n)
           g == FirstRows(f, m)
           h == FirstRows(data, m)
<1>1. f \in Seq(T) /\ Len(f) = (IF Len(data) < n THEN Len(data) ELSE n)
      /\ \A i \in 1 .. Len(f) : f[i] = data[i]
  BY FirstRowsOf
<1>2. h \in Seq(T) /\ Len(h) = (IF Len(data) < m THEN Len(data) ELSE m)
      /\ \A i \in 1 .. Len(h) : h[i] = data[i]
  BY FirstRowsOf
<1> HIDE DEF f, h
<1>3. g \in Seq(T) /\ Len(g) = (IF Len(f) < m THEN Len(f) ELSE m)
      /\ \A i \in 1 .. Len(g) : g[i] = f[i]
  BY <1>1, FirstRowsOf
<1> HIDE DEF g
<1>4. Len(g) = Len(h) /\ Len(g) <= Len(f)
  BY <1>1, <1>2, <1>3
<1>5. \A i \in 1 .. Len(g) : g[i] = h[i]
  BY <1>1, <1>2, <1>3, <1>4
<1>6. g = h
  BY <1>2, <1>3, <1>4, <1>5, SeqEqual
<1>7. QED
  BY <1>6 DEF f, g, h

\* A page with room for all of the rows is all of them.
LEMMA FirstRowsAll ==
    ASSUME NEW T, NEW data \in Seq(T), NEW n \in Nat, Len(data) <= n
    PROVE  FirstRows(data, n) = data
<1> DEFINE f == FirstRows(data, n)
<1>1. f \in Seq(T) /\ Len(f) = (IF Len(data) < n THEN Len(data) ELSE n)
      /\ \A i \in 1 .. Len(f) : f[i] = data[i]
  BY FirstRowsOf
<1> HIDE DEF f
<1>2. Len(data) \in Nat
  BY LenProperties
<1>3. Len(f) = Len(data)
  BY <1>1, <1>2
<1>4. f = data
  BY <1>1, <1>3, SeqEqual
<1>5. QED
  BY <1>4 DEF f

-----------------------------------------------------------------------------
\* Keeping the rows of some kinds keeps all of those and no others.
LEMMA KeepsRows ==
    ASSUME NEW T, NEW s \in Seq(T), NEW S
    PROVE  /\ Keep(s, S) \in Seq(T)
           /\ ToSet(Keep(s, S)) = ToSet(s) \cap S
           /\ Len(Keep(s, S)) <= Len(s)
<1> DEFINE k == Keep(s, S)
           R == ToSet(s)
<1>1. /\ DOMAIN s = 1 .. Len(s) /\ Len(s) \in Nat
      /\ R = {s[i] : i \in 1 .. Len(s)}
  BY DEF ToSet
<1>2. s \in Seq(R)
  BY <1>1
<1> HIDE DEF R
<1>3. k \in Seq(R \cap S)
  BY <1>2, KeepIn
<1>4. k \in Seq(T)
  BY KeepType
<1>5. \A i \in 1 .. Len(s) : s[i] \in S => \E j \in 1 .. Len(k) : k[j] = s[i]
  BY KeepHas
<1>6. Len(k) <= Len(s)
  <2>1. CASE \E i \in 1 .. Len(s) : s[i] \notin S
    <3>1. Len(k) + 1 <= Len(s)
      BY <2>1, KeepFewer
    <3>2. Len(k) \in Nat
      BY <1>4, LenProperties
    <3>3. QED
      BY <1>1, <3>1, <3>2
  <2>2. CASE \A i \in 1 .. Len(s) : s[i] \in S
    <3>1. \A i \in 1 .. Len(s) : s[i] \in T
      BY <1>1, ElementOfSeq
    <3>2. Keep(s, S) = Keep(s, T)
      BY <2>2, <3>1, KeepSame
    <3>3. Keep(s, T) = s
      BY KeepAll
    <3>4. QED
      BY <1>1, <3>2, <3>3
  <2>3. QED
    BY <2>1, <2>2
<1> HIDE DEF k
<1>7. DOMAIN k = 1 .. Len(k)
  BY <1>4
<1>8. ToSet(k) \subseteq R \cap S
  <2>1. \A j \in 1 .. Len(k) : k[j] \in R \cap S
    BY <1>3, ElementOfSeq
  <2>2. QED
    BY <1>7, <2>1 DEF ToSet
<1>9. R \cap S \subseteq ToSet(k)
  BY <1>1, <1>5, <1>7 DEF ToSet
<1>10. QED
  BY <1>4, <1>6, <1>8, <1>9 DEF k, R

\* Whatever the order, it is the same rows; those that ask for it get the newest first.
LEMMA OrderedOf ==
    ASSUME NEW T, NEW q, NEW data \in Seq(T), NEW s \in Ordered(q, data)
    PROVE  /\ s \in Seq(T) /\ Len(s) = Len(data) /\ ToSet(s) = ToSet(data)
           /\ q \in Adapter.newest => s = data
<1>1. CASE q \in Adapter.newest
  BY <1>1 DEF Ordered
<1>2. CASE q \notin Adapter.newest
  <2>1. PICK f \in Bijection(DOMAIN data, DOMAIN data) : s = [i \in DOMAIN data |-> data[f[i]]]
    BY <1>2 DEF Ordered
  <2>2. /\ f \in [DOMAIN data -> DOMAIN data]
        /\ \A j \in DOMAIN data : \E i \in DOMAIN data : f[i] = j
    BY <2>1 DEF Bijection, Injection, Surjection
  <2>3. DOMAIN data = 1 .. Len(data) /\ Len(data) \in Nat
    OBVIOUS
  <2>4. \A i \in 1 .. Len(data) : data[f[i]] \in T
    BY <2>2, <2>3, ElementOfSeq
  <2>5. s \in Seq(T) /\ Len(s) = Len(data)
    <3>1. s = [i \in 1 .. Len(data) |-> data[f[i]]]
      BY <2>1, <2>3
    <3>2. s \in [1 .. Len(data) -> T]
      BY <2>4, <3>1
    <3>3. QED
      BY <2>3, <3>2
  <2>6. DOMAIN s = DOMAIN data /\ \A i \in DOMAIN data : s[i] = data[f[i]]
    BY <2>1
  <2>7. ToSet(s) = ToSet(data)
    BY <2>2, <2>6 DEF ToSet
  <2>8. QED
    BY <1>2, <2>5, <2>7
<1>3. QED
  BY <1>1, <1>2

-----------------------------------------------------------------------------
\* Either every alternative is known to be empty, or one that is not is the current one.
LEMMA Current ==
    ASSUME NEW s \in Seq(Queries), NEW key, NEW got
    PROVE  \/ /\ CurrentQuery(s, key, got) = {}
              /\ \A q \in Alternatives(s, key) : q \in DOMAIN got /\ got[q] = <<>>
           \/ \E q \in Alternatives(s, key) :
                 /\ CurrentQuery(s, key, got) = {q}
                 /\ ~(q \in DOMAIN got /\ got[q] = <<>>)
<1> DEFINE open == {i \in DOMAIN s : Has(key, s[i]) /\ ~(s[i] \in DOMAIN got /\ got[s[i]] = <<>>)}
           first == {j \in open : \A k \in open : j <= k}
<1>1. open \subseteq Nat
  BY DEF open
<1>2. CurrentQuery(s, key, got) = {s[i] : i \in first}
  BY DEF CurrentQuery
<1>3. \A q : q \in Alternatives(s, key) <=> \E i \in DOMAIN s : q = s[i] /\ Has(key, q)
  BY DEF Alternatives, ToSet
<1>4. CASE open = {}
  <2>1. CurrentQuery(s, key, got) = {}
    BY <1>2, <1>4
  <2>2. QED
    BY <1>3, <1>4, <2>1
<1>5. CASE open # {}
  <2>1. PICK n \in open : \A m \in open : n <= m
    BY <1>1, <1>5, SmallestNat
  <2>2. first = {n}
    BY <1>1, <2>1
  <2>3. CurrentQuery(s, key, got) = {s[n]}
    BY <1>2, <2>2
  <2>4. s[n] \in Alternatives(s, key) /\ ~(s[n] \in DOMAIN got /\ got[s[n]] = <<>>)
    BY <1>3, <2>1
  <2>5. QED
    BY <2>3, <2>4
<1>6. QED
  BY <1>4, <1>5

\* When nothing is awaited the rows that count are those of an alternative that gave
\* some, or every alternative was asked and gave none.
LEMMA RowsGiven ==
    ASSUME NEW s \in Seq(Queries), NEW key, NEW got, CurrentQuery(s, key, got) \subseteq DOMAIN got
    PROVE  \/ /\ RowsOf(s, key, got) = <<>> /\ CurrentQuery(s, key, got) = {}
              /\ \A q \in Alternatives(s, key) : q \in DOMAIN got /\ got[q] = <<>>
           \/ /\ RowsOf(s, key, got) # <<>> /\ CurrentQuery(s, key, got) # {}
              /\ \E q \in Alternatives(s, key) : q \in DOMAIN got /\ RowsOf(s, key, got) = got[q]
<1>1. CASE CurrentQuery(s, key, got) = {}
  BY <1>1, Current DEF RowsOf
<1>2. CASE CurrentQuery(s, key, got) # {}
  <2>1. PICK q \in Alternatives(s, key) :
           CurrentQuery(s, key, got) = {q} /\ ~(q \in DOMAIN got /\ got[q] = <<>>)
    BY <1>2, Current
  <2>2. q \in DOMAIN got /\ got[q] # <<>>
    BY <2>1
  <2>3. RowsOf(s, key, got) = got[CHOOSE x \in {q} : TRUE]
    BY <2>1 DEF RowsOf
  <2>4. (CHOOSE x \in {q} : TRUE) = q
    OBVIOUS
  <2>5. QED
    BY <2>1, <2>2, <2>3, <2>4
<1>3. QED
  BY <1>1, <1>2

-----------------------------------------------------------------------------
Portals == [Asked(Adapter) -> CityRows]

\* What a check got: each answer is one to what a portal held while it ran, or the
\* query failed and may.
Gathered(got, seen) ==
    \A q \in DOMAIN got :
        \/ \E d \in seen : got[q] \in Answers(q, d[q])
        \/ q \in Adapter.lenient /\ got[q] = <<>>

\* What one answer says of the rows that the portal held.
Tells(y, q, x) ==
    /\ y # <<>> => x \in Some
    /\ y = <<>> => x \in None(q)
    /\ \A S \in {Near, Adapter.reads} : ToSet(y) \cap S # {} => x \in Holding(S)
    /\ "live" \in ToSet(Judge(y)) => x \in Holding({"live"})
    /\ y # <<>> /\ "live" \notin ToSet(Judge(y)) => x \in Quiet(q)

LEMMA AnswerTells ==
    ASSUME AdapterInv(Adapter), NEW q, NEW x \in CityRows, NEW y \in Answers(q, x)
    PROVE  Tells(y, q, x)
<1> DEFINE T == {"live", "dead", "alike", "far"}
           a == AskedFor(q, x)
<1>1. Page \in Nat \ {0} /\ CityRows \subseteq Seq(T)
  BY CityAssumption
<1>2. T \cap Near = Near
  BY DEF Near
<1> HIDE DEF T
<1>3. Adapter.judged \in Nat /\ Adapter.judged <= Page /\ Adapter.newest \cap Adapter.sifted = {}
  BY DEF AdapterInv
<1>4. x \in Seq(T)
  BY <1>1
<1>5. /\ a \in Seq(T) /\ ToSet(a) \subseteq ToSet(x) /\ Len(a) <= Len(x)
      /\ ToSet(x) \cap Near \subseteq ToSet(a)
  <2>1. CASE q \in Adapter.keyed
    BY <1>4, <2>1, KeepsRows DEF AskedFor
  <2>2. CASE q \notin Adapter.keyed
    BY <1>4, <2>2, LenProperties DEF AskedFor
  <2>3. QED
    BY <2>1, <2>2
<1>6. PICK s \in Ordered(q, a) : y = Taken(q, FirstRows(s, Page))
  BY DEF Answers
<1> HIDE DEF a
<1>7. s \in Seq(T) /\ Len(s) = Len(a) /\ ToSet(s) = ToSet(a) /\ (q \in Adapter.newest => s = a)
  BY <1>5, OrderedOf
<1>8. PICK g : g = FirstRows(s, Page)
  OBVIOUS
<1>9. /\ g \in Seq(T) /\ ToSet(g) \subseteq ToSet(s) /\ Len(g) <= Len(s)
      /\ g = <<>> <=> s = <<>>
  <2>1. g \in Seq(T) /\ Len(g) = (IF Len(s) < Page THEN Len(s) ELSE Page)
    BY <1>1, <1>7, <1>8, FirstRowsOf
  <2>2. Len(s) \in Nat
    BY <1>7, LenProperties
  <2>3. \A z : z \in ToSet(g) => z \in ToSet(s)
    BY <1>1, <1>7, <1>8, FirstRowsIn
  <2>4. g = <<>> <=> s = <<>>
    BY <1>1, <1>7, <1>8, FirstRowsEmpty
  <2>5. QED
    BY <1>1, <2>1, <2>2, <2>3, <2>4
<1>10. /\ y \in Seq(T) /\ ToSet(y) \subseteq ToSet(g) /\ Len(y) <= Len(g)
       /\ ToSet(g) \cap Near \subseteq ToSet(y)
       /\ q \notin Adapter.sifted => y = g
  <2>1. CASE q \in Adapter.sifted
    BY <1>6, <1>8, <1>9, <2>1, KeepsRows DEF Taken
  <2>2. CASE q \notin Adapter.sifted
    BY <1>6, <1>8, <1>9, <2>2, LenProperties DEF Taken
  <2>3. QED
    BY <2>1, <2>2
<1>11. ToSet(y) \subseteq ToSet(x)
  BY <1>5, <1>7, <1>9, <1>10
<1>12. \A t \in Seq(T) : t = <<>> <=> ToSet(t) = {}
  <2>1. ASSUME NEW t \in Seq(T) PROVE t = <<>> <=> ToSet(t) = {}
    <3>1. DOMAIN t = 1 .. Len(t) /\ Len(t) \in Nat /\ (t = <<>> <=> Len(t) = 0)
      OBVIOUS
    <3>2. ToSet(t) = {} <=> 1 .. Len(t) = {}
      BY <3>1 DEF ToSet
    <3>3. QED
      BY <3>1, <3>2
  <2>2. QED
    BY <2>1
<1>13. Len(x) \in Nat /\ Len(a) \in Nat /\ Len(s) \in Nat /\ Len(g) \in Nat /\ Len(y) \in Nat
  BY <1>4, <1>5, <1>7, <1>9, <1>10, LenProperties
<1>14. y # <<>> => x \in Some
  BY <1>4, <1>10, <1>11, <1>12 DEF Some
<1>15. y = <<>> => x \in None(q)
  <2> SUFFICES ASSUME y = <<>> PROVE x \in None(q)
    OBVIOUS
  <2>1. CASE q \notin Adapter.sifted
    <3>1. ToSet(s) = {}
      BY <1>7, <1>9, <1>10, <1>12, <2>1
    <3>2. a = <<>>
      BY <1>5, <1>7, <1>12, <3>1
    <3>3. QED
      BY <3>2 DEF None, a
  <2>2. CASE q \in Adapter.sifted /\ Len(x) <= Page
    <3>1. Len(s) <= Page
      BY <1>1, <1>5, <1>7, <1>13, <2>2
    <3>2. g = s
      BY <1>1, <1>7, <1>8, <3>1, FirstRowsAll
    <3>3. ToSet(y) = {}
      BY <1>10, <1>12
    <3>4. ToSet(x) \cap Near = {}
      BY <1>5, <1>7, <1>10, <3>2, <3>3
    <3>5. QED
      BY <2>2, <3>4 DEF None
  <2>3. CASE q \in Adapter.sifted /\ Len(x) > Page
    BY <2>3 DEF None
  <2>4. QED
    BY <1>1, <1>13, <2>1, <2>2, <2>3
<1>16. \A S : ToSet(y) \cap S # {} => x \in Holding(S)
  BY <1>11 DEF Holding
<1>17. ToSet(Judge(y)) \subseteq ToSet(y)
  <2>1. \A z : z \in ToSet(FirstRows(y, Adapter.judged)) => z \in ToSet(y)
    BY <1>3, <1>10, FirstRowsIn
  <2>2. QED
    BY <2>1 DEF Judge
<1>18. "live" \notin ToSet(Judge(y)) => x \in Quiet(q)
  <2> SUFFICES ASSUME "live" \notin ToSet(Judge(y)) PROVE x \in Quiet(q)
    OBVIOUS
  <2>1. CASE q \in Adapter.newest
    <3>1. s = a /\ y = g
      BY <1>3, <1>7, <1>10, <2>1
    <3>2. FirstRows(FirstRows(a, Page), Adapter.judged) = FirstRows(a, Adapter.judged)
      BY <1>1, <1>3, <1>5, FirstRowsTwice
    <3>3. Judge(y) = Judge(a)
      BY <1>8, <3>1, <3>2 DEF Judge
    <3>4. QED
      BY <2>1, <3>3 DEF Quiet, a
  <2>2. CASE q \notin Adapter.newest /\ Len(a) > Adapter.judged
    BY <2>2 DEF Quiet, a
  <2>3. CASE q \notin Adapter.newest /\ Len(a) <= Adapter.judged
    <3>1. Len(s) <= Page /\ Len(s) <= Adapter.judged
      BY <1>1, <1>3, <1>7, <1>13, <2>3
    <3>2. g = s
      BY <1>1, <1>7, <1>8, <3>1, FirstRowsAll
    <3>3. Len(y) <= Adapter.judged
      BY <1>3, <1>10, <1>13, <3>1, <3>2
    <3>4. Judge(y) = y
      BY <1>3, <1>10, <3>3, FirstRowsAll DEF Judge
    <3>5. "live" \notin ToSet(a)
      BY <1>7, <1>10, <3>2, <3>4 DEF Near
    <3>6. QED
      BY <2>3, <3>5 DEF Quiet, a
  <2>4. QED
    BY <1>3, <1>13, <2>1, <2>2, <2>3
<1>19. QED
  BY <1>14, <1>15, <1>16, <1>17, <1>18 DEF Tells, Holding

\* What the answers to one query say of the portals.
AnswerHeld(data, seen, q) ==
    \/ data = <<>> /\ q \in Adapter.lenient
    \/ \E d \in seen : Tells(data, q, d[q])

LEMMA AnswersHeld ==
    ASSUME AdapterInv(Adapter), NEW got, NEW seen, seen \subseteq Portals, Gathered(got, seen),
           NEW q \in DOMAIN got, q \in Asked(Adapter)
    PROVE  AnswerHeld(got[q], seen, q)
<1>1. ASSUME NEW d \in seen, got[q] \in Answers(q, d[q]) PROVE AnswerHeld(got[q], seen, q)
  <2>1. d[q] \in CityRows
    BY DEF Portals
  <2>2. Tells(got[q], q, d[q])
    BY <1>1, <2>1, AnswerTells
  <2>3. QED
    BY <2>2 DEF AnswerHeld
<1>2. QED
  BY <1>1 DEF Gathered, AnswerHeld

LEMMA VerdictWarranted ==
    ASSUME AdapterInv(Adapter), NEW key, NEW got, NEW seen, seen \subseteq Portals,
           Gathered(got, seen), Awaited(key, got) = {},
           NEW p, p.key = key, p.verdict = Verdict(key, got), p.seen = seen
    PROVE  Warranted(p)
<1> DEFINE regs == Alternatives(Adapter.reg, key)
           gave == RowsOf(Adapter.reg, key, got)
           registered == gave # <<>>
           joined == Joined(key, got)
           cases == Alternatives(Adapter.cases[joined], key)
           data == RowsOf(Adapter.cases[joined], key, got)
           boarded == Alternatives(Adapter.boarded[joined], key)
           seals == RowsOf(Adapter.boarded[joined], key, got)
           Held(q, R) == \E d \in seen : d[q] \in R
           v == p.verdict
<1>1. joined = (ToSet(gave) \cap Near # {}) /\ joined \in BOOLEAN
  BY DEF Joined
<1>2. /\ Adapter.reg \in Seq(Queries) /\ Adapter.cases[joined] \in Seq(Queries)
      /\ Adapter.boarded[joined] \in Seq(Queries)
  BY <1>1 DEF AdapterInv
<1>3. /\ CurrentQuery(Adapter.reg, key, got) \subseteq DOMAIN got
      /\ CurrentQuery(Adapter.cases[joined], key, got) \subseteq DOMAIN got
      /\ CurrentQuery(Adapter.boarded[joined], key, got) \subseteq DOMAIN got
  BY DEF Awaited
<1>4. regs \subseteq Asked(Adapter) /\ cases \subseteq Asked(Adapter) /\ boarded \subseteq Asked(Adapter)
  <2>1. \A b \in BOOLEAN : /\ Alternatives(Adapter.cases[b], key) \subseteq Asked(Adapter)
                          /\ Alternatives(Adapter.boarded[b], key) \subseteq Asked(Adapter)
    BY DEF Asked, Alternatives
  <2>2. regs \subseteq Asked(Adapter)
    BY DEF Asked, Alternatives
  <2>3. QED
    BY <1>1, <2>1, <2>2
<1>5. cases \cap Adapter.lenient = {}
  BY <1>1 DEF AdapterInv, Alternatives
<1>6. \A q \in DOMAIN got : q \in Asked(Adapter) => AnswerHeld(got[q], seen, q)
  BY AnswersHeld
<1>7. /\ ~registered => \A q \in regs : q \in DOMAIN got /\ got[q] = <<>>
      /\ registered => \E q \in regs : q \in DOMAIN got /\ gave = got[q]
  BY <1>2, <1>3, RowsGiven
<1>8. /\ data = <<>> => \A q \in cases : q \in DOMAIN got /\ got[q] = <<>>
      /\ data # <<>> => \E q \in cases : q \in DOMAIN got /\ data = got[q]
  BY <1>2, <1>3, RowsGiven
<1>9. seals # <<>> => \E q \in boarded : q \in DOMAIN got /\ seals = got[q]
  BY <1>2, <1>3, RowsGiven
<1> DEFINE byStatus == Adapter.casesBy = "status" /\ (city = "nyc" => registered)
           found == IF byStatus THEN "live" \in ToSet(Judge(data)) ELSE data # <<>>
           Verd == [reg |-> IF Adapter.reg = <<>> THEN "unasked" ELSE IF ~registered THEN "none"
                            ELSE IF Adapter.regBy = "any" \/ ToSet(gave) \cap Adapter.reads # {}
                                 THEN "active" ELSE "lapsed",
                    joined |-> joined,
                    cases |-> IF Adapter.cases[TRUE] = <<>> THEN "unasked"
                              ELSE IF found THEN "open"
                              ELSE IF data # <<>> THEN "closed" ELSE "none",
                    boarded |-> seals # <<>>]
<1>10. v = Verd
  <2>1. (Adapter.casesBy = "any" \/ (city = "nyc" /\ ~registered)) <=> ~byStatus
    BY DEF AdapterInv
  <2>2. (IF Adapter.casesBy = "any" \/ (city = "nyc" /\ ~registered)
         THEN data # <<>> ELSE "live" \in ToSet(Judge(data))) <=> found
    BY <2>1
  <2>3. QED
    BY <2>2 DEF Verdict
<1>11. Adapter.reg = <<>> => ~registered
  <2>1. ASSUME Adapter.reg = <<>> PROVE regs = {}
    BY <2>1 DEF Alternatives, ToSet
  <2>2. QED
    BY <1>7, <2>1
<1>12. ToSet(<<>>) = {}
  BY DEF ToSet
<1>13. joined => registered
  BY <1>1, <1>12
<1>14. /\ v.joined = joined
       /\ v.cases = IF Adapter.cases[TRUE] = <<>> THEN "unasked" ELSE IF found THEN "open"
                    ELSE IF data # <<>> THEN "closed" ELSE "none"
  <2>1. v.joined = Verd.joined /\ v.cases = Verd.cases
    BY <1>10
  <2> HIDE DEF v
  <2>2. QED
    BY <2>1
<1>15. (v.reg \in {"active", "lapsed"}) = registered
  BY <1>10, <1>11
<1> HIDE DEF registered, joined, regs, cases, boarded, data, gave, seals
<1>16. /\ registered => \E q \in regs : Held(q, Some)
       /\ v.joined => \E q \in regs : Held(q, Holding(Near))
       /\ v.reg = "active" /\ Adapter.regBy = "status" =>
             \E q \in regs : Held(q, Holding(Adapter.reads))
       /\ v.reg = "none" => \A q \in regs \ Adapter.lenient : Held(q, None(q))
  <2>1. ASSUME registered
        PROVE  /\ \E q \in regs : Held(q, Some)
               /\ \A S \in {Near, Adapter.reads} :
                     ToSet(gave) \cap S # {} => \E q \in regs : Held(q, Holding(S))
    <3>1. PICK q \in regs : q \in DOMAIN got /\ gave = got[q]
      BY <1>7, <2>1
    <3>2. AnswerHeld(gave, seen, q)
      BY <1>4, <1>6, <3>1
    <3>3. gave # <<>>
      BY <2>1 DEF registered
    <3>4. PICK d \in seen : Tells(gave, q, d[q])
      BY <3>2, <3>3 DEF AnswerHeld
    <3>5. QED
      BY <3>1, <3>3, <3>4 DEF Tells
  <2>2. ASSUME v.reg = "none" PROVE \A q \in regs \ Adapter.lenient : Held(q, None(q))
    <3>1. ~registered
      BY <1>15, <2>2
    <3>2. SUFFICES ASSUME NEW q \in regs, q \notin Adapter.lenient
                   PROVE  Held(q, None(q))
      OBVIOUS
    <3>3. q \in DOMAIN got /\ got[q] = <<>> /\ AnswerHeld(got[q], seen, q)
      BY <1>4, <1>6, <1>7, <3>1
    <3>4. QED
      BY <3>2, <3>3 DEF AnswerHeld, Tells
  <2>3. v.reg = "active" /\ Adapter.regBy = "status" => registered /\ ToSet(gave) \cap Adapter.reads # {}
    BY <1>10
  <2>4. v.joined => registered /\ ToSet(gave) \cap Near # {}
    BY <1>1, <1>13, <1>14
  <2>5. QED
    BY <2>1, <2>2, <2>3, <2>4
<1> HIDE DEF v, byStatus
<1>17. /\ v.cases = "open" =>
             \E q \in cases : Held(q, IF byStatus THEN Holding({"live"}) ELSE Some)
       /\ v.cases = "closed" => \E q \in cases : byStatus /\ Held(q, Quiet(q))
       /\ v.cases = "none" => \A q \in cases : Held(q, None(q))
  <2>1. ASSUME data # <<>>
        PROVE  \E q \in cases : \E d \in seen : Tells(data, q, d[q])
    <3>1. PICK q \in cases : q \in DOMAIN got /\ data = got[q]
      BY <1>8, <2>1
    <3>2. AnswerHeld(data, seen, q)
      BY <1>4, <1>6, <3>1
    <3>3. QED
      BY <2>1, <3>2 DEF AnswerHeld
  <2>2. ASSUME v.cases = "none" PROVE \A q \in cases : Held(q, None(q))
    <3>1. data = <<>>
      BY <1>14, <2>2
    <3>2. SUFFICES ASSUME NEW q \in cases PROVE Held(q, None(q))
      OBVIOUS
    <3>3. q \in DOMAIN got /\ got[q] = <<>> /\ AnswerHeld(got[q], seen, q) /\ q \notin Adapter.lenient
      BY <1>4, <1>5, <1>6, <1>8, <3>1
    <3>4. QED
      BY <3>3 DEF AnswerHeld, Tells
  <2>3. "live" \in ToSet(Judge(data)) => data # <<>>
    <3>1. Judge(<<>>) = <<>>
      <4>1. Adapter.judged \in Nat /\ Len(<<>>) = 0 /\ SubSeq(<<>>, 1, 0) = <<>>
        BY SubSeqEmpty DEF AdapterInv
      <4>2. QED
        BY <4>1 DEF Judge, FirstRows
    <3>2. QED
      BY <1>12, <3>1
  <2>4. v.cases = "open" => data # <<>> /\ (byStatus => "live" \in ToSet(Judge(data)))
    BY <1>14, <2>3
  <2>5. v.cases = "closed" => data # <<>> /\ byStatus /\ "live" \notin ToSet(Judge(data))
    BY <1>14
  <2>6. ASSUME v.cases = "open"
        PROVE  \E q \in cases : Held(q, IF byStatus THEN Holding({"live"}) ELSE Some)
    BY <2>1, <2>4, <2>6 DEF Tells
  <2>7. ASSUME v.cases = "closed" PROVE \E q \in cases : byStatus /\ Held(q, Quiet(q))
    BY <2>1, <2>5, <2>7 DEF Tells
  <2>8. QED
    BY <2>2, <2>6, <2>7
<1>18. v.boarded => \E q \in boarded : Held(q, Some)
  <2>1. v.boarded = (seals # <<>>)
    <3>1. v.boarded = Verd.boarded
      BY <1>10 DEF v
    <3>2. Verd.boarded = (seals # <<>>)
      OBVIOUS
    <3>3. QED
      BY <3>1, <3>2
  <2>2. ASSUME seals # <<>> PROVE \E q \in boarded : Held(q, Some)
    <3>1. PICK q \in boarded : q \in DOMAIN got /\ seals = got[q]
      BY <1>9, <2>2
    <3>2. AnswerHeld(seals, seen, q)
      BY <1>4, <1>6, <3>1
    <3>3. QED
      BY <2>2, <3>1, <3>2 DEF AnswerHeld, Tells
  <2>3. QED
    BY <2>1, <2>2
<1>19. QED
  BY <1>14, <1>15, <1>16, <1>17, <1>18 DEF Warranted, registered, regs, cases, boarded, v, byStatus

-----------------------------------------------------------------------------
GoodReport(p) ==
    /\ p = [kind |-> "report", key |-> p.key, verdict |-> p.verdict, born |-> p.born,
            seen |-> p.seen, served |-> p.served]
    /\ p.born \in Nat /\ p.served \in Nat /\ p.served - p.born <= CityTTL + FetchMax
    /\ Warranted(p)

\* A cached report was made within FetchMax of its check's beginning.
GoodEntry(e) == GoodReport(e.report) /\ e.at \in Nat /\ e.at - e.report.born <= FetchMax

\* A check in progress has seen what the portals hold, and has not timed out.
GoodCheck(q) ==
    /\ q = [st |-> "fetching", key |-> q.key, left |-> q.left, items |-> q.items, got |-> q.got,
            failed |-> q.failed, born |-> q.born, seen |-> q.seen]
    /\ q.born \in Nat /\ q.born <= cityNow /\ cityNow - q.born <= FetchMax
    /\ portal \in q.seen /\ q.seen \subseteq Portals /\ Gathered(q.got, q.seen)

GoodReq(q) ==
    /\ q.st \in {"next", "fetching", "ended"} => \A i \in q.items : i.kind = "report" => GoodReport(i)
    /\ q.st \in {"next", "fetching"} => q.key \in CityKeys
    /\ q.st = "fetching" => GoodCheck(q)

CityInv ==
    /\ city \in DOMAIN Adapters /\ cityNow \in Nat /\ portal \in Portals
    /\ cityCache = [k \in CityKeys |-> cityCache[k]]
    /\ \A k \in CityKeys : \A e \in cityCache[k] : GoodEntry(e)
    /\ cityReq = [r \in CityReqs |-> cityReq[r]]
    /\ \A r \in CityReqs : GoodReq(cityReq[r])

LEMMA SameCity ==
    ASSUME city' = city
    PROVE  /\ Portals' = Portals
           /\ \A p : Warranted(p)' <=> Warranted(p)
           /\ \A p : GoodReport(p)' <=> GoodReport(p)
           /\ \A e : GoodEntry(e)' <=> GoodEntry(e)
           /\ \A g, s : Gathered(g, s)' <=> Gathered(g, s)
<1>1. Adapter' = Adapter
  BY DEF Adapter
<1>2. Portals' = Portals
  BY <1>1 DEF Portals, Asked
<1>3. \A key, q : Has(key, q)' <=> Has(key, q)
  BY DEF Has
<1>4. \A s, key : Alternatives(s, key)' = Alternatives(s, key)
  BY <1>3 DEF Alternatives
<1>5. \A x : Judge(x)' = Judge(x)
  BY <1>1 DEF Judge
<1>6. \A q, x : AskedFor(q, x)' = AskedFor(q, x)
  BY <1>1 DEF AskedFor
<1>7. \A q, x : Answers(q, x)' = Answers(q, x)
  BY <1>1, <1>6 DEF Answers, Ordered, Taken
<1>8. \A q : None(q)' = None(q) /\ Quiet(q)' = Quiet(q)
  BY <1>1, <1>5, <1>6 DEF None, Quiet
<1>9. \A p : Warranted(p)' <=> Warranted(p)
  <2> SUFFICES ASSUME NEW p PROVE Warranted(p)' <=> Warranted(p)
    OBVIOUS
  <2> DEFINE joined == p.verdict.joined
  <2>1. /\ Alternatives(Adapter.reg, p.key)' = Alternatives(Adapter.reg, p.key)
        /\ Alternatives(Adapter.cases[joined], p.key)' = Alternatives(Adapter.cases[joined], p.key)
        /\ Alternatives(Adapter.boarded[joined], p.key)'
             = Alternatives(Adapter.boarded[joined], p.key)
    BY <1>1, <1>4
  <2>2. QED
    BY <1>1, <1>8, <2>1 DEF Warranted
<1>10. \A p : GoodReport(p)' <=> GoodReport(p)
  BY <1>9 DEF GoodReport
<1>11. \A e : GoodEntry(e)' <=> GoodEntry(e)
  BY <1>10 DEF GoodEntry
<1>12. \A g, s : Gathered(g, s)' <=> Gathered(g, s)
  BY <1>1, <1>7 DEF Gathered
<1>13. QED
  BY <1>2, <1>9, <1>10, <1>11, <1>12

LEMMA SameReq ==
    ASSUME UNCHANGED <<city, portal, cityNow>>
    PROVE  \A q : GoodReq(q)' <=> GoodReq(q)
<1>1. \A q : GoodCheck(q)' <=> GoodCheck(q)
  BY SameCity DEF GoodCheck
<1>2. QED
  BY <1>1, SameCity DEF GoodReq

\* A step of one request, and of the cache at most at the request's key.
LEMMA OneRequest ==
    ASSUME CityInv, UNCHANGED <<city, portal, cityNow>>, NEW r \in CityReqs, NEW n,
           cityReq' = [cityReq EXCEPT ![r] = n], GoodReq(n),
           cityCache' = [k \in CityKeys |-> cityCache'[k]],
           \A k \in CityKeys : \A e \in cityCache'[k] : e \in cityCache[k] \/ GoodEntry(e)
    PROVE  CityInv'
<1>1. \A k \in CityKeys : \A e \in cityCache'[k] : GoodEntry(e)'
  BY SameCity DEF CityInv
<1>2. cityReq' = [x \in CityReqs |-> cityReq'[x]]
  BY DEF CityInv
<1>3. \A x \in CityReqs : cityReq'[x] = n \/ cityReq'[x] = cityReq[x]
  BY DEF CityInv
<1>4. \A x \in CityReqs : GoodReq(cityReq'[x])
  BY <1>3 DEF CityInv
<1>5. \A x \in CityReqs : GoodReq(cityReq[x])'
  BY <1>4, SameReq
<1>6. (portal \in Portals)'
  BY SameCity DEF CityInv
<1>7. QED
  BY <1>1, <1>2, <1>5, <1>6 DEF CityInv

LEMMA Done ==
    ASSUME CityInv, NEW r \in CityReqs, cityReq[r].st \in {"next", "fetching"}, NEW i,
           i.kind = "report" => GoodReport(i),
           NEW n, n = [st |-> IF cityReq[r].left > 1 THEN "next" ELSE "ended",
                       key |-> cityReq[r].key, left |-> cityReq[r].left - 1,
                       items |-> cityReq[r].items \cup {i}]
    PROVE  GoodReq(n)
<1>1. n.st \in {"next", "ended"} /\ n.items = cityReq[r].items \cup {i} /\ n.key = cityReq[r].key
  OBVIOUS
<1>2. \A x \in cityReq[r].items : x.kind = "report" => GoodReport(x)
  BY DEF CityInv, GoodReq
<1>3. cityReq[r].key \in CityKeys
  BY DEF CityInv, GoodReq
<1>4. QED
  BY <1>1, <1>2, <1>3 DEF GoodReq

LEMMA NewAnswer ==
    ASSUME CityInv, NEW r \in CityReqs, cityReq[r].st = "fetching", NEW q, NEW data,
           \/ \E d \in cityReq[r].seen : data \in Answers(q, d[q])
           \/ q \in Adapter.lenient /\ data = <<>>,
           NEW n, n = [cityReq[r] EXCEPT !.got = With(cityReq[r].got, q, data)]
    PROVE  GoodReq(n)
<1> DEFINE o == cityReq[r]
           g == With(o.got, q, data)
<1>1. GoodReq(o) /\ GoodCheck(o)
  BY DEF CityInv, GoodReq
<1>2. o = [st |-> "fetching", key |-> o.key, left |-> o.left, items |-> o.items, got |-> o.got,
           failed |-> o.failed, born |-> o.born, seen |-> o.seen]
  BY <1>1 DEF GoodCheck
<1>3. Gathered(g, o.seen)
  BY <1>1 DEF GoodCheck, Gathered, With
<1> HIDE DEF g
<1>4. n = [st |-> "fetching", key |-> o.key, left |-> o.left, items |-> o.items, got |-> g,
           failed |-> o.failed, born |-> o.born, seen |-> o.seen]
  <2> DEFINE x == o
  <2>1. n = [x EXCEPT !.got = g]
    BY DEF g
  <2>2. x = [st |-> "fetching", key |-> x.key, left |-> x.left, items |-> x.items, got |-> x.got,
             failed |-> x.failed, born |-> x.born, seen |-> x.seen]
    BY <1>2
  <2> HIDE DEF x
  <2>3. n = [st |-> "fetching", key |-> x.key, left |-> x.left, items |-> x.items, got |-> g,
             failed |-> x.failed, born |-> x.born, seen |-> x.seen]
    BY <2>1, <2>2
  <2>4. QED
    BY <2>3 DEF x
<1>5. GoodCheck(n)
  <2>1. /\ n.st = "fetching" /\ n.key = o.key /\ n.left = o.left /\ n.items = o.items /\ n.got = g
        /\ n.failed = o.failed /\ n.born = o.born /\ n.seen = o.seen
    BY <1>4
  <2>2. n = [st |-> "fetching", key |-> n.key, left |-> n.left, items |-> n.items, got |-> n.got,
             failed |-> n.failed, born |-> n.born, seen |-> n.seen]
    BY <1>4
  <2>3. QED
    BY <1>1, <1>3, <2>1, <2>2 DEF GoodCheck
<1>6. QED
  BY <1>1, <1>2, <1>4, <1>5 DEF GoodReq

LEMMA CityInitInv == ASSUME NEW c \in CityCodes, CityInit(c) PROVE CityInv
<1>1. city \in DOMAIN Adapters
  BY CityCodesAssumption DEF CityInit
<1>2. portal \in Portals
  BY CityAssumption DEF CityInit, Portals, Adapter
<1>3. QED
  BY <1>1, <1>2 DEF CityInit, CityInv, GoodReq

LEMMA CityStep == CityInv /\ [CityNext]_cityVars => CityInv'
<1> SUFFICES ASSUME CityInv, [CityNext]_cityVars PROVE CityInv'
  OBVIOUS
<1>1. ASSUME NEW r \in CityReqs, CityAsk(r) PROVE CityInv'
  <2>1. PICK k \in CityKeys : cityReq' = [cityReq EXCEPT ![r] = [st |-> "next", key |-> k,
                                             left |-> CityPack[r], items |-> {}]]
    BY <1>1 DEF CityAsk
  <2>2. PICK n : n = [st |-> "next", key |-> k, left |-> CityPack[r], items |-> {}]
    OBVIOUS
  <2>3. GoodReq(n)
    BY <2>2 DEF GoodReq
  <2>4. QED
    BY <1>1, <2>1, <2>2, <2>3, OneRequest DEF CityAsk, CityInv
<1>2. ASSUME NEW r \in CityReqs, CityHit(r) PROVE CityInv'
  <2>1. cityReq[r].key \in CityKeys /\ cityNow \in Nat
    BY <1>2 DEF CityHit, CityInv, GoodReq
  <2>2. PICK e \in cityCache[cityReq[r].key] :
           cityNow - e.at <= CityTTL /\ ItemDone(r, [e.report EXCEPT !.served = cityNow])
    BY <1>2 DEF CityHit
  <2>3. GoodEntry(e)
    BY <2>1 DEF CityInv
  <2>4. PICK p : p = e.report
    OBVIOUS
  <2>5. PICK i : i = [p EXCEPT !.served = cityNow]
    OBVIOUS
  <2>6. i = [kind |-> "report", key |-> p.key, verdict |-> p.verdict, born |-> p.born,
             seen |-> p.seen, served |-> cityNow]
    BY <2>3, <2>4, <2>5 DEF GoodEntry, GoodReport
  <2>7. Warranted(i)
    BY <2>3, <2>4, <2>6 DEF GoodEntry, GoodReport, Warranted
  <2>8. cityNow - p.born <= CityTTL + FetchMax
    <3>1. /\ e.at \in Nat /\ e.report.born \in Nat /\ e.at - e.report.born <= FetchMax
          /\ CityTTL \in Nat /\ FetchMax \in Nat
      BY <2>3, CityAssumption DEF GoodEntry, GoodReport
    <3>2. QED
      BY <2>1, <2>2, <2>4, <3>1
  <2>9. GoodReport(i)
    BY <2>1, <2>3, <2>4, <2>6, <2>7, <2>8 DEF GoodEntry, GoodReport
  <2>10. PICK n : n = [st |-> IF cityReq[r].left > 1 THEN "next" ELSE "ended",
                       key |-> cityReq[r].key, left |-> cityReq[r].left - 1,
                       items |-> cityReq[r].items \cup {i}]
    OBVIOUS
  <2>11. GoodReq(n)
    BY <1>2, <2>9, <2>10, Done DEF CityHit
  <2>12. cityReq' = [cityReq EXCEPT ![r] = n]
    BY <2>2, <2>4, <2>5, <2>10 DEF ItemDone
  <2>13. QED
    BY <1>2, <2>11, <2>12, OneRequest DEF CityHit, CityInv
<1>3. ASSUME NEW r \in CityReqs, CityMiss(r) PROVE CityInv'
  <2>1. CASE cityReq[r].key = "bad"
    <3>1. PICK n : n = [st |-> IF cityReq[r].left > 1 THEN "next" ELSE "ended",
                        key |-> cityReq[r].key, left |-> cityReq[r].left - 1,
                        items |-> cityReq[r].items \cup {Refused}]
      OBVIOUS
    <3>2. Refused.kind # "report"
      BY DEF Refused
    <3>3. GoodReq(n)
      BY <1>3, <3>1, <3>2, Done DEF CityMiss
    <3>4. cityReq' = [cityReq EXCEPT ![r] = n]
      BY <1>3, <2>1, <3>1 DEF CityMiss, ItemDone
    <3>5. QED
      BY <1>3, <3>3, <3>4, OneRequest DEF CityMiss, CityInv
  <2>2. CASE cityReq[r].key # "bad"
    <3>1. PICK n : n = [st |-> "fetching", key |-> cityReq[r].key, left |-> cityReq[r].left,
                        items |-> cityReq[r].items, got |-> <<>>, failed |-> {},
                        born |-> cityNow, seen |-> {portal}]
      OBVIOUS
    <3>2. GoodCheck(n)
      <4>1. cityNow \in Nat /\ FetchMax \in Nat /\ portal \in Portals
        BY CityAssumption DEF CityInv
      <4>2. Gathered(<<>>, {portal})
        BY DEF Gathered
      <4>3. QED
        BY <3>1, <4>1, <4>2 DEF GoodCheck
    <3>3. GoodReq(n)
      <4>1. GoodReq(cityReq[r]) /\ cityReq[r].st = "next"
        BY <1>3 DEF CityInv, CityMiss
      <4>2. n.st = "fetching" /\ n.key = cityReq[r].key /\ n.items = cityReq[r].items
        BY <3>1
      <4>3. QED
        BY <3>2, <4>1, <4>2 DEF GoodReq
    <3>4. cityReq' = [cityReq EXCEPT ![r] = n]
      BY <1>3, <2>2, <3>1 DEF CityMiss
    <3>5. QED
      BY <1>3, <3>3, <3>4, OneRequest DEF CityMiss, CityInv
  <2>3. QED
    BY <2>1, <2>2
<1>4. ASSUME NEW r \in CityReqs, PortalAnswers(r) PROVE CityInv'
  <2>1. PICK q : \E page \in Answers(q, portal[q]) :
                    cityReq' = [cityReq EXCEPT ![r].got = With(@, q, page)]
    BY <1>4 DEF PortalAnswers
  <2>2. PICK data \in Answers(q, portal[q]) : cityReq' = [cityReq EXCEPT ![r].got = With(@, q, data)]
    BY <2>1
  <2>3. PICK n : n = [cityReq[r] EXCEPT !.got = With(cityReq[r].got, q, data)]
    OBVIOUS
  <2>4. portal \in cityReq[r].seen /\ cityReq[r].st = "fetching"
    BY <1>4 DEF PortalAnswers, CityInv, GoodReq, GoodCheck
  <2>5. GoodReq(n)
    BY <2>2, <2>3, <2>4, NewAnswer
  <2>6. cityReq' = [cityReq EXCEPT ![r] = n]
    BY <2>2, <2>3
  <2>7. QED
    BY <1>4, <2>5, <2>6, OneRequest DEF PortalAnswers, CityInv
<1>5. ASSUME NEW r \in CityReqs, PortalFails(r) PROVE CityInv'
  <2>1. PICK q : \/ /\ q \in Adapter.lenient
                    /\ cityReq' = [cityReq EXCEPT ![r].got = With(@, q, <<>>)]
                 \/ cityReq' = [cityReq EXCEPT ![r].failed = @ \cup {q}]
    BY <1>5 DEF PortalFails
  <2>2. cityReq[r].st = "fetching"
    BY <1>5 DEF PortalFails
  <2>3. CASE q \in Adapter.lenient /\ cityReq' = [cityReq EXCEPT ![r].got = With(@, q, <<>>)]
    <3>1. PICK n : n = [cityReq[r] EXCEPT !.got = With(cityReq[r].got, q, <<>>)]
      OBVIOUS
    <3>2. GoodReq(n)
      BY <2>2, <2>3, <3>1, NewAnswer
    <3>3. cityReq' = [cityReq EXCEPT ![r] = n]
      BY <2>3, <3>1
    <3>4. QED
      BY <1>5, <3>2, <3>3, OneRequest DEF PortalFails, CityInv
  <2>4. CASE cityReq' = [cityReq EXCEPT ![r].failed = @ \cup {q}]
    <3>1. PICK o : o = cityReq[r]
      OBVIOUS
    <3>2. PICK n : n = [o EXCEPT !.failed = o.failed \cup {q}]
      OBVIOUS
    <3>3. GoodReq(o) /\ GoodCheck(o)
      BY <2>2, <3>1 DEF CityInv, GoodReq
    <3>4. n = [st |-> "fetching", key |-> o.key, left |-> o.left, items |-> o.items, got |-> o.got,
               failed |-> o.failed \cup {q}, born |-> o.born, seen |-> o.seen]
      <4>1. o = [st |-> "fetching", key |-> o.key, left |-> o.left, items |-> o.items, got |-> o.got,
                 failed |-> o.failed, born |-> o.born, seen |-> o.seen]
        BY <3>3 DEF GoodCheck
      <4>2. PICK f : f = o.failed \cup {q}
        OBVIOUS
      <4>3. n = [o EXCEPT !.failed = f]
        BY <3>2, <4>2
      <4>4. n = [st |-> "fetching", key |-> o.key, left |-> o.left, items |-> o.items, got |-> o.got,
                 failed |-> f, born |-> o.born, seen |-> o.seen]
        BY <4>1, <4>3
      <4>5. QED
        BY <4>2, <4>4
    <3>5. /\ n.st = "fetching" /\ n.key = o.key /\ n.left = o.left /\ n.items = o.items
          /\ n.got = o.got /\ n.born = o.born /\ n.seen = o.seen
      BY <3>4
    <3>6. n = [st |-> "fetching", key |-> n.key, left |-> n.left, items |-> n.items,
               got |-> n.got, failed |-> n.failed, born |-> n.born, seen |-> n.seen]
      BY <3>4
    <3>7. GoodCheck(n)
      BY <3>3, <3>5, <3>6 DEF GoodCheck
    <3>8. GoodReq(n)
      BY <2>2, <3>1, <3>3, <3>5, <3>7 DEF GoodReq
    <3>9. cityReq' = [cityReq EXCEPT ![r] = n]
      BY <2>4, <3>1, <3>2
    <3>10. QED
      BY <1>5, <3>8, <3>9, OneRequest DEF PortalFails, CityInv
  <2>5. QED
    BY <2>1, <2>3, <2>4
<1>6. ASSUME NEW r \in CityReqs, CheckRaises(r) PROVE CityInv'
  <2>1. PICK n : n = [st |-> IF cityReq[r].left > 1 THEN "next" ELSE "ended",
                      key |-> cityReq[r].key, left |-> cityReq[r].left - 1,
                      items |-> cityReq[r].items \cup {Unavailable}]
    OBVIOUS
  <2>2. Unavailable.kind # "report"
    BY DEF Unavailable
  <2>3. GoodReq(n)
    BY <1>6, <2>1, <2>2, Done DEF CheckRaises
  <2>4. cityReq' = [cityReq EXCEPT ![r] = n]
    BY <1>6, <2>1 DEF CheckRaises, ItemDone
  <2>5. QED
    BY <1>6, <2>3, <2>4, OneRequest DEF CheckRaises, CityInv
<1>7. ASSUME NEW r \in CityReqs, CheckReports(r) PROVE CityInv'
  <2>1. PICK q : q = cityReq[r]
    OBVIOUS
  <2>2. PICK p : p = [kind |-> "report", key |-> q.key, verdict |-> Verdict(q.key, q.got),
                      born |-> q.born, seen |-> q.seen, served |-> cityNow]
    OBVIOUS
  <2>3. /\ cityCache' = [cityCache EXCEPT ![q.key] = {[at |-> cityNow, report |-> p]}]
        /\ ItemDone(r, p) /\ UNCHANGED <<city, portal, cityNow>> /\ q.st = "fetching"
        /\ Awaited(q.key, q.got) = {}
    BY <1>7, <2>1, <2>2 DEF CheckReports
  <2>4. GoodCheck(q)
    BY <2>1, <2>3 DEF CityInv, GoodReq
  <2>5. Warranted(p)
    <3>1. AdapterInv(Adapter)
      BY AdaptersInv DEF CityInv, Adapter
    <3>2. q.seen \subseteq Portals /\ Gathered(q.got, q.seen)
      BY <2>4 DEF GoodCheck
    <3>3. p.key = q.key /\ p.verdict = Verdict(q.key, q.got) /\ p.seen = q.seen
      BY <2>2
    <3>4. QED
      BY <2>3, <3>1, <3>2, <3>3, VerdictWarranted
  <2>6. q.born \in Nat /\ cityNow \in Nat /\ cityNow - q.born <= FetchMax
    BY <2>4 DEF GoodCheck, CityInv
  <2>7. /\ p.kind = "report" /\ p.born = q.born /\ p.served = cityNow
        /\ p = [kind |-> "report", key |-> p.key, verdict |-> p.verdict, born |-> p.born,
                seen |-> p.seen, served |-> p.served]
    BY <2>2
  <2>8. GoodReport(p)
    <3>1. cityNow - q.born <= CityTTL + FetchMax
      BY <2>6, CityAssumption
    <3>2. QED
      BY <2>5, <2>6, <2>7, <3>1 DEF GoodReport
  <2>9. PICK e : e = [at |-> cityNow, report |-> p]
    OBVIOUS
  <2>10. GoodEntry(e)
    BY <2>6, <2>7, <2>8, <2>9 DEF GoodEntry
  <2>11. PICK n : n = [st |-> IF cityReq[r].left > 1 THEN "next" ELSE "ended",
                       key |-> cityReq[r].key, left |-> cityReq[r].left - 1,
                       items |-> cityReq[r].items \cup {p}]
    OBVIOUS
  <2>12. GoodReq(n)
    BY <2>1, <2>3, <2>8, <2>11, Done
  <2>13. cityReq' = [cityReq EXCEPT ![r] = n]
    BY <2>3, <2>11 DEF ItemDone
  <2>14. /\ cityCache' = [k \in CityKeys |-> cityCache'[k]]
         /\ \A k \in CityKeys : \A x \in cityCache'[k] : x \in cityCache[k] \/ x = e
    BY <2>3, <2>9 DEF CityInv
  <2>15. \A k \in CityKeys : \A x \in cityCache'[k] : x \in cityCache[k] \/ GoodEntry(x)
    BY <2>10, <2>14
  <2>16. QED
    BY <2>3, <2>12, <2>13, <2>14, <2>15, OneRequest
<1>8. ASSUME NEW r \in CityReqs, WarmerGivesUp(r) PROVE CityInv'
  <2>1. PICK n : n = [st |-> "cut"]
    OBVIOUS
  <2>2. GoodReq(n)
    BY <2>1 DEF GoodReq
  <2>3. cityReq' = [cityReq EXCEPT ![r] = n]
    BY <1>8, <2>1 DEF WarmerGivesUp
  <2>4. QED
    BY <1>8, <2>2, <2>3, OneRequest DEF WarmerGivesUp, CityInv
<1>9. ASSUME PortalChanges PROVE CityInv'
  <2>1. UNCHANGED <<city, cityCache, cityNow>>
    BY <1>9 DEF PortalChanges
  <2>2. portal' \in Portals
    BY <1>9 DEF PortalChanges, CityInv, Portals
  <2>3. PICK d : d = portal'
    OBVIOUS
  <2>4. ASSUME NEW r \in CityReqs PROVE GoodReq(cityReq[r])'
    <3>1. PICK o : o = cityReq[r]
      OBVIOUS
    <3>2. GoodReq(o)
      BY <3>1 DEF CityInv
    <3>3. CASE o.st # "fetching"
      <4>1. cityReq'[r] = o
        BY <1>9, <3>1, <3>3 DEF PortalChanges
      <4>2. GoodReq(o)'
        BY <2>1, <3>2, <3>3, SameCity DEF GoodReq
      <4>3. QED
        BY <4>1, <4>2
    <3>4. CASE o.st = "fetching"
      <4>1. PICK n : n = [o EXCEPT !.seen = @ \cup {d}]
        OBVIOUS
      <4>2. cityReq'[r] = n
        BY <1>9, <2>3, <3>1, <3>4, <4>1 DEF PortalChanges
      <4>3. GoodCheck(o)
        BY <3>2, <3>4 DEF GoodReq
      <4>4. n = [st |-> "fetching", key |-> o.key, left |-> o.left, items |-> o.items, got |-> o.got,
                 failed |-> o.failed, born |-> o.born, seen |-> o.seen \cup {d}]
        BY <4>1, <4>3 DEF GoodCheck
      <4>5. /\ n.st = "fetching" /\ n.key = o.key /\ n.left = o.left /\ n.items = o.items
            /\ n.got = o.got /\ n.born = o.born /\ n.seen = o.seen \cup {d}
        BY <4>4
      <4>6. n = [st |-> "fetching", key |-> n.key, left |-> n.left, items |-> n.items,
                 got |-> n.got, failed |-> n.failed, born |-> n.born, seen |-> n.seen]
        BY <4>4
      <4>7. Gathered(n.got, n.seen)
        BY <4>3, <4>5 DEF GoodCheck, Gathered
      <4>8. portal' \in n.seen /\ n.seen \subseteq Portals
        BY <2>2, <2>3, <4>3, <4>5 DEF GoodCheck
      <4>9. Gathered(n.got, n.seen)' /\ Portals' = Portals
        BY <2>1, <4>7, SameCity
      <4>10. n.born \in Nat /\ n.born <= cityNow' /\ cityNow' - n.born <= FetchMax
        BY <2>1, <4>3, <4>5 DEF GoodCheck
      <4>11. GoodCheck(n)'
        BY <4>6, <4>8, <4>9, <4>10 DEF GoodCheck
      <4>12. GoodReq(n)'
        BY <2>1, <3>2, <3>4, <4>5, <4>11, SameCity DEF GoodReq
      <4>13. QED
        BY <4>2, <4>12
    <3>5. QED
      BY <3>3, <3>4
  <2>5. cityReq' = [r \in CityReqs |-> cityReq'[r]]
    BY <1>9 DEF PortalChanges
  <2>6. \A k \in CityKeys : \A e \in cityCache'[k] : GoodEntry(e)'
    BY <2>1, SameCity DEF CityInv
  <2>7. Portals' = Portals
    BY <2>1, SameCity
  <2>8. QED
    BY <2>1, <2>2, <2>4, <2>5, <2>6, <2>7 DEF CityInv
<1>10. ASSUME CityTick PROVE CityInv'
  <2>1. UNCHANGED <<city, portal, cityCache, cityReq>> /\ cityNow' = cityNow + 1
    BY <1>10 DEF CityTick
  <2>2. ASSUME NEW r \in CityReqs PROVE GoodReq(cityReq[r])'
    <3>1. PICK o : o = cityReq[r]
      OBVIOUS
    <3>2. GoodReq(o)
      BY <3>1 DEF CityInv
    <3>3. ASSUME o.st = "fetching" PROVE GoodCheck(o)'
      <4>1. GoodCheck(o)
        BY <3>2, <3>3 DEF GoodReq
      <4>2. cityNow - o.born < FetchMax
        BY <1>10, <3>1, <3>3 DEF CityTick
      <4>3. cityNow \in Nat /\ FetchMax \in Nat /\ o.born \in Nat /\ o.born <= cityNow
        BY <4>1, CityAssumption DEF CityInv, GoodCheck
      <4>4. o.born <= cityNow + 1 /\ (cityNow + 1) - o.born <= FetchMax
        BY <4>2, <4>3
      <4>5. o.born <= cityNow' /\ cityNow' - o.born <= FetchMax
        BY <2>1, <4>4
      <4>6. QED
        BY <2>1, <4>1, <4>5, SameCity DEF GoodCheck
    <3>4. GoodReq(o)'
      BY <2>1, <3>2, <3>3, SameCity DEF GoodReq
    <3>5. cityReq'[r] = o
      BY <2>1, <3>1
    <3>6. QED
      BY <3>4, <3>5
  <2>3. \A k \in CityKeys : \A e \in cityCache'[k] : GoodEntry(e)'
    BY <2>1, SameCity DEF CityInv
  <2>4. cityNow' \in Nat /\ (portal \in Portals)'
    BY <2>1, SameCity DEF CityInv
  <2>5. QED
    BY <2>1, <2>2, <2>3, <2>4 DEF CityInv
<1>11. ASSUME CityRestart PROVE CityInv'
  <2>1. UNCHANGED <<city, portal, cityNow>>
    BY <1>11 DEF CityRestart
  <2>2. ASSUME NEW r \in CityReqs PROVE GoodReq(cityReq'[r])
    <3>1. cityReq'[r] = [st |-> "cut"] \/ cityReq'[r] = cityReq[r]
      BY <1>11 DEF CityRestart
    <3>2. GoodReq([st |-> "cut"]) /\ GoodReq(cityReq[r])
      BY DEF GoodReq, CityInv
    <3>3. QED
      BY <3>1, <3>2
  <2>3. \A r \in CityReqs : GoodReq(cityReq[r])'
    BY <2>1, <2>2, SameReq
  <2>4. cityCache' = [k \in CityKeys |-> {}]
    BY <1>11 DEF CityRestart
  <2>5. cityReq' = [r \in CityReqs |-> cityReq'[r]]
    BY <1>11 DEF CityRestart
  <2>6. (portal \in Portals)'
    BY <2>1, SameCity DEF CityInv
  <2>7. \A k \in CityKeys : cityCache'[k] = {}
    BY <2>4
  <2>8. cityCache' = [k \in CityKeys |-> cityCache'[k]]
    BY <2>4
  <2>9. QED
    BY <2>1, <2>3, <2>5, <2>6, <2>7, <2>8 DEF CityInv
<1>12. ASSUME UNCHANGED cityVars PROVE CityInv'
  <2>1. /\ UNCHANGED <<city, portal, cityNow>> /\ UNCHANGED <<cityCache, cityReq>>
    BY <1>12 DEF cityVars
  <2>2. \A k \in CityKeys : \A e \in cityCache'[k] : GoodEntry(e)'
    BY <2>1, SameCity DEF CityInv
  <2>3. \A r \in CityReqs : GoodReq(cityReq[r])'
    BY <2>1, SameReq DEF CityInv
  <2>4. (portal \in Portals)'
    BY <2>1, SameCity DEF CityInv
  <2>5. QED
    BY <2>1, <2>2, <2>3, <2>4 DEF CityInv
<1>13. QED
  BY <1>1, <1>2, <1>3, <1>4, <1>5, <1>6, <1>7, <1>8, <1>9, <1>10, <1>11, <1>12 DEF CityNext

\* Whatever the invariant says of a report it says of each that is cached or answered.
LEMMA ReportsGood == CityInv => \A p \in CityReports : GoodReport(p)
<1> SUFFICES ASSUME CityInv, NEW p \in CityReports PROVE GoodReport(p)
  OBVIOUS
<1>1. CASE \E k \in CityKeys : \E e \in cityCache[k] : p = e.report
  BY <1>1 DEF CityInv, GoodEntry
<1>2. CASE \E r \in CityReqs : p \in ReportsTo(r)
  BY <1>2 DEF CityInv, GoodReq, ReportsTo
<1>3. QED
  BY <1>1, <1>2 DEF CityReports

LEMMA CityInvHolds == CitySpec => []CityInv
<1>1. (\E c \in CityCodes : CityInit(c)) => CityInv
  BY CityInitInv
<1>2. QED
  BY <1>1, CityStep, PTL DEF CitySpec

\* Whatever the portals publish, answer or fail while it runs, a check of any city
\* reports no verdict that they did not warrant at some moment of it, as far as its
\* code asks them: what it leaves unasked is named where the property is defined.
THEOREM VerdictTheorem == CitySpec => []VerdictIsWarranted
<1>1. CityInv => VerdictIsWarranted
  BY ReportsGood DEF VerdictIsWarranted, GoodReport
<1>2. QED
  BY <1>1, CityInvHolds, PTL

\* However checks of an address overlap, and whichever of them is cached last, what
\* is served was asked of the portals no longer ago than the cache and a check last.
THEOREM FreshTheorem == CitySpec => []ServedIsFresh
<1>1. ASSUME CityInv, NEW r \in CityReqs, NEW i \in ReportsTo(r)
      PROVE  i.served - i.born <= CityTTL + FetchMax
  BY <1>1 DEF CityInv, GoodReq, GoodReport, ReportsTo
<1>2. CityInv => ServedIsFresh
  BY <1>1 DEF ServedIsFresh
<1>3. QED
  BY <1>2, CityInvHolds, PTL
=============================================================================

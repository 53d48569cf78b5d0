------------------------------ MODULE Finality ------------------------------
(***************************************************************************)
(* The finality check of a transaction: reads of a node, in any order and  *)
(* none of them of the same moment, compared with each other.              *)
(*                                                                         *)
(* The chain is the sequence of its blocks' birth dates.  Blocks behind    *)
(* the finalized one stay; later ones may be reorganised away, and with    *)
(* them the transaction, which may come back in another block.             *)
(***************************************************************************)
EXTENDS Integers, Sequences

CONSTANTS
    Lag,             \* how old a block is before it is finalized
    Window,          \* how long a check takes at most
    MaxHeight, FinalityMaxClock     \* bounds

\* The reads run at once with a timeout of seconds; finality takes minutes.
ASSUME FinalityAssumption ==
    /\ {Lag, Window, MaxHeight, FinalityMaxClock} \subseteq Nat
    /\ Window < Lag

VARIABLES
    clock,
    chain,
    safe, final,     \* the node's tags
    tx,              \* is it known, and its block (0: none)
    check,           \* the phase of the check and when it was asked for
    seen,            \* the reads that were answered
    rTx, rSafe, rFinal,    \* their answers
    verdict

finalityVars == <<clock, chain, safe, final, tx, check, seen, rTx, rSafe, rFinal, verdict>>
nodeVars == <<clock, chain, safe, final, tx>>
readVars == <<seen, rTx, rSafe, rFinal>>

Reads == {"tx", "safe", "finalized"}
Statuses == {"not_found", "pending", "unsafe", "safe", "finalized"}
Tallest == Len(chain)
Unmined(known) == [known |-> known, block |-> 0]
TxIsFinal == 0 < tx.block /\ tx.block <= final

FinalityInit ==
    /\ clock = 0 /\ chain = <<>> /\ safe = 0 /\ final = 0
    /\ tx = Unmined(FALSE)
    /\ check = [phase |-> "idle", since |-> 0, wasFinal |-> FALSE]
    /\ seen = {} /\ rTx = Unmined(FALSE) /\ rSafe = 0 /\ rFinal = 0
    /\ verdict = [status |-> "not_found", block |-> 0]

-----------------------------------------------------------------------------
(* The node. *)

ClockTick ==
    /\ clock < FinalityMaxClock
    /\ check.phase = "reading" => clock < check.since + Window
    /\ clock' = clock + 1
    /\ UNCHANGED <<chain, safe, final, tx, check, readVars, verdict>>

\* The transaction is broadcast, or dropped from the pool.
Pool ==
    /\ tx.block = 0
    /\ tx' = Unmined(~tx.known)
    /\ UNCHANGED <<clock, chain, safe, final, check, readVars, verdict>>

Mine ==
    /\ Tallest < MaxHeight
    /\ chain' = Append(chain, clock)
    /\ \/ UNCHANGED tx
       \/ tx.block = 0 /\ tx' = [known |-> TRUE, block |-> Tallest + 1]
    /\ UNCHANGED <<clock, safe, final, check, readVars, verdict>>

\* The blocks above h go, and a transaction in one of them may be forgotten.
Reorg(h) ==
    /\ final <= h /\ h < Tallest
    /\ chain' = SubSeq(chain, 1, h)
    /\ safe' = IF safe > h THEN h ELSE safe
    /\ IF tx.block > h THEN \E known \in BOOLEAN : tx' = Unmined(known) ELSE UNCHANGED tx
    /\ UNCHANGED <<clock, final, check, readVars, verdict>>

Attest(h) ==
    /\ safe < h /\ h <= Tallest
    /\ safe' = h
    /\ UNCHANGED <<clock, chain, final, tx, check, readVars, verdict>>

Finalize(h) ==
    /\ final < h /\ h <= safe /\ chain[h] + Lag <= clock
    /\ final' = h
    /\ UNCHANGED <<clock, chain, safe, tx, check, readVars, verdict>>

-----------------------------------------------------------------------------
(* check_finality. *)

AskFinality ==
    /\ check.phase # "reading"
    /\ check' = [phase |-> "reading", since |-> clock, wasFinal |-> TxIsFinal]
    /\ UNCHANGED <<nodeVars, readVars, verdict>>

\* The node answers one of the reads that are under way.
ReadNode(r) ==
    /\ check.phase = "reading" /\ r \notin seen
    /\ seen' = seen \cup {r}
    /\ rTx' = IF r = "tx" THEN tx ELSE rTx
    /\ rSafe' = IF r = "safe" THEN safe ELSE rSafe
    /\ rFinal' = IF r = "finalized" THEN final ELSE rFinal
    /\ UNCHANGED <<nodeVars, check, verdict>>

\* Mutant: the safe tag is taken for the finalized one.
Status_Safe(t, s, f) ==
    CASE ~t.known -> "not_found"
      [] t.known /\ t.block = 0 -> "pending"
      [] t.known /\ t.block > 0 /\ t.block <= s -> "finalized"
      [] OTHER -> "unsafe"

Status(t, s, f) ==
    CASE ~t.known -> "not_found"
      [] t.known /\ t.block = 0 -> "pending"
      [] t.known /\ t.block > 0 /\ t.block <= f -> "finalized"
      [] t.known /\ t.block > 0 /\ t.block > f /\ t.block <= s -> "safe"
      [] OTHER -> "unsafe"

\* The reads are local to the check.
ForgetReads == seen' = {} /\ rTx' = Unmined(FALSE) /\ rSafe' = 0 /\ rFinal' = 0

AnswerFinality ==
    /\ check.phase = "reading" /\ seen = Reads
    /\ verdict' = [status |-> Status(rTx, rSafe, rFinal), block |-> rTx.block]
    /\ check' = [check EXCEPT !.phase = "answered"]
    /\ ForgetReads
    /\ UNCHANGED nodeVars

\* One of the reads raises or times out, and with it the check.
FinalityRaises ==
    /\ check.phase = "reading" /\ seen # Reads
    /\ check' = [check EXCEPT !.phase = "raised"]
    /\ ForgetReads
    /\ UNCHANGED <<nodeVars, verdict>>

FinalityNext ==
    \/ ClockTick \/ Pool \/ Mine
    \/ \E h \in 0 .. MaxHeight : Reorg(h) \/ Attest(h) \/ Finalize(h)
    \/ AskFinality \/ (\E r \in Reads : ReadNode(r)) \/ AnswerFinality \/ FinalityRaises

FinalitySpec == FinalityInit /\ [][FinalityNext]_finalityVars

-----------------------------------------------------------------------------
(* Properties. *)

\* A transaction said to be final is final, in the block that was named, from the
\* answer on, though its block was read at one moment and the finalized tag at
\* another with reorganisations between them; and one that was final when the
\* check was asked for is said to be.
FinalizedIsFinal ==
    check.phase = "answered" =>
        /\ verdict.status = "finalized" => TxIsFinal /\ tx.block = verdict.block
        /\ check.wasFinal => verdict.status = "finalized"
=============================================================================

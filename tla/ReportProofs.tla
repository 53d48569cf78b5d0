---------------------------- MODULE ReportProofs ----------------------------
(***************************************************************************)
(* What is reported of the chain and of the sales is true: a transaction   *)
(* said to be final is, for every lag, window and height; the ceiling of a *)
(* fee advice holds, for every course of the fees; the funnel and the      *)
(* revenue reports agree with the ledger, for any resources, payers and    *)
(* configuration; and what the verifier accepts both of its witnesses have *)
(* said, for any topics, answers and validators.                           *)
(*                                                                         *)
(* Finality: when the transaction was read in block b, it is still there,  *)
(* or b is gone, or the block now at b was mined since the check was asked *)
(* for.  A block of the last kind is too young to be finalized before the  *)
(* check ends, for it ends within a window that is shorter than the lag.   *)
(*                                                                         *)
(* Fees: the base fee grows by an eighth per block at most, or by one wei, *)
(* so that twice the reported fee covers five full blocks unless reporting *)
(* rounds a large part of the fee away; and the verdicts that tell a       *)
(* flexible sender to go are those of blocks at or below their target.     *)
(*                                                                         *)
(* Sales: the rows have rising stamps, so that counting rows is counting   *)
(* sales, and a look that is counted in the views is used by one sale.     *)
(*                                                                         *)
(* The verifier: a claim is in the first group that it fits, and fits the  *)
(* one that a claim of its topic began, so that the two are in one group;  *)
(* an aligned group has both authors and one sign.                         *)
(***************************************************************************)
EXTENDS Finality, FeePulse, Demand, Qma, FoldLemmas, SequenceTheorems, TLAPS

-----------------------------------------------------------------------------
(* Finality. *)

\* The values the variables take; reads are outstanding only in a check.
FinalityTypeOK ==
    /\ clock \in Nat
    /\ chain \in Seq(Nat)
    /\ safe \in Nat /\ final \in Nat
    /\ tx \in [known : BOOLEAN, block : Nat]
    /\ check \in [phase : {"idle", "reading", "answered", "raised"}, since : Nat,
                  wasFinal : BOOLEAN]
    /\ seen \subseteq Reads
    /\ rTx \in [known : BOOLEAN, block : Nat]
    /\ rSafe \in Nat /\ rFinal \in Nat
    /\ check.phase # "reading" => seen = {}
    /\ verdict \in [status : Statuses, block : Nat]

\* The node: tags in order, a mined transaction is known and on the chain,
\* births are sorted and
\* finalized blocks old.
NodeInv ==
    /\ final <= safe /\ safe <= Tallest
    /\ tx.block <= Tallest
    /\ tx.block > 0 => tx.known
    /\ \A i, j \in 1 .. Tallest : i <= j => chain[i] <= chain[j]
    /\ \A i \in 1 .. Tallest : chain[i] <= clock
    /\ \A h \in 1 .. final : chain[h] + Lag <= clock

\* The reads under way: what was read may be old, but not in a way that matters.
ReadInv ==
    check.phase = "reading" =>
        /\ check.since <= clock /\ clock <= check.since + Window
        /\ "finalized" \in seen => rFinal <= final
        /\ "tx" \in seen /\ rTx.block > 0 =>
              \/ tx.block = rTx.block
              \/ rTx.block > Tallest
              \/ chain[rTx.block] >= check.since
        /\ check.wasFinal =>
              /\ TxIsFinal
              /\ "tx" \in seen => rTx = tx
              /\ "finalized" \in seen => tx.block <= rFinal

FinalityInv == FinalityTypeOK /\ NodeInv /\ ReadInv /\ FinalizedIsFinal

-----------------------------------------------------------------------------
\* The constants are numbers.
LEMMA FinalityConstants ==
  Lag \in Nat /\ Window \in Nat /\ MaxHeight \in Nat /\ Window < Lag
  BY FinalityAssumption

\* A block below the finalized one is not one that was mined during the check.
LEMMA ReadFinalStays ==
    ASSUME FinalityTypeOK, NodeInv, ReadInv, check.phase = "reading", seen = Reads,
           rTx.block > 0, rTx.block <= rFinal
    PROVE  tx.block = rTx.block /\ TxIsFinal
<1>1. rTx.block <= final
  BY DEF FinalityTypeOK, ReadInv, Reads
<1>2. ~(rTx.block > Tallest)
  BY <1>1 DEF FinalityTypeOK, NodeInv, Tallest
<1>3. chain[rTx.block] + Lag <= clock
  BY <1>1 DEF FinalityTypeOK, NodeInv
<1>4. chain[rTx.block] \in Nat
  BY <1>1, <1>2 DEF FinalityTypeOK, Tallest
<1>5. ~(chain[rTx.block] >= check.since)
  BY <1>3, <1>4, FinalityAssumption DEF FinalityTypeOK, ReadInv
<1>6. QED
  BY <1>1, <1>2, <1>5 DEF FinalityTypeOK, ReadInv, Reads, TxIsFinal

LEMMA FinalityInitInv == FinalityInit => FinalityInv
  BY FinalityAssumption DEF FinalityInit, FinalityInv, FinalityTypeOK, NodeInv, ReadInv,
     FinalizedIsFinal, Unmined, Statuses, Reads, Tallest, TxIsFinal

\* The steps of the node keep the invariant.
LEMMA ClockTickInv == ASSUME FinalityInv, ClockTick PROVE FinalityInv'
<1> USE DEF FinalityInv, ClockTick, readVars
<1>1. FinalityTypeOK'
  BY DEF FinalityTypeOK
<1>2. NodeInv'
  <2>1. \A h \in 1 .. final : chain[h] \in Nat
    BY DEF FinalityTypeOK, NodeInv, Tallest
  <2>2. \A i \in 1 .. Tallest : chain[i] \in Nat
    BY DEF FinalityTypeOK, Tallest
  <2>3. clock' = clock + 1 /\ clock \in Nat /\ Lag \in Nat
    BY FinalityConstants DEF FinalityTypeOK
  <2>4. \A h \in 1 .. final : chain[h] + Lag <= clock'
    BY <2>1, <2>3 DEF NodeInv
  <2>5. \A i \in 1 .. Tallest : chain[i] <= clock'
    BY <2>2, <2>3 DEF NodeInv
  <2> QED
    BY <2>4, <2>5 DEF NodeInv, Tallest
<1>3. ReadInv'
  BY FinalityConstants DEF FinalityTypeOK, ReadInv, Tallest, TxIsFinal
<1>4. FinalizedIsFinal'
  BY DEF FinalizedIsFinal, TxIsFinal
<1> QED
  BY <1>1, <1>2, <1>3, <1>4

LEMMA PoolInv == FinalityInv /\ Pool => FinalityInv'
  BY DEF FinalityInv, Pool, readVars, FinalityTypeOK, NodeInv, ReadInv,
     FinalizedIsFinal, Unmined, Tallest, TxIsFinal

LEMMA MineInv == FinalityInv /\ Mine => FinalityInv'
<1> SUFFICES ASSUME FinalityInv, Mine PROVE FinalityInv'
  OBVIOUS
<1> USE DEF FinalityInv, Mine, readVars
<1>1. /\ Len(chain') = Len(chain) + 1 /\ chain'[Len(chain) + 1] = clock
      /\ \A h \in 1 .. Len(chain) : chain'[h] = chain[h]
      /\ chain' \in Seq(Nat)
  BY DEF FinalityTypeOK
<1>2. FinalityTypeOK'
  <2>1. CASE UNCHANGED tx
    BY <1>1, <2>1 DEF FinalityTypeOK
  <2>2. CASE tx' = [known |-> TRUE, block |-> Len(chain) + 1]
    <3>1. Len(chain) + 1 \in Nat
      BY DEF FinalityTypeOK
    <3>2. tx' \in [known : BOOLEAN, block : Nat]
      BY <2>2, <3>1
    <3> QED
      BY <1>1, <3>2 DEF FinalityTypeOK
  <2> QED
    BY <2>1, <2>2 DEF Tallest
<1>3. NodeInv'
  <2>1. /\ final <= Len(chain) /\ safe <= Len(chain)
        /\ \A i \in 1 .. Len(chain) : chain[i] \in Nat /\ chain[i] <= clock
    BY DEF FinalityTypeOK, NodeInv, Tallest
  <2>2. tx'.block <= Len(chain') /\ (tx'.block > 0 => tx'.known)
    BY <1>1 DEF FinalityTypeOK, NodeInv, Tallest
  <2>3. \A i \in 1 .. Len(chain') : i <= Len(chain) \/ i = Len(chain) + 1
    BY <1>1 DEF FinalityTypeOK
  <2>4. \A i \in 1 .. Len(chain') : chain'[i] <= clock
    BY <1>1, <2>1, <2>3 DEF FinalityTypeOK
  <2>5. \A i, j \in 1 .. Len(chain') : i <= j => chain'[i] <= chain'[j]
    <3> SUFFICES ASSUME NEW i \in 1 .. Len(chain'), NEW j \in 1 .. Len(chain'), i <= j
                 PROVE  chain'[i] <= chain'[j]
      OBVIOUS
    <3>1. CASE j = Len(chain) + 1
      BY <1>1, <2>4, <3>1
    <3>2. CASE j <= Len(chain)
      BY <1>1, <3>2 DEF NodeInv, Tallest, FinalityTypeOK
    <3> QED
      BY <2>3, <3>1, <3>2
  <2>6. \A h \in 1 .. final : chain'[h] + Lag <= clock
    BY <1>1, <2>1 DEF NodeInv, FinalityTypeOK
  <2> QED
    BY <1>1, <2>1, <2>2, <2>4, <2>5, <2>6 DEF FinalityTypeOK, NodeInv, Tallest
<1>4. ReadInv'
  <2>1. TxIsFinal => tx' = tx /\ TxIsFinal'
    BY DEF TxIsFinal, FinalityTypeOK
  <2>2. tx.block > 0 => tx' = tx
    BY DEF FinalityTypeOK
  <2> SUFFICES ASSUME check.phase = "reading" PROVE ReadInv'
    BY DEF ReadInv
  <2>3. "tx" \in seen /\ rTx.block > 0 =>
              \/ tx'.block = rTx.block
              \/ rTx.block > Len(chain')
              \/ chain'[rTx.block] >= check.since
    <3> SUFFICES ASSUME "tx" \in seen, rTx.block > 0, rTx.block <= Len(chain')
                 PROVE  tx'.block = rTx.block \/ chain'[rTx.block] >= check.since
      BY <1>1 DEF FinalityTypeOK
    <3>1. CASE rTx.block = Len(chain) + 1
      BY <1>1, <3>1 DEF ReadInv, FinalityTypeOK
    <3>2. CASE rTx.block <= Len(chain)
      BY <1>1, <2>2, <3>2 DEF ReadInv, FinalityTypeOK, Tallest
    <3> QED
      BY <1>1, <3>1, <3>2 DEF FinalityTypeOK
  <2> QED
    BY <1>1, <2>1, <2>3 DEF ReadInv, Tallest
<1>5. FinalizedIsFinal'
  BY DEF FinalizedIsFinal, TxIsFinal, FinalityTypeOK
<1> QED
  BY <1>2, <1>3, <1>4, <1>5

\* A reorganisation leaves what is final alone.
LEMMA ReorgInv == ASSUME FinalityInv, NEW h \in 0 .. MaxHeight, Reorg(h) PROVE FinalityInv'
<1> USE DEF FinalityInv, Reorg, readVars
<1>0. h \in Nat /\ h < Len(chain)
  BY FinalityAssumption DEF FinalityTypeOK, Tallest
<1>1. /\ Len(chain') = h /\ chain' \in Seq(Nat)
      /\ \A i \in 1 .. h : chain'[i] = chain[i]
  BY <1>0, SubSeqProperties, h <= Len(chain) DEF FinalityTypeOK
<1>2. FinalityTypeOK'
  BY <1>0, <1>1 DEF FinalityTypeOK, Unmined
<1>3. TxIsFinal => tx' = tx /\ TxIsFinal'
  BY <1>0 DEF TxIsFinal, FinalityTypeOK
<1>4. NodeInv'
  <2>1. final <= safe' /\ safe' <= h /\ final <= h
    BY <1>0 DEF FinalityTypeOK, NodeInv, Tallest
  <2>2. tx'.block <= h /\ (tx'.block > 0 => tx'.known)
    BY <1>0 DEF FinalityTypeOK, NodeInv, Tallest, Unmined
  <2>3. \A i \in 1 .. h : chain'[i] = chain[i] /\ i \in 1 .. Len(chain)
    BY <1>0, <1>1 DEF FinalityTypeOK
  <2>4. \A i \in 1 .. final : i \in 1 .. h
    BY <1>0, <2>1 DEF FinalityTypeOK
  <2>5. \A i, j \in 1 .. h : i <= j => chain'[i] <= chain'[j]
    BY <2>3 DEF NodeInv, Tallest
  <2>6. \A i \in 1 .. h : chain'[i] <= clock
    BY <2>3 DEF NodeInv, Tallest
  <2>7. \A i \in 1 .. final : chain'[i] + Lag <= clock
    BY <2>3, <2>4 DEF NodeInv
  <2> QED
    BY <1>1, <2>1, <2>2, <2>5, <2>6, <2>7 DEF NodeInv, Tallest
<1>5. ReadInv'
  BY <1>0, <1>1, <1>3 DEF FinalityTypeOK, ReadInv, Tallest, Unmined
<1>6. FinalizedIsFinal'
  BY <1>3 DEF FinalizedIsFinal
<1> QED
  BY <1>2, <1>4, <1>5, <1>6

LEMMA AttestInv == ASSUME FinalityInv, NEW h \in 0 .. MaxHeight, Attest(h) PROVE FinalityInv'
<1> USE DEF FinalityInv, Attest
<1>1. /\ UNCHANGED <<clock, chain, final, tx, check, seen, rTx, rSafe, rFinal, verdict>>
      /\ safe' = h /\ safe < h /\ h <= Tallest
  BY DEF readVars
<1>2. h \in Nat
  BY FinalityConstants
<1>3. FinalityTypeOK'
  BY <1>1, <1>2 DEF FinalityTypeOK
<1>4. NodeInv'
  <2>1. final <= safe'
    BY <1>1, <1>2 DEF FinalityTypeOK, NodeInv
  <2>2. QED
    BY <1>1, <2>1 DEF NodeInv, Tallest
<1>5. ReadInv' /\ FinalizedIsFinal'
  BY <1>1 DEF ReadInv, Tallest, TxIsFinal, FinalizedIsFinal
<1>6. QED
  BY <1>3, <1>4, <1>5

\* Blocks become final in the order of their height.  The births of the chain
\* are sorted, so that a block below an old one is old.
LEMMA FinalizeInv == ASSUME FinalityInv, NEW h \in 0 .. MaxHeight, Finalize(h) PROVE FinalityInv'
<1> USE DEF FinalityInv, Finalize, readVars
<1>1. h \in Nat /\ h <= Len(chain)
  <2>1. safe <= Len(chain) /\ h <= safe /\ safe \in Nat /\ Len(chain) \in Nat
    BY DEF FinalityTypeOK, NodeInv, Tallest
  <2>2. h \in Nat
    BY FinalityConstants
  <2>3. QED
    BY <2>1, <2>2
<1>2. FinalityTypeOK'
  BY <1>1 DEF FinalityTypeOK
<1>3. \A i \in 1 .. h : chain[i] + Lag <= clock
  <2> SUFFICES ASSUME NEW i \in 1 .. h PROVE chain[i] + Lag <= clock
    OBVIOUS
  <2>1. chain[i] \in Nat /\ chain[h] \in Nat /\ chain[i] <= chain[h]
    <3>1. i \in 1 .. Len(chain) /\ h \in 1 .. Len(chain) /\ i <= h
      BY <1>1 DEF FinalityTypeOK
    <3> QED
      BY <3>1 DEF FinalityTypeOK, NodeInv, Tallest
  <2>2. chain[h] + Lag <= clock
    OBVIOUS
  <2>3. clock \in Nat /\ Lag \in Nat
    BY FinalityConstants DEF FinalityTypeOK
  <2> QED
    BY <2>1, <2>2, <2>3
<1>4. NodeInv'
  BY <1>1, <1>3 DEF FinalityTypeOK, NodeInv, Tallest
<1>5. TxIsFinal => TxIsFinal'
  BY <1>1 DEF TxIsFinal, FinalityTypeOK
<1>6. ReadInv'
  BY <1>1, <1>5 DEF FinalityTypeOK, ReadInv, Tallest
<1>7. FinalizedIsFinal'
  BY <1>5 DEF FinalizedIsFinal
<1> QED
  BY <1>2, <1>4, <1>6, <1>7

\* The steps of the check keep the invariant.
LEMMA AskInv == ASSUME FinalityInv, AskFinality PROVE FinalityInv'
<1> USE DEF FinalityInv, AskFinality, readVars, nodeVars
<1>0. PICK b \in BOOLEAN : b = TxIsFinal
  BY DEF TxIsFinal
<1>1. check' = [phase |-> "reading", since |-> clock, wasFinal |-> b]
  BY <1>0
<1>2. FinalityTypeOK' /\ NodeInv'
  BY <1>1 DEF FinalityTypeOK, NodeInv, Tallest
<1>3. ReadInv'
  <2>1. seen' = {} /\ check'.wasFinal = TxIsFinal /\ check'.since = clock
    BY DEF FinalityTypeOK
  <2>2. clock' = clock /\ clock <= clock + Window
    BY FinalityConstants DEF FinalityTypeOK
  <2>3. TxIsFinal' <=> TxIsFinal
    BY DEF TxIsFinal
  <2> QED
    BY <2>1, <2>2, <2>3 DEF ReadInv, FinalityTypeOK
<1>4. FinalizedIsFinal'
  BY DEF FinalizedIsFinal
<1> QED
  BY <1>2, <1>3, <1>4

LEMMA ReadNodeInv == ASSUME FinalityInv, NEW r \in Reads, ReadNode(r) PROVE FinalityInv'
<1> USE DEF FinalityInv, ReadNode, nodeVars
<1>1. FinalityTypeOK'
  BY DEF FinalityTypeOK, Tallest
<1>2. NodeInv'
  BY DEF NodeInv, Tallest
<1>3. ReadInv'
  BY DEF FinalityTypeOK, ReadInv, Reads, Tallest, TxIsFinal
<1>4. FinalizedIsFinal'
  BY DEF FinalizedIsFinal
<1> QED
  BY <1>1, <1>2, <1>3, <1>4

LEMMA AnswerInv == ASSUME FinalityInv, AnswerFinality PROVE FinalityInv'
<1> USE DEF FinalityInv, AnswerFinality, nodeVars
<1>1. FinalityTypeOK'
  BY DEF FinalityTypeOK, ForgetReads, Unmined, Reads, Status, Statuses
<1>2. NodeInv'
  BY DEF NodeInv, Tallest
<1>3. ReadInv'
  BY DEF ReadInv, FinalityTypeOK
<1>4. ASSUME verdict'.status = "finalized" PROVE TxIsFinal /\ tx.block = verdict'.block
  <2>1. rTx.block > 0 /\ rTx.block <= rFinal
    BY <1>4 DEF Status
  <2> QED
    BY <2>1, ReadFinalStays
<1>5. ASSUME check.wasFinal PROVE verdict'.status = "finalized"
  <2>1. rTx = tx /\ TxIsFinal /\ tx.block <= rFinal /\ tx.known
    BY <1>5 DEF ReadInv, Reads, NodeInv, TxIsFinal, FinalityTypeOK
  <2> QED
    BY <2>1 DEF Status, TxIsFinal, FinalityTypeOK
<1>6. FinalizedIsFinal'
  BY <1>4, <1>5 DEF FinalizedIsFinal, TxIsFinal, FinalityTypeOK
<1> QED
  BY <1>1, <1>2, <1>3, <1>6

LEMMA RaisesInv == ASSUME FinalityInv, FinalityRaises PROVE FinalityInv'
  BY DEF FinalityInv, FinalityRaises, nodeVars, ForgetReads, FinalityTypeOK, NodeInv, ReadInv,
     FinalizedIsFinal, Unmined, Reads, Tallest, TxIsFinal

-----------------------------------------------------------------------------
\* What a check says of a finalized transaction is true from the answer on,
\* whatever was reorganised between its reads.
THEOREM FinalityTheorem == FinalitySpec => []FinalizedIsFinal
<1>1. FinalityInit => FinalityInv
  BY FinalityInitInv
<1>2. FinalityInv /\ [FinalityNext]_finalityVars => FinalityInv'
  <2> SUFFICES ASSUME FinalityInv, [FinalityNext]_finalityVars PROVE FinalityInv'
    OBVIOUS
  <2>1. CASE ClockTick
    BY <2>1, ClockTickInv
  <2>2. CASE Pool
    BY <2>2, PoolInv
  <2>3. CASE Mine
    BY <2>3, MineInv
  <2>4. ASSUME NEW h \in 0 .. MaxHeight, Reorg(h) PROVE FinalityInv'
    BY <2>4, ReorgInv
  <2>5. ASSUME NEW h \in 0 .. MaxHeight, Attest(h) PROVE FinalityInv'
    BY <2>5, AttestInv
  <2>6. ASSUME NEW h \in 0 .. MaxHeight, Finalize(h) PROVE FinalityInv'
    BY <2>6, FinalizeInv
  <2>7. CASE AskFinality
    BY <2>7, AskInv
  <2>8. ASSUME NEW r \in Reads, ReadNode(r) PROVE FinalityInv'
    BY <2>8, ReadNodeInv
  <2>9. CASE AnswerFinality
    BY <2>9, AnswerInv
  <2>10. CASE FinalityRaises
    BY <2>10, RaisesInv
  <2>11. CASE UNCHANGED finalityVars
    BY <2>11 DEF FinalityInv, finalityVars, FinalityTypeOK, NodeInv, ReadInv, FinalizedIsFinal,
       Tallest, TxIsFinal
  <2> QED
    BY <2>1, <2>2, <2>3, <2>4, <2>5, <2>6, <2>7, <2>8, <2>9, <2>10, <2>11 DEF FinalityNext
<1>3. FinalityInv => FinalizedIsFinal
  BY DEF FinalityInv
<1> QED
  BY <1>1, <1>2, <1>3, PTL DEF FinalitySpec

-----------------------------------------------------------------------------
(* The fee advice. *)

FeeSpec == FeeInit /\ [][FeeNext]_feeVars

\* No fee is within what reporting rounds away.  Every block's fee is on record, so that
\* this is about the past as well.
FeesLarge == \A h \in 1 .. Height : fees[h] >= 8 * Unit

LEMMA ShareIsLess ==
    ASSUME NEW fee \in Nat, NEW k \in 0 .. 50
    PROVE  (fee * k) \div 50 \in 0 .. fee
<1>1. fee * k \in Nat /\ fee * (50 - k) \in Nat
  OBVIOUS
<1>2. fee * (50 - k) = fee * 50 - fee * k
  OBVIOUS
<1>3. PICK p \in Nat : p = fee * k
  BY <1>1
<1>4. p <= fee * 50
  BY <1>1, <1>2, <1>3
<1>5. p \div 50 \in 0 .. fee
  BY <1>4
<1>6. QED
  BY <1>3, <1>5

\* A block moves the fee by an eighth at most, and down behind a block that is not full.
LEMMA NextFeeIs ==
    ASSUME NEW fee \in Nat, NEW fill \in 0 .. 100
    PROVE  /\ NextFee(fee, fill) \in Nat
           /\ fee >= 8 => 8 * NextFee(fee, fill) <= 9 * fee
           /\ fill < 50 => NextFee(fee, fill) <= fee
<1>1. CASE fill > 50
  <2>1. (fee * (fill - 50)) \div 50 \in 0 .. fee
    <3>1. fill - 50 \in 0 .. 50
      BY <1>1
    <3>2. PICK k \in 0 .. 50 : k = fill - 50
      BY <3>1
    <3>3. (fee * k) \div 50 \in 0 .. fee
      BY ShareIsLess
    <3>4. QED
      BY <3>2, <3>3
  <2>2. PICK x \in 0 .. fee : x = (fee * (fill - 50)) \div 50
    BY <2>1
  <2>3. NextFee(fee, fill) = fee + Maximal(x \div 8, 1)
    BY <1>1, <2>2 DEF NextFee, Target, Denominator
  <2>4. x \div 8 \in Nat /\ 8 * (x \div 8) <= fee
    BY <2>2
  <2>5. QED
    BY <1>1, <2>3, <2>4 DEF Maximal
<1>2. CASE ~(fill > 50)
  <2>1. (fee * (50 - fill)) \div 50 \in 0 .. fee
    <3>1. PICK k \in 0 .. 50 : k = 50 - fill
      BY <1>2
    <3>2. (fee * k) \div 50 \in 0 .. fee
      BY ShareIsLess
    <3>3. QED
      BY <3>1, <3>2
  <2>2. PICK x \in 0 .. fee : x = (fee * (50 - fill)) \div 50
    BY <2>1
  <2>3. NextFee(fee, fill) = fee - x \div 8
    BY <1>2, <2>2 DEF NextFee, Target, Denominator
  <2>4. x \div 8 \in 0 .. fee
    BY <2>2
  <2>5. QED
    BY <2>3, <2>4
<1>3. QED
  BY <1>1, <1>2

\* Twice the reported fee is more than what five full blocks make of it.
LEMMA ReportedIs ==
    ASSUME NEW fee \in Nat, fee >= 8 * Unit
    PROVE  Reported(fee) \in Nat /\ 32768 * (2 * Reported(fee)) >= 59049 * fee
<1>1. Unit \in Nat \ {0}
  BY FeeAssumption
<1>2. PICK a \in Nat : a = 2 * fee + Unit
  BY <1>1
<1>3. PICK q \in Nat : q = a \div (2 * Unit)
  BY <1>1, <1>2
<1>4. a < (2 * Unit) * (q + 1)
  BY <1>1, <1>2, <1>3
<1>5. PICK m \in Nat : m = q * Unit
  BY <1>1, <1>3
<1>6. (2 * Unit) * (q + 1) = 2 * m + 2 * Unit
  BY <1>1, <1>3, <1>5
<1>7. 2 * m > 2 * fee - Unit
  BY <1>1, <1>2, <1>4, <1>6
<1>8. Reported(fee) = m
  BY <1>2, <1>3, <1>5 DEF Reported
<1>9. 8 * Unit <= fee
  OBVIOUS
<1>10. QED
  BY <1>1, <1>7, <1>8, <1>9

LEMMA ReportedNat == ASSUME NEW fee \in Nat PROVE Reported(fee) \in Nat
<1>1. Unit \in Nat \ {0}
  BY FeeAssumption
<1>2. PICK a \in Nat : a = 2 * fee + Unit
  BY <1>1
<1>3. PICK q \in Nat : q = a \div (2 * Unit)
  BY <1>1, <1>2
<1>4. q * Unit \in Nat
  BY <1>1
<1>5. QED
  BY <1>2, <1>3, <1>4 DEF Reported

-----------------------------------------------------------------------------
\* What is read of the chain, and how old it may be.
ChainOK ==
    /\ fees \in Seq(Nat) /\ fills \in Seq(0 .. 100) /\ tip \in Nat
    /\ Len(fills) = Height /\ Height >= 1
    /\ \A h \in 1 .. Height : h < Height => fees[h + 1] = NextFee(fees[h], fills[h])

ReportOK(r) ==
    /\ r.asOf \in 1 .. Height /\ r.fee = fees[r.asOf] /\ r.tip \in Nat
    /\ Len(r.series) \in Nat /\ r.series[Len(r.series)] = fills[r.asOf]

SnapOK ==
    /\ lock # Free => lock.asOf \in 1 .. Height /\ Height <= lock.asOf + FetchBlocks
    /\ snap # NoSnap => /\ ReportOK(snap.report) /\ snap.at \in Nat
                        /\ snap.at <= snap.report.asOf + FetchBlocks

AdviceOK(d) ==
    /\ d.asOf \in 1 .. Height /\ d.base = fees[d.asOf]
    /\ d.at \in Nat /\ d.at < d.asOf + FetchBlocks + Maximal(SnapTTL, 1)
    /\ d.max \in Nat /\ d.max >= 2 * Reported(d.base)
    /\ d.submit /\ d.urgency = "flexible" => fills[d.asOf] < 50

LEMMA ChainIn ==
    ASSUME ChainOK
    PROVE  /\ Height \in Nat /\ Height \in 1 .. Height
           /\ \A i \in 1 .. Height : fees[i] \in Nat /\ fills[i] \in 0 .. 100
<1>1. /\ fees \in Seq(Nat) /\ fills \in Seq(0 .. 100)
      /\ Height = Len(fees) /\ Height = Len(fills) /\ Height >= 1
  BY DEF ChainOK, Height
<1>2. \A i \in 1 .. Len(fees) : fees[i] \in Nat
  BY <1>1, ElementOfSeq
<1>3. \A i \in 1 .. Len(fills) : fills[i] \in 0 .. 100
  BY <1>1, ElementOfSeq
<1>4. Len(fees) \in Nat
  BY <1>1
<1>5. QED
  BY <1>1, <1>2, <1>3, <1>4

FeeInv == ChainOK /\ SnapOK /\ \A d \in advice : AdviceOK(d)

LEMMA FeeInitInv == FeeInit => FeeInv
<1> SUFFICES ASSUME FeeInit PROVE FeeInv
  OBVIOUS
<1>1. PICK f \in FirstFees, u \in Fills : fees = <<f>> /\ fills = <<u>>
  BY DEF FeeInit
<1>2. f \in Nat /\ u \in 0 .. 100 /\ tip \in Nat
  BY FeeAssumption DEF FeeInit
<1>3. ChainOK
  BY <1>1, <1>2 DEF ChainOK, Height
<1>4. QED
  BY <1>3 DEF FeeInit, FeeInv, SnapOK

\* What was right of the chain stays right when it grows.
LEMMA BlockKeeps ==
    ASSUME FeeInv, NewBlock
    PROVE  FeeInv'
<1>1. /\ fees' = Append(fees, NextFee(fees[Height], fills[Height]))
      /\ \E u \in Fills : fills' = Append(fills, u)
      /\ tip' \in Tips /\ UNCHANGED <<snap, lock, asker, advice>>
      /\ lock # Free => Height < lock.asOf + FetchBlocks
  BY DEF NewBlock
<1>2. PICK u \in Fills : fills' = Append(fills, u)
  BY <1>1
<1>3. u \in 0 .. 100 /\ tip' \in Nat /\ FetchBlocks \in Nat
  BY <1>1, FeeAssumption
<1>4. /\ fees \in Seq(Nat) /\ fills \in Seq(0 .. 100) /\ Len(fills) = Height /\ Height >= 1
      /\ Height \in Nat
      /\ \A h \in 1 .. Height : h < Height => fees[h + 1] = NextFee(fees[h], fills[h])
  BY DEF FeeInv, ChainOK, Height
<1>5. fees[Height] \in Nat /\ fills[Height] \in 0 .. 100
  BY ChainIn DEF FeeInv
<1>6. PICK n \in Nat : n = NextFee(fees[Height], fills[Height])
  BY <1>5, NextFeeIs
<1>7. /\ fees' \in Seq(Nat) /\ Len(fees') = Height + 1 /\ fees'[Height + 1] = n
      /\ \A h \in 1 .. Height : fees'[h] = fees[h]
  BY <1>1, <1>4, <1>6 DEF Height
<1>8. /\ fills' \in Seq(0 .. 100) /\ Len(fills') = Height + 1
      /\ \A h \in 1 .. Height : fills'[h] = fills[h]
  BY <1>2, <1>3, <1>4 DEF Height
<1>9. Height' = Height + 1
  BY <1>7 DEF Height
<1>10. ChainOK'
  <2>1. ASSUME NEW h \in 1 .. Height', h < Height'
        PROVE  fees'[h + 1] = NextFee(fees'[h], fills'[h])
    <3>1. h \in 1 .. Height /\ fees'[h] = fees[h] /\ fills'[h] = fills[h]
      BY <1>4, <1>7, <1>8, <1>9, <2>1
    <3>2. CASE h = Height
      BY <1>6, <1>7, <3>1, <3>2
    <3>3. CASE h # Height
      <4>1. h < Height /\ h + 1 \in 1 .. Height
        BY <1>4, <3>1, <3>3
      <4>2. QED
        BY <1>4, <1>7, <3>1, <4>1
    <3>4. QED
      BY <3>2, <3>3
  <2>2. QED
    BY <1>3, <1>4, <1>7, <1>8, <1>9, <2>1 DEF ChainOK
<1>11. \A h \in 1 .. Height : h \in 1 .. Height'
  BY <1>4, <1>9
<1>12. SnapOK'
  <2>1. ASSUME lock' # Free PROVE lock'.asOf \in 1 .. Height' /\ Height' <= lock'.asOf + FetchBlocks
    <3>1. lock' = lock /\ lock # Free
      BY <1>1, <2>1
    <3>2. lock.asOf \in 1 .. Height /\ Height < lock.asOf + FetchBlocks
      BY <1>1, <3>1 DEF FeeInv, SnapOK
    <3>3. QED
      BY <1>3, <1>4, <1>9, <3>1, <3>2
  <2>2. ASSUME snap' # NoSnap
        PROVE  ReportOK(snap.report)' /\ snap'.at \in Nat /\ snap'.at <= snap'.report.asOf + FetchBlocks
    <3>1. snap' = snap /\ snap # NoSnap
      BY <1>1, <2>2
    <3>2. ReportOK(snap.report) /\ snap.at \in Nat /\ snap.at <= snap.report.asOf + FetchBlocks
      BY <3>1 DEF FeeInv, SnapOK
    <3>3. ReportOK(snap.report)'
      BY <1>7, <1>8, <1>11, <3>1, <3>2 DEF ReportOK
    <3>4. QED
      BY <3>1, <3>2, <3>3
  <2>3. QED
    BY <2>1, <2>2 DEF SnapOK
<1>13. ASSUME NEW d \in advice' PROVE AdviceOK(d)'
  <2>1. AdviceOK(d)
    BY <1>1 DEF FeeInv
  <2>2. QED
    BY <1>7, <1>8, <1>11, <2>1 DEF AdviceOK
<1>14. QED
  BY <1>10, <1>12, <1>13 DEF FeeInv

\* The advice of a report that is not older than a fetch and a lifetime.
LEMMA DecideIs ==
    ASSUME FeeInv, NEW r, ReportOK(r), Height < r.asOf + FetchBlocks + Maximal(SnapTTL, 1),
           NEW urgency
    PROVE  AdviceOK(Decide(r, urgency))
<1> DEFINE d == Decide(r, urgency)
<1>1. /\ d.at = Height /\ d.asOf = r.asOf /\ d.urgency = urgency /\ d.max = MaxFee(r)
      /\ d.base = r.fee /\ d.submit = Submit(urgency, Verdict(r.series))
  BY DEF Decide
<1>2. /\ r.asOf \in 1 .. Height /\ r.fee = fees[r.asOf] /\ r.tip \in Nat
      /\ r.series[Len(r.series)] = fills[r.asOf]
  BY DEF ReportOK
<1>3. Height \in Nat /\ r.fee \in Nat /\ fills[r.asOf] \in 0 .. 100
  BY <1>2 DEF FeeInv, ChainOK, Height
<1>4. PICK x \in Nat, y \in Nat : x = Reported(r.fee) /\ y = Reported(r.tip)
  BY <1>2, <1>3, ReportedNat
<1>5. d.max \in Nat /\ d.max >= 2 * Reported(d.base)
  BY <1>1, <1>4 DEF MaxFee
<1>6. ASSUME d.submit, urgency = "flexible" PROVE fills[d.asOf] < 50
  <2>1. Verdict(r.series) = "SETTLE_NOW"
    BY <1>1, <1>6 DEF Submit
  <2>2. Calm(fills[r.asOf])
    <3>1. PICK now : now = r.series[Len(r.series)]
      OBVIOUS
    <3>2. PICK tightening \in BOOLEAN : tightening = (Trend(r.series) = "rising" /\ now > 55)
      OBVIOUS
    <3>3. Verdict(r.series) =
             CASE Calm(now) /\ ~tightening -> "SETTLE_NOW"
               [] tightening \/ Congestion(now) = "elevated" -> "SETTLE_SOON"
               [] OTHER -> "HOLD_IF_FLEXIBLE"
      BY <3>1, <3>2 DEF Verdict
    <3>4. Calm(now)
      BY <2>1, <3>3
    <3>5. QED
      BY <1>2, <3>1, <3>4
  <2>3. fills[r.asOf] < 50
    BY <1>3, <2>2 DEF Calm, Congestion
  <2>4. QED
    BY <1>1, <2>3
<1> HIDE DEF d
<1>7. AdviceOK(d)
  BY <1>1, <1>2, <1>3, <1>5, <1>6 DEF AdviceOK
<1>8. QED
  BY <1>7 DEF d

LEMMA AnswerKeeps ==
    ASSUME FeeInv, NEW a \in Askers, NEW r, ReportOK(r), Answer(a, r), UNCHANGED <<fees, fills, tip>>,
           Height < r.asOf + FetchBlocks + Maximal(SnapTTL, 1), SnapOK'
    PROVE  FeeInv'
<1>1. PICK urgency \in Urgencies : advice' = advice \cup {Decide(r, urgency)}
  BY DEF Answer
<1>2. AdviceOK(Decide(r, urgency))
  BY DecideIs
<1>3. \A d \in advice' : AdviceOK(d)
  BY <1>1, <1>2 DEF FeeInv
<1>4. \A d \in advice' : AdviceOK(d)'
  BY <1>3 DEF AdviceOK, Height
<1>5. ChainOK'
  BY DEF FeeInv, ChainOK, Height
<1>6. QED
  BY <1>4, <1>5 DEF FeeInv

LEMMA StillKeeps ==
    ASSUME FeeInv, UNCHANGED <<fees, fills, tip, advice>>, SnapOK' PROVE FeeInv'
<1>1. ChainOK'
  BY DEF FeeInv, ChainOK, Height
<1>2. \A d \in advice' : AdviceOK(d)'
  BY DEF FeeInv, AdviceOK, Height
<1>3. QED
  BY <1>1, <1>2 DEF FeeInv

LEMMA FeeStep == ASSUME FeeInv, [FeeNext]_feeVars PROVE FeeInv'
<1> USE DEF Height
<1>1. CASE NewBlock
  BY <1>1, BlockKeeps
<1>2. ASSUME NEW a \in Askers, AskAdvice(a) PROVE FeeInv'
  <2>1. UNCHANGED <<fees, fills, tip, snap, lock, advice>>
    BY <1>2 DEF AskAdvice
  <2>2. SnapOK'
    BY <2>1 DEF FeeInv, SnapOK, ReportOK
  <2>3. QED
    BY <2>1, <2>2, StillKeeps
<1>3. ASSUME NEW a \in Askers, FromSnap(a) PROVE FeeInv'
  <2>1. /\ FreshSnap /\ Answer(a, snap.report) /\ UNCHANGED <<fees, fills, tip, snap, lock>>
    BY <1>3 DEF FromSnap
  <2>2. /\ ReportOK(snap.report) /\ snap.at \in Nat /\ snap.at <= snap.report.asOf + FetchBlocks
        /\ Height - snap.at < SnapTTL
    BY <2>1 DEF FreshSnap, FeeInv, SnapOK
  <2>3. SnapOK'
    BY <2>1 DEF FeeInv, SnapOK, ReportOK
  <2>4. PICK r : r = snap.report
    OBVIOUS
  <2>5. Height \in Nat /\ r.asOf \in Nat /\ FetchBlocks \in Nat /\ SnapTTL \in Nat
    BY <2>2, <2>4, FeeAssumption DEF FeeInv, ChainOK, ReportOK
  <2>6. Height < r.asOf + FetchBlocks + Maximal(SnapTTL, 1)
    BY <2>2, <2>4, <2>5 DEF Maximal
  <2>7. ReportOK(r) /\ Answer(a, r)
    BY <2>1, <2>2, <2>4
  <2>8. QED
    BY <2>1, <2>3, <2>6, <2>7, AnswerKeeps
<1>4. ASSUME NEW a \in Askers, FetchBegins(a) PROVE FeeInv'
  <2>1. lock' = [by |-> a, asOf |-> Height] /\ UNCHANGED <<fees, fills, tip, snap, advice>>
    BY <1>4 DEF FetchBegins
  <2>2. Height \in Nat /\ Height >= 1 /\ FetchBlocks \in Nat
    BY FeeAssumption DEF FeeInv, ChainOK
  <2>3. lock'.asOf \in 1 .. Height' /\ Height' <= lock'.asOf + FetchBlocks
    BY <2>1, <2>2
  <2>4. SnapOK'
    BY <2>1, <2>3 DEF FeeInv, SnapOK, ReportOK
  <2>5. QED
    BY <2>1, <2>4, StillKeeps
<1>5. ASSUME NEW a \in Askers, FetchEnds(a) PROVE FeeInv'
  <2>1. PICK from, report :
          /\ lock # Free /\ from = Maximal(lock.asOf - Depth + 1, 1)
          /\ report = [asOf |-> lock.asOf, fee |-> fees[lock.asOf], tip |-> tip,
                       series |-> SubSeq(fills, from, lock.asOf)]
          /\ snap' = [at |-> Height, report |-> report] /\ Answer(a, report)
          /\ lock' = Free /\ UNCHANGED <<fees, fills, tip>>
    BY <1>5 DEF FetchEnds
  <2>2. PICK h \in 1 .. Height : h = lock.asOf /\ Height <= h + FetchBlocks
    BY <2>1 DEF FeeInv, SnapOK
  <2>3. Height \in Nat /\ fills \in Seq(0 .. 100) /\ Len(fills) = Height /\ tip \in Nat
        /\ FetchBlocks \in Nat /\ SnapTTL \in Nat /\ Depth \in Nat \ {0}
    BY FeeAssumption DEF FeeInv, ChainOK
  <2>4. from \in 1 .. h
    BY <2>1, <2>2, <2>3 DEF Maximal
  <2>5. PICK s : s = SubSeq(fills, from, h)
    OBVIOUS
  <2>6. Len(s) = h - from + 1 /\ Len(s) \in Nat /\ s[Len(s)] = fills[h]
    BY <2>2, <2>3, <2>4, <2>5
  <2>7. report.asOf = h /\ report.fee = fees[h] /\ report.tip = tip /\ report.series = s
    BY <2>1, <2>2, <2>5
  <2>8. ReportOK(report)
    BY <2>2, <2>3, <2>6, <2>7 DEF ReportOK
  <2>9. Height < report.asOf + FetchBlocks + Maximal(SnapTTL, 1)
    BY <2>2, <2>3, <2>7 DEF Maximal
  <2>10. SnapOK'
    <3>1. snap'.at = Height /\ snap'.report = report
      BY <2>1
    <3>2. ReportOK(report)'
      BY <2>1, <2>8 DEF ReportOK
    <3>3. ReportOK(snap.report)'
      BY <2>1, <2>8, <3>1 DEF ReportOK
    <3>4. QED
      BY <2>1, <2>2, <2>3, <2>7, <3>1, <3>3 DEF SnapOK
  <2>11. QED
    BY <2>1, <2>8, <2>9, <2>10, AnswerKeeps
<1>6. ASSUME NEW a \in Askers, FetchRaises(a) PROVE FeeInv'
  <2>1. lock' = Free /\ UNCHANGED <<fees, fills, tip, snap, advice>>
    BY <1>6 DEF FetchRaises
  <2>2. SnapOK'
    BY <2>1 DEF FeeInv, SnapOK, ReportOK
  <2>3. QED
    BY <2>1, <2>2, StillKeeps
<1>7. CASE UNCHANGED feeVars
  <2>1. UNCHANGED <<fees, fills, tip, snap, lock, advice>>
    BY <1>7 DEF feeVars
  <2>2. SnapOK'
    BY <2>1 DEF FeeInv, SnapOK, ReportOK
  <2>3. QED
    BY <2>1, <2>2, StillKeeps
<1>8. QED
  BY <1>1, <1>2, <1>3, <1>4, <1>5, <1>6, <1>7 DEF FeeNext

LEMMA FiveBlocks ==
    ASSUME FeeInv, FeesLarge, NEW h \in 1 .. Height, NEW k \in 1 .. Height, k >= h, k <= h + 5
    PROVE  32768 * fees[k] <= 59049 * fees[h]
<1>1. /\ Height \in Nat
      /\ \A i \in 1 .. Height : fees[i] \in Nat /\ fills[i] \in 0 .. 100
  BY ChainIn DEF FeeInv
<1>2. ASSUME NEW i \in 1 .. Height, i + 1 \in 1 .. Height PROVE 8 * fees[i + 1] <= 9 * fees[i]
  <2>1. fees[i + 1] = NextFee(fees[i], fills[i])
    BY <1>1, <1>2 DEF FeeInv, ChainOK
  <2>2. PICK f \in Nat, u \in 0 .. 100 : f = fees[i] /\ u = fills[i]
    BY <1>1
  <2>3. f >= 8
    BY <2>2, FeeAssumption DEF FeesLarge
  <2>4. 8 * NextFee(f, u) <= 9 * f
    BY <2>3, NextFeeIs
  <2>5. QED
    BY <2>1, <2>2, <2>4
<1>3. PICK z \in Nat : z = fees[h]
  BY <1>1
<1>4. h + 1 \in 1 .. Height => 8 * fees[h + 1] <= 9 * z
  BY <1>2, <1>3
<1>5. h + 2 \in 1 .. Height => 64 * fees[h + 2] <= 81 * z
  <2>1. ASSUME h + 2 \in 1 .. Height PROVE 64 * fees[h + 2] <= 81 * z
    <3>1. h + 1 \in 1 .. Height /\ (h + 1) + 1 = h + 2
      BY <1>1, <2>1
    <3>2. 8 * fees[h + 2] <= 9 * fees[h + 1]
      BY <1>2, <2>1, <3>1
    <3>3. PICK x \in Nat, y \in Nat : x = fees[h + 2] /\ y = fees[h + 1]
      BY <1>1, <2>1, <3>1
    <3>4. QED
      BY <1>4, <3>1, <3>2, <3>3
  <2>2. QED
    BY <2>1
<1>6. h + 3 \in 1 .. Height => 512 * fees[h + 3] <= 729 * z
  <2>1. ASSUME h + 3 \in 1 .. Height PROVE 512 * fees[h + 3] <= 729 * z
    <3>1. h + 2 \in 1 .. Height /\ (h + 2) + 1 = h + 3
      BY <1>1, <2>1
    <3>2. 8 * fees[h + 3] <= 9 * fees[h + 2]
      BY <1>2, <2>1, <3>1
    <3>3. PICK x \in Nat, y \in Nat : x = fees[h + 3] /\ y = fees[h + 2]
      BY <1>1, <2>1, <3>1
    <3>4. QED
      BY <1>5, <3>1, <3>2, <3>3
  <2>2. QED
    BY <2>1
<1>7. h + 4 \in 1 .. Height => 4096 * fees[h + 4] <= 6561 * z
  <2>1. ASSUME h + 4 \in 1 .. Height PROVE 4096 * fees[h + 4] <= 6561 * z
    <3>1. h + 3 \in 1 .. Height /\ (h + 3) + 1 = h + 4
      BY <1>1, <2>1
    <3>2. 8 * fees[h + 4] <= 9 * fees[h + 3]
      BY <1>2, <2>1, <3>1
    <3>3. PICK x \in Nat, y \in Nat : x = fees[h + 4] /\ y = fees[h + 3]
      BY <1>1, <2>1, <3>1
    <3>4. QED
      BY <1>6, <3>1, <3>2, <3>3
  <2>2. QED
    BY <2>1
<1>8. h + 5 \in 1 .. Height => 32768 * fees[h + 5] <= 59049 * z
  <2>1. ASSUME h + 5 \in 1 .. Height PROVE 32768 * fees[h + 5] <= 59049 * z
    <3>1. h + 4 \in 1 .. Height /\ (h + 4) + 1 = h + 5
      BY <1>1, <2>1
    <3>2. 8 * fees[h + 5] <= 9 * fees[h + 4]
      BY <1>2, <2>1, <3>1
    <3>3. PICK x \in Nat, y \in Nat : x = fees[h + 5] /\ y = fees[h + 4]
      BY <1>1, <2>1, <3>1
    <3>4. QED
      BY <1>7, <3>1, <3>2, <3>3
  <2>2. QED
    BY <2>1
<1>9. fees[k] \in Nat /\ k \in {h, h + 1, h + 2, h + 3, h + 4, h + 5}
  BY <1>1
<1>10. QED
  BY <1>3, <1>4, <1>5, <1>6, <1>7, <1>8, <1>9

\* For any fees, tips, lifetime and fetch, and however blocks and askers interleave: as
\* long as no fee falls below eight reporting units, advice is of a block that
\* is at most a fetch and a lifetime old, its ceiling holds for five blocks however full,
\* and who is flexible is told to send only when the next block is no dearer.
THEOREM AdviceTheorem == FeeSpec => [](FeesLarge => AdviceHolds)
<1>1. FeeInv => (FeesLarge => AdviceHolds)
  <2> SUFFICES ASSUME FeeInv, FeesLarge PROVE AdviceHolds
    OBVIOUS
  <2>1. ASSUME NEW d \in advice
        PROVE  /\ d.at < d.asOf + FetchBlocks + Maximal(SnapTTL, 1)
               /\ \A h \in d.asOf .. Height : h <= d.asOf + 5 => fees[h] <= d.max
               /\ d.submit /\ d.urgency = "flexible" /\ d.asOf < Height
                     => fees[d.asOf + 1] <= d.base
    <3>1. AdviceOK(d)
      BY DEF FeeInv
    <3>2. /\ Height \in Nat /\ \A i \in 1 .. Height : fees[i] \in Nat /\ fills[i] \in 0 .. 100
      BY ChainIn DEF FeeInv
    <3>3. PICK b \in 1 .. Height, m \in Nat, f \in Nat :
             b = d.asOf /\ m = d.max /\ f = d.base /\ f = fees[b] /\ f >= 8 * Unit
             /\ m >= 2 * Reported(f)
      BY <3>1, <3>2 DEF AdviceOK, FeesLarge
    <3>4. ASSUME NEW h \in b .. Height, h <= b + 5 PROVE fees[h] <= m
      <4>1. 32768 * fees[h] <= 59049 * f /\ fees[h] \in Nat
        BY <3>2, <3>3, <3>4, FiveBlocks
      <4>2. PICK x \in Nat : x = Reported(f) /\ 32768 * (2 * x) >= 59049 * f
        BY <3>3, ReportedIs
      <4>3. QED
        BY <3>3, <4>1, <4>2
    <3>5. ASSUME d.submit, d.urgency = "flexible", b < Height PROVE fees[b + 1] <= f
      <4>1. fees[b + 1] = NextFee(fees[b], fills[b])
        BY <3>5 DEF FeeInv, ChainOK
      <4>2. PICK u \in 0 .. 100 : u = fills[b] /\ u < 50
        BY <3>1, <3>2, <3>3, <3>5 DEF AdviceOK
      <4>3. NextFee(f, u) <= f
        BY <4>2, NextFeeIs
      <4>4. QED
        BY <3>3, <4>1, <4>2, <4>3
    <3>6. QED
      BY <3>1, <3>3, <3>4, <3>5 DEF AdviceOK
  <2>2. QED
    BY <2>1 DEF AdviceHolds
<1>2. FeeInit => FeeInv
  BY FeeInitInv
<1>3. FeeInv /\ [FeeNext]_feeVars => FeeInv'
  BY FeeStep
<1>4. QED
  BY <1>1, <1>2, <1>3, PTL DEF FeeSpec

-----------------------------------------------------------------------------
(* The funnel and the revenue reports. *)

DemandSpec == DemandInit /\ [][DemandNext]_demandVars

\* The sales that a look of their buyer precedes, in the life of the counters.
Seen(r) ==
    {row \in ToSet(sales) : /\ row.res = r /\ row.at \notin unseen
                            /\ began # NoTime /\ row.at >= began}
LookedAt(r) == {x \in looked : x[2] = r}

DemandTypeOK ==
    /\ sales \in Seq(SaleRows) /\ dNow \in Nat
    /\ views \in [Resources -> [all : Nat, able : Nat]]
    /\ since = began /\ began \in Nat \cup {NoTime}
    /\ looked \subseteq Payers \X Resources /\ IsFiniteSet(looked)
    /\ listed \subseteq Composites

\* No two rows have one stamp, and who sold them does not depend on the registry.
RowsOK ==
    /\ \A i, j \in 1 .. Len(sales) : i < j => sales[i].at < sales[j].at
    /\ \A i \in 1 .. Len(sales) :
          sales[i].at < dNow /\ sales[i].run = (sales[i].res \in Composites)

\* Each look that a sale has used, and each that none has, was counted.
ViewsOK ==
    /\ began = NoTime => looked = {}
    /\ \A r \in Resources :
          /\ views[r].able <= views[r].all
          /\ Cardinality(Seen(r)) + Cardinality(LookedAt(r)) <= views[r].all

PageOK == page.cached => page.rows = Newest(sales)

DemandInv == DemandTypeOK /\ RowsOK /\ ViewsOK /\ PageOK

LEMMA SalesFinite ==
    ASSUME DemandInv
    PROVE  /\ IsFiniteSet(ToSet(sales)) /\ ToSet(sales) = {sales[i] : i \in 1 .. Len(sales)}
           /\ \A row \in ToSet(sales) : row \in SaleRows /\ row.at < dNow
           /\ \A r : IsFiniteSet(Seen(r)) /\ IsFiniteSet(LookedAt(r))
           /\ \A i, j \in 1 .. Len(sales) : sales[i] = sales[j] => i = j
<1>1. sales \in Seq(SaleRows) /\ IsFiniteSet(looked) /\ dNow \in Nat
  BY DEF DemandInv, DemandTypeOK
<1>2. ToSet(sales) = {sales[i] : i \in 1 .. Len(sales)}
  BY <1>1 DEF ToSet
<1>3. \A i, j \in 1 .. Len(sales) : sales[i] = sales[j] => i = j
  <2> SUFFICES ASSUME NEW i \in 1 .. Len(sales), NEW j \in 1 .. Len(sales), sales[i] = sales[j], i # j
               PROVE  FALSE
    OBVIOUS
  <2>1. i < j \/ j < i
    BY <1>1
  <2>2. sales[i].at \in Nat /\ sales[j].at \in Nat
    <3>1. sales[i] \in SaleRows /\ sales[j] \in SaleRows
      BY <1>1, ElementOfSeq
    <3>2. QED
      BY <3>1 DEF SaleRows
  <2>3. sales[i].at < sales[j].at \/ sales[j].at < sales[i].at
    BY <2>1 DEF DemandInv, RowsOK
  <2>4. QED
    BY <2>2, <2>3
<1>4. IsFiniteSet(ToSet(sales))
  <2>1. IsFiniteSet({x \in {sales[i] : i \in 1 .. Len(sales)} : x \in SaleRows})
    BY <1>1, <1>3, KeepCount
  <2>2. \A i \in 1 .. Len(sales) : sales[i] \in SaleRows
    BY <1>1, ElementOfSeq
  <2>3. {x \in {sales[i] : i \in 1 .. Len(sales)} : x \in SaleRows} = ToSet(sales)
    BY <1>2, <2>2
  <2>4. QED
    BY <2>1, <2>3
<1>5. \A row \in ToSet(sales) : row \in SaleRows /\ row.at < dNow
  BY <1>1, <1>2, ElementOfSeq DEF DemandInv, RowsOK
<1>6. \A r : Seen(r) \subseteq ToSet(sales) /\ LookedAt(r) \subseteq looked
  BY DEF Seen, LookedAt
<1>7. \A r : IsFiniteSet(Seen(r)) /\ IsFiniteSet(LookedAt(r))
  BY <1>1, <1>4, <1>6, FS_Subset
<1>8. QED
  BY <1>2, <1>3, <1>4, <1>5, <1>7

LEMMA DemandInitInv == DemandInit => DemandInv
<1> SUFFICES ASSUME DemandInit PROVE DemandInv
  OBVIOUS
<1>1. sales = <<>> /\ looked = {} /\ page = NoPage /\ views = NoViews /\ dNow = 0
      /\ began = NoTime /\ since = NoTime /\ listed = Composites
  BY DEF DemandInit
<1>2. sales \in Seq(SaleRows) /\ Len(sales) = 0
  BY <1>1
<1>3. views \in [Resources -> [all : Nat, able : Nat]]
  BY <1>1 DEF NoViews
<1>4. IsFiniteSet({}) /\ Cardinality({}) = 0
  BY FS_EmptySet
<1>5. DemandTypeOK
  BY <1>1, <1>2, <1>3, <1>4 DEF DemandTypeOK
<1>6. RowsOK
  BY <1>2 DEF RowsOK
<1>7. \A r \in Resources : views[r].able = 0 /\ views[r].all = 0
  BY <1>1 DEF NoViews
<1>8. \A r : Seen(r) = {} /\ LookedAt(r) = {}
  BY <1>1 DEF Seen, LookedAt
<1>9. ViewsOK
  <2>1. \A r \in Resources : Cardinality(Seen(r)) = 0 /\ Cardinality(LookedAt(r)) = 0
    BY <1>4, <1>8
  <2>2. \A r \in Resources : /\ views[r].able <= views[r].all
                            /\ Cardinality(Seen(r)) + Cardinality(LookedAt(r)) <= views[r].all
    BY <1>7, <2>1
  <2>3. QED
    BY <1>1, <2>2 DEF ViewsOK
<1>10. PageOK
  BY <1>1 DEF PageOK, NoPage
<1>11. QED
  BY <1>5, <1>6, <1>9, <1>10 DEF DemandInv

-----------------------------------------------------------------------------
\* A challenge that is counted.
ViewAdded(r, able) ==
    views' = [views EXCEPT ![r].all = @ + 1, ![r].able = IF able THEN @ + 1 ELSE @]

LEMMA CountedInv ==
    ASSUME DemandInv, NEW r \in Resources, NEW p \in Payers, NEW able \in BOOLEAN,
           Clock, ViewAdded(r, able), since' = Marker, looked' = looked \cup {<<p, r>>},
           began' = IF began = NoTime THEN dNow ELSE began,
           UNCHANGED <<sales, listed, page, unseen>>
    PROVE  DemandInv'
<1>1. /\ dNow' = dNow + 1 /\ dNow \in Nat /\ since = began /\ began \in Nat \cup {NoTime}
      /\ looked \subseteq Payers \X Resources /\ IsFiniteSet(looked)
      /\ views \in [Resources -> [all : Nat, able : Nat]] /\ NoTime \notin Nat
  BY DemandAssumption DEF Clock, DemandInv, DemandTypeOK
<1>2. PICK a \in Nat, b \in Nat : a = views[r].all /\ b = views[r].able /\ b <= a
  BY <1>1 DEF DemandInv, ViewsOK
<1>3. PICK c \in Nat : c = (IF able THEN b + 1 ELSE b) /\ c <= a + 1
  BY <1>2
<1>4. PICK n \in [all : Nat, able : Nat] : n = [all |-> a + 1, able |-> c]
  <2>1. a + 1 \in Nat
    BY <1>2
  <2>2. QED
    BY <2>1
<1>5. views' = [views EXCEPT ![r] = n]
  <2>1. views[r] = [all |-> a, able |-> b]
    BY <1>1, <1>2
  <2>2. PICK o : o = views[r]
    OBVIOUS
  <2>3. PICK m : m = [all |-> a + 1, able |-> b]
    OBVIOUS
  <2>4. m = [o EXCEPT !.all = @ + 1]
    BY <2>1, <2>2, <2>3
  <2>5. n = [m EXCEPT !.able = IF able THEN @ + 1 ELSE @]
    BY <1>3, <1>4, <2>3
  <2>6. views' = [views EXCEPT ![r] = [[views[r] EXCEPT !.all = views[r].all + 1]
                               EXCEPT !.able = IF able THEN views[r].able + 1 ELSE views[r].able]]
    BY DEF ViewAdded
  <2>7. QED
    BY <1>1, <2>2, <2>4, <2>5, <2>6
<1>6. /\ views'[r].all = a + 1 /\ views'[r].able <= a + 1
      /\ \A q \in Resources : q # r => views'[q] = views[q]
      /\ views' \in [Resources -> [all : Nat, able : Nat]]
  <2>1. views' \in [Resources -> [all : Nat, able : Nat]]
    BY <1>1, <1>5
  <2>2. views'[r] = n /\ \A q \in Resources : q # r => views'[q] = views[q]
    BY <1>1, <1>5
  <2>3. n.all = a + 1 /\ n.able = c
    BY <1>4
  <2>4. QED
    BY <1>3, <2>1, <2>2, <2>3
<1>7. since' = began' /\ began' \in Nat
  BY <1>1 DEF Marker
<1>8. IsFiniteSet(looked') /\ looked' \subseteq Payers \X Resources
  <2>1. PICK L, x : L = looked /\ x = <<p, r>> /\ IsFiniteSet(L)
    BY <1>1
  <2>2. IsFiniteSet(L \cup {x})
    BY <2>1, FS_AddElement
  <2>3. looked' = L \cup {x}
    BY <2>1
  <2>4. x \in Payers \X Resources
    BY <2>1
  <2>5. QED
    BY <1>1, <2>1, <2>2, <2>3, <2>4
<1>9. DemandTypeOK'
  <2>1. dNow' \in Nat /\ UNCHANGED <<sales, listed>> /\ sales \in Seq(SaleRows)
        /\ listed \subseteq Composites
    BY <1>1 DEF DemandInv, DemandTypeOK
  <2>2. sales' \in Seq(SaleRows) /\ listed' \subseteq Composites
    BY <2>1
  <2>3. since' = began' /\ began' \in Nat \cup {NoTime}
    BY <1>7
  <2>4. views' \in [Resources -> [all : Nat, able : Nat]]
    BY <1>6
  <2>5. QED
    BY <1>8, <2>1, <2>2, <2>3, <2>4 DEF DemandTypeOK
<1>10. RowsOK'
  <2>1. \A i \in 1 .. Len(sales) : sales[i].at \in Nat
    <3>1. \A i \in 1 .. Len(sales) : sales[i] \in SaleRows
      BY ElementOfSeq DEF DemandInv, DemandTypeOK
    <3>2. QED
      BY <3>1 DEF SaleRows
  <2>2. \A i \in 1 .. Len(sales) : sales[i].at < dNow => sales[i].at < dNow'
    BY <1>1, <2>1
  <2>3. QED
    BY <2>2 DEF DemandInv, RowsOK
<1>11. PageOK'
  BY DEF DemandInv, PageOK
<1>12. ASSUME NEW q \in Resources
       PROVE  Cardinality(Seen(q)') + Cardinality(LookedAt(q)') <= views'[q].all
  <2>1. Cardinality(Seen(q)) + Cardinality(LookedAt(q)) <= views[q].all
        /\ Cardinality(Seen(q)) \in Nat /\ Cardinality(LookedAt(q)) \in Nat /\ views[q].all \in Nat
    BY <1>1, SalesFinite, FS_CardinalityType DEF DemandInv, ViewsOK
  <2>2. Seen(q)' \subseteq Seen(q) /\ Cardinality(Seen(q)') <= Cardinality(Seen(q))
        /\ Cardinality(Seen(q)') \in Nat
    <3>1. Seen(q)' \subseteq Seen(q)
      <4>1. CASE began = NoTime
        <5>1. \A row \in ToSet(sales) : ~(row.at >= dNow)
          <6>1. \A row \in ToSet(sales) : row.at \in Nat /\ row.at < dNow
            BY SalesFinite DEF SaleRows
          <6>2. QED
            BY <1>1, <6>1
        <5>2. Seen(q)' = {}
          BY <4>1, <5>1 DEF Seen
        <5>3. QED
          BY <5>2
      <4>2. CASE began # NoTime
        BY <4>2 DEF Seen
      <4>3. QED
        BY <4>1, <4>2
    <3>2. QED
      BY <3>1, SalesFinite, FS_Subset, FS_CardinalityType
  <2>3. CASE q = r
    <3>1. LookedAt(q)' = LookedAt(q) \cup {<<p, r>>}
      BY <2>3 DEF LookedAt
    <3>2. Cardinality(LookedAt(q)') \in Nat /\ Cardinality(LookedAt(q)') <= Cardinality(LookedAt(q)) + 1
      <4>1. PICK L, x : L = LookedAt(q) /\ x = <<p, r>> /\ IsFiniteSet(L)
        BY SalesFinite
      <4>2. Cardinality(L) \in Nat /\ Cardinality(L \cup {x}) \in {Cardinality(L), Cardinality(L) + 1}
        BY <4>1, FS_AddElement, FS_CardinalityType
      <4>3. QED
        BY <3>1, <4>1, <4>2
    <3>3. views'[q].all = views[q].all + 1
      BY <1>2, <1>6, <2>3
    <3>4. QED
      BY <2>1, <2>2, <3>2, <3>3
  <2>4. CASE q # r
    <3>1. LookedAt(q)' = LookedAt(q)
      BY <2>4 DEF LookedAt
    <3>2. views'[q].all = views[q].all
      BY <1>6, <2>4
    <3>3. QED
      BY <2>1, <2>2, <3>1, <3>2
  <2>5. QED
    BY <2>3, <2>4
<1>13. \A q \in Resources : views'[q].able <= views'[q].all
  BY <1>6 DEF DemandInv, ViewsOK
<1>14. ViewsOK'
  BY <1>1, <1>7, <1>12, <1>13 DEF ViewsOK
<1>15. QED
  BY <1>9, <1>10, <1>11, <1>14 DEF DemandInv

\* A step that leaves the rows and the counters alone.
LEMMA DemandStill ==
    ASSUME DemandInv, UNCHANGED <<views, since, sales, looked, began, unseen>>,
           dNow' \in {dNow, dNow + 1}, listed' \subseteq listed, PageOK'
    PROVE  DemandInv'
<1>1. DemandTypeOK'
  BY DEF DemandInv, DemandTypeOK
<1>2. \A i \in 1 .. Len(sales) : sales[i].at < dNow'
  <2>1. \A i \in 1 .. Len(sales) : sales[i].at \in Nat
    <3>1. \A i \in 1 .. Len(sales) : sales[i] \in SaleRows
      BY ElementOfSeq DEF DemandInv, DemandTypeOK
    <3>2. QED
      BY <3>1 DEF SaleRows
  <2>2. \A i \in 1 .. Len(sales) : sales[i].at < dNow
    BY DEF DemandInv, RowsOK
  <2>3. dNow \in Nat
    BY DEF DemandInv, DemandTypeOK
  <2>4. QED
    BY <2>1, <2>2, <2>3
<1>3. RowsOK'
  BY <1>2 DEF DemandInv, RowsOK
<1>4. \A r : Seen(r)' = Seen(r) /\ LookedAt(r)' = LookedAt(r)
  BY DEF Seen, LookedAt
<1>5. ViewsOK'
  BY <1>4 DEF DemandInv, ViewsOK
<1>6. QED
  BY <1>1, <1>3, <1>5 DEF DemandInv

\* What is kept of the ledger is its end.
LEMMA TrimmedIs ==
    ASSUME NEW T, NEW s \in Seq(T)
    PROVE  \E k \in 0 .. Len(s) :
              /\ Trimmed(s) \in Seq(T) /\ Len(Trimmed(s)) = Len(s) - k
              /\ \A i \in 1 .. Len(s) - k : Trimmed(s)[i] = s[i + k]
<1>1. Len(s) \in Nat /\ MaxRows \in Nat
  BY DemandAssumption
<1>2. CASE inRedis /\ Len(s) > MaxRows
  <2>1. PICK k \in 0 .. Len(s) : k = Len(s) - MaxRows
    BY <1>1, <1>2
  <2>2. PICK t : t = SubSeq(s, k + 1, Len(s))
    OBVIOUS
  <2>3. t \in Seq(T) /\ Len(t) = Len(s) - k /\ \A i \in 1 .. Len(s) - k : t[i] = s[i + k]
    <3>1. /\ k + 1 \in 1 .. Len(s) + 1 /\ Len(s) \in 0 .. Len(s)
      BY <1>1
    <3>2. t \in Seq(T)
      BY <1>1, <2>2, <3>1, SubSeqProperties
    <3>3. Len(t) = Len(s) - k
      BY <1>1, <2>2
    <3>4. \A i \in 1 .. Len(s) - k : t[i] = s[i + k]
      BY <1>1, <2>2, <3>1
    <3>5. QED
      BY <3>2, <3>3, <3>4
  <2>4. Trimmed(s) = t
    BY <1>2, <2>1, <2>2 DEF Trimmed
  <2>5. QED
    BY <2>3, <2>4
<1>3. CASE ~(inRedis /\ Len(s) > MaxRows)
  <2>1. Trimmed(s) = s
    BY <1>3 DEF Trimmed
  <2>2. 0 \in 0 .. Len(s) /\ Len(s) = Len(s) - 0 /\ \A i \in 1 .. Len(s) : s[i] = s[i + 0]
    BY <1>1
  <2>3. QED
    BY <2>1, <2>2
<1>4. QED
  BY <1>2, <1>3

\* A sale is booked: it uses up the look its buyer had, or is one without a look.
LEMMA BookedInv ==
    ASSUME DemandInv, Clock, NEW row \in SaleRows, row.at = dNow,
           row.run = (row.res \in Composites), NEW p \in Payers, NEW r \in Resources, row.res = r,
           sales' = Trimmed(Append(sales, row)), looked' = looked \ {<<p, r>>},
           unseen' = IF <<p, r>> \in looked THEN unseen ELSE unseen \cup {dNow},
           page' = NoPage, UNCHANGED <<views, since, listed, began>>
    PROVE  DemandInv'
<1>1. /\ dNow' = dNow + 1 /\ dNow \in Nat /\ sales \in Seq(SaleRows)
      /\ IsFiniteSet(looked) /\ looked \subseteq Payers \X Resources
  BY DEF Clock, DemandInv, DemandTypeOK
<1>2. PICK s \in Seq(SaleRows) : s = sales
  BY <1>1
<1>3. PICK t \in Seq(SaleRows) :
         /\ t = Append(sales, row) /\ Len(t) = Len(s) + 1 /\ t[Len(t)] = row
         /\ \A i \in 1 .. Len(s) : t[i] = s[i]
  <2>1. /\ Append(s, row) \in Seq(SaleRows) /\ Len(Append(s, row)) = Len(s) + 1
        /\ Append(s, row)[Len(s) + 1] = row
        /\ \A i \in 1 .. Len(s) : Append(s, row)[i] = s[i]
    OBVIOUS
  <2>2. QED
    BY <1>2, <2>1
<1>4. /\ \A i, j \in 1 .. Len(s) : i < j => s[i].at < s[j].at
      /\ \A i \in 1 .. Len(s) : s[i].at < dNow /\ s[i].run = (s[i].res \in Composites)
  BY <1>2 DEF DemandInv, RowsOK
<1>5. \A i \in 1 .. Len(s) : s[i] \in SaleRows /\ s[i].at \in Nat
  <2>1. \A i \in 1 .. Len(s) : s[i] \in SaleRows
    BY ElementOfSeq
  <2>2. QED
    BY <2>1 DEF SaleRows
<1>6. Len(s) \in Nat
  OBVIOUS
<1>7. \A i \in 1 .. Len(t) : i = Len(t) \/ i \in 1 .. Len(s)
  BY <1>3, <1>6
<1>8. \A i \in 1 .. Len(t) : t[i].at < dNow + 1 /\ t[i].run = (t[i].res \in Composites)
  <2> SUFFICES ASSUME NEW i \in 1 .. Len(t)
               PROVE  t[i].at < dNow + 1 /\ t[i].run = (t[i].res \in Composites)
    OBVIOUS
  <2>1. CASE i = Len(t)
    <3>1. t[i] = row
      BY <1>3, <2>1
    <3>2. QED
      BY <1>1, <3>1
  <2>2. CASE i \in 1 .. Len(s)
    BY <1>1, <1>3, <1>4, <1>5, <2>2
  <2>3. QED
    BY <1>7, <2>1, <2>2
<1>9. \A i, j \in 1 .. Len(t) : i < j => t[i].at < t[j].at
  <2> SUFFICES ASSUME NEW i \in 1 .. Len(t), NEW j \in 1 .. Len(t), i < j PROVE t[i].at < t[j].at
    OBVIOUS
  <2>1. i \in 1 .. Len(s)
    BY <1>3, <1>6
  <2>2. CASE j = Len(t)
    <3>1. t[j] = row /\ t[i] = s[i]
      BY <1>3, <2>1, <2>2
    <3>2. QED
      BY <1>4, <2>1, <3>1
  <2>3. CASE j \in 1 .. Len(s)
    BY <1>3, <1>4, <2>1, <2>3
  <2>4. QED
    BY <1>7, <2>2, <2>3
<1>10. PICK k \in 0 .. Len(t) : /\ sales' \in Seq(SaleRows) /\ Len(sales') = Len(t) - k
                               /\ \A i \in 1 .. Len(t) - k : sales'[i] = t[i + k]
  <2>1. \E k \in 0 .. Len(t) :
              /\ Trimmed(t) \in Seq(SaleRows) /\ Len(Trimmed(t)) = Len(t) - k
              /\ \A i \in 1 .. Len(t) - k : Trimmed(t)[i] = t[i + k]
    BY TrimmedIs
  <2>2. sales' = Trimmed(t)
    BY <1>3
  <2>3. QED
    BY <2>1, <2>2
<1>11. Len(t) \in Nat /\ \A i \in 1 .. Len(sales') : i + k \in 1 .. Len(t) /\ sales'[i] = t[i + k]
  BY <1>3, <1>6, <1>10
<1>12. RowsOK'
  <2>1. ASSUME NEW i \in 1 .. Len(sales'), NEW j \in 1 .. Len(sales'), i < j
        PROVE  sales'[i].at < sales'[j].at
    <3>1. i + k \in 1 .. Len(t) /\ j + k \in 1 .. Len(t) /\ i + k < j + k
      BY <1>11, <2>1
    <3>2. QED
      BY <1>9, <1>11, <3>1
  <2>2. \A i \in 1 .. Len(sales') :
           sales'[i].at < dNow' /\ sales'[i].run = (sales'[i].res \in Composites)
    BY <1>1, <1>8, <1>11
  <2>3. QED
    BY <2>1, <2>2 DEF RowsOK
<1>13. IsFiniteSet(looked')
  BY <1>1, FS_Subset
<1>14. DemandTypeOK'
  <2>1. looked' \subseteq Payers \X Resources /\ dNow' \in Nat
    BY <1>1
  <2>2. QED
    BY <1>10, <1>13, <2>1 DEF DemandInv, DemandTypeOK
<1>15. ToSet(sales)' \subseteq ToSet(sales) \cup {row}
  <2>1. ToSet(sales)' = {sales'[i] : i \in 1 .. Len(sales')}
    BY <1>10 DEF ToSet
  <2>2. \A i \in 1 .. Len(sales') : sales'[i] = row \/ \E j \in 1 .. Len(s) : sales'[i] = s[j]
    BY <1>3, <1>7, <1>11
  <2>3. ToSet(sales) = {s[i] : i \in 1 .. Len(s)}
    BY <1>2, SalesFinite
  <2>4. QED
    BY <2>1, <2>2, <2>3
<1>16. ASSUME NEW q \in Resources
       PROVE  Cardinality(Seen(q)') + Cardinality(LookedAt(q)') <= views[q].all
  <2>1. /\ Cardinality(Seen(q)) + Cardinality(LookedAt(q)) <= views[q].all
        /\ Cardinality(Seen(q)) \in Nat /\ Cardinality(LookedAt(q)) \in Nat /\ views[q].all \in Nat
        /\ IsFiniteSet(Seen(q)) /\ IsFiniteSet(LookedAt(q))
    BY SalesFinite, FS_CardinalityType DEF DemandInv, ViewsOK, DemandTypeOK
  <2>2. CASE q = r /\ <<p, r>> \in looked
    <3>1. Seen(q)' \subseteq Seen(q) \cup {row}
      BY <1>15, <2>2 DEF Seen
    <3>2. PICK S, x : S = Seen(q) /\ x = row
      OBVIOUS
    <3>3. IsFiniteSet(S \cup {x}) /\ Cardinality(S \cup {x}) \in {Cardinality(S), Cardinality(S) + 1}
      BY <2>1, <3>2, FS_AddElement
    <3>4. Cardinality(Seen(q)') <= Cardinality(Seen(q)) + 1 /\ Cardinality(Seen(q)') \in Nat
      <4>1. PICK R : R = Seen(q)'
        OBVIOUS
      <4>2. R \subseteq S \cup {x}
        BY <3>1, <3>2, <4>1
      <4>3. IsFiniteSet(R) /\ Cardinality(R) <= Cardinality(S \cup {x}) /\ Cardinality(R) \in Nat
            /\ Cardinality(S \cup {x}) \in Nat
        BY <3>3, <4>2, FS_Subset, FS_CardinalityType
      <4>4. QED
        BY <2>1, <3>2, <3>3, <4>1, <4>3
    <3>5. Cardinality(LookedAt(q)') = Cardinality(LookedAt(q)) - 1
      <4>1. PICK L, y : L = LookedAt(q) /\ y = <<p, r>>
        OBVIOUS
      <4>2. y \in L
        BY <2>2, <4>1 DEF LookedAt
      <4>3. Cardinality(L \ {y}) = Cardinality(L) - 1
        BY <2>1, <4>1, <4>2, FS_RemoveElement
      <4>4. LookedAt(q)' = L \ {y}
        BY <4>1 DEF LookedAt
      <4>5. QED
        BY <4>1, <4>3, <4>4
    <3>6. QED
      BY <2>1, <3>4, <3>5
  <2>3. CASE ~(q = r /\ <<p, r>> \in looked)
    <3>1. Seen(q)' \subseteq Seen(q)
      <4>1. ASSUME NEW x \in Seen(q)' PROVE x \in Seen(q)
        <5>1. /\ x \in ToSet(sales) \cup {row} /\ x.res = q /\ x.at \notin unseen'
              /\ began # NoTime /\ x.at >= began
          BY <1>15, <4>1 DEF Seen
        <5>2. x # row
          BY <2>3, <5>1
        <5>3. QED
          BY <5>1, <5>2 DEF Seen
      <4>2. QED
        BY <4>1
    <3>2. LookedAt(q)' \subseteq LookedAt(q)
      BY DEF LookedAt
    <3>3. /\ Cardinality(Seen(q)') \in Nat /\ Cardinality(Seen(q)') <= Cardinality(Seen(q))
          /\ Cardinality(LookedAt(q)') \in Nat
          /\ Cardinality(LookedAt(q)') <= Cardinality(LookedAt(q))
      BY <2>1, <3>1, <3>2, FS_Subset, FS_CardinalityType
    <3>4. QED
      BY <2>1, <3>3
  <2>4. QED
    BY <2>2, <2>3
<1>17. ViewsOK'
  BY <1>16 DEF DemandInv, ViewsOK
<1>18. PageOK'
  BY DEF PageOK, NoPage
<1>19. QED
  BY <1>12, <1>14, <1>17, <1>18 DEF DemandInv

LEMMA DemandStep == ASSUME DemandInv, [DemandNext]_demandVars PROVE DemandInv'
<1>1. CASE ChallengeServed
  <2>1. PICK r \in Resources, p \in Payers, able \in BOOLEAN :
          \/ /\ views' = [views EXCEPT ![r].all = @ + 1, ![r].able = IF able THEN @ + 1 ELSE @]
             /\ since' = Marker
             /\ looked' = looked \cup {<<p, r>>}
             /\ began' = IF began = NoTime THEN dNow ELSE began
             /\ UNCHANGED dFaults
          \/ /\ inRedis /\ dFaults < DemandMaxFaults /\ dFaults' = dFaults + 1
             /\ UNCHANGED <<views, since, looked, began>>
    BY <1>1 DEF ChallengeServed
  <2>2. Clock /\ UNCHANGED <<inRedis, sales, listed, page, unseen, dLife>>
    BY <1>1 DEF ChallengeServed
  <2>3. CASE /\ ViewAdded(r, able)
             /\ since' = Marker
             /\ looked' = looked \cup {<<p, r>>}
             /\ began' = IF began = NoTime THEN dNow ELSE began
    BY <2>2, <2>3, CountedInv
  <2>4. CASE UNCHANGED <<views, since, looked, began>>
    <3>1. PageOK' /\ dNow' = dNow + 1
      BY <2>2 DEF DemandInv, PageOK, Clock
    <3>2. QED
      BY <2>2, <2>4, <3>1, DemandStill
  <2>5. QED
    BY <2>1, <2>3, <2>4 DEF ViewAdded
<1>2. CASE SaleBooked
  <2>1. PICK r \in Resources, p \in Payers, told \in BOOLEAN, catalog \in BOOLEAN :
          /\ sales' = Trimmed(Append(sales, [res |-> r, payer |-> IF told THEN p ELSE NoPayer,
                                             at |-> dNow, run |-> r \in Composites,
                                             catalog |-> catalog]))
          /\ looked' = looked \ {<<p, r>>}
          /\ unseen' = IF <<p, r>> \in looked THEN unseen ELSE unseen \cup {dNow}
    BY <1>2 DEF SaleBooked
  <2>2. Clock /\ page' = NoPage /\ UNCHANGED <<views, since, listed, began>>
    BY <1>2 DEF SaleBooked, Invalidated
  <2>3. PICK n \in Nat : n = dNow
    BY DEF DemandInv, DemandTypeOK
  <2>9. PICK w \in Payers \cup {NoPayer} : w = (IF told THEN p ELSE NoPayer)
    OBVIOUS
  <2>10. PICK c \in BOOLEAN : c <=> r \in Composites
    OBVIOUS
  <2>4. PICK row : row = [res |-> r, payer |-> w, at |-> n, run |-> c, catalog |-> catalog]
    OBVIOUS
  <2>5. row \in SaleRows /\ row.at = n /\ row.run = c /\ row.res = r
    BY <2>4 DEF SaleRows
  <2>6. sales' = Trimmed(Append(sales, row))
    BY <2>1, <2>3, <2>4, <2>9, <2>10
  <2>7. row.at = dNow /\ row.run = (row.res \in Composites)
    BY <2>3, <2>5, <2>10
  <2>8. QED
    BY <2>1, <2>2, <2>5, <2>6, <2>7, BookedInv
<1>3. CASE ReadPage \/ PageExpires
  <2>1. /\ UNCHANGED <<views, since, sales, looked, began, unseen, dNow, listed>>
        /\ page' = [rows |-> Newest(sales), cached |-> TRUE] \/ page' = NoPage
    BY <1>3 DEF ReadPage, PageExpires
  <2>2. PageOK'
    BY <2>1 DEF PageOK, NoPage
  <2>3. QED
    BY <2>1, <2>2, DemandStill
<1>4. CASE Unlist
  <2>1. /\ UNCHANGED <<views, since, sales, looked, began, unseen, dNow, page>>
        /\ listed' \subseteq listed
    BY <1>4 DEF Unlist
  <2>2. PageOK'
    BY <2>1 DEF DemandInv, PageOK
  <2>3. QED
    BY <2>1, <2>2, DemandStill
<1>5. CASE DemandRestart
  <2>1. page' = NoPage /\ UNCHANGED <<dNow, listed, unseen>>
    BY <1>5 DEF DemandRestart
  <2>2. PageOK'
    BY <2>1 DEF PageOK, NoPage
  <2>3. CASE inRedis
    <3>1. UNCHANGED <<views, since, looked, began, sales>>
      BY <1>5, <2>3 DEF DemandRestart
    <3>2. QED
      BY <2>1, <2>2, <3>1, DemandStill
  <2>4. CASE ~inRedis
    <3>1. /\ views' = NoViews /\ since' = NoTime /\ looked' = {} /\ began' = NoTime
          /\ sales' = sales \/ sales' = <<>>
      BY <1>5, <2>4 DEF DemandRestart
    <3>2. IsFiniteSet({}) /\ Cardinality({}) = 0
      BY FS_EmptySet
    <3>3. views' \in [Resources -> [all : Nat, able : Nat]]
          /\ \A r \in Resources : views'[r].all = 0 /\ views'[r].able = 0
      BY <3>1 DEF NoViews
    <3>4. <<>> \in Seq(SaleRows) /\ Len(<<>>) = 0
      OBVIOUS
    <3>5. DemandTypeOK'
      BY <2>1, <3>1, <3>2, <3>3, <3>4 DEF DemandInv, DemandTypeOK
    <3>6. RowsOK'
      BY <2>1, <3>1, <3>4 DEF DemandInv, RowsOK
    <3>7. \A r : Seen(r)' = {} /\ LookedAt(r)' = {}
      BY <3>1 DEF Seen, LookedAt
    <3>8. \A r : Cardinality(Seen(r)') = 0 /\ Cardinality(LookedAt(r)') = 0
      BY <3>2, <3>7
    <3>9. \A r \in Resources : /\ views'[r].able <= views'[r].all
                              /\ Cardinality(Seen(r)') + Cardinality(LookedAt(r)') <= views'[r].all
      BY <3>3, <3>8
    <3>10. ViewsOK'
      BY <3>1, <3>9 DEF ViewsOK
    <3>11. QED
      BY <2>2, <3>5, <3>6, <3>10 DEF DemandInv
  <2>5. QED
    BY <2>3, <2>4
<1>6. CASE UNCHANGED demandVars
  <2>1. UNCHANGED <<views, since, sales, looked, began, unseen, dNow, listed, page>>
    BY <1>6 DEF demandVars
  <2>2. PageOK'
    BY <2>1 DEF DemandInv, PageOK
  <2>3. QED
    BY <2>1, <2>2, DemandStill
<1>7. QED
  BY <1>1, <1>2, <1>3, <1>4, <1>5, <1>6 DEF DemandNext

LEMMA DemandInvHolds == DemandSpec => []DemandInv
<1>1. DemandInit => DemandInv
  BY DemandInitInv
<1>2. DemandInv /\ [DemandNext]_demandVars => DemandInv'
  BY DemandStep
<1>3. QED
  BY <1>1, <1>2, PTL DEF DemandSpec

-----------------------------------------------------------------------------
\* The three classes, and who is external.
LEMMA Classes ==
    ASSUME NEW row \in SaleRows
    PROVE  /\ Class(row) \in {"operator", "unknown", "external"}
           /\ Class(row) = "external" <=> Stranger(row) /\ Wallets # {}
<1>1. row.payer \in Payers \cup {NoPayer} /\ row.catalog \in BOOLEAN
  BY DEF SaleRows
<1>2. NoPayer \notin Payers /\ Wallets \subseteq Payers /\ Known \subseteq Payers
  BY DemandAssumption
<1>3. CASE row.catalog \/ row.payer \in Known
  BY <1>3 DEF Class, Stranger
<1>4. CASE ~(row.catalog \/ row.payer \in Known) /\ (row.payer = NoPayer \/ Wallets = {})
  BY <1>2, <1>4 DEF Class, Stranger
<1>5. CASE /\ ~(row.catalog \/ row.payer \in Known) /\ ~(row.payer = NoPayer \/ Wallets = {})
           /\ row.payer \in Wallets
  BY <1>5 DEF Class, Stranger
<1>6. CASE /\ ~(row.catalog \/ row.payer \in Known) /\ ~(row.payer = NoPayer \/ Wallets = {})
           /\ row.payer \notin Wallets
  BY <1>1, <1>6 DEF Class, Stranger
<1>7. QED
  BY <1>3, <1>4, <1>5, <1>6

\* The classes divide a sequence of rows.
LEMMA SoldThree ==
    ASSUME NEW s \in Seq(SaleRows)
    PROVE  Len(Sold(s, "external")) + Len(Sold(s, "operator")) + Len(Sold(s, "unknown")) = Len(s)
<1> DEFINE E == {row \in SaleRows : Class(row) = "external"}
           O == {row \in SaleRows : Class(row) = "operator"}
           U == {row \in SaleRows : Class(row) = "unknown"}
<1>1. \A x \in SaleRows : \/ x \in E /\ x \notin O /\ x \notin U
                          \/ x \notin E /\ x \in O /\ x \notin U
                          \/ x \notin E /\ x \notin O /\ x \in U
  BY Classes
<1>2. Sold(s, "external") = Keep(s, E) /\ Sold(s, "operator") = Keep(s, O) /\ Sold(s, "unknown") = Keep(s, U)
  BY DEF Sold
<1> HIDE DEF E, O, U
<1>3. Len(Keep(s, E)) + Len(Keep(s, O)) + Len(Keep(s, U)) = Len(s)
  BY <1>1, KeepThree
<1>4. QED
  BY <1>2, <1>3

\* The window of a resource, and its customers, as sets.
Windowed(r) == {row \in ToSet(sales) : row.res = r /\ began # NoTime /\ row.at >= began}
Customers(r) == {row \in Windowed(r) : Stranger(row) /\ Wallets # {}}

LEMMA WindowIs ==
    ASSUME DemandInv, NEW r \in Resources
    PROVE  /\ InWindow(r) \in Seq(SaleRows)
           /\ Len(InWindow(r)) = Cardinality(Windowed(r)) /\ IsFiniteSet(Windowed(r))
           /\ Len(Sold(InWindow(r), "external")) = Cardinality(Customers(r))
<1>1. PICK q \in Seq(SaleRows) : q = sales
  BY DEF DemandInv, DemandTypeOK
<1>2. since = began
  BY DEF DemandInv, DemandTypeOK
<1> DEFINE A == {row \in SaleRows : row.res = r}
           B == {row \in SaleRows : since # NoTime /\ row.at >= since}
           AB == {row \in SaleRows : row.res = r /\ since # NoTime /\ row.at >= since}
           E == {row \in SaleRows : Class(row) = "external"}
           ABE == {row \in SaleRows : /\ row.res = r /\ since # NoTime /\ row.at >= since
                                      /\ Class(row) = "external"}
<1>3. \A x \in SaleRows : /\ x \in AB <=> (x \in A /\ x \in B)
                          /\ x \in ABE <=> (x \in AB /\ x \in E)
  OBVIOUS
<1>4. InWindow(r) = Keep(Keep(q, A), B)
  BY <1>1 DEF InWindow, Of
<1>5. Sold(InWindow(r), "external") = Keep(InWindow(r), E)
  BY DEF Sold
<1>6. ToSet(sales) = {q[i] : i \in 1 .. Len(q)} /\ \A i, j \in 1 .. Len(q) : q[i] = q[j] => i = j
  BY <1>1, SalesFinite
<1>7. \A row \in ToSet(sales) : row \in SaleRows
  BY SalesFinite
<1>8. Windowed(r) = {x \in {q[i] : i \in 1 .. Len(q)} : x \in AB}
  BY <1>2, <1>6, <1>7 DEF Windowed
<1>9. Customers(r) = {x \in {q[i] : i \in 1 .. Len(q)} : x \in ABE}
  <2>1. \A row \in ToSet(sales) : Class(row) = "external" <=> Stranger(row) /\ Wallets # {}
    BY <1>7, Classes
  <2>2. QED
    BY <1>2, <1>6, <1>7, <2>1 DEF Windowed, Customers
<1> HIDE DEF A, B, AB, E, ABE
<1>10. InWindow(r) = Keep(q, AB)
  BY <1>3, <1>4, KeepKeep
<1>11. Sold(InWindow(r), "external") = Keep(q, ABE)
  <2>1. Keep(Keep(q, AB), E) = Keep(q, ABE)
    BY <1>3, KeepKeep
  <2>2. QED
    BY <1>5, <1>10, <2>1
<1>12. InWindow(r) \in Seq(SaleRows)
  BY <1>10, KeepType
<1>13. IsFiniteSet(Windowed(r)) /\ Cardinality(Windowed(r)) = Len(Keep(q, AB))
  <2>1. LET M == {x \in {q[i] : i \in 1 .. Len(q)} : x \in AB}
        IN  IsFiniteSet(M) /\ Cardinality(M) = Len(Keep(q, AB))
    BY <1>6, KeepCount
  <2>2. QED
    BY <1>8, <2>1
<1>14. Cardinality(Customers(r)) = Len(Keep(q, ABE))
  BY <1>6, <1>9, KeepCount
<1>15. QED
  BY <1>10, <1>11, <1>12, <1>13, <1>14

\* A customer looked, or its stamp is among those of the sales without a look.
LEMMA CustomersLooked ==
    ASSUME DemandInv, NEW r \in Resources
    PROVE  Cardinality(Customers(r))
             <= views[r].all + Cardinality({row \in Customers(r) : row.at \in unseen})
<1>1. PICK C, D, S : /\ C = Customers(r) /\ S = Seen(r)
                     /\ D = {row \in Customers(r) : row.at \in unseen}
  OBVIOUS
<1>2. IsFiniteSet(S)
  BY <1>1, SalesFinite
<1>3. IsFiniteSet(C) /\ IsFiniteSet(D)
  <2>1. IsFiniteSet(Windowed(r))
    BY WindowIs
  <2>2. C \subseteq Windowed(r) /\ D \subseteq Windowed(r)
    BY <1>1 DEF Customers
  <2>3. QED
    BY <2>1, <2>2, FS_Subset
<1>4. C \subseteq S \cup D
  BY <1>1 DEF Customers, Windowed, Seen
<1>5. IsFiniteSet(S \cup D) /\ Cardinality(C) <= Cardinality(S \cup D)
  <2>1. IsFiniteSet(S \cup D)
    BY <1>2, <1>3, FS_Union
  <2>2. QED
    BY <1>4, <2>1, FS_Subset
<1>6. Cardinality(S \cup D) = Cardinality(S) + Cardinality(D) - Cardinality(S \cap D)
  BY <1>2, <1>3, FS_Union
<1>7. IsFiniteSet(S \cap D)
  <2>1. S \cap D \subseteq S
    OBVIOUS
  <2>2. QED
    BY <1>2, <2>1, FS_Subset
<1>8. /\ Cardinality(S) \in Nat /\ Cardinality(D) \in Nat
      /\ Cardinality(S \cap D) \in Nat /\ Cardinality(C) \in Nat
  BY <1>2, <1>3, <1>7, FS_CardinalityType
<1>9. Cardinality(S) <= views[r].all /\ views[r].all \in Nat
  <2>1. IsFiniteSet(LookedAt(r)) /\ Cardinality(LookedAt(r)) \in Nat
    BY SalesFinite, FS_CardinalityType
  <2>2. Cardinality(S) + Cardinality(LookedAt(r)) <= views[r].all
    BY <1>1 DEF DemandInv, ViewsOK
  <2>3. views[r].all \in Nat
    BY DEF DemandInv, DemandTypeOK
  <2>4. QED
    BY <1>8, <2>1, <2>2, <2>3
<1>10. Cardinality(C) <= views[r].all + Cardinality(D)
  <2>1. PICK c \in Nat, s \in Nat, d \in Nat, i \in Nat, u \in Nat, v \in Nat :
           /\ c = Cardinality(C) /\ s = Cardinality(S) /\ d = Cardinality(D)
           /\ i = Cardinality(S \cap D) /\ v = views[r].all
           /\ u = s + d
    BY <1>8, <1>9
  <2>2. c <= s + d - i /\ s <= v
    BY <1>5, <1>6, <1>9, <2>1
  <2>3. c <= v + d
    BY <2>2
  <2>4. QED
    BY <2>1, <2>3
<1>11. QED
  BY <1>1, <1>10

\* The funnel of a resource compares sales and views of one time, whatever was
\* forgotten by a restart and whatever Redis failed to count.
THEOREM FunnelTheorem == DemandSpec => []FunnelIsHonest
<1>1. ASSUME DemandInv, NEW r \in Resources
      PROVE  /\ Funnel(r).window = Cardinality(Windowed(r))
             /\ Funnel(r).window = Funnel(r).external + Funnel(r).operator + Funnel(r).unknown
             /\ Funnel(r).external = Cardinality(Customers(r))
             /\ Funnel(r).external
                  <= Funnel(r).served + Cardinality({row \in Customers(r) : row.at \in unseen})
             /\ Funnel(r).qualified <= Funnel(r).served
  <2>1. /\ Funnel(r).served = views[r].all /\ Funnel(r).qualified = views[r].able
        /\ Funnel(r).window = Len(InWindow(r))
        /\ Funnel(r).external = Len(Sold(InWindow(r), "external"))
        /\ Funnel(r).operator = Len(Sold(InWindow(r), "operator"))
        /\ Funnel(r).unknown = Len(Sold(InWindow(r), "unknown"))
    BY DEF Funnel
  <2>2. /\ InWindow(r) \in Seq(SaleRows)
        /\ Len(InWindow(r)) = Cardinality(Windowed(r))
        /\ Len(Sold(InWindow(r), "external")) = Cardinality(Customers(r))
    BY <1>1, WindowIs
  <2>3. PICK w \in Seq(SaleRows) : w = InWindow(r)
    BY <2>2
  <2>4. Len(Sold(w, "external")) + Len(Sold(w, "operator")) + Len(Sold(w, "unknown")) = Len(w)
    BY SoldThree
  <2>5. Cardinality(Customers(r))
          <= views[r].all + Cardinality({row \in Customers(r) : row.at \in unseen})
    BY <1>1, CustomersLooked
  <2>6. views[r].able <= views[r].all
    BY <1>1 DEF DemandInv, ViewsOK
  <2>7. QED
    BY <2>1, <2>2, <2>3, <2>4, <2>5, <2>6
<1>2. DemandInv => FunnelIsHonest
  BY <1>1 DEF FunnelIsHonest, Windowed, Customers
<1>3. QED
  BY <1>2, DemandInvHolds, PTL

-----------------------------------------------------------------------------
\* The rows of the swarm among those of a class.
LEMMA SwarmOf ==
    ASSUME DemandInv, NEW class
    PROVE  Revenue(class).swarm
             = Len(Sold(Keep(sales, {row \in SaleRows : row.res \in Composites}), class))
<1>1. PICK q \in Seq(SaleRows) : q = sales
  BY DEF DemandInv, DemandTypeOK
<1> DEFINE L == {row \in SaleRows : Class(row) = class}
           M == {row \in SaleRows : SwarmRow(row)}
           C == {row \in SaleRows : row.res \in Composites}
           LM == {row \in SaleRows : Class(row) = class /\ SwarmRow(row)}
           CL == {row \in SaleRows : row.res \in Composites /\ Class(row) = class}
<1>2. \A x \in SaleRows : /\ x \in LM <=> (x \in L /\ x \in M)
                          /\ x \in CL <=> (x \in C /\ x \in L)
  OBVIOUS
<1>3. \A i \in 1 .. Len(q) : q[i] \in LM <=> q[i] \in CL
  <2> SUFFICES ASSUME NEW i \in 1 .. Len(q) PROVE q[i] \in LM <=> q[i] \in CL
    OBVIOUS
  <2>1. q[i] \in SaleRows
    BY ElementOfSeq
  <2>2. q[i].run = (q[i].res \in Composites)
    BY <1>1 DEF DemandInv, RowsOK
  <2>3. listed \subseteq Composites
    BY DEF DemandInv, DemandTypeOK
  <2>4. SwarmRow(q[i]) <=> q[i].res \in Composites
    BY <2>2, <2>3 DEF SwarmRow
  <2>5. QED
    BY <2>1, <2>4
<1>4. Revenue(class).swarm = Len(Keep(Keep(q, L), M))
  BY <1>1 DEF Revenue, Sold
<1>5. Sold(Keep(sales, {row \in SaleRows : row.res \in Composites}), class) = Keep(Keep(q, C), L)
  BY <1>1 DEF Sold
<1> HIDE DEF L, M, C, LM, CL
<1>6. Keep(Keep(q, L), M) = Keep(q, LM)
  BY <1>2, KeepKeep
<1>7. Keep(Keep(q, C), L) = Keep(q, CL)
  BY <1>2, KeepKeep
<1>8. Keep(q, LM) = Keep(q, CL)
  BY <1>3, KeepSame
<1>9. QED
  BY <1>4, <1>5, <1>6, <1>7, <1>8

\* The sum over resources of what is settled.
Settlements(S) == MapThenSumSet(LAMBDA r : Funnel(r).settled, S)

LEMMA SettlementsAre ==
    ASSUME NEW S, IsFiniteSet(S), \A r \in S : Funnel(r).settled \in Int
    PROVE  Settlements(S) = SumOver([r \in S |-> Funnel(r).settled], S)
<1> DEFINE w == [x \in S |-> Funnel(x).settled]
           Sums(g) == g = [s \in SUBSET S |-> IF s = {} THEN 0
                             ELSE Funnel(CHOOSE x \in s : TRUE).settled + g[s \ {CHOOSE x \in s : TRUE}]]
           iter == CHOOSE g : Sums(g)
<1>1. Settlements(S) = iter[S]
  BY DEF Settlements, MapThenSumSet, MapThenFoldSet
<1>2. \A x \in S : w[x] = Funnel(x).settled /\ w[x] \in Int
  OBVIOUS
<1> HIDE DEF w
<1>3. PICK g : IsSum(g, w, S)
  BY <1>2, SumExists
<1>4. ASSUME NEW s \in SUBSET S
      PROVE  SumStep(g, w, s) = IF s = {} THEN 0 ELSE Funnel(Pick(s)).settled + g[s \ {Pick(s)}]
  BY <1>2, PickIn DEF SumStep
<1>5. Sums(g)
  BY <1>3, <1>4 DEF IsSum, Pick
<1>6. Sums(iter)
  BY <1>5
<1> HIDE DEF iter
<1>7. ASSUME NEW s \in SUBSET S
      PROVE  SumStep(iter, w, s) = IF s = {} THEN 0 ELSE Funnel(Pick(s)).settled + iter[s \ {Pick(s)}]
  BY <1>2, PickIn DEF SumStep
<1>8. IsSum(iter, w, S)
  BY <1>6, <1>7 DEF IsSum, Pick
<1>9. SumOver(w, S) = iter[S]
  BY <1>2, <1>8, SumIs
<1>10. QED
  BY <1>1, <1>9 DEF w

\* What each resource has settled makes up the ledger.
LEMMA SettledAll ==
    ASSUME DemandInv
    PROVE  Settlements(Resources) = Len(sales)
<1>1. PICK q \in Seq(SaleRows) : q = sales
  BY DEF DemandInv, DemandTypeOK
<1>2. PICK kind : kind = [r \in Resources |-> {row \in SaleRows : row.res = r}]
  OBVIOUS
<1>3. \A r \in Resources : kind[r] = {row \in SaleRows : row.res = r}
  BY <1>2
<1>4. IsFiniteSet(Resources)
  BY DemandAssumption
<1>5. \A x \in SaleRows : \E k \in Resources : x \in kind[k] /\ \A l \in Resources : x \in kind[l] => l = k
  <2> SUFFICES ASSUME NEW x \in SaleRows
               PROVE  \E k \in Resources : x \in kind[k] /\ \A l \in Resources : x \in kind[l] => l = k
    OBVIOUS
  <2>1. x.res \in Resources
    BY DEF SaleRows
  <2>2. QED
    BY <1>3, <2>1
<1>6. KindSum(kind, q, Resources) = Len(q)
  BY <1>4, <1>5, KeepKinds
<1>7. \A r \in Resources : /\ Funnel(r).settled = Len(Keep(q, kind[r]))
                           /\ Len(Keep(q, kind[r])) \in Nat
  <2> SUFFICES ASSUME NEW r \in Resources
               PROVE  Funnel(r).settled = Len(Keep(q, kind[r])) /\ Len(Keep(q, kind[r])) \in Nat
    OBVIOUS
  <2>1. Funnel(r).settled = Len(Keep(q, kind[r]))
    BY <1>1, <1>3 DEF Funnel, Of
  <2>2. Keep(q, kind[r]) \in Seq(SaleRows)
    BY KeepType
  <2>3. QED
    BY <2>1, <2>2
<1>8. [r \in Resources |-> Funnel(r).settled] = [r \in Resources |-> Len(Keep(q, kind[r]))]
  BY <1>7
<1>9. Settlements(Resources) = SumOver([r \in Resources |-> Funnel(r).settled], Resources)
  BY <1>4, <1>7, SettlementsAre
<1>10. QED
  BY <1>1, <1>6, <1>8, <1>9 DEF KindSum

\* A page has the newest rows, and of each class no more than the ledger.
LEMMA PageShows ==
    ASSUME DemandInv, NEW class
    PROVE  /\ sales # <<>> => Newest(sales) # <<>> /\ Newest(sales)[1] = sales[Len(sales)]
           /\ Len(Sold(Newest(sales), class)) <= Len(Sold(sales, class))
           /\ Len(sales) <= PageLimit => Len(Sold(Newest(sales), class)) = Len(Sold(sales, class))
<1>1. PICK q \in Seq(SaleRows), n \in Nat :
         q = sales /\ n = IF Len(q) > PageLimit THEN PageLimit ELSE Len(q)
  BY DemandAssumption DEF DemandInv, DemandTypeOK
<1>2. PICK p : p = [i \in 1 .. n |-> q[Len(q) + 1 - i]]
  OBVIOUS
<1>3. p = Newest(sales)
  BY <1>1, <1>2 DEF Newest
<1>4. \A i \in 1 .. n : Len(q) + 1 - i \in 1 .. Len(q) /\ p[i] = q[Len(q) + 1 - i] /\ p[i] \in SaleRows
  <2> SUFFICES ASSUME NEW i \in 1 .. n
               PROVE  Len(q) + 1 - i \in 1 .. Len(q) /\ p[i] = q[Len(q) + 1 - i] /\ p[i] \in SaleRows
    OBVIOUS
  <2>1. n <= Len(q)
    BY <1>1, DemandAssumption
  <2>2. Len(q) + 1 - i \in 1 .. Len(q)
    BY <2>1
  <2>3. QED
    BY <1>2, <2>2, ElementOfSeq
<1>5. p \in Seq(SaleRows) /\ Len(p) = n
  BY <1>2, <1>4
<1>6. \A i, j \in 1 .. Len(q) : q[i] = q[j] => i = j
  BY <1>1, SalesFinite
<1>7. \A i, j \in 1 .. Len(p) : p[i] = p[j] => i = j
  <2> SUFFICES ASSUME NEW i \in 1 .. n, NEW j \in 1 .. n, p[i] = p[j] PROVE i = j
    BY <1>5
  <2>1. Len(q) + 1 - i = Len(q) + 1 - j
    BY <1>4, <1>6
  <2>2. QED
    BY <2>1
<1> DEFINE S == {row \in SaleRows : Class(row) = class}
           P == {x \in {p[i] : i \in 1 .. Len(p)} : x \in S}
           Q == {x \in {q[i] : i \in 1 .. Len(q)} : x \in S}
<1>8. Sold(Newest(sales), class) = Keep(p, S) /\ Sold(sales, class) = Keep(q, S)
  BY <1>1, <1>3 DEF Sold
<1>9. P \subseteq Q
  BY <1>4, <1>5
<1>10. ASSUME Len(q) <= PageLimit PROVE Q \subseteq P
  <2>1. n = Len(q) /\ Len(q) \in Nat
    BY <1>1, <1>10, DemandAssumption
  <2>2. \A i \in 1 .. Len(q) : Len(q) + 1 - i \in 1 .. n /\ p[Len(q) + 1 - i] = q[i]
    <3> SUFFICES ASSUME NEW i \in 1 .. Len(q)
                 PROVE  Len(q) + 1 - i \in 1 .. n /\ p[Len(q) + 1 - i] = q[i]
      OBVIOUS
    <3>0. Len(q) + 1 - i \in 1 .. n
      BY <2>1
    <3>1. PICK k \in 1 .. n : k = Len(q) + 1 - i
      BY <3>0
    <3>2. Len(q) + 1 - k = i
      BY <2>1, <3>1
    <3>3. QED
      BY <1>4, <3>1, <3>2
  <2>3. QED
    BY <1>5, <2>2
<1> HIDE DEF S
<1>11. IsFiniteSet(P) /\ Cardinality(P) = Len(Keep(p, S))
  BY <1>5, <1>7, KeepCount
<1>12. IsFiniteSet(Q) /\ Cardinality(Q) = Len(Keep(q, S))
  BY <1>6, KeepCount
<1>13. Len(Keep(p, S)) <= Len(Keep(q, S))
  BY <1>9, <1>11, <1>12, FS_Subset
<1>14. Len(q) <= PageLimit => Len(Keep(p, S)) = Len(Keep(q, S))
  <2>1. ASSUME Len(q) <= PageLimit PROVE P = Q
    BY <1>9, <1>10, <2>1
  <2>2. QED
    BY <1>11, <1>12, <2>1
<1>15. q # <<>> => p # <<>> /\ p[1] = q[Len(q)]
  <2> SUFFICES ASSUME q # <<>> PROVE p # <<>> /\ p[1] = q[Len(q)]
    OBVIOUS
  <2>1. Len(q) \in Nat \ {0} /\ n \in Nat \ {0}
    BY <1>1, DemandAssumption
  <2>2. p # <<>>
    BY <1>5, <2>1
  <2>3. p[1] = q[Len(q) + 1 - 1]
    BY <1>4, <2>1
  <2>4. QED
    BY <2>1, <2>2, <2>3
<1>16. QED
  BY <1>1, <1>3, <1>8, <1>13, <1>14, <1>15

\* The revenue report, the funnels and the ledger page agree, whatever is booked,
\* pruned, trimmed, read and forgotten, for any limits: what runs made stays theirs
\* when their listing is gone, and a page shows the newest sales, all of them unless
\* the ledger has outgrown it.
THEOREM ReportsTheorem == DemandSpec => []ReportsAgree
<1>1. ASSUME DemandInv
      PROVE  Revenue("external").swarm + Revenue("operator").swarm + Revenue("unknown").swarm
               = Len(Keep(sales, {row \in SaleRows : row.res \in Composites}))
  <2>1. sales \in Seq(SaleRows)
    BY <1>1 DEF DemandInv, DemandTypeOK
  <2>2. PICK m \in Seq(SaleRows) : m = Keep(sales, {row \in SaleRows : row.res \in Composites})
    <3>1. PICK q \in Seq(SaleRows) : q = sales
      BY <2>1
    <3>2. Keep(q, {row \in SaleRows : row.res \in Composites}) \in Seq(SaleRows)
      BY KeepType
    <3>3. QED
      BY <3>1, <3>2
  <2>3. Len(Sold(m, "external")) + Len(Sold(m, "operator")) + Len(Sold(m, "unknown")) = Len(m)
    BY SoldThree
  <2>4. /\ Revenue("external").swarm = Len(Sold(m, "external"))
        /\ Revenue("operator").swarm = Len(Sold(m, "operator"))
        /\ Revenue("unknown").swarm = Len(Sold(m, "unknown"))
    BY <1>1, <2>2, SwarmOf
  <2>5. QED
    BY <2>2, <2>3, <2>4
<1>2. DemandInv => MapThenSumSet(LAMBDA r : Funnel(r).settled, Resources) = Len(sales)
  BY SettledAll DEF Settlements
<1>3. ASSUME DemandInv, page.cached
      PROVE  /\ sales # <<>> => page.rows # <<>> /\ page.rows[1] = sales[Len(sales)]
             /\ \A class \in {"external", "operator", "unknown"} :
                   /\ Len(Sold(page.rows, class)) <= Revenue(class).storefront
                   /\ Len(sales) <= PageLimit
                         => Len(Sold(page.rows, class)) = Revenue(class).storefront
  <2>1. page.rows = Newest(sales)
    BY <1>3 DEF DemandInv, PageOK
  <2>2. \A class : Revenue(class).storefront = Len(Sold(sales, class))
    BY DEF Revenue
  <2>3. QED
    BY <1>3, <2>1, <2>2, PageShows
<1>4. DemandInv => ReportsAgree
  BY <1>1, <1>2, <1>3 DEF ReportsAgree
<1>5. QED
  BY <1>4, DemandInvHolds, PTL

-----------------------------------------------------------------------------
(* The verifier: the groups. *)

QmaSpec == QmaInit /\ [][QmaNext]_qmaVars

Tags == [by : {1, 2}, claim : QmaClaims]
Like(a, b) == <<a.claim.topic, b.claim.topic>> \in Alike

\* A claim extends the first group that it fits, or is a group of its own.
LEMMA PlaceIs ==
    ASSUME NEW groups \in Seq(Seq(Tags)), NEW c \in Tags
    PROVE  \/ /\ \A k \in 1 .. Len(groups) : ~Like(c, groups[k][1])
              /\ Place(groups, c) = Append(groups, <<c>>)
           \/ \E k \in 1 .. Len(groups) :
                 /\ Like(c, groups[k][1])
                 /\ \A l \in 1 .. Len(groups) : l < k => ~Like(c, groups[l][1])
                 /\ Place(groups, c) = [groups EXCEPT ![k] = Append(groups[k], c)]
<1> DEFINE fit == {i \in DOMAIN groups : <<c.claim.topic, groups[i][1].claim.topic>> \in Alike}
           k == CHOOSE i \in fit : \A j \in fit : i <= j
<1>1. DOMAIN groups = 1 .. Len(groups) /\ Len(groups) \in Nat
  OBVIOUS
<1>2. Place(groups, c) = IF fit = {} THEN Append(groups, <<c>>)
                         ELSE [groups EXCEPT ![k] = Append(groups[k], c)]
  BY DEF Place
<1>3. \A i \in 1 .. Len(groups) : i \in fit <=> Like(c, groups[i][1])
  BY <1>1 DEF Like
<1>4. fit \subseteq 1 .. Len(groups)
  BY <1>1
<1> HIDE DEF fit
<1>5. CASE fit = {}
  BY <1>2, <1>3, <1>5
<1>6. CASE fit # {}
  <2>1. fit \subseteq Nat
    BY <1>1, <1>4
  <2>2. \E i \in fit : \A j \in fit : i <= j
    BY <1>6, <2>1, SmallestNat
  <2>3. k \in fit /\ \A j \in fit : k <= j
    BY <2>2
  <2> HIDE DEF k
  <2>4. \A l \in 1 .. Len(groups) : l < k => ~Like(c, groups[l][1])
    <3>1. \A l \in 1 .. Len(groups) : l < k => l \notin fit
      BY <1>4, <2>3
    <3>2. QED
      BY <1>3, <3>1
  <2>5. QED
    BY <1>2, <1>3, <1>4, <1>6, <2>3, <2>4
<1>7. QED
  BY <1>5, <1>6

\* The groups of the first n claims of s: made of these, each claim like the first of its
\* group and like the first of no earlier one.
Grouping(groups, s, n) ==
    /\ groups \in Seq(Seq(Tags))
    /\ \A k \in 1 .. Len(groups) : Len(groups[k]) >= 1
    /\ \A k \in 1 .. Len(groups) : \A m \in 1 .. Len(groups[k]) :
          /\ \E j \in 1 .. n : s[j] = groups[k][m]
          /\ Like(groups[k][m], groups[k][1])
          /\ \A l \in 1 .. Len(groups) : l < k => ~Like(groups[k][m], groups[l][1])
    /\ \A j \in 1 .. n : \E k \in 1 .. Len(groups) : \E m \in 1 .. Len(groups[k]) :
          groups[k][m] = s[j]

LEMMA PlaceKeeps ==
    ASSUME NEW s \in Seq(Tags), NEW n \in 1 .. Len(s), NEW groups, Grouping(groups, s, n - 1)
    PROVE  Grouping(Place(groups, s[n]), s, n)
<1>1. PICK c \in Tags : c = s[n]
  BY ElementOfSeq
<1>2. groups \in Seq(Seq(Tags))
  BY DEF Grouping
<1>3. PICK L \in Nat : L = Len(groups)
  BY <1>2
<1>4. PICK h : h = Place(groups, c)
  OBVIOUS
<1>5. \A a \in Tags : Like(a, a)
  BY QmaAssumption DEF Like, Tags, QmaClaims
<1>6. (\A j \in 1 .. n : j = n \/ j \in 1 .. (n - 1)) /\ (\A j \in 1 .. (n - 1) : j \in 1 .. n)
      /\ n \in 1 .. n
  OBVIOUS
<1>7. \A k \in 1 .. L : groups[k] \in Seq(Tags) /\ Len(groups[k]) \in Nat
  BY <1>2, <1>3
<1>8. \A k \in 1 .. L : Len(groups[k]) >= 1
  BY <1>3 DEF Grouping
<1>9. ASSUME NEW k \in 1 .. L, NEW m \in 1 .. Len(groups[k])
      PROVE  /\ \E j \in 1 .. n : s[j] = groups[k][m]
             /\ Like(groups[k][m], groups[k][1])
             /\ \A l \in 1 .. L : l < k => ~Like(groups[k][m], groups[l][1])
  <2>1. /\ \E j \in 1 .. (n - 1) : s[j] = groups[k][m]
        /\ Like(groups[k][m], groups[k][1])
        /\ \A l \in 1 .. L : l < k => ~Like(groups[k][m], groups[l][1])
    BY <1>3 DEF Grouping
  <2>2. QED
    BY <1>6, <2>1
<1>10. \A j \in 1 .. (n - 1) : \E k \in 1 .. L : \E m \in 1 .. Len(groups[k]) : groups[k][m] = s[j]
  BY <1>3 DEF Grouping
<1>11. CASE /\ \A k \in 1 .. Len(groups) : ~Like(c, groups[k][1])
            /\ h = Append(groups, <<c>>)
  <2>1. <<c>> \in Seq(Tags) /\ Len(<<c>>) = 1 /\ <<c>>[1] = c
    OBVIOUS
  <2>2. PICK one : one = <<c>>
    OBVIOUS
  <2>3. one \in Seq(Tags) /\ Len(one) = 1 /\ one[1] = c
    BY <2>1, <2>2
  <2>4. h = Append(groups, one)
    BY <1>11, <2>2
  <2>5. h \in Seq(Seq(Tags))
    BY <1>2, <2>3, <2>4
  <2>6. Len(h) = L + 1 /\ h[L + 1] = one /\ \A k \in 1 .. L : h[k] = groups[k]
    BY <1>2, <1>3, <2>3, <2>4
  <2>7. PICK M \in Nat : M = Len(h) /\ M = L + 1
    BY <2>6
  <2>8. /\ \A k \in 1 .. M : k = L + 1 \/ k \in 1 .. L
        /\ \A k \in 1 .. L : k \in 1 .. M
        /\ L + 1 \in 1 .. M
        /\ \A k \in 1 .. M : \A l \in 1 .. M : l < k => l \in 1 .. L
    BY <2>7
  <2>14. Len(h[L + 1]) = 1 /\ h[L + 1][1] = c
    BY <2>3, <2>6
  <2>9. \A k \in 1 .. M : Len(h[k]) >= 1
    <3>1. \A k \in 1 .. L : Len(h[k]) >= 1
      BY <1>8, <2>6
    <3>2. ASSUME NEW k \in 1 .. M PROVE Len(h[k]) >= 1
      <4>1. CASE k = L + 1
        BY <2>14, <4>1
      <4>2. CASE k \in 1 .. L
        BY <3>1, <4>2
      <4>3. QED
        BY <2>8, <4>1, <4>2
    <3>3. QED
      BY <3>2
  <2>10. ASSUME NEW k \in 1 .. M, NEW m \in 1 .. Len(h[k])
         PROVE  /\ \E j \in 1 .. n : s[j] = h[k][m]
                /\ Like(h[k][m], h[k][1])
                /\ \A l \in 1 .. M : l < k => ~Like(h[k][m], h[l][1])
    <3>1. \A l \in 1 .. M : l < k => l \in 1 .. L /\ h[l] = groups[l]
      BY <2>6, <2>8
    <3>2. CASE k = L + 1
      <4>1. Len(h[k]) = 1 /\ h[k][1] = c
        BY <2>14, <3>2
      <4>2. m = 1
        BY <4>1
      <4>3. h[k][m] = c /\ h[k][1] = c
        BY <4>1, <4>2
      <4>4. QED
        BY <1>1, <1>3, <1>5, <1>6, <1>11, <3>1, <4>3
    <3>3. CASE k \in 1 .. L
      <4>1. h[k] = groups[k] /\ m \in 1 .. Len(groups[k])
        BY <2>6, <3>3
      <4>2. PICK g : g = groups[k]
        OBVIOUS
      <4>3. /\ \E j \in 1 .. n : s[j] = g[m]
            /\ Like(g[m], g[1])
            /\ \A l \in 1 .. L : l < k => ~Like(g[m], groups[l][1])
        BY <1>9, <3>3, <4>1, <4>2
      <4>4. QED
        BY <3>1, <4>1, <4>2, <4>3
    <3>4. QED
      BY <2>8, <3>2, <3>3
  <2>11. ASSUME NEW j \in 1 .. n
         PROVE  \E k \in 1 .. M : \E m \in 1 .. Len(h[k]) : h[k][m] = s[j]
    <3>1. CASE j = n
      <4>1. 1 \in 1 .. Len(h[L + 1]) /\ h[L + 1][1] = s[j]
        BY <1>1, <2>14, <3>1
      <4>2. QED
        BY <2>8, <4>1
    <3>2. CASE j \in 1 .. (n - 1)
      <4>1. PICK k \in 1 .. L : \E m \in 1 .. Len(groups[k]) : groups[k][m] = s[j]
        BY <1>10, <3>2
      <4>2. k \in 1 .. M /\ h[k] = groups[k]
        BY <2>6, <2>8
      <4>3. QED
        BY <4>1, <4>2
    <3>3. QED
      BY <1>6, <3>1, <3>2
  <2>12. Grouping(h, s, n)
    BY <2>5, <2>7, <2>9, <2>10, <2>11 DEF Grouping
  <2>13. QED
    BY <1>1, <1>4, <2>12
<1>12. ASSUME NEW q \in 1 .. Len(groups), Like(c, groups[q][1]),
              \A l \in 1 .. Len(groups) : l < q => ~Like(c, groups[l][1]),
              h = [groups EXCEPT ![q] = Append(groups[q], c)]
       PROVE  Grouping(Place(groups, s[n]), s, n)
  <2>1. PICK g : g = groups[q]
    OBVIOUS
  <2>2. q \in 1 .. L /\ g \in Seq(Tags) /\ Len(g) \in Nat /\ Len(g) >= 1
    BY <1>3, <1>7, <1>8, <2>1
  <2>3. PICK e : e = Append(g, c)
    OBVIOUS
  <2>4. /\ e \in Seq(Tags) /\ Len(e) = Len(g) + 1 /\ e[Len(g) + 1] = c
        /\ \A m \in 1 .. Len(g) : e[m] = g[m]
    BY <2>2, <2>3
  <2>5. PICK E \in Nat, G \in Nat : E = Len(e) /\ G = Len(g) /\ E = G + 1 /\ G >= 1
    BY <2>2, <2>4
  <2>6. /\ \A m \in 1 .. E : m = G + 1 \/ m \in 1 .. G
        /\ G + 1 \in 1 .. E /\ 1 \in 1 .. G /\ \A m \in 1 .. G : m \in 1 .. E
    BY <2>5
  <2>7. h = [groups EXCEPT ![q] = e]
    BY <1>12, <2>1, <2>3
  <2>8. h \in Seq(Seq(Tags)) /\ Len(h) = L
    BY <1>2, <1>3, <2>4, <2>7
  <2>9. h[q] = e /\ \A k \in 1 .. L : k # q => h[k] = groups[k]
    BY <1>2, <1>3, <2>2, <2>7
  <2>10. \A k \in 1 .. L : h[k][1] = groups[k][1]
    BY <2>1, <2>4, <2>5, <2>6, <2>9
  <2>11. \A k \in 1 .. L : Len(h[k]) >= 1
    <3>1. E >= 1
      BY <2>5
    <3>2. QED
      BY <1>8, <2>5, <2>9, <3>1
  <2>12. ASSUME NEW k \in 1 .. L, NEW m \in 1 .. Len(h[k])
         PROVE  /\ \E j \in 1 .. n : s[j] = h[k][m]
                /\ Like(h[k][m], h[k][1])
                /\ \A l \in 1 .. L : l < k => ~Like(h[k][m], h[l][1])
    <3>1. PICK x, y : x = h[k][m] /\ y = groups[k][1]
      OBVIOUS
    <3>2. CASE k # q
      <4>1. h[k] = groups[k] /\ m \in 1 .. Len(groups[k]) /\ x = groups[k][m]
        BY <2>9, <3>1, <3>2
      <4>2. /\ \E j \in 1 .. n : s[j] = x
            /\ Like(x, y)
            /\ \A l \in 1 .. L : l < k => ~Like(x, groups[l][1])
        BY <1>9, <3>1, <4>1
      <4>3. QED
        BY <2>10, <3>1, <4>2
    <3>3. CASE k = q /\ m \in 1 .. G
      <4>1. x = groups[k][m] /\ m \in 1 .. Len(groups[k])
        BY <2>1, <2>4, <2>5, <2>9, <3>1, <3>3
      <4>2. /\ \E j \in 1 .. n : s[j] = x
            /\ Like(x, y)
            /\ \A l \in 1 .. L : l < k => ~Like(x, groups[l][1])
        BY <1>9, <3>1, <4>1
      <4>3. QED
        BY <2>10, <3>1, <4>2
    <3>4. CASE k = q /\ m = G + 1
      <4>1. x = c
        BY <2>4, <2>5, <2>9, <3>1, <3>4
      <4>2. /\ \E j \in 1 .. n : s[j] = x
            /\ Like(x, y)
            /\ \A l \in 1 .. L : l < k => ~Like(x, groups[l][1])
        BY <1>1, <1>3, <1>6, <1>12, <3>1, <3>4, <4>1
      <4>3. QED
        BY <2>10, <3>1, <4>2
    <3>5. QED
      BY <2>5, <2>6, <2>9, <3>2, <3>3, <3>4
  <2>13. ASSUME NEW j \in 1 .. n
         PROVE  \E k \in 1 .. L : \E m \in 1 .. Len(h[k]) : h[k][m] = s[j]
    <3>1. CASE j = n
      <4>1. G + 1 \in 1 .. Len(h[q]) /\ h[q][G + 1] = s[j]
        BY <1>1, <2>4, <2>5, <2>6, <2>9, <3>1
      <4>2. QED
        BY <2>2, <4>1
    <3>2. CASE j \in 1 .. (n - 1)
      <4>1. PICK k \in 1 .. L : \E m \in 1 .. Len(groups[k]) : groups[k][m] = s[j]
        BY <1>10, <3>2
      <4>2. PICK m \in 1 .. Len(groups[k]) : groups[k][m] = s[j]
        BY <4>1
      <4>3. m \in 1 .. Len(h[k]) /\ h[k][m] = groups[k][m]
        <5>1. CASE k = q
          <6>1. m \in 1 .. G /\ groups[k] = g
            BY <2>1, <2>5, <5>1
          <6>2. QED
            BY <2>4, <2>5, <2>6, <2>9, <5>1, <6>1
        <5>2. CASE k # q
          BY <2>9, <5>2
        <5>3. QED
          BY <5>1, <5>2
      <4>4. QED
        BY <4>2, <4>3
    <3>3. QED
      BY <1>6, <3>1, <3>2
  <2>14. Grouping(h, s, n)
    BY <2>8, <2>11, <2>12, <2>13 DEF Grouping
  <2>15. QED
    BY <1>1, <1>4, <2>14
<1>13. QED
  BY <1>2, <1>4, <1>11, <1>12, PlaceIs

LEMMA GroupedIs ==
    ASSUME NEW s \in Seq(Tags)
    PROVE  Grouping(Grouped(s), s, Len(s))
<1> DEFINE A == Seq(Seq(Tags))
           n == Len(s)
           Rec(f) == f = [i \in 0 .. Len(s) |-> IF i = 0 THEN <<>> ELSE Place(f[i - 1], s[i])]
           grouped == CHOOSE f : Rec(f)
           step == [p \in (1 .. n) \X A |-> Place(p[2], s[p[1]])]
<1>1. Grouped(s) = grouped[Len(s)]
  BY DEF Grouped
<1>2. n \in Nat /\ <<>> \in A
  OBVIOUS
<1>3. \A i \in 1 .. n, a \in A : step[<<i, a>>] = Place(a, s[i])
  OBVIOUS
<1>4. ASSUME NEW i \in 1 .. n, NEW a \in A PROVE Place(a, s[i]) \in A
  <2>1. PICK c \in Tags : c = s[i]
    BY ElementOfSeq
  <2>2. \A k \in 1 .. Len(a) : a[k] \in Seq(Tags) /\ Append(a[k], c) \in Seq(Tags)
    OBVIOUS
  <2>3. <<c>> \in Seq(Tags)
    OBVIOUS
  <2>4. Append(a, <<c>>) \in A
    BY <2>3
  <2>5. ASSUME NEW k \in 1 .. Len(a) PROVE [a EXCEPT ![k] = Append(a[k], c)] \in A
    <3>1. PICK e \in Seq(Tags) : e = Append(a[k], c)
      BY <2>2
    <3>2. [a EXCEPT ![k] = e] \in A
      OBVIOUS
    <3>3. QED
      BY <3>1, <3>2
  <2>6. \/ Place(a, c) = Append(a, <<c>>)
        \/ \E k \in 1 .. Len(a) : Place(a, c) = [a EXCEPT ![k] = Append(a[k], c)]
    BY PlaceIs
  <2>7. QED
    BY <2>1, <2>4, <2>5, <2>6
<1> HIDE DEF step
<1>5. \E f : Rec(f)
  <2>1. \A i \in 1 .. n, a \in A : step[<<i, a>>] \in A
    BY <1>3, <1>4
  <2>2. PICK m \in Nat : m = n
    BY <1>2
  <2>3. PICK f : IsRec(f, step, <<>>, A, m)
    <3>1. Steps(step, A, m)
      BY <2>1, <2>2 DEF Steps
    <3>2. QED
      BY <1>2, <3>1, RecExists
  <2>4. ASSUME NEW i \in 0 .. m
        PROVE  f[i] = IF i = 0 THEN <<>> ELSE Place(f[i - 1], s[i])
    <3>1. CASE i # 0
      <4>1. i \in 1 .. n /\ i - 1 \in 0 .. m
        BY <2>2, <3>1
      <4>2. f[i - 1] \in A /\ f[i] = step[<<i, f[i - 1]>>]
        BY <2>3, <3>1, <4>1 DEF IsRec
      <4>3. QED
        BY <1>3, <3>1, <4>1, <4>2
    <3>2. CASE i = 0
      BY <2>3, <3>2 DEF IsRec
    <3>3. QED
      BY <3>1, <3>2
  <2>5. Rec(f)
    <3>1. f = [i \in 0 .. m |-> f[i]]
      BY <2>3 DEF IsRec
    <3>2. QED
      BY <2>2, <2>4, <3>1
  <2>6. QED
    BY <2>5
<1>6. Rec(grouped)
  BY <1>5
<1> HIDE DEF grouped
<1> DEFINE Bad == {i \in 0 .. n : ~Grouping(grouped[i], s, i)}
<1>7. Bad = {}
  <2> SUFFICES ASSUME Bad # {} PROVE FALSE
    OBVIOUS
  <2>1. Bad \subseteq Nat
    OBVIOUS
  <2> HIDE DEF Bad
  <2>2. PICK i \in Bad : \A j \in Bad : i <= j
    BY <2>1, SmallestNat
  <2>3. i \in 0 .. n /\ ~Grouping(grouped[i], s, i)
    BY DEF Bad
  <2>4. grouped[i] = IF i = 0 THEN <<>> ELSE Place(grouped[i - 1], s[i])
    BY <1>6, <2>3
  <2>5. i # 0
    <3>1. 1 .. 0 = {} /\ Len(<<>>) = 0
      OBVIOUS
    <3>2. Grouping(<<>>, s, 0)
      BY <1>2, <3>1 DEF Grouping
    <3>3. QED
      BY <2>3, <2>4, <3>2
  <2>6. i - 1 \in 0 .. n /\ i - 1 \notin Bad /\ i \in 1 .. Len(s)
    BY <2>2, <2>3, <2>5
  <2>7. Grouping(grouped[i - 1], s, i - 1)
    BY <2>6 DEF Bad
  <2>8. PICK g : g = grouped[i - 1]
    OBVIOUS
  <2>9. Grouping(Place(g, s[i]), s, i)
    BY <2>6, <2>7, <2>8, PlaceKeeps
  <2>10. QED
    BY <2>3, <2>4, <2>5, <2>8, <2>9
<1>8. n \in 0 .. n
  BY <1>2
<1>9. QED
  BY <1>1, <1>7, <1>8

-----------------------------------------------------------------------------
(* The verifier: what an accepted report says. *)

Tagging == Tagged(1) \o Tagged(2)

\* Both witnesses have answered.
BothAnswered == merlin \in Seq(Answers) /\ Len(merlin) = 2

LEMMA TagsAre ==
    ASSUME BothAnswered
    PROVE  /\ Tagging \in Seq(Tags)
           /\ \A j \in 1 .. Len(Tagging) : Tagging[j].claim \in ToSet(merlin[Tagging[j].by])
           /\ \A w \in {1, 2} : \A c \in ToSet(merlin[w]) :
                 \E j \in 1 .. Len(Tagging) : Tagging[j] = [by |-> w, claim |-> c]
<1>1. PICK a, b : a = merlin[1] /\ b = merlin[2]
  OBVIOUS
<1>2. a \in Seq(QmaClaims) /\ b \in Seq(QmaClaims)
  <2>1. merlin[1] \in Answers /\ merlin[2] \in Answers
    BY DEF BothAnswered
  <2>2. QED
    BY <1>1, <2>1, QmaAssumption
<1>3. PICK n \in Nat, m \in Nat : n = Len(a) /\ m = Len(b)
  BY <1>2
<1>4. PICK s, t : s = Tagged(1) /\ t = Tagged(2)
  OBVIOUS
<1>5. /\ s = [i \in 1 .. n |-> [by |-> 1, claim |-> a[i]]]
      /\ t = [i \in 1 .. m |-> [by |-> 2, claim |-> b[i]]]
  BY <1>1, <1>2, <1>3, <1>4 DEF Tagged
<1>6. /\ \A i \in 1 .. n : a[i] \in QmaClaims /\ s[i] = [by |-> 1, claim |-> a[i]]
      /\ \A i \in 1 .. m : b[i] \in QmaClaims /\ t[i] = [by |-> 2, claim |-> b[i]]
  BY <1>2, <1>3, <1>5
<1>7. s \in Seq(Tags) /\ Len(s) = n /\ t \in Seq(Tags) /\ Len(t) = m
  <2>1. ASSUME NEW i \in 1 .. n PROVE s[i] \in Tags
    <3>1. PICK c \in QmaClaims : c = a[i]
      BY <1>6
    <3>2. [by |-> 1, claim |-> c] \in Tags
      BY DEF Tags
    <3>3. QED
      BY <1>6, <3>1, <3>2
  <2>2. ASSUME NEW i \in 1 .. m PROVE t[i] \in Tags
    <3>1. PICK c \in QmaClaims : c = b[i]
      BY <1>6
    <3>2. [by |-> 2, claim |-> c] \in Tags
      BY DEF Tags
    <3>3. QED
      BY <1>6, <3>1, <3>2
  <2>3. s \in [1 .. n -> Tags] /\ t \in [1 .. m -> Tags]
    BY <1>5, <2>1, <2>2
  <2>4. QED
    BY <2>3
<1>8. PICK u : u = s \o t
  OBVIOUS
<1>9. /\ u \in Seq(Tags) /\ Len(u) = n + m
      /\ \A i \in 1 .. n : u[i] = s[i]
      /\ \A i \in 1 .. m : u[n + i] = t[i]
  <2>5. s \o t \in Seq(Tags) /\ Len(s \o t) = Len(s) + Len(t)
    BY <1>7
  <2>1. u \in Seq(Tags) /\ Len(u) = n + m
    <3>1. u \in Seq(Tags)
      BY <1>8, <2>5
    <3>2. Len(u) = n + m
      BY <1>7, <1>8, <2>5
    <3>3. QED
      BY <3>1, <3>2
  <2>2. \A i \in 1 .. n + m : u[i] = IF i <= n THEN s[i] ELSE t[i - n]
    BY <1>7, <1>8
  <2>3. /\ \A i \in 1 .. n : i \in 1 .. n + m /\ i <= n
        /\ \A i \in 1 .. m : n + i \in 1 .. n + m /\ ~(n + i <= n) /\ (n + i) - n = i
    OBVIOUS
  <2>4. QED
    BY <2>1, <2>2, <2>3
<1>10. ToSet(a) = {a[i] : i \in 1 .. n} /\ ToSet(b) = {b[i] : i \in 1 .. m}
  BY <1>2, <1>3 DEF ToSet
<1>11. ASSUME NEW j \in 1 .. Len(u) PROVE u[j].claim \in ToSet(merlin[u[j].by])
  <2>1. CASE j \in 1 .. n
    <3>1. u[j] = [by |-> 1, claim |-> a[j]]
      BY <1>6, <1>9, <2>1
    <3>2. QED
      BY <1>1, <1>10, <2>1, <3>1
  <2>2. CASE j \notin 1 .. n
    <3>1. PICK i \in 1 .. m : j = n + i
      <4>1. j - n \in 1 .. m /\ j = n + (j - n)
        BY <1>9, <2>2
      <4>2. QED
        BY <4>1
    <3>2. u[j] = [by |-> 2, claim |-> b[i]]
      BY <1>6, <1>9, <3>1
    <3>3. QED
      BY <1>1, <1>10, <3>2
  <2>3. QED
    BY <2>1, <2>2
<1>12. ASSUME NEW w \in {1, 2}, NEW c \in ToSet(merlin[w])
       PROVE  \E j \in 1 .. Len(u) : u[j] = [by |-> w, claim |-> c]
  <2>1. CASE w = 1
    <3>1. PICK i \in 1 .. n : c = a[i]
      BY <1>1, <1>10, <1>12, <2>1
    <3>2. i \in 1 .. Len(u) /\ u[i] = [by |-> 1, claim |-> a[i]]
      BY <1>6, <1>9
    <3>3. QED
      BY <2>1, <3>1, <3>2
  <2>2. CASE w = 2
    <3>1. PICK i \in 1 .. m : c = b[i]
      BY <1>1, <1>10, <1>12, <2>2
    <3>2. n + i \in 1 .. Len(u) /\ u[n + i] = [by |-> 2, claim |-> b[i]]
      BY <1>6, <1>9
    <3>3. QED
      BY <2>2, <3>1, <3>2
  <2>3. QED
    BY <2>1, <2>2
<1>13. u = Tagging
  BY <1>4, <1>8 DEF Tagging
<1>14. QED
  BY <1>9, <1>11, <1>12, <1>13

\* The groups of the round.
LEMMA GroupsAre ==
    ASSUME BothAnswered
    PROVE  /\ Groups \in Seq(Seq(Tags))
           /\ \A k \in 1 .. Len(Groups) : Len(Groups[k]) >= 1
           /\ \A k \in 1 .. Len(Groups) : \A m \in 1 .. Len(Groups[k]) :
                 /\ Groups[k][m] \in Tags
                 /\ Groups[k][m].claim \in ToSet(merlin[Groups[k][m].by])
                 /\ Like(Groups[k][m], Groups[k][1])
                 /\ \A l \in 1 .. Len(Groups) : l < k => ~Like(Groups[k][m], Groups[l][1])
           /\ \A w \in {1, 2} : \A c \in ToSet(merlin[w]) :
                 \E k \in 1 .. Len(Groups) : \E m \in 1 .. Len(Groups[k]) :
                    Groups[k][m] = [by |-> w, claim |-> c]
<1>1. PICK s \in Seq(Tags) : s = Tagging
  BY TagsAre
<1>2. PICK groups : groups = Grouped(s)
  OBVIOUS
<1>3. groups = Groups
  BY <1>1, <1>2 DEF Groups, Tagging
<1>4. Grouping(Groups, s, Len(s))
  BY <1>2, <1>3, GroupedIs
<1>5. Groups \in Seq(Seq(Tags)) /\ \A k \in 1 .. Len(Groups) : Len(Groups[k]) >= 1
  BY <1>4 DEF Grouping
<1>6. ASSUME NEW k \in 1 .. Len(Groups), NEW m \in 1 .. Len(Groups[k])
      PROVE  /\ Groups[k][m] \in Tags
             /\ Groups[k][m].claim \in ToSet(merlin[Groups[k][m].by])
             /\ Like(Groups[k][m], Groups[k][1])
             /\ \A l \in 1 .. Len(Groups) : l < k => ~Like(Groups[k][m], Groups[l][1])
  <2>1. /\ \E j \in 1 .. Len(s) : s[j] = Groups[k][m]
        /\ Like(Groups[k][m], Groups[k][1])
        /\ \A l \in 1 .. Len(Groups) : l < k => ~Like(Groups[k][m], Groups[l][1])
    BY <1>4 DEF Grouping
  <2>2. PICK j \in 1 .. Len(s) : s[j] = Groups[k][m]
    BY <2>1
  <2>3. s[j] \in Tags
    BY ElementOfSeq
  <2>4. s[j].claim \in ToSet(merlin[s[j].by])
    BY <1>1, TagsAre
  <2>5. QED
    BY <2>1, <2>2, <2>3, <2>4
<1>7. ASSUME NEW w \in {1, 2}, NEW c \in ToSet(merlin[w])
      PROVE  \E k \in 1 .. Len(Groups) : \E m \in 1 .. Len(Groups[k]) :
                Groups[k][m] = [by |-> w, claim |-> c]
  <2>1. PICK j \in 1 .. Len(s) : s[j] = [by |-> w, claim |-> c]
    BY <1>1, <1>7, TagsAre
  <2>2. \E k \in 1 .. Len(Groups) : \E m \in 1 .. Len(Groups[k]) : Groups[k][m] = s[j]
    BY <1>4 DEF Grouping
  <2>3. QED
    BY <2>1, <2>2
<1>8. QED
  BY <1>5, <1>6, <1>7

\* A claim about the topic that a group began with is in that group: it fits it, and
\* would have kept it from beginning if it were in an earlier one.
LEMMA SameGroup ==
    ASSUME BothAnswered, NEW k \in 1 .. Len(Groups), NEW l \in 1 .. Len(Groups),
           NEW m \in 1 .. Len(Groups[l]), Groups[l][m].claim.topic = Groups[k][1].claim.topic
    PROVE  l = k
<1>1. PICK g : g = Groups
  OBVIOUS
<1>2. g \in Seq(Seq(Tags)) /\ Len(g) \in Nat
  BY <1>1, GroupsAre
<1>3. Len(g[k]) >= 1 /\ g[k] \in Seq(Tags)
  BY <1>1, <1>2, GroupsAre
<1>4. 1 \in 1 .. Len(g[k])
  BY <1>3
<1>5. g[k][1] \in Tags /\ g[l][m] \in Tags
  BY <1>1, <1>4, GroupsAre
<1>6. g[k][1].claim.topic \in Topics
  BY <1>5 DEF Tags, QmaClaims
<1>7. Like(g[l][m], g[k][1])
  BY <1>1, <1>6, QmaAssumption DEF Like
<1>8. ~(k < l)
  BY <1>1, <1>7, GroupsAre
<1>9. ~(l < k)
  <2>1. l < k => ~Like(g[k][1], g[l][1])
    BY <1>1, <1>4, GroupsAre
  <2>2. Like(g[l][m], g[l][1])
    BY <1>1, GroupsAre
  <2>3. Like(g[k][1], g[l][1])
    BY <1>1, <2>2 DEF Like
  <2>4. QED
    BY <2>1, <2>3
<1>10. k \in Nat /\ l \in Nat
  BY <1>1, <1>2
<1>11. QED
  BY <1>8, <1>9, <1>10

\* Both witnesses say what an aligned group begins with, and neither denies it.
LEMMA AlignedSays ==
    ASSUME BothAnswered, NEW k \in 1 .. Len(Groups), Aligned(Groups[k]), NEW w \in {1, 2}
    PROVE  LET kept == Groups[k][1].claim
           IN  /\ \E c \in ToSet(merlin[w]) :
                     <<c.topic, kept.topic>> \in Alike /\ c.negated = kept.negated
               /\ \A c \in ToSet(merlin[w]) : c.topic = kept.topic => c = kept
<1>1. PICK g : g = Groups[k]
  OBVIOUS
<1>2. g \in Seq(Tags) /\ Len(g) \in Nat /\ Len(g) >= 1 /\ DOMAIN g = 1 .. Len(g)
  <2>1. Groups \in Seq(Seq(Tags)) /\ Len(Groups[k]) >= 1
    BY GroupsAre
  <2>2. g \in Seq(Tags)
    BY <1>1, <2>1
  <2>3. QED
    BY <1>1, <2>1, <2>2
<1>3. 1 \in 1 .. Len(g)
  BY <1>2
<1>4. \A m \in 1 .. Len(g) : /\ g[m] \in Tags /\ g[m].claim \in ToSet(merlin[g[m].by])
                             /\ Like(g[m], g[1])
  BY <1>1, GroupsAre
<1>5. \A m \in 1 .. Len(g) : g[m].claim.negated = g[1].claim.negated
  <2>1. Authors(g) = {1, 2} /\ Polarities(g) # BOOLEAN
    BY <1>1 DEF Aligned, Contested
  <2>2. SUFFICES ASSUME NEW m \in 1 .. Len(g), g[m].claim.negated # g[1].claim.negated
                 PROVE  FALSE
    OBVIOUS
  <2>3. g[m].claim.negated \in BOOLEAN /\ g[1].claim.negated \in BOOLEAN
    BY <1>3, <1>4 DEF Tags, QmaClaims
  <2>4. /\ g[m].claim.negated \in Polarities(g) /\ g[1].claim.negated \in Polarities(g)
        /\ Polarities(g) \subseteq BOOLEAN
    <3>1. \A i \in 1 .. Len(g) : g[i].claim.negated \in BOOLEAN
      BY <1>4 DEF Tags, QmaClaims
    <3>2. Polarities(g) = {g[i].claim.negated : i \in 1 .. Len(g)}
      BY <1>2 DEF Polarities
    <3>3. QED
      BY <1>3, <3>1, <3>2
  <2>5. PICK x, y, P : x = g[m].claim.negated /\ y = g[1].claim.negated /\ P = Polarities(g)
    OBVIOUS
  <2>6. x \in BOOLEAN /\ y \in BOOLEAN /\ x \in P /\ y \in P /\ P \subseteq BOOLEAN /\ x # y
    BY <2>2, <2>3, <2>4, <2>5
  <2>7. P = BOOLEAN
    BY <2>6
  <2>8. QED
    BY <2>1, <2>5, <2>7
<1>6. \E c \in ToSet(merlin[w]) :
         <<c.topic, g[1].claim.topic>> \in Alike /\ c.negated = g[1].claim.negated
  <2>1. w \in Authors(g)
    BY <1>1 DEF Aligned
  <2>2. PICK m \in 1 .. Len(g) : g[m].by = w
    BY <1>2, <2>1 DEF Authors
  <2>3. g[m].claim \in ToSet(merlin[w])
    BY <1>4, <2>2
  <2>4. QED
    BY <1>4, <1>5, <2>3 DEF Like
<1>7. ASSUME NEW c \in ToSet(merlin[w]), c.topic = g[1].claim.topic PROVE c = g[1].claim
  <2>1. PICK l \in 1 .. Len(Groups) :
           \E m \in 1 .. Len(Groups[l]) : Groups[l][m] = [by |-> w, claim |-> c]
    BY GroupsAre
  <2>2. PICK m \in 1 .. Len(Groups[l]) : Groups[l][m] = [by |-> w, claim |-> c]
    BY <2>1
  <2>3. Groups[l][m].claim = c
    BY <2>2
  <2>4. Groups[l][m].claim.topic = Groups[k][1].claim.topic
    BY <1>1, <1>7, <2>3
  <2>5. l = k
    BY <2>4, SameGroup
  <2>6. m \in 1 .. Len(g) /\ g[m].claim = c
    BY <1>1, <2>3, <2>5
  <2>7. c.negated = g[1].claim.negated
    BY <1>5, <2>6
  <2>8. c \in QmaClaims /\ g[1].claim \in QmaClaims
    BY <1>3, <1>4, <2>6 DEF Tags
  <2>9. QED
    BY <1>7, <2>7, <2>8 DEF QmaClaims
<1>8. QED
  BY <1>1, <1>6, <1>7

\* The report, in parts.
Merged == [i \in DOMAIN Corroborated(Groups) |-> Corroborated(Groups)[i][1].claim]
Unsound == Len(Keep(Merged, QmaClaims \ Valid))
Enough == Len(Groups) > 0 /\ 2000 * Len(Corroborated(Groups)) > 1599 * Len(Groups)
Accepts == Unsound = 0 /\ (\A i \in DOMAIN Groups : ~Contested(Groups[i])) /\ Enough

LEMMA JudgedIs ==
    ASSUME NEW copied
    PROVE  /\ Judged(copied).merged = Merged /\ Judged(copied).round = round
           /\ Judged(copied).verdict = "accept" <=> Accepts
<1>1. Judged(copied).merged = Merged /\ Judged(copied).round = round
  BY DEF Judged, Merged
<1>2. Judged(copied).verdict
         = IF ~(Unsound = 0 /\ \A i \in DOMAIN Groups : ~Contested(Groups[i])) THEN "reject"
           ELSE IF Enough THEN "accept" ELSE "iterate"
  BY DEF Judged, Merged, Unsound, Enough
<1>3. QED
  BY <1>1, <1>2 DEF Accepts

\* What is merged, and what is left out.
LEMMA MergedIs ==
    ASSUME BothAnswered
    PROVE  /\ Merged \in Seq(QmaClaims) /\ Len(Merged) = Len(Corroborated(Groups))
           /\ \A kept \in ToSet(Merged) :
                 \E k \in 1 .. Len(Groups) : Aligned(Groups[k]) /\ kept = Groups[k][1].claim
           /\ \A k \in 1 .. Len(Groups) :
                 \/ Groups[k][1].claim \in ToSet(Merged)
                 \/ Len(Merged) + 1 <= Len(Groups)
<1>1. PICK g \in Seq(Seq(Tags)) : g = Groups
  BY GroupsAre
<1>2. PICK T : T = ToSet(g)
  OBVIOUS
<1>3. T = {g[i] : i \in 1 .. Len(g)} /\ g \in Seq(T) /\ Len(g) \in Nat
  BY <1>2 DEF ToSet
<1>4. PICK A : A = {x \in T : Aligned(x)}
  OBVIOUS
<1>5. PICK s : s = Keep(g, A)
  OBVIOUS
<1>6. s = Corroborated(Groups)
  BY <1>1, <1>2, <1>4, <1>5 DEF Corroborated
<1>7. s \in Seq(A)
  <2>1. \A x \in T : x \in A => x \in A
    OBVIOUS
  <2>2. QED
    BY <1>3, <1>5, <2>1, KeepIn
<1>8. PICK a \in Nat : a = Len(s) /\ DOMAIN s = 1 .. a
  BY <1>7
<1>9. PICK reps : reps = Merged
  OBVIOUS
<1>10. reps = [i \in 1 .. a |-> s[i][1].claim]
  BY <1>6, <1>8, <1>9 DEF Merged
<1>11. ASSUME NEW i \in 1 .. a
       PROVE  /\ reps[i] = s[i][1].claim /\ reps[i] \in QmaClaims
              /\ \E k \in 1 .. Len(g) : Aligned(g[k]) /\ reps[i] = g[k][1].claim
  <2>1. s[i] \in A
    BY <1>7, <1>8, ElementOfSeq
  <2>2. PICK k \in 1 .. Len(g) : s[i] = g[k] /\ Aligned(g[k])
    BY <1>3, <1>4, <2>1
  <2>3. 1 \in 1 .. Len(g[k])
    <3>1. Len(g[k]) >= 1 /\ g[k] \in Seq(Tags)
      BY <1>1, GroupsAre
    <3>2. QED
      BY <3>1
  <2>4. g[k][1] \in Tags
    BY <1>1, <2>3, GroupsAre
  <2>5. g[k][1].claim \in QmaClaims
    BY <2>4 DEF Tags
  <2>6. QED
    BY <1>10, <2>2, <2>5
<1>12. reps \in Seq(QmaClaims) /\ Len(reps) = a
  <2>1. reps \in [1 .. a -> QmaClaims]
    BY <1>10, <1>11
  <2>2. QED
    BY <2>1
<1>13. ToSet(reps) = {reps[i] : i \in 1 .. a}
  <2>1. DOMAIN reps = 1 .. a
    BY <1>10
  <2>2. QED
    BY <2>1 DEF ToSet
<1>14. \A kept \in ToSet(reps) : \E k \in 1 .. Len(g) : Aligned(g[k]) /\ kept = g[k][1].claim
  BY <1>11, <1>13
<1>15. ASSUME NEW k \in 1 .. Len(g)
       PROVE  g[k][1].claim \in ToSet(reps) \/ Len(reps) + 1 <= Len(g)
  <2>1. CASE g[k] \in A
    <3>1. PICK j \in 1 .. a : s[j] = g[k]
      BY <1>3, <1>5, <1>8, <2>1, KeepHas
    <3>2. QED
      BY <1>11, <1>13, <3>1
  <2>2. CASE g[k] \notin A
    <3>1. Len(s) + 1 <= Len(g)
      BY <1>3, <1>5, <2>2, KeepFewer
    <3>2. QED
      BY <1>8, <1>12, <3>1
  <2>3. QED
    BY <2>1, <2>2
<1>16. QED
  BY <1>1, <1>6, <1>8, <1>9, <1>12, <1>14, <1>15

LEMMA AcceptedSays ==
    ASSUME BothAnswered, Judged(FALSE).verdict = "accept"
    PROVE  /\ \A kept \in ToSet(Merged) :
                 /\ kept \in Valid
                 /\ \A w \in {1, 2} :
                       /\ \E c \in ToSet(merlin[w]) :
                             <<c.topic, kept.topic>> \in Alike /\ c.negated = kept.negated
                       /\ \A c \in ToSet(merlin[w]) : c.topic = kept.topic => c = kept
           /\ (\E c \in ToSet(merlin[1] \o merlin[2]) :
                  \A kept \in ToSet(Merged) : <<c.topic, kept.topic>> \notin Alike)
                => Len(Merged) >= 4
<1>1. Unsound = 0 /\ 2000 * Len(Corroborated(Groups)) > 1599 * Len(Groups)
  <2>1. Accepts
    BY JudgedIs
  <2>2. QED
    BY <2>1 DEF Accepts, Enough
<1>2. Merged \in Seq(QmaClaims) /\ Len(Merged) = Len(Corroborated(Groups))
  BY MergedIs
<1>3. ASSUME NEW kept \in ToSet(Merged) PROVE kept \in Valid
  <2>1. PICK r \in Seq(QmaClaims) : r = Merged
    BY <1>2
  <2>2. PICK i \in 1 .. Len(r) : kept = r[i]
    BY <1>3, <2>1 DEF ToSet
  <2>3. kept \in QmaClaims
    BY <2>2, ElementOfSeq
  <2>4. SUFFICES ASSUME kept \notin Valid PROVE FALSE
    OBVIOUS
  <2>5. r[i] \in QmaClaims \ Valid
    BY <2>2, <2>3, <2>4
  <2>6. \E j \in 1 .. Len(Keep(r, QmaClaims \ Valid)) : Keep(r, QmaClaims \ Valid)[j] = r[i]
    BY <2>5, KeepHas
  <2>7. Len(Keep(r, QmaClaims \ Valid)) = 0
    BY <1>1, <2>1 DEF Unsound
  <2>8. QED
    BY <2>6, <2>7
<1>4. ASSUME NEW kept \in ToSet(Merged), NEW w \in {1, 2}
      PROVE  /\ \E c \in ToSet(merlin[w]) :
                   <<c.topic, kept.topic>> \in Alike /\ c.negated = kept.negated
             /\ \A c \in ToSet(merlin[w]) : c.topic = kept.topic => c = kept
  <2>1. PICK k \in 1 .. Len(Groups) : Aligned(Groups[k]) /\ kept = Groups[k][1].claim
    BY MergedIs
  <2>2. QED
    BY <2>1, AlignedSays
<1>5. ASSUME NEW c \in ToSet(merlin[1] \o merlin[2]),
             \A kept \in ToSet(Merged) : <<c.topic, kept.topic>> \notin Alike
      PROVE  Len(Merged) >= 4
  <2>1. PICK w \in {1, 2} : c \in ToSet(merlin[w])
    <3>1. PICK a, b : a = merlin[1] /\ b = merlin[2]
      OBVIOUS
    <3>2. a \in Seq(QmaClaims) /\ b \in Seq(QmaClaims)
      <4>1. merlin[1] \in Answers /\ merlin[2] \in Answers
        BY DEF BothAnswered
      <4>2. QED
        BY <3>1, <4>1, QmaAssumption
    <3>3. ToSet(a \o b) \subseteq ToSet(a) \cup ToSet(b)
      <4>1. /\ a \o b \in Seq(QmaClaims) /\ Len(a \o b) = Len(a) + Len(b)
            /\ Len(a) \in Nat /\ Len(b) \in Nat
            /\ \A i \in 1 .. Len(a) + Len(b) :
                  (a \o b)[i] = IF i <= Len(a) THEN a[i] ELSE b[i - Len(a)]
        BY <3>2
      <4>2. \A x \in ToSet(a \o b) : x \in ToSet(a) \cup ToSet(b)
        <5>1. SUFFICES ASSUME NEW x \in ToSet(a \o b) PROVE x \in ToSet(a) \cup ToSet(b)
          OBVIOUS
        <5>2. PICK i \in 1 .. Len(a) + Len(b) : x = (a \o b)[i]
          BY <4>1 DEF ToSet
        <5>3. CASE i <= Len(a)
          BY <3>2, <4>1, <5>2, <5>3 DEF ToSet
        <5>4. CASE ~(i <= Len(a))
          <6>1. i - Len(a) \in 1 .. Len(b) /\ x = b[i - Len(a)]
            BY <4>1, <5>2, <5>4
          <6>2. QED
            BY <3>2, <6>1 DEF ToSet
        <5>5. QED
          BY <5>3, <5>4
      <4>3. QED
        BY <4>2
    <3>4. QED
      BY <3>1, <3>3
  <2>2. PICK k \in 1 .. Len(Groups) :
           \E m \in 1 .. Len(Groups[k]) : Groups[k][m] = [by |-> w, claim |-> c]
    BY <2>1, GroupsAre
  <2>3. PICK m \in 1 .. Len(Groups[k]) : Groups[k][m] = [by |-> w, claim |-> c]
    BY <2>2
  <2>4. Like(Groups[k][m], Groups[k][1]) /\ Groups[k][m].claim = c
    BY <2>3, GroupsAre
  <2>5. Groups[k][1].claim \notin ToSet(Merged)
    BY <1>5, <2>4 DEF Like
  <2>6. Len(Merged) + 1 <= Len(Groups)
    BY <2>5, MergedIs
  <2>7. PICK a \in Nat, n \in Nat : a = Len(Merged) /\ n = Len(Groups)
    <3>1. Groups \in Seq(Seq(Tags))
      BY GroupsAre
    <3>2. QED
      BY <1>2, <3>1
  <2>8. 2000 * a > 1599 * n /\ a + 1 <= n
    BY <1>1, <1>2, <2>6, <2>7
  <2>9. a >= 4
    BY <2>8
  <2>10. QED
    BY <2>7, <2>9
<1>6. QED
  BY <1>3, <1>4, <1>5

-----------------------------------------------------------------------------
(* The verifier: the rounds. *)

QmaInv ==
    /\ merlin \in Seq(Answers)
    /\ qmaAt \in {"explorer", "auditor", "arthur", "done", "raised"}
    /\ qmaAt = "explorer" => Len(merlin) = 0
    /\ qmaAt = "auditor" => Len(merlin) = 1
    /\ qmaAt \in {"arthur", "done"} => Len(merlin) = 2
    /\ best.verdict = "accept" =>
          /\ qmaAt = "done" /\ Judged(FALSE).verdict = "accept"
          /\ best.merged = Merged /\ best.round = round
    /\ qmaAt = "done" /\ Judged(FALSE).verdict = "accept" => best.verdict = "accept"

\* Whether the wordings are copied changes nothing but the confidence.
LEMMA JudgedSame ==
    ASSUME NEW copied
    PROVE  /\ Judged(copied).verdict = "accept" <=> Judged(FALSE).verdict = "accept"
           /\ Judged(copied).merged = Merged /\ Judged(copied).round = round
<1>1. QED
  BY JudgedIs

\* What was merged is read off the answers.
LEMMA JudgedStays ==
    ASSUME UNCHANGED <<merlin, round>>
    PROVE  Judged(FALSE)' = Judged(FALSE) /\ Merged' = Merged
<1>1. Tagged(1)' = Tagged(1) /\ Tagged(2)' = Tagged(2)
  BY DEF Tagged
<1>2. Groups' = Groups
  BY <1>1 DEF Groups
<1>3. Merged' = Merged
  BY <1>2 DEF Merged
<1>4. Judged(FALSE)' = Judged(FALSE)
  BY <1>2 DEF Judged
<1>5. QED
  BY <1>3, <1>4

LEMMA QmaStep == QmaInv /\ [QmaNext]_qmaVars => QmaInv'
<1> SUFFICES ASSUME QmaInv, [QmaNext]_qmaVars PROVE QmaInv'
  OBVIOUS
<1>1. CASE Produce
  <2>1. PICK answer \in Answers : merlin' = Append(merlin, answer)
    BY <1>1 DEF Produce
  <2>2. merlin' \in Seq(Answers) /\ Len(merlin') = Len(merlin) + 1
    BY <2>1 DEF QmaInv
  <2>3. best.verdict # "accept" /\ best' = best /\ qmaAt' \in {"auditor", "arthur"}
    BY <1>1 DEF Produce, QmaInv
  <2>4. /\ qmaAt' = "auditor" => Len(merlin') = 1
        /\ qmaAt' = "arthur" => Len(merlin') = 2
    BY <1>1, <2>2 DEF Produce, QmaInv
  <2>5. QED
    BY <2>2, <2>3, <2>4 DEF QmaInv
<1>2. CASE ProducerRaises
  <2>1. /\ best.verdict # "accept" /\ best' = best /\ qmaAt' = "raised"
        /\ merlin' = merlin /\ merlin \in Seq(Answers)
    BY <1>2 DEF ProducerRaises, QmaInv
  <2>2. QED
    BY <2>1 DEF QmaInv
<1>3. CASE Arthur
  <2>1. PICK copied \in BOOLEAN :
           LET report == Judged(copied)
               over == report.verdict = "accept" \/ round = MaxRounds
           IN  /\ best' = IF report.verdict = "accept" \/ report.confidence >= best.confidence
                          THEN report ELSE best
               /\ qmaAt' = IF over THEN "done" ELSE "explorer"
               /\ round' = IF over THEN round ELSE round + 1
               /\ merlin' = IF over THEN merlin ELSE <<>>
    BY <1>3 DEF Arthur
  <2>2. PICK report : report = Judged(copied)
    OBVIOUS
  <2>3. best.verdict # "accept" /\ merlin \in Seq(Answers) /\ Len(merlin) = 2
    BY <1>3 DEF Arthur, QmaInv
  <2>4. /\ report.verdict = "accept" <=> Judged(FALSE).verdict = "accept"
        /\ report.merged = Merged /\ report.round = round
    BY <2>2, JudgedSame
  <2>5. CASE report.verdict = "accept" \/ round = MaxRounds
    <3>1. qmaAt' = "done" /\ UNCHANGED <<merlin, round>>
      BY <2>1, <2>2, <2>5
    <3>2. Judged(FALSE)' = Judged(FALSE) /\ Merged' = Merged
      BY <3>1, JudgedStays
    <3>3. CASE report.verdict = "accept"
      <4>1. best' = report
        BY <2>1, <2>2, <3>3
      <4>2. QED
        BY <2>3, <2>4, <3>1, <3>2, <3>3, <4>1 DEF QmaInv
    <3>4. CASE report.verdict # "accept"
      <4>1. best'.verdict # "accept"
        BY <2>1, <2>2, <2>3, <3>4
      <4>2. QED
        BY <2>3, <2>4, <3>1, <3>2, <3>4, <4>1 DEF QmaInv
    <3>5. QED
      BY <3>3, <3>4
  <2>6. CASE ~(report.verdict = "accept" \/ round = MaxRounds)
    <3>1. qmaAt' = "explorer" /\ merlin' = <<>> /\ (best' = report \/ best' = best)
      BY <2>1, <2>2, <2>6
    <3>2. best'.verdict # "accept"
      BY <2>3, <2>6, <3>1
    <3>3. <<>> \in Seq(Answers) /\ Len(<<>>) = 0
      OBVIOUS
    <3>4. QED
      BY <3>1, <3>2, <3>3 DEF QmaInv
  <2>7. QED
    BY <2>5, <2>6
<1>4. CASE UNCHANGED qmaVars
  <2>1. UNCHANGED <<round, merlin, best, qmaAt>>
    BY <1>4 DEF qmaVars
  <2>2. Judged(FALSE)' = Judged(FALSE) /\ Merged' = Merged
    BY <2>1, JudgedStays
  <2>3. QED
    BY <2>1, <2>2 DEF QmaInv
<1>5. QED
  BY <1>1, <1>2, <1>3, <1>4 DEF QmaNext

\* What the verifier accepts both witnesses of the last round have said and neither has
\* denied, for any topics, any likeness of them, any answers and validators.
THEOREM AcceptedTheorem == QmaSpec => []AcceptedIsCorroborated
<1>1. QmaInit => QmaInv
  <2> SUFFICES ASSUME QmaInit PROVE QmaInv
    OBVIOUS
  <2>1. <<>> \in Seq(Answers) /\ Len(<<>>) = 0
    OBVIOUS
  <2>2. merlin = <<>> /\ qmaAt = "explorer" /\ best.verdict = "none"
    BY DEF QmaInit, NoReportYet
  <2>3. QED
    BY <2>1, <2>2 DEF QmaInv
<1>2. QmaInv => AcceptedIsCorroborated
  <2> SUFFICES ASSUME QmaInv PROVE AcceptedIsCorroborated
    OBVIOUS
  <2>1. best.verdict = "accept" <=> qmaAt = "done" /\ Judged(FALSE).verdict = "accept"
    BY DEF QmaInv
  <2>2. CASE best.verdict = "accept"
    <3>1. BothAnswered
      BY <2>2 DEF QmaInv, BothAnswered
    <3>2. best.merged = Merged /\ best.round = round
      BY <2>2 DEF QmaInv
    <3>3. QED
      BY <2>1, <2>2, <3>1, <3>2, AcceptedSays DEF AcceptedIsCorroborated
  <2>3. QED
    BY <2>1, <2>2 DEF AcceptedIsCorroborated
<1>3. QED
  BY <1>1, <1>2, QmaStep, PTL DEF QmaSpec
=============================================================================

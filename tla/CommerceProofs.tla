--------------------------- MODULE CommerceProofs ---------------------------
(***************************************************************************)
(* The payments and the mails that settlements and agents send.            *)
(*                                                                         *)
(* The paid tool of the MCP server is booked, for any number of calls,     *)
(* payments, faults and whatever quota and price.  The property is not     *)
(* inductive: it speaks of calls that have ended.  The invariant adds where*)
(* a payment can be spent at all (only by a call that carries it and is    *)
(* past its settlement, unless a fault took the answer), what the alert of *)
(* a call can be before the tool has run, and that rows belong to calls    *)
(* that have ended and therefore change no more.                           *)
(*                                                                         *)
(* No mail reaches a recipient twice in one life of the process, and the   *)
(* ledger, the recipients and the answers tell one story but for the keys  *)
(* a fault touched, for any letters, callers, faults and restarts.  A key  *)
(* is asked for at the provider only when it is not remembered, and        *)
(* between the mail that goes out and the key that is remembered there is  *)
(* only the call that sent it, for the event loop runs no other.  An       *)
(* answer that is lost or a row that cannot be written changes neither.    *)
(*                                                                         *)
(* What pay_and_fetch signs, pays and reports, for any challenges, caps and*)
(* assets: the signed option is one of the challenge and within the cap    *)
(* from the signature to the report, no more than it moves, and what is    *)
(* reported is made of what moved, or of nothing where an answer was lost. *)
(*                                                                         *)
(* Pro tier and credit packs are granted for what was settled and for      *)
(* nothing else, for any agents, packs, payments, faults and restarts.     *)
(* The sums over the calls move with one call at a time: a purchase that   *)
(* ends behind its own settlement adds its pack on both sides, a call of   *)
(* the tool moves a credit from the balance to what was spent, and a fault *)
(* only takes.  A pack that is paid for is not empty, since terms of       *)
(* another pack refuse the purchase, and a payment is its call's own only  *)
(* from the settlement on.                                                 *)
(***************************************************************************)
EXTENDS Commerce, MailRail, Wire, McpGate, FoldLemmas, TLAPS

(* The paid tool. *)

GateSpec == GateInit /\ [][GateNext]_gateVars

Results == {"none", "terms", "catalog", "report", "upstream_unavailable", "unknown_city",
            "invalid_address", "quota_exceeded"}
CallPlaces == {"new", "free", "paying", "verified", "worked", "settled", "ended", "cut"}
Alerts == {"none", "catalog", "sample", "paid_mcp", "error"}
Amounts == 0 .. ListPrice
CallRecord ==
    [at : CallPlaces, tool : {"list", "sample", "check"}, city : {"known", "unknown", "blank"},
     address : {"good", "bad"}, pay : McpPayments \cup {NoPayment},
     result : Results, alert : Alerts, told : Amounts]

\* The values the variables take.
GateTypeOK ==
    /\ mcp \in [McpCalls -> CallRecord]
    /\ quotaLeft \in Nat
    /\ took \in [McpPayments -> McpCalls \cup {"nobody"}]
    /\ sales \subseteq [call : McpCalls, amount : Nat]
    /\ gateFaults \in Nat

Spent(c) == mcp[c].pay \in McpPayments /\ took[mcp[c].pay] = c

\* Where a call is, and what it can have by then.
PlaceInv ==
    \A c \in McpCalls :
        /\ mcp[c].at = "new" => mcp[c] = Uncalled
        /\ mcp[c].at = "free" => mcp[c].tool # "check"
        /\ mcp[c].at \in {"paying", "verified", "worked", "settled"} =>
              mcp[c].tool = "check" /\ mcp[c].pay \in McpPayments
        /\ mcp[c].at \in {"free", "paying", "verified"} => mcp[c].alert = "none"
        /\ mcp[c].at = "settled" => Spent(c)

\* A spent payment was spent by a call that carries it and is past the settlement;
\* if the call has ended and nothing failed, its row is there.
SpentInv ==
    /\ \A p \in McpPayments : took[p] # "nobody" =>
          /\ mcp[took[p]].pay = p
          /\ mcp[took[p]].at \in {"settled", "ended", "cut"}
    /\ gateFaults = 0 => \A c \in McpCalls :
          Spent(c) /\ mcp[c].at = "ended" /\ mcp[c].city = "known" => \E s \in sales : s.call = c

\* What ended calls answered and told.
AnswerInv ==
    \A c \in McpCalls : mcp[c].at = "ended" =>
        /\ mcp[c].tool = "check" /\ mcp[c].result = "report" => Spent(c)
        /\ mcp[c].alert = "paid_mcp" => Spent(c) \/ mcp[c].result = "terms"

RowInv ==
    \A s \in sales :
        /\ mcp[s.call].at = "ended" /\ Spent(s.call) /\ mcp[s.call].city = "known"
        /\ s.amount = Amount(mcp[s.call])

GateInv == GateTypeOK /\ PlaceInv /\ SpentInv /\ AnswerInv /\ RowInv

-----------------------------------------------------------------------------
LEMMA UncalledType == Uncalled \in CallRecord
  BY GateAssumption DEF Uncalled, CallRecord, CallPlaces, Results, Alerts, Amounts

LEMMA GateInitInv == GateInit => GateInv
<1> SUFFICES ASSUME GateInit PROVE GateInv
  OBVIOUS
<1> USE DEF GateInit
<1>1. \A c \in McpCalls : mcp[c] = Uncalled /\ mcp[c].at = "new"
  BY DEF Uncalled
<1>2. \A c \in McpCalls : ~Spent(c)
  BY <1>1, GateAssumption DEF Spent, Uncalled
<1>3. GateTypeOK
  BY UncalledType, GateAssumption DEF GateTypeOK
<1>4. PlaceInv /\ SpentInv /\ AnswerInv /\ RowInv
  BY <1>1, <1>2 DEF PlaceInv, SpentInv, AnswerInv, RowInv
<1>5. QED
  BY <1>3, <1>4 DEF GateInv

\* No call that is not past its settlement has spent a payment.
LEMMA NotSpentBefore ==
    ASSUME GateInv, NEW c \in McpCalls, mcp[c].at \notin {"settled", "ended", "cut"}
    PROVE  \A p \in McpPayments : took[p] # c
  BY GateAssumption DEF GateInv, GateTypeOK, SpentInv

\* A step of a call that spends nothing and tells nothing that counts.
LEMMA UnspentStep ==
    ASSUME GateInv, NEW c \in McpCalls, NEW r \in CallRecord,
           mcp' = [mcp EXCEPT ![c] = r], quotaLeft' \in Nat, UNCHANGED <<took, sales, gateFaults>>,
           mcp[c].at \notin {"settled", "ended", "cut"},
           r.at \in {"free", "paying", "verified", "worked", "ended"},
           r.at = "free" => r.tool # "check",
           r.at \in {"paying", "verified", "worked"} => r.tool = "check" /\ r.pay \in McpPayments,
           r.at \in {"free", "paying", "verified"} => r.alert = "none",
           r.at = "ended" => /\ ~(r.tool = "check" /\ r.result = "report")
                             /\ r.alert = "paid_mcp" => r.result = "terms"
    PROVE  GateInv'
<1> USE DEF GateInv, GateTypeOK
<1>1. \A p \in McpPayments : took[p] # c
  BY NotSpentBefore
<1>2. \A d \in McpCalls : d # c => mcp'[d] = mcp[d]
  OBVIOUS
<1>3. mcp'[c] = r
  OBVIOUS
<1>4. \A d \in McpCalls : d # c => Spent(d)' = Spent(d)
  BY <1>2 DEF Spent
<1>5. ~Spent(c) /\ ~Spent(c)'
  BY <1>1 DEF Spent
<1>6. GateTypeOK'
  OBVIOUS
<1>7. PlaceInv'
  BY <1>2, <1>3, <1>4 DEF PlaceInv
<1>8. SpentInv'
  BY <1>1, <1>2, <1>4, <1>5 DEF SpentInv
<1>9. AnswerInv'
  BY <1>2, <1>3, <1>4 DEF AnswerInv
<1>10. RowInv'
  <2>1. \A s \in sales : s.call # c /\ s.call \in McpCalls
    BY DEF RowInv
  <2>2. QED
    BY <1>2, <1>4, <2>1 DEF RowInv, Amount
<1>11. QED
  BY <1>6, <1>7, <1>8, <1>9, <1>10

\* A call is made.
LEMMA CallToolInv == ASSUME GateInv, NEW c \in McpCalls, CallTool(c) PROVE GateInv'
<1>1. PICK tool \in {"list", "sample", "check"}, city \in {"known", "unknown", "blank"},
           address \in {"good", "bad"}, pay \in McpPayments \cup {NoPayment} :
          mcp' = [mcp EXCEPT ![c] = Called(tool, city, address, pay)]
  BY DEF CallTool
<1> DEFINE r == Called(tool, city, address, pay)
<1>2. /\ r \in CallRecord /\ r.tool = tool /\ r.pay = pay /\ r.alert = "none"
      /\ r.at \in {"free", "paying", "ended"}
      /\ r.at = "free" => tool # "check"
      /\ r.at = "paying" => tool = "check" /\ pay \in McpPayments
      /\ r.at = "ended" => r.result = "terms"
  <2> DEFINE at == IF tool # "check" THEN "free" ELSE IF pay = NoPayment THEN "ended" ELSE "paying"
             result == IF at = "ended" THEN "terms" ELSE "none"
  <2>1. /\ at \in CallPlaces /\ at \in {"free", "paying", "ended"} /\ result \in Results
        /\ at = "free" => tool # "check"
        /\ at = "paying" => tool = "check" /\ pay \in McpPayments
        /\ at = "ended" => result = "terms"
    BY DEF CallPlaces, Results
  <2>2. r = [at |-> at, tool |-> tool, city |-> city, address |-> address, pay |-> pay,
             result |-> result, alert |-> "none", told |-> 0]
    BY DEF Called
  <2>3. "none" \in Alerts /\ 0 \in Amounts
    BY GateAssumption DEF Alerts, Amounts
  <2> HIDE DEF at, result, r
  <2>4. QED
    BY <2>1, <2>2, <2>3 DEF CallRecord
<1>3. mcp[c].at = "new" /\ UNCHANGED <<quotaLeft, took, sales, gateFaults>> /\ quotaLeft' \in Nat
  BY DEF CallTool, GateInv, GateTypeOK
<1> HIDE DEF r
<1>4. QED
  BY <1>1, <1>2, <1>3, UnspentStep DEF r

\* The quota refuses, or the tool runs to one of its results; only the check's report
\* is told as paid.
LEMMA RunGives ==
    ASSUME GateTypeOK, NEW c \in McpCalls, NEW at \in {"ended", "worked"}, Run(c, at)
    PROVE  /\ quotaLeft' \in Nat
           /\ \E r \in CallRecord :
                /\ mcp' = [mcp EXCEPT ![c] = r]
                /\ r.at = at /\ r.tool = mcp[c].tool /\ r.pay = mcp[c].pay
                /\ r.alert = "paid_mcp" => r.alert = mcp[c].alert \/ mcp[c].tool = "check"
<1>1. CASE quotaLeft = 0
  <2> DEFINE r == [mcp[c] EXCEPT !.at = at, !.result = "quota_exceeded"]
  <2>1. mcp' = [mcp EXCEPT ![c] = r] /\ quotaLeft' = quotaLeft
    BY <1>1 DEF Run
  <2>2. at \in CallPlaces /\ "quota_exceeded" \in Results
    BY DEF CallPlaces, Results
  <2>3. /\ r \in CallRecord /\ r.at = at
        /\ r.tool = mcp[c].tool /\ r.pay = mcp[c].pay /\ r.alert = mcp[c].alert
    BY <2>2 DEF GateTypeOK, CallRecord
  <2>4. QED
    BY <2>1, <2>3 DEF GateTypeOK
<1>2. CASE quotaLeft # 0
  <2>1. quotaLeft' = quotaLeft - 1 /\ quotaLeft \in Nat
    BY <1>2 DEF Run, GateTypeOK
  <2>2. PICK result \in ResultsOf(mcp[c]) :
           mcp' = [mcp EXCEPT ![c].at = at, ![c].result = result,
                              ![c].alert = AlertOf(mcp[c], result)]
    BY <1>2 DEF Run
  <2> DEFINE alert == AlertOf(mcp[c], result)
             r == [mcp[c] EXCEPT !.at = at, !.result = result, !.alert = alert]
  <2>3. result \in Results
    BY DEF ResultsOf, SampleResults, CheckResults, Results
  <2>4. /\ alert \in {"catalog", "sample", "paid_mcp", "error"}
        /\ alert = "paid_mcp" => mcp[c].tool = "check"
    BY DEF AlertOf
  <2> HIDE DEF alert
  <2>5. mcp' = [mcp EXCEPT ![c] = r]
    BY <2>2 DEF alert
  <2>6. at \in CallPlaces /\ alert \in Alerts
    BY <2>4 DEF CallPlaces, Alerts
  <2>7. r \in CallRecord /\ r.at = at /\ r.tool = mcp[c].tool /\ r.pay = mcp[c].pay /\ r.alert = alert
    BY <2>3, <2>6 DEF GateTypeOK, CallRecord
  <2> HIDE DEF r
  <2>8. quotaLeft' \in Nat
    BY <1>2, <2>1
  <2>9. QED
    BY <2>4, <2>5, <2>7, <2>8
<1>3. QED
  BY <1>1, <1>2

LEMMA FreeToolInv == ASSUME GateInv, NEW c \in McpCalls, FreeTool(c) PROVE GateInv'
<1>1. mcp[c].at = "free" /\ Run(c, "ended") /\ UNCHANGED <<took, sales, gateFaults>>
  BY DEF FreeTool, Run
<1>2. mcp[c].tool # "check" /\ mcp[c].alert = "none"
  BY <1>1 DEF GateInv, PlaceInv
<1>3. PICK r \in CallRecord :
                /\ mcp' = [mcp EXCEPT ![c] = r]
                /\ r.at = "ended" /\ r.tool = mcp[c].tool /\ r.pay = mcp[c].pay
                /\ r.alert = "paid_mcp" => r.alert = mcp[c].alert \/ mcp[c].tool = "check"
  BY <1>1, RunGives DEF GateInv
<1>4. quotaLeft' \in Nat
  BY <1>1, RunGives DEF GateInv
<1>5. QED
  BY <1>1, <1>2, <1>3, <1>4, UnspentStep

LEMMA PaidToolInv == ASSUME GateInv, NEW c \in McpCalls, PaidTool(c) PROVE GateInv'
<1>1. mcp[c].at = "verified" /\ Run(c, "worked") /\ UNCHANGED <<took, sales, gateFaults>>
  BY DEF PaidTool, Run
<1>2. mcp[c].tool = "check" /\ mcp[c].pay \in McpPayments
  BY <1>1 DEF GateInv, PlaceInv
<1>3. PICK r \in CallRecord :
                /\ mcp' = [mcp EXCEPT ![c] = r]
                /\ r.at = "worked" /\ r.tool = mcp[c].tool /\ r.pay = mcp[c].pay
  BY <1>1, RunGives DEF GateInv
<1>4. quotaLeft' \in Nat
  BY <1>1, RunGives DEF GateInv
<1>5. QED
  BY <1>1, <1>2, <1>3, <1>4, UnspentStep

LEMMA GateVerifiesInv == ASSUME GateInv, NEW c \in McpCalls, GateVerifies(c) PROVE GateInv'
<1>1. mcp[c].at = "paying" /\ UNCHANGED <<quotaLeft, took, sales, gateFaults>> /\ quotaLeft' \in Nat
  BY DEF GateVerifies, GateInv, GateTypeOK
<1>2. mcp[c].tool = "check" /\ mcp[c].pay \in McpPayments /\ mcp[c].alert = "none"
  BY <1>1 DEF GateInv, PlaceInv
<1>3. CASE mcp' = [mcp EXCEPT ![c].at = "verified"]
  <2> DEFINE r == [mcp[c] EXCEPT !.at = "verified"]
  <2>1. /\ r \in CallRecord /\ mcp' = [mcp EXCEPT ![c] = r] /\ r.at = "verified"
        /\ r.tool = mcp[c].tool /\ r.pay = mcp[c].pay /\ r.alert = mcp[c].alert
    BY <1>3 DEF GateInv, GateTypeOK, CallRecord, CallPlaces
  <2> HIDE DEF r
  <2>2. QED
    BY <1>1, <1>2, <2>1, UnspentStep
<1>4. CASE mcp' = [mcp EXCEPT ![c].at = "ended", ![c].result = "terms"]
  <2> DEFINE r == [mcp[c] EXCEPT !.at = "ended", !.result = "terms"]
  <2>1. /\ r \in CallRecord /\ mcp' = [mcp EXCEPT ![c] = r] /\ r.at = "ended"
        /\ r.result = "terms"
    <3>1. "ended" \in CallPlaces /\ "terms" \in Results
      BY DEF CallPlaces, Results
    <3>2. QED
      BY <1>4, <3>1 DEF GateInv, GateTypeOK, CallRecord
  <2> HIDE DEF r
  <2>2. QED
    BY <1>1, <1>2, <2>1, UnspentStep
<1>5. QED
  BY <1>3, <1>4 DEF GateVerifies

\* The funds move: the payment was nobody's, and it is the call's from now on.
LEMMA SpendStep ==
    ASSUME GateInv, NEW c \in McpCalls, NEW r \in CallRecord, mcp' = [mcp EXCEPT ![c] = r],
           UNCHANGED <<quotaLeft, sales>>,
           mcp[c].at = "worked", r.tool = mcp[c].tool, r.pay = mcp[c].pay,
           took[mcp[c].pay] = "nobody", took' = [took EXCEPT ![mcp[c].pay] = c],
           \/ r.at = "settled" /\ gateFaults' = gateFaults
           \/ r.at = "ended" /\ r.result = "terms" /\ gateFaults' = gateFaults + 1
    PROVE  GateInv'
<1> USE DEF GateInv, GateTypeOK
<1>1. mcp[c].tool = "check" /\ mcp[c].pay \in McpPayments /\ c # "nobody"
  BY GateAssumption DEF PlaceInv
<1>2. \A p \in McpPayments : took[p] # c
  BY NotSpentBefore
<1>3. /\ mcp'[c] = r /\ \A d \in McpCalls : d # c => mcp'[d] = mcp[d]
      /\ took'[r.pay] = c /\ \A p \in McpPayments : p # r.pay => took'[p] = took[p]
  BY <1>1
<1>4. Spent(c)'
  BY <1>1, <1>3 DEF Spent
<1>5. \A d \in McpCalls : d # c => (Spent(d)' <=> Spent(d))
  BY <1>1, <1>3, GateAssumption DEF Spent
<1>6. GateTypeOK'
  <2>1. mcp' \in [McpCalls -> CallRecord] /\ took' \in [McpPayments -> McpCalls \cup {"nobody"}]
    OBVIOUS
  <2>2. gateFaults' \in Nat
    OBVIOUS
  <2>3. QED
    BY <2>1, <2>2
<1>7. PlaceInv'
  BY <1>1, <1>3, <1>4, <1>5 DEF PlaceInv
<1>8. SpentInv'
  <2>1. ASSUME NEW p \in McpPayments, took'[p] # "nobody"
        PROVE  mcp'[took'[p]].pay = p /\ mcp'[took'[p]].at \in {"settled", "ended", "cut"}
    <3>1. CASE p = r.pay
      BY <1>3, <3>1
    <3>2. CASE p # r.pay
      BY <1>2, <1>3, <2>1, <3>2 DEF SpentInv
    <3>3. QED
      BY <3>1, <3>2
  <2>2. ASSUME gateFaults' = 0, NEW d \in McpCalls, Spent(d)', mcp'[d].at = "ended",
               mcp'[d].city = "known"
        PROVE  \E s \in sales' : s.call = d
    <3>1. d # c /\ gateFaults = 0
      BY <1>3, <2>2
    <3>2. QED
      BY <1>3, <1>5, <2>2, <3>1 DEF SpentInv
  <2>3. QED
    BY <2>1, <2>2 DEF SpentInv
<1>9. AnswerInv'
  BY <1>3, <1>4, <1>5 DEF AnswerInv
<1>10. RowInv'
  <2>1. \A s \in sales : s.call # c /\ s.call \in McpCalls
    BY DEF RowInv
  <2>2. QED
    BY <1>3, <1>5, <2>1 DEF RowInv, Amount
<1>11. QED
  BY <1>6, <1>7, <1>8, <1>9, <1>10

LEMMA SettleBehindInv == ASSUME GateInv, NEW c \in McpCalls, SettleBehind(c) PROVE GateInv'
<1>1. PICK told \in 0 .. ListPrice : mcp' = [mcp EXCEPT ![c].at = "settled", ![c].told = told]
  BY DEF SettleBehind
<1> DEFINE r == [mcp[c] EXCEPT !.at = "settled", !.told = told]
<1>2. "settled" \in CallPlaces /\ told \in Amounts
  BY DEF CallPlaces, Amounts
<1>3. /\ r \in CallRecord /\ mcp' = [mcp EXCEPT ![c] = r] /\ r.at = "settled"
      /\ r.tool = mcp[c].tool /\ r.pay = mcp[c].pay
  BY <1>1, <1>2 DEF GateInv, GateTypeOK, CallRecord
<1> HIDE DEF r
<1>4. QED
  BY <1>3, SpendStep DEF SettleBehind

LEMMA SettleRefusedInv == ASSUME GateInv, NEW c \in McpCalls, SettleRefused(c) PROVE GateInv'
<1> DEFINE r == [mcp[c] EXCEPT !.at = "ended", !.result = "terms"]
<1>1. "ended" \in CallPlaces /\ "terms" \in Results
  BY DEF CallPlaces, Results
<1>2. /\ r \in CallRecord /\ mcp' = [mcp EXCEPT ![c] = r] /\ r.at = "ended"
      /\ r.tool = mcp[c].tool /\ r.pay = mcp[c].pay /\ r.result = "terms"
  <2>1. mcp' = [mcp EXCEPT ![c] = r]
    BY DEF SettleRefused
  <2>2. QED
    BY <1>1, <2>1 DEF GateInv, GateTypeOK, CallRecord
<1> HIDE DEF r
<1>3. CASE UNCHANGED <<took, gateFaults>>
  <2>1. mcp[c].at = "worked" /\ UNCHANGED <<quotaLeft, took, sales, gateFaults>> /\ quotaLeft' \in Nat
    BY <1>3 DEF SettleRefused, GateInv, GateTypeOK
  <2>2. QED
    BY <1>2, <2>1, UnspentStep
<1>4. CASE /\ took[mcp[c].pay] = "nobody" /\ took' = [took EXCEPT ![mcp[c].pay] = c]
           /\ GateFault
  BY <1>2, <1>4, SpendStep DEF SettleRefused, GateFault
<1>5. QED
  BY <1>3, <1>4 DEF SettleRefused

\* The hook ends a settled call, with its row unless a fault took the append.
LEMMA HookInv == ASSUME GateInv, NEW c \in McpCalls, Hook(c) PROVE GateInv'
<1> USE DEF GateInv, GateTypeOK
<1> DEFINE r == [mcp[c] EXCEPT !.at = "ended"]
           row == [call |-> c, amount |-> Amount(mcp[c])]
<1>1. /\ r \in CallRecord /\ mcp' = [mcp EXCEPT ![c] = r] /\ r.at = "ended"
      /\ r.pay = mcp[c].pay /\ r.city = mcp[c].city /\ r.told = mcp[c].told
  BY DEF Hook, CallRecord, CallPlaces
<1>2. mcp[c].at = "settled" /\ Spent(c) /\ UNCHANGED <<quotaLeft, took>>
  BY DEF Hook, PlaceInv
<1>3. \/ sales' = sales /\ gateFaults' = gateFaults + 1
      \/ mcp[c].city # "known" /\ sales' = sales /\ gateFaults' = gateFaults
      \/ mcp[c].city = "known" /\ sales' = sales \cup {row} /\ gateFaults' = gateFaults
  BY DEF Hook, GateFault, Bookable
<1>4. Amount(mcp[c]) \in Nat
  BY GateAssumption DEF Amount, CallRecord, Amounts
<1> HIDE DEF r
<1>5. /\ mcp'[c] = r /\ \A d \in McpCalls : d # c => mcp'[d] = mcp[d]
  BY <1>1
<1>6. \A d \in McpCalls : Spent(d)' <=> Spent(d)
  BY <1>1, <1>2, <1>5 DEF Spent
<1>7. GateTypeOK'
  BY <1>1, <1>2, <1>3, <1>4
<1>8. PlaceInv'
  BY <1>1, <1>5, <1>6 DEF PlaceInv
<1>9. SpentInv'
  <2>1. \A p \in McpPayments : took'[p] # "nobody" =>
          mcp'[took'[p]].pay = p /\ mcp'[took'[p]].at \in {"settled", "ended", "cut"}
    BY <1>1, <1>2, <1>5 DEF SpentInv
  <2>2. ASSUME gateFaults' = 0, NEW d \in McpCalls, Spent(d)', mcp'[d].at = "ended",
               mcp'[d].city = "known"
        PROVE  \E s \in sales' : s.call = d
    <3>1. CASE d = c
      <4>1. mcp[c].city = "known" /\ sales' = sales \cup {row}
        BY <1>1, <1>3, <1>5, <2>2, <3>1
      <4>2. row \in sales' /\ row.call = d
        BY <3>1, <4>1
      <4>3. QED
        BY <4>2
    <3>2. CASE d # c
      <4>1. gateFaults = 0
        BY <1>3, <2>2
      <4>2. \E s \in sales : s.call = d
        BY <1>5, <1>6, <2>2, <3>2, <4>1 DEF SpentInv
      <4>3. QED
        BY <1>3, <4>2
    <3>3. QED
      BY <3>1, <3>2
  <2>3. QED
    BY <2>1, <2>2 DEF SpentInv
<1>10. AnswerInv'
  BY <1>2, <1>5, <1>6 DEF AnswerInv
<1>11. RowInv'
  <2>1. \A s \in sales : s.call # c /\ s.call \in McpCalls
    BY <1>2 DEF RowInv
  <2>2. row.call = c /\ row.amount = Amount(mcp'[c])
    BY <1>1, <1>5 DEF Amount
  <2> HIDE DEF row
  <2>3. \A s \in sales' : s \in sales \/ (s = row /\ mcp[c].city = "known")
    <3>1. \/ sales' = sales
          \/ mcp[c].city = "known" /\ sales' = sales \cup {row}
      BY <1>3
    <3>2. QED
      BY <3>1
  <2>4. QED
    BY <1>1, <1>2, <1>5, <1>6, <2>1, <2>2, <2>3 DEF RowInv, Amount
<1>12. QED
  BY <1>7, <1>8, <1>9, <1>10, <1>11

LEMMA GateRestartsInv == ASSUME GateInv, GateRestarts PROVE GateInv'
<1> USE DEF GateInv, GateTypeOK
<1>1. /\ mcp' = [c \in McpCalls |->
                  IF mcp[c].at \in {"new", "ended"} THEN mcp[c] ELSE [mcp[c] EXCEPT !.at = "cut"]]
      /\ quotaLeft' = McpQuota /\ gateFaults' = gateFaults + 1 /\ UNCHANGED <<took, sales>>
  BY DEF GateRestarts, GateFault
<1>2. GateTypeOK'
  <2>1. \A q \in CallRecord : [q EXCEPT !.at = "cut"] \in CallRecord
    BY DEF CallRecord, CallPlaces
  <2>2. mcp' \in [McpCalls -> CallRecord]
    BY <1>1, <2>1
  <2>3. QED
    BY <1>1, <2>2, GateAssumption
<1>3. PlaceInv'
  BY <1>1 DEF PlaceInv, Spent, CallRecord
<1>4. SpentInv'
  BY <1>1 DEF SpentInv, Spent, CallRecord
<1>5. AnswerInv'
  BY <1>1 DEF AnswerInv, Spent, CallRecord
<1>6. RowInv'
  BY <1>1 DEF RowInv, Spent, CallRecord, Amount
<1>7. QED
  BY <1>2, <1>3, <1>4, <1>5, <1>6

LEMMA GateStepInv == GateInv /\ [GateNext]_gateVars => GateInv'
<1> SUFFICES ASSUME GateInv, [GateNext]_gateVars PROVE GateInv'
  OBVIOUS
<1>1. ASSUME NEW c \in McpCalls, CallTool(c) PROVE GateInv'
  BY <1>1, CallToolInv
<1>2. ASSUME NEW c \in McpCalls, FreeTool(c) PROVE GateInv'
  BY <1>2, FreeToolInv
<1>3. ASSUME NEW c \in McpCalls, GateVerifies(c) PROVE GateInv'
  BY <1>3, GateVerifiesInv
<1>4. ASSUME NEW c \in McpCalls, PaidTool(c) PROVE GateInv'
  BY <1>4, PaidToolInv
<1>5. ASSUME NEW c \in McpCalls, SettleBehind(c) PROVE GateInv'
  BY <1>5, SettleBehindInv
<1>6. ASSUME NEW c \in McpCalls, SettleRefused(c) PROVE GateInv'
  BY <1>6, SettleRefusedInv
<1>7. ASSUME NEW c \in McpCalls, Hook(c) PROVE GateInv'
  BY <1>7, HookInv
<1>8. CASE GateRestarts
  BY <1>8, GateRestartsInv
<1>9. CASE UNCHANGED gateVars
  BY <1>9 DEF gateVars, GateInv, GateTypeOK, PlaceInv, SpentInv, AnswerInv, RowInv, Spent, Amount
<1>10. QED
  BY <1>1, <1>2, <1>3, <1>4, <1>5, <1>6, <1>7, <1>8, <1>9 DEF GateNext

LEMMA GateInvIsEnough == GateInv => PaidToolIsBooked
<1> SUFFICES ASSUME GateInv PROVE PaidToolIsBooked
  OBVIOUS
<1> USE DEF GateInv, GateTypeOK
<1>1. \A c \in McpCalls : Spent(c) <=> mcp[c].pay # NoPayment /\ took[mcp[c].pay] = c
  BY GateAssumption DEF Spent, CallRecord
<1>2. \A s \in sales : s.call \in McpCalls
  OBVIOUS
<1>3. \A s \in sales : s.amount = IF mcp[s.call].told > 0 THEN mcp[s.call].told ELSE ListPrice
  BY <1>2 DEF RowInv, Amount, CallRecord
<1>4. QED
  BY <1>1, <1>2, <1>3 DEF PaidToolIsBooked, SpentInv, AnswerInv, RowInv, Spent

-----------------------------------------------------------------------------
\* Whatever the number of calls and faults: a report of the paid check leaves only
\* with a settlement of its own, and the rows are the settled checks of the network's
\* cities at the amount that was paid.
THEOREM PaidToolTheorem == GateSpec => []PaidToolIsBooked
<1>1. GateSpec => []GateInv
  BY GateInitInv, GateStepInv, PTL DEF GateSpec
<1>2. QED
  BY <1>1, GateInvIsEnough, PTL

-----------------------------------------------------------------------------
(* The mails. *)

MailSpec == MailInit /\ [][MailNext]_mailVars

Keys == {MailKey(l) : l \in Letters} \cup {NoticeKey(i) : i \in Inbounds}

\* What arrived in this life is remembered, or is the call under way; and nobody asks
\* for what is remembered.
RememberedInv ==
    /\ mailLife \in Nat
    /\ arrived \in Seq([key : Keys, life : Nat])
    /\ errand.at \in {"dispatch", "record"} => errand.key \in Keys
    /\ errand.at = "dispatch" => errand.key \notin seen
    /\ errand.at = "issue" => errand.letter \in Inbounds
    /\ \A i \in DOMAIN arrived :
          /\ arrived[i].life <= mailLife
          /\ arrived[i].life = mailLife =>
                \/ arrived[i].key \in seen
                \/ errand.at = "record" /\ errand.key = arrived[i].key

MailInv == RememberedInv /\ MailOncePerLife

-----------------------------------------------------------------------------
LEMMA MailInitInv == MailInit => MailInv
  BY DEF MailInit, MailInv, RememberedInv, MailOncePerLife, NoMailCall

\* A step in which nothing arrives; a call that ends behind the provider remembers
\* its key.
LEMMA NothingArrives ==
    ASSUME MailInv, UNCHANGED <<arrived, mailLife>>, seen \subseteq seen',
           \/ errand'.at = "idle"
           \/ errand'.at = "dispatch" /\ errand'.key \in Keys /\ errand'.key \notin seen'
           \/ errand'.at = "issue" /\ errand'.letter \in Inbounds,
           errand.at = "record" => errand.key \in seen'
    PROVE  MailInv'
<1>1. MailOncePerLife'
  BY DEF MailInv, MailOncePerLife
<1>2. ASSUME NEW i \in DOMAIN arrived, arrived[i].life = mailLife PROVE arrived[i].key \in seen'
  BY <1>2 DEF MailInv, RememberedInv
<1>3. RememberedInv'
  <2>1. /\ errand'.at \in {"dispatch", "record"} => errand'.key \in Keys
        /\ errand'.at = "dispatch" => errand'.key \notin seen'
        /\ errand'.at = "issue" => errand'.letter \in Inbounds
    OBVIOUS
  <2>2. arrived' = arrived /\ mailLife' = mailLife
    OBVIOUS
  <2>3. Keys' = Keys
    BY DEF Keys, MailKey, NoticeKey
  <2>4. QED
    BY <1>2, <2>1, <2>2, <2>3 DEF MailInv, RememberedInv
<1>4. QED
  BY <1>1, <1>3 DEF MailInv

\* A call that begins asks only for what is not remembered.
LEMMA CallBegins ==
    ASSUME MailInv, NEW key \in Keys, Mail(key), errand.at \notin {"dispatch", "record"},
           UNCHANGED <<seen, arrived, mailLife>>
    PROVE  MailInv'
<1>1. \/ errand' = NoMailCall
      \/ errand' = [at |-> "dispatch", key |-> key] /\ key \notin seen
  BY DEF Mail
<1>2. CASE errand' = NoMailCall
  BY <1>2, NothingArrives DEF NoMailCall
<1>3. CASE errand' = [at |-> "dispatch", key |-> key] /\ key \notin seen
  BY <1>3, NothingArrives
<1>4. QED
  BY <1>1, <1>2, <1>3

LEMMA SendInv == ASSUME MailInv, NEW l \in Letters, Send(l) PROVE MailInv'
<1>1. errand.at = "idle" /\ Mail(MailKey(l)) /\ UNCHANGED <<seen, arrived, mailLife>>
  BY DEF Send, NewMailCall, NoMailCall
<1>2. MailKey(l) \in Keys
  BY DEF Keys
<1>3. QED
  BY <1>1, <1>2, CallBegins

\* The mail that goes out is the first of its key in this life.
LEMMA DispatchInv == ASSUME MailInv, Dispatch PROVE MailInv'
<1> USE DEF MailInv
<1>1. PICK reached \in BOOLEAN, answered \in BOOLEAN :
        /\ errand' = [at |-> "record", key |-> errand.key, ok |-> answered]
        /\ arrived' = IF reached THEN Append(arrived, [key |-> errand.key, life |-> mailLife]) ELSE arrived
  BY DEF Dispatch
<1>2. errand.at = "dispatch" /\ UNCHANGED <<seen, mailLife>>
  BY DEF Dispatch
<1> DEFINE new == [key |-> errand.key, life |-> mailLife]
<1>3. \A i \in DOMAIN arrived : arrived[i] # new
  BY <1>2 DEF RememberedInv
<1>4. errand'.at = "record" /\ errand'.key = errand.key
  BY <1>1
<1>5. CASE arrived' = arrived
  BY <1>2, <1>4, <1>5 DEF RememberedInv, MailOncePerLife
<1>6. CASE arrived' = Append(arrived, new)
  <2>1. new \in [key : Keys, life : Nat] /\ new.key = errand.key /\ new.life = mailLife
    BY <1>2 DEF RememberedInv, Keys
  <2> HIDE DEF new
  <2>2. /\ arrived \in Seq([key : Keys, life : Nat]) /\ arrived' \in Seq([key : Keys, life : Nat])
        /\ Len(arrived') = Len(arrived) + 1 /\ arrived'[Len(arrived) + 1] = new
        /\ \A i \in DOMAIN arrived : i \in DOMAIN arrived' /\ arrived'[i] = arrived[i]
        /\ DOMAIN arrived' = DOMAIN arrived \cup {Len(arrived) + 1}
    BY <1>6, <2>1 DEF RememberedInv, Keys
  <2>3. MailOncePerLife'
    BY <1>3, <2>2 DEF MailOncePerLife
  <2>4. RememberedInv'
    BY <1>2, <1>4, <2>1, <2>2 DEF RememberedInv, Keys
  <2>5. QED
    BY <2>3, <2>4
<1>7. QED
  BY <1>1, <1>5, <1>6

LEMMA RecordInv == ASSUME MailInv, Record PROVE MailInv'
<1>1. seen' = seen \cup {errand.key} /\ errand' = NoMailCall /\ UNCHANGED <<arrived, mailLife>>
  BY DEF Record
<1>2. QED
  BY <1>1, NothingArrives DEF NoMailCall

LEMMA IngestInv == ASSUME MailInv, Ingest PROVE MailInv'
<1>1. PICK i \in Inbounds : errand' = [at |-> "issue", letter |-> i]
  BY DEF Ingest
<1>2. errand.at = "idle" /\ UNCHANGED <<seen, arrived, mailLife>>
  BY DEF Ingest, NewMailCall, NoMailCall
<1>3. QED
  BY <1>1, <1>2, NothingArrives

LEMMA TellInv == ASSUME MailInv, Tell PROVE MailInv'
<1>1. errand.at = "issue" /\ Mail(NoticeKey(errand.letter)) /\ UNCHANGED <<seen, arrived, mailLife>>
  BY DEF Tell
<1>2. NoticeKey(errand.letter) \in Keys
  BY <1>1 DEF Keys, MailInv, RememberedInv
<1>3. QED
  BY <1>1, <1>2, CallBegins

LEMMA MailRestartInv == ASSUME MailInv, MailRestart PROVE MailInv'
<1>1. mailLife' = mailLife + 1 /\ errand'.at = "idle" /\ UNCHANGED arrived /\ mailLife \in Nat
  BY DEF MailRestart, NoMailCall, MailInv, RememberedInv
<1>2. ASSUME NEW i \in DOMAIN arrived
      PROVE  arrived[i].life \in Nat /\ arrived[i].life < mailLife'
  <2>1. arrived \in Seq([key : Keys, life : Nat]) /\ arrived[i].life <= mailLife
    BY <1>2 DEF MailInv, RememberedInv
  <2> DEFINE Mails == [key : Keys, life : Nat]
  <2> HIDE DEF Mails
  <2>2. arrived[i] \in Mails
    <3>1. arrived \in Seq(Mails)
      BY <2>1 DEF Mails
    <3>2. \A s \in Seq(Mails) : \A n \in DOMAIN s : s[n] \in Mails
      OBVIOUS
    <3>3. QED
      BY <1>2, <3>1, <3>2
  <2>3. QED
    BY <1>1, <2>1, <2>2 DEF Mails
<1>3. MailOncePerLife'
  BY <1>1 DEF MailInv, MailOncePerLife
<1>4. RememberedInv'
  BY <1>1, <1>2 DEF MailInv, RememberedInv
<1>5. QED
  BY <1>3, <1>4 DEF MailInv

LEMMA MailStepInv == MailInv /\ [MailNext]_mailVars => MailInv'
<1> SUFFICES ASSUME MailInv, [MailNext]_mailVars PROVE MailInv'
  OBVIOUS
<1>1. CASE Receipt \/ CityAlert \/ PostmasterSends
  BY <1>1, SendInv DEF Receipt, CityAlert, PostmasterSends
<1>2. CASE Dispatch
  BY <1>2, DispatchInv
<1>3. CASE Record
  BY <1>3, RecordInv
<1>4. CASE Ingest
  BY <1>4, IngestInv
<1>5. CASE Tell
  BY <1>5, TellInv
<1>6. CASE MailRestart
  BY <1>6, MailRestartInv
<1>7. CASE UNCHANGED mailVars
  BY <1>7 DEF mailVars, MailInv, RememberedInv, MailOncePerLife
<1>8. QED
  BY <1>1, <1>2, <1>3, <1>4, <1>5, <1>6, <1>7 DEF MailNext

-----------------------------------------------------------------------------
(* The ledger.  A row, an answer or an issue is missing only where a fault is *)
(* marked: what the call under way still owes is with the call, and a restart *)
(* marks it.                                                                  *)

Rows == [key : Keys, life : Nat, status : {"sent", "dispatch_failed"}]
Landed(key, n) == [key |-> key, life |-> n] \in ToSet(arrived)
Sent(key, n) == \E j \in DOMAIN outbox : /\ outbox[j].key = key /\ outbox[j].life = n
                                        /\ outbox[j].status = "sent"

\* Rows of status sent are mails that arrived, and the other way round.
OutInv ==
    /\ outbox \in Seq(Rows)
    /\ errand.at = "record" => errand.ok \in BOOLEAN /\ (errand.ok \/ errand.key \in marred)
    /\ live =>
        /\ \A i \in DOMAIN outbox :
              outbox[i].status = "sent" => Landed(outbox[i].key, outbox[i].life)
        /\ errand.at = "record" /\ errand.ok => Landed(errand.key, mailLife)
        /\ \A i \in DOMAIN arrived :
              \/ arrived[i].key \in marred
              \/ errand.at = "record" /\ errand.key = arrived[i].key /\ arrived[i].life = mailLife
              \/ Sent(arrived[i].key, arrived[i].life)

\* What is remembered, and what was suppressed, was tried in the same life.
MailAnswerInv ==
    /\ \A k \in seen : k \in marred \/ Tried(k, mailLife)
    /\ \A r \in results :
          r.status = "deduplicated" /\ r.key \notin marred => Tried(r.key, r.life)

Places(s, x) == {n \in DOMAIN s : s[n] = x}
Pending(x) == errand.at = "issue" /\ errand.letter = x
Noticed(x) ==
    \/ NoticeKey(x) \in marred
    \/ Pending(x)
    \/ \E j \in DOMAIN outbox : outbox[j].key = NoticeKey(x)
    \/ errand.at \in {"dispatch", "record"} /\ errand.key = NoticeKey(x)

\* Every letter in the inbox has its issue, or the call under way is about to open it;
\* and the operator's copy is in the outbox or under way.
NoticeInv ==
    /\ inbox \in Seq(Inbounds) /\ issues \in Seq(Inbounds)
    /\ \A x \in Inbounds :
          \/ NoticeKey(x) \in marred
          \/ Cardinality(Places(inbox, x)) =
                 Cardinality(Places(issues, x)) + (IF Pending(x) THEN 1 ELSE 0)
    /\ \A i \in DOMAIN inbox : Noticed(inbox[i])

LedgerInv == OutInv /\ MailAnswerInv /\ NoticeInv

\* A sequence with one more element.
LEMMA Appended ==
    ASSUME NEW S, NEW s \in Seq(S), NEW e \in S
    PROVE  /\ Append(s, e) \in Seq(S)
           /\ DOMAIN Append(s, e) = DOMAIN s \cup {Len(s) + 1} /\ Len(s) + 1 \notin DOMAIN s
           /\ Append(s, e)[Len(s) + 1] = e
           /\ \A i \in DOMAIN s : Append(s, e)[i] = s[i]
OBVIOUS

\* It has one more place of that element, and the same of any other.
LEMMA PlacesGrow ==
    ASSUME NEW S, NEW s \in Seq(S), NEW e \in S, NEW x \in S
    PROVE  /\ Cardinality(Places(s, x)) \in Nat
           /\ Cardinality(Places(Append(s, e), x)) =
                 Cardinality(Places(s, x)) + (IF x = e THEN 1 ELSE 0)
<1>1. IsFiniteSet(Places(s, x))
  <2>1. DOMAIN s = 1 .. Len(s) /\ Len(s) \in Nat
    OBVIOUS
  <2>2. IsFiniteSet(1 .. Len(s))
    BY <2>1, FS_Interval
  <2>3. QED
    BY <2>1, <2>2, FS_Subset DEF Places
<1>2. CASE x = e
  <2>1. Places(Append(s, e), x) = Places(s, x) \cup {Len(s) + 1} /\ Len(s) + 1 \notin Places(s, x)
    BY <1>2, Appended DEF Places
  <2>2. QED
    BY <1>1, <1>2, <2>1, FS_AddElement, FS_CardinalityType
<1>3. CASE x # e
  <2>1. Places(Append(s, e), x) = Places(s, x)
    BY <1>3, Appended DEF Places
  <2>2. QED
    BY <1>1, <1>3, <2>1, FS_CardinalityType
<1>4. QED
  BY <1>2, <1>3

LEMMA LedgerInit == MailInit => LedgerInv
<1> SUFFICES ASSUME MailInit PROVE LedgerInv
  OBVIOUS
<1>1. OutInv /\ MailAnswerInv
  BY DEF MailInit, OutInv, MailAnswerInv, NoMailCall
<1>2. \A x : Places(inbox, x) = {} /\ Places(issues, x) = {} /\ ~Pending(x)
  BY DEF MailInit, Places, Pending, NoMailCall
<1>3. NoticeInv
  <2>1. Cardinality({}) = 0
    BY FS_EmptySet
  <2>2. inbox = <<>> /\ issues = <<>> /\ DOMAIN inbox = {}
    BY DEF MailInit
  <2>3. \A x : Cardinality(Places(inbox, x)) = 0 /\ Cardinality(Places(issues, x)) = 0
                /\ (IF Pending(x) THEN 1 ELSE 0) = 0
    BY <1>2, <2>1
  <2>4. QED
    BY <2>2, <2>3 DEF NoticeInv
<1>4. QED
  BY <1>1, <1>3 DEF LedgerInv

\* A step without a row or an arrival, at whose end no mail is on its way back.
LEMMA OutQuiet ==
    ASSUME OutInv, UNCHANGED <<live, outbox, arrived>>, marred \subseteq marred',
           errand'.at # "record", errand.at = "record" => errand.key \in marred'
    PROVE  OutInv'
BY DEF OutInv, Landed, Sent, Rows, Keys, MailKey, NoticeKey

\* A step that answers nothing but that a remembered key is suppressed.
LEMMA AnswerQuiet ==
    ASSUME MailAnswerInv, marred \subseteq marred', UNCHANGED outbox,
           \/ UNCHANGED <<seen, mailLife>>
           \/ seen' = {},
           \/ UNCHANGED results
           \/ \E k \in seen : Reply(k, "deduplicated")
    PROVE  MailAnswerInv'
<1>1. \A k, n : Tried(k, n) => Tried(k, n)'
  BY DEF Tried
<1>2. \A k \in seen' : k \in marred' \/ Tried(k, mailLife)'
  BY <1>1 DEF MailAnswerInv
<1>3. ASSUME NEW r \in results', r.status = "deduplicated", r.key \notin marred'
      PROVE  Tried(r.key, r.life)'
  <2>1. CASE r \in results
    BY <1>1, <1>3, <2>1 DEF MailAnswerInv
  <2>2. CASE r \notin results
    <3>1. PICK k \in seen : r = [key |-> k, life |-> mailLife, status |-> "deduplicated"]
      BY <1>3, <2>2 DEF Reply
    <3>2. Tried(k, mailLife)
      BY <1>3, <3>1 DEF MailAnswerInv
    <3>3. QED
      BY <1>1, <3>1, <3>2
  <2>3. QED
    BY <2>1, <2>2
<1>4. QED
  BY <1>2, <1>3 DEF MailAnswerInv

\* A step that takes no letter and opens no issue; what a call owed is there or marked.
LEMMA NoticeQuiet ==
    ASSUME NoticeInv, UNCHANGED <<inbox, issues>>, marred \subseteq marred',
           errand'.at # "issue", errand.at = "issue" => NoticeKey(errand.letter) \in marred',
           \A j \in DOMAIN outbox : \E n \in DOMAIN outbox' : outbox'[n].key = outbox[j].key,
           errand.at \in {"dispatch", "record"} =>
               \/ errand.key \in marred'
               \/ \E n \in DOMAIN outbox' : outbox'[n].key = errand.key
               \/ errand'.at \in {"dispatch", "record"} /\ errand'.key = errand.key
    PROVE  NoticeInv'
<1>1. \A x : Noticed(x) => Noticed(x)'
  <2> TAKE x
  <2>1. NoticeKey(x)' = NoticeKey(x)
    BY DEF NoticeKey
  <2>2. CASE Pending(x)
    BY <2>1, <2>2 DEF Pending, Noticed
  <2>3. CASE Noticed(x) /\ ~Pending(x)
    BY <2>1, <2>3 DEF Noticed
  <2>4. QED
    BY <2>2, <2>3
<1>2. ASSUME NEW x \in Inbounds
      PROVE  \/ NoticeKey(x) \in marred'
             \/ /\ ~Pending(x)'
                /\ Cardinality(Places(inbox, x)) = Cardinality(Places(issues, x)) + 0
  BY <1>2 DEF NoticeInv, Pending
<1>3. QED
  BY <1>1, <1>2 DEF NoticeInv, NoticeKey, Places

LEMMA LedgerSend == ASSUME LedgerInv, NEW l \in Letters, Send(l) PROVE LedgerInv'
<1>1. /\ errand.at = "idle" /\ Mail(MailKey(l))
      /\ UNCHANGED <<live, seen, outbox, inbox, arrived, issues, marred, mailLife>>
  BY DEF Send, NewMailCall, NoMailCall
<1>2. errand'.at \in {"idle", "dispatch"}
  BY <1>1 DEF Mail, NoMailCall
<1>3. UNCHANGED results \/ \E k \in seen : Reply(k, "deduplicated")
  BY <1>1 DEF Mail
<1>4. OutInv'
  BY <1>1, <1>2, OutQuiet DEF LedgerInv
<1>5. MailAnswerInv'
  BY <1>1, <1>3, AnswerQuiet DEF LedgerInv
<1>6. NoticeInv'
  BY <1>1, <1>2, NoticeQuiet DEF LedgerInv
<1>7. QED
  BY <1>4, <1>5, <1>6 DEF LedgerInv

\* An answer that is lost marks the key; one that came is of a mail that arrived.
LEMMA LedgerDispatch == ASSUME MailInv, LedgerInv, Dispatch PROVE LedgerInv'
<1>1. PICK reached \in BOOLEAN, answered \in BOOLEAN :
        /\ errand' = [at |-> "record", key |-> errand.key, ok |-> answered]
        /\ live => (answered => reached)
        /\ arrived' = IF reached THEN Append(arrived, [key |-> errand.key, life |-> mailLife]) ELSE arrived
        /\ marred' = IF answered THEN marred ELSE marred \cup {errand.key}
  BY DEF Dispatch
<1>2. errand.at = "dispatch" /\ UNCHANGED <<live, seen, outbox, inbox, issues, results, mailLife>>
  BY DEF Dispatch
<1>3. /\ errand'.at = "record" /\ errand'.key = errand.key /\ errand'.ok = answered
      /\ marred \subseteq marred'
  BY <1>1
<1> DEFINE new == [key |-> errand.key, life |-> mailLife]
           Mails == [key : Keys, life : Nat]
<1>4. /\ new \in Mails /\ arrived \in Seq(Mails) /\ new.key = errand.key
      /\ new.life = mailLife
  BY <1>2 DEF MailInv, RememberedInv
<1>5. /\ \A i \in DOMAIN arrived : i \in DOMAIN arrived' /\ arrived'[i] = arrived[i]
      /\ \A i \in DOMAIN arrived' : i \in DOMAIN arrived \/ arrived'[i] = new
      /\ live /\ answered => \E i \in DOMAIN arrived' : arrived'[i] = new
  <2> HIDE DEF new, Mails
  <2>1. CASE arrived' = arrived /\ ~(live /\ answered)
    BY <2>1
  <2>2. CASE arrived' = Append(arrived, new)
    BY <1>4, <2>2, Appended
  <2>3. QED
    BY <1>1, <2>1, <2>2 DEF new
<1>6. OutInv'
  <2>1. \A k, n : Landed(k, n) => Landed(k, n)'
    BY <1>5 DEF Landed, ToSet
  <2>2. live /\ answered => Landed(errand.key, mailLife)'
    <3>1. live /\ answered => \E i \in DOMAIN arrived' : arrived'[i] = [key |-> errand.key, life |-> mailLife]
      BY <1>5
    <3>2. QED
      BY <1>2, <1>3, <3>1 DEF Landed, ToSet
  <2>3. ASSUME live, NEW i \in DOMAIN arrived'
        PROVE  \/ arrived'[i].key \in marred'
               \/ errand'.key = arrived'[i].key /\ arrived'[i].life = mailLife
               \/ Sent(arrived[i].key, arrived[i].life)'
    <3>1. CASE i \in DOMAIN arrived
      BY <1>2, <1>3, <1>5, <2>3, <3>1 DEF LedgerInv, OutInv, Sent
    <3>2. CASE i \notin DOMAIN arrived
      BY <1>3, <1>4, <1>5, <2>3, <3>2
    <3>3. QED
      BY <3>1, <3>2
  <2>4. answered \in BOOLEAN /\ (answered \/ errand.key \in marred')
    BY <1>1
  <2>5. Rows' = Rows
    BY DEF Rows, Keys, MailKey, NoticeKey
  <2>6. QED
    BY <1>2, <1>3, <2>1, <2>2, <2>3, <2>4, <2>5 DEF LedgerInv, OutInv
<1>7. MailAnswerInv'
  BY <1>2, <1>3, AnswerQuiet DEF LedgerInv
<1>8. NoticeInv'
  BY <1>2, <1>3, NoticeQuiet DEF LedgerInv
<1>9. QED
  BY <1>6, <1>7, <1>8 DEF LedgerInv

\* The row is written or the key is marked, and the key is remembered.
LEMMA LedgerRecord == ASSUME MailInv, LedgerInv, Record PROVE LedgerInv'
<1> DEFINE row == [key |-> errand.key, life |-> mailLife, status |-> StatusOf(errand.ok)]
<1>1. /\ errand.at = "record" /\ errand' = NoMailCall /\ seen' = seen \cup {errand.key}
      /\ Reply(errand.key, StatusOf(errand.ok))
      /\ UNCHANGED <<live, inbox, arrived, issues, mailLife>>
      /\ \/ outbox' = Append(outbox, row) /\ UNCHANGED marred
         \/ UNCHANGED outbox /\ marred' = marred \cup {errand.key}
  BY DEF Record
<1>2. /\ errand'.at = "idle" /\ marred \subseteq marred' /\ errand.ok \in BOOLEAN
  BY <1>1 DEF NoMailCall, LedgerInv, OutInv
<1>3. /\ row \in Rows /\ row.key = errand.key /\ row.life = mailLife
      /\ row.status = StatusOf(errand.ok) /\ outbox \in Seq(Rows)
      /\ StatusOf(errand.ok) \in {"sent", "dispatch_failed"}
      /\ errand.ok <=> StatusOf(errand.ok) = "sent"
  BY <1>1, <1>2 DEF MailInv, RememberedInv, Rows, StatusOf, LedgerInv, OutInv
<1>4. /\ outbox' \in Seq(Rows)
      /\ \A i \in DOMAIN outbox : i \in DOMAIN outbox' /\ outbox'[i] = outbox[i]
      /\ \A i \in DOMAIN outbox' : i \in DOMAIN outbox \/ outbox'[i] = row
      /\ \/ errand.key \in marred'
         \/ \E i \in DOMAIN outbox' : outbox'[i] = row
  <2> HIDE DEF row
  <2>1. CASE UNCHANGED outbox /\ marred' = marred \cup {errand.key}
    BY <1>3, <2>1
  <2>2. CASE outbox' = Append(outbox, row)
    BY <1>3, <2>2, Appended
  <2>3. QED
    BY <1>1, <2>1, <2>2 DEF row
<1> HIDE DEF row
<1>5. OutInv'
  <2>1. \A k, n : /\ Landed(k, n) => Landed(k, n)'
                  /\ Sent(k, n) => Sent(k, n)'
    BY <1>1, <1>4 DEF Landed, Sent
  <2>2. ASSUME live, NEW i \in DOMAIN outbox', outbox'[i].status = "sent"
        PROVE  Landed(outbox'[i].key, outbox'[i].life)
    <3>1. CASE i \in DOMAIN outbox
      BY <1>4, <2>2, <3>1 DEF LedgerInv, OutInv
    <3>2. CASE outbox'[i] = row
      BY <1>1, <1>3, <2>2, <3>2 DEF LedgerInv, OutInv
    <3>3. QED
      BY <1>4, <3>1, <3>2
  <2>3. ASSUME live, NEW i \in DOMAIN arrived
        PROVE  arrived[i].key \in marred' \/ Sent(arrived[i].key, arrived[i].life)'
    <3>1. CASE errand.key = arrived[i].key /\ arrived[i].life = mailLife
      <4>1. CASE errand.ok
        BY <1>1, <1>3, <1>4, <3>1, <4>1 DEF Sent
      <4>2. CASE ~errand.ok
        BY <1>1, <1>2, <3>1, <4>2 DEF LedgerInv, OutInv
      <4>3. QED
        BY <4>1, <4>2
    <3>2. CASE ~(errand.key = arrived[i].key /\ arrived[i].life = mailLife)
      <4>1. arrived[i].key \in marred \/ Sent(arrived[i].key, arrived[i].life)
        BY <2>3, <3>2 DEF LedgerInv, OutInv
      <4>2. Sent(arrived[i].key, arrived[i].life) => Sent(arrived[i].key, arrived[i].life)'
        BY <1>1, <1>4 DEF Sent
      <4>3. QED
        BY <1>2, <4>1, <4>2
    <3>3. QED
      BY <3>1, <3>2
  <2>4. Rows' = Rows
    BY DEF Rows, Keys, MailKey, NoticeKey
  <2>5. \A i \in DOMAIN outbox' : outbox'[i].status = "sent" /\ live =>
            Landed(outbox[i].key, outbox[i].life)'
    BY <1>1, <2>2 DEF Landed
  <2>6. QED
    BY <1>1, <1>2, <1>4, <2>3, <2>4, <2>5 DEF OutInv
<1>6. MailAnswerInv'
  <2>1. \A k, n : Tried(k, n) => Tried(k, n)'
    BY <1>4 DEF Tried
  <2>2. \A k \in seen' : k \in marred' \/ Tried(k, mailLife)'
    <3>1. PICK k : k = errand.key
      OBVIOUS
    <3>2. k \in marred' \/ Tried(k, mailLife)'
      BY <1>1, <1>3, <1>4, <3>1 DEF Tried
    <3>3. \A x \in seen : x \in marred \/ Tried(x, mailLife)
      BY DEF LedgerInv, MailAnswerInv
    <3>4. QED
      BY <1>1, <1>2, <2>1, <3>1, <3>2, <3>3 DEF Tried
  <2>3. \A r \in results' : r \in results \/ r.status # "deduplicated"
    BY <1>1, <1>3 DEF Reply
  <2>4. QED
    BY <1>2, <2>1, <2>2, <2>3 DEF LedgerInv, MailAnswerInv
<1>7. NoticeInv'
  <2>1. /\ errand'.at # "issue" /\ errand.at # "issue"
        /\ \A j \in DOMAIN outbox : \E n \in DOMAIN outbox' : outbox'[n].key = outbox[j].key
    BY <1>1, <1>2, <1>4
  <2>2. \/ errand.key \in marred'
        \/ \E n \in DOMAIN outbox' : outbox'[n].key = errand.key
    BY <1>3, <1>4
  <2>3. QED
    BY <1>1, <1>2, <2>1, <2>2, NoticeQuiet DEF LedgerInv
<1>8. QED
  BY <1>5, <1>6, <1>7 DEF LedgerInv

\* A letter comes in: its issue is due, or its row is missing and its key marked.
LEMMA LedgerIngest == ASSUME MailInv, LedgerInv, Ingest PROVE LedgerInv'
<1>1. PICK i \in Inbounds :
        /\ \/ inbox' = Append(inbox, i) /\ UNCHANGED marred
           \/ marred' = marred \cup {NoticeKey(i)} /\ UNCHANGED inbox
        /\ errand' = [at |-> "issue", letter |-> i]
  BY DEF Ingest
<1>2. errand.at = "idle" /\ UNCHANGED <<live, seen, outbox, arrived, issues, results, mailLife>>
  BY DEF Ingest, NewMailCall, NoMailCall
<1>3. errand'.at = "issue" /\ errand'.letter = i /\ marred \subseteq marred'
  BY <1>1
<1>4. OutInv' /\ MailAnswerInv'
  BY <1>2, <1>3, OutQuiet, AnswerQuiet DEF LedgerInv
<1>5. NoticeInv'
  <2>1. inbox \in Seq(Inbounds) /\ issues \in Seq(Inbounds)
    BY DEF LedgerInv, NoticeInv
  <2>2. \A x : Noticed(x) => Noticed(x)'
    BY <1>2, <1>3 DEF Noticed, Pending, NoticeKey
  <2>3. Noticed(i)'
    BY <1>3 DEF Noticed, Pending, NoticeKey
  <2>4. inbox' \in Seq(Inbounds) /\ \A n \in DOMAIN inbox' : Noticed(inbox[n])'
    <3>1. CASE UNCHANGED inbox
      BY <2>1, <2>2, <3>1 DEF LedgerInv, NoticeInv
    <3>2. CASE inbox' = Append(inbox, i)
      <4>1. /\ inbox' \in Seq(Inbounds)
            /\ \A n \in DOMAIN inbox' : inbox'[n] = i \/ (n \in DOMAIN inbox /\ inbox'[n] = inbox[n])
        BY <2>1, <3>2, Appended
      <4>2. \A n \in DOMAIN inbox : Noticed(inbox[n])
        BY DEF LedgerInv, NoticeInv
      <4>3. \A x \in Inbounds : Noticed(x)' => \A n \in DOMAIN inbox' : inbox'[n] = x => Noticed(inbox[n])'
        BY DEF Noticed, Pending, NoticeKey
      <4>4. \A n \in DOMAIN inbox' : inbox'[n] \in Inbounds
        BY <4>1
      <4>5. ASSUME NEW n \in DOMAIN inbox' PROVE Noticed(inbox[n])'
        <5>1. PICK x \in Inbounds : x = inbox'[n]
          BY <4>4, <4>5
        <5>2. Noticed(x)'
          BY <2>2, <2>3, <4>1, <4>2, <4>5, <5>1
        <5>3. QED
          BY <4>3, <4>5, <5>1, <5>2
      <4>6. QED
        BY <4>1, <4>5
    <3>3. QED
      BY <1>1, <3>1, <3>2
  <2>5. ASSUME NEW x \in Inbounds, NoticeKey(x) \notin marred'
        PROVE  Cardinality(Places(inbox, x))' =
                   Cardinality(Places(issues, x))' + (IF Pending(x)' THEN 1 ELSE 0)
    <3>1. Cardinality(Places(inbox, x)) = Cardinality(Places(issues, x)) + 0
          /\ Cardinality(Places(issues, x)) \in Nat
      BY <1>2, <1>3, <2>1, <2>5, PlacesGrow DEF LedgerInv, NoticeInv, Pending
    <3>2. Pending(x)' <=> x = i
      BY <1>3 DEF Pending
    <3>3. CASE UNCHANGED inbox
      <4>1. x # i
        BY <1>1, <2>1, <2>5, <3>3, Appended
      <4>2. QED
        BY <1>2, <3>1, <3>2, <3>3, <4>1 DEF Places
    <3>4. CASE inbox' = Append(inbox, i)
      <4>1. Cardinality(Places(inbox', x)) = Cardinality(Places(inbox, x)) + (IF x = i THEN 1 ELSE 0)
        BY <2>1, <3>4, PlacesGrow
      <4>2. Places(inbox, x)' = Places(inbox', x) /\ Places(issues, x)' = Places(issues, x)
        BY <1>2 DEF Places
      <4>3. QED
        BY <3>1, <3>2, <4>1, <4>2
    <3>5. QED
      BY <1>1, <3>3, <3>4
  <2>6. QED
    BY <1>2, <2>1, <2>4, <2>5 DEF NoticeInv, NoticeKey
<1>6. QED
  BY <1>4, <1>5 DEF LedgerInv

\* The issue is opened, or its key marked; and the operator is mailed unless that
\* mail has been tried before.
LEMMA LedgerTell == ASSUME MailInv, LedgerInv, Tell PROVE LedgerInv'
<1>1. PICK i \in Inbounds : i = errand.letter
  BY DEF MailInv, RememberedInv, Tell
<1> DEFINE key == NoticeKey(i)
<1>2. /\ errand.at = "issue" /\ Mail(NoticeKey(i))
      /\ \/ issues' = Append(issues, i) /\ UNCHANGED marred
         \/ marred' = marred \cup {NoticeKey(i)} /\ UNCHANGED issues
      /\ UNCHANGED <<live, seen, outbox, inbox, arrived, mailLife>>
  BY <1>1 DEF Tell
<1>3. /\ errand'.at \in {"idle", "dispatch"} /\ marred \subseteq marred'
      /\ UNCHANGED results \/ \E k \in seen : Reply(k, "deduplicated")
      /\ NoticeKey(i) \in seen \/ (errand'.at = "dispatch" /\ errand'.key = NoticeKey(i))
  BY <1>2 DEF Mail, NoMailCall
<1>4. OutInv' /\ MailAnswerInv'
  BY <1>2, <1>3, OutQuiet, AnswerQuiet DEF LedgerInv
<1>5. NoticeInv'
  <2>1. inbox \in Seq(Inbounds) /\ issues \in Seq(Inbounds)
    BY DEF LedgerInv, NoticeInv
  <2>2. NoticeKey(i) \in seen => NoticeKey(i) \in marred \/ \E j \in DOMAIN outbox : outbox[j].key = NoticeKey(i)
    BY DEF LedgerInv, MailAnswerInv, Tried
  <2>3. ASSUME NEW x, Noticed(x) PROVE Noticed(x)'
    <3>1. NoticeKey(x)' = NoticeKey(x)
      BY DEF NoticeKey
    <3>2. CASE x = i
      BY <1>2, <1>3, <2>2, <3>1, <3>2 DEF Noticed
    <3>3. CASE x # i
      BY <1>1, <1>2, <1>3, <2>3, <3>1, <3>3 DEF Noticed, Pending
    <3>4. QED
      BY <3>2, <3>3
  <2>4. ASSUME NEW x \in Inbounds, NoticeKey(x) \notin marred'
        PROVE  Cardinality(Places(inbox, x))' =
                   Cardinality(Places(issues, x))' + (IF Pending(x)' THEN 1 ELSE 0)
    <3>1. /\ Cardinality(Places(inbox, x)) = Cardinality(Places(issues, x)) + (IF x = i THEN 1 ELSE 0)
          /\ Cardinality(Places(issues, x)) \in Nat
      BY <1>1, <1>2, <1>3, <2>1, <2>4, PlacesGrow DEF LedgerInv, NoticeInv, Pending
    <3>2. ~Pending(x)'
      BY <1>3 DEF Pending
    <3>3. CASE UNCHANGED issues
      <4>1. x # i
        BY <1>2, <2>1, <2>4, <3>3, Appended
      <4>2. QED
        BY <1>2, <3>1, <3>2, <3>3, <4>1 DEF Places
    <3>4. CASE issues' = Append(issues, i)
      <4>1. Cardinality(Places(issues', x)) = Cardinality(Places(issues, x)) + (IF x = i THEN 1 ELSE 0)
        BY <2>1, <3>4, PlacesGrow
      <4>2. Places(inbox, x)' = Places(inbox, x) /\ Places(issues, x)' = Places(issues', x)
        BY <1>2 DEF Places
      <4>3. QED
        BY <3>1, <3>2, <4>1, <4>2
    <3>5. QED
      BY <1>2, <3>3, <3>4
  <2>5. issues' \in Seq(Inbounds)
    BY <1>2, <2>1, Appended
  <2>6. \A n \in DOMAIN inbox' : Noticed(inbox[n])'
    <3>1. \A n \in DOMAIN inbox : Noticed(inbox[n])
      BY DEF LedgerInv, NoticeInv
    <3>2. \A n \in DOMAIN inbox : \A x : x = inbox[n] => (Noticed(x)' => Noticed(inbox[n])')
      BY <1>2 DEF Noticed, Pending, NoticeKey
    <3>3. QED
      BY <1>2, <2>3, <3>1, <3>2
  <2>7. QED
    BY <1>2, <2>1, <2>4, <2>5, <2>6 DEF NoticeInv, NoticeKey
<1>6. QED
  BY <1>4, <1>5 DEF LedgerInv

\* What the dying process owed is marked.
LEMMA LedgerRestart == ASSUME MailInv, LedgerInv, MailRestart PROVE LedgerInv'
<1>1. /\ errand'.at = "idle" /\ seen' = {} /\ marred \subseteq marred'
      /\ UNCHANGED <<live, outbox, inbox, arrived, issues, results>>
  BY DEF MailRestart, NoMailCall
<1>2. /\ errand.at = "issue" => NoticeKey(errand.letter) \in marred'
      /\ errand.at \in {"dispatch", "record"} => errand.key \in marred'
  BY DEF MailRestart
<1>3. OutInv'
  BY <1>1, <1>2, OutQuiet DEF LedgerInv
<1>4. MailAnswerInv'
  BY <1>1, AnswerQuiet DEF LedgerInv
<1>5. NoticeInv'
  BY <1>1, <1>2, NoticeQuiet DEF LedgerInv
<1>6. QED
  BY <1>3, <1>4, <1>5 DEF LedgerInv

LEMMA LedgerStep == MailInv /\ LedgerInv /\ [MailNext]_mailVars => LedgerInv'
<1> SUFFICES ASSUME MailInv, LedgerInv, [MailNext]_mailVars PROVE LedgerInv'
  OBVIOUS
<1>1. CASE Receipt \/ CityAlert \/ PostmasterSends
  BY <1>1, LedgerSend DEF Receipt, CityAlert, PostmasterSends
<1>2. CASE Dispatch
  BY <1>2, LedgerDispatch
<1>3. CASE Record
  BY <1>3, LedgerRecord
<1>4. CASE Ingest
  BY <1>4, LedgerIngest
<1>5. CASE Tell
  BY <1>5, LedgerTell
<1>6. CASE MailRestart
  BY <1>6, LedgerRestart
<1>7. CASE UNCHANGED mailVars
  <2>1. OutInv'
    BY <1>7 DEF mailVars, LedgerInv, OutInv, Landed, Sent, Rows, Keys, MailKey, NoticeKey
  <2>2. MailAnswerInv'
    BY <1>7 DEF mailVars, LedgerInv, MailAnswerInv, Tried
  <2>3. NoticeInv'
    BY <1>7 DEF mailVars, LedgerInv, NoticeInv, Noticed, Pending, Places, NoticeKey
  <2>4. QED
    BY <2>1, <2>2, <2>3 DEF LedgerInv
<1>8. QED
  BY <1>1, <1>2, <1>3, <1>4, <1>5, <1>6, <1>7 DEF MailNext

-----------------------------------------------------------------------------
\* A key that arrived does not arrive again before the process is restarted; and but
\* for what a fault touched, a row says sent exactly if the mail arrived, nothing is
\* suppressed that was not tried, and every inbound letter has its issue and its copy.
THEOREM MailTheorem == MailSpec => []MailIsTrue
<1>1. MailInv /\ LedgerInv => MailIsTrue
  <2> SUFFICES ASSUME MailInv, LedgerInv PROVE MailLedgerIsTrue
    BY DEF MailInv, MailIsTrue
  <2>1. live =>
        /\ \A i \in DOMAIN outbox :
            outbox[i].status = "sent" =>
                [key |-> outbox[i].key, life |-> outbox[i].life] \in ToSet(arrived)
        /\ \A i \in DOMAIN arrived :
            \/ arrived[i].key \in marred
            \/ errand.at = "record" /\ errand.key = arrived[i].key
            \/ \E j \in DOMAIN outbox :
                /\ outbox[j].key = arrived[i].key /\ outbox[j].life = arrived[i].life
                /\ outbox[j].status = "sent"
    BY DEF LedgerInv, OutInv, Landed, Sent
  <2>2. ASSUME NEW i \in DOMAIN inbox, NoticeKey(inbox[i]) \notin marred, errand.at # "issue"
        PROVE  /\ Cardinality({n \in DOMAIN issues : issues[n] = inbox[i]}) =
                     Cardinality({n \in DOMAIN inbox : inbox[n] = inbox[i]})
               /\ \/ \E j \in DOMAIN outbox : outbox[j].key = NoticeKey(inbox[i])
                  \/ errand.at # "idle" /\ errand.key = NoticeKey(inbox[i])
    <3>1. inbox \in Seq(Inbounds) /\ issues \in Seq(Inbounds) /\ inbox[i] \in Inbounds
      BY <2>2 DEF LedgerInv, NoticeInv
    <3>2. Cardinality(Places(inbox, inbox[i])) = Cardinality(Places(issues, inbox[i])) + 0
      BY <2>2, <3>1 DEF LedgerInv, NoticeInv, Pending
    <3>3. Cardinality(Places(issues, inbox[i])) \in Nat
      BY <3>1, PlacesGrow
    <3>4. Cardinality(Places(inbox, inbox[i])) = Cardinality(Places(issues, inbox[i]))
      BY <3>2, <3>3
    <3>5. Noticed(inbox[i])
      BY <2>2 DEF LedgerInv, NoticeInv
    <3>6. QED
      BY <2>2, <3>4, <3>5 DEF Places, Noticed, Pending
  <2>3. QED
    BY <2>1, <2>2 DEF MailLedgerIsTrue, LedgerInv, MailAnswerInv
<1>2. MailSpec => [](MailInv /\ LedgerInv)
  BY MailInitInv, MailStepInv, LedgerInit, LedgerStep, PTL DEF MailSpec
<1>3. QED
  BY <1>1, <1>2, PTL
-----------------------------------------------------------------------------
(* One payment on the wire. *)

\* The wire by itself.
WireSpec == WireInit /\ [][WireNext]_wireVars

GoodOption(o) == o.asset \in DOMAIN Worth /\ o.amt \in Nat
GoodOffers(s) == DOMAIN s \subseteq Nat /\ \A i \in DOMAIN s : GoodOption(s[i])
Whole(p) ==
    p = [at |-> p.at, seller |-> p.seller, cap |-> p.cap, prefer |-> p.prefer,
         offers |-> p.offers, signed |-> p.signed, captured |-> p.captured, told |-> p.told]

Signed == {"signed", "verified", "paid", "failed", "done"}
Before == {"idle", "asked", "raised", "signed", "verified"}

\* What a call of pay_and_fetch has offered and signed: an option of the challenge, for
\* no more than the cap.
GoodBuy(p) ==
    /\ Whole(p)
    /\ p.at \in Before \cup Signed
    /\ p.cap \in Prices \cup {NoCap} /\ p.captured \in BOOLEAN
    /\ p.at # "idle" => GoodOffers(p.offers)
    /\ p.at \in Signed =>
          /\ \E i \in DOMAIN p.offers : p.offers[i] = p.signed
          /\ p.cap = NoCap \/ p.signed.amt <= p.cap

\* What has moved, m, what it is told, and what it reports, r, while the call is at its
\* place; g says that an answer of it was lost or
\* made up.
Flow(b, p, m, r, g) ==
    /\ p.at \in Before => m = 0 /\ p.told = NoReport
    /\ p.at # "done" => r = NoReport
    /\ p.at \in {"paid", "failed", "done"} =>
          /\ m \in Nat /\ m <= p.signed.amt
          /\ \/ p.at # "failed" /\ m # 0 /\ p.told \in Told(b, m)
             \/ p.at # "paid" /\ p.told = NoReport /\ (m = 0 \/ g)
             \/ /\ p.at # "failed" /\ p.seller # "own" /\ g
                /\ \E c \in Claims : p.told \in Told(b, c)
    /\ p.at = "done" => r = Charged(p)

WireInv ==
    /\ buy = [b \in Buys |-> buy[b]] /\ moved = [b \in Buys |-> moved[b]]
    /\ report = [b \in Buys |-> report[b]]
    /\ online \subseteq ToSet(Networks)
    /\ \A b \in Buys : GoodBuy(buy[b]) /\ Flow(b, buy[b], moved[b], report[b], b \in garbled)

LEMMA OneBuy ==
    ASSUME WireInv, UNCHANGED online, NEW b \in Buys, NEW n, NEW m, NEW r,
           buy' = [buy EXCEPT ![b] = n], moved' = [moved EXCEPT ![b] = m],
           report' = [report EXCEPT ![b] = r],
           garbled \subseteq garbled', garbled' \subseteq garbled \cup {b},
           GoodBuy(n), Flow(b, n, m, r, b \in garbled')
    PROVE  WireInv'
<1>1. /\ buy' = [x \in Buys |-> buy'[x]] /\ moved' = [x \in Buys |-> moved'[x]]
      /\ report' = [x \in Buys |-> report'[x]]
  BY DEF WireInv
<1>2. ASSUME NEW x \in Buys
      PROVE  GoodBuy(buy'[x]) /\ Flow(x, buy'[x], moved'[x], report'[x], x \in garbled')
  <2>1. CASE x = b
    <3>1. buy'[x] = n /\ moved'[x] = m /\ report'[x] = r
      BY <2>1 DEF WireInv
    <3>2. QED
      BY <2>1, <3>1
  <2>2. CASE x # b
    <3>1. buy'[x] = buy[x] /\ moved'[x] = moved[x] /\ report'[x] = report[x]
      BY <2>2 DEF WireInv
    <3>2. (x \in garbled') = (x \in garbled)
      BY <2>2
    <3>3. QED
      BY <3>1, <3>2 DEF WireInv
  <2>3. QED
    BY <2>1, <2>2
<1>3. QED
  BY <1>1, <1>2 DEF WireInv

LEMMA WireInitInv == WireInit => WireInv
<1> SUFFICES ASSUME WireInit PROVE WireInv
  OBVIOUS
<1>1. GoodBuy(Unasked)
  BY DEF GoodBuy, Whole, Unasked, Before, Signed
<1>2. \A g : \A b \in Buys : Flow(b, Unasked, 0, NoReport, g)
  BY DEF Flow, Unasked, Before
<1>3. QED
  BY <1>1, <1>2 DEF WireInit, WireInv

LEMMA OwnOffersGood == GoodOffers(OwnOffers)
<1>1. DOMAIN Networks = 1 .. Len(Networks) /\ Len(Networks) \in Nat
  BY WireAssumption
<1>2. \A i \in DOMAIN Networks : Networks[i] \in ToSet(Networks)
  BY DEF ToSet
<1>3. QED
  BY <1>1, <1>2, WireAssumption DEF GoodOffers, GoodOption, OwnOffers

LEMMA ForeignGood == \A s \in Foreign : GoodOffers(s)
<1> SUFFICES ASSUME NEW s \in Foreign PROVE GoodOffers(s)
  OBVIOUS
<1>1. s \in Seq(ToSet(s)) /\ \A o \in ToSet(s) : o.asset \in DOMAIN Worth /\ o.amt \in Nat
  BY WireAssumption
<1>2. DOMAIN s = 1 .. Len(s) /\ Len(s) \in Nat
  BY <1>1
<1>3. \A i \in DOMAIN s : s[i] \in ToSet(s)
  BY DEF ToSet
<1>4. QED
  BY <1>1, <1>2, <1>3 DEF GoodOffers, GoodOption

\* The option that the client signs is one of those it can afford.
LEMMA SelectedIs ==
    ASSUME NEW p, GoodOffers(p.offers), Affordable(p) # {}
    PROVE  \E i \in DOMAIN p.offers :
              /\ Selected(p) = p.offers[i]
              /\ p.cap = NoCap \/ p.offers[i].amt <= p.cap
<1> DEFINE preferred == {i \in Affordable(p) : p.offers[i].net = p.prefer}
           among == IF preferred # {} THEN preferred ELSE Affordable(p)
<1>1. among # {} /\ among \subseteq Affordable(p)
  OBVIOUS
<1>2. among \subseteq Nat
  BY <1>1 DEF Affordable, GoodOffers
<1>3. Selected(p) = p.offers[CHOOSE i \in among : \A j \in among : i <= j]
  BY DEF Selected
<1> HIDE DEF among
<1>4. \E i \in among : \A j \in among : i <= j
  BY <1>1, <1>2, SmallestNat
<1>5. (CHOOSE i \in among : \A j \in among : i <= j) \in among
  BY <1>4
<1>6. QED
  BY <1>1, <1>3, <1>5 DEF Affordable

\* A place that a call moves to with nothing else of it changed.
LEMMA AtOnly ==
    ASSUME NEW p, Whole(p), NEW at, NEW n, n = [p EXCEPT !.at = at]
    PROVE  /\ Whole(n) /\ n.at = at /\ n.seller = p.seller /\ n.cap = p.cap
           /\ n.prefer = p.prefer /\ n.offers = p.offers /\ n.signed = p.signed
           /\ n.captured = p.captured /\ n.told = p.told /\ n.seller = p.seller
<1>1. n = [at |-> at, seller |-> p.seller, cap |-> p.cap, prefer |-> p.prefer,
           offers |-> p.offers, signed |-> p.signed, captured |-> p.captured, told |-> p.told]
  BY DEF Whole
<1>2. QED
  BY <1>1 DEF Whole

LEMMA ChallengedInv == ASSUME WireInv, NEW b \in Buys, Challenged(b) PROVE WireInv'
<1>1. PICK seller \in {"own", "foreign", "single", "accepts", "headers"},
           cap \in Prices \cup {NoCap}, prefer \in ToSet(Networks),
           offers \in Foreign \cup {OwnOffers} :
         buy' = [buy EXCEPT ![b] = [Unasked EXCEPT !.at = "asked", !.seller = seller,
                   !.cap = cap, !.prefer = prefer, !.offers = offers]]
  BY DEF Challenged
<1>2. PICK n : n = [at |-> "asked", seller |-> seller, cap |-> cap, prefer |-> prefer,
                    offers |-> offers, signed |-> NoOption, captured |-> FALSE, told |-> NoReport]
  OBVIOUS
<1>3. buy' = [buy EXCEPT ![b] = n]
  <2>1. PICK o : o = Unasked
    OBVIOUS
  <2>2. Whole(o) /\ o.signed = NoOption /\ o.captured = FALSE /\ o.told = NoReport
    BY <2>1 DEF Unasked, Whole
  <2>3. PICK x : x = [o EXCEPT !.at = "asked", !.seller = seller, !.cap = cap, !.prefer = prefer,
                               !.offers = offers]
    OBVIOUS
  <2>4. x = [at |-> "asked", seller |-> seller, cap |-> cap, prefer |-> prefer,
             offers |-> offers, signed |-> o.signed, captured |-> o.captured, told |-> o.told]
    BY <2>2, <2>3 DEF Whole
  <2>5. x = n
    BY <1>2, <2>2, <2>4
  <2>6. QED
    BY <1>1, <2>1, <2>3, <2>5
<1>4. GoodOffers(offers)
  BY OwnOffersGood, ForeignGood
<1>5. GoodBuy(n)
  BY <1>2, <1>4 DEF GoodBuy, Whole, Before, Signed
<1>6. moved[b] = 0 /\ report[b] = NoReport
  BY DEF WireInv, Flow, Challenged, Before
<1>7. Flow(b, n, moved[b], report[b], b \in garbled)
  BY <1>2, <1>6 DEF Flow, Before
<1>8. PICK m, r : m = moved[b] /\ r = report[b]
  OBVIOUS
<1>9. moved' = [moved EXCEPT ![b] = m] /\ report' = [report EXCEPT ![b] = r]
  BY <1>8 DEF Challenged, WireInv
<1>10. UNCHANGED <<online, garbled>>
  BY DEF Challenged
<1>11. Flow(b, n, m, r, b \in garbled')
  BY <1>7, <1>8, <1>10
<1>12. QED
  BY <1>3, <1>5, <1>9, <1>10, <1>11, OneBuy

LEMMA SignInv == ASSUME WireInv, NEW b \in Buys, Sign(b) PROVE WireInv'
<1>1. PICK p : p = buy[b]
  OBVIOUS
<1>2. PICK c \in BOOLEAN : buy' = [buy EXCEPT ![b].at = "signed", ![b].signed = Selected(buy[b]),
                                             ![b].captured = c]
  BY DEF Sign
<1>3. PICK s : s = Selected(p)
  OBVIOUS
<1>4. PICK n : n = [p EXCEPT !.at = "signed", !.signed = s, !.captured = c]
  OBVIOUS
<1>5. buy' = [buy EXCEPT ![b] = n]
  BY <1>1, <1>2, <1>3, <1>4 DEF WireInv
<1>6. GoodBuy(p) /\ p.at = "asked" /\ Affordable(p) # {}
  BY <1>1 DEF WireInv, Sign
<1>7. /\ Whole(n) /\ n.at = "signed" /\ n.cap = p.cap /\ n.offers = p.offers /\ n.signed = s
      /\ n.captured = c /\ n.told = p.told
  <2>1. Whole(p)
    BY <1>6 DEF GoodBuy
  <2>2. n = [at |-> "signed", seller |-> p.seller, cap |-> p.cap, prefer |-> p.prefer,
             offers |-> p.offers, signed |-> s, captured |-> c, told |-> p.told]
    BY <1>4, <2>1 DEF Whole
  <2>3. QED
    BY <2>2 DEF Whole
<1>8. GoodOffers(p.offers)
  BY <1>6 DEF GoodBuy
<1>9. \E i \in DOMAIN p.offers : s = p.offers[i] /\ (p.cap = NoCap \/ p.offers[i].amt <= p.cap)
  BY <1>3, <1>6, <1>8, SelectedIs
<1>10. GoodBuy(n)
  BY <1>6, <1>7, <1>8, <1>9 DEF GoodBuy, Signed
<1>11. moved[b] = 0 /\ report[b] = NoReport /\ p.told = NoReport
  BY <1>1, <1>6 DEF WireInv, Flow, Before
<1>12. PICK m, r : m = moved[b] /\ r = report[b]
  OBVIOUS
<1>13. Flow(b, n, m, r, b \in garbled')
  BY <1>7, <1>11, <1>12 DEF Flow, Before
<1>14. moved' = [moved EXCEPT ![b] = m] /\ report' = [report EXCEPT ![b] = r]
  BY <1>12 DEF Sign, WireInv
<1>15. UNCHANGED <<online, garbled>>
  BY DEF Sign
<1>16. QED
  BY <1>5, <1>10, <1>13, <1>14, <1>15, OneBuy

\* A call that moves to another place, with an answer lost or not.
LEMMA MovesOn ==
    ASSUME WireInv, UNCHANGED <<online, moved, report>>, NEW b \in Buys, NEW at,
           buy' = [buy EXCEPT ![b].at = at],
           garbled \subseteq garbled', garbled' \subseteq garbled \cup {b},
           \/ buy[b].at = "asked" /\ at = "raised"
           \/ buy[b].at = "signed" /\ at \in {"verified", "failed"}
           \/ buy[b].at = "verified" /\ at = "failed"
    PROVE  WireInv'
<1>1. PICK p : p = buy[b]
  OBVIOUS
<1>2. PICK n : n = [p EXCEPT !.at = at]
  OBVIOUS
<1>3. buy' = [buy EXCEPT ![b] = n]
  BY <1>1, <1>2 DEF WireInv
<1>4. GoodBuy(p)
  BY <1>1 DEF WireInv
<1>5. /\ Whole(n) /\ n.at = at /\ n.cap = p.cap /\ n.offers = p.offers /\ n.signed = p.signed
      /\ n.captured = p.captured /\ n.told = p.told /\ n.seller = p.seller
  BY <1>2, <1>4, AtOnly DEF GoodBuy
<1>6. GoodBuy(n)
  BY <1>1, <1>4, <1>5 DEF GoodBuy, Before, Signed
<1>7. moved[b] = 0 /\ report[b] = NoReport /\ p.told = NoReport
  BY <1>1 DEF WireInv, Flow, Before
<1>8. PICK m, r : m = moved[b] /\ r = report[b]
  OBVIOUS
<1>9. at = "failed" => p.signed.amt \in Nat
  BY <1>1, <1>4 DEF GoodBuy, GoodOffers, GoodOption, Signed
<1>10. at \in Before \cup {"failed"}
  BY DEF Before
<1>11. Flow(b, n, m, r, b \in garbled')
  <2>1. m = 0 /\ r = NoReport /\ n.told = NoReport /\ n.at = at /\ n.signed = p.signed
    BY <1>5, <1>7, <1>8
  <2>2. at = "failed" => m <= n.signed.amt
    BY <1>9, <2>1
  <2>3. QED
    BY <1>10, <2>1, <2>2 DEF Flow, Before
<1>12. moved' = [moved EXCEPT ![b] = m] /\ report' = [report EXCEPT ![b] = r]
  BY <1>8 DEF WireInv
<1>13. QED
  BY <1>3, <1>6, <1>11, <1>12, OneBuy

LEMMA SettleMovesInv == ASSUME WireInv, NEW b \in Buys, SettleMoves(b) PROVE WireInv'
<1>1. PICK p : p = buy[b]
  OBVIOUS
<1>2. PICK m \in {buy[b].signed.amt, buy[b].signed.amt \div 2} \ {0} :
         /\ moved' = [moved EXCEPT ![b] = m]
         /\ \E told \in Told(b, m) : buy' = [buy EXCEPT ![b].at = "paid", ![b].told = told]
  BY DEF SettleMoves
<1>3. PICK told \in Told(b, m) : buy' = [buy EXCEPT ![b].at = "paid", ![b].told = told]
  BY <1>2
<1>4. PICK n : n = [p EXCEPT !.at = "paid", !.told = told]
  OBVIOUS
<1>5. buy' = [buy EXCEPT ![b] = n]
  BY <1>1, <1>3, <1>4 DEF WireInv
<1>6. GoodBuy(p) /\ p.at = "verified"
  BY <1>1 DEF WireInv, SettleMoves
<1>7. /\ Whole(n) /\ n.at = "paid" /\ n.cap = p.cap /\ n.offers = p.offers /\ n.signed = p.signed
      /\ n.captured = p.captured /\ n.told = told
  <2>1. Whole(p)
    BY <1>6 DEF GoodBuy
  <2>2. n = [at |-> "paid", seller |-> p.seller, cap |-> p.cap, prefer |-> p.prefer,
             offers |-> p.offers, signed |-> p.signed, captured |-> p.captured, told |-> told]
    BY <1>4, <2>1 DEF Whole
  <2>3. QED
    BY <2>2 DEF Whole
<1>8. GoodBuy(n)
  BY <1>6, <1>7 DEF GoodBuy, Signed
<1>9. p.signed.amt \in Nat
  BY <1>6 DEF GoodBuy, GoodOffers, GoodOption, Signed
<1>10. m \in Nat /\ m <= p.signed.amt /\ m # 0
  <2>1. \A a \in Nat : a \div 2 \in Nat /\ a \div 2 <= a
    OBVIOUS
  <2>2. QED
    BY <1>1, <1>9, <2>1
<1>11. report[b] = NoReport
  BY <1>1, <1>6 DEF WireInv, Flow
<1>12. PICK r : r = report[b]
  OBVIOUS
<1>13. Flow(b, n, m, r, b \in garbled')
  BY <1>7, <1>10, <1>11, <1>12 DEF Flow, Before
<1>14. report' = [report EXCEPT ![b] = r] /\ UNCHANGED <<online, garbled>>
  BY <1>12 DEF SettleMoves, WireInv
<1>15. QED
  BY <1>2, <1>5, <1>8, <1>13, <1>14, OneBuy

LEMMA AnswerLostInv == ASSUME WireInv, NEW b \in Buys, AnswerLost(b) PROVE WireInv'
<1>1. PICK p : p = buy[b]
  OBVIOUS
<1>2. PICK n : n = [p EXCEPT !.at = "failed", !.told = NoReport]
  OBVIOUS
<1>3. PICK m : m = IF p.at = "verified" THEN p.signed.amt ELSE moved[b]
  OBVIOUS
<1>4. PICK r : r = report[b]
  OBVIOUS
<1>5. GoodBuy(p) /\ p.at \in {"verified", "paid"}
  BY <1>1 DEF WireInv, AnswerLost
<1>6. buy' = [buy EXCEPT ![b] = n]
  BY <1>1, <1>2 DEF AnswerLost, WireInv
<1>7. /\ Whole(n) /\ n.at = "failed" /\ n.cap = p.cap /\ n.offers = p.offers /\ n.signed = p.signed
      /\ n.captured = p.captured /\ n.told = NoReport
  <2>1. Whole(p)
    BY <1>5 DEF GoodBuy
  <2>2. n = [at |-> "failed", seller |-> p.seller, cap |-> p.cap, prefer |-> p.prefer,
             offers |-> p.offers, signed |-> p.signed, captured |-> p.captured, told |-> NoReport]
    BY <1>2, <2>1 DEF Whole
  <2>3. QED
    BY <2>2 DEF Whole
<1>8. GoodBuy(n)
  BY <1>5, <1>7 DEF GoodBuy, Signed
<1>9. p.signed.amt \in Nat
  BY <1>5 DEF GoodBuy, GoodOffers, GoodOption, Signed
<1>10. Flow(b, p, moved[b], report[b], b \in garbled)
  BY <1>1 DEF WireInv
<1>11. m \in Nat /\ m <= p.signed.amt
  BY <1>3, <1>5, <1>9, <1>10 DEF Flow
<1>12. r = NoReport
  BY <1>4, <1>5, <1>10 DEF Flow
<1>13. garbled' = garbled \cup {b}
  BY DEF AnswerLost
<1>14. Flow(b, n, m, r, b \in garbled')
  BY <1>7, <1>11, <1>12, <1>13 DEF Flow, Before
<1>15. moved' = [moved EXCEPT ![b] = m]
  <2>1. CASE p.at = "verified"
    BY <1>1, <1>3, <2>1 DEF AnswerLost
  <2>2. CASE p.at = "paid"
    BY <1>1, <1>3, <2>2 DEF AnswerLost, WireInv
  <2>3. QED
    BY <1>5, <2>1, <2>2
<1>16. report' = [report EXCEPT ![b] = r] /\ UNCHANGED online
  BY <1>4 DEF AnswerLost, WireInv
<1>17. QED
  BY <1>6, <1>8, <1>13, <1>14, <1>15, <1>16, OneBuy

LEMMA SellerClaimsInv == ASSUME WireInv, NEW b \in Buys, SellerClaims(b) PROVE WireInv'
<1>1. PICK p, m, r : p = buy[b] /\ m = moved[b] /\ r = report[b]
  OBVIOUS
<1>2. PICK c \in Claims : \E told \in Told(b, c) :
         buy' = [buy EXCEPT ![b].at = "paid", ![b].told = told]
  BY DEF SellerClaims
<1>3. PICK told \in Told(b, c) : buy' = [buy EXCEPT ![b].at = "paid", ![b].told = told]
  BY <1>2
<1>4. PICK n : n = [p EXCEPT !.at = "paid", !.told = told]
  OBVIOUS
<1>5. buy' = [buy EXCEPT ![b] = n]
  BY <1>1, <1>3, <1>4 DEF WireInv
<1>6. /\ GoodBuy(p) /\ p.at \in {"signed", "verified", "failed", "paid"} /\ p.seller # "own"
      /\ Flow(b, p, m, r, b \in garbled)
  BY <1>1 DEF WireInv, SellerClaims
<1>7. /\ Whole(n) /\ n.at = "paid" /\ n.cap = p.cap /\ n.offers = p.offers /\ n.signed = p.signed
      /\ n.captured = p.captured /\ n.told = told /\ n.seller = p.seller
  <2>1. Whole(p)
    BY <1>6 DEF GoodBuy
  <2>2. n = [at |-> "paid", seller |-> p.seller, cap |-> p.cap, prefer |-> p.prefer,
             offers |-> p.offers, signed |-> p.signed, captured |-> p.captured, told |-> told]
    BY <1>4, <2>1 DEF Whole
  <2>3. QED
    BY <2>2 DEF Whole
<1>8. GoodBuy(n)
  BY <1>6, <1>7 DEF GoodBuy, Signed
<1>9. p.signed.amt \in Nat
  BY <1>6 DEF GoodBuy, GoodOffers, GoodOption, Signed
<1>10. m \in Nat /\ m <= p.signed.amt /\ r = NoReport
  BY <1>6, <1>9 DEF Flow, Before
<1>11. garbled' = garbled \cup {b}
  BY DEF SellerClaims
<1>12. Flow(b, n, m, r, b \in garbled')
  BY <1>3, <1>6, <1>7, <1>10, <1>11 DEF Flow, Before
<1>13. /\ moved' = [moved EXCEPT ![b] = m] /\ report' = [report EXCEPT ![b] = r]
       /\ UNCHANGED online
  BY <1>1 DEF SellerClaims, WireInv
<1>14. QED
  BY <1>5, <1>8, <1>11, <1>12, <1>13, OneBuy

LEMMA SellerSettlesLateInv == ASSUME WireInv, NEW b \in Buys, SellerSettlesLate(b) PROVE WireInv'
<1>1. PICK p, m, r : p = buy[b] /\ m = p.signed.amt /\ r = report[b]
  OBVIOUS
<1>2. /\ GoodBuy(p) /\ p.at = "done" /\ moved[b] = 0 /\ Flow(b, p, moved[b], r, b \in garbled)
      /\ garbled' = garbled \cup {b}
  BY <1>1 DEF WireInv, SellerSettlesLate
<1>3. m \in Nat
  BY <1>1, <1>2 DEF GoodBuy, GoodOffers, GoodOption, Signed
<1>4. r = Charged(p)
  BY <1>2 DEF Flow
<1>5. \/ p.told = NoReport
      \/ p.seller # "own" /\ \E c \in Claims : p.told \in Told(b, c)
  BY <1>2 DEF Flow
<1>6. Flow(b, p, m, r, b \in garbled')
  BY <1>1, <1>2, <1>3, <1>4, <1>5 DEF Flow, Before
<1>7. /\ buy' = [buy EXCEPT ![b] = p] /\ moved' = [moved EXCEPT ![b] = m]
      /\ report' = [report EXCEPT ![b] = r] /\ UNCHANGED online
  BY <1>1 DEF SellerSettlesLate, WireInv
<1>8. QED
  BY <1>2, <1>6, <1>7, OneBuy

LEMMA PayReturnsInv == ASSUME WireInv, NEW b \in Buys, PayReturns(b) PROVE WireInv'
<1>1. PICK p : p = buy[b]
  OBVIOUS
<1>2. PICK n : n = [p EXCEPT !.at = "done"]
  OBVIOUS
<1>3. PICK m : m = moved[b]
  OBVIOUS
<1>4. PICK r : r = Charged(p)
  OBVIOUS
<1>5. buy' = [buy EXCEPT ![b] = n]
  BY <1>1, <1>2 DEF PayReturns, WireInv
<1>6. GoodBuy(p) /\ p.at \in {"paid", "failed"}
  BY <1>1 DEF WireInv, PayReturns
<1>7. /\ Whole(n) /\ n.at = "done" /\ n.cap = p.cap /\ n.offers = p.offers /\ n.signed = p.signed
      /\ n.captured = p.captured /\ n.told = p.told /\ n.seller = p.seller
  BY <1>2, <1>6, AtOnly DEF GoodBuy
<1>8. GoodBuy(n)
  BY <1>6, <1>7 DEF GoodBuy, Signed
<1>9. Flow(b, p, m, report[b], b \in garbled)
  BY <1>1, <1>3 DEF WireInv
<1>10. Charged(n) = Charged(p)
  BY <1>7 DEF Charged
<1>11. Flow(b, n, m, r, b \in garbled)
  BY <1>4, <1>6, <1>7, <1>9, <1>10 DEF Flow, Before
<1>12. /\ moved' = [moved EXCEPT ![b] = m] /\ report' = [report EXCEPT ![b] = r]
       /\ UNCHANGED <<online, garbled>>
  BY <1>1, <1>3, <1>4 DEF PayReturns, WireInv
<1>13. Flow(b, n, m, r, b \in garbled')
  BY <1>11, <1>12
<1>14. QED
  BY <1>5, <1>8, <1>12, <1>13, OneBuy

LEMMA WireStepInv == WireInv /\ [WireNext]_wireVars => WireInv'
<1> SUFFICES ASSUME WireInv, [WireNext]_wireVars PROVE WireInv'
  OBVIOUS
<1>1. ASSUME FacilitatorFlips PROVE WireInv'
  <2>1. UNCHANGED <<buy, moved, report, garbled>> /\ online' \subseteq ToSet(Networks)
    BY <1>1 DEF FacilitatorFlips, WireInv
  <2>2. QED
    BY <2>1 DEF WireInv
<1>2. ASSUME NEW b \in Buys, Refuse(b) PROVE WireInv'
  BY <1>2, MovesOn DEF Refuse
<1>3. ASSUME NEW b \in Buys, VerifySigned(b) PROVE WireInv'
  <2>1. PICK at \in {"verified", "failed"} : buy' = [buy EXCEPT ![b].at = at]
    BY <1>3 DEF VerifySigned
  <2>2. garbled \subseteq garbled' /\ garbled' \subseteq garbled \cup {b}
    BY <1>3 DEF VerifySigned
  <2>3. UNCHANGED <<online, moved, report>> /\ buy[b].at = "signed"
    BY <1>3 DEF VerifySigned
  <2>4. QED
    BY <2>1, <2>2, <2>3, MovesOn
<1>4. ASSUME NEW b \in Buys, SettleFails(b) PROVE WireInv'
  BY <1>4, MovesOn DEF SettleFails
<1>5. CASE UNCHANGED wireVars
  BY <1>5 DEF wireVars, WireInv
<1>6. QED
  BY <1>1, <1>2, <1>3, <1>4, <1>5, ChallengedInv, SignInv, SettleMovesInv, AnswerLostInv,
     SellerClaimsInv, SellerSettlesLateInv, PayReturnsInv DEF WireNext

LEMMA WireInvHolds == WireSpec => []WireInv
  BY WireInitInv, WireStepInv, PTL DEF WireSpec

\* What pay_and_fetch makes of a settlement, or of none.
LEMMA ChargedIs ==
    ASSUME NEW p, NEW b, NEW m
    PROVE  /\ p.told = NoReport => Charged(p) = NoReport
           /\ p.told \in Told(b, m) =>
                /\ Charged(p).settled = TRUE
                /\ Charged(p).source = "settlement" => Charged(p).charged = m
                /\ Charged(p).source = "settlement" /\ p.captured = TRUE =>
                      Charged(p).worth = WorthOf(p.signed.asset)
                /\ Charged(p).source = "authorized" =>
                      /\ Charged(p).charged = p.signed.amt
                      /\ Charged(p).worth = WorthOf(p.signed.asset)
<1>1. ASSUME p.told = NoReport PROVE Charged(p) = NoReport
  BY <1>1 DEF Charged, NoReport
<1>2. ASSUME p.told = [settled |-> TRUE, charged |-> m, worth |-> 0, source |-> "settlement"]
      PROVE  /\ Charged(p).settled = TRUE /\ Charged(p).source = "settlement"
             /\ Charged(p).charged = m
             /\ p.captured = TRUE => Charged(p).worth = WorthOf(p.signed.asset)
  <2>1. PICK t : t = p.told
    OBVIOUS
  <2>2. Charged(p) = [t EXCEPT !.worth = IF p.captured THEN WorthOf(p.signed.asset) ELSE Worth["usdc"]]
    BY <1>2, <2>1 DEF Charged
  <2>3. PICK x : x = IF p.captured THEN WorthOf(p.signed.asset) ELSE Worth["usdc"]
    OBVIOUS
  <2>4. Charged(p) = [settled |-> TRUE, charged |-> m, worth |-> x, source |-> "settlement"]
    <3>1. t = [settled |-> TRUE, charged |-> m, worth |-> 0, source |-> "settlement"]
      BY <1>2, <2>1
    <3>2. Charged(p) = [t EXCEPT !.worth = x]
      BY <2>2, <2>3
    <3>3. PICK y, z : y = TRUE /\ z = "settlement"
      OBVIOUS
    <3>4. t = [settled |-> y, charged |-> m, worth |-> 0, source |-> z]
      BY <3>1, <3>3
    <3>5. [t EXCEPT !.worth = x] = [settled |-> y, charged |-> m, worth |-> x, source |-> z]
      BY <3>4
    <3>6. QED
      BY <3>2, <3>3, <3>5
  <2>5. QED
    BY <2>3, <2>4
<1>3. ASSUME p.told = [settled |-> TRUE, charged |-> m, worth |-> 0, source |-> "none"]
      PROVE  /\ Charged(p).settled = TRUE /\ Charged(p).source # "settlement"
             /\ Charged(p).source = "authorized" =>
                   /\ Charged(p).charged = p.signed.amt
                   /\ Charged(p).worth = WorthOf(p.signed.asset)
  <2>1. /\ p.told.settled = TRUE /\ p.told.source = "none"
    BY <1>3
  <2>2. CASE p.captured
    <3>1. Charged(p) = [settled |-> TRUE, charged |-> p.signed.amt,
                        worth |-> WorthOf(p.signed.asset), source |-> "authorized"]
      BY <2>1, <2>2 DEF Charged
    <3>2. QED
      BY <3>1
  <2>3. CASE ~p.captured
    <3>1. Charged(p) = [NoReport EXCEPT !.settled = TRUE]
      BY <2>1, <2>3 DEF Charged
    <3>2. Charged(p) = [settled |-> TRUE, charged |-> 0, worth |-> 0, source |-> "none"]
      BY <3>1 DEF NoReport
    <3>3. QED
      BY <3>2
  <2>4. QED
    BY <2>2, <2>3
<1>4. QED
  BY <1>1, <1>2, <1>3 DEF Told

\* Whatever challenges, caps, assets, lost answers, false answers and late settlements
\* there are: no more than the cap moves in atomic units, nor in worth unless the asset
\* is coarser than USDC; what pay_and_fetch reports of an honest seller is true as far
\* as it goes; and an amount reported as authorized bounds what moved in any case.
THEOREM SpendTheorem == WireSpec => []SpendIsTrue
<1>1. ASSUME WireInv, NEW b \in Buys, NEW p, NEW r, NEW m,
             p = buy[b], r = report[b], m = moved[b]
      PROVE  /\ m > 0 /\ p.cap # NoCap =>
                   /\ m <= p.cap
                   /\ Worth[p.signed.asset] <= Worth["usdc"] =>
                         m * Worth[p.signed.asset] <= p.cap * Worth["usdc"]
             /\ p.at = "done" /\ ~r.settled => m = 0 \/ b \in garbled
             /\ (p.seller = "own" \/ b \notin garbled) /\ r.settled => m > 0
             /\ /\ p.seller = "own" \/ b \notin garbled
                /\ r.source = "settlement" /\ p.captured
                => r.charged = m /\ r.worth = WorthOf(p.signed.asset)
             /\ r.source = "authorized" =>
                   r.charged >= m /\ r.worth = WorthOf(p.signed.asset)
  <2>2. GoodBuy(p) /\ Flow(b, p, m, r, b \in garbled)
    BY <1>1 DEF WireInv
  <2>3. NoReport.settled = FALSE /\ NoReport.source = "none"
    BY DEF NoReport
  <2>4. CASE p.at \notin {"paid", "failed", "done"}
    <3>1. m = 0 /\ r = NoReport
      BY <2>2, <2>4 DEF GoodBuy, Flow, Before, Signed
    <3>2. QED
      BY <2>3, <2>4, <3>1
  <2>5. CASE p.at \in {"paid", "failed", "done"}
    <3>1. /\ m \in Nat /\ m <= p.signed.amt /\ p.signed.amt \in Nat
          /\ p.signed.asset \in DOMAIN Worth
          /\ p.cap = NoCap \/ p.signed.amt <= p.cap
          /\ p.cap = NoCap \/ p.cap \in Nat
      BY <2>2, <2>5, WireAssumption DEF GoodBuy, GoodOffers, GoodOption, Signed, Flow
    <3>2. p.cap # NoCap =>
             /\ m <= p.cap
             /\ Worth[p.signed.asset] <= Worth["usdc"] =>
                   m * Worth[p.signed.asset] <= p.cap * Worth["usdc"]
      <4> SUFFICES ASSUME p.cap # NoCap
                   PROVE  /\ m <= p.cap
                          /\ Worth[p.signed.asset] <= Worth["usdc"] =>
                                m * Worth[p.signed.asset] <= p.cap * Worth["usdc"]
        OBVIOUS
      <4>1. p.cap \in Nat /\ m <= p.cap
        BY <3>1
      <4>2. Worth[p.signed.asset] \in Nat /\ Worth["usdc"] \in Nat
        BY <3>1, WireAssumption
      <4>3. \A c \in Nat, d \in Nat, v \in Nat, w \in Nat : c <= d /\ v <= w => c * v <= d * w
        <5>1. ASSUME NEW c \in Nat, NEW d \in Nat, NEW v \in Nat, NEW w \in Nat, c <= d, v <= w
              PROVE  c * v <= d * w
          <6>1. c * v <= d * v
            BY <5>1
          <6>2. d * v <= d * w
            BY <5>1
          <6>3. c * v \in Nat /\ d * v \in Nat /\ d * w \in Nat
            BY <5>1
          <6>4. QED
            BY <6>1, <6>2, <6>3
        <5>2. QED
          BY <5>1
      <4>4. QED
        BY <3>1, <4>1, <4>2, <4>3
    <3>3. CASE p.at # "done"
      BY <2>2, <2>3, <3>2, <3>3 DEF Flow
    <3>4. CASE p.at = "done" /\ p.told = NoReport
      <4>1. r = NoReport /\ (m = 0 \/ b \in garbled)
        BY <2>2, <3>4, <2>3, ChargedIs DEF Flow, Told
      <4>2. QED
        BY <2>3, <3>2, <4>1
    <3>5. CASE p.at = "done" /\ p.told # NoReport
      <4>1. /\ r = Charged(p) /\ p.captured \in BOOLEAN
            /\ \/ m # 0 /\ p.told \in Told(b, m)
               \/ p.seller # "own" /\ b \in garbled /\ \E c \in Claims : p.told \in Told(b, c)
        BY <2>2, <3>5 DEF Flow, GoodBuy
      <4>2. PICK c : p.told \in Told(b, c) /\ ((m # 0 /\ c = m) \/ (p.seller # "own" /\ b \in garbled))
        BY <4>1
      <4>3. /\ r.settled = TRUE
            /\ r.source = "settlement" => r.charged = c
            /\ r.source = "settlement" /\ p.captured = TRUE => r.worth = WorthOf(p.signed.asset)
            /\ r.source = "authorized" =>
                  r.charged = p.signed.amt /\ r.worth = WorthOf(p.signed.asset)
        BY <4>1, <4>2, ChargedIs
      <4>4. QED
        BY <3>1, <3>2, <4>1, <4>2, <4>3
    <3>6. QED
      BY <3>3, <3>4, <3>5
  <2>6. QED
    BY <2>4, <2>5
<1>2. WireInv => SpendIsTrue
  BY <1>1 DEF SpendIsTrue
<1>3. QED
  BY <1>2, WireInvHolds, PTL

\* However many networks are offered and whichever facilitators answer, the seller
\* reads a payment for an option of the challenge it still has as one for that option.
THEOREM OfferTheorem == WireSpec => []OfferIsTaken
<1>1. ASSUME NEW offers, GoodOffers(offers), NEW i \in DOMAIN offers,
             \A j \in DOMAIN offers : offers[j].net = offers[i].net /\ offers[j].asset = offers[i].asset
                                      => offers[j] = offers[i]
      PROVE  Matched(offers, offers[i]) = offers[i]
  <2> DEFINE same == {j \in DOMAIN offers : /\ offers[j].net = offers[i].net
                                            /\ offers[j].asset = offers[i].asset}
  <2>1. same # {} /\ same \subseteq Nat
    BY <1>1 DEF GoodOffers
  <2>2. Matched(offers, offers[i]) = offers[CHOOSE j \in same : \A k \in same : j <= k]
    BY <2>1 DEF Matched
  <2>3. \A j \in same : offers[j] = offers[i]
    BY <1>1
  <2> HIDE DEF same
  <2>4. \E j \in same : \A k \in same : j <= k
    BY <2>1, SmallestNat
  <2>5. (CHOOSE j \in same : \A k \in same : j <= k) \in same
    BY <2>4
  <2>6. QED
    BY <2>2, <2>3, <2>5
<1>2. \A i, j \in DOMAIN OwnOffers :
         OwnOffers[j].net = OwnOffers[i].net /\ OwnOffers[j].asset = OwnOffers[i].asset
         => OwnOffers[j] = OwnOffers[i]
  BY DEF OwnOffers
<1>3. ASSUME WireInv, NEW b \in Buys, buy[b].at = "signed",
             \/ buy[b].seller = "own" /\ buy[b].offers = OwnOffers
             \/ buy[b].seller = "headers" /\ Unambiguous(buy[b].offers)
      PROVE  Requirement(buy[b]) = buy[b].signed
  <2>1. PICK p : p = buy[b]
    OBVIOUS
  <2>2. GoodBuy(p)
    BY <1>3, <2>1 DEF WireInv
  <2>3. GoodOffers(p.offers)
    BY <1>3, <2>1, <2>2 DEF GoodBuy
  <2>4. PICK i \in DOMAIN p.offers : p.offers[i] = p.signed
    BY <1>3, <2>1, <2>2 DEF GoodBuy, Signed
  <2>5. \A j \in DOMAIN p.offers :
           p.offers[j].net = p.offers[i].net /\ p.offers[j].asset = p.offers[i].asset
           => p.offers[j] = p.offers[i]
    BY <1>2, <1>3, <2>1 DEF Unambiguous
  <2>6. Matched(p.offers, p.offers[i]) = p.offers[i]
    BY <1>1, <2>3, <2>5
  <2>7. Requirement(p) = Matched(p.offers, p.signed)
    BY <1>3, <2>1 DEF Requirement
  <2>8. QED
    BY <2>1, <2>4, <2>6, <2>7
<1>4. WireInv => OfferIsTaken
  BY <1>3 DEF OfferIsTaken
<1>5. QED
  BY <1>4, WireInvHolds, PTL

-----------------------------------------------------------------------------
(* The pro tier and the credit packs. *)

\* The sum over calls S whose records are f.
SizeSum(f, S) == MapThenSumSet(LAMBDA c : f[c].size, S)

LEMMA SizeSumIs ==
    ASSUME NEW S, IsFiniteSet(S), NEW f, \A x \in S : f[x].size \in Int
    PROVE  SizeSum(f, S) = SumOver([x \in S |-> f[x].size], S)
<1> DEFINE w == [x \in S |-> f[x].size]
           Sums(g) == g = [s \in SUBSET S |-> IF s = {} THEN 0
                             ELSE f[CHOOSE x \in s : TRUE].size + g[s \ {CHOOSE x \in s : TRUE}]]
           iter == CHOOSE g : Sums(g)
<1>1. SizeSum(f, S) = iter[S]
  BY DEF SizeSum, MapThenSumSet, MapThenFoldSet
<1>2. \A x \in S : w[x] = f[x].size /\ w[x] \in Int
  OBVIOUS
<1> HIDE DEF w
<1>3. PICK g : IsSum(g, w, S)
  BY <1>2, SumExists
<1>4. ASSUME NEW s \in SUBSET S
      PROVE  SumStep(g, w, s) = IF s = {} THEN 0 ELSE f[Pick(s)].size + g[s \ {Pick(s)}]
  BY <1>2, PickIn DEF SumStep
<1>5. Sums(g)
  BY <1>3, <1>4 DEF IsSum, Pick
<1>6. Sums(iter)
  BY <1>5
<1> HIDE DEF iter
<1>7. ASSUME NEW s \in SUBSET S
      PROVE  SumStep(iter, w, s) = IF s = {} THEN 0 ELSE f[Pick(s)].size + iter[s \ {Pick(s)}]
  BY <1>2, PickIn DEF SumStep
<1>8. IsSum(iter, w, S)
  BY <1>6, <1>7 DEF IsSum, Pick
<1>9. SumOver(w, S) = iter[S]
  BY <1>2, <1>8, SumIs
<1>10. QED
  BY <1>1, <1>9 DEF w

\* The sum does not change with what else the records say.
LEMMA SizeSame ==
    ASSUME NEW S, IsFiniteSet(S), NEW f, NEW h,
           \A x \in S : f[x].size \in Int /\ h[x].size = f[x].size
    PROVE  SizeSum(f, S) = SizeSum(h, S)
<1>1. [x \in S |-> f[x].size] = [x \in S |-> h[x].size]
  OBVIOUS
<1>2. SizeSum(f, S) = SumOver([x \in S |-> f[x].size], S)
  BY SizeSumIs
<1>3. \A x \in S : h[x].size \in Int
  OBVIOUS
<1>4. SizeSum(h, S) = SumOver([x \in S |-> h[x].size], S)
  BY <1>3, SizeSumIs
<1>5. QED
  BY <1>1, <1>2, <1>4

LEMMA SizeMore ==
    ASSUME NEW T, IsFiniteSet(T), NEW S, S \subseteq T, NEW f, \A x \in T : f[x].size \in Nat
    PROVE  SizeSum(f, S) <= SizeSum(f, T) /\ SizeSum(f, S) \in Nat /\ SizeSum(f, T) \in Nat
<1> DEFINE w == [x \in T |-> f[x].size]
           v == [x \in S |-> f[x].size]
<1>1. IsFiniteSet(S) /\ (\A x \in S : f[x].size \in Int) /\ (\A x \in T : f[x].size \in Int)
  BY FS_Subset
<1>2. SizeSum(f, T) = SumOver(w, T) /\ SizeSum(f, S) = SumOver(v, S)
  BY <1>1, SizeSumIs
<1>3. /\ \A x \in T : w[x] \in Nat
      /\ \A x \in S : v[x] \in Nat /\ v[x] = w[x]
  OBVIOUS
<1> HIDE DEF w, v
<1>4. SumOver(v, S) = SumOver(w, S)
  <2>1. \A x \in S : v[x] \in Int /\ v[x] = w[x]
    BY <1>3
  <2>2. QED
    BY <1>1, <2>1, SumSame
<1>5. SumOver(w, S) <= SumOver(w, T)
  BY <1>3, SumMore
<1>6. SumOver(w, T) \in Nat /\ SumOver(v, S) \in Nat
  BY <1>1, <1>3, SumType
<1>7. QED
  BY <1>2, <1>4, <1>5, <1>6

LEMMA SizeAdd ==
    ASSUME NEW S, IsFiniteSet(S), NEW x, x \notin S, NEW f, \A y \in S \cup {x} : f[y].size \in Nat
    PROVE  SizeSum(f, S \cup {x}) = f[x].size + SizeSum(f, S)
<1> DEFINE R == S \cup {x}
           w == [y \in R |-> f[y].size]
           v == [y \in S |-> f[y].size]
<1>1. IsFiniteSet(R) /\ (\A y \in R : f[y].size \in Int) /\ (\A y \in S : f[y].size \in Int)
  BY FS_AddElement
<1>2. SizeSum(f, R) = SumOver(w, R) /\ SizeSum(f, S) = SumOver(v, S)
  BY <1>1, SizeSumIs
<1>3. /\ \A y \in S \cup {x} : w[y] \in Int
      /\ \A y \in S : v[y] \in Int /\ v[y] = w[y]
      /\ w[x] = f[x].size
  BY <1>1
<1> HIDE DEF w, v
<1>4. SumOver(v, S) = SumOver(w, S)
  BY <1>3, SumSame
<1>5. SumOver(w, S \cup {x}) = w[x] + SumOver(w, S)
  BY <1>3, SumAdd
<1>6. QED
  BY <1>2, <1>3, <1>4, <1>5

-----------------------------------------------------------------------------
\* What a call carries through its awaits: a verified payment is for what it buys, a
\* pack it buys is not empty, and it is paid only behind the settlement.
CallInv(c) ==
    call[c] # Idle =>
        /\ call[c].st # "ended" =>
              /\ call[c].kind \in {"activate_pro", "purchase_credits"}
              /\ call[c].pay \in Payments
              /\ call[c].kind = "purchase_credits" => call[c].size > 0
        /\ call[c].st \in {"settling", "settled"} => Covers(c)
        /\ call[c].st = "settled" => Paid(c)
        /\ call[c].st \in {"verifying", "settling"} => ~Paid(c)

\* What a settled payment was settled for.
PaymentInv(p) ==
    settledBy[p] # NoCall =>
        LET c == settledBy[p]
        IN  /\ call[c] # Idle /\ call[c].pay = p /\ Covers(c)
            /\ call[c].kind \in {"activate_pro", "purchase_credits"}
            /\ call[c].kind = "purchase_credits" => call[c].size > 0

\* What a call asked for that was told of another's settlement.
EchoInv(c) ==
    c \in echoed =>
        /\ call[c] # Idle /\ call[c].pay \in Payments /\ Covers(c)
        /\ settledBy[call[c].pay] # NoCall
        /\ call[c].kind \in {"activate_pro", "purchase_credits"}
        /\ call[c].kind = "purchase_credits" => call[c].size > 0

CallsInv ==
    /\ TypeOK /\ call = [c \in Calls |-> call[c]]
    /\ \A c \in Calls : CallInv(c) /\ EchoInv(c)
    /\ \A p \in Payments : PaymentInv(p)

\* The purchases of an agent that have settled and ended.
EndedPacks(a) == {c \in PaidFor(a, "purchase_credits") : call[c].st = "ended"}
Had(a) == credits[a] + spent[a]

BooksInv ==
    \A a \in Agents :
        /\ tier[a] = "pro" => \E c \in PaidFor(a, "activate_pro") : call[c].pay \in ForPro
        /\ Had(a) <= SizeSum(call, EndedPacks(a))
        /\ faults = 0 =>
              /\ \A c \in PaidFor(a, "activate_pro") : call[c].st = "ended" => tier[a] = "pro"
              /\ Had(a) = SizeSum(call, EndedPacks(a))

LEMMA CommerceInit == Init => CallsInv /\ BooksInv
<1> SUFFICES ASSUME Init PROVE CallsInv /\ BooksInv
  OBVIOUS
<1>1. CallsInv
  BY CommerceAssumption DEF Init, CallsInv, CallInv, EchoInv, PaymentInv, TypeOK, Idle
<1>2. \A a \in Agents : EndedPacks(a) = {} /\ PaidFor(a, "activate_pro") = {}
  BY DEF Init, EndedPacks, PaidFor
<1>3. SizeSum(call, {}) = 0
  <2>1. IsFiniteSet({}) /\ \A x \in {} : call[x].size \in Int
    BY FS_EmptySet
  <2>2. SizeSum(call, {}) = SumOver([x \in {} |-> call[x].size], {})
    BY <2>1, SizeSumIs
  <2>3. SumOver([x \in {} |-> call[x].size], {}) = 0
    BY <2>1, SumRec
  <2>4. QED
    BY <2>2, <2>3
<1>4. \A a \in Agents : Had(a) = 0 /\ tier[a] = "free"
  BY DEF Init, Had
<1>5. QED
  BY <1>1, <1>2, <1>3, <1>4 DEF BooksInv

\* Settled packs have a size, and there are finitely many.
LEMMA PacksSized ==
    ASSUME CallsInv, NEW a
    PROVE  /\ \A c \in PaidFor(a, "purchase_credits") : call[c].size \in Nat
           /\ IsFiniteSet(PaidFor(a, "purchase_credits")) /\ IsFiniteSet(EndedPacks(a))
           /\ EndedPacks(a) \subseteq PaidFor(a, "purchase_credits")
<1>1. PaidFor(a, "purchase_credits") \subseteq Calls
  BY DEF PaidFor
<1>2. EndedPacks(a) \subseteq PaidFor(a, "purchase_credits")
  BY DEF EndedPacks
<1>3. IsFiniteSet(PaidFor(a, "purchase_credits")) /\ IsFiniteSet(EndedPacks(a))
  BY <1>1, <1>2, FS_Subset, CommerceAssumption
<1>4. ASSUME NEW c \in PaidFor(a, "purchase_credits") PROVE call[c].size \in Nat
  <2>1. /\ c \in Calls /\ call[c] # Idle /\ call[c].kind = "purchase_credits"
        /\ call[c].pay # NoCall /\ Paid(c)
    BY DEF PaidFor
  <2>2. call[c] \in CallState
    BY <2>1 DEF CallsInv, TypeOK
  <2>3. call[c].pay \in Payments /\ call[c].size \in Int
    BY <2>1, <2>2 DEF CallState
  <2>4. c # NoCall
    BY <2>1, CommerceAssumption
  <2>5. call[c].size > 0
    <3>1. CASE settledBy[call[c].pay] = c
      BY <2>1, <2>3, <2>4, <3>1 DEF CallsInv, PaymentInv
    <3>2. CASE c \in echoed
      BY <2>1, <3>2 DEF CallsInv, EchoInv
    <3>3. QED
      BY <2>1, <3>1, <3>2 DEF Paid
  <2>6. QED
    BY <2>3, <2>5
<1>5. QED
  BY <1>2, <1>3, <1>4

AllSized ==
    \A a \in Agents : /\ \A c \in EndedPacks(a) : call[c].size \in Nat
                      /\ IsFiniteSet(EndedPacks(a))

LEMMA PacksSizedNow == CallsInv => AllSized
<1> SUFFICES ASSUME CallsInv, NEW a \in Agents
             PROVE  /\ \A c \in EndedPacks(a) : call[c].size \in Nat
                    /\ IsFiniteSet(EndedPacks(a))
  BY DEF AllSized
<1>1. QED
  BY PacksSized

LEMMA PacksSizedNext == CallsInv' => AllSized'
  BY PacksSizedNow, PTL

\* How a step moves what an agent has had and its ended purchases.
Steady(a) == EndedPacks(a)' = EndedPacks(a) /\ Had(a)' = Had(a)
Gained(a) ==
    \E c \in Calls \ EndedPacks(a) :
        /\ EndedPacks(a)' = EndedPacks(a) \cup {c}
        /\ Had(a)' = Had(a) + call'[c].size
Lost(a) == EndedPacks(a) \subseteq EndedPacks(a)' /\ Had(a)' <= Had(a)

LEMMA BooksStep ==
    ASSUME CallsInv, CallsInv', BooksInv, faults' = 0 => faults = 0, NEW a \in Agents,
           \A c \in PaidFor(a, "activate_pro") :
              c \in PaidFor(a, "activate_pro")' /\ call'[c].pay = call[c].pay,
           \A c \in EndedPacks(a) : call'[c].size = call[c].size,
           tier'[a] = "pro" =>
              tier[a] = "pro" \/ \E c \in PaidFor(a, "activate_pro")' : call'[c].pay \in ForPro,
           Steady(a) \/ Gained(a) \/ (faults' # 0 /\ Lost(a)),
           faults' = 0 =>
              \A c \in PaidFor(a, "activate_pro")' : call'[c].st = "ended" => tier'[a] = "pro"
    PROVE  /\ tier'[a] = "pro" => \E c \in PaidFor(a, "activate_pro")' : call'[c].pay \in ForPro
           /\ Had(a)' <= SizeSum(call', EndedPacks(a)')
           /\ faults' = 0 =>
              /\ \A c \in PaidFor(a, "activate_pro")' : call'[c].st = "ended" => tier'[a] = "pro"
              /\ Had(a)' = SizeSum(call', EndedPacks(a)')
<1>1. tier'[a] = "pro" => \E c \in PaidFor(a, "activate_pro")' : call'[c].pay \in ForPro
  BY DEF BooksInv
<1> DEFINE E == EndedPacks(a)
           F == EndedPacks(a)'
           g == call
           h == call'
<1>2. IsFiniteSet(E) /\ \A c \in E : g[c].size \in Nat
  BY PacksSized
<1>3. IsFiniteSet(F) /\ \A c \in F : h[c].size \in Nat
  BY PacksSizedNext DEF AllSized
<1>4. EndedPacks(a) = E /\ EndedPacks(a)' = F /\ Had(a) <= SizeSum(g, E)
      /\ (faults = 0 => Had(a) = SizeSum(g, E))
  BY DEF BooksInv
<1>5. \A c \in E : h[c].size = g[c].size /\ g[c].size \in Int
  BY <1>2
<1>6. Had(a) \in Int /\ Had(a)' \in Int
  BY DEF Had, CallsInv, TypeOK
<1> HIDE DEF E, F, g, h
<1>7. SizeSum(g, E) = SizeSum(h, E) /\ \A c \in E : h[c].size \in Nat
  BY <1>2, <1>5, SizeSame
<1>8. CASE Steady(a)
  <2>1. F = E /\ Had(a)' = Had(a)
    BY <1>4, <1>8 DEF Steady
  <2>2. QED
    BY <1>1, <1>4, <1>7, <2>1 DEF F, h
<1>9. CASE Gained(a)
  <2>1. PICK c \in Calls \ E : F = E \cup {c} /\ Had(a)' = Had(a) + h[c].size
    BY <1>4, <1>9 DEF Gained, h
  <2>2. c \notin E /\ \A y \in E \cup {c} : h[y].size \in Nat
    BY <1>3, <2>1
  <2>3. SizeSum(h, E \cup {c}) = h[c].size + SizeSum(h, E)
    BY <1>2, <2>2, SizeAdd
  <2>4. SizeSum(h, E) \in Nat /\ h[c].size \in Nat
    BY <1>2, <1>7, <2>2, SizeMore
  <2>5. /\ Had(a)' <= SizeSum(h, F)
        /\ faults' = 0 => Had(a)' = SizeSum(h, F)
    BY <1>4, <1>6, <1>7, <2>1, <2>3, <2>4
  <2>6. QED
    BY <1>1, <2>5 DEF F, h
<1>10. CASE faults' # 0 /\ Lost(a)
  <2>1. E \subseteq F /\ Had(a)' <= Had(a)
    BY <1>4, <1>10 DEF Lost
  <2>2. SizeSum(h, E) <= SizeSum(h, F) /\ SizeSum(h, E) \in Nat /\ SizeSum(h, F) \in Nat
    BY <1>3, <2>1, SizeMore
  <2>3. Had(a)' <= SizeSum(h, F)
    BY <1>4, <1>6, <1>7, <2>1, <2>2
  <2>4. QED
    BY <1>1, <1>10, <2>3 DEF F, h
<1>11. QED
  BY <1>8, <1>9, <1>10

-----------------------------------------------------------------------------
LEMMA Consumed ==
    ASSUME TypeOK, NEW a \in Agents, Consume(a)
    PROVE  /\ credits' \in [Agents -> Nat] /\ spent' \in [Agents -> Nat] /\ calls' \in [Agents -> Nat]
           /\ \A x \in Agents : Had(x)' = Had(x)
           /\ tier' = tier
<1> DEFINE cost == IF calls[a] < Quota(a) THEN 0 ELSE 1
<1>1. /\ credits' = [credits EXCEPT ![a] = credits[a] - cost]
      /\ spent' = [spent EXCEPT ![a] = spent[a] + cost]
      /\ calls' = [calls EXCEPT ![a] = calls[a] + 1] /\ tier' = tier
  BY DEF Consume
<1>2. cost \in {0, 1} /\ (cost = 1 => credits[a] > 0)
  <2>1. calls[a] \in Nat /\ credits[a] \in Nat /\ Quota(a) \in Nat
    BY CommerceAssumption DEF TypeOK, Quota
  <2>2. QED
    BY <2>1 DEF Consume, OverQuota
<1> HIDE DEF cost
<1>3. credits[a] \in Nat /\ spent[a] \in Nat /\ calls[a] \in Nat
  BY DEF TypeOK
<1>4. credits[a] - cost \in Nat /\ spent[a] + cost \in Nat /\ calls[a] + 1 \in Nat
  BY <1>2, <1>3
<1>5. ASSUME NEW x \in Agents PROVE Had(x)' = Had(x)
  <2>1. CASE x = a
    <3>1. credits'[x] = credits[a] - cost /\ spent'[x] = spent[a] + cost
      BY <1>1, <2>1 DEF TypeOK
    <3>2. QED
      BY <1>2, <1>3, <2>1, <3>1 DEF Had
  <2>2. CASE x # a
    BY <1>1, <2>2 DEF Had, TypeOK
  <2>3. QED
    BY <2>1, <2>2
<1>6. QED
  BY <1>1, <1>4, <1>5 DEF TypeOK

\* No payment is a call's that has not begun.
LEMMA IdleUnpaid ==
    ASSUME CallsInv, NEW c \in Calls, call[c] = Idle
    PROVE  c \notin echoed /\ \A p \in Payments : settledBy[p] # c
  BY CommerceAssumption DEF CallsInv, PaymentInv, EchoInv

LEMMA Began ==
    ASSUME CallsInv, BooksInv, NEW c \in Calls, call[c] = Idle, NEW n \in CallState,
           call' = [call EXCEPT ![c] = n],
           \/ n.st = "ended"
           \/ /\ n.st = "verifying" /\ n.kind \in {"activate_pro", "purchase_credits"}
              /\ n.pay \in Payments /\ (n.kind = "purchase_credits" => n.size > 0),
           UNCHANGED <<settledBy, echoed, tier, faults>>,
           proTerms' \subseteq Agents, packTerms' \in [Agents -> SUBSET Sizes],
           credits' \in [Agents -> Nat], spent' \in [Agents -> Nat], calls' \in [Agents -> Nat],
           \A x \in Agents : Had(x)' = Had(x)
    PROVE  CallsInv' /\ BooksInv'
<1>1. /\ call'[c] = n /\ n # Idle
      /\ \A d \in Calls : d # c => call'[d] = call[d]
      /\ call' = [d \in Calls |-> call'[d]]
  BY DEF CallsInv, Idle, CallState
<1>2. c \notin echoed /\ \A p \in Payments : settledBy[p] # c
  BY IdleUnpaid
<1>3. n.pay \in Payments \cup {NoCall}
  BY DEF CallState
<1>4. TypeOK'
  BY <1>1 DEF CallsInv, TypeOK
<1>5. ASSUME NEW d \in Calls PROVE (CallInv(d) /\ EchoInv(d))'
  <2>1. CASE d = c
    BY <1>1, <1>2, <1>3, <2>1 DEF CallInv, EchoInv, Paid
  <2>2. CASE d # c
    BY <1>1, <2>2 DEF CallInv, EchoInv, Paid, Covers, CallsInv
  <2>3. QED
    BY <2>1, <2>2
<1>6. ASSUME NEW p \in Payments PROVE PaymentInv(p)'
  <2>1. CASE settledBy[p] = NoCall
    BY <2>1 DEF PaymentInv
  <2>2. CASE settledBy[p] # NoCall
    <3>1. PICK d \in Calls : settledBy[p] = d
      BY <2>2 DEF CallsInv, TypeOK
    <3>2. d # c /\ call'[d] = call[d]
      BY <1>1, <1>2, <3>1
    <3>3. QED
      BY <2>2, <3>1, <3>2 DEF PaymentInv, Covers, CallsInv
  <2>3. QED
    BY <2>1, <2>2
<1>7. CallsInv'
  BY <1>1, <1>4, <1>5, <1>6 DEF CallsInv
<1>8. \A a, k : PaidFor(a, k)' = PaidFor(a, k) /\ c \notin PaidFor(a, k)
  <2> SUFFICES ASSUME NEW a, NEW k, NEW d \in Calls
               PROVE  (d \in PaidFor(a, k)' <=> d \in PaidFor(a, k)) /\ c \notin PaidFor(a, k)
    <3>1. \A a, k : PaidFor(a, k) \subseteq Calls /\ PaidFor(a, k)' \subseteq Calls
      BY DEF PaidFor
    <3>2. QED
      BY <3>1
  <2>1. c \notin PaidFor(a, k)
    BY DEF PaidFor
  <2>2. CASE d = c
    <3>1. c \notin PaidFor(a, k)'
      BY <1>1, <1>2, <1>3 DEF PaidFor, Paid
    <3>2. QED
      BY <2>1, <2>2, <3>1
  <2>3. CASE d # c
    BY <1>1, <2>1, <2>3 DEF PaidFor, Paid
  <2>4. QED
    BY <2>2, <2>3
<1>9. \A a, k : \A d \in PaidFor(a, k) : call'[d] = call[d]
  BY <1>1, <1>8 DEF PaidFor
<1>10. \A a : EndedPacks(a)' = EndedPacks(a)
  BY <1>8, <1>9 DEF EndedPacks
<1>11. \A a \in Agents : Steady(a)
  BY <1>10 DEF Steady
<1>12. BooksInv'
  <2> SUFFICES ASSUME NEW a \in Agents
               PROVE  /\ tier'[a] = "pro" => \E d \in PaidFor(a, "activate_pro")' : call'[d].pay \in ForPro
                      /\ Had(a)' <= SizeSum(call', EndedPacks(a)')
                      /\ faults' = 0 =>
                           /\ \A d \in PaidFor(a, "activate_pro")' :
                                 call'[d].st = "ended" => tier'[a] = "pro"
                           /\ Had(a)' = SizeSum(call', EndedPacks(a)')
    BY DEF BooksInv
  <2>1. \A d \in PaidFor(a, "activate_pro") :
           d \in PaidFor(a, "activate_pro")' /\ call'[d].pay = call[d].pay
    BY <1>8, <1>9
  <2>2. \A d \in EndedPacks(a) : call'[d].size = call[d].size
    BY <1>9 DEF EndedPacks
  <2>3. faults' = 0 =>
           \A d \in PaidFor(a, "activate_pro")' : call'[d].st = "ended" => tier'[a] = "pro"
    BY <1>8, <1>9 DEF BooksInv
  <2>4. Steady(a)
    BY <1>11
  <2>5. QED
    BY <1>7, <2>1, <2>2, <2>3, <2>4, BooksStep
<1>13. QED
  BY <1>7, <1>12

\* Every call begins with a record like this one.
LEMMA BeginIs ==
    ASSUME NEW c \in Calls, NEW kind \in Kinds, NEW a \in Agents, NEW k \in Int,
           NEW p \in Payments \cup {NoCall}, NEW st \in {"verifying", "ended"},
           NEW outcome \in {"none", "quota", "terms", "refused", "raised"},
           Begin(c, kind, a, k, p, st, outcome)
    PROVE  \E n \in CallState : /\ n.st = st /\ n.kind = kind /\ n.pay = p /\ n.size = k
                                /\ call[c] = Idle /\ call' = [call EXCEPT ![c] = n]
<1>1. PICK n : n = [st |-> st, kind |-> kind, agent |-> a, size |-> k, pay |-> p, outcome |-> outcome]
  OBVIOUS
<1>2. n \in CallState
  BY <1>1 DEF CallState
<1>3. n.st = st /\ n.kind = kind /\ n.pay = p /\ n.size = k
  BY <1>1
<1>4. call[c] = Idle /\ call' = [call EXCEPT ![c] = n]
  BY <1>1 DEF Begin
<1>5. QED
  BY <1>2, <1>3, <1>4

LEMMA SizesInt == PackSize \in Int /\ PackSize > 0 /\ \A n \in Sizes : n \in Int
  BY CommerceAssumption

LEMMA QuotaExceededInv ==
    ASSUME CallsInv, BooksInv, NEW c \in Calls, QuotaExceeded(c) PROVE CallsInv' /\ BooksInv'
<1>1. PICK kind \in Kinds, a \in Agents : Begin(c, kind, a, PackSize, NoCall, "ended", "quota")
  BY DEF QuotaExceeded
<1>2. PICK n \in CallState : n.st = "ended" /\ call[c] = Idle /\ call' = [call EXCEPT ![c] = n]
  BY <1>1, SizesInt, BeginIs
<1>3. UNCHANGED <<terms, store, chain, faults>>
  BY DEF QuotaExceeded
<1>4. /\ proTerms' \subseteq Agents /\ packTerms' \in [Agents -> SUBSET Sizes]
      /\ credits' \in [Agents -> Nat] /\ spent' \in [Agents -> Nat] /\ calls' \in [Agents -> Nat]
      /\ \A x \in Agents : Had(x)' = Had(x)
  BY <1>3 DEF terms, store, CallsInv, TypeOK, Had
<1>5. UNCHANGED <<settledBy, echoed, tier, faults>>
  BY <1>3 DEF store, chain
<1>6. QED
  BY <1>2, <1>4, <1>5, Began

LEMMA ProRequirementsInv ==
    ASSUME CallsInv, BooksInv, NEW c \in Calls, ProRequirements(c) PROVE CallsInv' /\ BooksInv'
<1>1. PICK a \in Agents :
        /\ Consume(a)
        /\ \/ /\ Begin(c, "pro_requirements", a, PackSize, NoCall, "ended", "terms")
              /\ proTerms' = proTerms \cup {a}
           \/ /\ Begin(c, "pro_requirements", a, PackSize, NoCall, "ended", "raised")
              /\ UNCHANGED proTerms
  BY DEF ProRequirements
<1>2. "pro_requirements" \in Kinds
  BY DEF Kinds
<1>3. PICK n \in CallState : n.st = "ended" /\ call[c] = Idle /\ call' = [call EXCEPT ![c] = n]
  BY <1>1, <1>2, SizesInt, BeginIs
<1>4. /\ credits' \in [Agents -> Nat] /\ spent' \in [Agents -> Nat] /\ calls' \in [Agents -> Nat]
      /\ (\A x \in Agents : Had(x)' = Had(x)) /\ tier' = tier
  BY <1>1, Consumed DEF CallsInv
<1>5. UNCHANGED <<packTerms, chain, faults>>
  BY DEF ProRequirements
<1>6. proTerms' \subseteq Agents /\ packTerms' \in [Agents -> SUBSET Sizes]
  BY <1>1, <1>5 DEF CallsInv, TypeOK
<1>7. UNCHANGED <<settledBy, echoed, tier, faults>>
  BY <1>4, <1>5 DEF chain
<1>8. QED
  BY <1>3, <1>4, <1>6, <1>7, Began

LEMMA CreditsRequirementsInv ==
    ASSUME CallsInv, BooksInv, NEW c \in Calls, CreditsRequirements(c) PROVE CallsInv' /\ BooksInv'
<1>1. PICK a \in Agents, k \in Sizes :
        /\ Consume(a)
        /\ \/ /\ Begin(c, "credits_requirements", a, k, NoCall, "ended", "terms")
              /\ packTerms' = [packTerms EXCEPT ![a] = @ \cup {k}]
           \/ /\ Begin(c, "credits_requirements", a, k, NoCall, "ended", "raised")
              /\ UNCHANGED packTerms
  BY DEF CreditsRequirements
<1>2. "credits_requirements" \in Kinds
  BY DEF Kinds
<1>3. PICK n \in CallState : n.st = "ended" /\ call[c] = Idle /\ call' = [call EXCEPT ![c] = n]
  BY <1>1, <1>2, SizesInt, BeginIs
<1>4. /\ credits' \in [Agents -> Nat] /\ spent' \in [Agents -> Nat] /\ calls' \in [Agents -> Nat]
      /\ (\A x \in Agents : Had(x)' = Had(x)) /\ tier' = tier
  BY <1>1, Consumed DEF CallsInv
<1>5. UNCHANGED <<proTerms, chain, faults>>
  BY DEF CreditsRequirements
<1>6. proTerms' \subseteq Agents /\ packTerms' \in [Agents -> SUBSET Sizes]
  BY <1>1, <1>5 DEF CallsInv, TypeOK
<1>7. UNCHANGED <<settledBy, echoed, tier, faults>>
  BY <1>4, <1>5 DEF chain
<1>8. QED
  BY <1>3, <1>4, <1>6, <1>7, Began

LEMMA ActivateProInv ==
    ASSUME CallsInv, BooksInv, NEW c \in Calls, ActivatePro(c) PROVE CallsInv' /\ BooksInv'
<1>1. PICK a \in Agents, p \in Payments :
        /\ Consume(a)
        /\ \/ /\ Begin(c, "activate_pro", a, PackSize, p, "verifying", "none")
              /\ proTerms' = proTerms \cup {a}
           \/ /\ Begin(c, "activate_pro", a, PackSize, p, "ended", "raised")
              /\ UNCHANGED proTerms
  BY DEF ActivatePro
<1>2. "activate_pro" \in Kinds
  BY DEF Kinds
<1>3. PICK n \in CallState :
         /\ n.st \in {"verifying", "ended"} /\ n.kind = "activate_pro" /\ n.pay = p
         /\ call[c] = Idle /\ call' = [call EXCEPT ![c] = n]
  BY <1>1, <1>2, SizesInt, BeginIs
<1>4. /\ credits' \in [Agents -> Nat] /\ spent' \in [Agents -> Nat] /\ calls' \in [Agents -> Nat]
      /\ (\A x \in Agents : Had(x)' = Had(x)) /\ tier' = tier
  BY <1>1, Consumed DEF CallsInv
<1>5. UNCHANGED <<packTerms, chain, faults>>
  BY DEF ActivatePro
<1>6. proTerms' \subseteq Agents /\ packTerms' \in [Agents -> SUBSET Sizes]
  BY <1>1, <1>5 DEF CallsInv, TypeOK
<1>7. UNCHANGED <<settledBy, echoed, tier, faults>>
  BY <1>4, <1>5 DEF chain
<1>8. QED
  BY <1>3, <1>4, <1>6, <1>7, Began

LEMMA PurchaseCreditsInv ==
    ASSUME CallsInv, BooksInv, NEW c \in Calls, PurchaseCredits(c) PROVE CallsInv' /\ BooksInv'
<1>1. PICK a \in Agents, k \in Sizes, p \in Payments :
        /\ Consume(a)
        /\ IF \E t \in TermsFor(a, k) : PackOf(t) = k
           THEN Begin(c, "purchase_credits", a, k, p, "verifying", "none")
           ELSE Begin(c, "purchase_credits", a, k, p, "ended", "refused")
  BY DEF PurchaseCredits
<1>2. "purchase_credits" \in Kinds
  BY DEF Kinds
<1>3. (\E t \in TermsFor(a, k) : PackOf(t) = k) => k > 0
  <2>1. TermsFor(a, k) \subseteq Sizes
    BY DEF TermsFor, CallsInv, TypeOK
  <2>2. QED
    BY <2>1, SizesInt DEF PackOf
<1>4. PICK n \in CallState :
         /\ n.st \in {"verifying", "ended"} /\ n.kind = "purchase_credits" /\ n.pay = p
         /\ n.st = "verifying" => n.size > 0
         /\ call[c] = Idle /\ call' = [call EXCEPT ![c] = n]
  <2>1. CASE \E t \in TermsFor(a, k) : PackOf(t) = k
    <3>1. Begin(c, "purchase_credits", a, k, p, "verifying", "none")
      BY <1>1, <2>1
    <3>2. QED
      BY <1>2, <1>3, <2>1, <3>1, SizesInt, BeginIs
  <2>2. CASE ~\E t \in TermsFor(a, k) : PackOf(t) = k
    <3>1. Begin(c, "purchase_credits", a, k, p, "ended", "refused")
      BY <1>1, <2>2
    <3>2. QED
      BY <1>2, <3>1, SizesInt, BeginIs
  <2>3. QED
    BY <2>1, <2>2
<1>5. /\ credits' \in [Agents -> Nat] /\ spent' \in [Agents -> Nat] /\ calls' \in [Agents -> Nat]
      /\ (\A x \in Agents : Had(x)' = Had(x)) /\ tier' = tier
  BY <1>1, Consumed DEF CallsInv
<1>6. UNCHANGED <<proTerms, packTerms, chain, faults>>
  BY DEF PurchaseCredits, terms
<1>7. proTerms' \subseteq Agents /\ packTerms' \in [Agents -> SUBSET Sizes]
  BY <1>6 DEF CallsInv, TypeOK
<1>8. UNCHANGED <<settledBy, echoed, tier, faults>>
  BY <1>5, <1>6 DEF chain
<1>9. QED
  BY <1>4, <1>5, <1>7, <1>8, Began

-----------------------------------------------------------------------------
\* A call under way goes on with what it asked for.
Moved(c, n) ==
    /\ call[c] # Idle /\ call[c] \in CallState /\ call[c].st # "ended"
    /\ n.kind = call[c].kind /\ n.agent = call[c].agent
    /\ n.size = call[c].size /\ n.pay = call[c].pay
    /\ call' = [call EXCEPT ![c] = n]

\* The payment of a call is as it was, or the call has just settled it, or it has
\* just been told of the settlement of another.
Settles(c) ==
    \/ UNCHANGED <<settledBy, echoed>>
    \/ /\ Unused(c) /\ Covers(c) /\ settledBy' = [settledBy EXCEPT ![call[c].pay] = c]
       /\ call[c].st = "settling" /\ UNCHANGED echoed
    \/ /\ ~Unused(c) /\ Covers(c) /\ echoed' = echoed \cup {c}
       /\ call[c].st = "settling" /\ UNCHANGED settledBy

\* It is nothing to the other calls, and what is paid stays paid.
LEMMA SettlesOne ==
    ASSUME CallsInv, NEW c \in Calls, call[c] # Idle, call[c].pay \in Payments, Settles(c),
           \A d \in Calls : call'[d].pay = call[d].pay
    PROVE  /\ \A d \in Calls \ {c} : call[d] # Idle /\ call[d].pay \in Payments =>
                                       (Paid(d)' <=> Paid(d))
           /\ Paid(c) => Paid(c)'
           /\ \A p \in Payments : settledBy[p] # NoCall => settledBy'[p] = settledBy[p]
<1>1. settledBy \in [Payments -> Calls \cup {NoCall}] /\ c # NoCall
  BY CommerceAssumption DEF CallsInv, TypeOK
<1>2. \A p \in Payments : settledBy[p] # NoCall => settledBy'[p] = settledBy[p]
  BY <1>1 DEF Settles, Unused
<1>3. Paid(c) => Paid(c)'
  BY <1>2 DEF Settles, Paid
<1>4. ASSUME NEW d \in Calls \ {c}, call[d] # Idle, call[d].pay \in Payments
      PROVE  Paid(d)' <=> Paid(d)
  <2>1. d \in echoed' <=> d \in echoed
    BY DEF Settles
  <2>2. CASE settledBy[call[d].pay] # NoCall
    BY <1>2, <1>4, <2>1, <2>2 DEF Paid
  <2>3. CASE settledBy[call[d].pay] = NoCall
    <3>1. d \notin echoed
      BY <2>3 DEF CallsInv, EchoInv
    <3>2. settledBy'[call[d].pay] \in {NoCall, c}
      BY <1>1, <1>4, <2>3 DEF Settles
    <3>3. QED
      BY <2>1, <2>3, <3>1, <3>2 DEF Paid
  <2>4. QED
    BY <2>2, <2>3
<1>5. QED
  BY <1>2, <1>3, <1>4

LEMMA PayMovesOn ==
    ASSUME CallsInv, NEW c \in Calls, call[c] # Idle, call[c].st # "ended",
           NEW s \in {"settling", "settled"}, call' = [call EXCEPT ![c].st = s]
    PROVE  \E n \in CallState : n.st = s /\ Moved(c, n)
<1>1. call[c] \in CallState
  BY DEF CallsInv, TypeOK
<1>2. PICK n : n = [call[c] EXCEPT !.st = s]
  OBVIOUS
<1>3. n = [st |-> s, kind |-> call[c].kind, agent |-> call[c].agent, size |-> call[c].size,
           pay |-> call[c].pay, outcome |-> call[c].outcome]
  BY <1>1, <1>2 DEF CallState
<1>4. n \in CallState
  BY <1>1, <1>3 DEF CallState
<1>5. n.st = s /\ n.kind = call[c].kind /\ n.agent = call[c].agent
      /\ n.size = call[c].size /\ n.pay = call[c].pay
  BY <1>3
<1>6. call' = [call EXCEPT ![c] = n]
  BY <1>2
<1>7. QED
  BY <1>1, <1>4, <1>5, <1>6 DEF Moved

LEMMA MovesToEnd ==
    ASSUME CallsInv, NEW c \in Calls, call[c] # Idle, call[c].st # "ended",
           NEW how \in {"refused", "raised", "granted"}, Ended(c, how)
    PROVE  \E n \in CallState : n.st = "ended" /\ Moved(c, n)
<1>1. call[c] \in CallState
  BY DEF CallsInv, TypeOK
<1>2. PICK n : n = [st |-> "ended", kind |-> call[c].kind, agent |-> call[c].agent,
                    size |-> call[c].size, pay |-> call[c].pay, outcome |-> how]
  OBVIOUS
<1>3. n = [[call[c] EXCEPT !.st = "ended"] EXCEPT !.outcome = how]
  <2>1. PICK m : m = [st |-> "ended", kind |-> call[c].kind, agent |-> call[c].agent,
                      size |-> call[c].size, pay |-> call[c].pay, outcome |-> call[c].outcome]
    OBVIOUS
  <2>2. m = [call[c] EXCEPT !.st = "ended"]
    BY <1>1, <2>1 DEF CallState
  <2>3. n = [m EXCEPT !.outcome = how]
    BY <1>2, <2>1
  <2>4. QED
    BY <2>2, <2>3
<1>4. n \in CallState
  BY <1>1, <1>2 DEF CallState
<1>5. n.st = "ended" /\ n.kind = call[c].kind /\ n.agent = call[c].agent
      /\ n.size = call[c].size /\ n.pay = call[c].pay
  BY <1>2
<1>6. call' = [call EXCEPT ![c] = n]
  <2>1. call' = [[call EXCEPT ![c].st = "ended"] EXCEPT ![c].outcome = how]
    BY DEF Ended
  <2>2. QED
    BY <1>3, <2>1 DEF CallsInv
<1>7. QED
  BY <1>1, <1>4, <1>5, <1>6 DEF Moved

\* The invariant on the calls, whichever way one of them goes on.
LEMMA MovedCalls ==
    ASSUME CallsInv, TypeOK', NEW c \in Calls, NEW n \in CallState, Moved(c, n), Settles(c),
           n.st \in {"settling", "settled", "ended"},
           n.st = "settling" => Covers(c) /\ ~Paid(c)',
           n.st = "settled" => Covers(c) /\ Paid(c)'
    PROVE  CallsInv'
<1>1. /\ call'[c] = n /\ n # Idle /\ call[c].pay \in Payments
      /\ \A d \in Calls : d # c => call'[d] = call[d]
      /\ call' = [d \in Calls |-> call'[d]]
      /\ call[c].kind \in {"activate_pro", "purchase_credits"}
      /\ call[c].kind = "purchase_credits" => call[c].size > 0
  BY DEF CallsInv, CallInv, Moved, Idle, CallState
<1>2. c # NoCall /\ \A d \in Calls : d # NoCall
  BY CommerceAssumption
<1>3. \A p \in Payments : \A d \in Calls : d # c => (settledBy'[p] = d <=> settledBy[p] = d)
  BY <1>1, <1>2 DEF Settles, Unused, CallsInv, TypeOK
<1>0. /\ \A d \in Calls \ {c} : call[d] # Idle /\ call[d].pay \in Payments =>
                                (Paid(d)' <=> Paid(d))
      /\ \A p \in Payments : settledBy[p] # NoCall => settledBy'[p] = settledBy[p]
  <2>1. \A d \in Calls : call'[d].pay = call[d].pay
    BY <1>1 DEF Moved
  <2>2. call[c] # Idle
    BY DEF Moved
  <2>3. QED
    BY <1>1, <2>1, <2>2, SettlesOne
<1>4. ASSUME NEW d \in Calls PROVE CallInv(d)'
  <2>1. CASE d = c
    BY <1>1, <2>1 DEF CallInv, Covers, Moved
  <2>2. CASE d # c
    <3>1. call'[d] = call[d] /\ CallInv(d)
      BY <1>1, <2>2 DEF CallsInv
    <3>2. call[d] # Idle /\ call[d].pay \in Payments => (Paid(d)' <=> Paid(d))
      BY <1>0, <2>2
    <3>3. QED
      BY <3>1, <3>2 DEF CallInv, Covers
  <2>3. QED
    BY <2>1, <2>2
<1>7. ASSUME NEW d \in Calls PROVE EchoInv(d)'
  <2>1. CASE d \in echoed
    <3>1. /\ call[d] # Idle /\ call[d].pay \in Payments /\ Covers(d)
          /\ settledBy'[call[d].pay] # NoCall
          /\ call[d].kind \in {"activate_pro", "purchase_credits"}
          /\ call[d].kind = "purchase_credits" => call[d].size > 0
      BY <1>0, <2>1 DEF CallsInv, EchoInv
    <3>2. CASE d = c
      BY <1>1, <3>1, <3>2 DEF EchoInv, Covers, Moved
    <3>3. CASE d # c
      BY <1>1, <3>1, <3>3 DEF EchoInv, Covers
    <3>4. QED
      BY <3>2, <3>3
  <2>2. CASE d \notin echoed
    <3> SUFFICES ASSUME d \in echoed' PROVE EchoInv(d)'
      BY DEF EchoInv
    <3>1. d = c /\ ~Unused(c) /\ Covers(c) /\ UNCHANGED settledBy
      BY <2>2 DEF Settles
    <3>2. settledBy'[call[c].pay] # NoCall
      BY <3>1 DEF Unused
    <3>3. QED
      BY <1>1, <3>1, <3>2 DEF EchoInv, Covers, Moved
  <2>3. QED
    BY <2>1, <2>2
<1>5. ASSUME NEW p \in Payments PROVE PaymentInv(p)'
  <2>1. CASE settledBy'[p] = c
    <3>1. p = call[c].pay /\ Covers(c)
      <4>1. CASE settledBy' = settledBy
        BY <1>2, <2>1, <4>1 DEF CallsInv, PaymentInv
      <4>2. CASE settledBy' # settledBy
        <5>1. CASE p = call[c].pay
          BY <4>2, <5>1 DEF Settles
        <5>2. CASE p # call[c].pay
          <6>1. settledBy[p] = c
            BY <2>1, <4>2, <5>2 DEF Settles, CallsInv, TypeOK
          <6>2. QED
            BY <1>2, <6>1 DEF CallsInv, PaymentInv
        <5>3. QED
          BY <5>1, <5>2
      <4>3. QED
        BY <4>1, <4>2
    <3>2. QED
      BY <1>1, <2>1, <3>1 DEF PaymentInv, Covers, Moved
  <2>2. CASE settledBy'[p] # c /\ settledBy'[p] # NoCall
    <3>1. PICK d \in Calls : settledBy'[p] = d /\ d # c
      BY <2>2 DEF TypeOK
    <3>2. settledBy[p] = d /\ call'[d] = call[d]
      BY <1>1, <1>3, <3>1
    <3>3. PaymentInv(p)
      BY DEF CallsInv
    <3>4. QED
      BY <1>2, <3>1, <3>2, <3>3 DEF PaymentInv, Covers
  <2>3. CASE settledBy'[p] = NoCall
    BY <2>3 DEF PaymentInv
  <2>4. QED
    BY <2>1, <2>2, <2>3
<1>6. QED
  BY <1>1, <1>4, <1>5, <1>7 DEF CallsInv

\* What the move does to the calls whose payment was settled.
LEMMA MovedPaid ==
    ASSUME CallsInv, NEW c \in Calls, NEW n \in CallState, Moved(c, n), Settles(c), NEW a
    PROVE  /\ \A k : \A d \in Calls \ {c} : d \in PaidFor(a, k)' <=> d \in PaidFor(a, k)
           /\ \A k : c \in PaidFor(a, k)' <=> /\ Paid(c)'
                                              /\ call[c].kind = k /\ call[c].agent = a
           /\ \A k : PaidFor(a, k) \subseteq PaidFor(a, k)'
           /\ \A d \in Calls : call[d] # Idle => call'[d].pay = call[d].pay /\ call'[d].size = call[d].size
           /\ EndedPacks(a)' = IF /\ n.st = "ended" /\ Paid(c)'
                                  /\ call[c].kind = "purchase_credits" /\ call[c].agent = a
                               THEN EndedPacks(a) \cup {c} ELSE EndedPacks(a)
           /\ c \notin EndedPacks(a)
<1>1. /\ call'[c] = n /\ n # Idle /\ call[c].pay \in Payments
      /\ \A d \in Calls : d # c => call'[d] = call[d]
      /\ n.kind = call[c].kind /\ n.agent = call[c].agent
      /\ n.size = call[c].size /\ n.pay = call[c].pay
      /\ call[c] # Idle /\ call[c].st # "ended"
  BY DEF CallsInv, CallInv, Moved, Idle, CallState
<1>2. call[c].pay # NoCall
  BY <1>1, CommerceAssumption
<1>3. /\ \A d \in Calls \ {c} : call[d] # Idle /\ call[d].pay \in Payments =>
                                (Paid(d)' <=> Paid(d))
      /\ Paid(c) => Paid(c)'
  <2>1. \A d \in Calls : call'[d].pay = call[d].pay
    BY <1>1
  <2>2. QED
    BY <1>1, <2>1, SettlesOne
<1>4. \A d \in Calls : call[d] # Idle => call[d].pay \in Payments \cup {NoCall}
  BY DEF CallsInv, TypeOK, CallState
<1>5. ASSUME NEW k, NEW d \in Calls \ {c} PROVE d \in PaidFor(a, k)' <=> d \in PaidFor(a, k)
  BY <1>1, <1>3, <1>4 DEF PaidFor
<1>6. ASSUME NEW k PROVE c \in PaidFor(a, k)' <=> /\ Paid(c)'
                                              /\ call[c].kind = k /\ call[c].agent = a
  BY <1>1, <1>2 DEF PaidFor
<1>7. Paid(c) => Paid(c)'
  BY <1>3
<1>8. ASSUME NEW k, NEW d \in PaidFor(a, k) PROVE d \in PaidFor(a, k)'
  <2>1. CASE d = c
    BY <1>6, <1>7, <2>1 DEF PaidFor
  <2>2. CASE d # c
    <3>1. d \in Calls \ {c}
      BY <2>2 DEF PaidFor
    <3>2. QED
      BY <1>5, <3>1
  <2>3. QED
    BY <2>1, <2>2
<1>9. c \notin EndedPacks(a)
  BY <1>1 DEF EndedPacks
<1>10. EndedPacks(a)' \subseteq Calls /\ EndedPacks(a) \subseteq Calls
  BY DEF EndedPacks, PaidFor
<1>11. \A d \in Calls \ {c} : d \in EndedPacks(a)' <=> d \in EndedPacks(a)
  BY <1>1, <1>5 DEF EndedPacks
<1>12. c \in EndedPacks(a)' <=> /\ n.st = "ended" /\ Paid(c)'
                                /\ call[c].kind = "purchase_credits" /\ call[c].agent = a
  BY <1>1, <1>6 DEF EndedPacks
<1>13. EndedPacks(a)' = IF c \in EndedPacks(a)' THEN EndedPacks(a) \cup {c} ELSE EndedPacks(a)
  BY <1>9, <1>10, <1>11
<1>14. QED
  BY <1>1, <1>5, <1>6, <1>8, <1>9, <1>12, <1>13

\* The books, when the call is granted what it paid for, when it is not although it has
\* ended behind its settlement, and when there is nothing to grant yet.
LEMMA MovedBooks ==
    ASSUME CallsInv, CallsInv', BooksInv, NEW c \in Calls, NEW n \in CallState,
           Moved(c, n), Settles(c), spent' = spent, faults' = 0 => faults = 0,
           \/ /\ UNCHANGED <<tier, credits>>
              /\ faults' # 0 \/ n.st # "ended" \/ ~Paid(c)'
           \/ Entitle(c) /\ n.st = "ended" /\ Paid(c)' /\ Covers(c)
    PROVE  BooksInv'
<1> SUFFICES ASSUME NEW a \in Agents
               PROVE  /\ tier'[a] = "pro" => \E d \in PaidFor(a, "activate_pro")' : call'[d].pay \in ForPro
                      /\ Had(a)' <= SizeSum(call', EndedPacks(a)')
                      /\ faults' = 0 =>
                           /\ \A d \in PaidFor(a, "activate_pro")' :
                                 call'[d].st = "ended" => tier'[a] = "pro"
                           /\ Had(a)' = SizeSum(call', EndedPacks(a)')
  BY DEF BooksInv
<1>1. /\ call'[c] = n /\ call[c] # Idle /\ call[c].agent \in Agents
      /\ \A d \in Calls : d # c => call'[d] = call[d]
      /\ n.size = call[c].size /\ call[c].st # "ended"
      /\ call[c].kind \in {"activate_pro", "purchase_credits"} /\ call[c].size \in Int
      /\ call[c].pay \in Payments
  BY DEF CallsInv, CallInv, Moved, CallState
<1>2. /\ \A k : \A d \in Calls \ {c} : d \in PaidFor(a, k)' <=> d \in PaidFor(a, k)
      /\ \A k : c \in PaidFor(a, k)' <=> /\ Paid(c)'
                                         /\ call[c].kind = k /\ call[c].agent = a
      /\ \A k : PaidFor(a, k) \subseteq PaidFor(a, k)'
      /\ \A d \in Calls : call[d] # Idle => call'[d].pay = call[d].pay /\ call'[d].size = call[d].size
      /\ EndedPacks(a)' = IF /\ n.st = "ended" /\ Paid(c)'
                             /\ call[c].kind = "purchase_credits" /\ call[c].agent = a
                          THEN EndedPacks(a) \cup {c} ELSE EndedPacks(a)
      /\ c \notin EndedPacks(a)
  BY MovedPaid
<1>3. \A k : \A d \in PaidFor(a, k) : d \in Calls /\ call[d] # Idle
  BY DEF PaidFor
<1>4. \A d \in PaidFor(a, "activate_pro") :
         d \in PaidFor(a, "activate_pro")' /\ call'[d].pay = call[d].pay
  BY <1>2, <1>3
<1>5. \A d \in EndedPacks(a) : call'[d].size = call[d].size
  BY <1>2, <1>3 DEF EndedPacks
<1>6. tier'[a] = "pro" =>
         tier[a] = "pro" \/ \E d \in PaidFor(a, "activate_pro")' : call'[d].pay \in ForPro
  <2>1. CASE UNCHANGED <<tier, credits>>
    BY <2>1
  <2>2. CASE Entitle(c) /\ Paid(c)' /\ Covers(c)
    <3>1. CASE a = call[c].agent /\ call[c].kind = "activate_pro"
      <4>1. c \in PaidFor(a, "activate_pro")' /\ call'[c].pay = call[c].pay
        BY <1>1, <1>2, <2>2, <3>1
      <4>2. call[c].pay \in ForPro
        BY <2>2, <3>1 DEF Covers
      <4>3. QED
        BY <4>1, <4>2
    <3>2. CASE ~(a = call[c].agent /\ call[c].kind = "activate_pro")
      <4>1. tier'[a] = tier[a]
        BY <2>2, <3>2 DEF Entitle, CallsInv, TypeOK
      <4>2. QED
        BY <4>1
    <3>3. QED
      BY <3>1, <3>2
  <2>3. QED
    BY <2>1, <2>2
<1>7. Had(a) \in Int
  BY DEF CallsInv, TypeOK, Had
<1>8. Steady(a) \/ Gained(a) \/ (faults' # 0 /\ Lost(a))
  <2>1. CASE UNCHANGED <<tier, credits>>
    <3>1. Had(a)' = Had(a)
      BY <2>1 DEF Had
    <3>2. CASE EndedPacks(a)' = EndedPacks(a)
      BY <3>1, <3>2 DEF Steady
    <3>3. CASE EndedPacks(a)' # EndedPacks(a)
      <4>1. n.st = "ended" /\ Paid(c)' /\ EndedPacks(a)' = EndedPacks(a) \cup {c}
        BY <1>2, <3>3
      <4>2. CASE faults' # 0
        BY <1>7, <3>1, <4>1, <4>2 DEF Lost
      <4>3. CASE Entitle(c) /\ faults' = 0
        <5>1. a = call[c].agent /\ call[c].kind = "purchase_credits"
          BY <1>2, <3>3
        <5>2. credits'[a] = credits[a] + call[c].size
          BY <4>3, <5>1 DEF Entitle, CallsInv, TypeOK
        <5>3. Had(a)' = Had(a) + call'[c].size
          BY <1>1, <5>2 DEF Had, CallsInv, TypeOK
        <5>4. QED
          BY <1>2, <4>1, <5>3 DEF Gained
      <4>4. QED
        BY <4>1, <4>2, <4>3
    <3>4. QED
      BY <3>2, <3>3
  <2>2. CASE Entitle(c) /\ n.st = "ended" /\ Paid(c)'
    <3>1. CASE a = call[c].agent /\ call[c].kind = "purchase_credits"
      <4>1. EndedPacks(a)' = EndedPacks(a) \cup {c}
        BY <1>2, <2>2, <3>1
      <4>2. credits'[a] = credits[a] + call[c].size
        BY <2>2, <3>1 DEF Entitle, CallsInv, TypeOK
      <4>3. Had(a)' = Had(a) + call'[c].size
        BY <1>1, <4>2 DEF Had, CallsInv, TypeOK
      <4>4. QED
        BY <1>2, <4>1, <4>3 DEF Gained
    <3>2. CASE ~(a = call[c].agent /\ call[c].kind = "purchase_credits")
      <4>1. EndedPacks(a)' = EndedPacks(a)
        BY <1>2, <3>2
      <4>2. credits'[a] = credits[a]
        <5>1. CASE call[c].kind = "activate_pro"
          BY <2>2, <5>1 DEF Entitle
        <5>2. CASE call[c].kind = "purchase_credits"
          BY <2>2, <3>2, <5>2 DEF Entitle, CallsInv, TypeOK
        <5>3. QED
          BY <1>1, <5>1, <5>2
      <4>3. QED
        BY <4>1, <4>2 DEF Steady, Had
    <3>3. QED
      BY <3>1, <3>2
  <2>3. QED
    BY <2>1, <2>2
<1>9. faults' = 0 =>
         \A d \in PaidFor(a, "activate_pro")' : call'[d].st = "ended" => tier'[a] = "pro"
  <2> SUFFICES ASSUME faults' = 0, NEW d \in PaidFor(a, "activate_pro")', call'[d].st = "ended"
               PROVE  tier'[a] = "pro"
    OBVIOUS
  <2>1. d \in Calls
    BY DEF PaidFor
  <2>2. CASE d = c
    <3>1. n.st = "ended" /\ Paid(c)' /\ call[c].agent = a
          /\ call[c].kind = "activate_pro"
      BY <1>1, <1>2, <2>2
    <3>2. Entitle(c)
      BY <3>1
    <3>3. QED
      BY <3>1, <3>2 DEF Entitle, CallsInv, TypeOK
  <2>3. CASE d # c
    <3>1. d \in PaidFor(a, "activate_pro") /\ call[d].st = "ended"
      BY <1>1, <1>2, <2>1, <2>3
    <3>2. tier[a] = "pro"
      BY <3>1 DEF BooksInv
    <3>3. QED
      BY <3>2 DEF Entitle, CallsInv, TypeOK
  <2>4. QED
    BY <2>2, <2>3
<1>10. QED
  BY <1>4, <1>5, <1>6, <1>8, <1>9, BooksStep

\* An injected fault is counted within its bound, from then on there has been one.
LEMMA FaultCounts ==
    ASSUME TypeOK
    PROVE  /\ Fault => faults' \in 0 .. MaxFaults /\ faults' # 0
           /\ UNCHANGED faults => faults' \in 0 .. MaxFaults
  BY CommerceAssumption DEF TypeOK, Fault

LEMMA VerifyInv ==
    ASSUME CallsInv, BooksInv, NEW c \in Calls, Verify(c) PROVE CallsInv' /\ BooksInv'
<1>1. /\ call[c].st = "verifying" /\ UNCHANGED <<terms, store, chain>>
      /\ \/ /\ Covers(c) /\ UNCHANGED faults
            /\ call' = [call EXCEPT ![c].st = "settling"]
         \/ (Fault \/ UNCHANGED faults) /\ Ended(c, "refused")
  BY DEF Verify
<1>2. call[c] # Idle /\ ~Paid(c) /\ call[c].pay \in Payments
  <2>1. call[c] # Idle
    BY <1>1 DEF Idle
  <2>2. QED
    BY <1>1, <2>1 DEF CallsInv, CallInv
<1>3. PICK n \in CallState :
         /\ Moved(c, n) /\ n.st \in {"settling", "ended"}
         /\ n.st = "settling" => Covers(c)
  BY <1>1, <1>2, PayMovesOn, MovesToEnd
<1>4. Settles(c) /\ UNCHANGED <<tier, credits, spent, calls, settledBy, echoed, proTerms, packTerms>>
  BY <1>1 DEF Settles, terms, store, chain
<1>5. faults' \in 0 .. MaxFaults /\ (faults' = 0 => faults = 0)
  BY <1>1, FaultCounts DEF CallsInv
<1>6. TypeOK'
  BY <1>3, <1>4, <1>5 DEF CallsInv, TypeOK, Moved
<1>8. ~Paid(c)'
  BY <1>2, <1>3, <1>4 DEF Paid, Moved, CallsInv, TypeOK
<1>7. CallsInv'
  BY <1>3, <1>4, <1>6, <1>8, MovedCalls
<1>9. BooksInv'
  BY <1>3, <1>4, <1>5, <1>7, <1>8, MovedBooks
<1>10. QED
  BY <1>7, <1>9

LEMMA SettleInv ==
    ASSUME CallsInv, BooksInv, NEW c \in Calls, Settle(c) PROVE CallsInv' /\ BooksInv'
<1>1. call[c].st = "settling" /\ UNCHANGED <<terms, store>>
  BY DEF Settle
<1>2. /\ call[c] # Idle /\ ~Paid(c) /\ Covers(c) /\ call[c].pay \in Payments
  <2>1. call[c] # Idle
    BY <1>1 DEF Idle
  <2>2. QED
    BY <1>1, <2>1 DEF CallsInv, CallInv
<1>3. \/ /\ Unused(c) /\ settledBy' = [settledBy EXCEPT ![call[c].pay] = c]
         /\ call' = [call EXCEPT ![c].st = "settled"] /\ UNCHANGED <<echoed, faults>>
      \/ /\ Unused(c) /\ settledBy' = [settledBy EXCEPT ![call[c].pay] = c]
         /\ Fault /\ Ended(c, "refused") /\ UNCHANGED echoed
      \/ /\ ~Unused(c) /\ echoed' = echoed \cup {c}
         /\ call' = [call EXCEPT ![c].st = "settled"] /\ UNCHANGED <<settledBy, faults>>
      \/ (Fault \/ UNCHANGED faults) /\ Ended(c, "refused") /\ UNCHANGED <<settledBy, echoed>>
  BY DEF Settle, chain
<1>4. UNCHANGED <<tier, credits, spent, calls, proTerms, packTerms>>
  BY <1>1 DEF terms, store
<1>5. faults' \in 0 .. MaxFaults /\ (faults' = 0 => faults = 0)
  BY <1>3, FaultCounts DEF CallsInv
<1>6. PICK n \in CallState :
         /\ Moved(c, n) /\ n.st \in {"settled", "ended"}
         /\ \/ n.st = "settled" /\ Paid(c)'
            \/ n.st = "ended" /\ (faults' # 0 \/ ~Paid(c)')
  <2>1. ASSUME \/ settledBy' = [settledBy EXCEPT ![call[c].pay] = c]
               \/ /\ ~Unused(c) /\ echoed' = echoed \cup {c} /\ UNCHANGED settledBy,
               call' = [call EXCEPT ![c].st = "settled"]
        PROVE  \E n \in CallState : Moved(c, n) /\ n.st = "settled" /\ Paid(c)'
    <3>1. PICK n \in CallState : n.st = "settled" /\ Moved(c, n)
      BY <1>1, <1>2, <2>1, PayMovesOn
    <3>2. call'[c].pay = call[c].pay
      BY <3>1 DEF Moved, CallsInv, TypeOK
    <3>3. settledBy \in [Payments -> Calls \cup {NoCall}] /\ c # NoCall
      BY CommerceAssumption DEF CallsInv, TypeOK
    <3>4. Paid(c)'
      BY <1>2, <2>1, <3>2, <3>3 DEF Paid, Unused
    <3>5. QED
      BY <3>1, <3>4
  <2>2. ASSUME Ended(c, "refused") PROVE \E n \in CallState : Moved(c, n) /\ n.st = "ended"
    BY <1>1, <1>2, <2>2, MovesToEnd
  <2>3. ASSUME NEW n \in CallState, Moved(c, n), UNCHANGED <<settledBy, echoed>>
        PROVE  ~Paid(c)'
    BY <1>2, <2>3 DEF Moved, Paid, CallsInv, TypeOK
  <2>4. Fault => faults' # 0
    BY FaultCounts DEF CallsInv
  <2>5. QED
    BY <1>3, <2>1, <2>2, <2>3, <2>4
<1>7. Settles(c) /\ settledBy' \in [Payments -> Calls \cup {NoCall}] /\ echoed' \subseteq Calls
  <2>1. settledBy \in [Payments -> Calls \cup {NoCall}] /\ echoed \subseteq Calls
    BY DEF CallsInv, TypeOK
  <2>2. QED
    BY <1>1, <1>2, <1>3, <2>1 DEF Settles
<1>8. TypeOK'
  BY <1>4, <1>5, <1>6, <1>7 DEF CallsInv, TypeOK, Moved
<1>9. CallsInv'
  BY <1>2, <1>6, <1>7, <1>8, MovedCalls
<1>10. BooksInv'
  BY <1>4, <1>5, <1>6, <1>7, <1>9, MovedBooks
<1>11. QED
  BY <1>9, <1>10

\* The grant behind a settlement, done or raised.
LEMMA GrantedInv ==
    ASSUME CallsInv, BooksInv, NEW c \in Calls, Grant(c) \/ GrantRaises(c)
    PROVE  CallsInv' /\ BooksInv'
<1>1. /\ call[c].st = "settled" /\ UNCHANGED <<terms, calls, spent, chain>>
      /\ \/ Entitle(c)
         \/ UNCHANGED <<tier, credits>> /\ Fault
      /\ Fault \/ UNCHANGED faults
      /\ Ended(c, "granted") \/ Ended(c, "raised")
  BY DEF Grant, GrantRaises
<1>2. /\ call[c] # Idle /\ Paid(c) /\ Covers(c)
      /\ call[c].kind = "purchase_credits" => call[c].size > 0
  <2>1. call[c] # Idle
    BY <1>1 DEF Idle
  <2>2. QED
    BY <1>1, <2>1 DEF CallsInv, CallInv
<1>3. PICK n \in CallState : Moved(c, n) /\ n.st = "ended"
  BY <1>1, <1>2, MovesToEnd
<1>4. Settles(c) /\ UNCHANGED <<spent, calls, settledBy, echoed, proTerms, packTerms>>
      /\ Paid(c)'
  <2>1. Settles(c) /\ UNCHANGED <<spent, calls, settledBy, echoed, proTerms, packTerms>>
    BY <1>1 DEF Settles, terms, chain
  <2>2. call'[c].pay = call[c].pay
    BY <1>3 DEF Moved, CallsInv, TypeOK
  <2>3. QED
    BY <1>2, <2>1, <2>2 DEF Paid
<1>5. faults' \in 0 .. MaxFaults /\ (faults' = 0 => faults = 0) /\ (Fault => faults' # 0)
  BY <1>1, FaultCounts DEF CallsInv
<1>6. tier' \in [Agents -> {"free", "pro"}] /\ credits' \in [Agents -> Nat]
  <2>1. /\ tier \in [Agents -> {"free", "pro"}] /\ credits \in [Agents -> Nat]
        /\ call[c].agent \in Agents /\ call[c].size \in Int
        /\ call[c].kind \in {"activate_pro", "purchase_credits"}
    BY <1>1, <1>2 DEF CallsInv, CallInv, TypeOK, CallState
  <2>2. CASE UNCHANGED <<tier, credits>>
    BY <2>1, <2>2
  <2>3. CASE Entitle(c) /\ call[c].kind = "activate_pro"
    <3>1. tier' = [tier EXCEPT ![call[c].agent] = "pro"] /\ credits' = credits
      BY <2>3 DEF Entitle
    <3>2. QED
      BY <2>1, <3>1
  <2>4. CASE Entitle(c) /\ call[c].kind = "purchase_credits"
    <3>1. /\ tier' = tier
          /\ credits' = [credits EXCEPT ![call[c].agent] = credits[call[c].agent] + call[c].size]
      BY <2>4 DEF Entitle
    <3>2. credits[call[c].agent] + call[c].size \in Nat
      BY <1>2, <2>1, <2>4
    <3>3. QED
      BY <2>1, <3>1, <3>2
  <2>5. QED
    BY <1>1, <2>1, <2>2, <2>3, <2>4
<1>7. TypeOK'
  BY <1>3, <1>4, <1>5, <1>6 DEF CallsInv, TypeOK, Moved
<1>8. CallsInv'
  BY <1>3, <1>4, <1>7, MovedCalls
<1>9. \/ UNCHANGED <<tier, credits>> /\ faults' # 0
      \/ Entitle(c)
  BY <1>1, <1>5
<1>10. BooksInv'
  BY <1>2, <1>3, <1>4, <1>5, <1>8, <1>9, MovedBooks
<1>11. QED
  BY <1>8, <1>10

\* A restart ends the calls in flight; what they had settled is not granted, and a store
\* in memory forgets the rest.
LEMMA RestartInv ==
    ASSUME CallsInv, BooksInv, Restart PROVE CallsInv' /\ BooksInv'
<1>1. faults' \in 0 .. MaxFaults /\ faults' # 0
  BY FaultCounts DEF CallsInv, Restart
<1>2. /\ proTerms' = {} /\ packTerms' = [a \in Agents |-> {}]
      /\ UNCHANGED <<spent, settledBy, echoed>>
      /\ \/ UNCHANGED <<tier, credits, calls>>
         \/ /\ tier' = [a \in Agents |-> "free"]
            /\ credits' = [a \in Agents |-> 0] /\ calls' = [a \in Agents |-> 0]
  BY DEF Restart, chain
<1>3. ASSUME NEW c \in Calls, call[c] # Idle
      PROVE  /\ call'[c] \in CallState /\ call'[c].st = "ended"
             /\ call'[c].kind = call[c].kind /\ call'[c].agent = call[c].agent
             /\ call'[c].size = call[c].size /\ call'[c].pay = call[c].pay
  <2>1. call[c] \in CallState
    BY <1>3 DEF CallsInv, TypeOK
  <2>2. CASE c \in InFlight
    <3>1. PICK m : m = [st |-> "ended", kind |-> call[c].kind, agent |-> call[c].agent,
                        size |-> call[c].size, pay |-> call[c].pay, outcome |-> call[c].outcome]
      OBVIOUS
    <3>2. m = [call[c] EXCEPT !.st = "ended"]
      BY <2>1, <3>1 DEF CallState
    <3>3. PICK n : n = [st |-> "ended", kind |-> call[c].kind, agent |-> call[c].agent,
                        size |-> call[c].size, pay |-> call[c].pay, outcome |-> "cut"]
      OBVIOUS
    <3>4. n = [m EXCEPT !.outcome = "cut"]
      BY <3>1, <3>3
    <3>5. call'[c] = n
      <4>1. call'[c] = [[call[c] EXCEPT !.st = "ended"] EXCEPT !.outcome = "cut"]
        BY <2>2 DEF Restart
      <4>2. QED
        BY <3>2, <3>4, <4>1
    <3>6. QED
      BY <2>1, <3>3, <3>5 DEF CallState
  <2>3. CASE c \notin InFlight
    <3>1. call'[c] = call[c]
      BY <2>3 DEF Restart
    <3>2. call[c].st = "ended"
      BY <2>1, <2>3 DEF CallState, InFlight
    <3>3. QED
      BY <2>1, <3>1, <3>2
  <2>4. QED
    BY <2>2, <2>3
<1>4. ASSUME NEW c \in Calls, call[c] = Idle PROVE call'[c] = Idle
  <2>1. c \notin InFlight
    BY <1>4 DEF InFlight, Idle
  <2>2. QED
    BY <1>4, <2>1 DEF Restart
<1>5. call' = [c \in Calls |-> call'[c]]
  BY DEF Restart
<1>6. \A c \in Calls : call'[c] # Idle <=> call[c] # Idle
  <2>1. \A n \in CallState : n # Idle
    BY DEF CallState, Idle
  <2>2. QED
    BY <1>3, <1>4, <2>1
<1>7. TypeOK'
  <2>1. \A c \in Calls : call'[c] = Idle \/ call'[c] \in CallState
    BY <1>3, <1>4
  <2>2. QED
    BY <1>1, <1>2, <2>1 DEF CallsInv, TypeOK
<1>0. \A c \in Calls : call[c] # Idle => (Paid(c)' <=> Paid(c))
  BY <1>2, <1>3 DEF Paid
<1>8. ASSUME NEW c \in Calls PROVE (CallInv(c) /\ EchoInv(c))'
  <2>1. CallInv(c)'
    BY <1>3, <1>4 DEF CallInv
  <2>2. EchoInv(c)
    BY DEF CallsInv
  <2>3. EchoInv(c)'
    BY <1>2, <1>3, <1>6, <2>2 DEF EchoInv, Covers
  <2>4. QED
    BY <2>1, <2>3
<1>9. ASSUME NEW p \in Payments PROVE PaymentInv(p)'
  <2>1. CASE settledBy[p] = NoCall
    BY <1>2, <2>1 DEF PaymentInv
  <2>2. CASE settledBy[p] # NoCall
    <3>1. PICK d \in Calls : settledBy[p] = d
      BY <2>2 DEF CallsInv, TypeOK
    <3>2. /\ call[d] # Idle /\ call[d].pay = p /\ Covers(d)
          /\ call[d].kind \in {"activate_pro", "purchase_credits"}
          /\ call[d].kind = "purchase_credits" => call[d].size > 0
      BY <2>2, <3>1 DEF CallsInv, PaymentInv
    <3>3. /\ call'[d] # Idle /\ call'[d].kind = call[d].kind
          /\ call'[d].size = call[d].size /\ call'[d].pay = call[d].pay
      BY <1>3, <1>6, <3>2
    <3>4. QED
      BY <1>2, <3>1, <3>2, <3>3 DEF PaymentInv, Covers
  <2>3. QED
    BY <2>1, <2>2
<1>10. CallsInv'
  BY <1>5, <1>7, <1>8, <1>9 DEF CallsInv
<1>11. \A a, k : \A c \in Calls : c \in PaidFor(a, k)' <=> c \in PaidFor(a, k)
  BY <1>0, <1>3, <1>6 DEF PaidFor
<1>12. BooksInv'
  <2> SUFFICES ASSUME NEW a \in Agents
               PROVE  /\ tier'[a] = "pro" => \E d \in PaidFor(a, "activate_pro")' : call'[d].pay \in ForPro
                      /\ Had(a)' <= SizeSum(call', EndedPacks(a)')
                      /\ faults' = 0 =>
                           /\ \A d \in PaidFor(a, "activate_pro")' :
                                 call'[d].st = "ended" => tier'[a] = "pro"
                           /\ Had(a)' = SizeSum(call', EndedPacks(a)')
    BY DEF BooksInv
  <2>1. \A d \in PaidFor(a, "activate_pro") :
           d \in PaidFor(a, "activate_pro")' /\ call'[d].pay = call[d].pay
    <3> SUFFICES ASSUME NEW d \in PaidFor(a, "activate_pro")
                 PROVE  d \in PaidFor(a, "activate_pro")' /\ call'[d].pay = call[d].pay
      OBVIOUS
    <3>1. d \in Calls /\ call[d] # Idle
      BY DEF PaidFor
    <3>2. QED
      BY <1>3, <1>11, <3>1
  <2>2. EndedPacks(a) \subseteq EndedPacks(a)'
    <3> SUFFICES ASSUME NEW d \in EndedPacks(a) PROVE d \in EndedPacks(a)'
      OBVIOUS
    <3>1. d \in Calls /\ call[d] # Idle /\ d \in PaidFor(a, "purchase_credits")
      BY DEF PaidFor, EndedPacks
    <3>2. d \in PaidFor(a, "purchase_credits")' /\ call'[d].st = "ended"
      BY <1>3, <1>11, <3>1
    <3>3. QED
      BY <3>2 DEF EndedPacks
  <2>3. \A d \in EndedPacks(a) : call'[d].size = call[d].size
    <3> SUFFICES ASSUME NEW d \in EndedPacks(a) PROVE call'[d].size = call[d].size
      OBVIOUS
    <3>1. d \in Calls /\ call[d] # Idle
      BY DEF PaidFor, EndedPacks
    <3>2. QED
      BY <1>3, <3>1
  <2>4. Had(a)' <= Had(a)
    <3>1. credits[a] \in Nat /\ spent[a] \in Nat
      BY DEF CallsInv, TypeOK
    <3>2. spent'[a] = spent[a] /\ (credits'[a] = credits[a] \/ credits'[a] = 0)
      BY <1>2
    <3>3. QED
      BY <3>1, <3>2 DEF Had
  <2>5. tier'[a] = "pro" => tier[a] = "pro"
    BY <1>2
  <2>6. Lost(a)
    BY <2>2, <2>4 DEF Lost
  <2>7. QED
    BY <1>1, <1>10, <2>1, <2>3, <2>5, <2>6, BooksStep
<1>13. QED
  BY <1>10, <1>12

LEMMA CommerceStep ==
    ASSUME CallsInv /\ BooksInv, [Next]_vars PROVE CallsInv' /\ BooksInv'
<1>1. CASE Restart
  BY <1>1, RestartInv
<1>2. ASSUME NEW c \in Calls,
             \/ QuotaExceeded(c) \/ ProRequirements(c) \/ CreditsRequirements(c)
             \/ ActivatePro(c) \/ PurchaseCredits(c)
      PROVE  CallsInv' /\ BooksInv'
  BY <1>2, QuotaExceededInv, ProRequirementsInv, CreditsRequirementsInv, ActivateProInv,
     PurchaseCreditsInv
<1>3. ASSUME NEW c \in Calls, Verify(c) \/ Settle(c) \/ Grant(c) \/ GrantRaises(c)
      PROVE  CallsInv' /\ BooksInv'
  BY <1>3, VerifyInv, SettleInv, GrantedInv
<1>4. CASE UNCHANGED vars
  <2>1. UNCHANGED <<proTerms, packTerms, tier, credits, calls, spent, settledBy, echoed, call, faults>>
    BY <1>4 DEF vars
  <2>2. CallsInv'
    BY <2>1 DEF CallsInv, CallInv, EchoInv, Paid, PaymentInv, TypeOK, Covers
  <2>3. /\ \A a, k : PaidFor(a, k)' = PaidFor(a, k)
        /\ \A a : Had(a)' = Had(a)
    BY <2>1 DEF PaidFor, Paid, Had
  <2>4. \A a : EndedPacks(a)' = EndedPacks(a)
    BY <2>1, <2>3 DEF EndedPacks
  <2>5. BooksInv'
    BY <2>1, <2>3, <2>4 DEF BooksInv
  <2>6. QED
    BY <2>2, <2>5
<1>5. QED
  BY <1>1, <1>2, <1>3, <1>4 DEF Next

LEMMA CommerceInvariant == Spec => [](CallsInv /\ BooksInv)
<1>1. Init => CallsInv /\ BooksInv
  BY CommerceInit
<1>2. CallsInv /\ BooksInv /\ [Next]_vars => (CallsInv /\ BooksInv)'
  BY CommerceStep
<1>3. QED
  BY <1>1, <1>2, PTL DEF Spec

\* Nothing is given away, whatever the calls, the payments and the faults are: an agent is
\* pro only behind a settled payment of the pro price, and has had no more credits than the
\* packs of its paid purchases and never less than none.  A payment counts for the call that
\* settled it and for those the facilitator answered with that settlement.
THEOREM EntitledTheorem == Spec => []EntitlementsArePaid
<1>1. CallsInv /\ BooksInv => EntitlementsArePaid
  <2> SUFFICES ASSUME CallsInv, BooksInv, NEW a \in Agents
               PROVE  /\ tier[a] = "pro" =>
                            \E c \in PaidFor(a, "activate_pro") : call[c].pay \in ForPro
                      /\ credits[a] >= 0
                      /\ credits[a] + spent[a] <= PacksPaid(PaidFor(a, "purchase_credits"))
    BY DEF EntitlementsArePaid
  <2> DEFINE E == EndedPacks(a)
             T == PaidFor(a, "purchase_credits")
             h == call
  <2>1. IsFiniteSet(T) /\ E \subseteq T /\ \A c \in T : h[c].size \in Nat
    BY PacksSized
  <2>2. Had(a) <= SizeSum(h, E) /\ PacksPaid(T) = SizeSum(h, T)
    BY DEF BooksInv, PacksPaid, SizeSum
  <2>3. Had(a) \in Nat /\ Had(a) = credits[a] + spent[a] /\ credits[a] >= 0
    BY DEF CallsInv, TypeOK, Had
  <2> HIDE DEF E, T, h
  <2>4. SizeSum(h, E) <= SizeSum(h, T) /\ SizeSum(h, E) \in Nat /\ SizeSum(h, T) \in Nat
    BY <2>1, SizeMore
  <2>5. credits[a] + spent[a] <= PacksPaid(T)
    BY <2>2, <2>3, <2>4
  <2>6. QED
    BY <2>3, <2>5 DEF T, BooksInv
<1>2. QED
  BY <1>1, CommerceInvariant, PTL

\* Nothing is kept back: without a fault, every settled payment whose call has ended gave
\* its agent the pro tier or the whole pack.
THEOREM GrantedTheorem == Spec => []SettledIsGranted
<1>1. BooksInv => SettledIsGranted
  BY DEF BooksInv, SettledIsGranted, EndedPacks, Had, SizeSum, PacksPaid
<1>2. QED
  BY <1>1, CommerceInvariant, PTL
=============================================================================

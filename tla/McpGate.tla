------------------------------ MODULE McpGate ------------------------------
(***************************************************************************)
(* The city tools of the MCP server: the free catalog and sample, and the  *)
(* paid check, whose function is wrapped in the SDK's payment gate.  The   *)
(* wrapper asks for a payment, has it verified, lets the tool run, settles *)
(* behind it and calls the hook that books the sale.  The tool itself      *)
(* takes a call from the caller's quota first, and answers a refusal, an   *)
(* unknown city, a bad address or a silent portal as an ordinary result.   *)
(***************************************************************************)
EXTENDS Integers

CONSTANTS
    McpCalls,        \* tool calls, each made once
    McpPayments,     \* signed payments
    NoPayment,
    McpQuota,        \* calls the caller has
    ListPrice,       \* settings.city_network_price, in units
    GateMaxFaults    \* faults of the facilitator, the ledger and the process

ASSUME GateAssumption ==
    /\ NoPayment \notin McpPayments /\ "nobody" \notin McpCalls
    /\ McpQuota \in Nat /\ ListPrice \in Nat \ {0} /\ GateMaxFaults \in Nat

VARIABLES
    mcp,             \* per call: its arguments, place, result and alert
    quotaLeft,       \* calls left of the quota
    took,            \* chain: payment -> the call that settled it
    sales,           \* ledger: the city sales of calls, with their amount
    gateFaults

gateVars == <<mcp, quotaLeft, took, sales, gateFaults>>

Uncalled == [at |-> "new", tool |-> "list", city |-> "known", address |-> "good",
             pay |-> NoPayment, result |-> "none", alert |-> "none", told |-> 0]

GateInit ==
    /\ mcp = [c \in McpCalls |-> Uncalled]
    /\ quotaLeft = McpQuota
    /\ took = [p \in McpPayments |-> "nobody"]
    /\ sales = {}
    /\ gateFaults = 0

GateFault == gateFaults < GateMaxFaults /\ gateFaults' = gateFaults + 1

-----------------------------------------------------------------------------
(* The tool behind the gate. *)

\* The check's own validation, then the city's portals.
CheckResults(call) ==
    CASE call.city # "known"    -> {"unknown_city"}
      [] call.address # "good"  -> {"invalid_address"}
      [] OTHER                  -> {"report", "upstream_unavailable"}

SampleResults(call) ==
    IF call.city # "known" THEN {"unknown_city"} ELSE {"report", "upstream_unavailable"}

ResultsOf(call) ==
    CASE call.tool = "list"   -> {"catalog"}
      [] call.tool = "sample" -> SampleResults(call)
      [] OTHER                -> CheckResults(call)

\* What the operator is told of a result.
AlertOf(call, result) ==
    CASE result = "catalog" -> "catalog"
      [] result = "report"  -> IF call.tool = "check" THEN "paid_mcp" ELSE "sample"
      [] OTHER              -> "error"

\* _execute_tool: the quota is taken first, and its refusal is a result like any.
Run(c, at) ==
    /\ IF quotaLeft = 0
       THEN mcp' = [mcp EXCEPT ![c].at = at, ![c].result = "quota_exceeded"] /\ UNCHANGED quotaLeft
       ELSE /\ quotaLeft' = quotaLeft - 1
            /\ \E result \in ResultsOf(mcp[c]) :
                  mcp' = [mcp EXCEPT ![c].at = at, ![c].result = result,
                                     ![c].alert = AlertOf(mcp[c], result)]
    /\ UNCHANGED <<took, sales, gateFaults>>

-----------------------------------------------------------------------------
(* The gate. *)

\* A call of the paid tool without a payment is told the terms and ends.
Called(tool, city, address, pay) ==
    LET at == IF tool # "check" THEN "free" ELSE IF pay = NoPayment THEN "ended" ELSE "paying"
    IN  [at |-> at, tool |-> tool, city |-> city, address |-> address, pay |-> pay,
         result |-> IF at = "ended" THEN "terms" ELSE "none", alert |-> "none", told |-> 0]

CallTool(c) ==
    /\ mcp[c].at = "new"
    /\ \E tool \in {"list", "sample", "check"}, city \in {"known", "unknown", "blank"},
          address \in {"good", "bad"}, pay \in McpPayments \cup {NoPayment} :
          /\ tool = "list" => city = "known"
          /\ tool # "check" => address = "good" /\ pay = NoPayment
          /\ mcp' = [mcp EXCEPT ![c] = Called(tool, city, address, pay)]
    /\ UNCHANGED <<quotaLeft, took, sales, gateFaults>>

FreeTool(c) == mcp[c].at = "free" /\ Run(c, "ended")

\* A payment that was spent is told the terms again; a valid one may be as well.
GateVerifies(c) ==
    /\ mcp[c].at = "paying"
    /\ \/ took[mcp[c].pay] = "nobody" /\ mcp' = [mcp EXCEPT ![c].at = "verified"]
       \/ mcp' = [mcp EXCEPT ![c].at = "ended", ![c].result = "terms"]
    /\ UNCHANGED <<quotaLeft, took, sales, gateFaults>>

PaidTool(c) == mcp[c].at = "verified" /\ Run(c, "worked")

\* The settlement may leave its amount out (0), and may be for less than the price.
SettleBehind(c) ==
    /\ mcp[c].at = "worked" /\ took[mcp[c].pay] = "nobody"
    /\ took' = [took EXCEPT ![mcp[c].pay] = c]
    /\ \E told \in 0 .. ListPrice : mcp' = [mcp EXCEPT ![c].at = "settled", ![c].told = told]
    /\ UNCHANGED <<quotaLeft, sales, gateFaults>>

\* The settlement fails, or its answer is lost behind moved funds: the terms again.
SettleRefused(c) ==
    /\ mcp[c].at = "worked"
    /\ mcp' = [mcp EXCEPT ![c].at = "ended", ![c].result = "terms"]
    /\ \/ UNCHANGED <<took, gateFaults>>
       \/ /\ took[mcp[c].pay] = "nobody" /\ took' = [took EXCEPT ![mcp[c].pay] = c]
          /\ GateFault
    /\ UNCHANGED <<quotaLeft, sales>>

\* The amount of the row: the settlement's, or the list price if it has none.
Amount(call) == IF call.told = 0 THEN ListPrice ELSE call.told

\* Mutant: a city the registry does not have is booked as well.
Bookable_Any(call) == call.city # "blank"

Bookable(call) == call.city = "known"

\* _record_city_check_settlement: it books whatever the tool answered; an exception
\* is logged and the result is sent all the same.
Hook(c) ==
    /\ mcp[c].at = "settled"
    /\ mcp' = [mcp EXCEPT ![c].at = "ended"]
    /\ \/ /\ sales' = IF Bookable(mcp[c])
                      THEN sales \cup {[call |-> c, amount |-> Amount(mcp[c])]} ELSE sales
          /\ UNCHANGED gateFaults
       \/ Bookable(mcp[c]) /\ GateFault /\ UNCHANGED sales
    /\ UNCHANGED <<quotaLeft, took>>

\* The process ends: the calls under way are cut, and the quota in memory is fresh.
GateRestarts ==
    /\ GateFault
    /\ mcp' = [c \in McpCalls |->
                  IF mcp[c].at \in {"new", "ended"} THEN mcp[c] ELSE [mcp[c] EXCEPT !.at = "cut"]]
    /\ quotaLeft' = McpQuota
    /\ UNCHANGED <<took, sales>>

GateNext ==
    \/ \E c \in McpCalls : \/ CallTool(c) \/ FreeTool(c) \/ GateVerifies(c) \/ PaidTool(c)
                           \/ SettleBehind(c) \/ SettleRefused(c) \/ Hook(c)
    \/ GateRestarts

-----------------------------------------------------------------------------
(* Properties. *)

\* No report of the paid check leaves without a settlement of its own, a row stands
\* for a settled check of a city the network has, at the amount that was settled or
\* else the price, and where nothing fails every check that settled for such a city
\* is booked once it is answered.  A report tells the operator "paid" before the
\* settlement, so that without one the call ends in the terms again.
PaidToolIsBooked ==
    /\ \A c \in McpCalls :
        LET call == mcp[c]  own == call.pay # NoPayment /\ took[call.pay] = c
        IN  /\ call.tool = "check" /\ call.at = "ended" /\ call.result = "report" => own
            /\ gateFaults = 0 /\ own /\ call.at = "ended" /\ call.city = "known" =>
                   \E s \in sales : s.call = c
            /\ call.alert = "paid_mcp" /\ call.at = "ended" => own \/ call.result = "terms"
    /\ \A s \in sales :
        LET call == mcp[s.call]
        IN  /\ took[call.pay] = s.call /\ call.city = "known"
            /\ s.amount = IF call.told > 0 THEN call.told ELSE ListPrice
=============================================================================

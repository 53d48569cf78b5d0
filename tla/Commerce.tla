------------------------------ MODULE Commerce ------------------------------
(***************************************************************************)
(* Pro tier and tool credits sold over x402: four MCP tools issue the      *)
(* server's own payment terms, verify and settle a payment against them    *)
(* and grant what was paid.                                                *)
(*                                                                         *)
(* A tool call first consumes quota.  Up to its await a call is one step,  *)
(* and so is the grant behind it.  What the quota store does inside is the *)
(* subject of QuotaStore; here it has one process and no rate window.      *)
(***************************************************************************)
EXTENDS Integers, FiniteSets, FiniteSetsExt

CONSTANTS
    Agents,
    Calls,          \* tool calls, each made once
    Payments,       \* signed payments
    ForPro,         \* those that authorize the price of the pro tier; the
                    \* others authorize the price of a credit pack
    Sizes,          \* credit packs asked for; nothing keeps them positive
    PackSize,       \* settings.tool_credit_pack_size
    FreeQuota, ProQuota,
    NoCall,
    MaxFaults       \* bound on lost answers, raised grants, restarts

ASSUME CommerceAssumption ==
    /\ ForPro \subseteq Payments /\ Sizes \subseteq Int \ {0}
    /\ PackSize \in Nat \ {0} /\ FreeQuota \in Nat /\ ProQuota \in Nat
    /\ MaxFaults \in Nat
    /\ NoCall \notin Calls \cup Payments /\ IsFiniteSet(Calls)

VARIABLES
    proTerms,    \* _pro_challenges: agents with pro terms on file
    packTerms,   \* _credits_challenges: agent -> packs with terms on file
    tier, credits, calls,     \* the quota store
    spent,       \* credits an agent's calls have consumed
    settledBy,   \* chain: payment -> the call that settled it
    echoed,      \* calls the facilitator told of a settlement another call had made
    call,        \* the tool calls
    faults

terms == <<proTerms, packTerms>>
store == <<tier, credits, calls, spent>>
chain == <<settledBy, echoed>>
vars == <<proTerms, packTerms, tier, credits, calls, spent, settledBy, echoed, call, faults>>

Idle == [st |-> "idle"]

Init ==
    /\ proTerms = {} /\ packTerms = [a \in Agents |-> {}]
    /\ tier = [a \in Agents |-> "free"]
    /\ credits = [a \in Agents |-> 0] /\ spent = [a \in Agents |-> 0]
    /\ calls = [a \in Agents |-> 0]
    /\ settledBy = [p \in Payments |-> NoCall] /\ echoed = {}
    /\ call = [c \in Calls |-> Idle]
    /\ faults = 0

Fault == faults < MaxFaults /\ faults' = faults + 1

-----------------------------------------------------------------------------
(* The head of every tool call. *)

Quota(a) == IF tier[a] = "pro" THEN ProQuota ELSE FreeQuota
OverQuota(a) == calls[a] >= Quota(a) /\ credits[a] <= 0

\* consume_quota: a call within the month's quota is counted, one beyond it also
\* costs a credit.
Consume(a) ==
    /\ ~OverQuota(a)
    /\ calls' = [calls EXCEPT ![a] = @ + 1]
    /\ LET cost == IF calls[a] < Quota(a) THEN 0 ELSE 1
       IN  /\ credits' = [credits EXCEPT ![a] = @ - cost]
           /\ spent' = [spent EXCEPT ![a] = @ + cost]
    /\ UNCHANGED tier

Kinds == {"pro_requirements", "credits_requirements", "activate_pro", "purchase_credits"}

Ended(c, how) == call' = [call EXCEPT ![c].st = "ended", ![c].outcome = how]

\* The call c of this kind goes to this state.
Begin(c, kind, a, n, p, st, outcome) ==
    /\ call[c] = Idle
    /\ call' = [call EXCEPT ![c] = [st |-> st, kind |-> kind, agent |-> a, size |-> n,
                                    pay |-> p, outcome |-> outcome]]

\* No quota, no credits: the tool is not run.
QuotaExceeded(c) ==
    /\ \E kind \in Kinds, a \in Agents :
          OverQuota(a) /\ Begin(c, kind, a, PackSize, NoCall, "ended", "quota")
    /\ UNCHANGED <<terms, store, chain, faults>>

-----------------------------------------------------------------------------
(* Terms. *)

\* The build of the challenge may raise, the call is counted all the same.
ProRequirements(c) ==
    /\ \E a \in Agents :
        /\ Consume(a)
        /\ \/ /\ Begin(c, "pro_requirements", a, PackSize, NoCall, "ended", "terms")
              /\ proTerms' = proTerms \cup {a}
           \/ /\ Begin(c, "pro_requirements", a, PackSize, NoCall, "ended", "raised")
              /\ UNCHANGED proTerms
    /\ UNCHANGED <<packTerms, chain, faults>>

CreditsRequirements(c) ==
    /\ \E a \in Agents, n \in Sizes :
        /\ Consume(a)
        /\ \/ /\ Begin(c, "credits_requirements", a, n, NoCall, "ended", "terms")
              /\ packTerms' = [packTerms EXCEPT ![a] = @ \cup {n}]
           \/ /\ Begin(c, "credits_requirements", a, n, NoCall, "ended", "raised")
              /\ UNCHANGED packTerms
    /\ UNCHANGED <<proTerms, chain, faults>>

-----------------------------------------------------------------------------
(* Payment. *)

\* Without pro terms on file they are built now, which may raise.
ActivatePro(c) ==
    /\ \E a \in Agents, p \in Payments :
        /\ Consume(a)
        /\ \/ /\ Begin(c, "activate_pro", a, PackSize, p, "verifying", "none")
              /\ proTerms' = proTerms \cup {a}
           \/ /\ a \notin proTerms
              /\ Begin(c, "activate_pro", a, PackSize, p, "ended", "raised")
              /\ UNCHANGED proTerms
    /\ UNCHANGED <<packTerms, chain, faults>>

\* The terms a purchase is checked against: those of its pack, else the only ones
\* the agent has.
TermsFor(a, n) ==
    IF n \in packTerms[a] THEN {n}
    ELSE IF Cardinality(packTerms[a]) = 1 THEN packTerms[a] ELSE {}

\* The pack of terms that name none.
PackOf(n) == IF n <= 0 THEN PackSize ELSE n

\* Without terms, or with terms for another pack, the purchase is refused before
\* anything is charged.
PurchaseCredits(c) ==
    /\ \E a \in Agents, n \in Sizes, p \in Payments :
        /\ Consume(a)
        /\ IF \E t \in TermsFor(a, n) : PackOf(t) = n
           THEN Begin(c, "purchase_credits", a, n, p, "verifying", "none")
           ELSE Begin(c, "purchase_credits", a, n, p, "ended", "refused")
    /\ UNCHANGED <<terms, chain, faults>>

Covers(c) == (call[c].pay \in ForPro) = (call[c].kind = "activate_pro")
Unused(c) == settledBy[call[c].pay] = NoCall

\* The facilitator's verification: a valid payment goes on to be settled, also one
\* that is used if the facilitator does not look at the chain; else, or when the
\* facilitator cannot be reached, the call is refused.
Verify(c) ==
    /\ call[c].st = "verifying"
    /\ \/ /\ Covers(c)
          /\ call' = [call EXCEPT ![c].st = "settling"]
          /\ UNCHANGED faults
       \/ /\ IF Covers(c) /\ Unused(c) THEN Fault ELSE UNCHANGED faults
          /\ Ended(c, "refused")
    /\ UNCHANGED <<terms, store, chain>>

\* Mutant: a payment that verified is taken for settled.
Settle_Optimistic(c) ==
    /\ call[c].st = "settling"
    /\ settledBy' = IF Unused(c) THEN [settledBy EXCEPT ![call[c].pay] = c] ELSE settledBy
    /\ call' = [call EXCEPT ![c].st = "settled"]
    /\ UNCHANGED <<terms, store, echoed, faults>>

\* The settlement.  The first one of a payment moves its funds or fails, and its
\* answer may be lost behind funds that moved.  A repeated one moves nothing: the
\* facilitator fails it, or answers as it did to the first.  Nothing here tells the
\* two answers apart.
Settle(c) ==
    /\ call[c].st = "settling"
    /\ \/ /\ Unused(c)
          /\ settledBy' = [settledBy EXCEPT ![call[c].pay] = c]
          /\ \/ call' = [call EXCEPT ![c].st = "settled"] /\ UNCHANGED faults
             \/ Fault /\ Ended(c, "refused")
          /\ UNCHANGED echoed
       \/ /\ ~Unused(c)
          /\ echoed' = echoed \cup {c}
          /\ call' = [call EXCEPT ![c].st = "settled"]
          /\ UNCHANGED <<settledBy, faults>>
       \/ /\ IF Unused(c) THEN Fault ELSE UNCHANGED faults
          /\ Ended(c, "refused")
          /\ UNCHANGED chain
    /\ UNCHANGED <<terms, store>>

\* Mutant: the balance read before the await is written back.
Entitle_Sets(c) ==
    IF call[c].kind = "activate_pro"
    THEN tier' = [tier EXCEPT ![call[c].agent] = "pro"] /\ UNCHANGED credits
    ELSE credits' = [credits EXCEPT ![call[c].agent] = call[c].size] /\ UNCHANGED tier

\* activate_pro_tier of the store, or add_credits.
Entitle(c) ==
    IF call[c].kind = "activate_pro"
    THEN tier' = [tier EXCEPT ![call[c].agent] = "pro"] /\ UNCHANGED credits
    ELSE credits' = [credits EXCEPT ![call[c].agent] = @ + call[c].size] /\ UNCHANGED tier

Grant(c) ==
    /\ call[c].st = "settled"
    /\ Entitle(c)
    /\ Ended(c, "granted")
    /\ UNCHANGED <<terms, calls, spent, chain, faults>>

\* The store's command raises, whether or not it was done.
GrantRaises(c) ==
    /\ call[c].st = "settled" /\ Fault
    /\ Entitle(c) \/ UNCHANGED <<tier, credits>>
    /\ Ended(c, "raised")
    /\ UNCHANGED <<terms, calls, spent, chain>>

-----------------------------------------------------------------------------
InFlight == {c \in Calls : call[c].st \in {"verifying", "settling", "settled"}}

\* The terms and the calls in flight are lost; a store in memory starts empty, one
\* on Redis is kept.
Restart ==
    /\ Fault
    /\ proTerms' = {} /\ packTerms' = [a \in Agents |-> {}]
    /\ call' = [c \in Calls |-> IF c \in InFlight
                                THEN [call[c] EXCEPT !.st = "ended", !.outcome = "cut"]
                                ELSE call[c]]
    /\ \/ UNCHANGED <<tier, credits, calls>>
       \/ /\ tier' = [a \in Agents |-> "free"]
          /\ credits' = [a \in Agents |-> 0] /\ calls' = [a \in Agents |-> 0]
    /\ UNCHANGED <<spent, chain>>

Next ==
    \/ Restart
    \/ \E c \in Calls :
        \/ QuotaExceeded(c) \/ ProRequirements(c) \/ CreditsRequirements(c)
        \/ ActivatePro(c) \/ PurchaseCredits(c)
        \/ Verify(c) \/ Settle(c) \/ Grant(c) \/ GrantRaises(c)

Spec == Init /\ [][Next]_vars

-----------------------------------------------------------------------------
(* Properties. *)

CallState ==
    [st : {"verifying", "settling", "settled", "ended"}, kind : Kinds, agent : Agents,
     size : Int, pay : Payments \cup {NoCall},
     outcome : {"none", "quota", "terms", "refused", "raised", "granted", "cut"}]

\* Type correctness; a balance is never negative, whatever pack sizes are asked for.
TypeOK ==
    /\ proTerms \subseteq Agents /\ packTerms \in [Agents -> SUBSET Sizes]
    /\ tier \in [Agents -> {"free", "pro"}]
    /\ credits \in [Agents -> Nat] /\ spent \in [Agents -> Nat] /\ calls \in [Agents -> Nat]
    /\ settledBy \in [Payments -> Calls \cup {NoCall}] /\ echoed \subseteq Calls
    /\ \A c \in Calls : call[c] = Idle \/ call[c] \in CallState
    /\ faults \in 0 .. MaxFaults

\* The funds of the call's payment have moved, and the call itself moved them or
\* was answered with the settlement that did.
Paid(c) ==
    /\ settledBy[call[c].pay] # NoCall
    /\ settledBy[call[c].pay] = c \/ c \in echoed

\* The paid calls of this kind for the agent.
PaidFor(a, kind) ==
    {c \in Calls : /\ call[c] # Idle
                   /\ call[c].kind = kind /\ call[c].agent = a
                   /\ call[c].pay # NoCall /\ Paid(c)}
PacksPaid(S) == MapThenSumSet(LAMBDA c : call[c].size, S)

\* Nothing is given away: an agent is pro only behind a settled payment of the pro
\* price, and has had no more credits than the packs of its paid purchases and
\* never less than none, through concurrent calls with one payment, lost answers
\* and restarts.  A payment counts for the call that settled it, so that it pays
\* once, and for every further call the facilitator answers with that settlement:
\* the code has no guard of its own, and one payment grants as often as that.
EntitlementsArePaid ==
    \A a \in Agents :
        /\ tier[a] = "pro" =>
              \E c \in PaidFor(a, "activate_pro") : call[c].pay \in ForPro
        /\ credits[a] >= 0
        /\ credits[a] + spent[a] <= PacksPaid(PaidFor(a, "purchase_credits"))

\* Nothing is kept back: as long as no answer was lost, no command raised and the
\* process lived, every call told of the settlement of its payment gave its agent
\* the pro tier or the whole pack by its end, also when a call of the agent spent a credit
\* between the settlement and the grant.
SettledIsGranted ==
    faults = 0 =>
        \A a \in Agents :
            /\ \A c \in PaidFor(a, "activate_pro") :
                  call[c].st = "ended" => tier[a] = "pro"
            /\ credits[a] + spent[a] =
                  PacksPaid({c \in PaidFor(a, "purchase_credits") : call[c].st = "ended"})

(* What the code itself says and does not do; see the README. *)

\* The refusal names commerce.pro_requirements, activate_pro, credits_requirements
\* and purchase_credits as the way out ("upgrade_payment_tool", "activate_tool",
\* "credits_payment_tool", "purchase_credits_tool"): those tools answer an agent
\* that is out of quota.  They are refused like any other.
NamedToolsAnswer ==
    \A c \in Calls : call[c] # Idle => call[c].outcome # "quota"
=============================================================================

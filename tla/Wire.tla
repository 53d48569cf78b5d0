-------------------------------- MODULE Wire --------------------------------
(***************************************************************************)
(* One payment on the wire, seen from its buyer: the seller's challenge,   *)
(* the option that the buyer's client signs under a cap, the seller's      *)
(* reading of the signature, verify and settle, and what pay_and_fetch     *)
(* reports was charged.  The seller is this server, or another one, which  *)
(* may verify and settle through this server's facilitator routes, may     *)
(* write into its answer what it likes, and may settle behind it.          *)
(*                                                                         *)
(* Amounts are atomic units of an asset; Worth says what one of them is    *)
(* worth by the asset's decimals, in a unit fine enough for all of them.   *)
(***************************************************************************)
EXTENDS Integers, Sequences, SequencesExt

CONSTANTS
    Buys,            \* calls of pay_and_fetch
    Networks,        \* parse_caip2_networks(settings.x402_default_network), a sequence
    OwnAsset,        \* the asset of a network that the facilitator names
    FallbackAsset,   \* the one the code names when the facilitator is offline
    Price,           \* of this server's resource
    Foreign,         \* challenges of other servers: sequences of options
    Worth,           \* of an atomic unit of every asset
    Claims,          \* amounts that another seller may say were settled
    Registered,      \* the assets whose decimals the SDK knows
    Prices,          \* caps, max_price_usdc, in atomic units of USDC
    NoCap, NoOption

ASSUME WireAssumption ==
    /\ Price \in Nat /\ Prices \subseteq Nat \ {NoCap}
    /\ \A a \in DOMAIN Worth : Worth[a] \in Nat \ {0}
    /\ "usdc" \in Registered \cap DOMAIN Worth /\ Claims \subseteq Nat
    /\ Networks \in Seq(ToSet(Networks))
    /\ \A n \in ToSet(Networks) : {OwnAsset[n], FallbackAsset[n]} \subseteq DOMAIN Worth
    /\ \A offers \in Foreign :
          /\ offers \in Seq(ToSet(offers))
          /\ \A o \in ToSet(offers) : o.asset \in DOMAIN Worth /\ o.amt \in Nat

VARIABLES
    buy,             \* per call: its place, seller, cap, challenge and signed option
    online,          \* the networks whose facilitator answers
    moved,           \* per call: what has moved, an amount of the signed asset
    report,          \* per call: what pay_and_fetch returned
    garbled          \* history: calls some answer of which was lost, unreadable or made up

wireVars == <<buy, online, moved, report, garbled>>

NoReport == [settled |-> FALSE, charged |-> 0, worth |-> 0, source |-> "none"]
Unasked == [at |-> "idle", seller |-> "own", cap |-> NoCap, prefer |-> "none",
            offers |-> <<>>, signed |-> NoOption, captured |-> FALSE, told |-> NoReport]

WireInit ==
    /\ buy = [b \in Buys |-> Unasked]
    /\ online \in SUBSET ToSet(Networks)
    /\ moved = [b \in Buys |-> 0]
    /\ report = [b \in Buys |-> NoReport]
    /\ garbled = {}

FacilitatorFlips ==
    /\ \E n \in ToSet(Networks) : online' = IF n \in online THEN online \ {n} ELSE online \cup {n}
    /\ UNCHANGED <<buy, moved, report, garbled>>

-----------------------------------------------------------------------------
(* The challenge. *)

\* build_seller_requirements: one option a network; offline, the price in USDC
\* units and an asset picked by the network's name.
OwnOffers ==
    [i \in DOMAIN Networks |->
        [net |-> Networks[i], amt |-> Price,
         asset |-> IF Networks[i] \in online THEN OwnAsset[Networks[i]]
                   ELSE FallbackAsset[Networks[i]]]]

Challenged(b) ==
    /\ buy[b].at = "idle"
    /\ \E seller \in {"own", "foreign", "single", "accepts", "headers"},
          cap \in Prices \cup {NoCap}, prefer \in ToSet(Networks),
          offers \in Foreign \cup {OwnOffers} :
          /\ seller = "own" <=> offers = OwnOffers
          /\ buy' = [buy EXCEPT ![b] = [Unasked EXCEPT !.at = "asked", !.seller = seller,
                        !.cap = cap, !.prefer = prefer, !.offers = offers]]
    /\ UNCHANGED <<online, moved, report, garbled>>

-----------------------------------------------------------------------------
(* The buyer. *)

\* The max_amount policy compares atomic units, whatever the asset is.
Affordable(p) == {i \in DOMAIN p.offers : p.cap = NoCap \/ p.offers[i].amt <= p.cap}

\* Of the affordable options the first on the preferred network, else the first.
Selected(p) ==
    LET preferred == {i \in Affordable(p) : p.offers[i].net = p.prefer}
        among == IF preferred # {} THEN preferred ELSE Affordable(p)
    IN  p.offers[CHOOSE i \in among : \A j \in among : i <= j]

\* The client signs; the hook that notes the amount may fail.
Sign(b) ==
    /\ buy[b].at = "asked" /\ Affordable(buy[b]) # {}
    /\ \E captured \in BOOLEAN :
          buy' = [buy EXCEPT ![b].at = "signed", ![b].signed = Selected(buy[b]),
                             ![b].captured = captured]
    /\ UNCHANGED <<online, moved, report, garbled>>

\* NoMatchingRequirementsError: pay_and_fetch raises "payment refused".
Refuse(b) ==
    /\ buy[b].at = "asked" /\ Affordable(buy[b]) = {}
    /\ buy' = [buy EXCEPT ![b].at = "raised"]
    /\ UNCHANGED <<online, moved, report, garbled>>

-----------------------------------------------------------------------------
(* The seller. *)

\* Mutant: the first option is taken for the accepted one.
Matched_First(offers, signed) == offers[1]

\* _decode_payment_inputs: the option of the network and asset that the buyer
\* accepted, else the first.
Matched(offers, signed) ==
    LET same == {i \in DOMAIN offers : offers[i].net = signed.net /\ offers[i].asset = signed.asset}
    IN  IF same = {} THEN offers[1] ELSE offers[CHOOSE i \in same : \A j \in same : i <= j]

\* What the payment is verified against.  This server builds its challenge anew;
\* the facilitator routes take one requirement, a list, of which they take the
\* first, or the two headers.
Requirement(p) ==
    CASE p.seller = "own"     -> Matched(OwnOffers, p.signed)
      [] p.seller = "accepts" -> p.offers[1]
      [] p.seller = "headers" -> Matched(p.offers, p.signed)
      [] OTHER                -> p.signed

\* A payment is good for exactly the requirement that it was signed for; the
\* facilitator may reject it all the same, or not answer.
VerifySigned(b) ==
    /\ buy[b].at = "signed"
    /\ \E at \in {"verified", "failed"} :
          /\ at = "verified" => Requirement(buy[b]) = buy[b].signed
          /\ buy' = [buy EXCEPT ![b].at = at]
          /\ garbled' = IF at = "failed" /\ Requirement(buy[b]) = buy[b].signed
                        THEN garbled \cup {b} ELSE garbled
    /\ UNCHANGED <<online, moved, report>>

\* What the settle answer says: the amount in it may be missing.
Told(b, amt) ==
    {[settled |-> TRUE, charged |-> amt, worth |-> 0, source |-> s] : s \in {"settlement", "none"}}

\* The funds move, in part or in full, and the seller answers with the settlement.
SettleMoves(b) ==
    /\ buy[b].at = "verified"
    /\ \E amt \in {buy[b].signed.amt, buy[b].signed.amt \div 2} \ {0} :
          /\ moved' = [moved EXCEPT ![b] = amt]
          /\ \E told \in Told(b, amt) : buy' = [buy EXCEPT ![b].at = "paid", ![b].told = told]
    /\ UNCHANGED <<online, report, garbled>>

\* Nothing moves, and the settlement says so.
SettleFails(b) ==
    /\ buy[b].at = "verified"
    /\ buy' = [buy EXCEPT ![b].at = "failed"]
    /\ UNCHANGED <<online, moved, report, garbled>>

\* The funds moved and the facilitator's answer is lost, or the seller's own
\* answer is an error or has an unreadable settlement.
AnswerLost(b) ==
    /\ \/ buy[b].at = "verified" /\ moved' = [moved EXCEPT ![b] = buy[b].signed.amt]
       \/ buy[b].at = "paid" /\ UNCHANGED moved
    /\ buy' = [buy EXCEPT ![b].at = "failed", ![b].told = NoReport]
    /\ garbled' = garbled \cup {b}
    /\ UNCHANGED <<online, report>>

\* Another seller answers 200 with a settlement of its own making, whatever became of
\* the payment.
SellerClaims(b) ==
    /\ buy[b].at \in {"signed", "verified", "failed", "paid"} /\ buy[b].seller # "own"
    /\ \E amt \in Claims : \E told \in Told(b, amt) :
          buy' = [buy EXCEPT ![b].at = "paid", ![b].told = told]
    /\ garbled' = garbled \cup {b}
    /\ UNCHANGED <<online, moved, report>>

\* It uses the signature behind its answer, while that is good.
SellerSettlesLate(b) ==
    /\ buy[b].at = "done" /\ buy[b].seller # "own" /\ moved[b] = 0
    /\ moved' = [moved EXCEPT ![b] = buy[b].signed.amt]
    /\ garbled' = garbled \cup {b}
    /\ UNCHANGED <<buy, online, report>>

-----------------------------------------------------------------------------
(* The report. *)

\* asset_decimals: those of USDC where the asset is unknown.
WorthOf(asset) == Worth[IF asset \in Registered THEN asset ELSE "usdc"]

\* Mutant: the cap is what was charged where the settlement does not say.
Charged_Cap(p) ==
    CASE ~p.told.settled -> NoReport
      [] p.told.settled /\ p.told.source = "settlement" ->
            [p.told EXCEPT !.worth = WorthOf(p.signed.asset)]
      [] OTHER -> [settled |-> TRUE, charged |-> IF p.cap = NoCap THEN 0 ELSE p.cap,
                   worth |-> Worth["usdc"], source |-> "authorized"]

\* charged_amount: the settlement's figure, else the signed one, else none.
Charged(p) ==
    CASE ~p.told.settled -> NoReport
      [] p.told.settled /\ p.told.source = "settlement" ->
            [p.told EXCEPT !.worth = IF p.captured THEN WorthOf(p.signed.asset)
                                           ELSE Worth["usdc"]]
      [] p.told.settled /\ p.told.source = "none" /\ p.captured ->
            [settled |-> TRUE, charged |-> p.signed.amt, worth |-> WorthOf(p.signed.asset),
             source |-> "authorized"]
      [] OTHER -> [NoReport EXCEPT !.settled = TRUE]

PayReturns(b) ==
    /\ buy[b].at \in {"paid", "failed"}
    /\ report' = [report EXCEPT ![b] = Charged(buy[b])]
    /\ buy' = [buy EXCEPT ![b].at = "done"]
    /\ UNCHANGED <<online, moved, garbled>>

WireNext ==
    \/ FacilitatorFlips
    \/ \E b \in Buys : \/ Challenged(b) \/ Sign(b) \/ Refuse(b) \/ VerifySigned(b) \/ SettleMoves(b)
                       \/ SettleFails(b) \/ AnswerLost(b) \/ SellerClaims(b)
                       \/ SellerSettlesLate(b) \/ PayReturns(b)

-----------------------------------------------------------------------------
(* Properties. *)

\* Whatever is offered, preferred, answered and settled late, no more than the cap
\* moves in atomic units of the asset; that bounds its worth too unless the asset is
\* coarser than USDC.  From this server, and from another that tells the truth, a
\* charge that is reported did move, exactly that where the settlement says how much;
\* no charge is reported only if nothing moved or an answer was lost or made up.  An
\* amount reported as authorized bounds what moved even where the seller lies.
SpendIsTrue ==
    \A b \in Buys :
        LET p == buy[b]
            r == report[b]
            asset == p.signed.asset
            known == WorthOf(asset) = Worth[asset]
            honest == p.seller = "own" \/ b \notin garbled
        IN  /\ moved[b] > 0 /\ p.cap # NoCap =>
                  /\ moved[b] <= p.cap
                  /\ Worth[asset] <= Worth["usdc"] => moved[b] * Worth[asset] <= p.cap * Worth["usdc"]
            /\ p.at = "done" /\ ~r.settled => moved[b] = 0 \/ b \in garbled
            /\ honest /\ r.settled => moved[b] > 0
            /\ honest /\ r.source = "settlement" /\ known /\ p.captured =>
                  r.charged = moved[b] /\ r.worth = Worth[asset]
            /\ r.source = "authorized" /\ known =>
                  r.charged >= moved[b] /\ r.worth = Worth[asset]

\* No two options are of the same asset on the same network.
Unambiguous(offers) ==
    \A i, j \in DOMAIN offers :
        offers[i].net = offers[j].net /\ offers[i].asset = offers[j].asset => i = j

\* A payment for any option of this server's challenge, or of one that is handed to
\* the facilitator routes as it was served, is read as a payment for that option,
\* however many networks are offered and whichever of their facilitators answer:
\* only one built anew under another facilitator's state may not be, or one of two
\* options of another server that differ in the amount alone.
OfferIsTaken ==
    \A b \in Buys :
        LET p == buy[b]
            asServed == \/ p.seller = "own" /\ p.offers = OwnOffers
                        \/ p.seller = "headers" /\ Unambiguous(p.offers)
        IN  p.at = "signed" /\ asServed
                => Requirement(p) = p.signed
=============================================================================

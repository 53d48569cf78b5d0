# x402-mcp: a TLA+ model of the storefront

x402-mcp is one Python process (FastAPI and an MCP server on one asyncio event
loop) that sells data products for x402 stablecoin payments. A buyer asks for a
resource, gets HTTP 402 with a PAYMENT-REQUIRED challenge, signs it and asks
again; the server has the signature verified and settled by an external
facilitator and delivers. Around this core there are a swarm that composes and
lists products, a call quota with tiers and prepaid credits, an A2A JSON-RPC task
store, ledgers, caches, mail receipts and monitoring.

This directory models the state the process keeps, and what interleavings,
crashes and lost answers do to it.

## 1. The system's parts

All code runs on one event loop: code between two `await`s is atomic for the other
handlers, so interleavings happen at `await`s only (`asyncio.to_thread` included).
A crash may fall anywhere; what outlives it is what a Redis key, a file or the
ledger holds.

| component | state | operations | hard behaviour | correct when |
|---|---|---|---|---|
| swarm sale, registry (`swarm/registry.py`, `swarm/orchestrator.py` `settle_composite_sale`, `swarm/publisher.py`) | listed products, replay guard `_settled_txs`, one snapshot (Redis or file), revenue ledger | purchase, publish, rebuild, prune, restart | product object held across the settle await while the publisher replaces or prunes it; several durable writes per sale; swallowed write errors | a settlement is booked once; only settled payments are sold; revenue that reached the listing survives republishing; the cataloged listing comes back |
| call quota (`commerce.py`) | month counters, rate window, tier, credits, fulfilment marks; in memory or Redis | consume, add credits, activate pro, Stripe fulfilment, month rollover | two processes on one Redis: GET then SET, DECRBY then clamp; mark before grant | no call beyond quota, rate and credits; nothing granted twice; a paid grant is not lost |
| commerce payments (`commerce_payment.py`, `x402_services.py` purchase/activate) | pending challenges per agent | build, resolve, settle, grant | overwritten and re-used challenges, restart, fail-closed checks | a grant is what was priced, paid to the right payee |
| A2A tasks (`a2a_rpc.py`) | task store with bindings and receipts | message/send, tasks/get, tasks/cancel | cancel and second payment during the verify and execute awaits | a final state is final; one charge per task; receipts are kept |
| swarm run, warden, treasurer (`swarm/orchestrator.py` `run_swarm_research`, `swarm/roles.py`, `swarm/policy.py`, `swarm/ledger_writer.py`) | run status, spend ledger | discover, review, buy, compose, list | two runs review against the same totals; payment made, answer lost or untrue | caps on spending hold; what was spent is recorded as far as upstreams report it |
| paid HTTP routes and challenge cache (`main.py`, `diligence_routes.py`, `city_compliance/routes.py`, `x402_middleware_pilot.py`, `challenge_cache.py`) | name -> (fingerprint, header), in memory and Redis; ledger | challenge, verify and settle, work, record | settled but the work fails; settled but unrecorded; stale header served when the build fails | each delivery behind a settle of its own, and recorded at the price paid; an outage stops no sale |
| MCP payment gate and city tools (`mcp_server.py`, `mcp_payments.py`, `city_compliance/mcp_tools.py`) | quota, ledger | list, sample, paid check | the tool runs before the settlement; a refusal is an ordinary result, and paid for | no report unsettled; a row per settled check |
| city adapters, diligence pack, cache warmer (`city_compliance/cities`, `mn_compliance.py`, `diligence_pack.py`, `cache_warmer.py`) | report cache per city | check, pack, warm | queries answered at different moments, a portal that fails or changes half-way, a client that times out | a verdict claims no more than the portal had and was asked for; a report served is not older than its lifetime |
| buyer client and wire (`x402_services.py` `pay_and_fetch`, `main.py` facilitator routes) | none | select, sign, match, verify, settle, report | an option's network, asset and amount chosen by one side and matched by the other; a lost answer | no cap is exceeded; what this server or an honest seller reports as charged did move |
| demand (`demand.py`) and revenue reports (`swarm/sovereign.py`, `ledger_io.py`, `main.py`) | challenge counters, since marker, ledger, page cache | count, book, classify, aggregate | counters and ledger restart and are trimmed separately; a cached page | the funnel says what happened since the marker; reports agree as far as a page reaches |
| MailRail (`mailrail.py`, `city_compliance/agentmail.py`) | `_SEEN_KEYS`, mail ledgers | send, dispatch, ingest, notify | key marked although dispatch failed; the key cut from the body | one mail per key in a life; the ledger says what left |
| ops events (`ops_events.py`), OS monitor (`os_monitor.py`) | ring, subscriber queues, alert level, spend window | emit, stream, sample | a listener between replay and queue; heartbeats; level transitions | every event once, in order; an alert per transition and burst |
| probe limiter and free probes (`probe_rate_limit.py`, `main.py`, `mcp_server.py`, `x402_services.py`) | sliding window per client | probe, discover a card | two doors with different limits; the edge of the window | the window keeps the limit; the wait it names is right to a second |
| fee snapshot and settle decision (`pulse.py`, `tx_decision.py`) | a snapshot under a lock | ask, fetch, decide | a snapshot shared while blocks are mined; rounding of every figure | what is advised is true of the chain when it is used |
| finality check (`finality_check.py`) | none | read tx, safe and finalized; classify | reads of different moments around a reorganisation | what is said to be final stays |
| QMA verifier (`swarm/qma.py`) | best report so far | derive twice, group, judge, repeat | "about the same" is not transitive; a witness that contradicts itself | what is accepted both witnesses said |

Left out: discovery documents and manifests (`agent_surface.py`, `openapi_spec.py`,
`manifest.py`, `tools_registry.py`), the strategic assessor, logging, configuration,
doctor and keys, the dashboards, marketplace adapters, deployment files, scripts and
examples: they keep no state that the handlers above depend on. The facilitator, the
chain, Redis, the disk, the city portals and the SDK's wrapper are external; what the
code may see of them is part of the modules that use them.

## 2. How the project is laid out

A module per component, its properties aimed at the hazards listed in
`PROJECT.json`; `MC*` modules give the constants their values; `*Proofs` modules
hold the theorems. No module uses a RECURSIVE operator, so that each can be proved
about; where the code loops over a list the module has a recursive function or a fold.

| modules | checked by | proved in | what is proved |
|---|---|---|---|
| `SwarmSale`, `SaleBook` | `sale`, `sale_live`, `prune_inflight` | `SwarmSaleProofs` | every safety property and the refinement |
| `QuotaStore`, `Probing` | `quota`, `quota_hooks` | `QuotaStoreProofs` | every property |
| `SwarmRun`, `OpsEvents` | `run`, `run_overlap_caps` | `SwarmRunProofs` | every safety property |
| `PaidRoute` | `paid_routes` | `PaidRouteProofs` | every safety property |
| `A2ATasks`, `CityChecks` | `a2a_tasks`, `a2a_city_terms` | `A2ATasksProofs` | every property |
| `Commerce`, `McpGate`, `MailRail`, `Wire` | `commerce_grants`, `commerce_lockout` | `CommerceProofs` | every property |
| `Demand`, `FeePulse`, `Finality` | `quota`, `quota_hooks` | `ReportProofs` | every property, `AdviceHolds` while fees are large |
| `Qma` | `commerce_grants` | `ReportProofs` | its property |
| `Filters` | used by `Demand`, `Qma`, `OpsEvents` | `FoldLemmas` | what filtering keeps |

What is worth doing next: abstract specifications of more components, as `SaleBook` is
one of the sale (a quota account, a task's life, a route's delivery); `Commerce` on top
of `QuotaStore`, whose quota it models by a number; `PaidRoute` with `Demand`'s counters
behind its challenges.

## 3. The modules

Common to all: a request's place between two awaits is its `pc` (or the field `at` or
`st` of its record); a payment is a model value and is its own settlement tx; `chain`,
`moved`, `took` or `paid` is what happened on chain. Faults are counted and bounded.

The facilitator is external, and its contract is the same in every module of a sale.
The funds of a payment move at most once; an answer may be lost; a verify of a used
payment may succeed; and a repeated settle either fails or is answered with the
settlement that was made before. `SwarmSale` lets it do either, and so do `Commerce`,
`A2ATasks` and `PaidRoute`, which keep the calls answered in the second way in `echoed`.
Only the swarm sale has a guard of its own against such a repeat
(`orchestrator.py:265`). The commerce tools (`x402_services.py:1380`), the A2A endpoint
(`a2a_rpc.py:574`) and the paid routes (`main.py:1528`, `:1702`, `:1874`,
`city_compliance/routes.py:190`) have none, so that one payment grants, completes or
delivers as often as the facilitator repeats its answer; their properties say exactly
that. Single use, which `agent_surface.py:357` claims, rests on the facilitator and the
chain alone.

An operator called `X_Something` is a plausible bug in `X`, kept beside it to show that a
property notices it; nothing else refers to it.

**SwarmSale** (`swarm/registry.py`, `publisher.py`, `orchestrator.py`). Products are
objects in a heap because handlers keep references to them across awaits: `Submit`
stores the object that `Credit` writes to later, however often the publisher has
replaced it. `Submit`, `Verify`, `FacilitatorSettle`, `Resume`, `Credit`, `Record`
are `settle_composite_sale` cut at its awaits and at its durable writes; `Busy`
keeps other handlers out of a stretch without awaits while `Crash` may enter.
`StartRebuild`, `ListProduct`, `CarryOver`, `PruneAfterRebuild` are
`rebuild_pinned_product`, `StartPublish` and `ListProduct` a publish onto a fresh
id, `KeepPinned` the refresh that only prunes. A revenue amount is the set of sales
it sums. `Save` is the one snapshot of products and guard; `Crash` loads it.
`RegistryIsTrue` does not say that the registry knows every sale, for it does not: when a
rebuild or a prune replaces the object while the sale is at the facilitator, `Credit`
writes to an object that is listed no more (`orphaned`). Those sales are in the ledger
and not in the registry; the property is that no other sale is lost.
**SaleBook** is the book one payment sees.

**QuotaStore** (`commerce.py`). `ReadTier`, `ReadCalls`, `ReadCredits`, `Spend`,
`Clamp`, `Count` are `consume_quota` cut at its Redis commands; with one process it
runs through without another handler, with two it does not. `Grant`, `Purchase`,
`MarkFulfilled`, `Fulfill` are the grants and the Stripe webhook, `CallRaises` and
`DeliveryRaises` a command that raises, `Restart` the end of a process; the rate
window (`Recent`) is lost with it. `Tick` moves through minutes and months.

**SwarmRun** (`swarm/orchestrator.py`, `roles.py`, `policy.py`, `ledger_writer.py`).
`Start`, `Discovered`, `Scouted` with `Review` (the warden's loop as a fold with its
reservations), `Charge` at the upstream, `Settled`, `PassedOver`, `RecordFails`,
`NoWallet`, `Compose` with `PriceOf`, `ZeroCost`. `NewDay` may fall anywhere.
`rows` is the spend ledger, `paid` the chain. The treasurer goes by what an upstream
writes into its answer: it may deny a payment it took (`denied`) or report one it did not
take (`claimed`), and `AskAgain` is the POST behind a 404 or 405, which the code takes
for unpaid (`roles.py:199`) and which may be paid as well. Prices are in atomic units and
ratios in ten-thousandths, the price is rounded as `round(., 6)` rounds dollars.

**Commerce** (`commerce_payment.py`, the commerce tools of `mcp_server.py` and
`x402_services.py`). Every tool call consumes quota first (`Begin`, `QuotaExceeded`),
then asks for terms (`ProRequirements`, `CreditsRequirements`) or pays on the terms
on file (`ActivatePro`, `PurchaseCredits`, `Verify`, `Settle`, `Grant`). `Paid` says of
a call that it settled its payment or was answered with its settlement.

**A2ATasks** (`a2a_rpc.py`). `Open`, `OpenFree`, `Unbound`, `Reject`, `Cancel`,
`Submit`, `Settle`, `Refuse`, `Book`, `Execute`: the task store is written at each
step with what the handler read before its await. `Settled` is `Paid` of `Commerce`.

**PaidRoute** (`main.py`, `city_compliance/routes.py`, `diligence_routes.py`,
`x402_middleware_pilot.py`, `challenge_cache.py`). A route has a kind: "city"
(challenge, validation, settle, work, 502 with the receipt when the work fails),
"pack" (the same, with a work that delivers its failures), "decision" (validation
first, nothing catches a failing work), "demo" (no input, no work) and "gated" (the
middleware: verify, handler, settle, ledger hook). `Challenge` is `get_or_build` with
memory and Redis (`CachedChallenge`); a challenge is told apart by the price it asks,
and `Redeploy` may change the price, which is what makes a cached one stale. The
middleware has no such cache (`GatedChallenge`): until its first `initialize()` of the
process succeeds (`ready`) its routes answer 500, afterwards they need nobody. A row
carries the amount it was booked with: the configured price, or behind the middleware the
settled one. `RowsMatchChain` names what keeps a row away (`Unbooked`) and the one case
in which its amount is another than was paid, a challenge of an older price.

**McpGate** (`mcp_server.py`, `mcp_payments.py`, `city_compliance/mcp_tools.py`). The
SDK's wrapper verifies, lets the tool run, settles behind it and calls the hook: `GateVerifies`, `PaidTool`,
`SettleBehind`, `SettleRefused`, `Hook`. The tool takes a call from the quota and
answers a refusal as an ordinary result (`CheckResults`), so that a refused check is
settled too, and booked if its city is known.

**CityChecks** (`city_compliance/cities/*.py`, `mn_compliance.py`,
`property_due_diligence_agent.py`, `diligence_pack.py`, `cache_warmer.py`). Nineteen
adapters are one table, `Adapters`: which queries run, on which form of the address,
what is asked when nothing came back, which queries name the parcels or buildings they
ask for (`keyed`), whose page is sifted for the address behind the limit (`sifted`), which
have an order (`newest`; the others' rows come in any), how many rows are judged and which
statuses read as active (`reads`). A row is "live", "dead", "alike" (dead, with a status
that has the word "active" in it) or "far" (without a parcel or building, of the eleventh
building, or a text hit for another address). `CityAsk`, `CityHit`, `CityMiss`,
`CityInFlight`, `PortalAnswers`, `PortalFails`, `CheckRaises` and `CheckReports` are a check; `PortalChanges` between
two answers is what the property is about. `VerdictIsWarranted` is relative to what the code
asks, and its exceptions are the code's: Minneapolis asks for no violations when no license
names a parcel (`mn_compliance.py:271`), New York for those of ten buildings
(`nyc.py:123`), Boston cuts its text search to a page and sifts afterwards
(`bos.py:113`), Denver, Austin, Nashville and Montgomery County find "active" in
"Inactive". A diligence pack is a request of several
properties; `WarmerGivesUp` is the cache warmer's timeout.

**Wire** (`x402_services.py`, the facilitator routes of `main.py`). `Challenged`,
`Sign` or `Refuse`, `VerifySigned`, `SettleMoves`, `SettleFails`, `AnswerLost`,
`PayReturns`: the buyer selects under its cap in units of USDC, the seller finds the
signed option among its own again, the buyer's report scales the amount by what the SDK
knows of the asset (`WorthOf`; `Worth` is what an atomic unit is worth, finer or coarser
than USDC's). The seller is this server, a foreign one, or a foreign one that settles
here. A foreign one may report a settlement of its own making (`SellerClaims`) and use
the signature behind its answer (`SellerSettlesLate`).

**MailRail** (`mailrail.py`, `city_compliance/agentmail.py`). `Send` marks the key,
`Dispatch` waits for the provider, `Record` appends to the ledger; `Ingest` and `Tell`
are the inbound mail and the notice it causes. `MailRestart` forgets the keys.

**Demand** (`demand.py`, `ledger_io.py`, `swarm/sovereign.py`). `ChallengeServed`
counts, `SaleBooked` appends and trims, `ReadPage` fills the page cache that a booking
of the same process drops, with the newest `PageLimit` rows (`Newest`); `Funnel`,
`Revenue` and the page are the three reports.

**FeePulse** (`pulse.py`, `tx_decision.py`). `FetchBegins`, `FetchEnds`, `FetchRaises`
are the snapshot under its lock, `Answer` the decision made of it; `NewBlock` moves the
fee by the protocol's rule, in integers, as the projection does.

**Finality** (`finality_check.py`). `AskFinality`, `ReadNode` in every order,
`AnswerFinality`; `Mine`, `Reorg`, `Attest`, `Finalize` in between.

**Probing** (`probe_rate_limit.py`, `main.py`, `mcp_server.py`). `ProbeOverHttp`
goes by the sliding window, `ProbeOverMcp` does not; `ProbeRetryAfter` cuts the wait to
whole seconds of `ProbeSecond` moments; `CardFound`, `CardMissing` walk
the well-known paths.

**OpsEvents** (`ops_events.py`, `os_monitor.py`). `ToolEvent`, `SpendStep`, `Sample`
emit into ring and queues; a listener does `Subscribe`, `Replay`, `Take`, `Heartbeat`,
`Unsubscribe`.

**Qma** (`swarm/qma.py`). `Produce` draws the two answers, `Arthur` groups (`Grouped`,
claim by claim, `Place` being one turn of the loop), judges with the agreement rounded
to three digits as the code rounds it, and keeps the best report; "about the same" is a reflexive and symmetric relation on topics
that need not be transitive.

## 4. The runs

Every run exhausts its state space; deadlock checking is off because the models end
(requests are answered, bounds are used up) and the service idles.

Components that share no state are checked in one run: an `MC*` module extends them
all, a variable `part` chosen initially says which of them moves, and the others stand
still. The behaviours of such a specification are those of its components, one at a
time, so that its state space is their sum and not their product, and an invariant of a
component says the same there as on its own. `MCSwarmRun` joins `SwarmRun` and
`OpsEvents`; `MCCommerce` joins `Commerce`, `MailRail`, `Wire`, `McpGate` and `Qma`;
`MCA2ATasks` joins `A2ATasks` and `CityChecks`; `MCQuotaStore` joins `QuotaStore`,
`Demand`, `FeePulse`, `Finality` and `Probing`.

| run | shows | bounds and why they are enough |
|---|---|---|
| `sale` | the safety of the sale and that it implements `SaleBook` | two purchases, two payments (or one twice), the pinned listing and a sibling, one publisher task, four objects, a facilitator that may omit the tx, one crash, failed append or failed publish. A replay needs two purchases; a stale object needs the listing, its replacement and a sibling; a second publisher task adds only a publish onto a fresh id. `RegistryTheorem` is about any number of both |
| `sale_live` | purchases end, the cataloged listing comes back | one purchase, one task, two crashes or failed publishes: the second can hit the recovery from the first |
| `quota` | quota, credits, rate and month; fee advice; finality | one process, four calls, quota 1 and 2, rate 1 and 2, pack 1, time 0..3 over two months, two raised commands or restarts: the counter, the balance and the window each reach their limit and go beyond. Two askers share a snapshot while blocks of three degrees of fullness are mined up to height six, which is a snapshot, its lifetime and a fetch. Reorganisations below a lag of two, with a window of one |
| `quota_hooks` | a webhook delivered twice to two processes; the funnel and its reports; the probe window | two deliveries of one key and another's; two resources, one made by the swarm, three wallets, two rows kept in Redis and shown on a page, of three that a file may hold, two lives: rows are trimmed, the ledger outgrows the page, counters are forgotten and pages go stale; four probes against a limit of one, with two moments to the second and a window of one second and a half, so that the wait is cut |
| `run` | caps, ledger against chain, price against spend, termination; the event stream | two runs, two priced services and one without, caps that two purchases reach, two days of one month, one fault, one untrue answer of an upstream: midnight falls into a run, while the end of a month is left to `CapsTheorem`; two listeners, a ring of two of which one is replayed, three events, one heartbeat: a listener misses the ring and finds the rest in its queue |
| `commerce_grants` | what is granted was paid, what settles is granted; mails; the wire; the MCP gate; the verifier | four calls, one pro and two pack payments, so that two calls share one, one fault; three letters, two of one key, four sends, two lives; three caps, an asset of each kind (USDC, its like, finer, coarser, unknown), four foreign challenges, two made-up settlements; two tool calls with two payments over a quota of one; two rounds of answers of up to two claims about three topics, and longer ones where a rule tells them apart |
| `a2a_tasks` | artifacts, receipts and books agree with the chain; what a verdict rests on | three messages, two payments, two tasks, one fault; a check in one city of each of seven kinds of adapter from any of three states of its data, six after a change, pages of two rows of which one is shown, one failure or restart; a check and a pack of two that overlap, from empty data, in the three adapters of the fewest queries: what a verdict is made of and how checks overlap are looked at apart, their product is `VerdictTheorem`'s |
| `paid_routes` | delivery, charge, ledger and challenge on each kind of route | three requests, two payments, one route of each kind, two prices, one restart, one fault: two requests can share a signature, the second be refused or answered like the first, while a third gets the stale challenge or the cold start |
| `prune_inflight`, `run_overlap_caps`, `commerce_lockout`, `a2a_city_terms` | the findings below | |

Symmetry is used in safety runs only, over requests, payments, runs or calls that
the specification does not tell apart.

Some properties have two halves that only say something together. `BooksMatchFunds`:
nothing is booked or answered as sold without funds, and nobody is told "sold" about a
tx nobody books. `RegistryIsTrue`: no revenue too much (`RegistryNeverOvercounts`) and
none forgotten of what reached the listed object (`CarryOverKeepsSales`; not the sales
that a rebuild or prune overtook). `FulfilledOnce`: at most one grant, and
"already fulfilled" only when somebody has or had the grant. `DeliveredIsPaid`: an
artifact was paid for, and a completed task has the receipt of such a payment.
`MailIsTrue`: one mail per key and life, and the ledger says what left. A type invariant is proved, not run, for
`SwarmSale`, `QuotaStore` and `PaidRoute`, and part of the inductive invariant of every
other `*Proofs` module.

**Fairness.** `SwarmSale` (`sale_live`), `SwarmRun` and `OpsEvents` (`run`) have
liveness. The event loop runs ready callbacks first come first served, so a handler
that is ready runs; calls to the facilitator and to upstreams end, if only with the
client's timeout (`x402_services.py:608`); the publisher's loop wakes up for ever and
finds a missing listing (`publisher.py:114`). `OpsFairness` is the client of a listener
reading on, which the code cannot force: `ListenersCatchUp` is about those that do.
Nobody has to buy, no listing has to grow stale, no day has to pass and no event has to
happen.

## 5. The proofs

Theorems are about every value of the constants: any number of requests, payments,
products, processes and faults.

- `SwarmSaleProofs`. Every safety property of the sale, on three layers.
  - `TypeCorrect` and `FundsTheorem` hold whatever fails. `BooksMatchFunds` is
    inductive once it is said that the snapshot is as well funded as the registry, and
    that each tx in a guard, in memory or saved, has a claimant: a request that went
    past the guard with it.
  - `ReplayGuard` and `BookTheorem` need a snapshot backend whose writes succeed.
    `LedgerOncePerTx` is not inductive: two requests past the guard could both append.
    The strengthening is `GuardCovers` with `SameGuard`: the tx of every request past
    the guard is in the guard in memory and in the snapshot a crash loads, and at most
    one request per tx is past it. From there `BookStep` maps each step to a step of
    `SaleBook` or to a stutter; a crash stutters because of `SameGuard`.
  - `RegistryTheorem`, under the same assumption. `RegInv` says that the snapshot is
    the registry after every step, that one stretch without awaits runs at a time
    (`Alone`), that an object belongs to one id for as long as a listing, a handler or a
    task holds it (`Owned`), that the task which replaces the pinned listing holds the
    object that is listed and no other works on its id (`Targets`), and that a booked
    sale is with the listed object or with the one being carried over (`Kept`),
    the `orphaned` ones excepted: the theorem bounds what is lost, it does not say that
    nothing is.
- `QuotaStoreProofs`, on two modules.
  - `QuotaTypeCorrect` for any store. `CountedTheorem`, `FreeQuotaTheorem` and
    `CreditsTheorem` for one process on Redis, which is what a deployment runs
    (`Dockerfile`, one uvicorn process). The strengthening says what the call in
    progress has read and what it has already written.
  - `FulfilledTheorem` for any number of processes on one Redis: a key is marked by the
    delivery that took it, before it grants, and no other delivery takes a marked key.
  - `RateTheorem` for one process, on Redis or in memory, until something raises or
    restarts: what the window keeps of an agent counts its calls from any moment on that
    is not behind the window, and the call that was judged has room in it.
  - `ProbeTheorem`, of the same kind, about `ProbeSpec`: whose kept stamps count the
    requests of every window that a new one could be in. For the wait it is shown that
    cutting it to whole seconds, and up to one, moves it by less than a second back or at
    most one on (`NearTold`), and that a later refusal finds the window full again only
    with a request that was let through behind the first one.
- `PaidRouteProofs`. `RouteTypeCorrect`, `DeliveredTheorem`, `NoChargeTheorem`,
  `RowsTheorem`, `NotRechallengedTheorem` from one strengthening: a request that was
  told of a settlement carries that payment, signed at the price it asked, has good input
  and is behind the settlement, gone, or a 402 whose answer was lost; only good input is
  on its way to a settlement; a request behind the challenge was asked the configured
  price or is marked `stale`; a row is there for deliveries only. No step of it supposes
  that a repeated settle fails. `OutageTheorem` (an action property) from another:
  without a fault, Redis has whatever a process cached or a request was served, and
  before the first restart a middleware that has served a challenge is `ready`.
- `SwarmRunProofs`, about `Spec` and `OpsSpec`.
  - `LedgerTheorem`: a payment without a row is the head of the queue of a run that is
    waiting for it, or in `denied`; a failed append or a crash leaves one behind, too, and
    is counted as a fault. A row without a payment is in `claimed`. Nothing is supposed of
    how many answers are untrue: the proof takes `MaxUntrue` for any number.
  - `CapsTheorem`: as long as no two runs were in flight together, the ledger has room
    on every day to come for all the buying run has still to pay. `Review` makes it so by
    reserving; a payment moves its amount from the queue to the rows; midnight only adds
    room.
  - `RepaysTheorem`: a run that buys holds exactly its rows of the ledger, none is added
    after it composed, and `PriceOf` is worked out for every markup, target and margin of
    four decimals, its roundings to an atomic unit included.
  - `StreamTheorem` and `AlertsTheorem`: what was sent, what is left to replay and what
    is queued are the events since a listener began, and the ring is the last of all
    events; the kept spends add up to the purchases of every window that can still be
    asked for, so that dropping the older ones changes no sum; each level alert begins
    where the one before it ended.
- `A2ATasksProofs`, about `Spec` and `CitySpec`.
  - `DeliveredTheorem` and `BooksTheorem`: a call that is past the facilitator has settled
    its payment or is in `echoed` with a payment that has settled, and holds a receipt of
    its own through the skill's await, whatever other handlers write to the task meanwhile.
  - `DeliveryTheorem`: a task is what its calls left on it; while no two payments on it
    overlap, only one of its calls runs, and the receipts it read before the skill are
    those of all that have ended.
  - `VerdictTheorem` for all nineteen adapters: each answer a check has gathered is that
    of a state the portals were in since it began, in some order, cut to a page and sifted
    as the adapter does it, and what the adapter makes of the answers is warranted by one
    of these. `FreshTheorem`: a cached report was made within
    one fetch of its birth, and is served within one lifetime of that.
- `CommerceProofs`, about `Spec`, `GateSpec`, `MailSpec` and `WireSpec`.
  - `EntitledTheorem` and `GrantedTheorem`: what an agent has and has spent of credits
    is at most the sum of the packs of its calls that ended and were told of a settlement,
    be it their own or repeated to them, and exactly this sum while there is no fault. One call ends at a time, so that a grant adds its pack to
    both sides.
  - `PaidToolTheorem`: the place of a call bounds what it can have by then, and a spent
    payment belongs to the call that carries it, past its settlement.
  - `MailTheorem`: a key that arrived in this life is remembered or is the call under
    way, and nobody asks for what is remembered; row, recipient and answer agree but for
    keys a fault touched.
  - `SpendTheorem` and `OfferTheorem`: the signed option is one of the challenge and
    within the cap from the signature to the report and behind it, so that what moves is
    within the cap whoever settles and whatever is reported; the report of a call no answer
    of which was made up is that of the settlement. That the facilitator routes find it
    again is proved for challenges in which no two options share network and asset
    (`Unambiguous`), as the property states it.
- `ReportProofs`, about `FinalitySpec`, `FeeSpec`, `DemandSpec` and `QmaSpec`.
  - `FinalityTheorem`: if the transaction was read in block b, it is still there, or b
    is gone, or the block now at b was mined since the check was asked for; a block of
    the last kind is too young to be finalized before the check ends. It rests on
    `Window < Lag`: the reads run at once with a timeout of seconds, and finality takes
    minutes.
  - `AdviceTheorem`: the base fee grows by an eighth per block at most, and (9/8)^5 is
    less than 2: twice the reported fee covers five full blocks unless reporting rounds
    a large part of the fee away. Hence its hypothesis `FeesLarge`, that no fee was below
    eight reporting units; a unit is a millionth of a gwei (`pulse.py:231`), so that this
    is a base fee of 8000 wei, far below any fee a network asks. The `quota` run needs no
    such hypothesis: from 16 units, empty blocks do not bring a fee below eight before
    height seven.
  - `FunnelTheorem` and `ReportsTheorem`: the rows have rising stamps, so that counting
    rows is counting sales; each look that is counted in the views is used by one sale at
    most; the marker is the moment at which the counters began. A page is as long as the
    ledger or the limit and row by row its end reversed.
  - `AcceptedTheorem`: a claim joins the first group that it fits, so that two claims of
    one topic are in one group although likeness is not transitive; an aligned group has
    both authors and one sign; and whatever is not aligned needs four aligned groups for
    80%, the rounding included.
- `FoldLemmas`. The sums, folds and filters of the models are functions defined by
  recursion over the subsets of a finite set or over 0..n. That such a function exists
  and is the only one is proved here by a smallest counterexample (the library's
  `WFMin`), since the library's induction theorems take an operator; `SeqInduction`
  does the same for a set of sequences. On it rest the facts about the sum over a set
  that grows and about `Keep`; `FoldSet`, `FoldLeft` and `MapThenSumSet` are brought to
  such functions where a component uses them.

Each theorem is about the component's own specification (`Spec` or the one named), whose
steps are the part of the run's specification that moves that component. The constants
are as general as each module's ASSUME says. Those worth naming: sets that something is
summed or counted over are finite (`Calls`, `Runs`, `Services`, `Resources`, `Probes`);
a name for "nobody" is not that of a call, task or client; an atomic unit of every asset
is worth something; and the city codes are those of the table `Adapters`.
A type invariant is part of every strengthening.

Only model-checked: the four liveness properties (`EveryRequestAnswered`,
`PinnedComesBack`, `RunsEnd`, `ListenersCatchUp`), for fairness and ENABLED are out of
the prover's reach. Every other property of a passing run is the subject of a theorem.

## 6. What the model found

Four runs show where the code does not do what it says:

- `prune_inflight`: `prune_superseded` looks at revenue booked so far and drops a
  sibling listing whose purchase is in flight; the sale is then booked against an
  object the registry no longer has.
- `run_overlap_caps`: two runs reviewed against the same ledger totals breach the
  daily cap together.
- `commerce_lockout`: the refusal of an agent out of quota names the tool to buy
  credits with, and that tool is behind the same quota.
- `a2a_city_terms`: the payment terms of every city skill are the last city's,
  because the lambda reads the loop's variables when it is called.

Hazards no property covers, since the code has nothing that would hold:

- a failed snapshot write is logged and swallowed (`swarm/registry.py:119`): the replay
  guard is then in memory only. The theorems name the assumption; the runs have no
  "save" fault;
- two processes on one Redis GET and SET the month counter (`commerce.py:193`); a call
  paid with a credit is let through before the rate window is looked at
  (`commerce.py:198`);
- the spend ledger books the catalog's price while the chain moves what the upstream's
  402 asks (`swarm/roles.py:222`);
- a sale whose settle await overlaps a rebuild of its listing is credited to the replaced
  object: the ledger has it, the registry never shows it, although the rebuild is said to be
  "carrying over existing revenue" (`publisher.py:92`); a crash between the save that lists
  a rebuilt product and the save that carries its revenue over resets that revenue (both
  are `orphaned` in `SwarmSale`);
- a repeated settle that the facilitator answers: commerce, A2A and the paid routes grant
  or deliver again for the same payment (section 3);
- a 404 or 405 behind a payment: "no 402 challenge was issued (nothing paid)"
  (`roles.py:199`) is the upstream's word, and the POST may be paid again;
- a check of Minneapolis whose licenses name no parcel reports `licensed_clean` without
  having asked for violations (`mn_compliance.py:271`); one of Boston reports
  `no_violations_found` when the hits are behind the page of its text search
  (`bos.py:113`); New York leaves out all buildings but ten (`nyc.py:123`); an "Inactive"
  license is an active one to four adapters;
- a spend that dies before its clamp leaves the balance at -1; `pay_and_fetch` pays
  without the warden and without a spend row; a run whose append raises lists no purchases.

Seen while modelling, without a run of their own:

- a run's ceiling filters discovery only: when nothing is within it the page comes back
  unfiltered, and configured upstreams pass it, although the MCP field calls it a ceiling
  "for any paid upstream inputs";
- `run_autonomous_synthesis` (`orchestrator.py:322`) calls a keyword-only function by
  position; a test is its only caller;
- `/demo/paid` caches its challenge by the host asked for under one name, so that during
  an outage one host may be given the other's header;
- `city.check` settles for refusals of the quota, unknown cities, bad addresses and
  silent portals, and its "paid" alert leaves before the settlement;
- the pack's `_verdict_bucket` (`diligence_pack.py:192`) knows one adapter's verdicts
  and `risk_summary` looks past errors; San Diego's failed query is cached as
  unlicensed;
- `send_agent_mail` documents statuses other than those it returns
  (`mailrail.py:112`); a key is marked whether or not the mail left;
- `/telemetry` imports a function `ledger_io` does not have when there is no Redis; the
  warmer's copy of the pulse is read by nothing; the decision's `data_age_s`
  (`tx_decision.py:41`) is not in its answer;
- `discover_services` cuts a cap to an integer and takes an option without an amount
  for free; the offline fallback names one network's USDC for another; the facilitator
  route takes the first option of a challenge; a cap is compared in atomic units
  whatever the asset's decimals, so that one coarser than USDC's may cost more than the
  cap is worth;
- `/probe` cuts the wait it names to whole seconds, so that a client that waits just that
  long may still be refused;
- the verifier's validators see the first wording of a group only, a contradiction
  across two groups is not noticed, and two witnesses of one id are always aligned; the
  share of aligned groups is rounded to three digits before it is compared with 0.80
  (`qma.py:281`), so that 323 groups of 404 are accepted where the docstring asks for at
  least 80% (`qma.py:269`).

How far some properties reach:

- `CreditsConserved` is about one process, in which the balance is never taken below zero
  and the clamp (`commerce.py:427`) is idle; it says nothing of two writers;
- `FulfilledOnce` is about the webhook's own deliveries, not about who may call it;
- `ListedRepaysSpend` takes ratios of four decimals, which every default of the settings
  has; the code's floats are rounded once, to the same atomic unit;
- `ServedIsFresh` takes `FetchMax` for a bound on a whole check, where the clients' timeouts
  bound each read of it: a portal that trickles its answer may make a check longer;
- `SettledNotRechallenged` allows the fee decision its 500 behind a settlement, which is
  the code's (`main.py:1714`); `RowsMatchChain` names the row that is then missing.

## 7. Not modelled

The parts named at the end of section 1. Also: the text of reports and mails; the
checks of network, payee and asset, which depend on configuration alone; the parsing of
an address but for whether it is understood; amounts in the reports, which are counted
as rows; a file ledger on a host without a disk, which loses its rows with the host.
Run history, source scores, the sample history of the host and the statistics of the
warmer are read by nobody else. `Commerce`, `McpGate` and `Probing` take the quota as a
number or leave it out, `PaidRoute` takes the work of a route as something that may
fail: `QuotaStore` and `CityChecks` are the models of these. Timers are
nondeterministic steps except where time is what the property is about (`QuotaStore`,
`CityChecks`, `Demand`, `FeePulse`, `Finality`, `Probing`, the spend window of
`OpsEvents`).

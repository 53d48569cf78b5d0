------------------------------- MODULE Demand -------------------------------
(***************************************************************************)
(* The funnel: what is counted when a resource answers 402, what the       *)
(* revenue ledger holds, and the three reports made of both: views and     *)
(* sales of a resource, the split of the revenue, and the ledger page.     *)
(*                                                                         *)
(* Counters and ledger are in Redis, or the counters are in memory and the *)
(* ledger in a file; a restart then forgets the counters alone.            *)
(***************************************************************************)
EXTENDS Integers, Sequences, FiniteSetsExt, SequencesExt, Filters

CONSTANTS
    Resources,       \* what is sold
    Composites,      \* those of them that swarm runs made
    Payers,          \* wallets
    Wallets,         \* the operator's wallets in the configuration
    Known,           \* the operator's own key, configured or not
    NoPayer,         \* the facilitator did not say who paid
    NoTime,
    MaxRows,         \* rows that Redis keeps
    PageLimit,       \* rows of read_ledger_rows, unless asked for all
    DemandMaxNow, DemandMaxFaults, DemandMaxLives      \* bounds

ASSUME DemandAssumption ==
    /\ IsFiniteSet(Resources) /\ Composites \subseteq Resources
    /\ Wallets \cup Known \subseteq Payers
    /\ NoPayer \notin Payers /\ NoTime \notin Nat
    /\ {MaxRows, PageLimit} \subseteq Nat \ {0}
    /\ {DemandMaxNow, DemandMaxFaults, DemandMaxLives} \subseteq Nat

VARIABLES
    inRedis,         \* REDIS_URL is set
    dNow,            \* the clock; no two events have one stamp
    views,           \* demand:402, and how many of them by clients that can pay
    since,           \* demand:402:since
    sales,           \* the revenue ledger: [res, payer, at, run, catalog]
    listed,          \* the composites in the registry
    page,            \* _ledger_cache: the rows served, or nothing
    looked,          \* whose last look at what was counted since the marker
    began,           \* when the counters that are there now began to count
    unseen,          \* the stamps of sales that no look of their buyer precedes
    dLife, dFaults

demandVars == <<inRedis, dNow, views, since, sales, listed, page, looked, began, unseen,
                dLife, dFaults>>

NoPage == [rows |-> <<>>, cached |-> FALSE]
NoViews == [r \in Resources |-> [all |-> 0, able |-> 0]]

DemandInit ==
    /\ inRedis \in BOOLEAN
    /\ dNow = 0
    /\ views = NoViews /\ since = NoTime
    /\ sales = <<>> /\ listed = Composites
    /\ page = NoPage
    /\ looked = {} /\ began = NoTime /\ unseen = {}
    /\ dLife = 1 /\ dFaults = 0

Clock == dNow < DemandMaxNow /\ dNow' = dNow + 1

\* Mutant: the marker is moved by every challenge.
Marker_Last == dNow

\* The first challenge sets the marker, later ones leave it.
Marker == IF since = NoTime THEN dNow ELSE since

\* record_challenge: a 402 for a buyer or a crawler.  Redis may fail, which only
\* loses the count.
ChallengeServed ==
    /\ Clock
    /\ \E r \in Resources, p \in Payers, able \in BOOLEAN :
        \/ /\ views' = [views EXCEPT ![r].all = @ + 1, ![r].able = IF able THEN @ + 1 ELSE @]
           /\ since' = Marker
           /\ looked' = looked \cup {<<p, r>>}
           /\ began' = IF began = NoTime THEN dNow ELSE began
           /\ UNCHANGED dFaults
        \/ /\ inRedis /\ dFaults < DemandMaxFaults /\ dFaults' = dFaults + 1
           /\ UNCHANGED <<views, since, looked, began>>
    /\ UNCHANGED <<inRedis, sales, listed, page, unseen, dLife>>

Trimmed(s) ==
    IF inRedis /\ Len(s) > MaxRows THEN SubSeq(s, Len(s) - MaxRows + 1, Len(s)) ELSE s

\* Mutant: an append leaves the cached page alone.
Invalidated_Kept == page

\* An append drops the cached page.
Invalidated == NoPage

\* record_revenue behind a settlement, or a catalog's placeholder row.
SaleBooked ==
    /\ Clock
    /\ \E r \in Resources, p \in Payers, told, catalog \in BOOLEAN :
        /\ sales' = Trimmed(Append(sales, [res |-> r, payer |-> IF told THEN p ELSE NoPayer,
                                           at |-> dNow, run |-> r \in Composites,
                                           catalog |-> catalog]))
        /\ looked' = looked \ {<<p, r>>}
        /\ unseen' = IF <<p, r>> \in looked THEN unseen ELSE unseen \cup {dNow}
    /\ page' = Invalidated
    /\ UNCHANGED <<inRedis, views, since, listed, began, dLife, dFaults>>

\* What read_ledger_rows gives for display: newest first, up to the limit.
Newest(s) ==
    [i \in 1 .. (IF Len(s) > PageLimit THEN PageLimit ELSE Len(s)) |-> s[Len(s) + 1 - i]]

\* GET /ledger/revenue fills the page; within its ten seconds it is served again.
ReadPage ==
    /\ ~page.cached
    /\ page' = [rows |-> Newest(sales), cached |-> TRUE]
    /\ UNCHANGED <<inRedis, dNow, views, since, sales, listed, looked, began, unseen, dLife, dFaults>>

PageExpires ==
    /\ page.cached /\ page' = NoPage
    /\ UNCHANGED <<inRedis, dNow, views, since, sales, listed, looked, began, unseen, dLife, dFaults>>

\* The registry prunes a composite.
Unlist ==
    /\ \E r \in listed : listed' = listed \ {r}
    /\ UNCHANGED <<inRedis, dNow, views, since, sales, page, looked, began, unseen, dLife, dFaults>>

\* A restart: what is in memory is gone, and on a host without a disk the file too.
DemandRestart ==
    /\ dLife < DemandMaxLives /\ dLife' = dLife + 1
    /\ page' = NoPage
    /\ IF inRedis THEN UNCHANGED <<views, since, looked, began, sales>>
       ELSE /\ views' = NoViews /\ since' = NoTime /\ looked' = {} /\ began' = NoTime
            /\ sales' \in {sales, <<>>}
    /\ UNCHANGED <<inRedis, dNow, listed, unseen, dFaults>>

DemandNext ==
    \/ ChallengeServed \/ SaleBooked \/ ReadPage \/ PageExpires \/ Unlist \/ DemandRestart

-----------------------------------------------------------------------------
(* The reports. *)

\* classify_operator_settle: a placeholder row and the operator's own key before the
\* configured wallets; unknown without a payer or without wallets.
Class(row) ==
    CASE row.catalog \/ row.payer \in Known -> "operator"
      [] row.payer = NoPayer \/ Wallets = {} -> "unknown"
      [] row.payer \in Wallets -> "operator"
      [] OTHER -> "external"

\* A row of the ledger.
SaleRows == [res : Resources, payer : Payers \cup {NoPayer}, at : Nat, run : BOOLEAN,
             catalog : BOOLEAN]

Of(r) == Keep(sales, {row \in SaleRows : row.res = r})
InWindow(r) == Keep(Of(r), {row \in SaleRows : since # NoTime /\ row.at >= since})
Sold(rows, class) == Keep(rows, {row \in SaleRows : Class(row) = class})

\* build_report, for one resource.
Funnel(r) ==
    [served |-> views[r].all, qualified |-> views[r].able,
     settled |-> Len(Of(r)), window |-> Len(InWindow(r)),
     external |-> Len(Sold(InWindow(r), "external")),
     operator |-> Len(Sold(InWindow(r), "operator")),
     unknown |-> Len(Sold(InWindow(r), "unknown"))]

\* build_revenue_report: the swarm's rows by the listing or by the run.
SwarmRow(row) == row.res \in listed \/ row.run
Revenue(class) ==
    [storefront |-> Len(Sold(sales, class)),
     swarm |-> Len(Keep(Sold(sales, class), {row \in SaleRows : SwarmRow(row)}))]

-----------------------------------------------------------------------------
(* Properties. *)

Stranger(row) == row.payer \in Payers \ (Wallets \cup Known) /\ ~row.catalog

\* The funnel compares sales with the views of the same time: the window holds
\* exactly the sales made since the counters that are there began to count, over
\* restarts that forget the counters but not the ledger; the three classes make it
\* up, strangers only are external, and there are no more of them than views but
\* for those who bought without a look.
FunnelIsHonest ==
    \A r \in Resources :
        LET f == Funnel(r)
            window == {row \in ToSet(sales) : row.res = r /\ began # NoTime /\ row.at >= began}
            customers == {row \in window : Stranger(row) /\ Wallets # {}}
        IN  /\ f.window = Cardinality(window)
            /\ f.window = f.external + f.operator + f.unknown
            /\ f.external = Cardinality(customers)
            /\ f.external <= f.served + Cardinality({row \in customers : row.at \in unseen})
            /\ f.qualified <= f.served

\* The reports agree on the ledger, through pruned listings, restarts and trims: what
\* the swarm sold stays the swarm's when its listing is gone; the funnels have every
\* sale; and a cached page, whose classes are told row by row, never shows more of a
\* class than the revenue report counts, ends with the newest sale, and shows as many
\* unless the ledger has outgrown the limit of the page.
ReportsAgree ==
    /\ Revenue("external").swarm + Revenue("operator").swarm + Revenue("unknown").swarm
          = Len(Keep(sales, {row \in SaleRows : row.res \in Composites}))
    /\ MapThenSumSet(LAMBDA r : Funnel(r).settled, Resources) = Len(sales)
    /\ page.cached =>
          /\ sales # <<>> => page.rows # <<>> /\ page.rows[1] = sales[Len(sales)]
          /\ \A class \in {"external", "operator", "unknown"} :
                LET shown == Len(Sold(page.rows, class))
                    all == Revenue(class).storefront
                IN  shown <= all /\ (Len(sales) <= PageLimit => shown = all)
=============================================================================

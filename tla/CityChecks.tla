----------------------------- MODULE CityChecks -----------------------------
(***************************************************************************)
(* The property checks of the city network: nineteen adapters ask the      *)
(* cities' open-data portals about an address, turn the rows into a        *)
(* verdict and keep the report in memory for a quarter of an hour.  A      *)
(* diligence pack runs several checks one after the other and sums them up.*)
(*                                                                         *)
(* The portals change while they are asked, so that a verdict made of two  *)
(* answers may join two moments.  A row is told apart by what the adapters *)
(* read in it: "live", an open case or an active registration; "dead", one *)
(* that is not; "alike", a dead one whose status has the word all the same *)
(* ("Inactive"); "far", one that the check does not reach: a registration  *)
(* without a parcel or building to ask by, a case of a building that is    *)
(* not asked for, a text hit for another address.                          *)
(***************************************************************************)
EXTENDS Integers, Sequences, SequencesExt, Filters

CONSTANTS
    CityCodes,     \* cities looked at, out of DOMAIN Adapters
    CityReqs,      \* requests, each made once
    CityKeys,      \* addresses: "full" has a borough or direction, "bare" has
                   \* none, "bad" is one that an adapter which parses
                   \* addresses does not understand
    CityWarmers,   \* those of the cache warmer, which asks for sample addresses
    CityPack,      \* properties in each request; a single check is a pack of one
    CityRows,      \* what a portal may hold for a query: sequences of rows
    CityStart,     \* those it may hold at first
    Shown, Page,   \* rows of a page that are shown, rows that are fetched
    CityTTL,       \* _CACHE_TTL
    FetchMax,      \* longest a check takes before its client times out
    CityMaxNow, CityMaxChanges, CityMaxFaults     \* bounds

ASSUME CityAssumption ==
    /\ CityKeys \subseteq {"full", "bare", "bad"} /\ CityPack \in [CityReqs -> Nat \ {0}]
    /\ CityWarmers \subseteq CityReqs
    /\ CityRows \subseteq Seq({"live", "dead", "alike", "far"}) /\ CityStart \subseteq CityRows
    /\ Shown \in Nat /\ Page \in Nat \ {0} /\ Shown <= Page
    /\ {CityTTL, FetchMax, CityMaxNow, CityMaxChanges, CityMaxFaults} \subseteq Nat

VARIABLES
    city,         \* the adapter that is asked
    portal,       \* the city's data: query -> rows
    cityCache,    \* _cache: address -> entries, none or one
    cityReq,      \* the requests
    cityNow, cityChanges, cityFaults

cityVars == <<city, portal, cityCache, cityReq, cityNow, cityChanges, cityFaults>>

-----------------------------------------------------------------------------
(* The adapters.  One is a record of
     parses    whether an address it cannot parse is refused
     eager     queries started on entry, side by side, for this kind of address
     reg       the registration queries, each asked when those before it were empty
     cases     the case queries, with and without a registration to ask by
     boarded   the query for condemned buildings, likewise
     lenient   queries whose failure counts as no rows
     keyed     queries that name the parcels or buildings they ask for
     sifted    queries whose page is sifted for the address
     newest    queries that ask for the newest rows first; others have no order
     regBy     "any" row registers, or a "status" that says so
     reads     the rows whose status is read as active
     casesBy   "any" row is an open case, or a "status" that says so
     judged    rows of the page that are looked at                           *)

Which(s, t) == [joined \in BOOLEAN |-> IF joined THEN s ELSE t]
Either(s) == Which(s, s)
Plain == [parses |-> FALSE, eager |-> [full |-> {}, bare |-> {}], reg |-> <<>>,
          cases |-> Either(<<>>), boarded |-> Either(<<>>), lenient |-> {},
          keyed |-> {}, sifted |-> {}, newest |-> {},
          regBy |-> "status", reads |-> {"live"}, casesBy |-> "status", judged |-> Page]

\* One query for the registration.
Registry(q, by) == [Plain EXCEPT !.eager = [full |-> {q}, bare |-> {q}],
                                 !.reg = <<q>>, !.regBy = by]

\* One query for the cases.
Cases(by) == [Plain EXCEPT !.eager = [full |-> {"cases"}, bare |-> {"cases"}],
                           !.cases = Either(<<"cases">>), !.casesBy = by, !.judged = Shown]

\* A strict query and a wider one, side by side; the wider one counts when the
\* strict one is empty.
StrictThenWide(by) ==
    [Cases(by) EXCEPT !.eager = [full |-> {"cases", "wide"}, bare |-> {"cases", "wide"}],
                      !.cases = Either(<<"cases", "wide">>)]

\* The registrations are looked up in the borough and without it, and the cases by
\* the first ten buildings found, or by the address when no registration names one.
nyc == [Plain EXCEPT !.parses = TRUE,
                     !.eager = [full |-> {"reg", "wideReg", "wide"}, bare |-> {"reg", "wide"}],
                     !.reg = <<"reg", "wideReg">>, !.regBy = "any",
                     !.cases = Which(<<"cases">>, <<"wide">>),
                     !.keyed = {"cases"}, !.newest = {"cases", "wide"},
                     !.judged = Shown]
\* The wider query is a text search, of whose page the hits at the address count.
bos == [StrictThenWide("status") EXCEPT !.parses = TRUE, !.sifted = {"wide"}]
chi == [StrictThenWide("status") EXCEPT !.newest = {"cases", "wide"}]
kc == StrictThenWide("any")
\* The wider query leaves out the direction, if the address has one.
lax == [StrictThenWide("any") EXCEPT !.parses = TRUE, !.eager["bare"] = {"cases"}]
sf == [Cases("status") EXCEPT !.parses = TRUE, !.newest = {"cases"}]
phi == [Cases("status") EXCEPT !.newest = {"cases"}]
gain == Cases("status")
\* Licenses and active violations, gathered.
moco == [Registry("reg", "status") EXCEPT
            !.eager = [full |-> {"reg", "cases"}, bare |-> {"reg", "cases"}],
            !.cases = Either(<<"cases">>), !.casesBy = "any", !.judged = Shown,
            !.reads = {"live", "alike"}, !.newest = {"cases"}]
sea == Registry("reg", "status")
orl == Registry("reg", "status")
\* "active" is looked for anywhere in the status.
den == [Registry("reg", "status") EXCEPT !.reads = {"live", "alike"}]
atx == den
bna == den
nola == Registry("reg", "any")
\* A response without "features", which is how the server reports an error, is no rows.
sd == [Registry("reg", "any") EXCEPT !.lenient = {"reg"}]
\* Placeholders that ask nobody.
mia == Plain
atl == Plain
\* The licenses first; by the parcels they name the violations and the condemned list,
\* side by side; when they name none the condemned list by address, and no violations.
\* The list is optional.
mn == [Registry("reg", "any") EXCEPT
          !.cases = Which(<<"cases">>, <<>>),
          !.boarded = Which(<<"boarded">>, <<"wideBoarded">>),
          !.keyed = {"cases", "boarded"},
          !.lenient = {"boarded", "wideBoarded"}]

Adapters ==
    [nyc |-> nyc, bos |-> bos, chi |-> chi, kc |-> kc, lax |-> lax, sf |-> sf, phi |-> phi,
     gain |-> gain, moco |-> moco, sea |-> sea, den |-> den, orl |-> orl, atx |-> atx,
     bna |-> bna, nola |-> nola, sd |-> sd, mia |-> mia, atl |-> atl, mn |-> mn]
Adapter == Adapters[city]

ASSUME CityCodesAssumption == CityCodes \subseteq DOMAIN Adapters

Queries == {"reg", "wideReg", "cases", "wide", "boarded", "wideBoarded"}
Asked(a) == ToSet(a.reg) \cup
            UNION {ToSet(a.cases[b]) \cup ToSet(a.boarded[b]) : b \in BOOLEAN}

-----------------------------------------------------------------------------
(* A check in progress: got holds the answers, a function of queries; failed   *)
(* the queries that raised; seen what the portal held since the check began.   *)

\* Whether this address has the query, and those of the alternatives that it has.
Has(key, q) == key = "full" \/ ~(q = "wideReg" \/ (city = "lax" /\ q = "wide"))
Alternatives(s, key) == {q \in ToSet(s) : Has(key, q)}

\* The first n rows.
FirstRows(rows, n) == SubSeq(rows, 1, IF Len(rows) < n THEN Len(rows) ELSE n)

\* The first alternative that is not known to be empty: the one awaited, or the
\* one that decides.
CurrentQuery(s, key, got) ==
    LET open == {i \in DOMAIN s : Has(key, s[i]) /\ ~(s[i] \in DOMAIN got /\ got[s[i]] = <<>>)}
    IN  {s[i] : i \in {j \in open : \A k \in open : j <= k}}

\* The rows the alternatives gave.
RowsOf(s, key, got) ==
    LET q == CurrentQuery(s, key, got) IN IF q = {} THEN <<>> ELSE got[CHOOSE x \in q : TRUE]

\* Whether a registration was found that names a parcel or a building to ask by.
Near == {"live", "dead", "alike"}
Joined(key, got) == ToSet(RowsOf(Adapter.reg, key, got)) \cap Near # {}

\* The queries whose answer the check now waits for.
Awaited(key, got) ==
    LET reg == CurrentQuery(Adapter.reg, key, got)
        joined == Joined(key, got)
    IN  IF ~(reg \subseteq DOMAIN got) THEN reg
        ELSE (CurrentQuery(Adapter.cases[joined], key, got) \cup
              CurrentQuery(Adapter.boarded[joined], key, got)) \ DOMAIN got

\* The verdict: what the report claims of the registration and of the cases.
Judge(rows) == FirstRows(rows, Adapter.judged)
Verdict(key, got) ==
    LET regs == RowsOf(Adapter.reg, key, got)
        registered == regs # <<>>
        joined == Joined(key, got)
        rows == RowsOf(Adapter.cases[joined], key, got)
        \* New York: without a registration any case counts.
        anyCase == Adapter.casesBy = "any" \/ (city = "nyc" /\ ~registered)
        found == IF anyCase THEN rows # <<>> ELSE "live" \in ToSet(Judge(rows))
    IN  [reg |-> IF Adapter.reg = <<>> THEN "unasked" ELSE IF ~registered THEN "none"
                 ELSE IF Adapter.regBy = "any" \/ ToSet(regs) \cap Adapter.reads # {}
                      THEN "active" ELSE "lapsed",
         joined |-> joined,
         cases |-> IF Adapter.cases[TRUE] = <<>> THEN "unasked" ELSE IF found THEN "open"
                   ELSE IF rows # <<>> THEN "closed" ELSE "none",
         boarded |-> RowsOf(Adapter.boarded[joined], key, got) # <<>>]

-----------------------------------------------------------------------------
CityInit(c) ==
    /\ city = c
    /\ portal \in [Asked(Adapters[c]) -> CityStart]
    /\ cityCache = [k \in CityKeys |-> {}]
    /\ cityReq = [r \in CityReqs |-> [st |-> "idle"]]
    /\ cityNow = 0 /\ cityChanges = 0 /\ cityFaults = 0

CityFault == cityFaults < CityMaxFaults /\ cityFaults' = cityFaults + 1

\* A request for the property at this address, or for a pack of them.
CityAsk(r) ==
    /\ cityReq[r].st = "idle"
    /\ \E k \in {x \in CityKeys : x = "bad" => Adapter.parses} :
          cityReq' = [cityReq EXCEPT ![r] = [st |-> "next", key |-> k, left |-> CityPack[r],
                                             items |-> {}]]
    /\ UNCHANGED <<city, portal, cityCache, cityNow, cityChanges, cityFaults>>

\* The item is done: the next one, or the answer.
ItemDone(r, item) ==
    cityReq' = [cityReq EXCEPT ![r] =
        [st |-> IF @.left > 1 THEN "next" ELSE "ended", key |-> @.key, left |-> @.left - 1,
         items |-> @.items \cup {item}]]

Refused == [kind |-> "invalid_address"]
Unavailable == [kind |-> "error"]

\* Mutant: a hit makes the entry young again.
CityHit_Restamps(r) ==
    /\ cityReq[r].st = "next"
    /\ \E e \in cityCache[cityReq[r].key] :
        /\ cityNow - e.at <= CityTTL
        /\ ItemDone(r, [e.report EXCEPT !.served = cityNow])
        /\ cityCache' = [cityCache EXCEPT ![cityReq[r].key] = {[e EXCEPT !.at = cityNow]}]
    /\ UNCHANGED <<city, portal, cityNow, cityChanges, cityFaults>>

\* check_property finds a report that is young enough.
CityHit(r) ==
    /\ cityReq[r].st = "next"
    /\ \E e \in cityCache[cityReq[r].key] :
        /\ cityNow - e.at <= CityTTL
        /\ ItemDone(r, [e.report EXCEPT !.served = cityNow])
    /\ UNCHANGED <<city, portal, cityCache, cityNow, cityChanges, cityFaults>>

\* It finds none: an address it cannot parse is refused, and not remembered; else
\* the first queries go out.  A placeholder reports at once.
CityMiss(r) ==
    /\ cityReq[r].st = "next"
    /\ \A e \in cityCache[cityReq[r].key] : cityNow - e.at > CityTTL
    /\ IF cityReq[r].key = "bad"
       THEN ItemDone(r, Refused)
       ELSE cityReq' = [cityReq EXCEPT ![r] =
                [st |-> "fetching", key |-> @.key, left |-> @.left, items |-> @.items,
                 got |-> <<>>, failed |-> {}, born |-> cityNow, seen |-> {portal}]]
    /\ UNCHANGED <<city, portal, cityCache, cityNow, cityChanges, cityFaults>>

\* The queries in flight: those started on entry, and those now awaited.
CityInFlight(r) ==
    LET q == cityReq[r]
        kind == IF q.key = "full" THEN "full" ELSE "bare"
    IN  (Adapter.eager[kind] \cup Awaited(q.key, q.got)) \ (DOMAIN q.got \cup q.failed)

\* The answers and one more.
With(got, q, rows) == [x \in DOMAIN got \cup {q} |-> IF x = q THEN rows ELSE got[x]]

\* The rows a query asks for, in an order in which a portal may give them.
AskedFor(q, rows) == IF q \in Adapter.keyed THEN Keep(rows, Near) ELSE rows
Ordered(q, rows) ==
    IF q \in Adapter.newest THEN {rows}
    ELSE {[i \in DOMAIN rows |-> rows[f[i]]] : f \in Bijection(DOMAIN rows, DOMAIN rows)}

\* What the check makes of a page of them.
Taken(q, page) == IF q \in Adapter.sifted THEN Keep(page, Near) ELSE page

Answers(q, rows) == {Taken(q, FirstRows(s, Page)) : s \in Ordered(q, AskedFor(q, rows))}

\* A portal answers with a page of its rows.
PortalAnswers(r) ==
    /\ cityReq[r].st = "fetching"
    /\ \E q \in CityInFlight(r) : \E rows \in Answers(q, portal[q]) :
          cityReq' = [cityReq EXCEPT ![r].got = With(@, q, rows)]
    /\ UNCHANGED <<city, portal, cityCache, cityNow, cityChanges, cityFaults>>

\* Mutant: a query that failed found nothing.
PortalFails_Empty(r) ==
    /\ cityReq[r].st = "fetching" /\ CityFault
    /\ \E q \in CityInFlight(r) : cityReq' = [cityReq EXCEPT ![r].got = With(@, q, <<>>)]
    /\ UNCHANGED <<city, portal, cityCache, cityNow, cityChanges>>

\* A query fails, behind its retries where it has any.
PortalFails(r) ==
    /\ cityReq[r].st = "fetching" /\ CityFault
    /\ \E q \in CityInFlight(r) :
        \/ /\ q \in Adapter.lenient
           /\ cityReq' = [cityReq EXCEPT ![r].got = With(@, q, <<>>)]
        \/ /\ q \notin Adapter.lenient \/ city = "sd"
           /\ cityReq' = [cityReq EXCEPT ![r].failed = @ \cup {q}]
    /\ UNCHANGED <<city, portal, cityCache, cityNow, cityChanges>>

\* A query that is awaited has failed: the check raises, whatever the others bring,
\* and nothing is remembered.  A pack goes on with its next property.
CheckRaises(r) ==
    /\ cityReq[r].st = "fetching"
    /\ Awaited(cityReq[r].key, cityReq[r].got) \cap cityReq[r].failed # {}
    /\ ItemDone(r, Unavailable)
    /\ UNCHANGED <<city, portal, cityCache, cityNow, cityChanges, cityFaults>>

\* Nothing is awaited any more: the report is made and replaces what is cached,
\* a report of a later check included.
CheckReports(r) ==
    /\ cityReq[r].st = "fetching"
    /\ Awaited(cityReq[r].key, cityReq[r].got) = {}
    /\ LET q == cityReq[r]
           report == [kind |-> "report", key |-> q.key, verdict |-> Verdict(q.key, q.got),
                      born |-> q.born, seen |-> q.seen, served |-> cityNow]
       IN  /\ cityCache' = [cityCache EXCEPT ![q.key] = {[at |-> cityNow, report |-> report]}]
           /\ ItemDone(r, report)
    /\ UNCHANGED <<city, portal, cityNow, cityChanges, cityFaults>>

\* The cache warmer waits no longer: its check is cancelled with the queries in flight,
\* and nothing is remembered.
WarmerGivesUp(r) ==
    /\ r \in CityWarmers /\ cityReq[r].st = "fetching"
    /\ cityReq' = [cityReq EXCEPT ![r] = [st |-> "cut"]]
    /\ UNCHANGED <<city, portal, cityCache, cityNow, cityChanges, cityFaults>>

-----------------------------------------------------------------------------
\* The city publishes other rows.
PortalChanges ==
    /\ cityChanges < CityMaxChanges /\ cityChanges' = cityChanges + 1
    /\ \E q \in DOMAIN portal, rows \in CityRows : portal' = [portal EXCEPT ![q] = rows]
    /\ cityReq' = [r \in CityReqs |-> IF cityReq[r].st = "fetching"
                                      THEN [cityReq[r] EXCEPT !.seen = @ \cup {portal'}]
                                      ELSE cityReq[r]]
    /\ UNCHANGED <<city, cityCache, cityNow, cityFaults>>

\* Time passes, no further than the clients' timeouts let a check wait.
CityTick ==
    /\ cityNow < CityMaxNow /\ cityNow' = cityNow + 1
    /\ \A r \in CityReqs :
          cityReq[r].st = "fetching" => cityNow - cityReq[r].born < FetchMax
    /\ UNCHANGED <<city, portal, cityCache, cityReq, cityChanges, cityFaults>>

\* The process restarts: reports and requests are gone.
CityRestart ==
    /\ CityFault
    /\ cityCache' = [k \in CityKeys |-> {}]
    /\ cityReq' = [r \in CityReqs |-> IF cityReq[r].st \in {"next", "fetching"}
                                      THEN [st |-> "cut"] ELSE cityReq[r]]
    /\ UNCHANGED <<city, portal, cityNow, cityChanges>>

CityNext ==
    \/ PortalChanges \/ CityTick \/ CityRestart
    \/ \E r \in CityReqs :
        \/ CityAsk(r) \/ CityHit(r) \/ CityMiss(r)
        \/ PortalAnswers(r) \/ PortalFails(r) \/ CheckRaises(r) \/ CheckReports(r)
        \/ WarmerGivesUp(r)

-----------------------------------------------------------------------------
(* The summary of a pack.  Only Minneapolis' verdicts are among the words that *)
(* _verdict_bucket knows; those of every other city come out as "mixed".       *)

Bucket(item) ==
    IF item.kind = "error" THEN "error"
    ELSE IF city # "mn" THEN "mixed"
    ELSE IF item.verdict.boarded \/ item.verdict.reg = "none" \/ item.verdict.cases = "open"
         THEN "flagged" ELSE "clean"

RiskSummary(items) ==
    LET b == {Bucket(i) : i \in items}
    IN  IF b = {"error"} THEN "unavailable"
        ELSE IF {"flagged", "clean"} \subseteq b THEN "mixed"
        ELSE IF "flagged" \in b THEN "elevated_risk"
        ELSE IF "clean" \notin b THEN "unknown"
        ELSE IF "mixed" \in b THEN "mostly_clear" ELSE "clear"

-----------------------------------------------------------------------------
(* Properties. *)

ReportsTo(r) == IF cityReq[r].st \in {"next", "fetching", "ended"}
                THEN {i \in cityReq[r].items : i.kind = "report"} ELSE {}
CityReports == {e.report : e \in UNION {cityCache[k] : k \in CityKeys}} \cup
           UNION {ReportsTo(r) : r \in CityReqs}

\* What a portal may hold: some rows, one of these kinds, nothing to answer with,
\* nothing live among what is judged.  A text search misses what is behind its page, and
\* without an order what is judged may be any of the rows.
Some == CityRows \ {<<>>}
Holding(kinds) == {rows \in CityRows : ToSet(rows) \cap kinds # {}}
None(q) ==
    {rows \in CityRows :
        \/ AskedFor(q, rows) = <<>>
        \/ q \in Adapter.sifted /\ (ToSet(rows) \cap Near = {} \/ Len(rows) > Page)}
Quiet(q) ==
    {rows \in CityRows :
        LET asked == AskedFor(q, rows)
        IN  IF q \in Adapter.newest THEN "live" \notin ToSet(Judge(asked))
            ELSE "live" \notin ToSet(asked) \/ Len(asked) > Adapter.judged}

\* What the portals held while its check ran warrants what a report claims.
Warranted(p) ==
    LET v == p.verdict
        registered == v.reg \in {"active", "lapsed"}
        regs == Alternatives(Adapter.reg, p.key)
        cases == Alternatives(Adapter.cases[v.joined], p.key)
        Held(q, R) == \E d \in p.seen : d[q] \in R
        byStatus == Adapter.casesBy = "status" /\ (city = "nyc" => registered)
    IN  /\ registered => \E q \in regs : Held(q, Some)
        /\ v.joined => \E q \in regs : Held(q, Holding(Near))
        /\ v.reg = "active" /\ Adapter.regBy = "status" =>
              \E q \in regs : Held(q, Holding(Adapter.reads))
        /\ v.reg = "none" => \A q \in regs \ Adapter.lenient : Held(q, None(q))
        /\ v.cases = "open" => \E q \in cases : Held(q, IF byStatus THEN Holding({"live"}) ELSE Some)
        /\ v.cases = "closed" => \E q \in cases : byStatus /\ Held(q, Quiet(q))
        /\ v.cases = "none" => \A q \in cases : Held(q, None(q))
        /\ v.boarded => \E q \in Alternatives(Adapter.boarded[v.joined], p.key) : Held(q, Some)

\* A report claims nothing that the portals did not show while its check ran, as far
\* as it asked them.  An active registration or an open case was there, and "none" was
\* what every alternative held at some moment.  An open case is passed over only behind
\* as many newer rows as are shown, or, where the query asks for no order, among more
\* rows than are shown.  No failure is taken for an empty answer, but for the queries
\* that are lenient in the code: San Diego's, and Minneapolis' condemned list.  And the
\* check asked as far as its code does, no further: "Inactive" is active to Denver,
\* Austin, Nashville and Montgomery County, New York leaves out the eleventh building,
\* Boston what is behind the page of its text search, and Minneapolis asks for no
\* violations, and claims none, when its licenses name no parcel.
VerdictIsWarranted == \A p \in CityReports : Warranted(p)

\* A report is served while the data in it are no older than the cache keeps it
\* plus the time a check may take, however often it was served and by whichever
\* of two overlapping checks it was cached.
ServedIsFresh ==
    \A r \in CityReqs : \A i \in ReportsTo(r) : i.served - i.born <= CityTTL + FetchMax
=============================================================================

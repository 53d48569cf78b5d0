------------------------------ MODULE Probing ------------------------------
(***************************************************************************)
(* The free looks at other servers: what a URL would cost, and the card of *)
(* an agent, found under one of several well-known paths.  The two HTTP    *)
(* routes share a sliding window per client; the MCP tools of the same     *)
(* name go by the caller's quota instead, which is QuotaStore's.           *)
(***************************************************************************)
EXTENDS Integers, Sequences, FiniteSets, Filters

CONSTANTS
    Probes,          \* requests, each made once
    Clients,         \* addresses that requests come from
    ProbeLimit,      \* of the ProbeRateLimiter, in requests
    ProbeWindow,     \* its window, in moments of the clock
    ProbeSecond,     \* moments in a second
    Paths,           \* DISCOVERY_PATHS, how many
    ProbeMaxNow      \* bound

ASSUME ProbeAssumption ==
    /\ {ProbeLimit, ProbeWindow, ProbeSecond, Paths} \subseteq Nat \ {0} /\ ProbeMaxNow \in Nat
    /\ IsFiniteSet(Probes) /\ "none" \notin Clients

VARIABLES
    probe,           \* the requests
    passed,          \* _windows: client -> times of the requests let through
    probeNow

probeVars == <<probe, passed, probeNow>>

Unprobed == [at |-> "new", door |-> "http", kind |-> "url", client |-> "none",
             asked |-> 0, left |-> 0, answer |-> "none", retry |-> 0]

ProbeInit ==
    /\ probe = [p \in Probes |-> Unprobed]
    /\ passed = [c \in Clients |-> <<>>]
    /\ probeNow = 0

\* Mutant: a request exactly a window old is forgotten.
ProbesRecent_AtCutoff(c) == Keep(passed[c], {t \in Nat : t > probeNow - ProbeWindow})

\* What check leaves in the window: everything that is not older than it.
ProbesRecent(c) == Keep(passed[c], {t \in Nat : t >= probeNow - ProbeWindow})

\* The seconds a refused client is told to wait: the whole seconds until its oldest
\* request is a window old, the rest of a second cut off, and at least one.
ProbeRetryAfter(recent) ==
    LET seconds == (ProbeWindow - (probeNow - recent[1])) \div ProbeSecond
    IN  IF seconds > 1 THEN seconds ELSE 1

\* A card is looked for under every path, or under the one that was given.
Candidates(kind) == IF kind = "card" THEN {1, Paths} ELSE {1}

\* A target that may not be fetched uses up a slot all the same: /probe answers 400,
\* and a card is unresolved.  The tool x402.probe does not look at the target.
BlockedAnswer(kind) == IF kind = "card" THEN "unresolved" ELSE "blocked"

\* A request at one of the HTTP routes: limit, target, first fetch, with no await
\* before the fetch.
ProbeOverHttp(p) ==
    /\ probe[p].at = "new"
    /\ \E c \in Clients, kind \in {"url", "card"} :
          LET recent == ProbesRecent(c)
              asked == [Unprobed EXCEPT !.kind = kind, !.client = c, !.asked = probeNow]
          IN  IF Len(recent) >= ProbeLimit
              THEN /\ passed' = [passed EXCEPT ![c] = recent]
                   /\ probe' = [probe EXCEPT ![p] = [asked EXCEPT
                         !.at = "ended", !.answer = "limited", !.retry = ProbeRetryAfter(recent)]]
              ELSE /\ passed' = [passed EXCEPT ![c] = Append(recent, probeNow)]
                   /\ \/ \E n \in Candidates(kind) :
                            probe' = [probe EXCEPT ![p] = [asked EXCEPT !.at = "fetch", !.left = n]]
                      \/ probe' = [probe EXCEPT ![p] = [asked EXCEPT
                            !.at = "ended", !.answer = BlockedAnswer(kind)]]
    /\ UNCHANGED probeNow

\* A call of one of the MCP tools, behind the quota.
ProbeOverMcp(p) ==
    /\ probe[p].at = "new"
    /\ \E kind \in {"url", "card"} :
          LET asked == [Unprobed EXCEPT !.door = "mcp", !.kind = kind]
          IN  \/ \E n \in Candidates(kind) :
                    probe' = [probe EXCEPT ![p] = [asked EXCEPT !.at = "fetch", !.left = n]]
              \/ /\ kind = "card"
                 /\ probe' = [probe EXCEPT ![p] = [asked EXCEPT
                       !.at = "ended", !.answer = "unresolved"]]
    /\ UNCHANGED <<passed, probeNow>>

\* get_payment_requirements: what the URL answered, with the terms of a 402 if the
\* SDK can read them; a target that does not answer raises, over HTTP as 502.
UrlAnswers(p) ==
    /\ probe[p].at = "fetch" /\ probe[p].kind = "url"
    /\ \E answer \in {"looked_at", "unreachable"} :
          probe' = [probe EXCEPT ![p].at = "ended", ![p].answer = answer, ![p].left = 0]
    /\ UNCHANGED <<passed, probeNow>>

\* A candidate answers 200 with an object: this is the card, and no other is asked.
CardFound(p) ==
    /\ probe[p].at = "fetch" /\ probe[p].kind = "card"
    /\ probe' = [probe EXCEPT ![p].at = "ended", ![p].answer = "card"]
    /\ UNCHANGED <<passed, probeNow>>

\* A candidate fails in whatever way: the next one is asked, if there is one.
CardMissing(p) ==
    /\ probe[p].at = "fetch" /\ probe[p].kind = "card"
    /\ LET left == probe[p].left - 1
       IN  probe' = [probe EXCEPT ![p].left = left,
                        ![p].at = IF left = 0 THEN "ended" ELSE "fetch",
                        ![p].answer = IF left = 0 THEN "unresolved" ELSE "none"]
    /\ UNCHANGED <<passed, probeNow>>

\* Time passes.
ProbeTick ==
    /\ probeNow < ProbeMaxNow /\ probeNow' = probeNow + 1
    /\ UNCHANGED <<probe, passed>>

ProbeNext ==
    \/ \E p \in Probes : \/ ProbeOverHttp(p) \/ ProbeOverMcp(p) \/ UrlAnswers(p)
                         \/ CardFound(p) \/ CardMissing(p)
    \/ ProbeTick

-----------------------------------------------------------------------------
(* Properties. *)

ProbesLetThrough(c) ==
    {p \in Probes : probe[p].at # "new" /\ probe[p].client = c /\ probe[p].answer # "limited"}

\* The requests of the window before one, and when its client comes back if it waits as
\* told.
ProbesBefore(p) ==
    {q \in ProbesLetThrough(probe[p].client) :
        probe[q].asked \in (probe[p].asked - ProbeWindow) .. probe[p].asked}
ProbeBack(p) == probe[p].asked + ProbeSecond * probe[p].retry

\* However the two routes are mixed, no window of ProbeWindow, both ends included,
\* lets more than ProbeLimit requests of a client through, and who is refused had that
\* many before it.  The wait it is told is cut down to whole seconds and may be too
\* short: it misses the moment at which one of those requests is a window old by less
\* than a second before or at most one after.  But who waits a second longer than told
\* is refused again only if another of its requests was let through meanwhile.
ProbesWithinRate ==
    /\ \A c \in Clients, t \in 0 .. ProbeMaxNow :
          Cardinality({p \in ProbesLetThrough(c) :
                          probe[p].asked \in (t - ProbeWindow) .. t}) <= ProbeLimit
    /\ \A p \in Probes : probe[p].answer = "limited" =>
          /\ Cardinality(ProbesBefore(p)) >= ProbeLimit
          /\ \E q \in ProbesBefore(p) :
                ProbeBack(p) - (probe[q].asked + ProbeWindow) \in (1 - ProbeSecond) .. ProbeSecond
          /\ \A r \in Probes :
                /\ probe[r].answer = "limited" /\ probe[r].client = probe[p].client
                /\ probe[r].asked >= ProbeBack(p) + ProbeSecond
                => \E q \in ProbesLetThrough(probe[p].client) :
                      probe[q].asked \in (probe[p].asked + 1) .. probe[r].asked
=============================================================================

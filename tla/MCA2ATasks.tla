----------------------------- MODULE MCA2ATasks -----------------------------
(***************************************************************************)
(* A2ATasks on small instances, one plain skill or two cities, and beside  *)
(* it the city checks that its skills run.  The two share no state, so     *)
(* that one of them moves in a behaviour and the other stands still.  What *)
(* a city's data make of a verdict is looked at in one check at a time,    *)
(* from any data; how checks overlap and how old they get, in two          *)
(* requests, from no data and in the adapters of the fewest queries.       *)
(***************************************************************************)
EXTENDS A2ATasks, CityChecks, TLC

CONSTANTS t1, t2, c1, c2, c3, p1, p2, plain, city1, city2, one, two,
          Parts           \* the parts that move

VARIABLE part             \* the part that moves

MCNoCities == <<>>
MCCities == <<city1, city2>>

\* One city of each kind of adapter.
MCCityCodes == {"nyc", "mn", "bos", "bna", "sd", "sf", "mia"}
MCCityPack == (one :> 1) @@ (two :> 2)
MCRows == {<<>>, <<"live">>, <<"alike">>, <<"far">>, <<"dead", "live">>, <<"far", "live">>}
MCStart == {<<>>, <<"live">>, <<"far">>}

MCInit ==
    /\ part \in Parts
    /\ Init
    /\ \E c \in CityCodes : CityInit(c)
    /\ part = "tasks" => city = "mia"
    /\ part = "overlaps" => city \in {"mia", "sf", "sd"} /\ \A q \in DOMAIN portal : portal[q] = <<>>

MCNext ==
    \/ part = "tasks" /\ Next /\ UNCHANGED <<part, cityVars>>
    \/ part = "checks" /\ CityNext /\ UNCHANGED <<part, vars>> /\ UNCHANGED cityReq[two]
    \/ part = "overlaps" /\ CityNext /\ UNCHANGED <<part, vars>>

MCSpec == MCInit /\ [][MCNext]_<<part, vars, cityVars>>

MCSymmetry == Permutations(Calls) \cup Permutations(Payments)
=============================================================================

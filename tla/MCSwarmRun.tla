----------------------------- MODULE MCSwarmRun -----------------------------
(***************************************************************************)
(* SwarmRun on small instances, two priced services and one without a      *)
(* price, and beside it the stream of events its steps are reported on.    *)
(* The stream never moves the run, so that one of the two moves in a       *)
(* behaviour and the other stands still.                                   *)
(***************************************************************************)
EXTENDS SwarmRun, OpsEvents, TLC

CONSTANTS r1, r2, s1, s2, s3, l1, l2,
          Parts           \* the parts that move

VARIABLE part             \* the part that moves

MCListPrice == (s1 :> 2) @@ (s2 :> 3) @@ (s3 :> NoPrice)

\* Every service asks what the catalog says.
MCAskPrice == (s1 :> {2}) @@ (s2 :> {3}) @@ (s3 :> {1})

\* One run's ceiling keeps nothing out, the other's keeps out the dearer service.
MCCeiling == (r1 :> 3) @@ (r2 :> 2)
MCUpstreams == <<s2, s3>>

MCLevels == <<"ok", "critical">>

MCInit == part \in Parts /\ Init /\ OpsInit

MCNext ==
    \/ part = "run" /\ Next /\ UNCHANGED <<part, opsVars>>
    \/ part = "ops" /\ OpsNext /\ UNCHANGED <<part, vars>>

MCSpec == MCInit /\ [][MCNext]_<<part, vars, opsVars>>

\* Nothing that fairness is about is enabled where a part stands still.
MCLiveSpec == MCSpec /\ Fairness /\ OpsFairness
=============================================================================

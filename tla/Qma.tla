-------------------------------- MODULE Qma --------------------------------
(***************************************************************************)
(* Two witnesses derive an answer apart from each other, and Arthur keeps  *)
(* what both corroborate.  Their critical claims are grouped by topic, each*)
(* with the first group whose first claim is about the same; being about   *)
(* the same is an overlap of words and so not transitive.  A round that is *)
(* not accepted is repeated with fresh witnesses.                          *)
(***************************************************************************)
EXTENDS Integers, Sequences, SequencesExt, Filters

CONSTANTS
    Topics,          \* what claims are about
    Alike,           \* pairs of topics whose words overlap enough
    Valid,           \* the claims that the caller's validators pass
    Answers,         \* what a witness may claim: sequences of claims
    MaxRounds

QmaClaims == [topic : Topics, negated : BOOLEAN]

ASSUME QmaAssumption ==
    /\ Valid \subseteq QmaClaims /\ Answers \subseteq Seq(QmaClaims)
    /\ \A t \in Topics : <<t, t>> \in Alike
    /\ \A p \in Alike : <<p[2], p[1]>> \in Alike
    /\ MaxRounds \in Nat \ {0}

VARIABLES
    round, merlin,   \* the round, and in it the answers of the two witnesses
    best,            \* the report that is kept, or the one that is returned
    qmaAt            \* "explorer", "auditor", "arthur", "done", "raised"

qmaVars == <<round, merlin, best, qmaAt>>

NoReportYet == [verdict |-> "none", confidence |-> -1, merged |-> <<>>, round |-> 0]

QmaInit == round = 1 /\ merlin = <<>> /\ best = NoReportYet /\ qmaAt = "explorer"

-----------------------------------------------------------------------------
(* Arthur. *)

Tagged(w) == [i \in DOMAIN merlin[w] |-> [by |-> w, claim |-> merlin[w][i]]]

\* Mutant: the claim goes to the first group that has any claim like it.
Place_AnyClaim(groups, c) ==
    LET fit == {i \in DOMAIN groups : \E j \in DOMAIN groups[i] :
                    <<c.claim.topic, groups[i][j].claim.topic>> \in Alike}
    IN  IF fit = {} THEN Append(groups, <<c>>)
        ELSE [groups EXCEPT ![CHOOSE i \in fit : \A j \in fit : i <= j] = Append(@, c)]

\* Claims are compared with a group's first one only.
Place(groups, c) ==
    LET fit == {i \in DOMAIN groups : <<c.claim.topic, groups[i][1].claim.topic>> \in Alike}
    IN  IF fit = {} THEN Append(groups, <<c>>)
        ELSE [groups EXCEPT ![CHOOSE i \in fit : \A j \in fit : i <= j] = Append(@, c)]

Grouped(s) ==
    LET groups[i \in 0 .. Len(s)] == IF i = 0 THEN <<>> ELSE Place(groups[i - 1], s[i])
    IN  groups[Len(s)]

Groups == Grouped(Tagged(1) \o Tagged(2))

Authors(g) == {g[i].by : i \in DOMAIN g}
Polarities(g) == {g[i].claim.negated : i \in DOMAIN g}
Contested(g) == Authors(g) = {1, 2} /\ Polarities(g) = BOOLEAN
Aligned(g) == Authors(g) = {1, 2} /\ ~Contested(g)

Corroborated(groups) == Keep(groups, {g \in ToSet(groups) : Aligned(g)})

\* arthur_verify; the validators see the first wording of a group.  Agreement is rounded
\* to three digits before it is compared with 0.80.  Confidence is in 1/6000, exact for
\* up to five groups; copied wordings take from it.
Judged(copied) ==
    LET groups == Groups
        aligned == Corroborated(groups)
        reps == [i \in DOMAIN aligned |-> aligned[i][1].claim]
        unsound == Len(Keep(reps, QmaClaims \ Valid))
        sound == unsound = 0 /\ \A i \in DOMAIN groups : ~Contested(groups[i])
        n == Len(groups)  a == Len(aligned)
        term == IF sound THEN 60 ELSE IF a = 0 THEN 0 ELSE (60 * (a - unsound)) \div a
    IN  [verdict |-> IF ~sound THEN "reject"
                     ELSE IF n > 0 /\ 2000 * a > 1599 * n THEN "accept" ELSE "iterate",
         confidence |-> (IF n = 0 THEN 0 ELSE (3300 * a) \div n) + 25 * term
                        + IF copied THEN 0 ELSE 1200,
         merged |-> reps, round |-> round]

-----------------------------------------------------------------------------
(* The rounds. *)

\* One producer after the other, each with the task and its own charter only.
Produce ==
    /\ qmaAt \in {"explorer", "auditor"}
    /\ \E answer \in Answers : merlin' = Append(merlin, answer)
    /\ qmaAt' = IF qmaAt = "explorer" THEN "auditor" ELSE "arthur"
    /\ UNCHANGED <<round, best>>

\* An exception of a producer ends the protocol.
ProducerRaises ==
    /\ qmaAt \in {"explorer", "auditor"} /\ qmaAt' = "raised"
    /\ UNCHANGED <<round, merlin, best>>

Arthur ==
    /\ qmaAt = "arthur"
    /\ \E copied \in BOOLEAN :
          LET report == Judged(copied)
              over == report.verdict = "accept" \/ round = MaxRounds
          IN  /\ best' = IF report.verdict = "accept" \/ report.confidence >= best.confidence
                         THEN report ELSE best
              /\ qmaAt' = IF over THEN "done" ELSE "explorer"
              /\ round' = IF over THEN round ELSE round + 1
              /\ merlin' = IF over THEN merlin ELSE <<>>

QmaNext == Produce \/ ProducerRaises \/ Arthur

-----------------------------------------------------------------------------
(* Properties. *)

\* What an accepted report merges both of its witnesses claim, about the same and
\* with the same sign, and neither of them denies it, wherever the first wording
\* came from and whatever an earlier round left behind; it passed the validators;
\* and a claim about something else is tolerated beside four merged ones only.  A
\* round that is accepted is the last one, and its report is returned.
AcceptedIsCorroborated ==
    /\ best.verdict = "accept" <=> qmaAt = "done" /\ Judged(FALSE).verdict = "accept"
    /\ best.verdict = "accept" =>
        /\ best.round = round
        /\ \A kept \in ToSet(best.merged) :
              /\ kept \in Valid
              /\ \A w \in {1, 2} :
                    /\ \E c \in ToSet(merlin[w]) :
                          <<c.topic, kept.topic>> \in Alike /\ c.negated = kept.negated
                    /\ \A c \in ToSet(merlin[w]) : c.topic = kept.topic => c = kept
        /\ (\E c \in ToSet(merlin[1] \o merlin[2]) :
                \A kept \in ToSet(best.merged) : <<c.topic, kept.topic>> \notin Alike)
              => Len(best.merged) >= 4
=============================================================================

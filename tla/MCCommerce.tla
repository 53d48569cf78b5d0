----------------------------- MODULE MCCommerce -----------------------------
(***************************************************************************)
(* Commerce on small instances, and beside it the mails that settlements   *)
(* and agents send, single payments on the wire, the gate of the paid MCP  *)
(* tool, and the verifier of two witnesses.  No part reads what another    *)
(* writes, so that one of them moves in a behaviour and the others stand   *)
(* still.                                                                  *)
(***************************************************************************)
EXTENDS Commerce, MailRail, Wire, McpGate, Qma, TLC

CONSTANTS c1, c2, c3, c4, p1, p2, p3,
          Parts           \* the parts that move

VARIABLE part             \* the part that moves

MCSizes == {-1, 2}

\* A receipt with a transaction, and two mails told apart only behind the part
\* of the body that the key is made of.
MCLetters == {[event |-> e, to |-> "operator", subject |-> "s", head |-> "h", rest |-> r] :
                <<e, r>> \in {<<"tx", "x">>, <<"none", "x">>, <<"none", "y">>}}
MCInbounds == {[from |-> "a", subject |-> "s", head |-> "h", rest |-> r] : r \in {"x", "y"}}
MCCallers == [bearer : {"token", "other"}, agent : {"postmaster", "other"}]

\* Two networks, of whose assets one has the decimals of USDC and is not it, one is
\* finer, one coarser, and one is unknown to the SDK.
MCNetworks == <<"base", "sepolia">>
MCOwnAsset == [base |-> "usdc", sepolia |-> "tusdc"]
MCFallback == [base |-> "usdc", sepolia |-> "usdc"]
MCWorth == [usdc |-> 2, tusdc |-> 2, fine |-> 1, coarse |-> 4, odd |-> 3]
MCOption(net, asset, amt) == [net |-> net, asset |-> asset, amt |-> amt]
MCForeign == {<<MCOption("base", "usdc", 3), MCOption("sepolia", "tusdc", 2)>>,
              <<MCOption("base", "fine", 3)>>, <<MCOption("base", "coarse", 2)>>,
              <<MCOption("sepolia", "odd", 4), MCOption("base", "usdc", 2)>>}

\* "t2" is about both "t1" and "t3", which have nothing in common.  A witness has up
\* to two claims about these, or an answer that tells one rule from another: a
\* witness that contradicts itself, four topics, and one topic more.
MCAlike == {<<t, t>> : t \in Topics}
           \cup {<<"t1", "t2">>, <<"t2", "t1">>, <<"t2", "t3">>, <<"t3", "t2">>}
MCSays(topic) == [topic |-> topic, negated |-> FALSE]
MCDenies(topic) == [topic |-> topic, negated |-> TRUE]
MCValid == QmaClaims \ {MCDenies("t3")}
MCChain == {c \in QmaClaims : c.topic \in {"t1", "t2", "t3"}}
MCFour == <<MCSays("t1"), MCSays("t3"), MCSays("t4"), MCDenies("t5")>>
MCAnswers ==
    {<<>>} \cup {<<c>> : c \in MCChain}
    \cup {<<p[1], p[2]>> : p \in {q \in MCChain \X MCChain : q[1] # q[2]}}
    \cup {<<MCSays("t2"), MCSays("t1"), MCDenies("t1")>>, MCFour, Append(MCFour, MCSays("t6"))}

\* A part that stands still has one initial state.
MCInit ==
    /\ part \in Parts
    /\ Init
    /\ MailInit /\ (part # "mail" => live)
    /\ WireInit /\ (part # "wire" => online = {})
    /\ GateInit
    /\ QmaInit

MCNext ==
    \/ part = "grants" /\ Next /\ UNCHANGED <<part, mailVars, wireVars, gateVars, qmaVars>>
    \/ part = "mail" /\ MailNext /\ UNCHANGED <<part, vars, wireVars, gateVars, qmaVars>>
    \/ part = "wire" /\ WireNext /\ UNCHANGED <<part, vars, mailVars, gateVars, qmaVars>>
    \/ part = "gate" /\ GateNext /\ UNCHANGED <<part, vars, mailVars, wireVars, qmaVars>>
    \/ part = "qma" /\ QmaNext /\ UNCHANGED <<part, vars, mailVars, wireVars, gateVars>>

MCSpec == MCInit /\ [][MCNext]_<<part, vars, mailVars, wireVars, gateVars, qmaVars>>

MCSymmetry == Permutations(Calls)
=============================================================================

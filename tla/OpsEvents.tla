------------------------------ MODULE OpsEvents ------------------------------
(***************************************************************************)
(* The stream of operations events: tool calls, swarm steps and alerts go  *)
(* into a ring of recent events and into the queue of every dashboard that *)
(* listens.  A listener is given the last recent events first and then     *)
(* what its queue brings; when nothing comes it sends a heartbeat to all.  *)
(*                                                                         *)
(* An emitter never waits, so emitting is one step.  A listener stands     *)
(* still wherever its client has not read what was yielded.                *)
(***************************************************************************)
EXTENDS Integers, Sequences, FiniteSetsExt, SequencesExt, Filters

CONSTANTS
    Listeners,
    Ring,            \* _recent.maxlen
    Replayed,        \* recent events a new listener is given
    Levels,          \* health levels of the host, the first one is "ok"
    Amounts,         \* what a purchase of the swarm may cost
    SpendWindow, SpendLimit,    \* five minutes, two dollars
    OpsMaxEvents, OpsMaxBeats, OpsMaxNow    \* bounds

ASSUME OpsAssumption ==
    /\ Ring \in Nat /\ Replayed \in Nat /\ Replayed <= Ring
    /\ Levels \in Seq(STRING) /\ Levels # <<>>
    /\ Amounts \subseteq Nat \ {0} /\ SpendWindow \in Nat /\ SpendLimit \in Nat
    /\ {OpsMaxEvents, OpsMaxBeats, OpsMaxNow} \subseteq Nat

VARIABLES
    emitted,      \* every event, in the order of their emission
    ring,         \* _recent
    pending,      \* _subscribers: the queue of each listener
    listener,     \* where each listener is, and what its client was sent
    level,        \* _last_status
    spends,       \* _recent_spends: when and how much
    spent,        \* every purchase ever reported
    opsNow, beats

opsVars == <<emitted, ring, pending, listener, level, spends, spent, opsNow, beats>>

Beat == [kind |-> "heartbeat"]
Tool == [kind |-> "tool"]
LevelAlert(old, new) == [kind |-> "level", previous |-> old, status |-> new]
SpendAlert(sum) == [kind |-> "burst", sum |-> sum, at |-> opsNow]

OpsInit ==
    /\ emitted = <<>> /\ ring = <<>>
    /\ pending = [r \in Listeners |-> <<>>]
    /\ listener = [r \in Listeners |-> [st |-> "away", replay |-> <<>>, sent |-> <<>>, from |-> 0]]
    /\ level = Levels[1]
    /\ spends = <<>> /\ spent = {}
    /\ opsNow = 0 /\ beats = 0

LastOf(s, n) == SubSeq(s, IF Len(s) > n THEN Len(s) - n + 1 ELSE 1, Len(s))
Listening == {r \in Listeners : listener[r].st \in {"replay", "live"}}

\* Mutant: the queues are bounded, and a full one drops the event silently.
Broadcast_Bounded(events) ==
    pending' = [r \in Listeners |->
                IF r \in Listening /\ Len(pending[r]) < 1 THEN pending[r] \o events ELSE pending[r]]

\* The events go into the queue of everyone who listens.
Broadcast(events) ==
    pending' = [r \in Listeners |-> IF r \in Listening THEN pending[r] \o events ELSE pending[r]]

\* emit_tool_event, for one event after the other.
Emit(events) ==
    /\ Len(emitted) + Len(events) <= OpsMaxEvents
    /\ emitted' = emitted \o events
    /\ ring' = LastOf(ring \o events, Ring)
    /\ Broadcast(events)

-----------------------------------------------------------------------------
(* Emitters. *)

\* A tool was called, or a swarm run took a step.
ToolEvent ==
    /\ Emit(<<Tool>>)
    /\ UNCHANGED <<listener, level, spends, spent, opsNow, beats>>

SumOf(s) == FoldSeq(LAMBDA e, sum : e.amount + sum, 0, s)

\* Mutant: the spends of the last window are pruned one tick early.
Recent_Early(s) == Keep(s, {e \in ToSet(s) : e.at > opsNow - SpendWindow})

\* The spends that are not older than the window.
Recent(s) == Keep(s, {e \in ToSet(s) : e.at >= opsNow - SpendWindow})

\* The treasurer paid: its step, and an alert when the window's purchases exceed
\* the limit.
SpendStep ==
    /\ \E a \in Amounts :
        LET new == [at |-> opsNow, amount |-> a]
            kept == Recent(Append(spends, new))
        IN  /\ Emit(IF SumOf(kept) > SpendLimit THEN <<Tool, SpendAlert(SumOf(kept))>> ELSE <<Tool>>)
            /\ spends' = kept
            /\ spent' = spent \cup {[at |-> opsNow, amount |-> a, n |-> Cardinality(spent)]}
    /\ UNCHANGED <<listener, level, opsNow, beats>>

\* The worst level of the three readings: processor, memory, disk.
Worst(readings) == Levels[Max(ToSet(readings))]

\* A sample of the host, by the sampler or a request: an alert when its level is
\* another than the last sample's.
Sample ==
    /\ \E readings \in [1 .. 3 -> DOMAIN Levels] :
        LET now == Worst(readings)
        IN  /\ now # level
            /\ Emit(<<LevelAlert(level, now)>>)
            /\ level' = now
    /\ UNCHANGED <<listener, spends, spent, opsNow, beats>>

-----------------------------------------------------------------------------
(* Listeners. *)

\* The queue is registered and the recent events are copied in one go.
Subscribe(r) ==
    /\ listener[r].st = "away"
    /\ listener' = [listener EXCEPT ![r] =
          [st |-> "replay", replay |-> LastOf(ring, Replayed), sent |-> <<>>,
           from |-> Len(emitted) - Len(LastOf(ring, Replayed))]]
    /\ UNCHANGED <<emitted, ring, pending, level, spends, spent, opsNow, beats>>

\* Mutant: the recent events are given only as long as nothing new has come.
Replay_WhileQuiet(r) ==
    /\ listener[r].st = "replay" /\ pending[r] = <<>>
    /\ LET l == listener[r]
       IN  listener' = [listener EXCEPT ![r] =
              IF l.replay = <<>> THEN [l EXCEPT !.st = "live"]
              ELSE [l EXCEPT !.sent = Append(l.sent, Head(l.replay)), !.replay = Tail(l.replay)]]
    /\ UNCHANGED <<emitted, ring, pending, level, spends, spent, opsNow, beats>>

\* The client reads a recent event; behind the last one the queue is its source.
Replay(r) ==
    /\ listener[r].st = "replay"
    /\ LET l == listener[r]
       IN  listener' = [listener EXCEPT ![r] =
              IF l.replay = <<>> THEN [l EXCEPT !.st = "live"]
              ELSE [l EXCEPT !.sent = Append(l.sent, Head(l.replay)), !.replay = Tail(l.replay)]]
    /\ UNCHANGED <<emitted, ring, pending, level, spends, spent, opsNow, beats>>

\* The client reads what the queue holds.  What it was sent is kept without the
\* heartbeats.
Take(r) ==
    /\ listener[r].st = "live" /\ pending[r] # <<>>
    /\ listener' = [listener EXCEPT ![r].sent =
                      IF Head(pending[r]) = Beat THEN @ ELSE Append(@, Head(pending[r]))]
    /\ pending' = [pending EXCEPT ![r] = Tail(@)]
    /\ UNCHANGED <<emitted, ring, level, spends, spent, opsNow, beats>>

\* Nothing came for a while: a heartbeat to every queue, the own one included.
Heartbeat(r) ==
    /\ listener[r].st = "live" /\ pending[r] = <<>>
    /\ beats < OpsMaxBeats /\ beats' = beats + 1
    /\ Broadcast(<<Beat>>)
    /\ UNCHANGED <<emitted, ring, listener, level, spends, spent, opsNow>>

\* The client goes away; it comes back as another listener.
Unsubscribe(r) ==
    /\ r \in Listening
    /\ listener' = [listener EXCEPT ![r] = [st |-> "gone", replay |-> <<>>, sent |-> <<>>, from |-> 0]]
    /\ pending' = [pending EXCEPT ![r] = <<>>]
    /\ UNCHANGED <<emitted, ring, level, spends, spent, opsNow, beats>>

OpsTick ==
    /\ opsNow < OpsMaxNow /\ opsNow' = opsNow + 1
    /\ UNCHANGED <<emitted, ring, pending, listener, level, spends, spent, beats>>

OpsNext ==
    \/ ToolEvent \/ SpendStep \/ Sample \/ OpsTick
    \/ \E r \in Listeners :
          Subscribe(r) \/ Replay(r) \/ Take(r) \/ Heartbeat(r) \/ Unsubscribe(r)

\* The client of a listener reads on.
OpsFairness == \A r \in Listeners : WF_opsVars(Replay(r) \/ Take(r))

-----------------------------------------------------------------------------
(* Properties. *)

\* A listener misses no event, gets none twice and none out of order, across the
\* change from the recent events to the queue, with any number of listeners and
\* heartbeats: what it was sent, what it is about to be replayed and what its
\* queue holds are together the events from where it began to the last one.
StreamIsGapless ==
    \A r \in Listening :
        LET l == listener[r]
            events == Keep(pending[r], ToSet(pending[r]) \ {Beat})
        IN  l.sent \o l.replay \o events = SubSeq(emitted, l.from + 1, Len(emitted))

\* An alert is there for whatever it is about: the purchases of every window that
\* exceed the limit were alerted when the last of them was made, and the alerts of
\* the host's level form a chain, each from the level the one before went to, up
\* to the level that was last seen, whatever other alerts come in between.
AlertsAreComplete ==
    /\ \A x \in spent :
        LET window == {y \in spent : y.at >= x.at - SpendWindow /\ y.n <= x.n}
            sum == MapThenSumSet(LAMBDA y : y.amount, window)
        IN  sum > SpendLimit =>
                \E i \in 1 .. Len(emitted) :
                    emitted[i] = [kind |-> "burst", sum |-> sum, at |-> x.at]
    /\ LET chain == Keep(emitted, {e \in ToSet(emitted) : e.kind = "level"})
       IN  /\ \A i \in 1 .. Len(chain) :
                  chain[i].previous = IF i = 1 THEN Levels[1] ELSE chain[i - 1].status
           /\ level = IF chain = <<>> THEN Levels[1] ELSE Last(chain).status

\* Whoever listens and reads on is again and again up to date: it has been sent
\* every event since it began, and the heartbeats that listeners put into each
\* other's queues hold nothing up.
ListenersCatchUp ==
    \A r \in Listeners :
        []<>(r \in Listening => listener[r].from + Len(listener[r].sent) = Len(emitted))
=============================================================================

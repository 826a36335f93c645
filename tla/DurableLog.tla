----------------------------- MODULE DurableLog -----------------------------
(***************************************************************************)
(* What a session's write path promises, without saying how: events        *)
(* 1, 2, 3, ... are accepted in order, the durable log is always a prefix  *)
(* of what was accepted, it only grows, and a flush that resolves          *)
(* acknowledges only events that are already in the durable log.           *)
(***************************************************************************)
EXTENDS Naturals, Sequences

VARIABLES
    accepted,   \* how many events the session has published
    durable,    \* the events the backend holds
    promised    \* the longest prefix a resolved flush has acknowledged

vars == <<accepted, durable, promised>>

\* The first n events, in the order in which they were published.
Prefix(n) == [i \in 1..n |-> i]

Init == accepted = 0 /\ durable = <<>> /\ promised = 0

Accept == accepted' = accepted + 1 /\ UNCHANGED <<durable, promised>>

Commit ==
    /\ \E n \in (Len(durable) + 1)..accepted : durable' = Prefix(n)
    /\ UNCHANGED <<accepted, promised>>

Acknowledge ==
    /\ promised' \in promised..Len(durable)
    /\ UNCHANGED <<accepted, durable>>

Next == Accept \/ Commit \/ Acknowledge

Spec == Init /\ [][Next]_vars
=============================================================================

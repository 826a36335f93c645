---------------------------- MODULE ModelRequest ----------------------------
(***************************************************************************)
(* One open step of the agent loop and its model requests (step in         *)
(* agent-loop), with the retry policy that recovers a failed one           *)
(* (llm-retry): the stream and its chunks, the request-error waterfall,    *)
(* the durable record of a retry before its wait, the wait, and a policy   *)
(* behind the plugin that may decide too.                                  *)
(*                                                                         *)
(* A person aborts and the plugin is disposed, and mounted again, at any   *)
(* await.  Each attempt may be served by another registration: a route is  *)
(* a provider with one complete policy key.  The retry count is in no      *)
(* variable; it is read from the log.                                      *)
(***************************************************************************)
EXTENDS Naturals, Sequences, FiniteSets

CONSTANTS
    Routes,         \* the routes of a provider and its policy that may serve
    Mode,           \* the policy's mode: "normal", "always", or "none" without one
    MaxRetries,     \* the policy's maxRetries
    MaxChunks,      \* bound: chunks of an attempt
    MaxAttempts,    \* bound: attempts of the step
    MaxReloads      \* bound: times the plugin is mounted again

ASSUME RequestAssumption ==
    /\ Mode \in [Routes -> {"normal", "always", "none"}]
    /\ MaxRetries \in [Routes -> Nat \ {0}]
    /\ MaxChunks \in Nat /\ MaxAttempts \in Nat \ {0} /\ MaxReloads \in Nat

VARIABLES
    log,        \* the events of the step
    pc,         \* where step() stands
    route,      \* what serves the current attempt
    attempt,    \* history: the number of the current attempt
    chunkSeqs,  \* the chunks of the attempt, by their places in the log
    aborted,    \* the signal of the activity
    plugin,     \* the lifetime of llm-retry: "up", "closing" or "down"
    captured,   \* which mount of the plugin the waterfall has captured
    active,     \* the recoveries that the plugin tracks: at most the current one
    decision,   \* what the waterfall answered
    delegated,  \* history: retries that the policy behind the plugin decided
    reloads     \* used up of the bound

stream == <<route, attempt, chunkSeqs>>
lifetime == <<plugin, captured, reloads>>
vars == <<log, pc, stream, aborted, lifetime, active, decision, delegated>>

Init ==
    /\ log = <<>> /\ pc = "build" /\ route \in Routes /\ attempt = 0
    /\ chunkSeqs = {} /\ aborted = FALSE
    /\ plugin = "up" /\ captured = 0 /\ active = FALSE /\ decision = "none"
    /\ delegated = 0 /\ reloads = 0

Places(type) == {k \in DOMAIN log : log[k].type = type}
RetriesOf(r) == {k \in Places("retry") : log[k].route = r}
Last(S) == CHOOSE k \in S : \A other \in S : other <= k

Append1(event) == log' = Append(log, event)

-----------------------------------------------------------------------------
(* The request and its stream. *)

\* The loop sees the abort at its next look: at a chunk, or after an await.
Aborts ==
    /\ aborted /\ pc \in {"build", "stream", "decided"}
    /\ pc' = "aborted"
    /\ UNCHANGED <<log, stream, aborted, lifetime, active, decision, delegated>>

\* Mutant of BuildRequest: the chunks of the failed attempt are kept.
BuildRequestKeepsChunks ==
    /\ pc = "build" /\ ~aborted
    /\ route' \in Routes
    /\ attempt' = attempt + 1
    /\ pc' = "stream"
    /\ UNCHANGED <<log, chunkSeqs, aborted, lifetime, active, decision, delegated>>

\* buildRequest and the start of the stream: whatever registration is there now
\* serves the attempt.
BuildRequest ==
    /\ pc = "build" /\ ~aborted
    /\ route' \in Routes
    /\ attempt' = attempt + 1
    /\ chunkSeqs' = {}
    /\ pc' = "stream"
    /\ UNCHANGED <<log, aborted, lifetime, active, decision, delegated>>

Chunk ==
    /\ pc = "stream" /\ ~aborted /\ Cardinality(chunkSeqs) < MaxChunks
    /\ Append1([type |-> "chunk", attempt |-> attempt])
    /\ chunkSeqs' = chunkSeqs \cup {Len(log) + 1}
    /\ UNCHANGED <<pc, route, attempt, aborted, lifetime, active, decision, delegated>>

StreamCompletes ==
    /\ pc = "stream" /\ ~aborted
    /\ Append1([type |-> "message", attempt |-> attempt, sources |-> chunkSeqs])
    /\ pc' = "completed"
    /\ UNCHANGED <<stream, aborted, lifetime, active, decision, delegated>>

\* The stream ends with a failure: the waterfall of agent/request-error begins.
\* It captures the plugin's callback if that is registered now; a listener before
\* it may take the decision away from it.
StreamFails ==
    /\ pc = "stream" /\ ~aborted /\ attempt < MaxAttempts
    /\ \/ plugin = "up" /\ pc' = "captured" /\ captured' = reloads
       \/ pc' = "delegate" /\ UNCHANGED captured
    /\ UNCHANGED <<log, stream, aborted, plugin, reloads, active, decision, delegated>>

-----------------------------------------------------------------------------
(* Recovery. *)

\* The lifetime of the plugin whose callback runs is over.
Stale == plugin # "up" \/ captured # reloads
Cancelled == aborted \/ Stale

\* The policy's answer reaches step(); the recovery is not tracked any more.
Decides(what) ==
    /\ pc' = "decided" /\ decision' = what
    /\ active' = FALSE

\* The last retry of this very provider and policy in this step.
Previous(r) == IF RetriesOf(r) = {} THEN 0 ELSE log[Last(RetriesOf(r))].retry

\* Mutant of Exhausted: the budget is compared with the number about to be used.
ExhaustedLate(r) == Mode[r] = "normal" /\ Previous(r) > MaxRetries[r]

Exhausted(r) == Mode[r] = "normal" /\ Previous(r) >= MaxRetries[r]

\* A stale callback, captured before the plugin was disposed, fails closed.
FailsClosed ==
    /\ pc = "captured" /\ Stale
    /\ Decides("none")
    /\ UNCHANGED <<log, stream, aborted, lifetime, delegated>>

\* recover hands over: no policy, a code that is not retryable, a budget that is
\* used up, or a delay of the provider beyond the cap.
HandsOver ==
    /\ pc = "captured" /\ ~Stale /\ Mode[route] # "always"
    /\ pc' = "delegate" /\ active' = TRUE
    /\ UNCHANGED <<log, stream, aborted, lifetime, decision, delegated>>

\* Mode always asks the policy behind it first.
AsksDownstream ==
    /\ pc = "captured" /\ ~Stale /\ Mode[route] = "always"
    /\ IF aborted THEN Decides("none")
       ELSE pc' = "downstream" /\ active' = TRUE /\ UNCHANGED decision
    /\ UNCHANGED <<log, stream, aborted, lifetime, delegated>>

\* backoff, up to its wait: the retry is recorded before it waits.
Schedules ==
    IF Cancelled THEN Decides("none") /\ UNCHANGED log
    ELSE /\ Append1([type |-> "retry", route |-> route, retry |-> Previous(route) + 1])
         /\ pc' = "waiting" /\ active' = TRUE
         /\ UNCHANGED decision

\* recover of a retryable failure in mode normal, within the budget.
RecoversNormal ==
    /\ pc = "captured" /\ ~Stale /\ Mode[route] = "normal" /\ ~Exhausted(route)
    /\ Schedules
    /\ UNCHANGED <<stream, aborted, lifetime, delegated>>

\* The policy behind settles.  An abort wins; its retry is taken; anything else,
\* an error of it included, falls back to a retry of this policy.
DownstreamSettles ==
    /\ pc = "downstream"
    /\ \/ /\ IF Cancelled THEN Decides("none") /\ UNCHANGED delegated
             ELSE Decides("retry") /\ delegated' = delegated + 1
          /\ UNCHANGED log
       \/ Schedules /\ UNCHANGED delegated
    /\ UNCHANGED <<stream, aborted, lifetime>>

\* The decision of the policy behind the plugin is the waterfall's.
DelegateSettles ==
    /\ pc = "delegate"
    /\ \/ Decides("none") /\ UNCHANGED delegated
       \/ Decides("retry") /\ delegated' = delegated + 1
    /\ UNCHANGED <<log, stream, aborted, lifetime>>

\* The wait completes.  An abort or the disposal clears the timer at once.
WaitEnds ==
    /\ pc = "waiting" /\ ~Cancelled
    /\ Append1([type |-> "started", of |-> Last(Places("retry"))])
    /\ Decides("retry")
    /\ UNCHANGED <<stream, aborted, lifetime, delegated>>

\* Mutant of WaitCancelled: the retry is made at once.
WaitCutShort ==
    /\ pc = "waiting" /\ Cancelled
    /\ Decides("retry")
    /\ UNCHANGED <<log, stream, aborted, lifetime, delegated>>

\* Mutant of WaitCancelled: the timer is cleared by the disposal, and nobody told.
WaitIgnoresLifetime ==
    /\ pc = "waiting" /\ aborted
    /\ Decides("none")
    /\ UNCHANGED <<log, stream, aborted, lifetime, delegated>>

\* An abort or the disposal ends the wait without a retry.
WaitCancelled ==
    /\ pc = "waiting" /\ Cancelled
    /\ Decides("none")
    /\ UNCHANGED <<log, stream, aborted, lifetime, delegated>>

\* step() goes round its loop, or throws the failure.
Decided ==
    /\ pc = "decided" /\ ~aborted
    /\ pc' = IF decision = "retry" THEN "build" ELSE "failed"
    /\ decision' = "none"
    /\ UNCHANGED <<log, stream, aborted, lifetime, active, delegated>>

-----------------------------------------------------------------------------
(* The outside. *)

Over == pc \in {"completed", "failed", "aborted"}

Abort ==
    /\ ~aborted /\ ~Over
    /\ aborted' = TRUE
    /\ UNCHANGED <<log, pc, stream, lifetime, active, decision, delegated>>

\* The plugin is disposed: its listener is removed and its lifetime ends.
Dispose ==
    /\ plugin = "up" /\ reloads < MaxReloads
    /\ plugin' = "closing"
    /\ UNCHANGED <<log, pc, stream, aborted, captured, reloads, active, decision, delegated>>

\* The disposal has drained what the plugin tracked.
Drained ==
    /\ plugin = "closing" /\ ~active
    /\ plugin' = "down"
    /\ UNCHANGED <<log, pc, stream, aborted, captured, reloads, active, decision, delegated>>

Mount ==
    /\ plugin = "down"
    /\ plugin' = "up" /\ reloads' = reloads + 1
    /\ UNCHANGED <<log, pc, stream, aborted, captured, active, decision, delegated>>

Recovery ==
    FailsClosed \/ HandsOver \/ AsksDownstream \/ RecoversNormal \/ DownstreamSettles
      \/ DelegateSettles \/ WaitEnds \/ WaitCancelled

Next ==
    \/ BuildRequest \/ Chunk \/ StreamCompletes \/ StreamFails \/ Decided \/ Aborts
    \/ Recovery
    \/ Abort \/ Dispose \/ Drained \/ Mount

Spec == Init /\ [][Next]_vars

\* Timers fire, the policy behind settles (the plugin's README asks it to), and a
\* stream ends.
FairSpec ==
    /\ Spec
    /\ WF_vars(Recovery) /\ WF_vars(Decided) /\ WF_vars(Aborts) /\ WF_vars(BuildRequest)
    /\ WF_vars(StreamCompletes \/ StreamFails) /\ WF_vars(Drained)

-----------------------------------------------------------------------------
\* The finite budget of a provider's policy holds over the whole step, although
\* routes change between attempts and the plugin is mounted again: the count is
\* in the log.
BudgetHolds ==
    \A r \in Routes : Mode[r] = "normal" => Cardinality(RetriesOf(r)) <= MaxRetries[r]

\* What the plugin's companion asks of the log: the retries of one policy count
\* without a gap, and a start names the last retry that was scheduled, once.
RetryLogIsValid ==
    /\ \A k \in Places("retry") :
         log[k].retry = Cardinality({p \in RetriesOf(log[k].route) : p <= k})
    /\ \A k \in Places("started") :
         /\ log[k].of = Last({p \in Places("retry") : p < k})
         /\ \A p \in Places("started") : log[p].of = log[k].of => p = k

\* A request is made again only after a wait that completed or by the decision of
\* another policy, never by one that was cancelled.
AttemptsAreEarned ==
    attempt <= 1 + Cardinality(Places("started")) + delegated

\* What was retried can be read from the log: its retries are counted as the
\* companion asks, and no request was made again that they do not account for.
RetriesAreRecorded == RetryLogIsValid /\ AttemptsAreEarned

\* The message that the model sees is made of the chunks of one attempt: nothing
\* of a failed attempt is among its sources, and nothing of its own is missing.
MessageIsOneAttempt ==
    \A k \in Places("message") :
        log[k].sources = {p \in Places("chunk") : log[p].attempt = log[k].attempt}

\* An abort ends the step and a disposal ends the plugin, whatever wait or recovery
\* they meet.
AbortAndDisposalEnd ==
    /\ aborted ~> Over
    /\ plugin = "closing" ~> plugin # "closing"
=============================================================================

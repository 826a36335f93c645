----------------------------- MODULE Compaction -----------------------------
(***************************************************************************)
(* Compaction of a session's surface (compaction-basic): pressure at a     *)
(* step boundary, recovery from a context overflow, the manual command and *)
(* a region asked for by a tool, all of them through one transaction whose *)
(* lock is the unmatched compaction/start of the log.  With it the prune   *)
(* of large tool results, the surface the log folds to, and the token      *)
(* total that a projection keeps from the shadow prices in the log.        *)
(*                                                                         *)
(* The agent loop is cut down to what compaction can see of it.  Other     *)
(* plugins prune or append while a summary is awaited, a person cancels,   *)
(* an append of the transaction is vetoed, and the process crashes with    *)
(* whatever was not flushed.                                               *)
(***************************************************************************)
EXTENDS Integers, SequencesExt

CONSTANTS
    Pruner,             \* may compaction-tool-result-pruner be mounted when it is looked up?
    Threshold,          \* thresholdTokens of the routed model
    RetainTokens,       \* retainTokens of the routed model
    CompactionRetries,  \* the policy's compactionRetries
    MaxOverflowRetries, \* the policy's maxOverflowRetries
    PrunedTokens,       \* what a pruned tool result costs; larger ones are pruned
    CallCounts,         \* how many tools a message may call
    ResultSizes,        \* tokens that a tool result may cost
    SummarySizes,       \* tokens that a framed summary may cost
    MaxActs             \* bound: requests that are answered, prompts, cancels,
                        \* compactions asked for by a person or a tool, vetoes,
                        \* acts of other plugins, and crashes, together

ASSUME CompactionAssumption ==
    /\ Pruner \in (SUBSET BOOLEAN) \ {{}}
    /\ {Threshold, RetainTokens, CompactionRetries, MaxOverflowRetries} \subseteq Nat
    /\ PrunedTokens \in Nat /\ CallCounts \subseteq Nat /\ ResultSizes \subseteq Nat \ {0} /\ SummarySizes \subseteq Nat
    /\ MaxActs \in Nat

VARIABLES
    session,    \* the log, and what is folded from it event by event
    durable,    \* how much of the log survives a crash
    pc,         \* where the agent loop stands
    inbox,      \* prompts in the queue
    wake,       \* wakeRequested, and the wake of an idle agent
    aborted,    \* the signal of the activity
    pending,    \* tool calls without a result
    measured,   \* the surface as it was measured before the capacity was awaited
    job,        \* the transaction that runs
    retries,    \* overflowRetries
    reports,    \* history: what manual compactions were told
    vetoes,     \* history: appends that were refused
    acts        \* used up of the bound

loop == <<pc, inbox, wake, aborted, pending>>
policy == <<measured, retries>>
history == <<reports, vetoes, acts>>
vars == <<session, durable, loop, job, policy, history>>

-----------------------------------------------------------------------------
(* Events.  A surface event carries what it replaces: nothing, or the first *)
(* and the last node of a range together with the nodes that it cites.      *)

Mark(type) == [type |-> type]
Message(type, size) == [type |-> type, size |-> size, replaces |-> <<>>]
OnSurface(e) == e.type \in {"user/message", "assistant/message", "tool/result"}
Metering(e) == e.type \in {"compaction/summary", "compaction/prune"}

Empty == [log |-> <<>>, surface |-> <<>>, generation |-> 0, total |-> 0, claim |-> <<>>]

Place(nodes, n) == SelectInSeq(nodes, LAMBDA x : x = n)
Between(nodes, range) == SubSeq(nodes, Place(nodes, range[1]), Place(nodes, range[2]))
Replaced(nodes, range, n) ==
    SubSeq(nodes, 1, Place(nodes, range[1]) - 1) \o <<n>>
        \o SubSeq(nodes, Place(nodes, range[2]) + 1, Len(nodes))
Price(log, nodes) ==
    LET sum[k \in 0..Len(nodes)] == IF k = 0 THEN 0 ELSE sum[k - 1] + log[nodes[k]].size
    IN sum[Len(nodes)]

\* The range is on the surface, in order, and every node of it is cited; a tool
\* result takes the place of one result of the same call.
Admits(s, e) ==
    (OnSurface(e) /\ e.replaces # <<>>) =>
        /\ ToSet(e.replaces) \subseteq ToSet(s.surface)
        /\ Place(s.surface, e.replaces[1]) <= Place(s.surface, e.replaces[2])
        /\ ToSet(Between(s.surface, e.replaces)) \subseteq e.cites
        /\ e.type = "tool/result" =>
              LET old == s.log[e.replaces[1]] IN
              /\ e.replaces[1] = e.replaces[2]
              /\ old.type = "tool/result" /\ old.call = e.call

\* The claim on the price of the range that the next event replaces.
ClaimAfter(e) == IF Metering(e) THEN <<e.range, e.tokens>> ELSE <<>>

\* The change of the projected total.  A replacement without a claim is neutral;
\* with a claim on another range the projection throws, which is not modelled:
\* every replacement follows its own price (SummariesLand).
Delta(s, e) ==
    IF ~OnSurface(e) THEN 0
    ELSE IF e.replaces = <<>> THEN e.size
    ELSE IF s.claim # <<>> /\ s.claim[1] = e.replaces THEN e.size - s.claim[2]
    ELSE 0

After(s, e) ==
    LET seq == Len(s.log) + 1
        replaces == OnSurface(e) /\ e.replaces # <<>> IN
    [log |-> Append(s.log, e),
     surface |-> IF replaces THEN Replaced(s.surface, e.replaces, seq)
                 ELSE IF OnSurface(e) THEN Append(s.surface, seq) ELSE s.surface,
     generation |-> s.generation + (IF replaces THEN 1 ELSE 0),
     total |-> s.total + Delta(s, e),
     claim |-> ClaimAfter(e)]

Appended(s, events) == FoldLeft(After, s, events)

LatestOf(log, types) == SelectLastInSeq(log, LAMBDA e : e.type \in types)

\* 0 stands for no open turn.
OpenTurn(log) ==
    LET k == LatestOf(log, {"turn/start", "turn/end"})
    IN IF k > 0 /\ log[k].type = "turn/start" THEN k ELSE 0

\* The unmatched start that no later end-seed makes stale, or 0.
Lock(log) ==
    LET k == LatestOf(log, {"compaction/start", "compaction/end"})
    IN IF k > LatestOf(log, {"session/end-seed"}) /\ log[k].type = "compaction/start"
       THEN k ELSE 0

-----------------------------------------------------------------------------
(* Ranges. *)

InProgress(log, nodes) ==
    LET delta(e) == CASE e.type = "assistant/message" -> e.calls
                      [] e.type = "tool/result" -> -1
                      [] OTHER -> 0
        open[k \in 0..Len(nodes)] == IF k = 0 THEN 0 ELSE open[k - 1] + delta(log[nodes[k]])
    IN open[Len(nodes)]

\* Mutant of Balanced: a cut is refused only right after the message that calls.
BalancedAfterMessage(s, k) ==
    IF k = 0 THEN TRUE ELSE s.log[s.surface[k]].type # "assistant/message"

\* No unanswered call crosses the cut behind the first k nodes.
Balanced(s, k) == InProgress(s.log, SubSeq(s.surface, 1, k)) = 0

\* How many nodes at the head may be summarized: all but the newest ones that
\* are worth the tokens to retain, and then fewer until the cut is balanced.
SelectHead(s, retain) ==
    LET tail(k) == Price(s.log, SubSeq(s.surface, k, Len(s.surface)))
        size == Len(s.surface)
        keep == CHOOSE k \in 1..size :
                    /\ tail(k) >= retain \/ k = 1
                    /\ \A j \in (k + 1)..size : tail(j) < retain
        cuts == {k \in 0..(keep - 1) : Balanced(s, k)}
    IN IF size = 0 THEN 0 ELSE CHOOSE k \in cuts : \A j \in cuts : j <= k

-----------------------------------------------------------------------------
(* Pruning. *)

Prunable(s) == SelectSeq(s.surface, LAMBDA n :
                   s.log[n].type = "tool/result" /\ s.log[n].size > PrunedTokens)

Metered(s, n) == [type |-> "compaction/prune", range |-> <<n, n>>,
                  tokens |-> s.log[n].size]
Rewritten(s, n) == [type |-> "tool/result", call |-> s.log[n].call,
                    size |-> PrunedTokens, replaces |-> <<n, n>>, cites |-> {n}]

\* Mutant of PruneOne: the price is taken from the result that replaces it.
PruneOneNewPrice(s, n) ==
    Appended(s, <<[Metered(s, n) EXCEPT !.tokens = PrunedTokens], Rewritten(s, n)>>)

PruneOne(s, n) == Appended(s, <<Metered(s, n), Rewritten(s, n)>>)

\* pruneSession over one reading of the surface.
Pruned(s) == FoldLeft(PruneOne, s, Prunable(s))

\* The n-th rewrite is refused behind its price: pruneSession throws, and what it
\* rewrote before stays.
PruneCut(s, n) ==
    After(FoldLeft(PruneOne, s, SubSeq(Prunable(s), 1, n - 1)), Metered(s, Prunable(s)[n]))

-----------------------------------------------------------------------------
(* The state a resumed session starts from, and bookkeeping of the bounds. *)

Idle == [caller |-> "none"]

\* A closed turn with one tool call, and the marker of the resume.
Resumed == <<Mark("turn/start"), Message("user/message", 1),
             [type |-> "assistant/message", size |-> 1, calls |-> 1, replaces |-> <<>>],
             [type |-> "tool/result", call |-> <<3, 1>>, size |-> 3, replaces |-> <<>>],
             Mark("turn/end"), Mark("session/end-seed")>>

Init ==
    /\ session = Appended(Empty, Resumed) /\ durable = Len(Resumed)
    /\ \/ pc = "idle" /\ inbox = 0
       \/ pc = "waking" /\ inbox = 1
    /\ wake = FALSE /\ aborted = FALSE /\ pending = 0
    /\ job = Idle /\ measured = <<>> /\ retries = 0
    /\ reports = {} /\ vetoes = 0
    /\ acts = 0

Acts == acts < MaxActs /\ acts' = acts + 1

\* An append that a listener refuses before it is committed.
Vetoed == Acts /\ vetoes' = vetoes + 1
Undisturbed == UNCHANGED <<acts, vetoes>>

-----------------------------------------------------------------------------
(* The agent loop, as far as compaction meets it. *)

\* The status event of an idle agent clears its retries; a latched wake then
\* opens the next turn.
ComesToRest(woken) ==
    /\ pc' = IF woken /\ inbox > 0 THEN "waking" ELSE "idle"
    /\ wake' = FALSE /\ aborted' = FALSE /\ retries' = 0
    /\ UNCHANGED inbox

\* A turn that was completed goes on with the next prompt; one that failed or
\* was aborted only with a wake that was latched.
TurnEnds(s, completed) ==
    /\ session' = After(s, Mark("turn/end"))
    /\ IF completed /\ inbox > 0
       THEN /\ pc' = "waking" /\ wake' = FALSE
            /\ UNCHANGED <<inbox, aborted>>
       ELSE ComesToRest(wake /\ ~completed)

Prompt ==
    /\ Acts
    /\ inbox' = inbox + 1
    /\ IF pc = "idle" THEN pc' = "waking" /\ UNCHANGED wake
       ELSE wake' = (wake \/ pc = "maintenance" \/ aborted) /\ UNCHANGED pc
    /\ UNCHANGED <<session, durable, aborted, pending, job, policy, reports, vetoes>>

\* cancel() clears the queue and the latch.
Cancel ==
    /\ pc # "idle" /\ ~aborted /\ Acts
    /\ inbox' = 0 /\ wake' = FALSE /\ aborted' = TRUE
    /\ UNCHANGED <<session, durable, pc, pending, job, policy, reports, vetoes>>

TurnStarts ==
    /\ pc = "waking"
    /\ IF aborted
       THEN ComesToRest(wake) /\ UNCHANGED session
       ELSE /\ session' = After(session, Mark("turn/start"))
            /\ pc' = "prestep" /\ inbox' = inbox - 1
            /\ UNCHANGED <<wake, aborted, retries>>
    /\ UNCHANGED <<durable, pending, job, measured, history>>

\* The step that was prepared enters with the prompt of a turn's first step.
Enters ==
    /\ pc = "enter" /\ ~aborted
    /\ LET first == session.log[LatestOf(session.log,
                      {"turn/start", "assistant/message"})].type = "turn/start" IN
       session' = IF first THEN After(session, Message("user/message", 1)) ELSE session
    /\ pc' = "request"
    /\ UNCHANGED <<durable, inbox, wake, aborted, pending, job, policy, history>>

AbortEnds ==
    /\ pc \in {"prestep", "enter", "request"} /\ aborted
    /\ TurnEnds(session, FALSE)
    /\ UNCHANGED <<durable, pending, job, measured, history>>

\* An assistant message starts a fresh overflow-recovery sequence.
RequestCompletes(calls) ==
    LET said == After(session, [type |-> "assistant/message", size |-> 1,
                                calls |-> calls, replaces |-> <<>>]) IN
    /\ pc = "request" /\ ~aborted /\ Acts
    /\ IF calls = 0
       THEN TurnEnds(said, TRUE) /\ retries' = 0
       ELSE session' = said /\ pc' = "tools" /\ retries' = 0 /\ UNCHANGED <<inbox, wake, aborted>>
    /\ pending' = calls
    /\ UNCHANGED <<durable, job, measured, reports, vetoes>>

\* The error chunk of the attempt is logged; its code is context-window-exceeded.
RequestOverflows ==
    /\ pc = "request" /\ ~aborted /\ Acts
    /\ session' = After(session, Mark("overflow"))
    /\ pc' = "recovering"
    /\ UNCHANGED <<durable, inbox, wake, aborted, pending, job, policy, reports, vetoes>>

RequestFails ==
    /\ pc = "request" /\ ~aborted
    /\ TurnEnds(session, FALSE)
    /\ UNCHANGED <<durable, pending, job, measured, history>>

\* Results enter in the order of the calls; a tool that awaits a compaction of
\* its own is the last of them.
ToolAnswers(size) ==
    LET k == LatestOf(session.log, {"assistant/message"}) IN
    /\ pc = "tools" /\ pending > (IF job = Idle THEN 0 ELSE 1)
    /\ session' = After(session, [type |-> "tool/result", size |-> size, replaces |-> <<>>,
                          call |-> <<k, session.log[k].calls - pending + 1>>])
    /\ pending' = pending - 1
    /\ pc' = IF pending = 1 THEN "prestep" ELSE "tools"
    /\ UNCHANGED <<durable, inbox, wake, aborted, job, policy, history>>

\* The scheduler fails: what was dispatched settles, and step and turn end without
\* results for the calls that are left.  Only such a step's end is in the log here;
\* the end of any other step changes nothing of what is modelled.
ToolPhaseFails ==
    /\ pc = "tools" /\ job = Idle
    /\ TurnEnds(After(session, Mark("step/end")), FALSE)
    /\ pending' = 0
    /\ UNCHANGED <<durable, job, measured, history>>

-----------------------------------------------------------------------------
(* The transaction. *)

\* compaction/start is appended in the job that validated the range and the lock.
Begin(s, span, caller, tries, generation) ==
    LET id == Len(s.log) + 1 IN
    /\ session' = After(s, [type |-> "compaction/start",
                            turn |-> IF caller = "manual" THEN 0 ELSE OpenTurn(s.log)])
    /\ job' = [caller |-> caller, phase |-> "summary", id |-> id, span |-> span,
               snapshot |-> s.surface, tokens |-> Price(s.log, span),
               tries |-> tries, generation |-> generation, outcome |-> "none"]

ShadowedRange == <<job.span[1], job.span[Len(job.span)]>>

\* Mutant of Stable: no second look at the surface.
StableAlways == TRUE

\* A turn-owned transaction wants the whole surface unchanged; a manual one
\* only the span it summarized.
Stable ==
    IF job.caller = "manual"
    THEN /\ ToSet(ShadowedRange) \subseteq ToSet(session.surface)
         /\ Between(session.surface, ShadowedRange) = job.span
         /\ Balanced(session, Place(session.surface, ShadowedRange[1]) - 1)
         /\ Balanced(session, Place(session.surface, ShadowedRange[2]))
    ELSE session.surface = job.snapshot

\* An attempt of pressure below its last: another head is chosen, or it gives up.
PressureContinues(s) ==
    LET head == SelectHead(s, RetainTokens) IN
    IF Price(s.log, s.surface) >= Threshold /\ job.tries > 0 /\ head > 0
    THEN /\ Begin(s, SubSeq(s.surface, 1, head), "pressure", job.tries - 1, 0)
         /\ UNCHANGED <<pc, inbox, wake, aborted, retries>>
    ELSE /\ session' = s /\ job' = Idle /\ pc' = "enter"
         /\ UNCHANGED <<inbox, wake, aborted, retries>>

\* Mutant of RecoveryEnds: the listener asks only whether the recovery threw.
RecoveryEndsUnproved(s, generation) ==
    IF ~aborted
    THEN /\ session' = s /\ pc' = "request" /\ retries' = retries + 1
         /\ UNCHANGED <<inbox, wake, aborted>>
    ELSE TurnEnds(s, FALSE)

\* The request is sent again only over a surface that was replaced since it failed.
RecoveryEnds(s, generation) ==
    IF ~aborted /\ s.generation > generation
    THEN /\ session' = s /\ pc' = "request" /\ retries' = retries + 1
         /\ UNCHANGED <<inbox, wake, aborted>>
    ELSE TurnEnds(s, FALSE)

\* The outcome is handed to whoever awaits the transaction.  A manual one that
\* was closed is flushed first.
Returns(s, outcome, closed) ==
    CASE job.caller = "pressure" ->
            IF outcome = "ok" THEN PressureContinues(s)
            ELSE /\ session' = s /\ job' = Idle /\ pc' = "enter"
                 /\ UNCHANGED <<inbox, wake, aborted, retries>>
      [] job.caller = "overflow" -> RecoveryEnds(s, job.generation) /\ job' = Idle
      [] job.caller = "tool" ->
            /\ session' = s /\ job' = Idle
            /\ UNCHANGED <<pc, inbox, wake, aborted, retries>>
      [] job.caller = "manual" /\ closed ->
            /\ session' = s
            /\ job' = [job EXCEPT !.phase = "flush", !.outcome = outcome,
                                  !.snapshot = <<>>, !.tokens = Len(s.log)]
            /\ UNCHANGED <<pc, inbox, wake, aborted, retries>>
      [] OTHER -> session' = s /\ job' = Idle /\ ComesToRest(wake)

EndOf(ok) == [type |-> "compaction/end", id |-> job.id, ok |-> ok,
              turn |-> session.log[job.id].turn]
SummaryOf == [type |-> "compaction/summary", id |-> job.id, range |-> ShadowedRange,
              span |-> job.span, tokens |-> job.tokens]
CheckpointOf(size) ==
    [type |-> "user/message", size |-> size, id |-> job.id, replaces |-> ShadowedRange,
     cites |-> ToSet(job.span)]

\* Mutant of FailsWith: only a summary that failed is closed, not one that came
\* too late for its span.
FailsWithOpen(s, outcome) ==
    \/ /\ Undisturbed
       /\ Returns(IF outcome = "changed" THEN s ELSE After(s, EndOf(FALSE)), outcome, TRUE)
    \/ Vetoed /\ Returns(s, "commit", FALSE)

\* Every failure makes one attempt to close; when that is refused the start stays
\* unmatched.
FailsWith(s, outcome) ==
    \/ Undisturbed /\ Returns(After(s, EndOf(FALSE)), outcome, TRUE)
    \/ Vetoed /\ Returns(s, "commit", FALSE)

\* The summary, its checkpoint and the end in one job.  A refused summary or
\* checkpoint is followed by an end with the error, a refused end by nothing.
Commits(size) ==
    LET summarized == After(session, SummaryOf)
        admitted == Admits(summarized, CheckpointOf(size)) IN
    \/ /\ Undisturbed
       /\ IF admitted
          THEN Returns(Appended(summarized, <<CheckpointOf(size), EndOf(TRUE)>>), "ok", TRUE)
          ELSE Returns(After(summarized, EndOf(FALSE)), "commit", TRUE)
    \/ Vetoed /\ Returns(After(session, EndOf(FALSE)), "commit", TRUE)
    \/ Vetoed /\ Returns(After(summarized, EndOf(FALSE)), "commit", TRUE)
    \/ /\ Vetoed /\ admitted
       /\ Returns(After(summarized, CheckpointOf(size)), "commit", FALSE)

\* The model call fails, is aborted, or answers with something that is no text.
SummaryFails ==
    /\ job # Idle /\ job.phase = "summary"
    /\ FailsWith(session, "summary")
    /\ UNCHANGED <<durable, pending, measured, reports>>

SummaryArrives(size) ==
    /\ job # Idle /\ job.phase = "summary"
    /\ IF size >= job.tokens \/ (job.caller = "manual" /\ aborted)
       THEN FailsWith(session, "summary")
       ELSE IF ~Stable THEN FailsWith(session, "changed")
       ELSE Commits(size)
    /\ UNCHANGED <<durable, pending, measured, reports>>

-----------------------------------------------------------------------------
(* Pressure before a step. *)

\* The surface is priced, and then the capacity of the routed model is awaited.
PreStepMeasures ==
    /\ pc = "prestep" /\ ~aborted
    /\ measured' = session.surface /\ pc' = "resolving"
    /\ UNCHANGED <<session, durable, inbox, wake, aborted, pending, job, retries, history>>

\* The step goes on without a summary.
Skips(s) == session' = s /\ pc' = "enter" /\ UNCHANGED job

\* With a pruner the surface is measured anew, without one the reading from
\* before the wait must still be the surface.
ConsidersPressure(pruner) ==
    LET pruned == IF pruner THEN Pruned(session) ELSE session
        nodes == IF pruner THEN pruned.surface ELSE measured
        head == SelectHead(pruned, RetainTokens) IN
    IF Lock(session.log) # 0 \/ Price(session.log, measured) < Threshold
    THEN Skips(session)
    ELSE IF \/ Price(pruned.log, nodes) < Threshold
            \/ nodes # pruned.surface
            \/ head = 0
    THEN Skips(pruned)
    ELSE /\ Begin(pruned, SubSeq(pruned.surface, 1, head), "pressure", CompactionRetries, 0)
         /\ pc' = "compacting"

CapacityArrives ==
    /\ pc = "resolving"
    /\ \/ \E pruner \in Pruner : ConsidersPressure(pruner) /\ Undisturbed
       \/ /\ TRUE \in Pruner /\ Lock(session.log) = 0
          /\ Price(session.log, measured) >= Threshold
          /\ \E n \in DOMAIN Prunable(session) : Skips(PruneCut(session, n)) /\ Vetoed
    /\ measured' = <<>>
    /\ UNCHANGED <<durable, inbox, wake, aborted, pending, retries, reports>>

\* The adapter has no capacity for the model, or rejects: the turn continues.
CapacityFails ==
    /\ pc = "resolving"
    /\ pc' = "enter" /\ measured' = <<>>
    /\ UNCHANGED <<session, durable, inbox, wake, aborted, pending, job, retries, history>>

-----------------------------------------------------------------------------
(* Recovery from an overflow. *)

Recovers(pruner) ==
    LET pruned == IF pruner THEN Pruned(session) ELSE session
        head == SelectHead(pruned, 0) IN
    IF head = 0 \/ Lock(pruned.log) # 0
    THEN RecoveryEnds(pruned, session.generation) /\ UNCHANGED job
    ELSE /\ Begin(pruned, SubSeq(pruned.surface, 1, head), "overflow", 0, session.generation)
         /\ pc' = "compacting"
         /\ UNCHANGED <<inbox, wake, aborted, retries>>

OverflowIsHandled ==
    /\ pc = "recovering"
    /\ IF aborted \/ retries >= MaxOverflowRetries
       THEN TurnEnds(session, FALSE) /\ UNCHANGED job /\ Undisturbed
       ELSE \/ \E pruner \in Pruner : Recovers(pruner) /\ Undisturbed
            \/ /\ TRUE \in Pruner /\ UNCHANGED job /\ Vetoed
               /\ \E n \in DOMAIN Prunable(session) :
                     RecoveryEnds(PruneCut(session, n), session.generation)
    /\ UNCHANGED <<durable, pending, measured, reports>>

-----------------------------------------------------------------------------
(* The manual command, and a tool that compacts a region. *)

\* compactNow reserves the idle agent and begins in the same job.  Without a
\* range, or with the lock taken, it leaves everything as it was.
CompactNow ==
    LET head == SelectHead(session, 0) IN
    /\ pc = "idle" /\ Acts
    /\ head > 0 /\ Lock(session.log) = 0 /\ OpenTurn(session.log) = 0
    /\ Begin(session, SubSeq(session.surface, 1, head), "manual", 0, 0)
    /\ pc' = "maintenance"
    /\ UNCHANGED <<durable, inbox, wake, aborted, pending, policy, reports, vetoes>>

\* compactRegion inside a turn: the range may be anywhere between two balanced cuts.
ToolCompacts(i, j) ==
    /\ pc = "tools" /\ pending > 0 /\ job = Idle /\ Acts
    /\ i <= j /\ Balanced(session, i - 1) /\ Balanced(session, j)
    /\ Lock(session.log) = 0
    /\ Begin(session, SubSeq(session.surface, i, j), "tool", 0, 0)
    /\ UNCHANGED <<durable, loop, policy, reports, vetoes>>

\* What the caller of compactNow is told after the flush, and the release of the
\* agent.  An abort is told before anything else.
Answers(flushed) ==
    /\ reports' = IF aborted THEN reports
                  ELSE reports \cup {[id |-> job.id, told |->
                         IF job.outcome = "ok" /\ ~flushed THEN "persistence" ELSE job.outcome]}
    /\ job' = Idle
    /\ ComesToRest(wake)

\* Mutant of FlushSucceeds: the outcome is told without the flush.
FlushSkipped ==
    /\ job # Idle /\ job.phase = "flush"
    /\ Answers(TRUE)
    /\ UNCHANGED <<session, durable, pending, measured, vetoes, acts>>

FlushSucceeds ==
    /\ job # Idle /\ job.phase = "flush"
    /\ durable' = IF durable < job.tokens THEN job.tokens ELSE durable
    /\ Answers(TRUE)
    /\ UNCHANGED <<session, pending, measured, vetoes, acts>>

FlushFails ==
    /\ job # Idle /\ job.phase = "flush"
    /\ Answers(FALSE)
    /\ UNCHANGED <<session, durable, pending, measured, vetoes, acts>>

-----------------------------------------------------------------------------
(* Other plugins, and the crash. *)

Awaiting == job # Idle \/ pc = "resolving"

OtherPrunes ==
    /\ Awaiting /\ Prunable(session) # <<>> /\ Acts
    /\ session' = Pruned(session)
    /\ UNCHANGED <<durable, loop, job, policy, reports, vetoes>>

OtherAppends ==
    /\ Awaiting /\ pc # "tools" /\ Acts
    /\ session' = After(session, Message("user/message", 1))
    /\ UNCHANGED <<durable, loop, job, policy, reports, vetoes>>

\* Calls of the open step without a result, in their order.
Unanswered(log) ==
    LET a == LatestOf(log, {"assistant/message"})
        open == OpenTurn(log) # 0 /\ a > OpenTurn(log) /\ a > LatestOf(log, {"step/end"})
        answered == {log[k].call : k \in {n \in DOMAIN log : log[n].type = "tool/result"}}
        missing == {i \in 1..log[a].calls : <<a, i>> \notin answered}
    IN IF open THEN SetToSortSeq(missing, <) ELSE <<>>

\* interruptedTurnClosers and the end-seed marker of the restored session.
Restored(log) ==
    LET a == LatestOf(log, {"assistant/message"})
        missing == Unanswered(log)
        results == [i \in DOMAIN missing |->
            [type |-> "tool/result", call |-> <<a, missing[i]>>, size |-> 1, replaces |-> <<>>]]
        turnEnd == IF OpenTurn(log) = 0 THEN <<>> ELSE <<Mark("turn/end")>>
        repaired == log \o results \o turnEnd
    IN IF repaired[Len(repaired)].type = "session/end-seed" THEN repaired
       ELSE Append(repaired, Mark("session/end-seed"))

\* Some prefix of the log is on disk; the next process folds it anew.
Crash(cut) ==
    /\ Acts
    /\ cut \in durable..Len(session.log)
    /\ session' = Appended(Empty, Restored(SubSeq(session.log, 1, cut)))
    /\ durable' = cut
    /\ pc' = "idle" /\ inbox' = 0 /\ wake' = FALSE /\ aborted' = FALSE /\ pending' = 0
    /\ job' = Idle /\ measured' = <<>> /\ retries' = 0
    /\ reports' = {r \in reports : r.told = "ok"}
    /\ UNCHANGED vetoes

-----------------------------------------------------------------------------

Work ==
    \/ TurnStarts \/ Enters \/ AbortEnds
    \/ \E calls \in CallCounts : RequestCompletes(calls)
    \/ RequestOverflows \/ RequestFails
    \/ \E size \in ResultSizes : ToolAnswers(size)
    \/ ToolPhaseFails
    \/ PreStepMeasures \/ CapacityArrives \/ CapacityFails \/ OverflowIsHandled
    \/ SummaryFails \/ \E size \in SummarySizes : SummaryArrives(size)
    \/ FlushSucceeds \/ FlushFails

Next ==
    \/ Work
    \/ Prompt \/ Cancel \/ CompactNow
    \/ \E i, j \in DOMAIN session.surface : ToolCompacts(i, j)
    \/ OtherPrunes \/ OtherAppends
    \/ \E cut \in durable..Len(session.log) : Crash(cut)

Spec == Init /\ [][Next]_vars

-----------------------------------------------------------------------------
(* Properties. *)

Surfaced(type) == {k \in DOMAIN session.surface : session.log[session.surface[k]].type = type}

\* The step of the message at place n ended in a failure of the scheduler.
LeftUnanswered(log, n) ==
    LET next == SelectInSubSeq(log, n + 1, Len(log), LAMBDA e :
                    e.type \in {"assistant/message", "step/end"})
    IN next # 0 /\ log[next].type = "step/end"

\* Every call on the surface has its one result behind it, and every result its
\* call before it, however the surface was cut by summaries, rewritten by prunes
\* and repaired after crashes.  A call without a result waits in the step that
\* runs, or its step ended in a failure of the scheduler, which fabricates no
\* results: the last calls of that step dangle from then on, and no repair and no
\* compaction takes them off the surface.
SurfaceIsPaired ==
    LET log == session.log
        at(k) == session.surface[k]
        waits(n, i) == /\ pc = "tools" /\ n = LatestOf(log, {"assistant/message"})
                       /\ i > log[n].calls - pending
        results(n, i) == {j \in Surfaced("tool/result") : log[at(j)].call = <<n, i>>}
        dangles(n, i) == /\ LeftUnanswered(log, n)
                         /\ \A later \in i..log[n].calls : results(n, later) = {}
    IN /\ \A k \in Surfaced("assistant/message") : \A i \in 1..log[at(k)].calls :
            IF waits(at(k), i) THEN results(at(k), i) = {}
            ELSE \/ \E j \in Surfaced("tool/result") : j > k /\ results(at(k), i) = {j}
                 \/ dangles(at(k), i)
       /\ \A j \in Surfaced("tool/result") :
            \E k \in Surfaced("assistant/message") : k < j /\ log[at(j)].call[1] = at(k)
       /\ \A n \in DOMAIN log :
            log[n].type = "assistant/message" /\ LeftUnanswered(log, n)
                => n \in ToSet(session.surface)

\* The total that the projection keeps without knowing the surface is the price
\* of the surface: every replacement finds the claim that prices its range, also
\* when an append was refused or the log was cut between the two.
ProjectionIsExact == session.total = Price(session.log, session.surface)

\* inheritedOrphanStartSeqs: an end-seed proves that the start is of an earlier life.
Stale(log, start) ==
    LET next == SelectInSubSeq(log, start + 1, Len(log), LAMBDA e :
                    e.type \in {"compaction/start", "compaction/end", "session/end-seed"})
    IN next # 0 /\ log[next].type = "session/end-seed"

\* What the companion checks before an event follows a log with the trace t.
CompanionAccepts(log, t, e) ==
    CASE e.type \in {"turn/start", "turn/end"} -> t.open = 0 \/ Stale(log, t.open)
      [] e.type = "user/message" -> e.replaces = <<>> \/ (t.open # 0 /\ e.id = t.open)
      [] e.type = "compaction/start" -> t.open = 0 /\ e.turn = t.turn
      [] e.type = "compaction/summary" ->
            /\ t.open # 0 /\ e.id = t.open /\ t.owner = t.turn /\ ~t.summarized
            /\ e.span # <<>> /\ e.range = <<e.span[1], e.span[Len(e.span)]>>
      [] e.type = "compaction/end" ->
            /\ t.open # 0 /\ e.id = t.open /\ e.turn = t.owner /\ t.owner = t.turn
            /\ e.ok => t.summarized
      [] OTHER -> TRUE

CompanionTrace(t, e, k) ==
    CASE e.type = "turn/start" -> [t EXCEPT !.turn = k]
      [] e.type = "turn/end" -> [t EXCEPT !.turn = 0]
      [] e.type = "compaction/start" ->
            [t EXCEPT !.open = k, !.owner = e.turn, !.summarized = FALSE]
      [] e.type = "compaction/summary" -> [t EXCEPT !.summarized = TRUE]
      [] e.type \in {"compaction/end", "session/end-seed"} -> [t EXCEPT !.open = 0]
      [] OTHER -> t

CompanionAdmits(log) ==
    LET fresh == [turn |-> 0, open |-> 0, owner |-> 0, summarized |-> FALSE]
        check[k \in 0..Len(log)] ==
            IF k = 0 THEN [trace |-> fresh, ok |-> TRUE]
            ELSE LET before == check[k - 1] IN
                 [trace |-> CompanionTrace(before.trace, log[k], k),
                  ok |-> before.ok /\ CompanionAccepts(log, before.trace, log[k])]
    IN check[Len(log)].ok

Running == job # Idle /\ job.phase = "summary"

\* The companion of the compaction events accepts the log, with the end-seed
\* that a restart would add once nothing runs: no transaction inside another, no
\* event of one after its end, no turn boundary inside one.  A start without its
\* end belongs to the transaction that runs, or an append was refused.
LogIsBracketed ==
    /\ CompanionAdmits(IF Running THEN session.log
                       ELSE Append(session.log, Mark("session/end-seed")))
    /\ (Lock(session.log) # 0 /\ vetoes = 0) => Running
    /\ Running => Lock(session.log) = job.id

\* A replacement follows its price directly and is cheaper than what it replaces.
\* A summary that was logged but does not replace its span is the work of a veto:
\* whatever else changed the surface was seen before the summary was logged.
SummariesLand ==
    LET log == session.log IN
    /\ \A k \in DOMAIN log : (OnSurface(log[k]) /\ log[k].replaces # <<>>) =>
            /\ Metering(log[k - 1]) /\ log[k - 1].range = log[k].replaces
            /\ log[k].size < log[k - 1].tokens
    /\ Cardinality({k \in DOMAIN log : /\ log[k].type = "compaction/summary"
                                       /\ k < Len(log) /\ log[k + 1].type = "compaction/end"})
          <= vetoes

Checkpoints(id) == {k \in DOMAIN session.log :
    /\ session.log[k].type = "user/message" /\ session.log[k].replaces # <<>>
    /\ session.log[k].id = id}

\* A compaction that was reported to its caller is in the log after any crash,
\* and one that was reported as "summary" or "changed" has replaced nothing.
ReportedIsTrue ==
    \A r \in reports :
        /\ r.told = "ok" => \E k \in Checkpoints(r.id) : k < Len(session.log)
              /\ session.log[k + 1].type = "compaction/end" /\ session.log[k + 1].ok
        /\ r.told \in {"summary", "changed"} => Checkpoints(r.id) = {}

\* Between two overflows of one recovery sequence the surface was replaced, and
\* there are no more than the policy's retries: a request that cannot get smaller
\* is not sent again.
RetriesMakeProgress ==
    LET log == session.log
        overflows == {k \in DOMAIN log : /\ log[k].type = "overflow"
                         /\ k > LatestOf(log, {"turn/start", "assistant/message"})}
    IN /\ Cardinality(overflows) <= MaxOverflowRetries + 1
       /\ \A a, b \in overflows : a < b =>
            \E k \in a..b : OnSurface(log[k]) /\ log[k].replaces # <<>>
=============================================================================

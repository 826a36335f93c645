--------------------------- MODULE ToolScheduler ---------------------------
(***************************************************************************)
(* The tool calls of one assistant step: the scheduler (tool-calls.ts),    *)
(* the durability checkpoint before each tool body (the checkpoint policy  *)
(* on tools/execute), and the repair of the session after a crash.         *)
(*                                                                         *)
(* The scheduler is one sequential task.  It waits at "prepare" (ordered   *)
(* pre-execute), "finalize" (ordered post-execute), "race" (for one of the *)
(* dispatched calls) and "drain" (for all of them).  Between those points  *)
(* it only lets other jobs run, so dispatched calls, the persistence of    *)
(* the log and the abort interleave with every one of its actions.         *)
(***************************************************************************)
EXTENDS Integers, FiniteSets, SessionLog

CONSTANTS
    NumCalls,      \* tool calls of the assistant message; without any there is no call
    MaxParallel    \* config.maxParallelToolCalls

ASSUME SchedulerAssumption == NumCalls \in Nat \ {0} /\ MaxParallel \in Nat \ {0}

Calls == 1..NumCalls

VARIABLES
    pc,         \* where the step stands
    mode,       \* execution mode of the current group
    first,      \* the group's first call
    next,       \* the next call to start
    commit,     \* the next call to commit
    slot,       \* what a call's settled dispatch awaits: "post" or "final"
    stage,      \* a dispatched call: "flush", "body" or "settled"
    mark,       \* length of the log when a call asked for its checkpoint
    failure,    \* schedulerFailure is set
    signal,     \* the step's abort signal is aborted
    aborted,    \* the group's copy of the signal
    log,        \* the session's events
    durable,    \* length of the durable prefix of the log
    ran,        \* calls whose tool body was entered
    exclusive   \* started calls that were classified exclusive

group == <<mode, first, next, commit, aborted, exclusive>>
disk == <<log, durable>>
vars == <<pc, group, slot, stage, mark, failure, signal, disk, ran>>

Modes == {"parallel", "exclusive"}
Over == {"done", "failed", "closed", "crashed", "resumed"}

Event(kind) == [type |-> kind, turn |-> 1, step |-> 1]
ToolCall(i) == [type |-> "tool/call", turn |-> 1, step |-> 1, call |-> i]
ToolResult(i, outcome) == [type |-> "tool/result", turn |-> 1, step |-> 1, call |-> i,
                           outcome |-> outcome]

\* The request was checkpointed before the model answered with its calls.
Init ==
    /\ pc = "plan" /\ mode = "parallel" /\ first = 1 /\ next = 1 /\ commit = 1
    /\ slot = [i \in Calls |-> "none"]
    /\ stage = [i \in Calls |-> "none"]
    /\ mark = [i \in Calls |-> 0]
    /\ failure = FALSE /\ signal = FALSE /\ aborted = FALSE
    /\ log = <<[type |-> "turn/start", turn |-> 1], Event("step/start"),
               [type |-> "assistant/message", turn |-> 1, step |-> 1,
                calls |-> [i \in Calls |-> i]]>>
    /\ durable = 2
    /\ ran = {} /\ exclusive = {}

InFlight == {i \in Calls : stage[i] # "none"}
Positions(kind, i) ==
    {p \in DOMAIN log : log[p].type = kind /\ log[p].call = i}

-----------------------------------------------------------------------------
(* The scheduler. *)

\* Record call i and await its ordered pre-execute.
StartCall(i, kind) ==
    /\ log' = Append(log, ToolCall(i))
    /\ exclusive' = IF kind = "exclusive" THEN exclusive \cup {i} ELSE exclusive
    /\ pc' = "prepare"
    /\ UNCHANGED <<next, commit>>

\* The call/result pairs of the calls that an abort skips.
Skipped(from) ==
    [k \in 1..(2 * (NumCalls - from + 1)) |->
        LET i == from + (k - 1) \div 2
        IN IF k % 2 = 1 THEN ToolCall(i) ELSE ToolResult(i, "skipped")]

\* Mutant of EndGroup: the first call that the abort skips gets no answer.
EndGroupSkipsOne(stop) ==
    /\ pc' = IF stop \/ next > NumCalls THEN "done" ELSE "plan"
    /\ log' = IF stop THEN log \o Skipped(next + 1) ELSE log
    /\ UNCHANGED <<next, commit, exclusive>>

\* The group is over: after an abort every later call is skipped.
EndGroup(stop) ==
    /\ pc' = IF stop \/ next > NumCalls THEN "done" ELSE "plan"
    /\ log' = IF stop THEN log \o Skipped(next) ELSE log
    /\ UNCHANGED <<next, commit, exclusive>>

\* executeToolCalls: classify the next call and open its group.
BeginGroup ==
    /\ pc = "plan" /\ next <= NumCalls
    /\ first' = next
    /\ aborted' = signal
    /\ \E kind \in Modes :
         /\ mode' = kind
         /\ IF signal THEN EndGroup(TRUE) ELSE StartCall(next, kind)
    /\ UNCHANGED <<slot, stage, mark, failure, signal, durable, ran>>

\* Mutant of FillPool: the rest of a parallel group is not classified again, so
\* an exclusive call joins the pool.
FillPoolKeepsMode(stop) ==
    /\ aborted' = stop
    /\ UNCHANGED <<mode, first>>
    /\ LET mayStart == /\ ~stop /\ mode = "parallel" /\ next <= NumCalls
                       /\ Cardinality(InFlight) < MaxParallel
           rest == IF InFlight = {} THEN EndGroup(stop)
                   ELSE pc' = "race" /\ UNCHANGED <<log, next, commit, exclusive>>
       IN \/ mayStart /\ \E kind \in Modes : StartCall(next, kind)
          \/ ~mayStart /\ rest

\* fillPool: start the next call of the group if there is room and it is still
\* parallel; otherwise wait for the calls in flight.
FillPool(stop) ==
    /\ aborted' = stop
    /\ UNCHANGED <<mode, first>>
    /\ LET mayStart == /\ ~stop /\ mode = "parallel" /\ next <= NumCalls
                       /\ Cardinality(InFlight) < MaxParallel
           rest == IF InFlight = {} THEN EndGroup(stop)
                   ELSE pc' = "race" /\ UNCHANGED <<log, next, commit, exclusive>>
       IN \/ mayStart /\ StartCall(next, "parallel")
          \/ rest     \* no room, an abort, or the call is exclusive now

\* What a call that is not dispatched gets: a denial or a late abort, which
\* post-execute still sees, or an early abort or a failure, which is final.
Undispatched == {"post", "final"}

\* startCall after its await: dispatch, or a result without a dispatch.
PrepareReturns ==
    /\ pc = "prepare" /\ ~failure
    /\ \/ /\ stage' = [stage EXCEPT ![next] = "flush"]
          /\ mark' = [mark EXCEPT ![next] = Len(log)]
          /\ UNCHANGED slot
       \/ /\ \E kind \in Undispatched : slot' = [slot EXCEPT ![next] = kind]
          /\ UNCHANGED <<stage, mark>>
    /\ next' = next + 1
    /\ pc' = "commit"
    /\ UNCHANGED <<mode, first, commit, aborted, exclusive, failure, signal, disk, ran>>

\* prepare throws, or returns after a dispatch has failed.
PrepareFails ==
    /\ pc = "prepare"
    /\ failure' = TRUE
    /\ pc' = "drain"
    /\ UNCHANGED <<group, slot, stage, mark, signal, disk, ran>>

\* commitReady: results are appended for contiguous calls, in model order.
Ready(kind) == pc = "commit" /\ commit <= NumCalls /\ slot[commit] = kind

\* Mutant of CommitFinal: a result is committed as soon as it is there.
CommitFinalUnordered ==
    /\ pc = "commit"
    /\ \E i \in commit..NumCalls :
         /\ slot[i] = "final" /\ Positions("tool/result", i) = {}
         /\ log' = Append(log, ToolResult(i, "done"))
         /\ commit' = IF i = commit THEN commit + 1 ELSE commit
    /\ UNCHANGED <<pc, mode, first, next, aborted, exclusive, slot, stage, mark, failure,
                   signal, durable, ran>>

CommitFinal ==
    /\ Ready("final")
    /\ log' = Append(log, ToolResult(commit, "done"))
    /\ commit' = commit + 1
    /\ UNCHANGED <<pc, mode, first, next, aborted, exclusive, slot, stage, mark, failure,
                   signal, durable, ran>>

AwaitFinalize ==
    /\ Ready("post")
    /\ pc' = "finalize"
    /\ UNCHANGED <<group, slot, stage, mark, failure, signal, disk, ran>>

FinalizeReturns ==
    /\ pc = "finalize"
    /\ log' = Append(log, ToolResult(commit, "done"))
    /\ commit' = commit + 1
    /\ pc' = "commit"
    /\ UNCHANGED <<mode, first, next, aborted, exclusive, slot, stage, mark, failure,
                   signal, durable, ran>>

FinalizeFails ==
    /\ pc = "finalize"
    /\ failure' = TRUE
    /\ pc' = "drain"
    /\ UNCHANGED <<group, slot, stage, mark, signal, disk, ran>>

\* Nothing more to commit: look at the signal and fill the pool again.
CommitEnds ==
    /\ ~Ready("post") /\ ~Ready("final") /\ pc = "commit"
    /\ IF failure
       THEN pc' = "drain" /\ UNCHANGED <<group, log>>
       ELSE FillPool(aborted \/ signal)
    /\ UNCHANGED <<slot, stage, mark, failure, signal, durable, ran>>

\* Promise.race: one settled call leaves the pool.
RaceReturns ==
    /\ pc = "race"
    /\ \E i \in Calls : stage[i] = "settled" /\ stage' = [stage EXCEPT ![i] = "none"]
    /\ pc' = IF failure THEN "drain" ELSE "commit"
    /\ UNCHANGED <<group, slot, mark, failure, signal, disk, ran>>

\* Mutant of DrainPool: it waits for an empty pool, which nobody empties.
DrainPoolEmpty ==
    /\ pc = "drain"
    /\ InFlight = {}
    /\ pc' = "failed"
    /\ UNCHANGED <<group, slot, stage, mark, failure, signal, disk, ran>>

\* A scheduler failure surfaces when every dispatched call has settled.
DrainPool ==
    /\ pc = "drain"
    /\ \A i \in InFlight : stage[i] = "settled"
    /\ pc' = "failed"
    /\ UNCHANGED <<group, slot, stage, mark, failure, signal, disk, ran>>

\* The agent closes the step, however the calls ended.
CloseStep ==
    /\ pc \in {"done", "failed"}
    /\ log' = Append(log, Event("step/end"))
    /\ pc' = "closed"
    /\ UNCHANGED <<group, slot, stage, mark, failure, signal, durable, ran>>

-----------------------------------------------------------------------------
(* A dispatched call, and the durability of the log. *)

Settle(i, kind) ==
    /\ stage' = [stage EXCEPT ![i] = "settled"]
    /\ slot' = [slot EXCEPT ![i] = kind]

\* Mutant of CheckpointResolves: the body does not wait for durability.
CheckpointResolvesEarly(i) ==
    /\ stage[i] = "flush" /\ pc # "crashed"
    /\ IF signal THEN Settle(i, "post") /\ UNCHANGED ran
       ELSE /\ stage' = [stage EXCEPT ![i] = "body"]
            /\ ran' = ran \cup {i}
            /\ UNCHANGED slot
    /\ UNCHANGED <<pc, group, mark, failure, signal, disk>>

\* The checkpoint resolves once the log up to the mark is durable: the body is
\* entered unless the signal is aborted by now.
CheckpointResolves(i) ==
    /\ stage[i] = "flush" /\ durable >= mark[i] /\ pc # "crashed"
    /\ IF signal THEN Settle(i, "post") /\ UNCHANGED ran
       ELSE /\ stage' = [stage EXCEPT ![i] = "body"]
            /\ ran' = ran \cup {i}
            /\ UNCHANGED slot
    /\ UNCHANGED <<pc, group, mark, failure, signal, disk>>

\* The checkpoint rejects: an error result, and the body is not entered.
CheckpointRejects(i) ==
    /\ stage[i] = "flush" /\ pc # "crashed"
    /\ Settle(i, "final")
    /\ UNCHANGED <<pc, group, mark, failure, signal, disk, ran>>

BodyReturns(i) ==
    /\ stage[i] = "body"
    /\ Settle(i, "post")
    /\ UNCHANGED <<pc, group, mark, failure, signal, disk, ran>>

\* The dispatch of a call rejects: no slot, and the scheduler fails.
DispatchFails(i) ==
    /\ stage[i] \in {"flush", "body"}
    /\ stage' = [stage EXCEPT ![i] = "settled"]
    /\ failure' = TRUE
    /\ UNCHANGED <<pc, group, slot, mark, signal, disk, ran>>

Abort ==
    /\ ~signal /\ pc \notin Over
    /\ signal' = TRUE
    /\ UNCHANGED <<pc, group, slot, stage, mark, failure, disk, ran>>

\* Write-behind stores some more of the log.
Persist ==
    /\ pc \notin {"crashed", "resumed"}
    /\ \E n \in (durable + 1)..Len(log) : durable' = n
    /\ UNCHANGED <<pc, group, slot, stage, mark, failure, signal, log, ran>>

-----------------------------------------------------------------------------
(* Crash and recovery. *)

\* The process dies with all its calls; the durable prefix of the log is left.
Crash ==
    /\ pc \notin {"crashed", "resumed"}
    /\ pc' = "crashed"
    /\ log' = SubSeq(log, 1, durable)
    /\ stage' = [i \in Calls |-> "none"]
    /\ UNCHANGED <<group, slot, mark, failure, signal, durable, ran>>

\* commitRepair stores the closers, or a part of them if it is cut again.
WriteRepair ==
    /\ pc = "crashed"
    /\ LET closers == Closers(log)
       IN \E stored \in {SubSeq(closers, 1, n) : n \in 1..Len(closers)} :
            /\ log' = log \o stored
            /\ durable' = Len(log) + Len(stored)
    /\ UNCHANGED <<pc, group, slot, stage, mark, failure, signal, ran>>

\* A source with nothing to repair is handed to the new agent.
Resume ==
    /\ pc = "crashed" /\ Closers(log) = <<>>
    /\ pc' = "resumed"
    /\ UNCHANGED <<group, slot, stage, mark, failure, signal, disk, ran>>

Scheduler ==
    \/ BeginGroup
    \/ PrepareReturns
    \/ PrepareFails
    \/ CommitFinal
    \/ AwaitFinalize
    \/ FinalizeReturns
    \/ FinalizeFails
    \/ CommitEnds
    \/ RaceReturns
    \/ DrainPool
    \/ CloseStep

Next ==
    \/ Scheduler
    \/ \E i \in Calls : CheckpointResolves(i)
    \/ \E i \in Calls : CheckpointRejects(i)
    \/ \E i \in Calls : BodyReturns(i)
    \/ \E i \in Calls : DispatchFails(i)
    \/ Abort
    \/ Persist
    \/ Crash
    \/ WriteRepair
    \/ Resume

Spec == Init /\ [][Next]_vars

\* The scheduler's task runs, hooks and tools settle, and a flush settles one
\* way or the other.
Fairness ==
    /\ WF_vars(Scheduler)
    /\ \A i \in Calls : WF_vars(CheckpointResolves(i) \/ CheckpointRejects(i))
    /\ \A i \in Calls : WF_vars(BodyReturns(i) \/ DispatchFails(i))

FairSpec == Spec /\ Fairness

-----------------------------------------------------------------------------
(* Properties. *)

Recorded(i) == Positions("tool/call", i) # {}
Answered(i) == Positions("tool/result", i) # {}

\* The variables keep their types; only started calls are in flight, never more
\* than maxParallelToolCalls, a committed call has a slot, and the durable prefix
\* is a prefix.
TypeOK ==
    /\ pc \in {"plan", "prepare", "commit", "finalize", "race", "drain"} \cup Over
    /\ mode \in Modes
    /\ first \in 1..(NumCalls + 1) /\ next \in first..(NumCalls + 1)
    /\ commit \in 1..next
    /\ slot \in [Calls -> {"none", "post", "final"}]
    /\ stage \in [Calls -> {"none", "flush", "body", "settled"}]
    /\ mark \in [Calls -> Nat]
    /\ \A i \in Calls : i >= next => stage[i] = "none" /\ slot[i] = "none"
    /\ \A i \in Calls : i < commit => slot[i] # "none"
    /\ failure \in BOOLEAN /\ signal \in BOOLEAN /\ aborted \in BOOLEAN
    /\ Cardinality(InFlight) <= MaxParallel
    /\ durable \in 2..Len(log)
    /\ ran \subseteq Calls /\ exclusive \subseteq Calls

\* Results enter the transcript in the order in which the model made the calls,
\* whatever the order in which the dispatches settle; so do the calls.
ModelOrder ==
    pc \notin {"crashed", "resumed"} =>
    \A i, j \in Calls : i < j =>
        \A kind \in {"tool/call", "tool/result"} :
        \A q \in Positions(kind, j) : \E p \in Positions(kind, i) : p < q

\* An exclusive call is a barrier: it starts after the result of every earlier
\* call, and its result comes before any later call starts.
ExclusiveIsBarrier ==
    pc \notin {"crashed", "resumed"} =>
    \A i \in exclusive : \A j \in Calls \ {i} :
        LET lo == IF i < j THEN i ELSE j
            hi == IF i < j THEN j ELSE i
        IN \A q \in Positions("tool/call", hi) :
           \E p \in Positions("tool/result", lo) : p < q

\* The step ends only at rest: no call is in flight, and the session invariant
\* companion has accepted every event.  It ends well only when
\* each call has exactly one record and one result, also after an abort; and a
\* failure of the scheduler makes up no result.
AllAnswered ==
    /\ pc \in {"done", "failed", "closed"} =>
         /\ Valid(log)
         /\ \A i \in InFlight : stage[i] = "settled"
    /\ pc = "done" =>
         /\ InFlight = {}
         /\ \A i \in Calls : /\ Cardinality(Positions("tool/call", i)) = 1
                             /\ Cardinality(Positions("tool/result", i)) = 1
    /\ pc = "failed" => \A i \in Calls : \A p \in Positions("tool/result", i) :
                            log[p].outcome = "done"

\* Every call whose tool may have had an effect is known to the resumed session
\* as one that was recorded: it is never reported as not started, and it is
\* never dropped together with the assistant's message.
EffectsAreRecorded ==
    pc = "resumed" =>
        \A i \in ran : /\ Recorded(i)
                       /\ \A p \in Positions("tool/result", i) : log[p].outcome # "not-started"

\* After a crash, and after a repair that was itself cut any number of times, the
\* log is accepted by the companion, the turn is closed and each call of the durable assistant message has exactly one
\* result, "unknown" for a call that was recorded and "not-started" for one that
\* was not.  A step that the agent had already closed after a scheduler failure
\* is left as it is.
RepairAnswersOnce ==
    pc = "resumed" =>
        /\ Valid(log)
        /\ TraceOf(log).openTurn = 0 /\ TraceOf(log).openStep = 0
        /\ Len(log) >= 3 /\ log[3].type = "assistant/message" =>
            \A i \in Calls :
                /\ Cardinality(Positions("tool/result", i)) <= 1
                /\ Answered(i) \/ failure
                /\ \A p \in Positions("tool/result", i) :
                      /\ log[p].outcome = "unknown" => Recorded(i)
                      /\ log[p].outcome = "not-started" => ~Recorded(i)

\* Each call of the model is answered once, in the process that ran it and in every
\* one that resumes after it.
AnsweredOnce == AllAnswered /\ RepairAnswersOnce

\* The step is always closed in the end unless the process crashes: no order of
\* settling, failing and aborting leaves the scheduler waiting.
Settles == <>(pc \in {"closed", "crashed"})
=============================================================================

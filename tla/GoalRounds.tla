----------------------------- MODULE GoalRounds -----------------------------
(***************************************************************************)
(* The same-session goal: the event-sourced goal of one session (goal),    *)
(* the driver that turns an active and armed goal into numbered rounds     *)
(* (goal-round-driver), and as much of the agent loop as the two can see:  *)
(* its inbox, the fence that the driver puts into pre-step, cancellation,  *)
(* and the idle edge at which the driver gets its turn.                    *)
(*                                                                         *)
(* A person creates, edits, pauses, resumes, completes and clears the goal *)
(* and sends prompts at any time.  The driver waits for a durability       *)
(* checkpoint before each round and has to find, after each await, whether *)
(* its reservation still stands.                                           *)
(*                                                                         *)
(* A goal's id and revision are one number: each change makes a new one.   *)
(* A round is the pair of that number and the round's own.                 *)
(***************************************************************************)
EXTENDS Naturals, Sequences, FiniteSets

CONSTANTS
    MaxChanges,     \* bound: changes of the goal, those of a person among them
    MaxCap,         \* bound: maxGoalRounds
    MaxPrompts,     \* bound: messages a person sends
    MaxCancels,     \* bound: cancels by a person
    MaxLoops,       \* bound: scheduling loops that run at once
    OuterAwaits     \* whether a pre-step listener outside the driver's own
                    \* awaits after next() (tmux-context, agent-instructions)

ASSUME GoalAssumption ==
    /\ MaxChanges \in Nat /\ MaxCap \in Nat \ {0}
    /\ MaxPrompts \in Nat /\ MaxCancels \in Nat /\ MaxLoops \in Nat \ {0}
    /\ OuterAwaits \in BOOLEAN

VARIABLES
    goal,       \* the fold of the session log: phase, ver, rounds, cap
    armed,      \* activation, which is never persisted
    durable,    \* nothing of goal or round was appended since the last checkpoint
    attempt,    \* state.attempt: the reserved round, or NoAttempt
    competing,  \* state.competingQueued
    needsCheckpoint, requested,     \* state, by the same names
    loops,      \* where each scheduling loop stands
    run,        \* the loop that state.run holds, or 0
    pc,         \* where the agent's driver stands, "none" when idle
    aborted,    \* whether the signal of the activity is aborted
    wake,       \* wakeRequested
    claimed,    \* the batch of the proposed step
    decision,   \* what the listeners of pre-step have answered
    turnRound,  \* the round admitted in the open turn, or NoRound
    nextTurn, nextStep,     \* the inbox; of next-step only the number counts
    prompts, cancels,       \* used up of the bounds
    behind,     \* history: a prompt waited behind the round that was claimed last
    halted      \* history: stopped by a person, and not rearmed since

goals == <<goal, armed, durable>>
triggers == <<needsCheckpoint, requested, loops>>
driver == <<attempt, competing, triggers, run>>
turn == <<claimed, decision, turnRound>>
activity == <<pc, aborted, wake, turn>>
inbox == <<nextTurn, nextStep>>
bounds == <<prompts, cancels>>
history == <<behind, halted>>
vars == <<goals, driver, activity, inbox, bounds, history>>

Loops == 1..MaxLoops
NoRound == [ver |-> 0, round |-> 0]
Prompt == NoRound       \* a person's message, in next-turn
NoBatch == [round |-> NoRound, others |-> 0]
NoAttempt == [ver |-> 0, round |-> 0, phase |-> "none", cancelled |-> FALSE, stale |-> FALSE]
RoundOf(a) == [ver |-> a.ver, round |-> a.round]

Init ==
    /\ goal = [phase |-> "none", ver |-> 0, rounds |-> 0, cap |-> 1]
    /\ armed = FALSE /\ durable = TRUE
    /\ attempt = NoAttempt
    /\ competing = FALSE /\ needsCheckpoint = FALSE /\ requested = FALSE
    /\ loops = [i \in Loops |-> "off"] /\ run = 0
    /\ pc = "none" /\ aborted = FALSE /\ wake = FALSE
    /\ claimed = NoBatch /\ decision = "none" /\ turnRound = NoRound
    /\ nextTurn = <<>> /\ nextStep = 0
    /\ prompts = 0 /\ cancels = 0
    /\ behind = FALSE /\ halted = FALSE

Armed == goal.phase = "active" /\ armed
Running == pc # "none"
Pending == nextTurn # <<>> \/ nextStep > 0

\* Nothing else runs inside a synchronous piece: the first pass of a new loop,
\* what follows a checkpoint, the replay of a latched wake.
Idle == (\A i \in Loops : loops[i] \notin {"sync", "go"}) /\ ~(pc = "none" /\ wake)

\* A person, or the result of an operation, comes between the agent's awaits: not
\* between two turns, not in the driver's last microtasks, and not on the way from
\* the fence back to the loop, if no listener awaits there.
Between == Idle /\ pc \notin {"start", "exit"} /\ (pc = "outer" => OuterAwaits)

-----------------------------------------------------------------------------
(* Changes of the goal, and the triggers of the driver. *)

\* A flush that is under way does not cover what is appended now.
Overtaken(l) == [i \in Loops |-> IF l[i] = "flush" THEN "overtaken" ELSE l[i]]

FreeLoop(l) == CHOOSE i \in Loops : l[i] = "off"

\* A loop that would be started is one within the bound.
WithinLoops(l) == run # 0 \/ "off" \in {l[i] : i \in Loops}

\* Mutant of RequestDrive: a trigger that finds a loop running is dropped.
RequestDriveOnce(l) ==
    /\ WithinLoops(l)
    /\ requested' = (requested \/ run = 0)
    /\ loops' = IF run # 0 THEN l ELSE [l EXCEPT ![FreeLoop(l)] = "sync"]

\* requestDrive: start a loop unless state.run holds one.
RequestDrive(l) ==
    /\ WithinLoops(l)
    /\ requested' = TRUE
    /\ loops' = IF run # 0 THEN l ELSE [l EXCEPT ![FreeLoop(l)] = "sync"]

\* commit of a change, and the driver's listener of goal/changed.
Change(g, a) ==
    /\ goal' = [g EXCEPT !.ver = goal.ver + 1]
    /\ armed' = a
    /\ durable' = FALSE
    /\ needsCheckpoint' = TRUE
    /\ RequestDrive(Overtaken(loops))

Exists == goal.phase \notin {"none", "corrupt"}

Create ==
    /\ goal.phase \in {"none", "complete"}
    /\ \E cap \in 1..MaxCap :
         Change([goal EXCEPT !.phase = "active", !.rounds = 0, !.cap = cap], TRUE)
    /\ halted' = FALSE

Edit ==
    /\ Exists
    /\ \E cap \in 1..MaxCap : Change([goal EXCEPT !.cap = cap], armed)
    /\ UNCHANGED halted

Pause ==
    /\ goal.phase = "active"
    /\ Change([goal EXCEPT !.phase = "paused"], FALSE)
    /\ UNCHANGED halted

Resume ==
    /\ Exists /\ goal.phase # "complete" /\ ~Armed
    /\ goal.rounds < goal.cap
    /\ Change([goal EXCEPT !.phase = "active"], TRUE)
    /\ halted' = FALSE

Complete ==
    /\ goal.phase \in {"active", "paused", "blocked"}
    /\ Change([goal EXCEPT !.phase = "complete"], FALSE)
    /\ UNCHANGED halted

Clear ==
    /\ Exists
    /\ Change([goal EXCEPT !.phase = "none", !.rounds = 0, !.cap = 1], FALSE)
    /\ UNCHANGED halted

\* A person changes the goal, by a command, a remote call, or a tool call of a
\* turn that carries a message of that person.
PersonChangesGoal ==
    /\ Between /\ goal.ver < MaxChanges
    /\ Create \/ Edit \/ Pause \/ Resume \/ Complete \/ Clear
    /\ UNCHANGED <<attempt, competing, run, activity, inbox, bounds, behind>>

\* The model reports its goal complete or blocked, in a round of this very
\* revision and number only.
ModelSettlesGoal ==
    /\ Between /\ pc = "step" /\ ~aborted
    /\ turnRound # NoRound
    /\ turnRound = [ver |-> goal.ver, round |-> goal.rounds]
    /\ \E phase \in {"complete", "blocked"} :
         /\ IF phase = "blocked" THEN goal.phase = "active" ELSE goal.phase \notin {"none", "complete"}
         /\ Change([goal EXCEPT !.phase = phase], FALSE)
    /\ UNCHANGED <<attempt, competing, run, activity, inbox, bounds, history>>

-----------------------------------------------------------------------------
(* The scheduling loop. *)

Ready == pc = "none" /\ ~competing

\* After its first pass a new loop is what state.run holds.
Goes(i, where) ==
    /\ loops' = [loops EXCEPT ![i] = where]
    /\ run' = IF loops[i] = "sync" THEN i ELSE run

\* A pass begins by clearing requested; what follows a checkpoint does not.
Cleared(i) == loops[i] = "go" /\ requested

unscheduled == <<goals, competing, needsCheckpoint, activity, inbox, bounds, history>>

\* Mutant of ConsumeAttempt: the round that has ended asks for no checkpoint.
ConsumeAttemptUnchecked(i) ==
    /\ attempt # NoAttempt
    /\ attempt' = NoAttempt
    /\ requested' = TRUE
    /\ Goes(i, "next")
    /\ UNCHANGED unscheduled

\* The attempt of the activity that ended is dropped, and a checkpoint is due.
ConsumeAttempt(i) ==
    /\ attempt # NoAttempt
    /\ attempt' = NoAttempt
    /\ needsCheckpoint' = TRUE
    /\ requested' = TRUE
    /\ Goes(i, "next")
    /\ UNCHANGED <<goals, competing, activity, inbox, bounds, history>>

\* Nothing to drive.
Rest(i) ==
    /\ attempt = NoAttempt /\ ~Armed
    /\ requested' = Cleared(i)
    /\ Goes(i, "next")
    /\ UNCHANGED <<attempt, unscheduled>>

\* The driver changes the goal while the agent is idle and nothing competes.
\* Its goal/changed asks for a drive; if state.run holds no loop, that starts
\* one, whose first pass goes straight to its checkpoint.
DriverChanges(phase, l) ==
    /\ WithinLoops(l)
    /\ goal' = [goal EXCEPT !.phase = phase, !.ver = @ + 1]
    /\ armed' = FALSE
    /\ durable' = FALSE
    /\ needsCheckpoint' = (run # 0)
    /\ loops' = IF run # 0 THEN l ELSE [l EXCEPT ![FreeLoop(l)] = "flush"]

\* The rounds are used up: block the goal.  In the first pass of a new loop
\* state.run holds none yet, and a second loop comes of it.
BlockAtLimit(i) ==
    /\ attempt = NoAttempt /\ Armed
    /\ goal.rounds >= goal.cap
    /\ LET left == [Overtaken(loops) EXCEPT ![i] = "next"]
       IN /\ DriverChanges("blocked", left)
          /\ run' = IF loops[i] = "sync" THEN i ELSE IF run # 0 THEN run ELSE FreeLoop(left)
    /\ requested' = (run # 0)
    /\ UNCHANGED <<attempt, competing, activity, inbox, bounds, history>>

\* Reserve the next round and queue its prompt, which wakes the agent.
Reserve(i) ==
    /\ attempt = NoAttempt /\ Armed
    /\ goal.rounds < goal.cap
    /\ LET round == goal.rounds + 1
       IN /\ attempt' = [ver |-> goal.ver, round |-> round, phase |-> "queued",
                         cancelled |-> FALSE, stale |-> FALSE]
          /\ nextTurn' = Append(nextTurn, [ver |-> goal.ver, round |-> round])
    /\ pc' = "start" /\ wake' = FALSE
    /\ requested' = Cleared(i)
    /\ Goes(i, "next")
    /\ UNCHANGED <<goals, competing, needsCheckpoint, aborted, turn, nextStep, bounds, history>>

AfterCheckpoint(i) == ConsumeAttempt(i) \/ Rest(i) \/ BlockAtLimit(i) \/ Reserve(i)

\* drive cannot go on: the agent is busy or a prompt waits.
Yield(i) ==
    /\ requested' = FALSE
    /\ Goes(i, "next")
    /\ UNCHANGED <<attempt, unscheduled>>

BeginCheckpoint(i) ==
    /\ needsCheckpoint' = FALSE
    /\ requested' = FALSE
    /\ Goes(i, "flush")
    /\ UNCHANGED <<goals, attempt, competing, activity, inbox, bounds, history>>

\* One pass of the loop, up to the await of a checkpoint.
Drive(i) ==
    /\ loops[i] = "sync" \/ (loops[i] = "next" /\ Idle)
    /\ requested
    /\ \/ ~Ready /\ Yield(i)
       \/ Ready /\ needsCheckpoint /\ BeginCheckpoint(i)
       \/ Ready /\ ~needsCheckpoint /\ AfterCheckpoint(i)

\* The loop ends and retires, whichever loop state.run holds now.
RetireLoop(i) ==
    /\ Idle /\ loops[i] = "next" /\ ~requested
    /\ loops' = [loops EXCEPT ![i] = "off"]
    /\ run' = 0
    /\ UNCHANGED <<attempt, requested, unscheduled>>

Flushing(i) == Between /\ loops[i] \in {"flush", "overtaken"}

\* The checkpoint succeeds, and drive goes on if its conditions still hold.
Checkpointed(i) ==
    /\ Flushing(i)
    /\ durable' = (durable \/ loops[i] = "flush")
    /\ Goes(i, IF Ready /\ ~needsCheckpoint THEN "go" ELSE "next")
    /\ UNCHANGED <<goal, armed, attempt, competing, needsCheckpoint, requested, activity, inbox,
                   bounds, history>>

GoesOn(i) == loops[i] = "go" /\ AfterCheckpoint(i)

\* The checkpoint fails: nothing more happens without a person.
CheckpointFails(i) ==
    /\ Flushing(i)
    /\ armed' = FALSE
    /\ Goes(i, "next")
    /\ UNCHANGED <<goal, durable, attempt, competing, needsCheckpoint, requested, activity, inbox,
                   bounds, history>>

-----------------------------------------------------------------------------
(* A person's messages and cancels. *)

\* A message for the next turn: it competes with a queued round.  An aborted
\* activity cannot take it, so its wake is latched.
SendPrompt ==
    /\ Between /\ prompts < MaxPrompts
    /\ prompts' = prompts + 1
    /\ nextTurn' = Append(nextTurn, Prompt)
    /\ competing' = TRUE
    /\ attempt' = IF attempt.phase = "queued" THEN [attempt EXCEPT !.stale = TRUE] ELSE attempt
    /\ wake' = aborted
    /\ pc' = IF Running THEN pc ELSE "start"
    /\ UNCHANGED <<goals, triggers, run, aborted, turn, nextStep, cancels, history>>

\* A message for the next step, if the activity can still take one.
Steer ==
    /\ Between /\ prompts < MaxPrompts /\ ~aborted
    /\ prompts' = prompts + 1
    /\ nextStep' = nextStep + 1
    /\ pc' = IF Running THEN pc ELSE "start"
    /\ UNCHANGED <<goals, driver, aborted, wake, turn, nextTurn, cancels, history>>

\* A person stops the agent, and keeps what is pending or clears it.
UserCancel ==
    /\ Between /\ cancels < MaxCancels /\ (Running \/ Pending)
    /\ cancels' = cancels + 1
    /\ aborted' = Running
    /\ halted' = (halted \/ (Running /\ ~aborted /\ Armed))
    /\ \/ UNCHANGED <<attempt, wake, inbox>>
       \/ /\ nextTurn' = <<>> /\ nextStep' = 0
          /\ wake' = FALSE
          /\ attempt' = IF \E k \in DOMAIN nextTurn : nextTurn[k] # Prompt /\ nextTurn[k] = RoundOf(attempt)
                        THEN [attempt EXCEPT !.cancelled = TRUE]
                        ELSE attempt
    /\ UNCHANGED <<goals, competing, triggers, run, pc, turn, prompts, behind>>

-----------------------------------------------------------------------------
(* The agent: a turn, its proposed batch, and the fence in pre-step. *)

\* An idle agent whose aborted activity latched a wake starts again.
ReplayWake ==
    /\ pc = "none" /\ wake
    /\ \A i \in Loops : loops[i] # "sync"
    /\ wake' = FALSE
    /\ pc' = "start"
    /\ UNCHANGED <<goals, driver, aborted, turn, inbox, bounds, history>>

\* The first step of a turn claims what waits for a step and one turn's message.
StartTurn ==
    /\ pc = "start"
    /\ LET head == IF nextTurn = <<>> THEN NoRound ELSE Head(nextTurn)
           prompt == IF nextTurn # <<>> /\ head = Prompt THEN 1 ELSE 0
       IN /\ claimed' = [round |-> head, others |-> nextStep + prompt]
          /\ attempt' = IF head # NoRound /\ head = RoundOf(attempt)
                        THEN [attempt EXCEPT !.phase = "claimed"] ELSE attempt
          /\ behind' = (head # NoRound /\ \E k \in 2..Len(nextTurn) : nextTurn[k] = Prompt)
    /\ nextTurn' = IF nextTurn = <<>> THEN <<>> ELSE Tail(nextTurn)
    /\ nextStep' = 0
    /\ pc' = "pre"
    /\ UNCHANGED <<goals, competing, triggers, run, aborted, wake, decision, turnRound, bounds,
                   halted>>

\* validReservation
ValidReservation ==
    /\ attempt.phase = "claimed" /\ ~attempt.stale
    /\ RoundOf(attempt) = claimed.round
    /\ Armed /\ goal.ver = claimed.round.ver
    /\ claimed.round.round = goal.rounds + 1

\* The driver drops its own round and asks to drive again.
DropRound ==
    /\ attempt' = NoAttempt
    /\ RequestDrive(loops)
    /\ UNCHANGED needsCheckpoint

\* The prompt is assembled, and pre-step's listeners begin; the driver's fence
\* looks at a goal round before the listeners behind it.
Fence ==
    /\ Idle /\ pc = "pre" /\ ~aborted
    /\ IF claimed.round = NoRound \/ ValidReservation
       THEN /\ pc' = "inner"
            /\ UNCHANGED <<attempt, triggers, nextStep, decision>>
       ELSE /\ pc' = "outer"
            /\ decision' = "reject"
            /\ attempt' = IF claimed.round = RoundOf(attempt) THEN NoAttempt ELSE attempt
            /\ nextStep' = nextStep + claimed.others
            /\ RequestDrive(loops)
            /\ UNCHANGED needsCheckpoint
    /\ UNCHANGED <<goals, competing, run, aborted, wake, claimed, turnRound, nextTurn, bounds,
                   history>>

InnerThrows ==
    /\ decision' = "throw"
    /\ IF claimed.round # NoRound /\ ~aborted THEN DropRound ELSE UNCHANGED <<attempt, triggers>>
    /\ UNCHANGED <<goals, nextStep>>

\* A listener rejects a round: the goal is blocked, if it is still the same.
InnerRejects ==
    /\ decision' = "reject"
    /\ attempt' = IF claimed.round # NoRound /\ ~aborted THEN NoAttempt ELSE attempt
    /\ IF claimed.round # NoRound /\ ~aborted /\ Armed /\ goal.ver = claimed.round.ver
       THEN Change([goal EXCEPT !.phase = "blocked"], FALSE)
       ELSE UNCHANGED <<goals, triggers>>
    /\ UNCHANGED nextStep

\* Mutant of InnerEnters: no second look after the listeners.
InnerEntersUnchecked ==
    /\ decision' \in {"enter", "empty"}
    /\ nextStep' = IF claimed.round # NoRound /\ aborted THEN nextStep + claimed.others ELSE nextStep
    /\ UNCHANGED <<goals, attempt, triggers>>

\* The listeners let the batch in, or leave nothing of it; the fence looks again.
InnerEnters ==
    \E answer \in {"enter", "empty"} :
      LET restored == nextStep + IF answer = "enter" THEN claimed.others ELSE 0
      IN /\ IF claimed.round = NoRound \/ (~aborted /\ ValidReservation)
            THEN decision' = answer /\ UNCHANGED <<attempt, triggers, nextStep>>
            ELSE IF aborted
            THEN decision' = answer /\ nextStep' = restored /\ UNCHANGED <<attempt, triggers>>
            ELSE decision' = "reject" /\ nextStep' = restored /\ DropRound
         /\ UNCHANGED goals

\* What the listeners behind the fence answer, and the fence's second look.
Inner ==
    /\ Idle /\ pc = "inner"
    /\ InnerThrows \/ InnerRejects \/ InnerEnters
    /\ pc' = "outer"
    /\ UNCHANGED <<competing, run, aborted, wake, claimed, turnRound, nextTurn, bounds, history>>

\* turn/end is appended; the driver's listeners of agent/error and turn/end.  A
\* turn that goes on to another one gets a fresh signal.
EndTurn(kind, next) ==
    /\ attempt' = IF kind = "aborted" /\ attempt.phase \in {"claimed", "admitted"}
                  THEN [attempt EXCEPT !.cancelled = TRUE] ELSE attempt
    /\ armed' = (armed /\ kind \notin {"error", "max-tokens"}
                       /\ (kind = "aborted" => attempt.phase \in {"claimed", "admitted"}))
    /\ IF turnRound = NoRound THEN UNCHANGED <<durable, loops>>
       ELSE durable' = FALSE /\ loops' = Overtaken(loops)
    /\ claimed' = NoBatch /\ decision' = "none" /\ turnRound' = NoRound
    /\ pc' = next
    /\ IF next = "start" THEN aborted' = FALSE /\ wake' = FALSE ELSE UNCHANGED <<aborted, wake>>
    /\ UNCHANGED <<goal, competing, needsCheckpoint, requested, run, nextTurn, bounds, history>>

\* Assembly fails, or sees the abort.
PreFails ==
    /\ Idle /\ pc = "pre"
    /\ EndTurn(IF aborted THEN "aborted" ELSE "error", "exit")
    /\ UNCHANGED nextStep

\* The step does not begin.
NotEntered ==
    /\ Idle /\ pc = "outer"
    /\ aborted \/ decision # "enter"
    /\ EndTurn(IF aborted THEN "aborted"
               ELSE CASE decision = "throw" -> "error"
                      [] decision = "reject" -> "blocked"
                      [] decision = "empty" -> "completed", "exit")
    /\ UNCHANGED nextStep

\* The step begins: its messages enter the log, and the strict fold of the goal
\* counts a round, or can never be read again.
Admit ==
    /\ Idle /\ pc = "outer" /\ ~aborted /\ decision = "enter"
    /\ IF claimed.round = NoRound THEN UNCHANGED <<goal, attempt, durable, loops>>
       ELSE /\ goal' = IF /\ goal.phase = "active" /\ goal.ver = claimed.round.ver
                          /\ claimed.round.round = goal.rounds + 1
                          /\ claimed.round.round <= goal.cap
                       THEN [goal EXCEPT !.rounds = @ + 1]
                       ELSE [goal EXCEPT !.phase = "corrupt"]
            /\ attempt' = IF RoundOf(attempt) = claimed.round
                          THEN [attempt EXCEPT !.phase = "admitted"] ELSE attempt
            /\ durable' = FALSE /\ loops' = Overtaken(loops)
    /\ turnRound' = claimed.round
    /\ claimed' = NoBatch /\ decision' = "none"
    /\ pc' = "step"
    /\ UNCHANGED <<armed, competing, needsCheckpoint, requested, run, aborted, wake, inbox, bounds,
                   history>>

\* A later step of the turn claims what waits for a step.
LaterStep ==
    /\ Idle /\ pc = "step" /\ ~aborted /\ nextStep > 0
    /\ nextStep' = 0
    /\ UNCHANGED <<goals, driver, activity, nextTurn, bounds, history>>

\* The turn ends after its steps, or at a later pre-step that rejects its batch.
TurnEnds ==
    /\ Idle /\ pc = "step"
    /\ \/ aborted /\ EndTurn("aborted", "exit") /\ UNCHANGED nextStep
       \/ ~aborted /\ EndTurn("error", "exit") /\ UNCHANGED nextStep
       \/ ~aborted /\ nextStep > 0 /\ EndTurn("blocked", "exit") /\ nextStep' = 0
       \/ /\ ~aborted /\ nextStep = 0
          /\ \E kind \in {"completed", "max-tokens"} :
               EndTurn(kind, IF nextTurn = <<>> THEN "exit" ELSE "start")
          /\ UNCHANGED nextStep

\* Mutant of Retire: a cancelled round that had entered leaves the goal armed.
RetireUnpaused ==
    /\ Idle /\ pc = "exit"
    /\ pc' = "none" /\ aborted' = FALSE
    /\ wake' = (wake /\ Pending)
    /\ competing' = FALSE
    /\ RequestDrive(loops)
    /\ UNCHANGED <<goals, attempt, needsCheckpoint, run, turn, inbox, bounds, history>>

\* The agent is idle.  A round that was cancelled, or that never entered, takes
\* its goal with it: the driver pauses it.
Retire ==
    /\ Idle /\ pc = "exit"
    /\ pc' = "none" /\ aborted' = FALSE
    /\ wake' = (wake /\ Pending)
    /\ competing' = FALSE
    /\ IF (attempt.phase \in {"queued", "claimed"} \/ attempt.cancelled) /\ Armed
       THEN /\ attempt' = NoAttempt
            /\ DriverChanges("paused", Overtaken(loops))
            /\ run' = IF run # 0 THEN run ELSE FreeLoop(loops)
            /\ requested' = TRUE
       ELSE RequestDrive(loops) /\ UNCHANGED <<goals, attempt, needsCheckpoint, run>>
    /\ UNCHANGED <<turn, inbox, bounds, history>>

-----------------------------------------------------------------------------
AgentStep ==
    ReplayWake \/ StartTurn \/ Fence \/ Inner \/ PreFails \/ NotEntered \/ Admit \/ LaterStep
      \/ TurnEnds \/ Retire

LoopStep(i) == Drive(i) \/ GoesOn(i) \/ RetireLoop(i) \/ Checkpointed(i) \/ CheckpointFails(i)

Next ==
    \/ PersonChangesGoal \/ ModelSettlesGoal
    \/ SendPrompt \/ Steer \/ UserCancel
    \/ AgentStep
    \/ \E i \in Loops : LoopStep(i)

Spec == Init /\ [][Next]_vars

\* Every await of the agent and of the driver settles; a person owes nothing.
FairSpec == Spec /\ WF_vars(AgentStep) /\ \A i \in Loops : WF_vars(LoopStep(i))

-----------------------------------------------------------------------------
Rounds == [ver : Nat, round : Nat]

\* The variables keep their types; a cap is at least one, and no more
\* rounds start than the largest cap allows.
TypeOK ==
    /\ goal \in [phase : {"none", "active", "paused", "blocked", "complete", "corrupt"},
                 ver : Nat, rounds : 0..MaxCap, cap : 1..MaxCap]
    /\ attempt \in [ver : Nat, round : Nat, phase : {"none", "queued", "claimed", "admitted"},
                    cancelled : BOOLEAN, stale : BOOLEAN]
    /\ loops \in [Loops -> {"off", "sync", "next", "flush", "overtaken", "go"}]
    /\ run \in Loops \cup {0}
    /\ pc \in {"none", "start", "pre", "inner", "outer", "step", "exit"}
    /\ claimed \in [round : Rounds, others : Nat] /\ turnRound \in Rounds
    /\ decision \in {"none", "throw", "reject", "enter", "empty"}
    /\ nextTurn \in Seq(Rounds) /\ nextStep \in Nat
    /\ armed \in BOOLEAN /\ durable \in BOOLEAN /\ competing \in BOOLEAN
    /\ needsCheckpoint \in BOOLEAN /\ requested \in BOOLEAN /\ aborted \in BOOLEAN
    /\ wake \in BOOLEAN /\ behind \in BOOLEAN /\ halted \in BOOLEAN

\* The log never holds a round that the goal's strict fold refuses: every round
\* that enters is the next one of the very goal that is active at that moment
\* (applyGoalEvent throws otherwise, and the goal can never be read again).
RoundIsAdmissible == goal.phase # "corrupt"

Admits == pc = "outer" /\ pc' = "step" /\ claimed.round # NoRound
Reserves == attempt = NoAttempt /\ attempt'.phase = "queued"

\* A round never goes against a person.  After a cancel of a running agent none is
\* reserved or enters until a person creates or resumes a goal, and none enters
\* that was claimed while a message of a person waited behind it.
PersonComesFirst ==
    [][/\ (Reserves \/ Admits) => ~halted
       /\ Admits => ~behind]_vars

\* A round is reserved only when the goal's changes and the end of the round
\* before it are stored, as long as one loop drives.
CheckpointBeforeRound ==
    [][Reserves /\ Cardinality({i \in Loops : loops[i] # "off"}) = 1 => durable]_vars

\* The driver's trigger is never lost: an armed goal does not stay armed, it
\* goes through its rounds until it is settled, used up, stopped or disarmed.
GoalComesToRest == Armed ~> ~Armed
=============================================================================

---------------------------- MODULE AgentDriver ----------------------------
(***************************************************************************)
(* One agent: its inbox (inbox.ts) and the driver that runs turns over it  *)
(* (ReactLoopAgent in agent.ts), with cancellation, maintenance, disposal  *)
(* and a crash of the process followed by a resume from the durable log.   *)
(*                                                                         *)
(* An action is one synchronous piece of the code.  The driver gives up    *)
(* control where it awaits: in pre-step, in the step (the model request    *)
(* and its tools), in turn-stopping, and between turn() and its caller.    *)
(* Three synchronous pieces are also cut, where the code emits an event    *)
(* whose listener may call the agent again: after the inbox insertion of   *)
(* send ("waking"), after the status becomes running (pc = "start") and    *)
(* after it becomes idle ("replay").  While such a piece is unfinished no *)
(* awaited driver code can run: that is Quiet.                             *)
(***************************************************************************)
EXTENDS Integers, FiniteSets, SessionLog

CONSTANTS
    MaxMessages,   \* bound: messages submitted to the agent
    MaxSteps,      \* bound: steps of one turn that ask for another step
    MaxCrashes,    \* bound: crashes of the process
    Overlooks      \* where a driver that is not aborted may miss a waking send:
                   \* "late send", after the last look that its last turn takes
                   \* at the inbox and before it retires; "empty turn", behind
                   \* a first step that turns out to have nothing to say

ASSUME DriverAssumption ==
    MaxMessages \in Nat /\ MaxSteps \in Nat /\ MaxCrashes \in Nat

ASSUME OverlooksAssumption == Overlooks \subseteq {"late send", "empty turn"}

VARIABLES
    phase,      \* phase.kind
    pc,         \* where the driver stands
    signal,     \* phase.abort.signal: "live", or the cause of the first abort
    wake,       \* phase.wakeRequested
    turn,       \* phase.turn, or phase.lastTurn when no driver runs
    step,       \* phase.step
    target,     \* the inbox boundary of the current pre-step
    claimed,    \* the batch that preStep claimed
    ends,       \* turnEnds: "none", "completed" or "max-tokens"
    inbox,      \* the two pending lists
    sent,       \* messages submitted so far; message n is the n-th of them
    waking,     \* a send between its insertion and its call of wakeDriver
    replay,     \* a retired driver has still to test its latch
    disposal,   \* the lifecycle owner's dispose
    log,        \* the session's events
    parked,     \* history: pending messages that no wake is owed for
    crashes

driver == <<phase, pc, signal, wake, turn, step, target, claimed, ends>>
vars == <<driver, inbox, sent, waking, replay, disposal, log, parked, crashes>>

MissesLateSends == "late send" \in Overlooks
MissesEmptyTurns == "empty turn" \in Overlooks

Messages == 1..MaxMessages
Boundaries == {"next-turn", "next-step"}
EmptyInbox == [b \in Boundaries |-> <<>>]

Pending == Range(inbox["next-turn"]) \cup Range(inbox["next-step"])
HasPending == Pending # {}
PendingAfter == Range(inbox'["next-turn"]) \cup Range(inbox'["next-step"])

Quiet == waking = "none" /\ ~replay

Init ==
    /\ phase = "idle" /\ pc = "none" /\ signal = "live" /\ wake = FALSE
    /\ turn = 0 /\ step = 0 /\ target = "next-turn" /\ claimed = <<>>
    /\ ends = "none"
    /\ inbox = EmptyInbox
    /\ sent = 0 /\ waking = "none" /\ replay = FALSE
    /\ disposal = "none"
    /\ log = <<>>
    /\ parked = {}
    /\ crashes = 0

-----------------------------------------------------------------------------
(* The inbox: every mutation is logged as a splice before it is applied. *)

\* The outcome tells a deletion that cancels input from one that claims it.
Splice(b, start, removed, inserted, outcome) ==
    [type |-> "agent/inbox/spliced", target |-> b, start |-> start,
     removed |-> removed, inserted |-> inserted, outcome |-> outcome]

\* Array.splice on one of the two lists.
Apply(box, e) ==
    [box EXCEPT ![e.target] =
        SubSeq(@, 1, e.start) \o e.inserted \o SubSeq(@, e.start + e.removed + 1, Len(@))]

\* The projection that the Inbox constructor rebuilds from the log.
ReplayEvent(box, e) == IF e.type = "agent/inbox/spliced" THEN Apply(box, e) ELSE box
Replay(events) == FoldLeft(ReplayEvent, EmptyInbox, events)

\* Deleting the first n of a list; deleting nothing is not logged.
Deletion(b, n, outcome) ==
    IF n = 0 THEN <<>> ELSE <<Splice(b, 0, n, <<>>, outcome)>>

\* clear: next-step before next-turn.
ClearSplices == Deletion("next-step", Len(inbox["next-step"]), "canceled")
                \o Deletion("next-turn", Len(inbox["next-turn"]), "canceled")

\* claim: all of next-step, and one queued prompt when the boundary is a turn's.
Prompts(b) == IF b = "next-turn" /\ inbox["next-turn"] # <<>> THEN 1 ELSE 0
ClaimSplices(b) == Deletion("next-step", Len(inbox["next-step"]), "claimed")
                   \o Deletion("next-turn", Prompts(b), "claimed")
\* Mutant of ClaimRest: steering input stays pending when it is claimed.
ClaimRestKeepsSteering(b) ==
    [inbox EXCEPT !["next-turn"] = SubSeq(@, Prompts(b) + 1, Len(@))]

ClaimBatch(b) == inbox["next-step"] \o SubSeq(inbox["next-turn"], 1, Prompts(b))
ClaimRest(b) == [inbox EXCEPT !["next-step"] = <<>>,
                              !["next-turn"] = SubSeq(@, Prompts(b) + 1, Len(@))]

-----------------------------------------------------------------------------
(* Turn boundaries. *)

TurnStart(n) == [type |-> "turn/start", turn |-> n]
TurnEnd(reason) == [type |-> "turn/end", turn |-> turn, reason |-> reason]
StepStart(n) == [type |-> "step/start", turn |-> turn, step |-> n]
StepEnd == [type |-> "step/end", turn |-> turn, step |-> step]
UserMessages(batch) ==
    [i \in DOMAIN batch |-> [type |-> "user/message", message |-> batch[i]]]

\* Pre-step begins: claim the batch at once, then await the plugins.
ProposeStep(events, b) ==
    /\ target' = b
    /\ claimed' = ClaimBatch(b)
    /\ inbox' = ClaimRest(b)
    /\ log' = log \o events \o ClaimSplices(b)
    /\ parked' = parked \cap PendingAfter
    /\ pc' = "preStep"

\* The turn is closed without a look at the inbox: what is queued stays queued.
Leave(events, reason) ==
    /\ log' = log \o events \o <<TurnEnd(reason)>>
    /\ parked' = IF signal = "live" /\ reason \in {"error", "blocked"}
                 THEN parked \cup Pending ELSE parked
    /\ pc' = "exit"
    /\ claimed' = <<>>
    /\ UNCHANGED <<phase, signal, wake, turn, target, ends, inbox>>

\* The turn is closed after its last step; queued work opens the next turn.
CloseTurn(events) ==
    /\ log' = log \o events \o <<TurnEnd(ends)>>
    /\ claimed' = <<>>
    /\ IF HasPending
       THEN /\ pc' = "between" /\ signal' = "live" /\ wake' = FALSE /\ step' = 0
       ELSE /\ pc' = "exit" /\ UNCHANGED <<signal, wake, step>>
    /\ UNCHANGED <<phase, turn, target, ends, inbox, parked>>

\* Mutant of WakeDriver: an aborted driver latches no wake.
WakeDriverLatchesMaintenanceOnly(afterAbort) ==
    \/ /\ phase = "idle"
       /\ phase' = "running" /\ pc' = "start"
       /\ signal' = "live" /\ wake' = FALSE /\ step' = 0
       /\ UNCHANGED <<turn, target, claimed, ends, parked>>
    \/ /\ phase # "idle"
       /\ wake' = (wake \/ (signal # "disposed" /\ phase = "maintenance"))
       /\ UNCHANGED <<phase, pc, signal, turn, step, target, claimed, ends, parked>>

\* wakeDriver: reserve a driver when idle, else latch the wake where the
\* current activity cannot deliver it.
WakeDriver(afterAbort) ==
    \/ /\ phase = "idle"
       /\ phase' = "running" /\ pc' = "start"
       /\ signal' = "live" /\ wake' = FALSE /\ step' = 0
       /\ UNCHANGED <<turn, target, claimed, ends, parked>>
    \/ /\ phase # "idle"
       /\ wake' = (wake \/ (signal # "disposed" /\ (phase = "maintenance" \/ afterAbort)))
       /\ UNCHANGED <<phase, pc, signal, turn, step, target, claimed, ends>>
       /\ parked' = IF signal = "disposed" THEN parked \cup Pending ELSE parked
-----------------------------------------------------------------------------
(* What the outside calls. *)

\* Mutant of Send: the log names the list that was asked for, not the list used.
SendLogsRequestedTarget(b, wakeup) ==
    /\ waking = "none" /\ disposal # "done" /\ sent < MaxMessages
    /\ b = "next-turn" => wakeup
    /\ wakeup /\ pc = "exit" /\ signal = "live" => MissesLateSends
    /\ LET m == sent + 1
           afterAbort == wakeup /\ phase # "idle" /\ signal # "live"
           to == IF afterAbort THEN "next-turn" ELSE b
       IN /\ sent' = m
          /\ log' = Append(log, Splice(b, Len(inbox[to]), 0, <<m>>, "inserted"))
          /\ inbox' = [inbox EXCEPT ![to] = Append(@, m)]
          /\ waking' = IF ~wakeup THEN "none"
                       ELSE IF afterAbort THEN "afterAbort" ELSE "plain"
          /\ parked' = IF wakeup THEN parked ELSE parked \cup {m}
    /\ UNCHANGED <<driver, replay, disposal, crashes>>

\* send, up to the listeners of the insertion: followup, steer and inject.
Send(b, wakeup) ==
    /\ waking = "none" /\ disposal # "done" /\ sent < MaxMessages
    /\ b = "next-turn" => wakeup
    /\ wakeup /\ pc = "exit" /\ signal = "live" => MissesLateSends
    /\ LET m == sent + 1
           afterAbort == wakeup /\ phase # "idle" /\ signal # "live"
           to == IF afterAbort THEN "next-turn" ELSE b
       IN /\ sent' = m
          /\ log' = Append(log, Splice(to, Len(inbox[to]), 0, <<m>>, "inserted"))
          /\ inbox' = [inbox EXCEPT ![to] = Append(@, m)]
          /\ waking' = IF ~wakeup THEN "none"
                       ELSE IF afterAbort THEN "afterAbort" ELSE "plain"
          /\ parked' = IF wakeup THEN parked ELSE parked \cup {m}
    /\ UNCHANGED <<driver, replay, disposal, crashes>>

\* The rest of send.
Wake ==
    /\ waking # "none"
    /\ waking' = "none"
    /\ WakeDriver(waking = "afterAbort")
    /\ UNCHANGED <<inbox, sent, replay, disposal, log, crashes>>

\* cancel: drop the queue and the latch unless they are kept, then abort.
Cancel(cause, keepInbox) ==
    /\ IF keepInbox
       THEN /\ UNCHANGED <<inbox, log, wake>>
            /\ parked' = IF phase = "running" /\ signal = "live"
                         THEN parked \cup Pending ELSE parked
       ELSE /\ inbox' = EmptyInbox
            /\ log' = log \o ClearSplices
            /\ wake' = (wake /\ phase = "idle")
            /\ parked' = {}
    /\ signal' = IF phase # "idle" /\ signal = "live" THEN cause ELSE signal
    /\ UNCHANGED <<phase, pc, turn, step, target, claimed, ends, sent, waking,
                   replay, crashes>>

UserCancel(keepInbox) ==
    /\ disposal # "done"
    /\ phase # "idle" \/ HasPending
    /\ Cancel("user", keepInbox)
    /\ UNCHANGED disposal

\* inbox.remove of one pending message.
RemoveMessage(m) ==
    /\ disposal # "done"
    /\ \E b \in Boundaries : \E i \in DOMAIN inbox[b] :
         /\ inbox[b][i] = m
         /\ inbox' = [inbox EXCEPT ![b] = RemoveAt(@, i)]
         /\ log' = Append(log, Splice(b, i - 1, 1, <<>>, "canceled"))
    /\ parked' = parked \ {m}
    /\ UNCHANGED <<driver, sent, waking, replay, disposal, crashes>>

\* runMaintenance, from the true idle phase only.
RunMaintenance ==
    /\ phase = "idle" /\ disposal = "none" /\ waking = "none"
    /\ phase' = "maintenance" /\ signal' = "live" /\ wake' = FALSE
    /\ UNCHANGED <<pc, turn, step, target, claimed, ends, inbox, sent, waking,
                   replay, disposal, log, parked, crashes>>

\* The maintenance task settles: idle again, and the latch is tested.
EndMaintenance ==
    /\ phase = "maintenance" /\ Quiet
    /\ IF wake /\ HasPending
       THEN /\ phase' = "running" /\ pc' = "start"
            /\ signal' = "live" /\ wake' = FALSE /\ step' = 0
       ELSE /\ phase' = "idle" /\ signal' = "live" /\ wake' = FALSE
            /\ UNCHANGED <<pc, step>>
    /\ UNCHANGED <<turn, target, claimed, ends, inbox, sent, waking, replay,
                   disposal, log, parked, crashes>>

\* dispose: a cancel with cause disposed, then wait for quiescence.
Dispose ==
    /\ disposal = "none"
    /\ disposal' = "waiting"
    /\ Cancel("disposed", FALSE)

FinishDispose ==
    /\ disposal = "waiting" /\ phase = "idle" /\ Quiet
    /\ disposal' = "done"
    /\ UNCHANGED <<driver, inbox, sent, waking, replay, log, parked, crashes>>

-----------------------------------------------------------------------------
(* The driver. *)

Outside == <<sent, waking, replay, disposal, crashes>>

\* turn(): open the turn and propose its first step, unless already aborted.
StartTurn ==
    /\ pc = "start" \/ (pc = "between" /\ Quiet)
    /\ waking = "none"
    /\ signal = "live"
    /\ turn' = turn + 1
    /\ ends' = "none"
    /\ ProposeStep(<<TurnStart(turn + 1)>>, "next-turn")
    /\ UNCHANGED <<phase, signal, wake, step, Outside>>

\* Mutant of SkipTurn: a driver aborted as it starts hangs.
SkipTurnBetweenOnly ==
    /\ pc = "between" /\ Quiet
    /\ signal # "live"
    /\ pc' = "exit"
    /\ UNCHANGED <<phase, signal, wake, turn, step, target, claimed, ends, inbox,
                   log, parked, Outside>>

\* turn() of an aborted driver throws before it logs anything.
SkipTurn ==
    /\ pc = "start" \/ (pc = "between" /\ Quiet)
    /\ waking = "none"
    /\ signal # "live"
    /\ pc' = "exit"
    /\ UNCHANGED <<phase, signal, wake, turn, step, target, claimed, ends, inbox,
                   log, parked, Outside>>

\* preStep ends by an abort, an error of a plugin, or a rejection.
EndPreStep ==
    /\ pc = "preStep" /\ Quiet
    /\ \E reason \in IF signal = "live" THEN {"error", "blocked"} ELSE {"aborted"} :
         Leave(<<>>, reason)
    /\ UNCHANGED <<step, Outside>>

\* preStep enters with the claimed batch, the batch and a context message, or
\* an empty batch.  0 stands for the context message.
Decisions == {claimed, <<>>, Append(claimed, 0)}

\* Nothing to say: a turn that has had a step ends as it stood.
EnterNothingMore ==
    /\ pc = "preStep" /\ Quiet /\ signal = "live"
    /\ <<>> \in Decisions /\ ends # "none"
    /\ CloseTurn(<<>>)
    /\ UNCHANGED Outside

\* Nothing to say in the first step: the turn completes without a model call.
EnterEmptyTurn ==
    /\ pc = "preStep" /\ Quiet /\ signal = "live"
    /\ <<>> \in Decisions /\ ends = "none" /\ step = 0
    /\ Pending \subseteq parked \/ MissesEmptyTurns
    /\ Leave(<<>>, "completed")
    /\ UNCHANGED <<step, Outside>>

\* Mutant of EnterStep: the signal is not looked at after the pre-step.
EnterStepIgnoresAbort ==
    /\ pc = "preStep" /\ Quiet
    /\ \E batch \in Decisions :
         /\ batch # <<>> \/ (ends = "none" /\ step > 0)
         /\ log' = log \o <<StepStart(step + 1)>> \o UserMessages(batch)
    /\ step' = step + 1
    /\ pc' = "step"
    /\ claimed' = <<>>
    /\ UNCHANGED <<phase, signal, wake, turn, target, ends, inbox, parked, Outside>>

\* The step begins and logs its messages.
EnterStep ==
    /\ pc = "preStep" /\ Quiet /\ signal = "live"
    /\ \E batch \in Decisions :
         /\ batch # <<>> \/ (ends = "none" /\ step > 0)
         /\ log' = log \o <<StepStart(step + 1)>> \o UserMessages(batch)
    /\ step' = step + 1
    /\ pc' = "step"
    /\ claimed' = <<>>
    /\ UNCHANGED <<phase, signal, wake, turn, target, ends, inbox, parked, Outside>>

\* The step ends by an abort or an error.
FailStep ==
    /\ pc = "step" /\ Quiet
    /\ Leave(<<StepEnd>>, IF signal = "live" THEN "error" ELSE "aborted")
    /\ UNCHANGED <<step, Outside>>

\* step(): requests until one is not retried; a message without tool calls, or
\* whose calls conclude the turn, ends it, and so does one cut by its length.
StepResults == {"completed", "max-tokens", "none"}

\* Mutant of EndStep: the next step of a turn claims a queued prompt as well.
EndStepClaimsPrompt ==
    /\ pc = "step" /\ Quiet /\ signal = "live"
    /\ \E result \in StepResults :
         /\ result = "none" => step <= MaxSteps
         /\ ends' = IF ends = "max-tokens" THEN ends ELSE result
    /\ IF ends' # "none" /\ inbox["next-step"] = <<>>
       THEN /\ pc' = "stopping"
            /\ log' = Append(log, StepEnd)
            /\ UNCHANGED <<target, claimed, inbox, parked>>
       ELSE ProposeStep(<<StepEnd>>, "next-turn")
    /\ UNCHANGED <<phase, signal, wake, turn, step, Outside>>

\* The step returns a reason to end the turn, or none after its tool calls.
EndStep ==
    /\ pc = "step" /\ Quiet /\ signal = "live"
    /\ \E result \in StepResults :
         /\ result = "none" => step <= MaxSteps
         /\ ends' = IF ends = "max-tokens" THEN ends ELSE result
    /\ IF ends' # "none" /\ inbox["next-step"] = <<>>
       THEN /\ pc' = "stopping"
            /\ log' = Append(log, StepEnd)
            /\ UNCHANGED <<target, claimed, inbox, parked>>
       ELSE ProposeStep(<<StepEnd>>, "next-step")
    /\ UNCHANGED <<phase, signal, wake, turn, step, Outside>>

\* turn-stopping ends by an abort or by an error of a plugin.
FailStopping ==
    /\ pc = "stopping" /\ Quiet
    /\ Leave(<<>>, IF signal = "live" THEN "error" ELSE "aborted")
    /\ UNCHANGED <<step, Outside>>

\* turn-stopping returns: the turn ends unless new input for it has arrived.
EndStopping ==
    /\ pc = "stopping" /\ Quiet /\ signal = "live"
    /\ \/ /\ inbox["next-step"] = <<>>
          /\ CloseTurn(<<>>)
       \/ /\ inbox["next-step"] # <<>>
          /\ ProposeStep(<<>>, "next-step")
          /\ UNCHANGED <<phase, signal, wake, turn, step, ends>>
    /\ UNCHANGED Outside

\* kick's finally: the driver retires, and remembers its latch.
Retire ==
    /\ pc = "exit" /\ Quiet
    /\ phase' = "idle" /\ pc' = "none" /\ signal' = "live" /\ wake' = FALSE
    /\ replay' = wake
    /\ UNCHANGED <<turn, step, target, claimed, ends, inbox, sent, waking,
                   disposal, log, parked, crashes>>

\* After the idle listeners: replay the latched wake if anything is queued.
ReplayWake ==
    /\ replay /\ waking = "none" /\ pc # "start"
    /\ replay' = FALSE
    /\ \/ /\ HasPending
          /\ WakeDriver(FALSE)
       \/ /\ ~HasPending
          /\ UNCHANGED <<driver, parked>>
    /\ UNCHANGED <<inbox, sent, waking, disposal, log, crashes>>

-----------------------------------------------------------------------------
\* The constructor's lastTurn: the turn of the last start in the log.
StartedEvent(n, e) == IF e.type = "turn/start" THEN e.turn ELSE n
LastTurn(events) == FoldLeft(StartedEvent, 0, events)

\* The process dies: the durable log is some prefix of the log.  A resume
\* repairs it and builds a new agent from it.
CrashAndResume ==
    /\ crashes < MaxCrashes
    /\ crashes' = crashes + 1
    /\ \E n \in 0..Len(log) : log' = Repaired(SubSeq(log, 1, n))
    /\ inbox' = Replay(log')
    /\ turn' = LastTurn(log')
    /\ phase' = "idle" /\ pc' = "none" /\ signal' = "live" /\ wake' = FALSE
    /\ step' = 0 /\ target' = "next-turn" /\ claimed' = <<>> /\ ends' = "none"
    /\ waking' = "none" /\ replay' = FALSE /\ disposal' = "none"
    /\ parked' = PendingAfter
    /\ UNCHANGED sent

Next ==
    \/ \E b \in Boundaries, wakeup \in BOOLEAN : Send(b, wakeup)
    \/ Wake
    \/ \E keepInbox \in BOOLEAN : UserCancel(keepInbox)
    \/ \E m \in Messages : RemoveMessage(m)
    \/ RunMaintenance
    \/ EndMaintenance
    \/ Dispose
    \/ FinishDispose
    \/ StartTurn
    \/ SkipTurn
    \/ EndPreStep
    \/ EnterNothingMore
    \/ EnterEmptyTurn
    \/ EnterStep
    \/ FailStep
    \/ EndStep
    \/ FailStopping
    \/ EndStopping
    \/ Retire
    \/ ReplayWake
    \/ CrashAndResume

Spec == Init /\ [][Next]_vars

\* What the driver does when an await of its own settles, in whichever way.  At
\* each position exactly one group of these actions is possible.
DriverStep ==
    \/ StartTurn \/ SkipTurn
    \/ EndPreStep \/ EnterNothingMore \/ EnterEmptyTurn \/ EnterStep
    \/ FailStep \/ EndStep
    \/ FailStopping \/ EndStopping
    \/ Retire

\* Every job that is queued runs, and what the driver awaits settles in the end.
Fairness ==
    /\ WF_vars(Wake)
    /\ WF_vars(EndMaintenance)
    /\ WF_vars(FinishDispose)
    /\ WF_vars(DriverStep)
    /\ WF_vars(ReplayWake)

FairSpec == Spec /\ Fairness

-----------------------------------------------------------------------------
(* Properties. *)

PcOf(p) == IF p = "running"
           THEN {"start", "preStep", "step", "stopping", "between", "exit"}
           ELSE {"none"}

\* The variables of the agent keep their types, and the phase and the position
\* of the driver agree: there is a driver exactly in the running phase.
TypeOK ==
    /\ phase \in {"idle", "maintenance", "running"}
    /\ pc \in PcOf(phase)
    /\ signal \in {"live", "user", "disposed"}
    /\ phase = "idle" => signal = "live" /\ ~wake
    /\ wake \in BOOLEAN
    /\ turn \in Nat /\ step \in Nat
    /\ target \in Boundaries
    /\ claimed \in Seq(Messages)
    /\ ends \in {"none", "completed", "max-tokens"}
    /\ inbox \in [Boundaries -> Seq(Messages)]
    /\ sent \in 0..MaxMessages
    /\ waking \in {"none", "plain", "afterAbort"}
    /\ replay \in BOOLEAN
    /\ disposal \in {"none", "waiting", "done"}
    /\ parked \subseteq Messages
    /\ crashes \in 0..MaxCrashes

\* The live inbox is what a restart would rebuild from the log.
InboxIsReplayable == Replay(log) = inbox

Delivered(m) == \E i \in DOMAIN log : log[i].type = "user/message" /\ log[i].message = m

\* A message enters the transcript at most once, and is then no longer pending.
DeliveredOnce ==
    \A m \in Messages :
        /\ Delivered(m) => m \notin Pending
        /\ Cardinality({i \in DOMAIN log :
               log[i].type = "user/message" /\ log[i].message = m}) <= 1

\* The open turn (0 for none), the prompts claimed since the last start of a turn,
\* and how many claims were not made in an open turn that had claimed none.
IsClaim(e) ==
    e.type = "agent/inbox/spliced" /\ e.target = "next-turn" /\ e.outcome = "claimed"
CountPrompt(a, e) ==
    CASE e.type = "turn/start" -> [open |-> e.turn, prompts |-> 0, stray |-> a.stray]
      [] e.type = "turn/end"   -> [open |-> 0, prompts |-> a.prompts, stray |-> a.stray]
      [] IsClaim(e) ->
            [open |-> a.open, prompts |-> a.prompts + e.removed,
             stray |-> IF a.open # 0 /\ a.prompts + e.removed <= 1 THEN a.stray ELSE a.stray + 1]
      [] OTHER -> a
NoPrompts == [open |-> 0, prompts |-> 0, stray |-> 0]
PromptCount(events) == FoldLeft(CountPrompt, NoPrompts, events)

\* Between two starts of turns at most one queued prompt is claimed, and only
\* while a turn is open: a follow-up is the only prompt of its own turn.
OnePromptPerTurn == PromptCount(log).stray = 0

\* Whatever the interleaving of sends, cancels, failures and crashes, every
\* append passes the checks of the session invariant companion: turns and steps
\* are numbered without a gap, properly nested, and all closed again.  And each
\* queued prompt has a turn of its own.
LogIsValid == Valid(log) /\ OnePromptPerTurn

\* When the agent is at rest, every message that is still queued was parked: by
\* a cancel that kept it, by a turn that was rejected or failed after it came, by
\* disposal, by inject, by a crash.  Any other waking send gets a turn: "Live
\* drivers claim queued work themselves" (wakeDriver), and a latch holds what
\* comes while maintenance runs or an aborted driver unwinds.  The code keeps
\* this as long as no waking send falls where Overlooks allows it to.
NoWakeStranded == (phase = "idle" /\ Quiet) => Pending \subseteq parked

\* The events that a step appends.
Appended == SubSeq(log', Len(log) + 1, Len(log'))

\* Once aborted, the driver starts no further step or turn, and the open turn is
\* recorded as aborted; and no turn is recorded as aborted without an abort.
AbortIsFinal ==
    [][crashes' = crashes =>
        \A e \in Range(Appended) :
            /\ e.type \in {"turn/start", "step/start"} => signal = "live"
            /\ e.type = "turn/end" => (e.reason = "aborted" <=> signal # "live")]_vars

\* Disposal always reaches quiescence, whatever is still sent to the agent.
DisposeQuiesces == disposal = "waiting" ~> disposal # "waiting"
=============================================================================

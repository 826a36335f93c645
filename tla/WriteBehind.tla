---------------------------- MODULE WriteBehind ----------------------------
(***************************************************************************)
(* One live session's write path: the SessionWriteBehind controller        *)
(* (write-behind.ts) together with the part of the coordinator that calls  *)
(* it (flush and createWriteBehind of coordinator.ts).                     *)
(*                                                                         *)
(* JavaScript runs one job at a time, so an action is one job: a           *)
(* synchronous call from outside (enqueue, flush), the deadline timer, or  *)
(* one continuation of a promise.  The settlement of a write takes three   *)
(* jobs - the backend's outcome with the catch handler, the finally        *)
(* handler, and the continuation of whoever waits - and calls from outside *)
(* may come in between.  A timer or a backend completion is a macrotask:   *)
(* it runs only when no such continuation is queued.                       *)
(***************************************************************************)
EXTENDS Integers, Sequences

CONSTANTS
    MaxEvents,   \* bound: events the session publishes
    MaxCallers   \* bound: flush calls that wait for initialization together

ASSUME BoundsAssumption == MaxEvents \in Nat /\ MaxCallers \in Nat

VARIABLES
    accepted,         \* events published so far; event n is the n-th of them
    pending,          \* this.pending
    timer,            \* this.timer !== undefined
    active,           \* this.active !== undefined
    running,          \* the write operations that have not run their finally
    settled,          \* the settled write whose continuation is still queued
    barrier,          \* this.barrier, and what its drain loop awaits
    deadlineExpired,  \* this.deadlineExpired
    automaticPaused,  \* this.automaticPaused
    init,             \* the coordinator's live.init promise
    callers,          \* coordinator flush calls that await live.init
    mark,             \* events accepted when the barrier was last joined
    durable,          \* what the backend holds
    promised          \* events acknowledged by a resolved flush

controller == <<pending, timer, active, running, settled, barrier,
                deadlineExpired, automaticPaused>>
writeVars == <<accepted, controller, init, callers, mark, durable, promised>>

NoWrite == [background |-> FALSE, ok |-> FALSE, queued |-> FALSE]

WriteInit ==
    /\ accepted = 0
    /\ pending = <<>>
    /\ timer = FALSE
    /\ active = FALSE
    /\ running = {}
    /\ settled = NoWrite
    /\ barrier = "none"
    /\ deadlineExpired = FALSE
    /\ automaticPaused = FALSE
    /\ init = "pending"
    /\ callers = 0
    /\ mark = 0
    /\ durable = <<>>
    /\ promised = 0

-----------------------------------------------------------------------------
(* The jobs of the controller. *)

\* No continuation is queued: the event loop may take a timer or an I/O event.
MicrotasksDrained == ~settled.queued /\ \A w \in running : w.stage = "writing"

\* Mutant: the batch is copied out of the queue without removing it.
StartWriteKeepsQueue(batch, background) ==
    /\ running' = running \cup
         {[batch |-> batch, background |-> background, stage |-> "writing"]}
    /\ pending' = pending
    /\ timer' = FALSE
    /\ deadlineExpired' = FALSE
    /\ active' = TRUE

\* startWrite: take the whole queue as one batch and cancel the deadline.
StartWrite(batch, background) ==
    /\ running' = running \cup
         {[batch |-> batch, background |-> background, stage |-> "writing"]}
    /\ pending' = <<>>
    /\ timer' = FALSE
    /\ deadlineExpired' = FALSE
    /\ active' = TRUE

\* Mutant: the first event after a pause clears the pause but starts no timer.
EnqueueWithoutRearm ==
    /\ accepted < MaxEvents
    /\ accepted' = accepted + 1
    /\ pending' = Append(pending, accepted + 1)
    /\ timer' = (timer \/ (barrier = "none" /\ pending = <<>>))
    /\ automaticPaused' = (automaticPaused /\ barrier # "none")
    /\ UNCHANGED <<active, running, settled, barrier, deadlineExpired, init,
                   callers, mark, durable, promised>>

\* enqueue: the deadline starts with the first event, or again after a pause.
Enqueue ==
    /\ accepted < MaxEvents
    /\ accepted' = accepted + 1
    /\ pending' = Append(pending, accepted + 1)
    /\ LET rearm == barrier = "none" /\ (automaticPaused \/ pending = <<>>)
           resume == barrier = "none" /\ automaticPaused
       IN /\ timer' = (timer \/ rearm)
          /\ automaticPaused' = (automaticPaused /\ ~resume)
          /\ deadlineExpired' = (deadlineExpired /\ ~resume)
    /\ UNCHANGED <<active, running, settled, barrier, init, callers, mark,
                   durable, promised>>

\* onDeadline with startBackground.
Deadline ==
    /\ timer
    /\ MicrotasksDrained
    /\ \/ /\ active
          /\ timer' = FALSE
          /\ deadlineExpired' = TRUE
          /\ UNCHANGED <<pending, active, running>>
       \/ /\ ~active
          /\ StartWrite(pending, TRUE)
    /\ UNCHANGED <<accepted, settled, barrier, automaticPaused, init, callers,
                   mark, durable, promised>>

\* The backend made the batch durable; createWriteBehind's write awaits init.
WriteSucceeds ==
    /\ MicrotasksDrained
    /\ init = "ready"
    /\ \E w \in running :
         /\ durable' = durable \o w.batch
         /\ running' = (running \ {w}) \cup {[w EXCEPT !.stage = "written"]}
    /\ UNCHANGED <<accepted, pending, timer, active, settled, barrier,
                   deadlineExpired, automaticPaused, init, callers, mark,
                   promised>>

\* Mutant: the failed batch is put behind the events that came meanwhile.
WriteFailsRequeuesLast ==
    /\ MicrotasksDrained
    /\ init # "pending"
    /\ \E w \in running :
         /\ pending' = pending \o w.batch
         /\ running' = (running \ {w}) \cup {[w EXCEPT !.stage = "caught"]}
    /\ timer' = FALSE
    /\ deadlineExpired' = FALSE
    /\ automaticPaused' = TRUE
    /\ UNCHANGED <<accepted, active, settled, barrier, init, callers, mark,
                   durable, promised>>

\* The write rejected; the catch handler puts the batch back and pauses.
WriteFails ==
    /\ MicrotasksDrained
    /\ init # "pending"
    /\ \E w \in running :
         /\ pending' = w.batch \o pending
         /\ running' = (running \ {w}) \cup {[w EXCEPT !.stage = "caught"]}
    /\ timer' = FALSE
    /\ deadlineExpired' = FALSE
    /\ automaticPaused' = TRUE
    /\ UNCHANGED <<accepted, active, settled, barrier, init, callers, mark,
                   durable, promised>>

\* The finally handler: no write is active any more, the waiters are queued.
Finally ==
    /\ \E w \in running :
         /\ w.stage # "writing"
         /\ running' = running \ {w}
         /\ settled' = [background |-> w.background, ok |-> w.stage = "written",
                        queued |-> TRUE]
    /\ active' = FALSE
    /\ UNCHANGED <<accepted, pending, timer, barrier, deadlineExpired,
                   automaticPaused, init, callers, mark, durable, promised>>

\* The drain loop's test: another write, or close the barrier and resolve it.
DrainOn ==
    \/ /\ pending # <<>>
       /\ StartWrite(pending, FALSE)
       /\ barrier' = "draining"
       /\ UNCHANGED promised
    \/ /\ pending = <<>>
       /\ barrier' = "none"
       /\ promised' = mark'
       /\ UNCHANGED <<pending, timer, active, running, deadlineExpired>>

\* continueAutomatic after a background write, when no barrier is open.
ContinueAutomatic ==
    /\ settled.queued /\ settled.background /\ barrier # "awaiting"
    /\ settled' = NoWrite
    /\ \/ /\ settled.ok /\ barrier = "none" /\ pending # <<>> /\ deadlineExpired
          /\ StartWrite(pending, TRUE)
       \/ /\ ~(settled.ok /\ barrier = "none" /\ pending # <<>> /\ deadlineExpired)
          /\ UNCHANGED <<pending, timer, active, running, deadlineExpired>>
    /\ UNCHANGED <<accepted, barrier, automaticPaused, init, callers, mark,
                   durable, promised>>

\* drainBarrier resumes after the background write it overlapped.
ResumeOverlapped ==
    /\ settled.queued /\ settled.background /\ barrier = "awaiting"
    /\ settled' = NoWrite
    /\ automaticPaused' = FALSE
    /\ mark' = mark
    /\ DrainOn
    /\ UNCHANGED <<accepted, init, callers, durable>>

\* Mutant: a rejected barrier is not cleared.
ResumeDrainKeepsBarrier ==
    /\ settled.queued /\ ~settled.background
    /\ settled' = NoWrite
    /\ mark' = mark
    /\ \/ /\ settled.ok
          /\ DrainOn
       \/ /\ ~settled.ok
          /\ UNCHANGED <<pending, timer, active, running, deadlineExpired,
                         barrier, promised>>
    /\ UNCHANGED <<accepted, automaticPaused, init, callers, durable>>

\* drainBarrier resumes after its own write: drain on, or reject the barrier.
ResumeDrain ==
    /\ settled.queued /\ ~settled.background
    /\ settled' = NoWrite
    /\ mark' = mark
    /\ \/ /\ settled.ok
          /\ DrainOn
       \/ /\ ~settled.ok
          /\ barrier' = "none"
          /\ UNCHANGED <<pending, timer, active, running, deadlineExpired,
                         promised>>
    /\ UNCHANGED <<accepted, automaticPaused, init, callers, durable>>

-----------------------------------------------------------------------------
(* The coordinator's side. *)

\* flush(session): cancel the batching wait at once, then await live.init.
CallFlush ==
    /\ callers < MaxCallers
    /\ callers' = callers + 1
    /\ timer' = FALSE
    /\ deadlineExpired' = FALSE
    /\ UNCHANGED <<accepted, pending, active, running, settled, barrier,
                   automaticPaused, init, mark, durable, promised>>

\* live.init settles: the header and the seed are stored, or they are refused.
InitSettles ==
    /\ init = "pending"
    /\ init' \in {"ready", "failed"}
    /\ UNCHANGED <<accepted, controller, callers, mark, durable, promised>>

\* flush(session) after a rejected init: cancel the wait again and throw.
FlushRejected ==
    /\ callers > 0
    /\ init = "failed"
    /\ callers' = callers - 1
    /\ timer' = FALSE
    /\ deadlineExpired' = FALSE
    /\ UNCHANGED <<accepted, pending, active, running, settled, barrier,
                   automaticPaused, init, mark, durable, promised>>

\* writes.flush() joins the barrier that is already open.
JoinBarrier ==
    /\ callers > 0
    /\ init = "ready"
    /\ barrier # "none"
    /\ callers' = callers - 1
    /\ mark' = accepted
    /\ UNCHANGED <<accepted, controller, init, durable, promised>>

\* writes.flush() opens a barrier: wait for the active write, or drain at once.
OpenBarrier ==
    /\ callers > 0
    /\ init = "ready"
    /\ barrier = "none"
    /\ callers' = callers - 1
    /\ mark' = accepted
    /\ automaticPaused' = FALSE
    /\ \/ /\ active
          /\ barrier' = "awaiting"
          /\ timer' = FALSE
          /\ deadlineExpired' = FALSE
          /\ UNCHANGED <<pending, active, running, promised>>
       \/ /\ ~active
          /\ pending # <<>>
          /\ StartWrite(pending, FALSE)
          /\ barrier' = "draining"
          /\ UNCHANGED promised
       \/ /\ ~active
          /\ pending = <<>>
          /\ timer' = FALSE
          /\ deadlineExpired' = FALSE
          /\ promised' = accepted
          /\ UNCHANGED <<pending, active, running, barrier>>
    /\ UNCHANGED <<accepted, settled, init, durable>>

-----------------------------------------------------------------------------
WriteNext ==
    \/ Enqueue
    \/ Deadline
    \/ WriteSucceeds
    \/ WriteFails
    \/ Finally
    \/ ContinueAutomatic
    \/ ResumeOverlapped
    \/ ResumeDrain
    \/ CallFlush
    \/ InitSettles
    \/ FlushRejected
    \/ JoinBarrier
    \/ OpenBarrier

WriteSpec == WriteInit /\ [][WriteNext]_writeVars

\* The event loop runs every queued job and every due timer, and the backend
\* settles every promise it returned, one way or the other.
WriteFairness ==
    /\ WF_writeVars(Deadline)
    /\ WF_writeVars(WriteSucceeds \/ WriteFails)
    /\ WF_writeVars(Finally)
    /\ WF_writeVars(ContinueAutomatic \/ ResumeOverlapped \/ ResumeDrain)
    /\ WF_writeVars(InitSettles)
    /\ WF_writeVars(FlushRejected \/ JoinBarrier \/ OpenBarrier)

FairSpec == WriteSpec /\ WriteFairness

-----------------------------------------------------------------------------
(* Properties. *)

Events == 1..MaxEvents
Writes == [batch : Seq(Events), background : BOOLEAN,
           stage : {"writing", "written", "caught"}]

\* Every variable of the write path keeps its type.
WriteTypeOK ==
    /\ accepted \in 0..MaxEvents
    /\ pending \in Seq(Events)
    /\ timer \in BOOLEAN
    /\ active \in BOOLEAN
    /\ running \subseteq Writes
    /\ settled \in [background : BOOLEAN, ok : BOOLEAN, queued : BOOLEAN]
    /\ barrier \in {"none", "awaiting", "draining"}
    /\ deadlineExpired \in BOOLEAN
    /\ automaticPaused \in BOOLEAN
    /\ init \in {"pending", "ready", "failed"}
    /\ callers \in 0..MaxCallers
    /\ mark \in 0..MaxEvents
    /\ durable \in Seq(Events)
    /\ promised \in 0..MaxEvents

\* startWrite is reached from the timer, from a finished write and from a
\* barrier, but two writes of one session are never in progress together, and
\* this.active says exactly whether one is.
OneWriteAtATime ==
    /\ \A v, w \in running : v = w
    /\ active <=> running # {}

Prefix(n) == [i \in 1..n |-> i]

\* However enqueue, failures and flushes interleave, what the backend holds,
\* the batch it is writing and the queue are together exactly the published
\* events in order: a failed batch is put back in front of what came meanwhile.
NothingLost ==
    /\ \A w \in running :
         w.stage = "writing" => durable \o (w.batch \o pending) = Prefix(accepted)
    /\ (\A w \in running : w.stage # "writing") =>
         durable \o pending = Prefix(accepted)

\* A flush that resolved acknowledged only durable events: a crash at any later
\* point cannot lose what the caller published before it called flush.
PromisesAreDurable == promised <= Len(durable)

\* Queued events always have something that will take them: a deadline, a write
\* or continuation in progress, a barrier, a flush waiting for init - unless
\* the path is parked by a reported failure, or init failed for good.
NotStranded ==
    pending # <<>> =>
        \/ timer \/ active \/ settled.queued \/ barrier # "none"
        \/ callers > 0 \/ automaticPaused \/ init = "failed"

\* The controller implements the abstract durable log.
Log == INSTANCE DurableLog WITH
           accepted <- accepted, durable <- durable, promised <- promised
ImplementsDurableLog == Log!Spec

\* Every published event becomes durable, unless a write failed and the
\* controller paused until the next call, or the session was refused by init.
EventuallyDurable ==
    \A n \in Events :
        accepted >= n ~> (Len(durable) >= n \/ automaticPaused \/ init = "failed")

\* A flush barrier is always settled once the session stops publishing, also
\* when enqueue extended the queue while it drained.
BarrierSettles == barrier # "none" ~> barrier = "none"

\* Neither the automatic path nor a caller of flush waits for ever.
WritesSettle == EventuallyDurable /\ BarrierSettles
=============================================================================

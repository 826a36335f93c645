---------------------------- MODULE JobRegistry ----------------------------
(***************************************************************************)
(* The process-local registry of background jobs (LocalJobRegistry in      *)
(* jobs-local) and the completion notice of tool-jobs that it feeds.       *)
(*                                                                         *)
(* A producer settles a job through its done promise, at a time of its     *)
(* own.  Callers kill, read and wait; a wait ends by settlement, timeout   *)
(* or abort, and its continuation runs in a later job of the event loop.   *)
(* The owner of a job and the registry itself are disposed while all this  *)
(* goes on.  A settlement is one action: the record, the release of the    *)
(* waits and the notice are written in one synchronous piece.              *)
(*                                                                         *)
(* Starting is over when the service is disposed: the job controllers that *)
(* start() asks for inject the service and are unloaded with it.           *)
(***************************************************************************)
EXTENDS Naturals, FiniteSets

CONSTANTS
    Jobs,       \* bound: the jobs that may be started
    Owners,     \* agents
    Waits,      \* bound: the calls of wait
    Limit,      \* maxConcurrentJobsPerOwner
    Unowned,    \* the owner of a job without an owner
    Outcomes    \* the terminal states that a producer settles with: which of them
                \* it is, makes no difference to the registry

Terminal == {"completed", "killed", "failed"}
Active == {"running", "stopping"}

ASSUME RegistryAssumption ==
    /\ Limit \in Nat \ {0} /\ Unowned \notin Owners /\ IsFiniteSet(Jobs)
    /\ Outcomes \subseteq Terminal

VARIABLES
    store,      \* the jobs that the registry has a record of
    status,     \* job.status, "none" before the start
    owner,      \* job.owner
    reported,   \* job.reported
    produced,   \* jobs whose done promise has settled
    asked,      \* jobs whose producer took a cancel
    noticed,    \* completion notices sent to the owner of a job
    wait,       \* where a call of wait stands
    target,     \* the job it waits for
    counted,    \* waits counted in job.waiters
    cleanups,   \* ownerCleanups
    agent,      \* the owner's lifecycle: "live", "draining" or "gone"
    owned,      \* the jobs an owner's disposal waits for
    service,    \* the registry's lifecycle: "up", "draining" or "gone"
    all,        \* the jobs the service's disposal waits for
    killed,     \* history: jobs whose report a kill has claimed
    torn        \* history: jobs whose report a teardown has claimed

records == <<store, status, owner, reported, noticed>>
waits == <<wait, target, counted>>
lifecycle == <<cleanups, agent, owned, service, all>>
history == <<killed, torn>>
vars == <<records, produced, asked, waits, lifecycle, history>>

IsTerminal(j) == status[j] \in Terminal

Init ==
    /\ store = {}
    /\ status = [j \in Jobs |-> "none"]
    /\ owner = [j \in Jobs |-> Unowned]
    /\ reported = [j \in Jobs |-> FALSE]
    /\ produced = {} /\ asked = {}
    /\ noticed = [j \in Jobs |-> 0]
    /\ wait = [w \in Waits |-> "new"]
    /\ target \in [Waits -> Jobs]
    /\ counted = {}
    /\ cleanups = {}
    /\ agent = [o \in Owners |-> "live"]
    /\ owned = [o \in Owners |-> {}]
    /\ service = "up" /\ all = {}
    /\ killed = {} /\ torn = {}

-----------------------------------------------------------------------------
(* Settlement. *)

WaitersOf(j) == {w \in counted : target[w] = j}

\* settle of the jobs S that are not terminal yet: a live wait claims the
\* report; the waits are released; without a claim the owner gets a notice.
Settle(S, outcome) ==
    LET now == {j \in S : ~IsTerminal(j)}
        suppressed(j) == reported[j] \/ WaitersOf(j) # {}
    IN /\ status' = [j \in Jobs |-> IF j \in now THEN outcome ELSE status[j]]
       /\ reported' = [j \in Jobs |-> IF j \in now THEN suppressed(j) ELSE reported[j]]
       /\ noticed' = [j \in Jobs |->
             IF j \in now /\ ~suppressed(j) /\ service = "up" /\ owner[j] # Unowned
             THEN noticed[j] + 1 ELSE noticed[j]]
       /\ wait' = [w \in Waits |->
             IF wait[w] = "waiting" /\ target[w] \in now THEN "released" ELSE wait[w]]

\* The done promise of a producer settles; a rejection counts as failed.
ProducerSettles(j) ==
    /\ status[j] # "none" /\ j \notin produced
    /\ produced' = produced \cup {j}
    /\ \E outcome \in Outcomes : Settle({j}, outcome)
    /\ UNCHANGED <<store, owner, asked, target, counted, lifecycle, history>>

-----------------------------------------------------------------------------
(* Starting, killing and reading. *)

ActiveJobs(o) == {j \in store : owner[j] = o /\ status[j] \in Active}

Admits(o) == Cardinality(ActiveJobs(o)) < Limit

\* Mutant of OwnerIsLive: an owner that is being disposed may still start jobs.
OwnerIsLiveUnlessGone(o) == o # Unowned => agent[o] # "gone"

\* ensureOwnerCleanup: the owner must be registered and its scope not disposing.
OwnerIsLive(o) == o # Unowned => agent[o] = "live"

\* start: attach the owner's cleanup, then run the starter.  At the limit, or
\* when the starter throws, the cleanup is all that is left of it.
Start(j, o) ==
    /\ service = "up" /\ status[j] = "none"
    /\ OwnerIsLive(o)
    /\ cleanups' = cleanups \cup ({o} \ {Unowned})
    /\ \/ /\ Admits(o)
          /\ store' = store \cup {j}
          /\ status' = [status EXCEPT ![j] = "running"]
          /\ owner' = [owner EXCEPT ![j] = o]
       \/ UNCHANGED <<store, status, owner>>
    /\ UNCHANGED <<reported, noticed, produced, asked, waits, agent, owned, service,
                   all, history>>

\* kill: a producer that throws leaves everything as it was.
Kill(j) ==
    /\ j \in store
    /\ reported' = [reported EXCEPT ![j] = TRUE]
    /\ \/ /\ IsTerminal(j)
          /\ UNCHANGED <<status, asked, killed>>
       \/ /\ ~IsTerminal(j)
          /\ status' = [status EXCEPT ![j] = "stopping"]
          /\ asked' = asked \cup {j}
          /\ killed' = killed \cup {j}
    /\ UNCHANGED <<store, owner, noticed, produced, waits, lifecycle, torn>>

\* read of a terminal job.
Read(j) ==
    /\ j \in store
    /\ IsTerminal(j)
    /\ reported' = [reported EXCEPT ![j] = TRUE]
    /\ UNCHANGED <<store, status, owner, noticed, produced, asked, waits, lifecycle,
                   history>>

-----------------------------------------------------------------------------
(* Waiting. *)

\* wait, up to its await: a terminal job is answered at once.
BeginWait(w) ==
    /\ wait[w] = "new" /\ target[w] \in store
    /\ IF IsTerminal(target[w])
       THEN /\ wait' = [wait EXCEPT ![w] = "late"]
            /\ reported' = [reported EXCEPT ![target[w]] = TRUE]
            /\ UNCHANGED counted
       ELSE /\ wait' = [wait EXCEPT ![w] = "waiting"]
            /\ counted' = counted \cup {w}
            /\ UNCHANGED reported
    /\ UNCHANGED <<store, status, owner, noticed, produced, asked, target, lifecycle,
                   history>>

\* The deadline fires: the promise resolves, the wait is still counted.
TimeOut(w) ==
    /\ wait[w] = "waiting"
    /\ wait' = [wait EXCEPT ![w] = "timedOut"]
    /\ UNCHANGED <<records, produced, asked, target, counted, lifecycle, history>>

\* Mutant of AbortWait: the wait is uncounted by its continuation only, and that
\* does not come: the promise was rejected.
AbortWaitStaysCounted(w) ==
    /\ wait[w] = "waiting"
    /\ wait' = [wait EXCEPT ![w] = "aborted"]
    /\ UNCHANGED <<records, produced, asked, target, counted, lifecycle, history>>

\* The caller aborts: the wait is uncounted in the same synchronous piece.
AbortWait(w) ==
    /\ wait[w] = "waiting"
    /\ wait' = [wait EXCEPT ![w] = "aborted"]
    /\ counted' = counted \ {w}
    /\ UNCHANGED <<records, produced, asked, target, lifecycle, history>>

\* The continuation of a resolved wait: uncount, then look at the record.
WaitReturns(w) ==
    /\ wait[w] \in {"released", "timedOut"}
    /\ counted' = counted \ {w}
    /\ IF IsTerminal(target[w])
       THEN /\ wait' = [wait EXCEPT ![w] = "answered"]
            /\ reported' = [reported EXCEPT ![target[w]] = TRUE]
       ELSE /\ wait' = [wait EXCEPT ![w] = "stillLive"]
            /\ UNCHANGED reported
    /\ UNCHANGED <<store, status, owner, noticed, produced, asked, target, lifecycle,
                   history>>

-----------------------------------------------------------------------------
(* Disposal. *)

\* Mutant of CancelForTeardown: a job whose cancel throws is left as it is.
CancelForTeardownKeepsThrowers(S) ==
    \E thrown \in SUBSET {j \in S : ~IsTerminal(j)} :
        LET stopped == {j \in S : ~IsTerminal(j)} \ thrown
        IN /\ status' = [j \in Jobs |-> IF j \in stopped THEN "stopping" ELSE status[j]]
           /\ reported' = [j \in Jobs |-> reported[j] \/ j \in stopped \cup thrown]
           /\ asked' = asked \cup stopped
           /\ torn' = torn \cup stopped \cup thrown
           /\ UNCHANGED <<noticed, wait>>

\* Mutant of CancelForTeardown: the report is claimed after the cancel, so a job
\* that is failed by force is announced to the owner that goes away.
CancelForTeardownClaimsLate(S) ==
    \E thrown \in SUBSET {j \in S : ~IsTerminal(j)} :
        LET stopped == {j \in S : ~IsTerminal(j)} \ thrown
            suppressed(j) == reported[j] \/ WaitersOf(j) # {}
        IN /\ status' = [j \in Jobs |-> IF j \in stopped THEN "stopping"
                                        ELSE IF j \in thrown THEN "failed"
                                        ELSE status[j]]
           /\ reported' = [j \in Jobs |-> reported[j] \/ j \in stopped \cup thrown]
           /\ asked' = asked \cup stopped
           /\ torn' = torn \cup stopped \cup thrown
           /\ noticed' = [j \in Jobs |->
                 IF j \in thrown /\ ~suppressed(j) /\ service = "up" /\ owner[j] # Unowned
                 THEN noticed[j] + 1 ELSE noticed[j]]
           /\ wait' = [w \in Waits |->
                 IF wait[w] = "waiting" /\ target[w] \in thrown THEN "released" ELSE wait[w]]

\* cancelForTeardown: the report of each live job is claimed, then its producer
\* is cancelled; a job whose cancel throws is settled as failed.
CancelForTeardown(S) ==
    \E thrown \in SUBSET {j \in S : ~IsTerminal(j)} :
        LET stopped == {j \in S : ~IsTerminal(j)} \ thrown
        IN /\ status' = [j \in Jobs |-> IF j \in stopped THEN "stopping"
                                        ELSE IF j \in thrown THEN "failed"
                                        ELSE status[j]]
           /\ reported' = [j \in Jobs |-> reported[j] \/ j \in stopped \cup thrown]
           /\ asked' = asked \cup stopped
           /\ torn' = torn \cup stopped \cup thrown
           /\ wait' = [w \in Waits |->
                 IF wait[w] = "waiting" /\ target[w] \in thrown THEN "released" ELSE wait[w]]
           /\ UNCHANGED noticed

\* The cleanup that start attached to the owner's scope begins.
DisposeOwner(o) ==
    /\ agent[o] = "live"
    /\ agent' = [agent EXCEPT ![o] = "draining"]
    /\ cleanups' = cleanups \ {o}
    /\ LET mine == IF o \in cleanups THEN {j \in store : owner[j] = o} ELSE {}
       IN owned' = [owned EXCEPT ![o] = mine] /\ CancelForTeardown(mine)
    /\ UNCHANGED <<store, owner, produced, target, counted, service, all, killed>>

\* It ends when each of its jobs has settled, and drops their records.
OwnerDrained(o) ==
    /\ agent[o] = "draining" /\ \A j \in owned[o] : IsTerminal(j)
    /\ agent' = [agent EXCEPT ![o] = "gone"]
    /\ store' = store \ owned[o]
    /\ UNCHANGED <<status, owner, reported, noticed, produced, asked, waits, cleanups,
                   owned, service, all, history>>

\* disposeAll: close the listeners, cancel everything.
DisposeAll ==
    /\ service = "up"
    /\ service' = "draining"
    /\ all' = store
    /\ CancelForTeardown(store)
    /\ UNCHANGED <<store, owner, produced, target, counted, cleanups, agent, owned, killed>>

\* All have settled: clear the store and detach the cleanups of live owners,
\* which find nothing to dispose of.
ServiceDrained ==
    /\ service = "draining" /\ \A j \in all : IsTerminal(j)
    /\ service' = "gone"
    /\ store' = {}
    /\ cleanups' = {}
    /\ UNCHANGED <<status, owner, reported, noticed, produced, asked, waits, agent,
                   owned, all, history>>

Next ==
    \/ \E j \in Jobs, o \in Owners \cup {Unowned} : Start(j, o)
    \/ \E j \in Jobs : ProducerSettles(j)
    \/ \E j \in Jobs : Kill(j)
    \/ \E j \in Jobs : Read(j)
    \/ \E w \in Waits : BeginWait(w)
    \/ \E w \in Waits : TimeOut(w)
    \/ \E w \in Waits : AbortWait(w)
    \/ \E w \in Waits : WaitReturns(w)
    \/ \E o \in Owners : DisposeOwner(o)
    \/ \E o \in Owners : OwnerDrained(o)
    \/ DisposeAll
    \/ ServiceDrained

Spec == Init /\ [][Next]_vars

\* A producer that took a cancel settles in the end (the contract of JobHooks);
\* the jobs of the event loop run and timers fire.
Fairness ==
    /\ \A j \in Jobs : WF_vars(j \in asked /\ ProducerSettles(j))
    /\ \A w \in Waits : WF_vars(WaitReturns(w)) /\ WF_vars(TimeOut(w))
    /\ \A o \in Owners : WF_vars(OwnerDrained(o))
    /\ WF_vars(ServiceDrained)

FairSpec == Spec /\ Fairness

-----------------------------------------------------------------------------
(* Properties. *)

\* The variables keep their types, a record has been started, and only a started
\* job has settled, been cancelled or been waited for.
TypeOK ==
    /\ store \subseteq Jobs
    /\ status \in [Jobs -> {"none"} \cup Active \cup Terminal]
    /\ owner \in [Jobs -> Owners \cup {Unowned}]
    /\ reported \in [Jobs -> BOOLEAN]
    /\ produced \subseteq Jobs /\ asked \subseteq Jobs
    /\ noticed \in [Jobs -> Nat]
    /\ wait \in [Waits -> {"new", "waiting", "released", "timedOut", "aborted",
                           "answered", "late", "stillLive"}]
    /\ target \in [Waits -> Jobs]
    /\ counted \subseteq Waits
    /\ cleanups \subseteq Owners
    /\ agent \in [Owners -> {"live", "draining", "gone"}]
    /\ owned \in [Owners -> SUBSET Jobs]
    /\ service \in {"up", "draining", "gone"}
    /\ all \subseteq Jobs
    /\ killed \subseteq Jobs /\ torn \subseteq Jobs
    /\ \A j \in store \cup produced \cup asked : status[j] # "none"

\* "Settlement is first-wins" (jobs-local): neither a producer that settles after
\* it was failed by force, nor a kill or a second teardown, changes an outcome.
FirstOutcomeWins ==
    [][\A j \in Jobs : IsTerminal(j) => status'[j] = status[j]]_vars

\* A completion is never lost: a job that has ended was announced to its owner,
\* unless a kill or a teardown claimed the report, or a wait that was pending when
\* the job ended answers, or is about to answer, with the terminal record.
CompletionReported ==
    \A j \in Jobs : (IsTerminal(j) /\ owner[j] # Unowned) =>
        \/ noticed[j] = 1
        \/ j \in killed \cup torn
        \/ \E w \in Waits : target[w] = j /\ wait[w] \in {"released", "timedOut", "answered"}

\* A notice is never redundant: a job is announced at most once, not to the one
\* who killed it, not into a teardown, and not next to a wait that answers.
NoRedundantNotice ==
    \A j \in Jobs : noticed[j] > 0 =>
        /\ noticed[j] = 1
        /\ j \notin killed \cup torn
        /\ \A w \in Waits : target[w] = j => wait[w] \notin {"released", "timedOut", "answered"}

\* However starts, kills and settlements interleave, an owner never has more
\* active jobs than the limit; one that is stopping keeps its place.
OwnerWithinLimit ==
    \A o \in Owners \cup {Unowned} : Cardinality(ActiveJobs(o)) <= Limit

\* Disposal awaits the producers: an owner or a registry that is gone has no
\* active job, started before or during its disposal, and no record.
GoneOwnsNothing ==
    \A j \in Jobs : (service = "gone" \/ (owner[j] # Unowned /\ agent[owner[j]] = "gone"))
        => j \notin store /\ status[j] \notin Active

\* Disposal always completes when producers obey a cancel, even when a cancel
\* throws and the work behind it never settles.
DisposalCompletes ==
    /\ \A o \in Owners : agent[o] = "draining" ~> agent[o] = "gone"
    /\ service = "draining" ~> service = "gone"
=============================================================================

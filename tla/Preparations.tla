---------------------------- MODULE Preparations ----------------------------
(***************************************************************************)
(* The ownership of one persisted session: the pool of unpublished         *)
(* sessions (preparations.ts) and the coordinator operations that contend  *)
(* for the same identity (coordinator.ts).                                 *)
(*                                                                         *)
(* prepare, load and inspect share one cold read of the log.  prepare and  *)
(* load then reserve the entry, commit its repair and either publish the   *)
(* session or give the entry back.  Appends, deletions, the binding of a   *)
(* freshly created session and retirements run on the same per-identity    *)
(* chain, one at a time and in the order they were requested; everything   *)
(* that runs outside the chain interleaves with them.                      *)
(*                                                                         *)
(* An action ends where the code awaits.  A slot stands for a pool entry   *)
(* and for the Session object built from it; it is reused once nothing     *)
(* refers to it.  WriteBehind has the controller that is one queued batch  *)
(* here, and SessionLog the closers that are one event here.               *)
(***************************************************************************)
EXTENDS Integers, FiniteSets, SequencesExt

CONSTANTS
    Callers,        \* concurrent callers of prepare, load and inspect
    NumSlots,       \* bound: entries and sessions that exist together
    MaxInputs,      \* bound: calls and disturbances together
    MaxFaults,      \* bound: backend calls that fail
    AppendWhileHeld \* whether append is called for an identity in use

ASSUME PreparationsAssumption ==
    /\ NumSlots \in Nat \ {0}
    /\ MaxInputs \in Nat /\ MaxFaults \in Nat
    /\ AppendWhileHeld \in BOOLEAN

VARIABLES
    log,       \* what the backend stores; empty when there is no artifact
    revision,  \* the revision of the stored log
    current,   \* entries.get(id), 0 when the pool has no entry
    entry,     \* the pool entry of each slot
    tracked,   \* states.get(id)
    session,   \* the Session object of each slot and its live state
    retiring,  \* retirements.get(id): the session, or 0
    caller,    \* where each caller stands
    chain,     \* the operations queued on the identity, the first one running
    stage,     \* what the running operation awaits
    writing,   \* the events the running append is about to store
    calls, acts, faults  \* how much of each bound is used

pool == <<current, entry>>
store == <<log, revision>>
work == <<chain, stage, writing>>
budget == <<calls, acts, faults>>
vars == <<store, pool, tracked, session, retiring, caller, work, budget>>

Slots == 1..NumSlots
Event == [n : Nat, open : BOOLEAN]  \* open: the turn is not over after it
Closer == [n |-> 0, open |-> FALSE]
Marker == [n |-> 0, open |-> TRUE]  \* session/end-seed; it ends no turn
IsMarker(e) == e = Marker
NewEvent == acts + 2                \* 1 is the event of an initial log
Kinds == {"prepare", "load", "inspect"}

NoState == [known |-> FALSE, cursor |-> 0, materialized |-> FALSE, owner |-> 0]
NoSource == [revision |-> -1, log |-> <<>>]
NoEntry == [phase |-> "gone", result |-> "pending", source |-> NoSource]
NoSession == [where |-> "none", init |-> "ready", events |-> <<>>,
              seeded |-> 0, acked |-> 0, busy |-> "no"]
Idle == [pc |-> "idle", kind |-> "load", on |-> 0, aborted |-> FALSE]
NoWriting == [at |-> 0, events |-> <<>>]

-----------------------------------------------------------------------------
(* Logs. *)

\* interruptedTurnClosers finds something to close.
Interrupted(l) ==
    \E i \in DOMAIN l :
        /\ l[i].open /\ ~IsMarker(l[i])
        /\ \A j \in DOMAIN l : j > i => IsMarker(l[j])

Balanced(l) == IF Interrupted(l) THEN Append(l, Closer) ELSE l

\* The Session constructor marks the end of its seed.
Seeded(l) == IF l # <<>> /\ IsMarker(Last(l)) THEN l ELSE Append(l, Marker)

-----------------------------------------------------------------------------
(* The pool.  Each operator gives the new pool; "woken" is the set of        *)
(* callers whose wait for a reservation the change settles.                  *)

Live == {s \in Slots : session[s].where = "live"}

Held == current # 0 /\ entry[current].phase \in {"committing", "reserved"}

Woken(e) == [c \in Callers |->
    IF caller[c].pc = "wait" /\ caller[c].on = e
    THEN [caller[c] EXCEPT !.pc = "claim"] ELSE caller[c]]

\* remove: forget the entry if it is still the identity's, and settle its waiters.
Drop(e) ==
    IF e # 0 /\ current = e
    THEN /\ current' = 0
         /\ entry' = [entry EXCEPT ![e].phase = "gone"]
    ELSE UNCHANGED pool

\* Mutant: the waiters' promise is dropped without being settled.
ReleasedUnsettled(e) == caller

\* The callers after the entry was removed or made ready again.
Released(e) == IF e # 0 /\ current = e THEN Woken(e) ELSE caller

\* makeReady: the entry can be reserved again, and its waiters look at it.
MakeReady(e) ==
    IF current = e
    THEN entry' = [entry EXCEPT ![e].phase = "ready"] /\ UNCHANGED current
    ELSE UNCHANGED pool

\* Slots that no entry, caller, operation or live state refers to.
FreeSlots ==
    {n \in Slots :
        /\ current # n /\ tracked.owner # n /\ retiring # n
        /\ session[n].where = "none"
        /\ \A c \in Callers : caller[c].on # n
        /\ \A i \in DOMAIN chain : chain[i].kind # "load" \/ chain[i].of # n}

NewSlot == CHOOSE n \in FreeSlots : TRUE

Op(kind, of, arg) == [kind |-> kind, of |-> of, arg |-> arg]
Head1 == chain[1]
Running(kind) == chain # <<>> /\ Head1.kind = kind
Starts(kind) == Running(kind) /\ stage = "queued"

Finish == chain' = Tail(chain) /\ stage' = "queued" /\ writing' = NoWriting

Fault == faults < MaxFaults /\ faults' = faults + 1

Init ==
    /\ log \in {<<>>, <<[n |-> 1, open |-> FALSE]>>, <<[n |-> 1, open |-> TRUE]>>}
    /\ revision = 0
    /\ current = 0
    /\ entry = [n \in Slots |-> NoEntry]
    /\ tracked = NoState
    /\ session = [n \in Slots |-> NoSession]
    /\ retiring = 0
    /\ caller = [c \in Callers |-> Idle]
    /\ chain = <<>> /\ stage = "queued" /\ writing = NoWriting
    /\ calls = 0 /\ acts = 0 /\ faults = 0

-----------------------------------------------------------------------------
(* The callers of prepare, load and inspect. *)

Done(cs, c) == [cs EXCEPT ![c] = Idle]
Again(cs, c) == [cs EXCEPT ![c].pc = "start", ![c].on = 0]

Call(c, kind) ==
    /\ caller[c].pc = "idle" /\ calls + acts < MaxInputs
    /\ caller' = [caller EXCEPT ![c].pc = "start", ![c].kind = kind]
    /\ calls' = calls + 1
    /\ UNCHANGED <<store, pool, tracked, session, retiring, work, acts, faults>>

\* The head of the retry loop: a retirement is waited for, a live session is
\* answered from its own log (prepare refuses it), and otherwise entryFor
\* shares the pool's entry or starts a cold read.
Begin(c) ==
    /\ caller[c].pc = "start" /\ retiring = 0
    /\ \/ /\ Live # {} \/ caller[c].aborted
          /\ caller' = Done(caller, c)
          /\ UNCHANGED <<pool, session, chain>>
       \/ /\ Live = {} /\ ~caller[c].aborted /\ current # 0
          /\ caller' = [caller EXCEPT ![c].pc = "await", ![c].on = current]
          /\ UNCHANGED <<pool, session, chain>>
       \/ /\ Live = {} /\ ~caller[c].aborted /\ current = 0 /\ FreeSlots # {}
          /\ current' = NewSlot
          /\ entry' = [entry EXCEPT ![NewSlot] = [NoEntry EXCEPT !.phase = "loading"]]
          /\ session' = [session EXCEPT ![NewSlot] = NoSession]
          /\ caller' = [caller EXCEPT ![c].pc = "await", ![c].on = NewSlot]
          /\ chain' = Append(chain, Op("load", NewSlot, 0))
    /\ UNCHANGED <<store, tracked, retiring, stage, writing, budget>>

\* prepareCore for a pool entry: the read is repaired in memory and the Session
\* is built; a live session with the identity makes sessions.prepare throw.
LoadReturns ==
    /\ Starts("load")
    /\ LET n == Head1.of IN
       \/ /\ log # <<>> /\ Live = {}
          /\ entry' = [entry EXCEPT
                ![n].phase = IF current = n THEN "ready" ELSE "gone",
                ![n].result = "ok",
                ![n].source = [revision |-> revision, log |-> log]]
          /\ LET events == Seeded(Balanced(log))
             IN session' = [session EXCEPT ![n].events = events,
                                           ![n].seeded = Len(events)]
          /\ UNCHANGED <<current, faults>>
       \/ /\ IF log = <<>> \/ Live # {} THEN UNCHANGED faults ELSE Fault
          /\ current' = IF current = n THEN 0 ELSE current
          /\ entry' = [entry EXCEPT ![n].phase = "gone", ![n].result = "failed"]
          /\ UNCHANGED session
    /\ Finish
    /\ UNCHANGED <<store, tracked, retiring, caller, calls, acts>>

\* The shared read settled for an observer: it failed, or inspect asks the chain
\* whether the source is still current.
ReadSettles(c) ==
    /\ caller[c].pc = "await"
    /\ \/ /\ entry[caller[c].on].result = "failed"
          /\ caller' = Done(caller, c)
          /\ UNCHANGED chain
       \/ /\ entry[caller[c].on].result = "ok"
          /\ caller[c].kind = "inspect"
          /\ IF Live # {} THEN caller' = Done(caller, c) /\ UNCHANGED chain
             ELSE /\ caller' = [caller EXCEPT ![c].pc = "checking"]
                  /\ chain' = Append(chain, Op("check", caller[c].on, c))
    /\ UNCHANGED <<store, pool, tracked, session, retiring, stage, writing, budget>>

\* Mutant: the entry of another caller's reservation is taken over.
ClaimTakesReserved(c) ==
    /\ \/ caller[c].pc = "claim"
       \/ /\ caller[c].pc = "await" /\ caller[c].kind # "inspect"
          /\ entry[caller[c].on].result = "ok"
    /\ LET n == caller[c].on IN
       \/ /\ current # n
          /\ caller' = Again(caller, c)
          /\ UNCHANGED <<pool, chain>>
       \/ /\ current = n
          /\ entry' = [entry EXCEPT ![n].phase = "committing"]
          /\ caller' = [caller EXCEPT ![c].pc = "commit"]
          /\ chain' = Append(chain, Op("commit", n, c))
          /\ UNCHANGED current
    /\ UNCHANGED <<store, tracked, session, retiring, stage, writing, budget>>

\* reserve's loop, after the read or after a wait: take a ready entry, wait for
\* the reservation of another caller, or find the entry gone and start over.
Claim(c) ==
    /\ \/ caller[c].pc = "claim"
       \/ /\ caller[c].pc = "await" /\ caller[c].kind # "inspect"
          /\ entry[caller[c].on].result = "ok"
    /\ LET n == caller[c].on IN
       \/ /\ current # n
          /\ caller' = Again(caller, c)
          /\ UNCHANGED <<pool, chain>>
       \/ /\ current = n /\ entry[n].phase = "ready"
          /\ entry' = [entry EXCEPT ![n].phase = "committing"]
          /\ caller' = [caller EXCEPT ![c].pc = "commit"]
          /\ chain' = Append(chain, Op("commit", n, c))
          /\ UNCHANGED current
       \/ /\ current = n /\ Held
          /\ caller' = [caller EXCEPT ![c].pc = "wait"]
          /\ UNCHANGED <<pool, chain>>
    /\ UNCHANGED <<store, tracked, session, retiring, stage, writing, budget>>

\* Mutant: a source is committed without asking whether it is still stored.
CommitRunsUnchecked ==
    /\ Starts("commit")
    /\ LET c == Head1.arg
           source == entry[Head1.of].source
           Answer(pc) == caller' = [caller EXCEPT ![c].pc = pc] /\ Finish
       IN \/ /\ tracked.owner # 0
             /\ Answer("failed")
             /\ UNCHANGED tracked
          \/ /\ tracked.owner = 0 /\ ~Interrupted(source.log)
             /\ tracked' = [known |-> TRUE, cursor |-> Len(source.log),
                            materialized |-> TRUE, owner |-> 0]
             /\ Answer("committed")
          \/ /\ tracked.owner = 0 /\ Interrupted(source.log)
             /\ stage' = "repair"
             /\ UNCHANGED <<tracked, caller, chain, writing>>
    /\ UNCHANGED <<store, pool, session, retiring, budget>>

\* commitPrepared: refuse an owned identity, discard a source that is no
\* longer what is stored, write its repair, or establish the durable cursor.
CommitRuns ==
    /\ Starts("commit")
    /\ LET c == Head1.arg
           source == entry[Head1.of].source
           Answer(pc) == caller' = [caller EXCEPT ![c].pc = pc] /\ Finish
       IN \/ /\ tracked.owner # 0
             /\ Answer("failed")
             /\ UNCHANGED <<tracked, faults>>
          \/ /\ tracked.owner = 0 /\ Fault
             /\ Answer("failed")
             /\ UNCHANGED tracked
          \/ /\ tracked.owner = 0 /\ source.revision # revision
             /\ Answer("stale")
             /\ UNCHANGED <<tracked, faults>>
          \/ /\ tracked.owner = 0 /\ source.revision = revision
             /\ ~Interrupted(source.log)
             /\ tracked' = [known |-> TRUE, cursor |-> Len(source.log),
                            materialized |-> TRUE, owner |-> 0]
             /\ Answer("committed")
             /\ UNCHANGED faults
          \/ /\ tracked.owner = 0 /\ source.revision = revision
             /\ Interrupted(source.log)
             /\ stage' = "repair"
             /\ UNCHANGED <<tracked, caller, chain, writing, faults>>
    /\ UNCHANGED <<store, pool, session, retiring, calls, acts>>

\* The repair of a commit became durable, or failed; the source must be read again.
CommitRepaired ==
    /\ Running("commit") /\ stage = "repair"
    /\ \/ /\ log' = Balanced(log) /\ revision' = revision + 1
          /\ caller' = [caller EXCEPT ![Head1.arg].pc = "stale"]
          /\ UNCHANGED faults
       \/ /\ Fault
          /\ caller' = [caller EXCEPT ![Head1.arg].pc = "failed"]
          /\ UNCHANGED store
    /\ Finish
    /\ UNCHANGED <<pool, tracked, session, retiring, calls, acts>>

\* reserve after its commit: an error or an undefined result drops the entry,
\* a cancelled caller gives it back, and otherwise the caller holds it.  load
\* takes the inspection and discards the reservation.
CommitReturns(c) ==
    LET n == caller[c].on IN
    /\ \/ /\ caller[c].pc = "failed"
          /\ Drop(n) /\ caller' = Done(Released(n), c)
       \/ /\ caller[c].pc = "stale"
          /\ Drop(n) /\ caller' = Again(Released(n), c)
       \/ /\ caller[c].pc = "committed" /\ caller[c].aborted
          /\ MakeReady(n) /\ caller' = Done(Released(n), c)
       \/ /\ caller[c].pc = "committed" /\ ~caller[c].aborted /\ current # n
          /\ caller' = Again(caller, c)
          /\ UNCHANGED pool
       \/ /\ caller[c].pc = "committed" /\ ~caller[c].aborted /\ current = n
          /\ caller[c].kind = "load" \/ Live # {}
          /\ Drop(n) /\ caller' = Done(Released(n), c)
       \/ /\ caller[c].pc = "committed" /\ ~caller[c].aborted /\ current = n
          /\ caller[c].kind = "prepare" /\ Live = {}
          /\ entry' = [entry EXCEPT ![n].phase = "reserved"]
          /\ caller' = [caller EXCEPT ![c].pc = "held"]
          /\ UNCHANGED current
    /\ UNCHANGED <<store, tracked, session, retiring, work, budget>>

\* isPreparedSourceCurrent for an inspection.
CheckRuns ==
    /\ Starts("check")
    /\ LET c == Head1.arg
           isCurrent == entry[Head1.of].source.revision = revision
       IN \/ /\ caller' = [caller EXCEPT ![c].pc =
                   IF isCurrent THEN "fresh" ELSE "outdated"]
             /\ UNCHANGED faults
          \/ /\ IF caller[c].aborted THEN UNCHANGED faults ELSE Fault
             /\ caller' = Done(caller, c)
    /\ Finish
    /\ UNCHANGED <<store, pool, tracked, session, retiring, calls, acts>>

\* inspect answers from a live session, from a current source, or from one
\* that a reservation retains; discardReady drops the others and it retries.
CheckReturns(c) ==
    LET n == caller[c].on
        answered == Live # {} \/ caller[c].pc = "fresh" \/ (current = n /\ Held)
    IN
    /\ caller[c].pc \in {"fresh", "outdated"}
    /\ \/ /\ answered
          /\ caller' = Done(caller, c)
          /\ UNCHANGED pool
       \/ /\ ~answered
          /\ Drop(n) /\ caller' = Again(Released(n), c)
    /\ UNCHANGED <<store, tracked, session, retiring, work, budget>>

\* The operation a caller has queued on the chain and that has not started.
QueuedBy(c, o) ==
    /\ o.kind \in {"commit", "check"} /\ o.arg = c
    /\ o = Head1 => stage = "queued"

\* The caller's signal aborts.  Whoever only waits is rejected at once, and an
\* operation of his that has not started throws when its turn comes, which
\* leaves no trace; a started commit is first seen through.
Abort(c) ==
    /\ caller[c].kind # "load" /\ ~caller[c].aborted
    /\ \/ /\ caller[c].pc \in {"start", "await", "claim", "wait"}
          /\ caller' = Done(caller, c)
          /\ UNCHANGED <<pool, chain>>
       \/ /\ caller[c].pc \in {"commit", "checking"}
          /\ \E i \in DOMAIN chain :
                QueuedBy(c, chain[i]) /\ chain' = RemoveAt(chain, i)
          /\ IF caller[c].pc = "commit"
             THEN Drop(caller[c].on) /\ caller' = Done(Released(caller[c].on), c)
             ELSE caller' = Done(caller, c) /\ UNCHANGED pool
       \/ /\ caller[c].pc \in {"commit", "committed", "stale", "checking"}
          /\ ~\E i \in DOMAIN chain : QueuedBy(c, chain[i])
          /\ caller' = [caller EXCEPT ![c].aborted = TRUE]
          /\ UNCHANGED <<pool, chain>>
    /\ UNCHANGED <<store, tracked, session, retiring, stage, writing, budget>>

-----------------------------------------------------------------------------
(* Live sessions. *)

\* A reserved session is published: initFor finds its reservation, attachPrepared
\* checks that it still matches, takes it and becomes the owner; the events the
\* store does not have yet are written next.  "setup" events were appended
\* before; a "late" one by a listener that ran before the coordinator's, so
\* that it is in the suffix and in the write-behind queue.
Publish(c, late) ==
    LET s == caller[c].on
        events == IF late
                  THEN Append(session[s].events, [n |-> NewEvent, open |-> TRUE])
                  ELSE session[s].events
        cursor == Len(Balanced(entry[s].source.log))
        suffix == Len(events) > cursor
    IN
    /\ caller[c].pc = "held" /\ Live = {}
    /\ current = s /\ entry[s].phase = "reserved"
    /\ tracked.owner = 0 /\ tracked.cursor = cursor
    /\ late => calls + acts < MaxInputs
    /\ acts' = IF late THEN acts + 1 ELSE acts
    /\ Drop(s)
    /\ caller' = Done(Released(s), c)
    /\ tracked' = [tracked EXCEPT !.owner = s]
    /\ session' = [session EXCEPT
            ![s].where = "live", ![s].events = events,
            ![s].acked = Len(session[s].events),
            ![s].init = IF suffix THEN "pending" ELSE "ready"]
    /\ chain' = IF suffix THEN Append(chain, Op("suffix", s, Len(events))) ELSE chain
    /\ UNCHANGED <<store, retiring, stage, writing, calls, faults>>

\* The preparation is disposed without a publication.  The session goes back to
\* the pool unless setup appended to it.
Release(c) ==
    LET s == caller[c].on IN
    /\ caller[c].pc = "held"
    /\ IF tracked.owner = 0 /\ Len(session[s].events) = session[s].seeded
       THEN MakeReady(s) ELSE Drop(s)
    /\ caller' = Done(Released(s), c)
    /\ UNCHANGED <<store, tracked, session, retiring, work, budget>>

\* The session store creates a session with this identity, without a seed or
\* with the stored log as its seed.  While the pool has an entry, the
\* coordinator's listener throws and the creation is rolled back.
CreateFresh(seed) ==
    /\ Live = {} /\ current = 0 /\ FreeSlots # {}
    /\ calls + acts < MaxInputs /\ acts' = acts + 1
    /\ LET events == IF seed = <<>> THEN <<>> ELSE Seeded(seed) IN
       /\ session' = [session EXCEPT ![NewSlot] =
            [NoSession EXCEPT !.where = "live", !.init = "pending",
                              !.events = events, !.acked = Len(events)]]
       /\ chain' = Append(chain, Op("init", NewSlot, Len(events)))
    /\ entry' = [entry EXCEPT ![NewSlot] = NoEntry]
    /\ UNCHANGED <<store, current, tracked, retiring, caller, stage, writing, calls, faults>>

\* A session accepts an event: a live one, whose event is enqueued, or a held
\* one during setup.
SessionAppends(s, open) ==
    /\ \/ s \in Live
       \/ \E c \in Callers : caller[c].pc = "held" /\ caller[c].on = s
    /\ calls + acts < MaxInputs /\ acts' = acts + 1
    /\ session' = [session EXCEPT ![s].events = Append(@, [n |-> NewEvent, open |-> open])]
    /\ UNCHANGED <<store, pool, tracked, retiring, caller, work, calls, faults>>

\* The write-behind controller hands over everything it has, one batch at a time.
HandOver(s) ==
    /\ session[s].where \in {"live", "disposed"}
    /\ session[s].init = "ready" /\ session[s].busy = "no"
    /\ session[s].acked < Len(session[s].events)
    /\ session' = [session EXCEPT ![s].busy = session[s].where]
    /\ chain' = Append(chain, Op("batch", s, Len(session[s].events)))
    /\ UNCHANGED <<store, pool, tracked, retiring, caller, stage, writing, budget>>

DisposeSession(s) ==
    /\ s \in Live
    /\ session' = [session EXCEPT ![s].where = "disposed"]
    /\ retiring' = s
    /\ UNCHANGED <<store, pool, tracked, caller, work, budget>>

\* retireCore after its flush: the release of the state is queued.
FlushedForRetirement(s) ==
    /\ session[s].where = "disposed" /\ session[s].init = "ready"
    /\ session[s].busy = "no" /\ session[s].acked = Len(session[s].events)
    /\ session' = [session EXCEPT ![s].where = "retiring"]
    /\ chain' = Append(chain, Op("retire", s, 0))
    /\ UNCHANGED <<store, pool, tracked, retiring, caller, stage, writing, budget>>

RetireRuns ==
    /\ Starts("retire")
    /\ LET s == Head1.of IN
       /\ session' = [session EXCEPT ![s].where = "none"]
       /\ tracked' = IF tracked.owner = s THEN NoState ELSE tracked
       /\ retiring' = IF retiring = s THEN 0 ELSE retiring
    /\ Finish
    /\ UNCHANGED <<store, pool, caller, budget>>

\* The final flush failed: the session keeps its place in the live map and its
\* state, and whoever waited for the retirement is rejected with it.
RetireFails(s) ==
    /\ \/ session[s].where = "failing"
       \/ session[s].where = "disposed" /\ session[s].init = "failed"
    /\ session' = [session EXCEPT ![s].where = "stuck"]
    /\ retiring' = IF retiring = s THEN 0 ELSE retiring
    /\ caller' = [c \in Callers |->
            IF retiring = s /\ caller[c].pc = "start" THEN Idle ELSE caller[c]]
    /\ UNCHANGED <<store, pool, tracked, work, budget>>

-----------------------------------------------------------------------------
(* Writes on the chain. *)

\* Mutant: a batch counts as written although its write failed.
SettledAnyway(ok) ==
    LET s == Head1.of IN
    CASE Head1.kind \in {"init", "suffix"} ->
            [session EXCEPT ![s].init = IF ok THEN "ready" ELSE "failed"]
      [] Head1.kind = "batch" ->
            [session EXCEPT ![s].busy = "no", ![s].acked = Head1.arg]
      [] OTHER -> session

\* The session after the running operation ended.
Settled(ok) ==
    LET s == Head1.of IN
    CASE Head1.kind \in {"init", "suffix"} ->
            [session EXCEPT ![s].init = IF ok THEN "ready" ELSE "failed"]
      [] Head1.kind = "batch" ->
            [session EXCEPT
                ![s].busy = "no",
                ![s].acked = IF ok THEN Head1.arg ELSE @,
                ![s].where = IF ~ok /\ session[s].busy = "disposed" THEN "failing" ELSE @]
      [] OTHER -> session

End(ok) == Finish /\ session' = Settled(ok)

Continue(next, at, events) ==
    /\ stage' = next
    /\ writing' = [at |-> at, events |-> events]
    /\ UNCHANGED <<chain, session>>

\* appendCore up to its write, over the state t: nothing to do, refused while
\* the identity is reserved, adopted when it is not tracked, and else written
\* if it continues the stored log.
AppendCore(t, at, events) ==
    \/ events = <<>> /\ End(TRUE)
    \/ events # <<>> /\ Held /\ End(FALSE)
    \/ events # <<>> /\ ~Held /\ ~t.known /\ Continue("adopt", at, events)
    \/ events # <<>> /\ ~Held /\ t.known /\ at # t.cursor /\ End(FALSE)
    \/ events # <<>> /\ ~Held /\ t.known /\ at = t.cursor /\ Continue("write", at, events)

AppendRuns ==
    /\ Starts("append")
    /\ AppendCore(tracked, Head1.of, <<[n |-> Head1.arg, open |-> FALSE]>>)
    /\ UNCHANGED <<store, pool, tracked, retiring, caller, budget>>

\* attachPrepared's suffix of events that the store does not have.
SuffixRuns ==
    /\ Starts("suffix")
    /\ LET s == Head1.of
           at == Len(entry[s].source.log)
       IN AppendCore(tracked, at, SubSeq(session[s].events, at + 1, Head1.arg))
    /\ UNCHANGED <<store, pool, tracked, retiring, caller, budget>>

\* appendLiveBatch: the events that initialization already stored are filtered.
BatchRuns ==
    /\ Starts("batch")
    /\ LET s == Head1.of
           cursor == IF tracked.known THEN tracked.cursor ELSE 0
           at == IF session[s].acked < cursor THEN cursor ELSE session[s].acked
       IN AppendCore(tracked, at, SubSeq(session[s].events, at + 1, Head1.arg))
    /\ UNCHANGED <<store, pool, tracked, retiring, caller, budget>>

\* The live map's controller of the owner still has events to write.
HasWork(s) == session[s].acked < Len(session[s].events)

\* Mutant: ownerless state is claimed without comparing the seed with the log.
InitRunsClaimsUnseen ==
    /\ Starts("init")
    /\ LET s == Head1.of
           seed == SubSeq(session[s].events, 1, Head1.arg)
           Bind(t) == /\ tracked' = t
                      /\ AppendCore(t, t.cursor, SubSeq(seed, t.cursor + 1, Len(seed)))
       IN
       \/ /\ tracked.known /\ tracked.owner = 0
          /\ Bind([tracked EXCEPT !.owner = s])
       \/ /\ tracked.known /\ tracked.owner # 0
          /\ UNCHANGED tracked /\ End(FALSE)
       \/ /\ ~tracked.known /\ log # <<>>
          /\ IF IsPrefix(log, seed)
             THEN Bind([known |-> TRUE, cursor |-> Len(log), materialized |-> TRUE,
                        owner |-> s])
             ELSE UNCHANGED tracked /\ End(FALSE)
       \/ /\ ~tracked.known /\ log = <<>>
          /\ Bind([NoState EXCEPT !.known = TRUE, !.owner = s])
    /\ UNCHANGED <<store, pool, retiring, caller, budget>>

\* onCreated: claim ownerless state whose log the seed reproduces, reclaim an
\* identity that was never used, adopt a stored prefix, or start a new log.
InitRuns ==
    /\ Starts("init")
    /\ LET s == Head1.of
           seed == SubSeq(session[s].events, 1, Head1.arg)
           Rest(n) == SubSeq(seed, n + 1, Len(seed))
           Bind(t) == /\ tracked' = t
                      /\ AppendCore(t, t.cursor, Rest(t.cursor))
           reclaims == tracked.known /\ tracked.owner # 0
                       /\ ~tracked.materialized /\ ~HasWork(tracked.owner)
           untracked == ~tracked.known \/ reclaims
           stored == SubSeq(log, 1, tracked.cursor)
       IN
       \/ /\ ~tracked.known \/ tracked.owner = 0 \/ reclaims
          /\ Fault /\ tracked' = (IF reclaims THEN NoState ELSE tracked) /\ End(FALSE)
       \/ /\ tracked.known /\ tracked.owner = 0 /\ UNCHANGED faults
          /\ IF IsPrefix(stored, seed)
             THEN Bind([tracked EXCEPT !.owner = s])
             ELSE UNCHANGED tracked /\ End(FALSE)
       \/ /\ tracked.known /\ tracked.owner # 0 /\ ~reclaims
          /\ UNCHANGED <<tracked, faults>> /\ End(FALSE)
       \/ /\ untracked /\ log # <<>> /\ UNCHANGED faults
          /\ IF IsPrefix(log, seed)
             THEN Bind([known |-> TRUE, cursor |-> Len(log), materialized |-> TRUE,
                        owner |-> s])
             ELSE tracked' = NoState /\ End(FALSE)
       \/ /\ untracked /\ log = <<>> /\ UNCHANGED faults
          /\ IF current = 0
             THEN Bind([NoState EXCEPT !.known = TRUE, !.owner = s])
             ELSE tracked' = NoState /\ End(FALSE)
    /\ UNCHANGED <<store, pool, retiring, caller, calls, acts>>

\* adopt: an append to an identity that is not tracked takes the ready source or
\* reads the log, and commits it as a reservation would.
AdoptRuns ==
    /\ chain # <<>> /\ stage = "adopt"
    /\ LET taken == current # 0 /\ entry[current].phase = "ready"
           stale == taken /\ entry[current].source.revision # revision
           readable == taken \/ (log # <<>> /\ Live = {})
       IN \/ /\ readable /\ stale
             /\ UNCHANGED <<tracked, work, session, faults>>
          \/ /\ readable /\ ~stale /\ Interrupted(log)
             /\ stage' = "repair"
             /\ UNCHANGED <<tracked, chain, writing, session, faults>>
          \/ /\ readable /\ ~stale /\ ~Interrupted(log)
             /\ tracked' = [known |-> TRUE, cursor |-> Len(log),
                            materialized |-> TRUE, owner |-> 0]
             /\ IF writing.at = Len(log)
                THEN Continue("write", writing.at, writing.events)
                ELSE End(FALSE)
             /\ UNCHANGED faults
          \/ /\ IF readable THEN Fault ELSE UNCHANGED faults
             /\ End(FALSE)
             /\ UNCHANGED tracked
    /\ IF current # 0 /\ entry[current].phase = "ready" THEN Drop(current)
       ELSE UNCHANGED pool
    /\ UNCHANGED <<store, retiring, caller, calls, acts>>

AdoptRepaired ==
    /\ chain # <<>> /\ Head1.kind # "commit" /\ stage = "repair"
    /\ \/ /\ log' = Balanced(log) /\ revision' = revision + 1
          /\ stage' = "adopt"
          /\ UNCHANGED <<session, chain, writing, faults>>
       \/ /\ Fault /\ End(FALSE)
          /\ UNCHANGED store
    /\ UNCHANGED <<pool, tracked, retiring, caller, calls, acts>>

\* appendBatch settled.  The durable write moves the cursor and discards every
\* prepared view of the log.
WriteReturns ==
    /\ chain # <<>> /\ stage = "write"
    /\ \/ /\ log' = log \o writing.events /\ revision' = revision + 1
          /\ tracked' = [tracked EXCEPT !.materialized = TRUE,
                                        !.cursor = @ + Len(writing.events)]
          /\ Drop(current) /\ caller' = Released(current)
          /\ End(TRUE)
          /\ UNCHANGED faults
       \/ /\ Fault /\ End(FALSE)
          /\ UNCHANGED <<store, tracked, pool, caller>>
    /\ UNCHANGED <<retiring, calls, acts>>

\* delete: refused for a live or reserved identity; a view that is only read or
\* ready is discarded before the backend removes the log.
DeleteRuns ==
    /\ Starts("delete")
    /\ \/ /\ Live # {} \/ tracked.owner # 0 \/ Held
          /\ Finish
          /\ UNCHANGED <<pool, caller>>
       \/ /\ Live = {} /\ tracked.owner = 0 /\ ~Held
          /\ Drop(current) /\ caller' = Released(current)
          /\ stage' = "delete"
          /\ UNCHANGED <<chain, writing>>
    /\ UNCHANGED <<store, tracked, session, retiring, budget>>

DeleteReturns ==
    /\ Running("delete") /\ stage = "delete"
    /\ \/ /\ log' = <<>> /\ revision' = revision + 1 /\ tracked' = NoState
          /\ UNCHANGED faults
       \/ /\ Fault /\ UNCHANGED <<store, tracked>>
    /\ Finish
    /\ UNCHANGED <<pool, session, retiring, caller, calls, acts>>

-----------------------------------------------------------------------------
(* The other callers, and what is outside the coordinator. *)

\* append of one event after the stored ones, by a caller that is no live
\* session.  Unless AppendWhileHeld, only for an identity that is not in use.
RequestAppend ==
    /\ calls + acts < MaxInputs /\ acts' = acts + 1
    /\ retiring = 0 /\ Live = {}
    /\ (~Held /\ tracked.owner = 0) \/ AppendWhileHeld
    /\ chain' = Append(chain, Op("append", Len(Balanced(log)), NewEvent))
    /\ UNCHANGED <<store, pool, tracked, session, retiring, caller, stage,
                   writing, calls, faults>>

\* delete, once no retirement is pending.
RequestDelete ==
    /\ calls + acts < MaxInputs /\ acts' = acts + 1
    /\ retiring = 0
    /\ chain' = Append(chain, Op("delete", 0, 0))
    /\ UNCHANGED <<store, pool, tracked, session, retiring, caller, stage,
                   writing, calls, faults>>

\* Another session of the pool is touched and this ready entry is the oldest.
Evict ==
    /\ current # 0 /\ entry[current].phase = "ready"
    /\ calls + acts < MaxInputs /\ acts' = acts + 1
    /\ current' = 0
    /\ entry' = [entry EXCEPT ![current].phase = "gone"]
    /\ UNCHANGED <<store, tracked, session, retiring, caller, work, calls, faults>>

\* Another process appends.  The coordinator excludes no foreign writer; this
\* one respects an identity that the process has a cursor for or is writing.
ForeignWrite ==
    /\ calls + acts < MaxInputs /\ acts' = acts + 1
    /\ log # <<>> /\ ~tracked.known /\ stage = "queued"
    /\ log' = Append(Balanced(log), [n |-> NewEvent, open |-> FALSE])
    /\ revision' = revision + 1
    /\ UNCHANGED <<pool, tracked, session, retiring, caller, work, calls, faults>>

Operations ==
    \/ LoadReturns \/ CommitRuns \/ CommitRepaired \/ CheckRuns
    \/ AppendRuns \/ SuffixRuns \/ BatchRuns \/ InitRuns
    \/ AdoptRuns \/ AdoptRepaired \/ WriteReturns
    \/ DeleteRuns \/ DeleteReturns \/ RetireRuns

CallerSteps(c) == Begin(c) \/ ReadSettles(c) \/ Claim(c) \/ CommitReturns(c)
                  \/ CheckReturns(c)

\* A preparation is published or disposed, whatever its holder does.
Holder(c) == Publish(c, FALSE) \/ Release(c)

SessionSteps(s) == HandOver(s) \/ FlushedForRetirement(s) \/ RetireFails(s)

Environment ==
    \/ \E c \in Callers : Abort(c) \/ Publish(c, TRUE)
    \/ \E c \in Callers, kind \in Kinds : Call(c, kind)
    \/ \E seed \in {<<>>, log} : CreateFresh(seed)
    \/ \E s \in Slots : DisposeSession(s)
    \/ \E s \in Slots, open \in BOOLEAN : SessionAppends(s, open)
    \/ RequestAppend \/ RequestDelete \/ Evict \/ ForeignWrite

Next ==
    \/ Operations
    \/ \E c \in Callers : CallerSteps(c) \/ Holder(c)
    \/ \E s \in Slots : SessionSteps(s)
    \/ Environment

Fairness ==
    /\ WF_vars(Operations)
    /\ \A c \in Callers : WF_vars(CallerSteps(c)) /\ WF_vars(Holder(c))
    /\ \A s \in Slots : WF_vars(SessionSteps(s))

Spec == Init /\ [][Next]_vars /\ Fairness

-----------------------------------------------------------------------------
(* Properties. *)

Entry == [phase : {"loading", "ready", "committing", "reserved", "gone"},
          result : {"pending", "ok", "failed"},
          source : [revision : Int, log : Seq(Event)]]
State == [known : BOOLEAN, cursor : Nat, materialized : BOOLEAN, owner : Slots \cup {0}]
Session == [where : {"none", "live", "disposed", "failing", "retiring", "stuck"},
            init : {"pending", "ready", "failed"}, events : Seq(Event),
            seeded : Nat, acked : Nat, busy : {"no", "live", "disposed"}]
Caller == [pc : {"idle", "start", "await", "claim", "wait", "commit", "committed", "stale",
                 "failed", "held", "checking", "fresh", "outdated"},
           kind : Kinds, on : Slots \cup {0}, aborted : BOOLEAN]
Operation ==
    [kind : {"load", "init", "suffix", "batch", "retire"}, of : Slots, arg : Nat]
    \cup [kind : {"commit", "check"}, of : Slots, arg : Callers]
    \cup [kind : {"append", "delete"}, of : Nat, arg : Nat]

\* Every variable keeps its type, and no session has acknowledged an event it
\* does not have.
TypeOK ==
    /\ log \in Seq(Event) /\ revision \in Nat
    /\ current \in Slots \cup {0} /\ entry \in [Slots -> Entry]
    /\ tracked \in State
    /\ session \in [Slots -> Session] /\ retiring \in Slots \cup {0}
    /\ \A s \in Slots : session[s].acked <= Len(session[s].events)
    /\ caller \in [Callers -> Caller]
    /\ chain \in Seq(Operation)
    /\ stage \in {"queued", "repair", "adopt", "write", "delete"}
    /\ writing \in [at : Nat, events : Seq(Event)]
    /\ calls \in Nat /\ acts \in Nat /\ faults \in Nat

\* A held preparation is exactly what is stored, and the durable cursor stands
\* at its end without an owner: the check in attachPrepared never refuses it,
\* and no append, deletion, repair or foreign write slipped in between the
\* revision check of its commit and the moment it is published or given back.
HeldIsCurrent ==
    \A c \in Callers : caller[c].pc = "held" =>
        /\ current = caller[c].on /\ entry[current].phase = "reserved"
        /\ entry[current].source = [revision |-> revision, log |-> log]
        /\ tracked.known /\ tracked.owner = 0 /\ tracked.cursor = Len(log)

\* Of the callers that go for the same entry at most one is past the claim, and
\* nobody holds a preparation while a session with the identity is live.
SoleHolder ==
    /\ \A c, d \in Callers :
         /\ c # d
         /\ caller[c].pc \in {"commit", "committed", "held"}
         /\ caller[d].pc \in {"commit", "committed", "held"}
         => caller[c].on # caller[d].on
    /\ (\E c \in Callers : caller[c].pc = "held") => Live = {}

\* The log belongs to its owner: what is stored is a prefix of the events of
\* the session that owns it, as far as the cursor says.
OwnerExtendsLog ==
    tracked.owner # 0 =>
        /\ IsPrefix(log, session[tracked.owner].events)
        /\ tracked.cursor = Len(log)

\* Every event that the write path of a session has acknowledged to a flush is
\* stored, at its place.
FlushedIsDurable ==
    \A s \in Slots :
        session[s].where # "none" /\ session[s].init = "ready" =>
            IsPrefix(SubSeq(session[s].events, 1, session[s].acked), log)

\* Every prepare, load and inspect is answered, whoever reserves, cancels,
\* publishes, retires or invalidates in between: no waiter of a shared read, of a
\* reservation or of a retirement, failed or not, is left behind.
CallIsAnswered ==
    \A c \in Callers :
        caller[c].pc # "idle" ~> caller[c].pc \in {"idle", "held"}
=============================================================================

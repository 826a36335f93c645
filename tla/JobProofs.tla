------------------------------ MODULE JobProofs ------------------------------
(***************************************************************************)
(* Proofs about the job registry, and about the delivery of its completion *)
(* notices, for every set of jobs, owners and waits, every limit, budget   *)
(* and mode of delivery.                                                   *)
(***************************************************************************)
EXTENDS Notices, TLAPS, FiniteSetTheorems

\* The flag job.reported: it is set by every claim, and before the settlement by
\* nothing else; and a job that is not over has not been announced.
ReportIsClaimed ==
    /\ \A j \in killed \cup torn : reported[j]
    /\ \A j \in Jobs : ~IsTerminal(j) =>
         /\ reported[j] => j \in killed \cup torn
         /\ noticed[j] = 0

\* job.waiters counts exactly the waits whose continuation is still to come and
\* was not aborted; settlement leaves no wait behind, and releases no other.
WaitStates ==
    \A w \in Waits :
        /\ w \in counted <=> wait[w] \in {"waiting", "released", "timedOut"}
        /\ wait[w] = "waiting" => ~IsTerminal(target[w])
        /\ wait[w] \in {"released", "answered"} => IsTerminal(target[w])

\* What disposal can see: an active job has a record; a registry that goes away
\* has claimed and awaits all of them; and the owner of a record has a cleanup
\* attached, or a cleanup in progress that awaits the job.
Reachable ==
    /\ \A j \in Jobs : status[j] \in Active => j \in store
    /\ service # "up" => \A j \in Jobs : status[j] \in Active => j \in all /\ j \in torn
    /\ service = "gone" => store = {}
    /\ \A j \in store : owner[j] # Unowned =>
         /\ agent[owner[j]] = "live" => owner[j] \in cleanups
         /\ agent[owner[j]] = "draining" => j \in owned[owner[j]]
         /\ agent[owner[j]] # "gone"

IInv ==
    /\ TypeOK
    /\ ReportIsClaimed
    /\ WaitStates
    /\ Reachable
    /\ OwnerWithinLimit
    /\ CompletionReported
    /\ NoRedundantNotice

-----------------------------------------------------------------------------
(* Facts shared by several actions. *)

\* The places that an owner uses are finitely many.
LEMMA ActiveFinite ==
    ASSUME TypeOK, NEW o \in Owners \cup {Unowned}
    PROVE  IsFiniteSet(ActiveJobs(o)) /\ Cardinality(ActiveJobs(o)) \in Nat
<1>1. ActiveJobs(o) \subseteq Jobs /\ IsFiniteSet(Jobs)
  BY RegistryAssumption DEF TypeOK, ActiveJobs
<1>2. IsFiniteSet(ActiveJobs(o))
  BY <1>1, FS_Subset
<1> QED BY <1>2, FS_CardinalityType

\* An action that starts no job needs no place.
LEMMA LimitKept ==
    ASSUME TypeOK, OwnerWithinLimit, store' \subseteq store, owner' = owner,
           \A j \in Jobs : status'[j] \in Active => status[j] \in Active
    PROVE  OwnerWithinLimit'
<1> SUFFICES ASSUME NEW o \in Owners \cup {Unowned}
             PROVE  Cardinality(ActiveJobs(o)') <= Limit
  BY DEF OwnerWithinLimit
<1>1. ActiveJobs(o)' \subseteq ActiveJobs(o)
  BY DEF ActiveJobs, TypeOK
<1>2. /\ IsFiniteSet(ActiveJobs(o))
      /\ Cardinality(ActiveJobs(o)) \in Nat
  BY ActiveFinite
<1>3. /\ Cardinality(ActiveJobs(o)') <= Cardinality(ActiveJobs(o))
      /\ IsFiniteSet(ActiveJobs(o)')
  BY <1>1, <1>2, FS_Subset
<1>4. Cardinality(ActiveJobs(o)') \in Nat
  BY <1>3, FS_CardinalityType
<1>5. Cardinality(ActiveJobs(o)) <= Limit /\ Limit \in Nat
  BY RegistryAssumption DEF OwnerWithinLimit
<1> QED BY <1>2, <1>3, <1>4, <1>5

\* An action that keeps the records of all jobs and the claims disturbs only
\* what is said about waits and disposal.
LEMMA RecordsKept ==
    ASSUME IInv, UNCHANGED <<store, status, owner>>
    PROVE  OwnerWithinLimit' /\ \A j \in Jobs : IsTerminal(j)' <=> IsTerminal(j)
<1>1. OwnerWithinLimit'
  BY LimitKept DEF IInv
<1> QED BY <1>1 DEF IsTerminal

-----------------------------------------------------------------------------
(* The actions. *)

\* start takes a place that is free, for an owner whose cleanup it has attached.
LEMMA StartStep ==
    ASSUME IInv, NEW j \in Jobs, NEW o \in Owners \cup {Unowned}, Start(j, o)
    PROVE  IInv'
<1> USE DEF IInv
<1>1. TypeOK'
  BY DEF Start, TypeOK, Active, Terminal, history, waits
<1>2. CASE UNCHANGED <<store, status, owner>>
  <2>1. OwnerWithinLimit'
    BY <1>2, RecordsKept
  <2>2. ReportIsClaimed'
    BY <1>2 DEF Start, ReportIsClaimed, IsTerminal, history, waits, TypeOK
  <2>3. WaitStates'
    BY <1>2 DEF Start, WaitStates, IsTerminal, history, waits, TypeOK
  <2>4. Reachable'
    BY <1>2 DEF Start, Reachable, OwnerIsLive, history, waits, TypeOK
  <2>5. CompletionReported' /\ NoRedundantNotice'
    BY <1>2 DEF Start, CompletionReported, NoRedundantNotice, IsTerminal, history, waits
  <2> QED BY <1>1, <2>1, <2>2, <2>3, <2>4, <2>5
<1>3. CASE /\ Admits(o)
           /\ store' = store \cup {j}
           /\ status' = [status EXCEPT ![j] = "running"]
           /\ owner' = [owner EXCEPT ![j] = o]
  <2>1. /\ ~IsTerminal(j) /\ ~IsTerminal(j)'
        /\ \A i \in Jobs : i # j => /\ status'[i] = status[i]
                                    /\ owner'[i] = owner[i]
                                    /\ IsTerminal(i)' <=> IsTerminal(i)
        /\ status'[j] = "running" /\ owner'[j] = o
        /\ j \notin store
        /\ service = "up"
        /\ OwnerIsLive(o)
        /\ cleanups' = cleanups \cup ({o} \ {Unowned})
        /\ UNCHANGED <<reported, noticed, wait, target, counted, agent, owned,
                       service, all, killed, torn>>
    BY <1>3 DEF Start, TypeOK, IsTerminal, Terminal, history, waits
  <2>2. ReportIsClaimed'
    BY <2>1 DEF ReportIsClaimed, TypeOK
  <2>3. WaitStates'
    BY <2>1 DEF WaitStates, TypeOK
  <2>4. Reachable'
    BY <1>3, <2>1 DEF Reachable, OwnerIsLive, TypeOK
  <2>5. CompletionReported' /\ NoRedundantNotice'
    BY <2>1 DEF CompletionReported, NoRedundantNotice
  <2>6. OwnerWithinLimit'
    <3> SUFFICES ASSUME NEW p \in Owners \cup {Unowned}
                 PROVE  Cardinality(ActiveJobs(p)') <= Limit
      BY DEF OwnerWithinLimit
    <3>1. IsFiniteSet(ActiveJobs(p)) /\ Cardinality(ActiveJobs(p)) \in Nat
      BY ActiveFinite
    <3>2. Limit \in Nat /\ Cardinality(ActiveJobs(p)) <= Limit
      BY RegistryAssumption DEF OwnerWithinLimit
    <3>3. CASE p = o
      <4>1. ActiveJobs(p)' = ActiveJobs(p) \cup {j} /\ j \notin ActiveJobs(p)
        BY <1>3, <2>1, <3>3 DEF ActiveJobs, Active, TypeOK
      <4>2. Cardinality(ActiveJobs(p)') = Cardinality(ActiveJobs(p)) + 1
        BY <3>1, <4>1, FS_AddElement
      <4>3. Cardinality(ActiveJobs(p)) < Limit
        BY <1>3, <3>3 DEF Admits
      <4> QED BY <3>1, <3>2, <4>2, <4>3
    <3>4. CASE p # o
      <4>1. ActiveJobs(p)' = ActiveJobs(p)
        BY <1>3, <2>1, <3>4 DEF ActiveJobs, TypeOK
      <4> QED BY <3>2, <4>1
    <3> QED BY <3>3, <3>4
  <2> QED BY <1>1, <2>2, <2>3, <2>4, <2>5, <2>6
<1> QED BY <1>2, <1>3 DEF Start

\* A settlement keeps what is said of every job: the notice is sent exactly when
\* nobody has claimed the report and no counted wait will return it.
LEMMA ProducerSettlesStep ==
    ASSUME IInv, NEW j \in Jobs, ProducerSettles(j)
    PROVE  IInv'
<1> USE DEF IInv
<1> PICK outcome \in Outcomes : Settle({j}, outcome)
  BY DEF ProducerSettles
<1>0. UNCHANGED <<store, owner, target, counted, cleanups, agent, owned, service, all,
                  killed, torn>>
  BY DEF ProducerSettles, lifecycle, history
<1>a. outcome \in Terminal /\ outcome \notin Active /\ outcome # "none"
  BY RegistryAssumption DEF Terminal, Active
<1>1. TypeOK'
  <2>1. status' \in [Jobs -> {"none"} \cup Active \cup Terminal]
    BY <1>a DEF Settle, TypeOK
  <2>2. reported' \in [Jobs -> BOOLEAN]
    <3>1. \A i \in Jobs : reported'[i] \in BOOLEAN
      BY DEF Settle, TypeOK
    <3> QED BY <3>1 DEF Settle
  <2>3. noticed' \in [Jobs -> Nat]
    BY DEF Settle, TypeOK
  <2>4. wait' \in [Waits -> {"new", "waiting", "released", "timedOut", "aborted",
                             "answered", "late", "stillLive"}]
    BY DEF Settle, TypeOK
  <2>5. \A i \in store' \cup produced' \cup asked' : status'[i] # "none"
    BY <1>0, <1>a DEF ProducerSettles, Settle, TypeOK
  <2> QED BY <1>0, <2>1, <2>2, <2>3, <2>4, <2>5 DEF TypeOK, ProducerSettles, lifecycle, history
<1>2. CASE IsTerminal(j)
  <2>1. UNCHANGED <<status, reported, noticed, wait>>
    <3>1. {i \in {j} : ~IsTerminal(i)} = {}
      BY <1>2
    <3> QED BY <3>1 DEF Settle, TypeOK
  <2>2. OwnerWithinLimit'
    BY <1>0, <2>1, RecordsKept
  <2>3. ReportIsClaimed' /\ WaitStates' /\ Reachable' /\ CompletionReported' /\ NoRedundantNotice'
    BY <1>0, <2>1 DEF ReportIsClaimed, WaitStates, Reachable, CompletionReported,
                      NoRedundantNotice, IsTerminal
  <2> QED BY <1>1, <2>2, <2>3
<1>3. CASE ~IsTerminal(j)
  <2> DEFINE suppressed == reported[j] \/ WaitersOf(j) # {}
             told == ~suppressed /\ service = "up" /\ owner[j] # Unowned
  <2>1. {i \in {j} : ~IsTerminal(i)} = {j}
    BY <1>3
  <2>2. \A i \in Jobs : i # j => /\ status'[i] = status[i]
                                 /\ reported'[i] = reported[i]
                                 /\ noticed'[i] = noticed[i]
                                 /\ IsTerminal(i)' <=> IsTerminal(i)
    BY <2>1 DEF Settle, IsTerminal
  <2>3. /\ status'[j] = outcome
        /\ reported'[j] = suppressed
        /\ noticed'[j] = IF told THEN noticed[j] + 1 ELSE noticed[j]
        /\ IsTerminal(j)'
    BY <1>a, <2>1 DEF Settle, IsTerminal
  <2>4. \A w \in Waits : wait'[w] = IF wait[w] = "waiting" /\ target[w] = j
                                    THEN "released" ELSE wait[w]
    BY <2>1 DEF Settle
  <2> HIDE DEF suppressed, told
  <2>5. WaitStates'
    BY <1>0, <1>3, <2>2, <2>3, <2>4 DEF WaitStates, TypeOK
  <2>6. ReportIsClaimed'
    BY <1>0, <2>2, <2>3 DEF ReportIsClaimed, TypeOK, suppressed
  <2>7. Reachable'
    BY <1>0, <1>a, <2>2, <2>3 DEF Reachable, TypeOK
  <2>8. OwnerWithinLimit'
    <3>1. \A i \in Jobs : status'[i] \in Active => status[i] \in Active
      BY <1>a, <2>2, <2>3
    <3> QED BY <1>0, <3>1, LimitKept
  <2>9. status[j] \in Active
    BY <1>3 DEF ProducerSettles, TypeOK, IsTerminal
  <2>10. CompletionReported'
    <3> SUFFICES ASSUME NEW i \in Jobs, IsTerminal(i)', owner[i] # Unowned
                 PROVE  \/ noticed'[i] = 1
                        \/ i \in killed \cup torn
                        \/ \E w \in Waits : /\ target[w] = i
                                            /\ wait'[w] \in {"released", "timedOut", "answered"}
      BY <1>0 DEF CompletionReported
    <3>1. CASE i # j
      BY <2>2, <2>4, <3>1 DEF CompletionReported
    <3>2. CASE i = j
      <4>1. CASE told
        BY <1>3, <2>3, <3>2, <4>1 DEF ReportIsClaimed
      <4>2. CASE service # "up"
        BY <2>9, <3>2, <4>2 DEF Reachable
      <4>3. CASE reported[j]
        BY <1>3, <3>2, <4>3 DEF ReportIsClaimed
      <4>4. CASE WaitersOf(j) # {}
        <5>1. PICK w \in counted : target[w] = j
          BY <4>4 DEF WaitersOf
        <5>2. w \in Waits /\ wait[w] \in {"waiting", "released", "timedOut"}
          BY <5>1 DEF TypeOK, WaitStates
        <5> QED BY <2>4, <3>2, <5>1, <5>2
      <4> QED BY <3>2, <4>1, <4>2, <4>3, <4>4 DEF told, suppressed
    <3> QED BY <3>1, <3>2
  <2>11. NoRedundantNotice'
    <3> SUFFICES ASSUME NEW i \in Jobs, noticed'[i] > 0
                 PROVE  /\ noticed'[i] = 1
                        /\ i \notin killed \cup torn
                        /\ \A w \in Waits : target[w] = i =>
                              wait'[w] \notin {"released", "timedOut", "answered"}
      BY <1>0 DEF NoRedundantNotice
    <3>1. CASE i # j
      BY <2>2, <2>4, <3>1 DEF NoRedundantNotice
    <3>2. CASE i = j
      <4>1. noticed[j] = 0
        BY <1>3 DEF ReportIsClaimed
      <4>2. told
        BY <2>3, <3>2, <4>1
      <4>3. noticed'[i] = 1
        BY <2>3, <3>2, <4>1, <4>2
      <4>4. i \notin killed \cup torn
        BY <3>2, <4>2 DEF told, suppressed, ReportIsClaimed
      <4>5. \A w \in Waits : target[w] = i =>
               wait[w] \notin {"waiting", "released", "timedOut", "answered"}
        BY <1>3, <3>2, <4>2 DEF told, suppressed, WaitersOf, WaitStates
      <4> QED BY <2>4, <4>3, <4>4, <4>5
    <3> QED BY <3>1, <3>2
  <2> QED BY <1>1, <2>5, <2>6, <2>7, <2>8, <2>10, <2>11
<1> QED BY <1>2, <1>3

\* A kill claims the report before the producer can settle.
LEMMA KillStep ==
    ASSUME IInv, NEW j \in Jobs, Kill(j)
    PROVE  IInv'
<1> USE DEF IInv
<1>1. /\ j \in store /\ status[j] # "none"
      /\ UNCHANGED <<store, owner, noticed, wait, target, counted, cleanups, agent,
                     owned, service, all, torn>>
      /\ reported' = [reported EXCEPT ![j] = TRUE]
  BY DEF Kill, waits, lifecycle, TypeOK
<1>2. /\ \A i \in Jobs : IsTerminal(i)' <=> IsTerminal(i)
      /\ \A i \in Jobs : status'[i] \in Active <=> status[i] \in Active
      /\ killed' = IF IsTerminal(j) THEN killed ELSE killed \cup {j}
  BY <1>1 DEF Kill, TypeOK, IsTerminal, Terminal, Active
<1>3. TypeOK'
  BY DEF Kill, TypeOK, Active, waits, lifecycle
<1>4. ReportIsClaimed'
  BY <1>1, <1>2 DEF ReportIsClaimed, TypeOK
<1>5. WaitStates'
  BY <1>1, <1>2 DEF WaitStates, TypeOK
<1>6. Reachable'
  BY <1>1, <1>2 DEF Reachable, TypeOK
<1>7. OwnerWithinLimit'
  BY <1>1, <1>2, LimitKept
<1>8. CompletionReported'
  BY <1>1, <1>2 DEF CompletionReported
<1>9. NoRedundantNotice'
  BY <1>1, <1>2 DEF NoRedundantNotice, ReportIsClaimed
<1> QED BY <1>3, <1>4, <1>5, <1>6, <1>7, <1>8, <1>9

\* A read claims the report of a job that is over.
LEMMA ReadStep ==
    ASSUME IInv, NEW j \in Jobs, Read(j)
    PROVE  IInv'
<1> USE DEF IInv
<1>1. /\ IsTerminal(j)
      /\ UNCHANGED <<store, status, owner, noticed, wait, target, counted, cleanups,
                     agent, owned, service, all, killed, torn>>
      /\ reported' = [reported EXCEPT ![j] = TRUE]
  BY DEF Read, waits, lifecycle, history
<1>2. TypeOK'
  BY DEF Read, TypeOK, waits, lifecycle, history
<1>3. ReportIsClaimed'
  BY <1>1 DEF ReportIsClaimed, TypeOK, IsTerminal
<1>4. WaitStates' /\ Reachable'
  BY <1>1 DEF WaitStates, Reachable, IsTerminal
<1>5. OwnerWithinLimit'
  BY <1>1, RecordsKept
<1>6. CompletionReported' /\ NoRedundantNotice'
  BY <1>1 DEF CompletionReported, NoRedundantNotice, IsTerminal
<1> QED BY <1>2, <1>3, <1>4, <1>5, <1>6

\* A wait is counted exactly when it finds a job that is not over.
LEMMA BeginWaitStep ==
    ASSUME IInv, NEW w \in Waits, BeginWait(w)
    PROVE  IInv'
<1> USE DEF IInv
<1>1. /\ wait[w] = "new" /\ target[w] \in Jobs
      /\ UNCHANGED <<store, status, owner, noticed, target, cleanups, agent, owned,
                     service, all, killed, torn>>
      /\ wait' = [wait EXCEPT ![w] = IF IsTerminal(target[w]) THEN "late" ELSE "waiting"]
      /\ counted' = IF IsTerminal(target[w]) THEN counted ELSE counted \cup {w}
      /\ reported' = IF IsTerminal(target[w])
                     THEN [reported EXCEPT ![target[w]] = TRUE] ELSE reported
  BY DEF BeginWait, lifecycle, history, TypeOK
<1>2. TypeOK'
  BY DEF BeginWait, TypeOK, lifecycle, history
<1>3. ReportIsClaimed'
  BY <1>1 DEF ReportIsClaimed, TypeOK, IsTerminal
<1>4. WaitStates'
  BY <1>1 DEF WaitStates, TypeOK, IsTerminal
<1>5. Reachable'
  BY <1>1 DEF Reachable
<1>6. OwnerWithinLimit'
  BY <1>1, RecordsKept
<1>7. CompletionReported'
  BY <1>1 DEF CompletionReported, TypeOK, IsTerminal
<1>8. NoRedundantNotice'
  BY <1>1 DEF NoRedundantNotice, TypeOK
<1> QED BY <1>2, <1>3, <1>4, <1>5, <1>6, <1>7, <1>8

\* A wait that times out stays counted, so a settlement before its continuation
\* is returned by it.
LEMMA TimeOutStep ==
    ASSUME IInv, NEW w \in Waits, TimeOut(w)
    PROVE  IInv'
<1> USE DEF IInv
<1>1. /\ wait[w] = "waiting" /\ target[w] \in Jobs
      /\ UNCHANGED <<store, status, owner, reported, noticed, target, counted, cleanups,
                     agent, owned, service, all, killed, torn>>
      /\ wait' = [wait EXCEPT ![w] = "timedOut"]
  BY DEF TimeOut, records, lifecycle, history, TypeOK
<1>2. TypeOK'
  BY DEF TimeOut, TypeOK, records, lifecycle, history
<1>3. ReportIsClaimed' /\ Reachable'
  BY <1>1 DEF ReportIsClaimed, Reachable, IsTerminal
<1>4. WaitStates'
  BY <1>1 DEF WaitStates, TypeOK, IsTerminal
<1>5. OwnerWithinLimit'
  BY <1>1, RecordsKept
<1>6. CompletionReported'
  BY <1>1 DEF CompletionReported, TypeOK, IsTerminal
<1>7. ~IsTerminal(target[w]) /\ noticed[target[w]] = 0
  BY <1>1 DEF WaitStates, ReportIsClaimed
<1>8. NoRedundantNotice'
  BY <1>1, <1>7 DEF NoRedundantNotice, TypeOK
<1> QED BY <1>2, <1>3, <1>4, <1>5, <1>6, <1>8

\* A wait that is aborted is uncounted at once.
LEMMA AbortWaitStep ==
    ASSUME IInv, NEW w \in Waits, AbortWait(w)
    PROVE  IInv'
<1> USE DEF IInv
<1>1. /\ wait[w] = "waiting" /\ target[w] \in Jobs
      /\ UNCHANGED <<store, status, owner, reported, noticed, target, cleanups,
                     agent, owned, service, all, killed, torn>>
      /\ wait' = [wait EXCEPT ![w] = "aborted"]
      /\ counted' = counted \ {w}
  BY DEF AbortWait, records, lifecycle, history, TypeOK
<1>2. TypeOK'
  BY DEF AbortWait, TypeOK, records, lifecycle, history
<1>3. ReportIsClaimed' /\ Reachable'
  BY <1>1 DEF ReportIsClaimed, Reachable, IsTerminal
<1>4. WaitStates'
  BY <1>1 DEF WaitStates, TypeOK, IsTerminal
<1>5. OwnerWithinLimit'
  BY <1>1, RecordsKept
<1>6. CompletionReported'
  BY <1>1 DEF CompletionReported, TypeOK, IsTerminal
<1>7. NoRedundantNotice'
  BY <1>1 DEF NoRedundantNotice, TypeOK
<1> QED BY <1>2, <1>3, <1>4, <1>5, <1>6, <1>7

\* The continuation of a wait claims the report of a job that is over by then.
LEMMA WaitReturnsStep ==
    ASSUME IInv, NEW w \in Waits, WaitReturns(w)
    PROVE  IInv'
<1> USE DEF IInv
<1>1. /\ wait[w] \in {"released", "timedOut"} /\ target[w] \in Jobs
      /\ UNCHANGED <<store, status, owner, noticed, target, cleanups, agent, owned,
                     service, all, killed, torn>>
      /\ wait' = [wait EXCEPT ![w] = IF IsTerminal(target[w]) THEN "answered"
                                     ELSE "stillLive"]
      /\ counted' = counted \ {w}
      /\ reported' = IF IsTerminal(target[w])
                     THEN [reported EXCEPT ![target[w]] = TRUE] ELSE reported
  BY DEF WaitReturns, lifecycle, history, TypeOK
<1>2. TypeOK'
  BY DEF WaitReturns, TypeOK, lifecycle, history
<1>3. ReportIsClaimed'
  BY <1>1 DEF ReportIsClaimed, TypeOK, IsTerminal
<1>4. WaitStates'
  BY <1>1 DEF WaitStates, TypeOK, IsTerminal
<1>5. Reachable'
  BY <1>1 DEF Reachable
<1>6. OwnerWithinLimit'
  BY <1>1, RecordsKept
<1>7. CompletionReported'
  BY <1>1 DEF CompletionReported, TypeOK, IsTerminal
<1>8. NoRedundantNotice'
  BY <1>1 DEF NoRedundantNotice, TypeOK
<1> QED BY <1>2, <1>3, <1>4, <1>5, <1>6, <1>7, <1>8

\* What cancelForTeardown does to the records of S: every job of S that was not
\* over is claimed first, and announced in no case.
LEMMA TeardownKeeps ==
    ASSUME IInv, NEW S \in SUBSET store, CancelForTeardown(S),
           UNCHANGED <<store, owner, target, counted, killed, produced>>
    PROVE  /\ status' \in [Jobs -> {"none"} \cup Active \cup Terminal]
           /\ reported' \in [Jobs -> BOOLEAN]
           /\ noticed' \in [Jobs -> Nat]
           /\ wait' \in [Waits -> {"new", "waiting", "released", "timedOut",
                                  "aborted", "answered", "late", "stillLive"}]
           /\ asked' \subseteq Jobs /\ torn' \subseteq Jobs
           /\ \A j \in store \cup produced \cup asked' : status'[j] # "none"
           /\ \A j \in Jobs : status'[j] \in Active => status[j] \in Active
           /\ \A j \in S : status[j] \in Active => j \in torn'
           /\ torn \subseteq torn'
           /\ ReportIsClaimed' /\ WaitStates' /\ OwnerWithinLimit'
           /\ CompletionReported' /\ NoRedundantNotice'
<1> USE DEF IInv
<1> DEFINE live == {j \in S : ~IsTerminal(j)}
<1> PICK thrown \in SUBSET live :
      LET stopped == live \ thrown
      IN /\ status' = [j \in Jobs |-> IF j \in stopped THEN "stopping"
                                        ELSE IF j \in thrown THEN "failed"
                                        ELSE status[j]]
         /\ reported' = [j \in Jobs |-> reported[j] \/ j \in stopped \cup thrown]
         /\ asked' = asked \cup stopped
         /\ torn' = torn \cup stopped \cup thrown
         /\ wait' = [w \in Waits |->
               IF wait[w] = "waiting" /\ target[w] \in thrown THEN "released" ELSE wait[w]]
         /\ UNCHANGED noticed
  BY DEF CancelForTeardown
<1>1. /\ live \subseteq Jobs /\ live \subseteq S /\ torn' = torn \cup live
      /\ \A j \in live : ~IsTerminal(j) /\ status[j] \in Active
  BY DEF TypeOK, IsTerminal
<1>2. /\ \A j \in Jobs : reported'[j] <=> (reported[j] \/ j \in live)
      /\ \A j \in Jobs \ thrown : IsTerminal(j)' <=> IsTerminal(j)
      /\ \A j \in thrown : IsTerminal(j)'
      /\ noticed' = noticed
  <2>1. \A j \in Jobs : reported'[j] = (reported[j] \/ j \in live)
    BY Zenon
  <2>2. \A j \in Jobs \ thrown : IsTerminal(j)' <=> IsTerminal(j)
    BY <1>1 DEF IsTerminal, Terminal
  <2>3. \A j \in thrown : IsTerminal(j)'
    BY <1>1 DEF IsTerminal, Terminal
  <2> QED BY <2>1, <2>2, <2>3
<1>3. \A j \in Jobs : status'[j] \in Active => status[j] \in Active
  BY <1>1 DEF Active, IsTerminal, Terminal
<1>4. \A j \in S : status[j] \in Active => j \in torn'
  BY <1>1 DEF Active, IsTerminal, Terminal
<1>5. OwnerWithinLimit'
  BY <1>3, LimitKept
<1>6. \A w \in Waits : wait'[w] = IF wait[w] = "waiting" /\ target[w] \in thrown
                                  THEN "released" ELSE wait[w]
  OBVIOUS
<1>7. ReportIsClaimed'
  BY <1>1, <1>2 DEF ReportIsClaimed, TypeOK
<1>8. WaitStates'
  BY <1>1, <1>2, <1>6 DEF WaitStates, TypeOK
<1>9. CompletionReported'
  BY <1>1, <1>2, <1>6 DEF CompletionReported
<1>10. NoRedundantNotice'
  <2> SUFFICES ASSUME NEW i \in Jobs, noticed[i] > 0
               PROVE  /\ noticed[i] = 1
                      /\ i \notin killed \cup torn'
                      /\ \A w \in Waits : target[w] = i =>
                            wait'[w] \notin {"released", "timedOut", "answered"}
    BY <1>2 DEF NoRedundantNotice
  <2>1. IsTerminal(i)
    BY DEF ReportIsClaimed
  <2>2. i \notin live
    BY <2>1
  <2> QED BY <1>1, <1>6, <2>2 DEF NoRedundantNotice
<1>11. status' \in [Jobs -> {"none"} \cup Active \cup Terminal]
  BY DEF TypeOK, Active, Terminal
<1>12. reported' \in [Jobs -> BOOLEAN]
  <2>1. \A j \in Jobs : (reported[j] \/ j \in live) \in BOOLEAN
    OBVIOUS
  <2> QED BY <2>1, Zenon
<1>13. wait' \in [Waits -> {"new", "waiting", "released", "timedOut",
                            "aborted", "answered", "late", "stillLive"}]
  BY DEF TypeOK
<1>14. \A j \in store \cup produced \cup asked' : status'[j] # "none"
  BY <1>1 DEF TypeOK
<1>15. noticed' \in [Jobs -> Nat] /\ asked' \subseteq Jobs /\ torn' \subseteq Jobs
  BY <1>1, <1>2 DEF TypeOK
<1> QED BY <1>1, <1>3, <1>4, <1>5, <1>7, <1>8, <1>9, <1>10, <1>11, <1>12, <1>13, <1>14,
           <1>15

\* The disposal of an owner sees every job that it has a record of: those that
\* are active are claimed, and it will await them.
LEMMA DisposeOwnerStep ==
    ASSUME IInv, NEW o \in Owners, DisposeOwner(o)
    PROVE  IInv'
<1> USE DEF IInv
<1> DEFINE mine == IF o \in cleanups THEN {j \in store : owner[j] = o} ELSE {}
<1>1. /\ agent[o] = "live"
      /\ agent' = [agent EXCEPT ![o] = "draining"]
      /\ cleanups' = cleanups \ {o}
      /\ owned' = [owned EXCEPT ![o] = mine]
      /\ CancelForTeardown(mine)
      /\ UNCHANGED <<store, owner, produced, target, counted, service, all, killed>>
  BY DEF DisposeOwner
<1>2. mine \in SUBSET store
  OBVIOUS
<1> HIDE DEF mine
<1>3. /\ status' \in [Jobs -> {"none"} \cup Active \cup Terminal]
      /\ reported' \in [Jobs -> BOOLEAN]
      /\ noticed' \in [Jobs -> Nat]
      /\ wait' \in [Waits -> {"new", "waiting", "released", "timedOut",
                     "aborted", "answered", "late", "stillLive"}]
      /\ asked' \subseteq Jobs /\ torn' \subseteq Jobs
      /\ \A j \in store \cup produced \cup asked' : status'[j] # "none"
      /\ \A j \in Jobs : status'[j] \in Active => status[j] \in Active
      /\ torn \subseteq torn'
      /\ ReportIsClaimed' /\ WaitStates' /\ OwnerWithinLimit'
      /\ CompletionReported' /\ NoRedundantNotice'
  BY <1>1, <1>2, TeardownKeeps
<1>4. TypeOK'
  BY <1>1, <1>2, <1>3 DEF TypeOK
<1>5. Reachable'
  <2>1. \A j \in Jobs : status'[j] \in Active => j \in store'
    BY <1>1, <1>3 DEF Reachable
  <2>2. service' # "up" => \A j \in Jobs : status'[j] \in Active => j \in all' /\ j \in torn'
    BY <1>1, <1>3 DEF Reachable
  <2>3. service' = "gone" => store' = {}
    BY <1>1 DEF Reachable
  <2>4. ASSUME NEW j \in store', owner'[j] # Unowned
        PROVE  /\ agent'[owner'[j]] = "live" => owner'[j] \in cleanups'
               /\ agent'[owner'[j]] = "draining" => j \in owned'[owner'[j]]
               /\ agent'[owner'[j]] # "gone"
    <3>1. j \in Jobs /\ owner[j] \in Owners /\ j \in store /\ owner'[j] = owner[j]
      BY <1>1, <2>4 DEF TypeOK
    <3>2. CASE owner[j] = o
      <4>1. o \in cleanups
        BY <1>1, <3>1, <3>2, <2>4 DEF Reachable
      <4>2. j \in mine
        BY <3>1, <3>2, <4>1 DEF mine
      <4> QED BY <1>1, <3>1, <3>2, <4>2 DEF TypeOK
    <3>3. CASE owner[j] # o
      BY <1>1, <2>4, <3>1, <3>3 DEF Reachable, TypeOK
    <3> QED BY <3>2, <3>3
  <2> QED BY <2>1, <2>2, <2>3, <2>4 DEF Reachable
<1> QED BY <1>3, <1>4, <1>5

\* The records of an owner are dropped when each of its jobs is over.
LEMMA OwnerDrainedStep ==
    ASSUME IInv, NEW o \in Owners, OwnerDrained(o)
    PROVE  IInv'
<1> USE DEF IInv
<1>1. /\ agent[o] = "draining" /\ \A j \in owned[o] : IsTerminal(j)
      /\ agent' = [agent EXCEPT ![o] = "gone"]
      /\ store' = store \ owned[o]
      /\ UNCHANGED <<status, owner, reported, noticed, wait, target, counted, cleanups,
                     owned, service, all, killed, torn>>
  BY DEF OwnerDrained, waits, history
<1>2. TypeOK'
  BY DEF OwnerDrained, TypeOK, waits, history
<1>3. ReportIsClaimed' /\ WaitStates' /\ CompletionReported' /\ NoRedundantNotice'
  BY <1>1 DEF ReportIsClaimed, WaitStates, CompletionReported, NoRedundantNotice, IsTerminal
<1>4. OwnerWithinLimit'
  BY <1>1, LimitKept
<1>5. Reachable'
  <2>1. \A j \in Jobs : status[j] \in Active => ~IsTerminal(j)
    BY DEF Active, IsTerminal, Terminal
  <2> QED BY <1>1, <2>1 DEF Reachable, TypeOK
<1> QED BY <1>2, <1>3, <1>4, <1>5

\* The disposal of the registry claims every active job and will await it.
LEMMA DisposeAllStep ==
    ASSUME IInv, DisposeAll
    PROVE  IInv'
<1> USE DEF IInv
<1>1. /\ service = "up" /\ service' = "draining" /\ all' = store
      /\ CancelForTeardown(store)
      /\ UNCHANGED <<store, owner, produced, target, counted, cleanups, agent, owned,
                     killed>>
  BY DEF DisposeAll
<1>2. /\ status' \in [Jobs -> {"none"} \cup Active \cup Terminal]
      /\ reported' \in [Jobs -> BOOLEAN]
      /\ noticed' \in [Jobs -> Nat]
      /\ wait' \in [Waits -> {"new", "waiting", "released", "timedOut",
                     "aborted", "answered", "late", "stillLive"}]
      /\ asked' \subseteq Jobs /\ torn' \subseteq Jobs
      /\ \A j \in store \cup produced \cup asked' : status'[j] # "none"
      /\ \A j \in Jobs : status'[j] \in Active => status[j] \in Active
      /\ \A j \in store : status[j] \in Active => j \in torn'
      /\ ReportIsClaimed' /\ WaitStates' /\ OwnerWithinLimit'
      /\ CompletionReported' /\ NoRedundantNotice'
  BY <1>1, TeardownKeeps
<1>3. TypeOK'
  BY <1>1, <1>2 DEF TypeOK
<1>4. Reachable'
  BY <1>1, <1>2 DEF Reachable
<1> QED BY <1>2, <1>3, <1>4

\* The store is cleared when each job that the registry awaits is over.
LEMMA ServiceDrainedStep ==
    ASSUME IInv, ServiceDrained
    PROVE  IInv'
<1> USE DEF IInv
<1>1. /\ service = "draining" /\ service' = "gone"
      /\ \A j \in all : IsTerminal(j)
      /\ store' = {} /\ cleanups' = {}
      /\ UNCHANGED <<status, owner, reported, noticed, wait, target, counted, agent,
                     owned, all, killed, torn>>
  BY DEF ServiceDrained, waits, history
<1>2. TypeOK'
  BY DEF ServiceDrained, TypeOK, waits, history
<1>3. ReportIsClaimed' /\ WaitStates' /\ CompletionReported' /\ NoRedundantNotice'
  BY <1>1 DEF ReportIsClaimed, WaitStates, CompletionReported, NoRedundantNotice, IsTerminal
<1>4. OwnerWithinLimit'
  BY <1>1, LimitKept
<1>5. Reachable'
  <2>1. \A j \in Jobs : status[j] \in Active => ~IsTerminal(j)
    BY DEF Active, IsTerminal, Terminal
  <2> QED BY <1>1, <2>1 DEF Reachable
<1> QED BY <1>2, <1>3, <1>4, <1>5

-----------------------------------------------------------------------------
(* The invariant of the specification. *)

\* Nothing is recorded, waited for or disposed of in the beginning.
LEMMA InitIInv == Init => IInv
<1> SUFFICES ASSUME Init PROVE IInv
  OBVIOUS
<1>1. TypeOK
  BY DEF Init, TypeOK
<1>2. /\ \A j \in Jobs : status[j] = "none" /\ ~IsTerminal(j) /\ status[j] \notin Active
      /\ \A j \in Jobs : ~reported[j] /\ noticed[j] = 0
      /\ \A w \in Waits : wait[w] = "new"
      /\ store = {} /\ counted = {} /\ killed \cup torn = {} /\ service = "up"
  BY DEF Init, IsTerminal, Terminal, Active
<1>3. ReportIsClaimed /\ WaitStates /\ Reachable
  BY <1>2 DEF ReportIsClaimed, WaitStates, Reachable
<1>4. CompletionReported /\ NoRedundantNotice
  BY <1>2 DEF CompletionReported, NoRedundantNotice
<1>5. OwnerWithinLimit
  <2>1. \A o \in Owners \cup {Unowned} : ActiveJobs(o) = {}
    BY DEF Init, ActiveJobs
  <2> QED BY <2>1, FS_EmptySet, RegistryAssumption DEF OwnerWithinLimit
<1> QED BY <1>1, <1>3, <1>4, <1>5 DEF IInv

\* Every action keeps the invariant.
LEMMA NextIInv == IInv /\ [Next]_vars => IInv'
<1> SUFFICES ASSUME IInv, [Next]_vars PROVE IInv'
  OBVIOUS
<1>1. ASSUME NEW j \in Jobs, NEW o \in Owners \cup {Unowned}, Start(j, o) PROVE IInv'
  BY <1>1, StartStep
<1>2. ASSUME NEW j \in Jobs, ProducerSettles(j) PROVE IInv'
  BY <1>2, ProducerSettlesStep
<1>3. ASSUME NEW j \in Jobs, Kill(j) PROVE IInv'
  BY <1>3, KillStep
<1>4. ASSUME NEW j \in Jobs, Read(j) PROVE IInv'
  BY <1>4, ReadStep
<1>5. ASSUME NEW w \in Waits, BeginWait(w) PROVE IInv'
  BY <1>5, BeginWaitStep
<1>6. ASSUME NEW w \in Waits, TimeOut(w) PROVE IInv'
  BY <1>6, TimeOutStep
<1>7. ASSUME NEW w \in Waits, AbortWait(w) PROVE IInv'
  BY <1>7, AbortWaitStep
<1>8. ASSUME NEW w \in Waits, WaitReturns(w) PROVE IInv'
  BY <1>8, WaitReturnsStep
<1>9. ASSUME NEW o \in Owners, DisposeOwner(o) PROVE IInv'
  BY <1>9, DisposeOwnerStep
<1>10. ASSUME NEW o \in Owners, OwnerDrained(o) PROVE IInv'
  BY <1>10, OwnerDrainedStep
<1>11. CASE DisposeAll
  BY <1>11, DisposeAllStep
<1>12. CASE ServiceDrained
  BY <1>12, ServiceDrainedStep
<1>13. CASE UNCHANGED vars
  <2> USE DEF IInv
  <2>1. /\ UNCHANGED <<status, owner, reported, noticed, store, produced, asked>>
        /\ UNCHANGED <<wait, target, counted>>
        /\ UNCHANGED <<service, agent, cleanups, owned, all>>
        /\ UNCHANGED <<killed, torn>>
    BY <1>13 DEF vars, records, waits, lifecycle, history
  <2>2. TypeOK'
    BY <2>1 DEF TypeOK
  <2>3. ReportIsClaimed' /\ WaitStates'
    BY <2>1 DEF ReportIsClaimed, WaitStates, IsTerminal
  <2>4. Reachable'
    BY <2>1 DEF Reachable
  <2>5. CompletionReported' /\ NoRedundantNotice'
    BY <2>1 DEF CompletionReported, NoRedundantNotice, IsTerminal
  <2>6. OwnerWithinLimit'
    BY <2>1 DEF OwnerWithinLimit, ActiveJobs
  <2> QED BY <2>2, <2>3, <2>4, <2>5, <2>6
<1> QED BY <1>1, <1>2, <1>3, <1>4, <1>5, <1>6, <1>7, <1>8, <1>9, <1>10, <1>11, <1>12,
           <1>13 DEF Next

\* Every reachable state of the registry satisfies the invariant.
THEOREM Invariance == Spec => []IInv
  BY InitIInv, NextIInv, PTL DEF Spec

\* The fields of the registry and of its job records keep their types.
THEOREM TypeCorrect == Spec => []TypeOK
<1>1. IInv => TypeOK
  BY DEF IInv
<1> QED BY <1>1, Invariance, PTL

\* settle, kill, wait and the disposals together never lose a completion: it is
\* announced, or the report was claimed by somebody who knows.
THEOREM CompletionIsReported == Spec => []CompletionReported
<1>1. IInv => CompletionReported
  BY DEF IInv
<1> QED BY <1>1, Invariance, PTL

\* settle never announces a job twice, nor to one who killed it, tore it down or
\* is answered by a wait.
THEOREM NoticeIsNotRedundant == Spec => []NoRedundantNotice
<1>1. IInv => NoRedundantNotice
  BY DEF IInv
<1> QED BY <1>1, Invariance, PTL

\* The limit that start checks holds for every owner at every time.
THEOREM LimitHolds == Spec => []OwnerWithinLimit
<1>1. IInv => OwnerWithinLimit
  BY DEF IInv
<1> QED BY <1>1, Invariance, PTL

\* disposeOwned and disposeAll end with no active job and no record behind them.
THEOREM DisposedOwnsNothing == Spec => []GoneOwnsNothing
<1>1. IInv => GoneOwnsNothing
  <2> SUFFICES ASSUME IInv, NEW j \in Jobs,
                      service = "gone" \/ (owner[j] # Unowned /\ agent[owner[j]] = "gone")
               PROVE  j \notin store /\ status[j] \notin Active
    BY DEF GoneOwnsNothing
  <2>1. j \notin store
    BY DEF IInv, Reachable
  <2> QED BY <2>1 DEF IInv, Reachable
<1> QED BY <1>1, Invariance, PTL

\* settle is first-wins: no step changes the status of a job that is over.
THEOREM OutcomeIsFinal == Spec => FirstOutcomeWins
<1>1. ASSUME IInv, [Next]_vars
      PROVE  [\A j \in Jobs : IsTerminal(j) => status'[j] = status[j]]_vars
  <2> SUFFICES ASSUME NEW j \in Jobs, IsTerminal(j) PROVE status'[j] = status[j]
    OBVIOUS
  <2>0. TypeOK
    BY <1>1 DEF IInv
  <2>1. ASSUME NEW i \in Jobs, NEW o \in Owners \cup {Unowned}, Start(i, o)
        PROVE  status'[j] = status[j]
    BY <2>0, <2>1 DEF Start, TypeOK, IsTerminal, Terminal
  <2>2. ASSUME NEW i \in Jobs, ProducerSettles(i) PROVE status'[j] = status[j]
    BY <2>2 DEF ProducerSettles, Settle
  <2>3. ASSUME NEW i \in Jobs, Kill(i) PROVE status'[j] = status[j]
    BY <2>0, <2>3 DEF Kill, TypeOK
  <2>4. ASSUME NEW o \in Owners, DisposeOwner(o) PROVE status'[j] = status[j]
    BY <2>4 DEF DisposeOwner, CancelForTeardown
  <2>5. CASE DisposeAll
    BY <2>5 DEF DisposeAll, CancelForTeardown
  <2>6. CASE status' = status
    BY <2>6
  <2>7. ASSUME NEW w \in Waits,
               BeginWait(w) \/ TimeOut(w) \/ AbortWait(w) \/ WaitReturns(w)
        PROVE  status' = status
    BY <2>7 DEF BeginWait, TimeOut, AbortWait, WaitReturns, records
  <2>8. ASSUME NEW i \in Jobs, Read(i) PROVE status' = status
    BY <2>8 DEF Read
  <2>9. ASSUME NEW o \in Owners, OwnerDrained(o) PROVE status' = status
    BY <2>9 DEF OwnerDrained
  <2>10. ServiceDrained \/ UNCHANGED vars => status' = status
    BY DEF ServiceDrained, vars, records
  <2> QED BY <1>1, <2>1, <2>2, <2>3, <2>4, <2>5, <2>6, <2>7, <2>8, <2>9, <2>10 DEF Next
<1> QED BY <1>1, Invariance, PTL DEF Spec, FirstOutcomeWins

-----------------------------------------------------------------------------
(* The delivery of the notices. *)

\* The variables of the delivery keep their types, and no owner spends more wakes
\* than the budget.
NoticesTypeOK ==
    /\ busy \in SUBSET Owners /\ human \in SUBSET Owners /\ stalled \in SUBSET Owners
    /\ ending \in [Owners -> {"none", "completed", "broken", "cancelled", "latched"}]
    /\ notice \in [Jobs -> {"none", "held", "heard", "dropped"}]
    /\ spent \in [Owners -> 0..Budget]
    /\ prompts \in [Owners -> Nat] /\ opened \in [Owners -> Nat]

\* A teardown has claimed the report of every active job that it awaits.
OwnedIsTorn ==
    \A o \in Owners : \A j \in owned[o] :
        status[j] # "none" /\ (status[j] \in Active => j \in torn)

\* Only a job of an owner is announced.
NoticeIsOwned == \A j \in Jobs : notice[j] # "none" => status[j] # "none" /\ owner[j] \in Owners

\* What the notices of an owner have cost: a person's message pays for one budget,
\* whether it was claimed, is still to be claimed or was cleared.
Paid ==
    \A o \in Owners :
        opened[o] + (IF o \in human THEN Budget ELSE 0) <= Budget * prompts[o] + spent[o]

\* A driver ends while its owner is busy, and a latched message waits.
EndingFits ==
    \A o \in Owners :
        /\ ending[o] # "none" => o \in busy
        /\ ending[o] = "latched" => o \in human

\* A turn that completed left no notice behind, and none has come since.
ClosedIsEmpty ==
    \A j \in Jobs : notice[j] = "held" => ending[owner[j]] # "completed"

\* Without late notices all that waits has a reason to.
HeldFits == ~LateNotices => HeldNoticeHasReason /\ ClosedIsEmpty

NIInv ==
    /\ IInv /\ OwnedIsTorn
    /\ NoticesTypeOK /\ NoticeIsOwned
    /\ Paid /\ EndingFits /\ HeldFits

-----------------------------------------------------------------------------
(* What a step of the registry is to the notices. *)

\* A job that was started stays with its owner and does not become active again.
LEMMA StartedStays ==
    ASSUME IInv, [Next]_vars, NEW j \in Jobs, status[j] # "none"
    PROVE  /\ status'[j] # "none" /\ owner'[j] = owner[j]
           /\ status'[j] \in Active => status[j] \in Active
           /\ torn \subseteq torn'
<1>0. TypeOK /\ status[j] \in Active \cup Terminal
  BY DEF IInv, TypeOK
<1>1. ASSUME NEW i \in Jobs, NEW o \in Owners \cup {Unowned}, Start(i, o)
      PROVE  status'[j] = status[j] /\ owner'[j] = owner[j] /\ torn' = torn
  BY <1>0, <1>1 DEF Start, TypeOK, history
<1>2. ASSUME NEW i \in Jobs, ProducerSettles(i)
      PROVE  /\ status'[j] = status[j] \/ status'[j] \in Terminal
             /\ owner'[j] = owner[j] /\ torn' = torn
  <2>1. Outcomes \subseteq Terminal
    BY RegistryAssumption
  <2> QED BY <1>2, <2>1 DEF ProducerSettles, Settle, history
<1>3. ASSUME NEW i \in Jobs, Kill(i)
      PROVE  /\ status'[j] = status[j] \/ (~IsTerminal(j) /\ status'[j] = "stopping")
             /\ owner'[j] = owner[j] /\ torn' = torn
  BY <1>0, <1>3 DEF Kill, TypeOK
<1>4. ASSUME NEW S \in SUBSET store, CancelForTeardown(S)
      PROVE  /\ \/ status'[j] = status[j] \/ status'[j] = "failed"
                \/ ~IsTerminal(j) /\ status'[j] = "stopping"
             /\ torn \subseteq torn'
  BY <1>4 DEF CancelForTeardown
<1>5. ASSUME NEW o \in Owners, DisposeOwner(o)
      PROVE  /\ \/ status'[j] = status[j] \/ status'[j] = "failed"
                \/ ~IsTerminal(j) /\ status'[j] = "stopping"
             /\ torn \subseteq torn' /\ owner'[j] = owner[j]
  BY <1>4, <1>5 DEF DisposeOwner
<1>6. ASSUME DisposeAll
      PROVE  /\ \/ status'[j] = status[j] \/ status'[j] = "failed"
                \/ ~IsTerminal(j) /\ status'[j] = "stopping"
             /\ torn \subseteq torn' /\ owner'[j] = owner[j]
  BY <1>4, <1>6 DEF DisposeAll
<1>7. ASSUME \/ \E i \in Jobs : Read(i)
             \/ \E w \in Waits : BeginWait(w) \/ TimeOut(w) \/ AbortWait(w) \/ WaitReturns(w)
             \/ \E o \in Owners : OwnerDrained(o)
             \/ ServiceDrained \/ UNCHANGED vars
      PROVE  UNCHANGED <<status, owner, torn>>
  BY <1>7 DEF Read, BeginWait, TimeOut, AbortWait, WaitReturns, OwnerDrained, ServiceDrained, vars,
              records, history
<1>8. /\ \/ status'[j] = status[j] \/ status'[j] \in Terminal
         \/ ~IsTerminal(j) /\ status'[j] = "stopping"
      /\ torn \subseteq torn' /\ owner'[j] = owner[j]
  BY <1>1, <1>2, <1>3, <1>5, <1>6, <1>7 DEF Next, Terminal
<1> QED BY <1>0, <1>8 DEF IsTerminal, Active, Terminal

\* The set of jobs that a disposal awaits is fixed when it begins, and all of
\* them are claimed at that moment.
LEMMA OwnedIsTornStep == ASSUME IInv, OwnedIsTorn, [Next]_vars PROVE OwnedIsTorn'
<1>0. TypeOK /\ \A o \in Owners : owned[o] \subseteq Jobs
  BY DEF IInv, TypeOK
<1>1. CASE owned' = owned
  BY <1>0, <1>1, StartedStays DEF OwnedIsTorn
<1>2. ASSUME NEW o \in Owners, DisposeOwner(o) PROVE OwnedIsTorn'
  <2> DEFINE mine == IF o \in cleanups THEN {j \in store : owner[j] = o} ELSE {}
  <2>1. owned' = [owned EXCEPT ![o] = mine] /\ CancelForTeardown(mine) /\ mine \subseteq store
    BY <1>2 DEF DisposeOwner
  <2>2. ASSUME NEW j \in mine PROVE status'[j] # "none" /\ (status'[j] \in Active => j \in torn')
    <3>1. j \in Jobs /\ status[j] \in Active \cup Terminal
      BY <1>0, <2>1 DEF TypeOK
    <3> HIDE DEF mine
    <3> QED BY <2>1, <3>1 DEF CancelForTeardown, IsTerminal, Active, Terminal
  <2> HIDE DEF mine
  <2>3. ASSUME NEW p \in Owners, NEW j \in owned'[p]
        PROVE  status'[j] # "none" /\ (status'[j] \in Active => j \in torn')
    <3>1. CASE p = o
      BY <1>0, <2>1, <2>2, <3>1 DEF TypeOK
    <3>2. CASE p # o
      <4>1. j \in owned[p] /\ j \in Jobs
        BY <1>0, <2>1, <2>3, <3>2 DEF TypeOK
      <4> QED BY <4>1, StartedStays DEF OwnedIsTorn
    <3> QED BY <3>1, <3>2
  <2> QED BY <2>3 DEF OwnedIsTorn
<1>3. owned' = owned \/ \E o \in Owners : DisposeOwner(o)
  BY DEF Next, Start, ProducerSettles, Kill, Read, BeginWait, TimeOut, AbortWait, WaitReturns,
         OwnerDrained, DisposeAll, ServiceDrained, vars, lifecycle
<1> QED BY <1>1, <1>2, <1>3

\* Only the settlement of one job announces, and its owner is live: a teardown
\* would have claimed the report.
LEMMA Announced ==
    ASSUME IInv, OwnedIsTorn, Next, NEW j \in Jobs, noticed'[j] > noticed[j]
    PROVE  /\ \A i \in Jobs : noticed'[i] > noticed[i] => i = j
           /\ status[j] # "none" /\ owner[j] \in Owners /\ agent[owner[j]] = "live"
           /\ UNCHANGED <<owner, agent>>
<1>0. TypeOK /\ \A i \in Jobs : noticed[i] \in Nat
  BY DEF IInv, TypeOK
<1>1. noticed' # noticed
  BY <1>0
<1>2. PICK i \in Jobs : ProducerSettles(i)
  BY <1>1 DEF Next, Start, Kill, Read, BeginWait, TimeOut, AbortWait, WaitReturns, DisposeOwner,
              OwnerDrained, DisposeAll, ServiceDrained, CancelForTeardown, records
<1>3. PICK outcome \in Outcomes : Settle({i}, outcome)
  BY <1>2 DEF ProducerSettles
<1>4. \A k \in Jobs : noticed'[k] > noticed[k] =>
         k = i /\ ~IsTerminal(i) /\ ~reported[i] /\ service = "up" /\ owner[i] # Unowned
  BY <1>0, <1>3 DEF Settle
<1>5. /\ j = i /\ ~IsTerminal(j) /\ ~reported[j] /\ owner[j] \in Owners
      /\ status[j] \in Active /\ UNCHANGED <<owner, agent>>
  BY <1>0, <1>2, <1>4 DEF ProducerSettles, lifecycle, TypeOK, IsTerminal
<1>6. j \notin torn /\ j \in store
  BY <1>5 DEF IInv, ReportIsClaimed, Reachable
<1>7. agent[owner[j]] = "live"
  <2>1. agent[owner[j]] \in {"live", "draining", "gone"}
    BY <1>0, <1>5 DEF TypeOK
  <2>2. CASE agent[owner[j]] = "draining"
    BY <1>5, <1>6, <2>2, RegistryAssumption DEF IInv, Reachable, OwnedIsTorn
  <2>3. CASE agent[owner[j]] = "gone"
    BY <1>5, <1>6, <2>3, RegistryAssumption DEF IInv, Reachable
  <2> QED BY <2>1, <2>2, <2>3
<1> QED BY <1>2, <1>4, <1>5, <1>7 DEF ProducerSettles

-----------------------------------------------------------------------------
(* Delivery, and the steps of an owner. *)

\* After the claim of all that waits nothing waits.
LEMMA HeardEffect ==
    ASSUME NoticesTypeOK, NEW S \in SUBSET Jobs, notice' = Heard(S)
    PROVE  /\ notice' \in [Jobs -> {"none", "held", "heard", "dropped"}]
           /\ \A j \in Jobs : notice'[j] = IF j \in S THEN "heard" ELSE notice[j]
BY DEF NoticesTypeOK, Heard

\* The parts of the invariant that are about the delivery.
NoticesOK == NoticesTypeOK /\ NoticeIsOwned /\ Paid /\ EndingFits /\ HeldFits

\* The budget is a number, and one more message pays for one budget.
LEMMA BudgetIsPaid ==
    ASSUME NEW n \in Nat
    PROVE  Budget \in Nat /\ Budget * n \in Nat /\ Budget * (n + 1) = Budget * n + Budget
BY NoticesAssumption

\* A notice is delivered: what it costs is spent or paid for by a message that
\* the same step claims.
LEMMA DeliverStep ==
    ASSUME NIInv, NEW j \in Jobs, status[j] # "none", owner[j] \in Owners,
           agent[owner[j]] = "live", Deliver(j, owner[j]), UNCHANGED <<owner, agent, ending>>,
           ending[owner[j]] = "completed" => LateNotices,
           \A i \in Jobs : status[i] # "none" => status'[i] # "none"
    PROVE  NoticesOK'
<1> DEFINE o == owner[j]
<1>0. /\ NoticesTypeOK /\ NoticeIsOwned /\ Paid /\ EndingFits /\ HeldFits
      /\ o \in Owners /\ agent[o] = "live" /\ Budget \in Nat
  BY NoticesAssumption DEF NIInv
<1>1. CASE Wakes /\ o \notin busy /\ spent[o] < Budget
  <2>1. /\ opened' = [opened EXCEPT ![o] = @ + 1]
        /\ busy' = busy \cup {o} /\ notice' = Heard(Held(o) \cup {j})
        /\ human' = human \ {o} /\ stalled' = stalled \ {o}
        /\ spent' = [spent EXCEPT ![o] = IF o \in human THEN 0 ELSE @ + 1]
        /\ prompts' = prompts
    BY <1>1 DEF Deliver
  <2>2. /\ notice' \in [Jobs -> {"none", "held", "heard", "dropped"}]
        /\ \A i \in Jobs : notice'[i] = IF i \in Held(o) \cup {j} THEN "heard" ELSE notice[i]
    BY <1>0, <2>1, HeardEffect DEF Held
  <2> HIDE DEF o
  <2>3. NoticesTypeOK'
    <3>1. /\ busy' \in SUBSET Owners /\ human' \in SUBSET Owners /\ stalled' \in SUBSET Owners
          /\ prompts' \in [Owners -> Nat] /\ opened' \in [Owners -> Nat]
          /\ ending' \in [Owners -> {"none", "completed", "broken", "cancelled", "latched"}]
      BY <1>0, <2>1 DEF NoticesTypeOK
    <3>2. spent[o] \in 0..Budget /\ spent[o] + 1 \in 0..Budget /\ 0 \in 0..Budget
      BY <1>0, <1>1 DEF NoticesTypeOK
    <3>3. spent' \in [Owners -> 0..Budget]
      BY <1>0, <2>1, <3>2 DEF NoticesTypeOK
    <3> QED BY <2>2, <3>1, <3>3 DEF NoticesTypeOK
  <2>4. NoticeIsOwned'
    BY <1>0, <2>2 DEF NoticeIsOwned, Held
  <2>5. Paid'
    <3>1. ASSUME NEW p \in Owners
          PROVE  opened'[p] + (IF p \in human' THEN Budget ELSE 0) <= Budget * prompts[p] + spent'[p]
      <4>1. /\ opened[p] + (IF p \in human THEN Budget ELSE 0) <= Budget * prompts[p] + spent[p]
            /\ opened[p] \in Nat /\ prompts[p] \in Nat /\ spent[p] \in 0..Budget
            /\ Budget * prompts[p] \in Nat
        BY <1>0, BudgetIsPaid DEF Paid, NoticesTypeOK
      <4>2. CASE p = o
        BY <1>0, <1>1, <2>1, <4>1, <4>2 DEF NoticesTypeOK
      <4>3. CASE p # o
        BY <1>0, <2>1, <4>1, <4>3 DEF NoticesTypeOK
      <4> QED BY <4>2, <4>3
    <3> QED BY <2>1, <3>1 DEF Paid
  <2>6. ASSUME ~LateNotices, NEW i \in Jobs, notice'[i] = "held"
        PROVE  /\ agent[owner[i]] = "live" /\ ending[owner[i]] # "completed"
               /\ \/ ~Wakes \/ spent'[owner[i]] = Budget
                  \/ owner[i] \in busy' \cup stalled'
    <3>1. notice[i] = "held" /\ owner[i] # o /\ owner[i] \in Owners
      BY <1>0, <2>2, <2>6 DEF Held, NoticeIsOwned
    <3>2. HeldNoticeHasReason /\ ClosedIsEmpty
      BY <1>0, <2>6 DEF HeldFits
    <3> QED BY <2>1, <3>1, <3>2, <1>0 DEF HeldNoticeHasReason, ClosedIsEmpty, NoticesTypeOK
  <2>7. HeldFits'
    BY <2>6 DEF HeldFits, HeldNoticeHasReason, ClosedIsEmpty
  <2>8. EndingFits'
    BY <1>0, <1>1, <2>1 DEF EndingFits
  <2> QED BY <2>3, <2>4, <2>5, <2>7, <2>8 DEF NoticesOK
<1>2. CASE ~(Wakes /\ o \notin busy /\ spent[o] < Budget)
  <2>1. /\ notice' = [notice EXCEPT ![j] = "held"]
        /\ UNCHANGED <<spent, opened, busy, human, stalled, prompts>>
    BY <1>2 DEF Deliver
  <2>2. NoticesTypeOK' /\ Paid' /\ EndingFits'
    BY <1>0, <2>1 DEF NoticesTypeOK, Paid, EndingFits
  <2>3. \A i \in Jobs : notice'[i] = IF i = j THEN "held" ELSE notice[i]
    BY <1>0, <2>1 DEF NoticesTypeOK
  <2>4. NoticeIsOwned'
    BY <1>0, <2>3 DEF NoticeIsOwned
  <2>5. ~Wakes \/ spent[o] = Budget \/ o \in busy
    BY <1>0, <1>2 DEF NoticesTypeOK
  <2>6. ASSUME ~LateNotices PROVE HeldNoticeHasReason' /\ ClosedIsEmpty'
    <3>1. HeldNoticeHasReason /\ ClosedIsEmpty /\ ending[o] # "completed"
      BY <1>0, <2>6 DEF HeldFits
    <3>2. HeldNoticeHasReason'
      BY <1>0, <2>1, <2>3, <2>5, <3>1 DEF HeldNoticeHasReason
    <3>3. ClosedIsEmpty'
      BY <1>0, <2>1, <2>3, <3>1 DEF ClosedIsEmpty
    <3> QED BY <3>2, <3>3
  <2>7. HeldFits'
    BY <2>6 DEF HeldFits
  <2> QED BY <2>2, <2>4, <2>7 DEF NoticesOK
<1> QED BY <1>1, <1>2

\* A step of the registry that announces nothing: an owner that goes away takes
\* what it held along.
LEMMA DropStep ==
    ASSUME NIInv, RegistryStep, \A j \in Jobs : ~(noticed'[j] > noticed[j])
    PROVE  NoticesOK'
<1> DEFINE left == {o \in Owners : agent[o] = "live" /\ agent'[o] # "live"}
<1>0. NoticesTypeOK /\ NoticeIsOwned /\ Paid /\ EndingFits /\ HeldFits /\ Next
  BY DEF NIInv, RegistryStep
<1>1. /\ busy' = busy \ left /\ human' = human \ left /\ stalled' = stalled \ left
      /\ notice' = [j \in Jobs |-> IF owner[j] \in left /\ notice[j] = "held"
                                   THEN "dropped" ELSE notice[j]]
      /\ ending' = [o \in Owners |-> IF o \in left THEN "none" ELSE ending[o]]
      /\ UNCHANGED <<spent, prompts, opened>>
  BY DEF RegistryStep
<1>2. \A j \in Jobs : status[j] # "none" => status'[j] # "none" /\ owner'[j] = owner[j]
  BY <1>0, StartedStays DEF NIInv
<1>3. NoticesTypeOK'
  BY <1>0, <1>1 DEF NoticesTypeOK
<1>4. NoticeIsOwned'
  BY <1>0, <1>1, <1>2 DEF NoticeIsOwned
<1>5. Paid'
  <2>1. ASSUME NEW p \in Owners
        PROVE  opened[p] + (IF p \in human' THEN Budget ELSE 0) <= Budget * prompts[p] + spent[p]
    <3>1. /\ opened[p] + (IF p \in human THEN Budget ELSE 0) <= Budget * prompts[p] + spent[p]
          /\ opened[p] \in Nat /\ prompts[p] \in Nat /\ spent[p] \in 0..Budget
          /\ Budget * prompts[p] \in Nat /\ Budget \in Nat
      BY <1>0, BudgetIsPaid DEF Paid, NoticesTypeOK
    <3> QED BY <1>1, <3>1
  <2> QED BY <1>1, <2>1 DEF Paid
<1>6. HeldFits'
  <2>1. ASSUME ~LateNotices, NEW j \in Jobs, notice'[j] = "held"
        PROVE  /\ agent'[owner'[j]] = "live" /\ ending'[owner'[j]] # "completed"
               /\ ~Wakes \/ spent'[owner'[j]] = Budget \/ owner'[j] \in busy' \cup stalled'
    <3>1. notice[j] = "held" /\ owner[j] \notin left /\ owner[j] \in Owners /\ owner'[j] = owner[j]
      BY <1>0, <1>1, <1>2, <2>1 DEF NoticeIsOwned
    <3>2. HeldNoticeHasReason /\ ClosedIsEmpty
      BY <1>0, <2>1 DEF HeldFits
    <3> QED BY <1>1, <3>1, <3>2 DEF HeldNoticeHasReason, ClosedIsEmpty
  <2> QED BY <2>1 DEF HeldFits, HeldNoticeHasReason, ClosedIsEmpty
<1>7. EndingFits'
  BY <1>0, <1>1 DEF EndingFits
<1> QED BY <1>3, <1>4, <1>5, <1>6, <1>7 DEF NoticesOK

\* What the registry does, with the delivery of the notice that settle announces.
LEMMA RegistryStepKeeps == ASSUME NIInv, RegistryStep PROVE NIInv'
<1>0. Next /\ IInv /\ OwnedIsTorn
  BY DEF RegistryStep, NIInv
<1>1. IInv' /\ OwnedIsTorn'
  BY <1>0, NextIInv, OwnedIsTornStep
<1>2. CASE \E j \in Jobs : noticed'[j] > noticed[j]
  <2>1. PICK j \in Jobs : noticed'[j] > noticed[j]
    BY <1>2
  <2>2. Deliver(j, owner[j]) /\ (ending[owner[j]] = "completed" => LateNotices)
    BY <2>1 DEF RegistryStep
  <2>3. /\ status[j] # "none" /\ owner[j] \in Owners /\ agent[owner[j]] = "live"
        /\ UNCHANGED <<owner, agent>>
    BY <1>0, <2>1, Announced
  <2>4. \A i \in Jobs : status[i] # "none" => status'[i] # "none"
    BY <1>0, StartedStays
  <2>5. ending' = ending
    <3>1. ending' = [o \in Owners |-> ending[o]]
      BY <2>3 DEF RegistryStep
    <3> QED BY <3>1 DEF NIInv, NoticesTypeOK
  <2> QED BY <1>1, <2>2, <2>3, <2>4, <2>5, DeliverStep DEF NIInv, NoticesOK
<1>3. CASE \A j \in Jobs : ~(noticed'[j] > noticed[j])
  BY <1>1, <1>3, DropStep DEF NIInv, NoticesOK
<1> QED BY <1>2, <1>3

\* A step of the owner that claims what waits: nothing is held any more, and a
\* message that refills the budget has paid for it.
LEMMA ClaimsStep ==
    ASSUME NIInv, NEW o \in Owners, NEW humans \in BOOLEAN, Claims(o, humans),
           prompts' \in [Owners -> Nat], \A p \in Owners : prompts'[p] >= prompts[p],
           humans => o \in human \/ prompts'[o] = prompts[o] + 1,
           busy' = busy \cup {o}, UNCHANGED <<vars, opened>>,
           ending' = [ending EXCEPT ![o] = "none"]
    PROVE  NIInv'
<1>0. /\ NoticesTypeOK /\ NoticeIsOwned /\ Paid /\ EndingFits /\ HeldFits
      /\ notice' = Heard(Held(o)) /\ human' = human \ {o} /\ stalled' = stalled \ {o}
      /\ spent' = IF humans THEN [spent EXCEPT ![o] = 0] ELSE spent
      /\ UNCHANGED <<status, owner, agent, opened>>
  BY DEF NIInv, Claims, vars, records, lifecycle
<1>1. /\ notice' \in [Jobs -> {"none", "held", "heard", "dropped"}]
      /\ \A i \in Jobs : notice'[i] = IF i \in Held(o) THEN "heard" ELSE notice[i]
  BY <1>0, HeardEffect DEF Held
<1>2. NoticesTypeOK'
  <2>1. spent' \in [Owners -> 0..Budget]
    BY <1>0, NoticesAssumption DEF NoticesTypeOK
  <2> QED BY <1>0, <1>1, <2>1 DEF NoticesTypeOK
<1>3. NoticeIsOwned'
  BY <1>0, <1>1 DEF NoticeIsOwned, Held
<1>4. Paid'
  <2>1. ASSUME NEW p \in Owners
        PROVE  opened[p] + (IF p \in human' THEN Budget ELSE 0) <= Budget * prompts'[p] + spent'[p]
    <3>1. /\ opened[p] + (IF p \in human THEN Budget ELSE 0) <= Budget * prompts[p] + spent[p]
          /\ opened[p] \in Nat /\ prompts[p] \in Nat /\ spent[p] \in 0..Budget
          /\ Budget * prompts[p] \in Nat /\ Budget \in Nat
      BY <1>0, BudgetIsPaid DEF Paid, NoticesTypeOK
    <3>2. prompts'[p] \in Nat /\ Budget * prompts'[p] \in Nat
      BY BudgetIsPaid
    <3>3. Budget * prompts[p] <= Budget * prompts'[p]
      <4>1. \A b, m, n \in Nat : m <= n => b * m <= b * n
        BY SMTT(30)
      <4> QED BY <3>1, <3>2, <4>1
    <3>4. CASE p = o /\ humans
      <4>1. spent'[p] = 0 /\ p \notin human'
        BY <1>0, <3>4 DEF NoticesTypeOK
      <4>2. CASE o \in human
        BY <3>1, <3>2, <3>3, <3>4, <4>1, <4>2
      <4>3. CASE prompts'[o] = prompts[o] + 1
        <5>1. Budget * prompts'[p] = Budget * prompts[p] + Budget
          BY <3>1, <3>4, <4>3, BudgetIsPaid
        <5> QED BY <3>1, <3>2, <4>1, <5>1
      <4> QED BY <3>4, <4>2, <4>3
    <3>5. CASE ~(p = o /\ humans)
      <4>1. spent'[p] = spent[p]
        BY <1>0, <3>5 DEF NoticesTypeOK
      <4> QED BY <1>0, <3>1, <3>2, <3>3, <4>1
    <3> QED BY <3>4, <3>5
  <2> QED BY <1>0, <2>1 DEF Paid
<1>5. HeldFits'
  <2>1. ASSUME ~LateNotices, NEW i \in Jobs, notice'[i] = "held"
        PROVE  /\ agent[owner[i]] = "live" /\ ending'[owner[i]] # "completed"
               /\ ~Wakes \/ spent'[owner[i]] = Budget \/ owner[i] \in busy' \cup stalled'
    <3>1. notice[i] = "held" /\ owner[i] # o /\ owner[i] \in Owners
      BY <1>0, <1>1, <2>1 DEF Held, NoticeIsOwned
    <3>2. HeldNoticeHasReason /\ ClosedIsEmpty
      BY <1>0, <2>1 DEF HeldFits
    <3> QED BY <1>0, <3>1, <3>2 DEF HeldNoticeHasReason, ClosedIsEmpty, NoticesTypeOK
  <2> QED BY <1>0, <2>1 DEF HeldFits, HeldNoticeHasReason, ClosedIsEmpty
<1>6. IInv' /\ OwnedIsTorn'
  BY NextIInv, OwnedIsTornStep DEF NIInv
<1>7. EndingFits'
  BY <1>0 DEF EndingFits, NoticesTypeOK
<1> QED BY <1>2, <1>3, <1>4, <1>5, <1>6, <1>7 DEF NIInv

\* A person's message refills the budget of an owner when it is claimed.
LEMMA HumanSendsStep == ASSUME NIInv, NEW o \in Owners, HumanSends(o) PROVE NIInv'
<1>0. /\ NoticesTypeOK /\ NoticeIsOwned /\ Paid /\ EndingFits /\ HeldFits
      /\ prompts' = [prompts EXCEPT ![o] = @ + 1] /\ busy' = busy \cup {o}
      /\ UNCHANGED <<vars, opened>>
  BY DEF NIInv, HumanSends
<1>1. /\ prompts' \in [Owners -> Nat]
      /\ \A p \in Owners : prompts'[p] = IF p = o THEN prompts[p] + 1 ELSE prompts[p]
      /\ \A p \in Owners : prompts[p] \in Nat /\ prompts'[p] >= prompts[p]
  BY <1>0 DEF NoticesTypeOK
<1>2. CASE o \in busy
  <2>1. /\ human' = human \cup {o} /\ UNCHANGED <<notice, spent, stalled, status, owner, agent>>
        /\ busy' = busy
        /\ stalled' = stalled
        /\ ending' = [ending EXCEPT ![o] = IF @ = "cancelled" THEN "latched" ELSE @]
    BY <1>0, <1>2 DEF HumanSends, vars, records, lifecycle
  <2>2. NoticesTypeOK' /\ NoticeIsOwned' /\ EndingFits'
    BY <1>0, <1>1, <1>2, <2>1 DEF NoticesTypeOK, NoticeIsOwned, EndingFits
  <2>5. HeldFits'
    <3>1. \A p \in Owners : ending'[p] = "completed" => ending[p] = "completed"
      BY <1>0, <2>1 DEF NoticesTypeOK
    <3> QED BY <1>0, <2>1, <3>1 DEF HeldFits, HeldNoticeHasReason, ClosedIsEmpty, NoticeIsOwned
  <2>3. Paid'
    <3>1. ASSUME NEW p \in Owners
          PROVE  opened[p] + (IF p \in human' THEN Budget ELSE 0) <= Budget * prompts'[p] + spent[p]
      <4>1. /\ opened[p] + (IF p \in human THEN Budget ELSE 0) <= Budget * prompts[p] + spent[p]
            /\ opened[p] \in Nat /\ prompts[p] \in Nat /\ spent[p] \in 0..Budget
            /\ Budget * prompts[p] \in Nat /\ Budget \in Nat
            /\ Budget * (prompts[p] + 1) = Budget * prompts[p] + Budget
        BY <1>0, BudgetIsPaid DEF Paid, NoticesTypeOK
      <4>2. CASE p = o
        <5>1. Budget * prompts'[p] = Budget * prompts[p] + Budget
          BY <1>1, <4>1, <4>2
        <5> QED BY <2>1, <4>1, <4>2, <5>1
      <4>3. CASE p # o
        BY <1>1, <2>1, <4>1, <4>3
      <4> QED BY <4>2, <4>3
    <3> QED BY <1>0, <2>1, <3>1 DEF Paid
  <2>4. IInv' /\ OwnedIsTorn'
    BY <1>0, NextIInv, OwnedIsTornStep DEF NIInv
  <2> QED BY <2>2, <2>3, <2>4, <2>5 DEF NIInv
<1>3. CASE o \notin busy
  <2>1. Claims(o, TRUE) /\ ending' = ending /\ ending[o] = "none"
    BY <1>0, <1>3 DEF HumanSends, EndingFits
  <2>2. ending' = [ending EXCEPT ![o] = "none"]
    BY <1>0, <2>1 DEF NoticesTypeOK
  <2> QED BY <1>0, <1>1, <2>1, <2>2, ClaimsStep
<1> QED BY <1>2, <1>3

\* A step of the owner claims what waits for it.
LEMMA NextStepStep == ASSUME NIInv, NEW o \in Owners, NextStep(o) PROVE NIInv'
<1>1. /\ prompts' \in [Owners -> Nat] /\ \A p \in Owners : prompts'[p] >= prompts[p]
      /\ busy' = busy \cup {o} /\ UNCHANGED <<vars, opened>>
      /\ ending' = [ending EXCEPT ![o] = "none"]
  BY DEF NIInv, NextStep, NoticesTypeOK
<1>2. PICK humans \in BOOLEAN : Claims(o, humans) /\ (humans => o \in human)
  <2>1. Claims(o, o \in human) /\ (o \in human) \in BOOLEAN
    BY DEF NextStep
  <2> QED BY <2>1
<1> QED BY <1>1, <1>2, ClaimsStep

\* A step that claims nothing and starts nothing: messages may be dropped and the
\* driver of one owner may end, be aborted or retire.
LEMMA OwnerStep ==
    ASSUME NIInv, NEW o \in Owners, UNCHANGED <<vars, spent, prompts, opened>>,
           NoticesTypeOK', human' \subseteq human,
           \A j \in Jobs : notice'[j] \in {notice[j], "dropped"},
           \A j \in Jobs : notice[j] = "none" => notice'[j] = "none",
           EndingFits',
           ~LateNotices => \A j \in Jobs :
               notice'[j] = "held" =>
                   /\ ending'[owner[j]] # "completed"
                   /\ owner[j] \in busy \cup stalled => owner[j] \in busy' \cup stalled'
    PROVE  NIInv'
<1>0. /\ NoticesTypeOK /\ NoticeIsOwned /\ Paid /\ HeldFits
      /\ UNCHANGED <<status, owner, agent>>
  BY DEF NIInv, vars, records, lifecycle
<1>1. NoticeIsOwned'
  BY <1>0 DEF NoticeIsOwned
<1>2. Paid'
  <2>1. ASSUME NEW p \in Owners
        PROVE  opened[p] + (IF p \in human' THEN Budget ELSE 0) <= Budget * prompts[p] + spent[p]
    <3>1. /\ opened[p] + (IF p \in human THEN Budget ELSE 0) <= Budget * prompts[p] + spent[p]
          /\ opened[p] \in Nat /\ prompts[p] \in Nat /\ spent[p] \in 0..Budget
          /\ Budget * prompts[p] \in Nat /\ Budget \in Nat
      BY <1>0, BudgetIsPaid DEF Paid, NoticesTypeOK
    <3> QED BY <3>1
  <2> QED BY <2>1 DEF Paid
<1>3. HeldFits'
  <2>1. ASSUME ~LateNotices, NEW j \in Jobs, notice'[j] = "held"
        PROVE  /\ agent[owner[j]] = "live" /\ ending'[owner[j]] # "completed"
               /\ ~Wakes \/ spent[owner[j]] = Budget \/ owner[j] \in busy' \cup stalled'
    <3>1. notice[j] = "held"
      BY <2>1
    <3>2. /\ agent[owner[j]] = "live"
          /\ ~Wakes \/ spent[owner[j]] = Budget \/ owner[j] \in busy \cup stalled
      BY <1>0, <2>1, <3>1 DEF HeldFits, HeldNoticeHasReason
    <3> QED BY <2>1, <3>2
  <2> QED BY <1>0, <2>1 DEF HeldFits, HeldNoticeHasReason, ClosedIsEmpty
<1>4. IInv' /\ OwnedIsTorn'
  BY NextIInv, OwnedIsTornStep DEF NIInv
<1> QED BY <1>1, <1>2, <1>3, <1>4 DEF NIInv

\* A driver ends: a turn that completes leaves no notice behind.
LEMMA TurnStep ==
    ASSUME NIInv, NEW o \in Owners, TurnCompletes(o) \/ TurnBreaks(o)
    PROVE  NIInv'
<1>0. NoticesTypeOK /\ EndingFits /\ HeldFits /\ NoticeIsOwned
  BY DEF NIInv
<1>1. /\ UNCHANGED <<vars, busy, notice, human, spent, prompts, opened, stalled>>
      /\ o \in busy
      /\ \/ ending' = [ending EXCEPT ![o] = "completed"] /\ Held(o) = {}
         \/ ending' = [ending EXCEPT ![o] = "broken"]
  BY DEF TurnCompletes, TurnBreaks, Ends
<1>2. NoticesTypeOK' /\ EndingFits'
  BY <1>0, <1>1 DEF NoticesTypeOK, EndingFits
<1>3. ASSUME ~LateNotices, NEW j \in Jobs, notice'[j] = "held"
      PROVE  ending'[owner[j]] # "completed"
  <2>1. notice[j] = "held" /\ owner[j] \in Owners /\ ending[owner[j]] # "completed"
    BY <1>0, <1>1, <1>3 DEF HeldFits, ClosedIsEmpty, NoticeIsOwned
  <2> QED BY <1>0, <1>1, <2>1 DEF Held, NoticesTypeOK
<1> QED BY <1>1, <1>2, <1>3, OwnerStep

\* A cancel drops what waits, or leaves it for a driver that is aborted now.
LEMMA CancelsStep ==
    ASSUME NIInv, NEW o \in Owners, NEW keepInbox \in BOOLEAN, Cancels(o, keepInbox)
    PROVE  NIInv'
<1>0. NoticesTypeOK /\ EndingFits /\ HeldFits /\ NoticeIsOwned
  BY DEF NIInv
<1>1. /\ UNCHANGED <<vars, busy, spent, prompts, opened>>
      /\ ending' = [ending EXCEPT ![o] = CASE o \notin busy -> @
                                          [] keepInbox /\ @ = "latched" -> @
                                          [] OTHER -> "cancelled"]
      /\ \/ keepInbox /\ UNCHANGED <<notice, human, stalled>>
         \/ /\ ~keepInbox
            /\ notice' = [j \in Jobs |-> IF j \in Held(o) THEN "dropped" ELSE notice[j]]
            /\ human' = human \ {o} /\ stalled' = stalled \ {o}
  BY DEF Cancels
<1>2. /\ \A p \in Owners : p # o => ending'[p] = ending[p]
      /\ ending'[o] = IF o \notin busy THEN ending[o]
                      ELSE IF keepInbox /\ ending[o] = "latched" THEN "latched" ELSE "cancelled"
      /\ ending' \in [Owners -> {"none", "completed", "broken", "cancelled", "latched"}]
  BY <1>0, <1>1 DEF NoticesTypeOK
<1>3. /\ human' \subseteq human /\ \A p \in Owners : p # o /\ p \in human => p \in human'
      /\ keepInbox => human' = human
      /\ stalled' \subseteq stalled /\ \A p \in Owners : p # o /\ p \in stalled => p \in stalled'
      /\ keepInbox => stalled' = stalled
      /\ notice' \in [Jobs -> {"none", "held", "heard", "dropped"}]
      /\ \A j \in Jobs : notice'[j] \in {notice[j], "dropped"}
      /\ \A j \in Jobs : notice[j] = "none" => notice'[j] = "none"
      /\ \A j \in Jobs : notice'[j] = "held" => notice[j] = "held" /\ (keepInbox \/ owner[j] # o)
  BY <1>0, <1>1 DEF NoticesTypeOK, Held
<1>4. NoticesTypeOK'
  BY <1>0, <1>1, <1>2, <1>3 DEF NoticesTypeOK
<1>5. EndingFits'
  BY <1>0, <1>1, <1>2, <1>3 DEF EndingFits
<1>6. ASSUME ~LateNotices, NEW j \in Jobs, notice'[j] = "held"
      PROVE  /\ ending'[owner[j]] # "completed"
             /\ owner[j] \in busy \cup stalled => owner[j] \in busy' \cup stalled'
  <2>1. /\ notice[j] = "held" /\ owner[j] \in Owners /\ ending[owner[j]] # "completed"
        /\ keepInbox \/ owner[j] # o
    BY <1>0, <1>3, <1>6 DEF HeldFits, ClosedIsEmpty, NoticeIsOwned
  <2> QED BY <1>1, <1>2, <1>3, <2>1
<1> QED BY <1>1, <1>3, <1>4, <1>5, <1>6, OwnerStep

\* A driver retires: a latched message starts the next, and only a driver that
\* broke off leaves notices behind.
LEMMA RetireStep == ASSUME NIInv, NEW o \in Owners, Retire(o) PROVE NIInv'
<1>0. /\ NoticesTypeOK /\ EndingFits /\ HeldFits /\ NoticeIsOwned
      /\ o \in busy /\ ending' = [ending EXCEPT ![o] = "none"]
      /\ UNCHANGED <<vars, prompts, opened>>
  BY DEF NIInv, Retire
<1>1. CASE ending[o] = "latched"
  <2>1. Claims(o, TRUE) /\ busy' = busy
    BY <1>1 DEF Retire
  <2>2. busy' = busy \cup {o} /\ o \in human
    BY <1>0, <1>1, <2>1 DEF EndingFits
  <2>3. prompts' \in [Owners -> Nat] /\ \A p \in Owners : prompts'[p] >= prompts[p]
    BY <1>0 DEF NoticesTypeOK
  <2> QED BY <1>0, <2>1, <2>2, <2>3, ClaimsStep
<1>2. CASE ending[o] # "latched"
  <2>1. /\ busy' = busy \ {o} /\ UNCHANGED <<notice, human, spent>>
        /\ stalled \subseteq stalled' /\ stalled' \in SUBSET Owners
        /\ ending[o] = "completed" \/ Held(o) = {} \/ o \in stalled'
    BY <1>0, <1>2 DEF Retire, NoticesTypeOK
  <2>2. NoticesTypeOK' /\ EndingFits'
    BY <1>0, <2>1 DEF NoticesTypeOK, EndingFits
  <2>3. ASSUME ~LateNotices, NEW j \in Jobs, notice'[j] = "held"
        PROVE  /\ ending'[owner[j]] # "completed"
               /\ owner[j] \in busy \cup stalled => owner[j] \in busy' \cup stalled'
    <3>1. notice[j] = "held" /\ owner[j] \in Owners /\ ending[owner[j]] # "completed"
      BY <1>0, <2>1, <2>3 DEF HeldFits, ClosedIsEmpty, NoticeIsOwned
    <3> QED BY <1>0, <2>1, <3>1 DEF Held, NoticesTypeOK
  <2> QED BY <1>0, <2>1, <2>2, <2>3, OwnerStep
<1> QED BY <1>1, <1>2

-----------------------------------------------------------------------------
(* The invariant. *)

\* Nothing is announced or spent at the start.
LEMMA NoticesInitially == ASSUME NInit PROVE NIInv
<1>1. IInv /\ OwnedIsTorn
  BY InitIInv DEF NInit, Init, OwnedIsTorn
<1>2. NoticesTypeOK /\ NoticeIsOwned /\ EndingFits /\ HeldFits
  BY NoticesAssumption DEF NInit, NoticesTypeOK, NoticeIsOwned, EndingFits, HeldFits,
                           HeldNoticeHasReason, ClosedIsEmpty
<1>3. Paid
  BY BudgetIsPaid DEF NInit, Paid
<1> QED BY <1>1, <1>2, <1>3 DEF NIInv

\* Every step of registry and delivery together.
LEMMA NoticesKept == ASSUME NIInv, [NNext]_allVars PROVE NIInv'
<1>1. CASE UNCHANGED allVars
  <2>1. /\ UNCHANGED vars
        /\ UNCHANGED <<status, owner, agent, busy, ending, notice, human, spent, prompts, opened, stalled>>
    BY <1>1 DEF allVars, agents, vars, records, lifecycle
  <2>2. IInv' /\ OwnedIsTorn'
    BY <2>1, NextIInv, OwnedIsTornStep DEF NIInv
  <2>3. NoticesTypeOK' /\ NoticeIsOwned' /\ Paid' /\ EndingFits' /\ HeldFits'
    BY <2>1 DEF NIInv, NoticesTypeOK, NoticeIsOwned, Paid, EndingFits, HeldFits,
                HeldNoticeHasReason, ClosedIsEmpty
  <2> QED BY <2>2, <2>3 DEF NIInv
<1> QED BY <1>1, RegistryStepKeeps, HumanSendsStep, NextStepStep, TurnStep, CancelsStep, RetireStep
       DEF NNext

\* The invariant of the delivery.
LEMMA NoticesInvariance == NSpec => []NIInv
BY NoticesInitially, NoticesKept, PTL DEF NSpec

\* The registry with the delivery of its notices is still the registry: what is
\* proved of its specification holds of the composition.
THEOREM DeliveryImplementsRegistry == NSpec => Spec
<1>1. NInit => Init
  BY DEF NInit
<1>2. [NNext]_allVars => [Next]_vars
  BY DEF NNext, RegistryStep, HumanSends, NextStep, TurnCompletes, TurnBreaks, Ends, Cancels,
         Retire, allVars
<1> QED BY <1>1, <1>2, PTL DEF NSpec, Spec

\* completionDelivery = 'wakeup': however jobs settle and turns end, the notices
\* open no more turns of an owner than maxConsecutiveWakes for each message of a
\* person and once before the first.
THEOREM WakesAreBounded == NSpec => []TurnsWithinBudget
<1>1. ASSUME NIInv, NEW o \in Owners PROVE opened[o] <= Budget * (1 + prompts[o])
  <2>1. /\ opened[o] + (IF o \in human THEN Budget ELSE 0) <= Budget * prompts[o] + spent[o]
        /\ opened[o] \in Nat /\ prompts[o] \in Nat /\ spent[o] \in 0..Budget
        /\ Budget * prompts[o] \in Nat /\ Budget \in Nat
        /\ Budget * (prompts[o] + 1) = Budget * prompts[o] + Budget
    BY <1>1, BudgetIsPaid DEF NIInv, Paid, NoticesTypeOK
  <2>2. 1 + prompts[o] = prompts[o] + 1
    BY <2>1
  <2>3. Budget * (1 + prompts[o]) = Budget * prompts[o] + Budget
    BY <2>1, <2>2
  <2> QED BY <2>1, <2>3
<1>2. NIInv => TurnsWithinBudget
  BY <1>1 DEF TurnsWithinBudget
<1> QED BY <1>2, NoticesInvariance, PTL

\* A notice that is delivered and not claimed yet is never forgotten: its owner is
\* live, and busy, out of budget, or stopped in a turn that was cancelled or broke
\* off, as long as no notice comes between the last look of a turn that completed
\* and the retirement of its driver.
THEOREM HeldNoticesHaveReasons == ~LateNotices => (NSpec => []HeldNoticeHasReason)
<1>1. SUFFICES ASSUME ~LateNotices PROVE NSpec => []HeldNoticeHasReason
  OBVIOUS
<1>2. NIInv => HeldNoticeHasReason
  BY <1>1 DEF NIInv, HeldFits
<1> QED BY <1>2, NoticesInvariance, PTL
=============================================================================

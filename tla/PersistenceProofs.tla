------------------------- MODULE PersistenceProofs -------------------------
(***************************************************************************)
(* Proofs about the two ends of the persistence coordinator: the write     *)
(* path of a live session (WriteBehind), for every number of events and of *)
(* waiting flush calls, and the ownership of one persisted session         *)
(* (Preparations), for every set of callers and every bound.               *)
(*                                                                         *)
(* The two modules share no variable; each part below is about one of the  *)
(* two specifications.                                                     *)
(***************************************************************************)
EXTENDS WriteBehind, Preparations, TLAPS, SequenceTheorems

Seqs == INSTANCE LeftFold WITH Op <- Append

-----------------------------------------------------------------------------
(* The write path: the inductive invariant. *)

\* Who may be in progress when: a barrier's write runs only while the barrier
\* drains, and a queued continuation excludes the settlement of a newer write.
Settlement ==
    /\ \A w \in running : ~w.background => barrier = "draining"
    /\ \A w \in running : w.background => barrier # "draining"
    /\ settled.queued =>
         /\ \A w \in running : w.stage = "writing"
         /\ running # {} => barrier = "draining" /\ settled.background
         /\ ~settled.background => barrier = "draining"
    /\ (barrier = "awaiting" /\ ~settled.queued) => running # {}
    /\ timer => barrier = "none"

\* Who takes over the queue when the automatic path is on: the deadline, or the
\* write that used up the deadline; and a failed barrier leaves the path paused.
Handover ==
    /\ (pending # <<>> /\ barrier = "none" /\ callers = 0 /\ ~automaticPaused
        /\ init # "failed") =>
         \/ timer
         \/ deadlineExpired /\ (running # {} \/ settled.queued)
    /\ deadlineExpired =>
         /\ \A w \in running : w.stage # "caught"
         /\ settled.queued => settled.ok
    /\ \A w \in running :
         (~w.background /\ w.stage = "caught") => automaticPaused
    /\ (settled.queued /\ ~settled.background /\ ~settled.ok) => automaticPaused

\* A flush never acknowledges more than was published when it was called.
Marks == promised <= mark /\ mark <= accepted

WriteInv ==
    /\ WriteTypeOK
    /\ OneWriteAtATime
    /\ NothingLost
    /\ Settlement
    /\ Handover
    /\ Marks
    /\ PromisesAreDurable

-----------------------------------------------------------------------------
(* Sequences that are prefixes of the published events. *)

\* If two sequences make up the first n events, the first one is a prefix too.
LEMMA PrefixSplit ==
    ASSUME NEW s \in Seq(Events), NEW t \in Seq(Events), NEW n \in Nat,
           s \o t = Prefix(n)
    PROVE  /\ s = Prefix(Len(s))
           /\ Len(s) + Len(t) = n
<1>1. Len(s \o t) = Len(s) + Len(t) /\ Len(Prefix(n)) = n
  BY DEF Prefix
<1>2. ASSUME NEW i \in 1..Len(s) PROVE s[i] = i
  <2>1. (s \o t)[i] = s[i]
    OBVIOUS
  <2>2. i \in 1..n
    BY <1>1
  <2>3. Prefix(n)[i] = i
    BY <2>2 DEF Prefix
  <2> QED BY <2>1, <2>3
<1>3. s = Prefix(Len(s))
  BY <1>2 DEF Prefix
<1> QED BY <1>1, <1>3

\* Appending to the second of two sequences appends to their concatenation.
LEMMA AppendConcat ==
    ASSUME NEW s \in Seq(Events), NEW t \in Seq(Events), NEW e \in Events
    PROVE  Append(s \o t, e) = s \o Append(t, e)
<1>1. s \o t \in Seq(Events) /\ <<e>> \in Seq(Events)
  OBVIOUS
<1>2. Append(s \o t, e) = (s \o t) \o <<e>> /\ Append(t, e) = t \o <<e>>
  BY <1>1, AppendIsConcat, Zenon
<1>3. (s \o t) \o <<e>> = s \o (t \o <<e>>)
  BY <1>1
<1> QED BY <1>2, <1>3

\* Concatenation of three parts of the log does not depend on the grouping.
LEMMA ConcatThree ==
    ASSUME NEW s \in Seq(Events), NEW t \in Seq(Events), NEW u \in Seq(Events)
    PROVE  (s \o t) \o u = s \o (t \o u)
  OBVIOUS

\* Publishing event n + 1 extends the queue at its end.
LEMMA PrefixAppend ==
    ASSUME NEW s \in Seq(Events), NEW t \in Seq(Events), NEW n \in Nat,
           n + 1 \in Events, s \o t = Prefix(n)
    PROVE  s \o Append(t, n + 1) = Prefix(n + 1)
<1>1. Len(s) + Len(t) = n
  BY PrefixSplit
<1>2. \A i \in 1..n : (s \o t)[i] = i
  BY DEF Prefix
<1> DEFINE u == s \o Append(t, n + 1)
<1>3. u \in Seq(Events) /\ Len(u) = n + 1
  BY <1>1
<1>4. \A i \in 1..(n + 1) : u[i] = i
  BY <1>1, <1>2
<1> HIDE DEF u
<1>5. u = Prefix(n + 1)
  BY <1>3, <1>4 DEF Prefix
<1> QED BY <1>5 DEF u

-----------------------------------------------------------------------------
(* Facts shared by the actions that start a write, and by those that do not. *)

\* startWrite, called when no write is in progress, keeps the events together.
LEMMA StartWriteKeepsOrder ==
    ASSUME WriteInv, running = {}, NEW b \in BOOLEAN, StartWrite(pending, b),
           UNCHANGED <<accepted, durable>>
    PROVE  /\ running' = {[batch |-> pending, background |-> b, stage |-> "writing"]}
           /\ running' \subseteq Writes
           /\ pending' = <<>>
           /\ pending' \in Seq(Events)
           /\ OneWriteAtATime'
           /\ NothingLost'
<1> DEFINE w0 == [batch |-> pending, background |-> b, stage |-> "writing"]
<1>1. running' = {w0} /\ pending' = <<>> /\ active' = TRUE
  BY DEF StartWrite
<1>2. w0 \in Writes /\ w0.batch = pending /\ w0.stage = "writing"
  BY DEF WriteInv, WriteTypeOK, Writes
<1>3. durable \o pending = Prefix(accepted) /\ pending \in Seq(Events)
  BY DEF WriteInv, NothingLost, WriteTypeOK
<1>4. pending \o <<>> = pending
  BY <1>3
<1> HIDE DEF w0
<1>5. OneWriteAtATime'
  BY <1>1 DEF OneWriteAtATime
<1>6. NothingLost'
  BY <1>1, <1>2, <1>3, <1>4 DEF NothingLost, Prefix
<1>7. pending' \in Seq(Events)
  BY <1>1
<1> QED BY <1>1, <1>2, <1>5, <1>6, <1>7 DEF w0

\* A step that touches no event and no write keeps both invariants about them.
LEMMA QuietKeepsOrder ==
    ASSUME WriteInv, UNCHANGED <<accepted, durable, pending, active, running>>
    PROVE  /\ running' \subseteq Writes
           /\ pending' \in Seq(Events)
           /\ OneWriteAtATime'
           /\ NothingLost'
  BY DEF WriteInv, WriteTypeOK, OneWriteAtATime, NothingLost, Prefix

\* When nothing is queued or in progress, everything published is durable.
LEMMA AllDurable ==
    ASSUME WriteInv, running = {}, pending = <<>>
    PROVE  Len(durable) = accepted
<1>1. durable \in Seq(Events) /\ accepted \in Nat /\ durable \o <<>> = Prefix(accepted)
  BY DEF WriteInv, WriteTypeOK, NothingLost
<1>2. durable = Prefix(accepted)
  BY <1>1, ConcatEmptySeq, Zenon
<1> QED BY <1>1, <1>2 DEF Prefix

-----------------------------------------------------------------------------
(* Every action preserves the inductive invariant. *)

\* Preserved: enqueue extends the queue, and re-arms the deadline when it must.
LEMMA EnqueueStep == WriteInv /\ Enqueue => WriteInv'
<1> SUFFICES ASSUME WriteInv, Enqueue PROVE WriteInv'
  OBVIOUS
<1> USE BoundsAssumption
<1>1. WriteTypeOK'
  BY DEF WriteInv, WriteTypeOK, Writes, Events, Enqueue
<1>2. OneWriteAtATime'
  BY DEF WriteInv, OneWriteAtATime, WriteTypeOK, Writes, Events, Settlement, NothingLost, Enqueue
<1>3. NothingLost'
  <2>1. accepted + 1 \in Events /\ accepted \in Nat /\ accepted' = accepted + 1
    BY BoundsAssumption DEF WriteInv, WriteTypeOK, Enqueue, Events
  <2>2. pending' = Append(pending, accepted + 1) /\ UNCHANGED <<running, durable>>
    BY DEF Enqueue
  <2>3. pending \in Seq(Events) /\ durable \in Seq(Events) /\ running \subseteq Writes
    BY DEF WriteInv, WriteTypeOK
  <2>4. ASSUME NEW w \in running, w.stage = "writing"
        PROVE  durable \o (w.batch \o pending') = Prefix(accepted')
    <3>1. w.batch \in Seq(Events) /\ w.batch \o pending \in Seq(Events)
      BY <2>3 DEF Writes
    <3>2. durable \o (w.batch \o pending) = Prefix(accepted)
      BY <2>4 DEF WriteInv, NothingLost
    <3>3. durable \o Append(w.batch \o pending, accepted + 1) = Prefix(accepted + 1)
      BY <2>1, <2>3, <3>1, <3>2, PrefixAppend
    <3>4. Append(w.batch \o pending, accepted + 1) = w.batch \o pending'
      BY <2>1, <2>2, <2>3, <3>1, AppendConcat, Zenon
    <3> QED BY <2>1, <3>3, <3>4
  <2>5. ASSUME \A w \in running : w.stage # "writing"
        PROVE  durable \o pending' = Prefix(accepted')
    <3>1. durable \o pending = Prefix(accepted)
      BY <2>5 DEF WriteInv, NothingLost
    <3> QED BY <2>1, <2>2, <2>3, <3>1, PrefixAppend
  <2> QED BY <2>2, <2>4, <2>5, Zenon DEF NothingLost, Prefix
<1>4. Settlement'
  BY DEF WriteInv, Settlement, WriteTypeOK, Writes, OneWriteAtATime, Enqueue
<1>5. Handover'
  BY DEF WriteInv, Handover, WriteTypeOK, Writes, OneWriteAtATime, Settlement, Enqueue
<1>6. Marks'
  BY DEF WriteInv, Marks, WriteTypeOK, Enqueue
<1>7. PromisesAreDurable'
  BY DEF WriteInv, PromisesAreDurable, WriteTypeOK, Writes, Events, NothingLost, Marks, Settlement, OneWriteAtATime, Enqueue
<1> QED BY <1>1, <1>2, <1>3, <1>4, <1>5, <1>6, <1>7 DEF WriteInv

\* Preserved: onDeadline starts a write only when none is active.
LEMMA DeadlineStep == WriteInv /\ Deadline => WriteInv'
<1> SUFFICES ASSUME WriteInv, Deadline PROVE WriteInv'
  OBVIOUS
<1> USE BoundsAssumption
<1>a. UNCHANGED <<accepted, durable>>
  BY DEF Deadline
<1>b. \/ running = {} /\ StartWrite(pending, TRUE)
      \/ UNCHANGED <<pending, active, running>>
  BY DEF WriteInv, OneWriteAtATime, Settlement, Deadline
<1>c. /\ running' \subseteq Writes
      /\ pending' \in Seq(Events)
      /\ OneWriteAtATime'
      /\ NothingLost'
  <2>1. CASE running = {} /\ StartWrite(pending, TRUE)
    BY <1>a, <2>1, StartWriteKeepsOrder
  <2>2. CASE UNCHANGED <<pending, active, running>>
    BY <1>a, <2>2, QuietKeepsOrder
  <2> QED BY <1>b, <2>1, <2>2
<1>1. WriteTypeOK'
  <2>1. UNCHANGED <<callers, mark, promised>>
    BY DEF Deadline
  <2>2. /\ timer' \in BOOLEAN /\ active' \in BOOLEAN
        /\ deadlineExpired' \in BOOLEAN /\ automaticPaused' \in BOOLEAN
    BY Zenon DEF WriteInv, WriteTypeOK, StartWrite, Deadline
  <2>3. settled' \in [background : BOOLEAN, ok : BOOLEAN, queued : BOOLEAN]
    BY DEF WriteInv, WriteTypeOK, Deadline
  <2>4. barrier' \in {"none", "awaiting", "draining"} /\ UNCHANGED init
    BY DEF WriteInv, WriteTypeOK, Deadline
  <2> QED BY <1>a, <1>c, <2>1, <2>2, <2>3, <2>4 DEF WriteInv, WriteTypeOK
<1>2. OneWriteAtATime'
  BY <1>c
<1>3. NothingLost'
  BY <1>c
<1>4. Settlement'
  <2>1. CASE active
    BY <2>1 DEF WriteInv, Settlement, WriteTypeOK, Writes, OneWriteAtATime, Deadline, StartWrite, MicrotasksDrained
  <2>2. CASE ~active
    <3>1. running = {} /\ StartWrite(pending, TRUE) /\ UNCHANGED <<barrier, settled>>
      BY <2>2 DEF WriteInv, OneWriteAtATime, Deadline
    <3>2. running' = {[batch |-> pending, background |-> TRUE, stage |-> "writing"]}
      BY <1>a, <3>1, StartWriteKeepsOrder
    <3>3. running' # {} /\ \A w \in running' : w.background /\ w.stage = "writing"
      BY <3>2
    <3>4. ~settled.queued /\ barrier = "none"
      BY <2>2 DEF WriteInv, Settlement, Handover, OneWriteAtATime, Deadline, MicrotasksDrained
    <3> QED BY <3>1, <3>3, <3>4 DEF Settlement, StartWrite
  <2> QED BY <2>1, <2>2
<1>5. Handover'
  BY DEF WriteInv, Handover, WriteTypeOK, Writes, OneWriteAtATime, Settlement, Deadline, StartWrite, MicrotasksDrained
<1>6. Marks'
  BY DEF WriteInv, Marks, WriteTypeOK, Deadline, StartWrite, MicrotasksDrained
<1>7. PromisesAreDurable'
  BY DEF WriteInv, PromisesAreDurable, WriteTypeOK, Writes, Events, NothingLost, Marks, Settlement, OneWriteAtATime, Deadline, StartWrite, MicrotasksDrained
<1> QED BY <1>1, <1>2, <1>3, <1>4, <1>5, <1>6, <1>7 DEF WriteInv

\* Preserved: a batch that becomes durable continues the log where it ended.
LEMMA WriteSucceedsStep == WriteInv /\ WriteSucceeds => WriteInv'
<1> SUFFICES ASSUME WriteInv, WriteSucceeds PROVE WriteInv'
  OBVIOUS
<1> USE BoundsAssumption
<1> PICK w \in running :
       /\ durable' = durable \o w.batch
       /\ running' = (running \ {w}) \cup {[w EXCEPT !.stage = "written"]}
  BY DEF WriteSucceeds
<1> DEFINE v == [w EXCEPT !.stage = "written"]
<1>a. /\ w \in Writes /\ w.stage = "writing" /\ w.batch \in Seq(Events)
      /\ durable \in Seq(Events) /\ pending \in Seq(Events)
  BY DEF WriteInv, WriteTypeOK, Writes, WriteSucceeds, MicrotasksDrained
<1>b. v \in Writes /\ v.stage = "written" /\ v.background = w.background
  BY <1>a DEF Writes
<1>c. running' = {v}
  BY DEF WriteInv, OneWriteAtATime
<1>d. UNCHANGED <<accepted, pending, active, settled, barrier>>
  BY DEF WriteSucceeds
<1> HIDE DEF v
<1>1. WriteTypeOK'
  <2>1. durable' \in Seq(Events)
    BY <1>a
  <2>2. running' \subseteq Writes
    BY <1>b, <1>c
  <2> QED BY <2>1, <2>2, Zenon DEF WriteInv, WriteTypeOK, WriteSucceeds
<1>2. OneWriteAtATime'
  BY DEF WriteInv, OneWriteAtATime, WriteTypeOK, Writes, Events, Settlement, NothingLost, WriteSucceeds, MicrotasksDrained
<1>3. NothingLost'
  <2>1. durable \o (w.batch \o pending) = Prefix(accepted)
    BY <1>a DEF WriteInv, NothingLost
  <2>2. (durable \o w.batch) \o pending = durable \o (w.batch \o pending)
    BY <1>a, ConcatThree, Zenon
  <2> QED BY <1>b, <1>c, <1>d, <2>1, <2>2 DEF NothingLost, Prefix
<1>4. Settlement'
  BY DEF WriteInv, Settlement, WriteTypeOK, Writes, OneWriteAtATime, WriteSucceeds, MicrotasksDrained
<1>5. Handover'
  BY DEF WriteInv, Handover, WriteTypeOK, Writes, OneWriteAtATime, Settlement, WriteSucceeds, MicrotasksDrained
<1>6. Marks'
  BY DEF WriteInv, Marks, WriteTypeOK, WriteSucceeds, MicrotasksDrained
<1>7. PromisesAreDurable'
  BY DEF WriteInv, PromisesAreDurable, WriteTypeOK, Writes, Events, NothingLost, Marks, Settlement, OneWriteAtATime, WriteSucceeds, MicrotasksDrained
<1> QED BY <1>1, <1>2, <1>3, <1>4, <1>5, <1>6, <1>7 DEF WriteInv

\* Preserved: the catch handler puts the batch back where it came from.
LEMMA WriteFailsStep == WriteInv /\ WriteFails => WriteInv'
<1> SUFFICES ASSUME WriteInv, WriteFails PROVE WriteInv'
  OBVIOUS
<1> USE BoundsAssumption
<1> PICK w \in running :
       /\ pending' = w.batch \o pending
       /\ running' = (running \ {w}) \cup {[w EXCEPT !.stage = "caught"]}
  BY DEF WriteFails
<1> DEFINE v == [w EXCEPT !.stage = "caught"]
<1>a. /\ w \in Writes /\ w.stage = "writing" /\ w.batch \in Seq(Events)
      /\ pending \in Seq(Events)
  BY DEF WriteInv, WriteTypeOK, Writes, WriteFails, MicrotasksDrained
<1>b. v \in Writes /\ v.stage = "caught" /\ v.background = w.background
  BY <1>a DEF Writes
<1>c. running' = {v}
  BY DEF WriteInv, OneWriteAtATime
<1> HIDE DEF v
<1>1. WriteTypeOK'
  <2>1. pending' \in Seq(Events)
    BY <1>a
  <2>2. running' \subseteq Writes
    BY <1>b, <1>c
  <2> QED BY <2>1, <2>2, Zenon DEF WriteInv, WriteTypeOK, WriteFails
<1>2. OneWriteAtATime'
  BY DEF WriteInv, OneWriteAtATime, WriteTypeOK, Writes, Events, Settlement, NothingLost, WriteFails, MicrotasksDrained
<1>3. NothingLost'
  BY DEF WriteInv, NothingLost, WriteTypeOK, Writes, Events, OneWriteAtATime, Settlement, WriteFails, MicrotasksDrained
<1>4. Settlement'
  BY DEF WriteInv, Settlement, WriteTypeOK, Writes, OneWriteAtATime, WriteFails, MicrotasksDrained
<1>5. Handover'
  BY DEF WriteInv, Handover, WriteTypeOK, Writes, OneWriteAtATime, Settlement, WriteFails, MicrotasksDrained
<1>6. Marks'
  BY DEF WriteInv, Marks, WriteTypeOK, WriteFails, MicrotasksDrained
<1>7. PromisesAreDurable'
  BY DEF WriteInv, PromisesAreDurable, WriteTypeOK, Writes, Events, NothingLost, Marks, Settlement, OneWriteAtATime, WriteFails, MicrotasksDrained
<1> QED BY <1>1, <1>2, <1>3, <1>4, <1>5, <1>6, <1>7 DEF WriteInv

\* Preserved: the finally handler leaves no write behind it.
LEMMA FinallyStep == WriteInv /\ Finally => WriteInv'
<1> SUFFICES ASSUME WriteInv, Finally PROVE WriteInv'
  OBVIOUS
<1> USE BoundsAssumption
<1>1. WriteTypeOK'
  <2>1. settled' \in [background : BOOLEAN, ok : BOOLEAN, queued : BOOLEAN]
    <3>1. PICK w \in running :
            settled' = [background |-> w.background, ok |-> w.stage = "written",
                        queued |-> TRUE]
      BY DEF Finally
    <3>2. w.background \in BOOLEAN /\ (w.stage = "written") \in BOOLEAN
      BY <3>1 DEF WriteInv, WriteTypeOK, Writes
    <3> QED BY <3>1, <3>2
  <2>2. running' \subseteq Writes /\ active' \in BOOLEAN
    BY DEF WriteInv, WriteTypeOK, Finally
  <2> QED BY <2>1, <2>2, Zenon DEF WriteInv, WriteTypeOK, Finally
<1>2. OneWriteAtATime'
  BY DEF WriteInv, OneWriteAtATime, WriteTypeOK, Writes, Events, Settlement, NothingLost, Finally
<1>3. NothingLost'
  BY DEF WriteInv, NothingLost, WriteTypeOK, Writes, Events, OneWriteAtATime, Settlement, Finally
<1>4. Settlement'
  BY DEF WriteInv, Settlement, WriteTypeOK, Writes, OneWriteAtATime, Finally
<1>5. Handover'
  BY DEF WriteInv, Handover, WriteTypeOK, Writes, OneWriteAtATime, Settlement, Finally
<1>6. Marks'
  BY DEF WriteInv, Marks, WriteTypeOK, Finally
<1>7. PromisesAreDurable'
  BY DEF WriteInv, PromisesAreDurable, WriteTypeOK, Writes, Events, NothingLost, Marks, Settlement, OneWriteAtATime, Finally
<1> QED BY <1>1, <1>2, <1>3, <1>4, <1>5, <1>6, <1>7 DEF WriteInv

\* Preserved: continueAutomatic runs when no other write can be active.
LEMMA ContinueAutomaticStep == WriteInv /\ ContinueAutomatic => WriteInv'
<1> SUFFICES ASSUME WriteInv, ContinueAutomatic PROVE WriteInv'
  OBVIOUS
<1> USE BoundsAssumption
<1>a. UNCHANGED <<accepted, durable>>
  BY DEF ContinueAutomatic
<1>b. \/ running = {} /\ StartWrite(pending, TRUE)
      \/ UNCHANGED <<pending, active, running>>
  BY DEF WriteInv, OneWriteAtATime, Settlement, ContinueAutomatic
<1>c. /\ running' \subseteq Writes
      /\ pending' \in Seq(Events)
      /\ OneWriteAtATime'
      /\ NothingLost'
  <2>1. CASE running = {} /\ StartWrite(pending, TRUE)
    BY <1>a, <2>1, StartWriteKeepsOrder
  <2>2. CASE UNCHANGED <<pending, active, running>>
    BY <1>a, <2>2, QuietKeepsOrder
  <2> QED BY <1>b, <2>1, <2>2
<1>1. WriteTypeOK'
  <2>1. UNCHANGED <<callers, mark, promised>>
    BY DEF ContinueAutomatic
  <2>2. /\ timer' \in BOOLEAN /\ active' \in BOOLEAN
        /\ deadlineExpired' \in BOOLEAN /\ automaticPaused' \in BOOLEAN
    BY Zenon DEF WriteInv, WriteTypeOK, StartWrite, ContinueAutomatic
  <2>3. settled' \in [background : BOOLEAN, ok : BOOLEAN, queued : BOOLEAN]
    BY DEF WriteInv, WriteTypeOK, ContinueAutomatic, NoWrite
  <2>4. barrier' \in {"none", "awaiting", "draining"} /\ UNCHANGED init
    BY DEF WriteInv, WriteTypeOK, ContinueAutomatic
  <2> QED BY <1>a, <1>c, <2>1, <2>2, <2>3, <2>4 DEF WriteInv, WriteTypeOK
<1>2. OneWriteAtATime'
  BY <1>c
<1>3. NothingLost'
  BY <1>c
<1>4. Settlement'
  BY DEF WriteInv, Settlement, WriteTypeOK, Writes, OneWriteAtATime, ContinueAutomatic, StartWrite, NoWrite
<1>5. Handover'
  BY DEF WriteInv, Handover, WriteTypeOK, Writes, OneWriteAtATime, Settlement, ContinueAutomatic, StartWrite, NoWrite
<1>6. Marks'
  BY DEF WriteInv, Marks, WriteTypeOK, ContinueAutomatic, StartWrite, NoWrite
<1>7. PromisesAreDurable'
  BY DEF WriteInv, PromisesAreDurable, WriteTypeOK, Writes, Events, NothingLost, Marks, Settlement, OneWriteAtATime, ContinueAutomatic, StartWrite, NoWrite
<1> QED BY <1>1, <1>2, <1>3, <1>4, <1>5, <1>6, <1>7 DEF WriteInv

\* Preserved: after the overlapped write, the barrier takes the whole queue.
LEMMA ResumeOverlappedStep == WriteInv /\ ResumeOverlapped => WriteInv'
<1> SUFFICES ASSUME WriteInv, ResumeOverlapped PROVE WriteInv'
  OBVIOUS
<1> USE BoundsAssumption
<1>a. UNCHANGED <<accepted, durable>>
  BY DEF ResumeOverlapped
<1>b. \/ running = {} /\ StartWrite(pending, FALSE)
      \/ UNCHANGED <<pending, active, running>>
  BY DEF WriteInv, OneWriteAtATime, Settlement, ResumeOverlapped, DrainOn
<1>c. /\ running' \subseteq Writes
      /\ pending' \in Seq(Events)
      /\ OneWriteAtATime'
      /\ NothingLost'
  <2>1. CASE running = {} /\ StartWrite(pending, FALSE)
    BY <1>a, <2>1, StartWriteKeepsOrder
  <2>2. CASE UNCHANGED <<pending, active, running>>
    BY <1>a, <2>2, QuietKeepsOrder
  <2> QED BY <1>b, <2>1, <2>2
<1>1. WriteTypeOK'
  <2>1. mark' \in 0..MaxEvents /\ promised' \in 0..MaxEvents /\ UNCHANGED callers
    BY BoundsAssumption DEF WriteInv, WriteTypeOK, ResumeOverlapped, DrainOn
  <2>2. /\ timer' \in BOOLEAN /\ active' \in BOOLEAN
        /\ deadlineExpired' \in BOOLEAN /\ automaticPaused' \in BOOLEAN
    BY Zenon DEF WriteInv, WriteTypeOK, StartWrite, ResumeOverlapped, DrainOn
  <2>3. settled' \in [background : BOOLEAN, ok : BOOLEAN, queued : BOOLEAN]
    BY DEF WriteInv, WriteTypeOK, ResumeOverlapped, NoWrite
  <2>4. barrier' \in {"none", "awaiting", "draining"} /\ UNCHANGED init
    BY DEF WriteInv, WriteTypeOK, ResumeOverlapped, DrainOn
  <2> QED BY <1>a, <1>c, <2>1, <2>2, <2>3, <2>4 DEF WriteInv, WriteTypeOK
<1>2. OneWriteAtATime'
  BY <1>c
<1>3. NothingLost'
  BY <1>c
<1>4. Settlement'
  BY DEF WriteInv, Settlement, WriteTypeOK, Writes, OneWriteAtATime, ResumeOverlapped, StartWrite, NoWrite, DrainOn
<1>5. Handover'
  BY DEF WriteInv, Handover, WriteTypeOK, Writes, OneWriteAtATime, Settlement, ResumeOverlapped, StartWrite, NoWrite, DrainOn
<1>6. Marks'
  BY DEF WriteInv, Marks, WriteTypeOK, ResumeOverlapped, StartWrite, NoWrite, DrainOn
<1>7. PromisesAreDurable'
  <2>1. CASE promised' = promised
    BY <1>a, <2>1 DEF WriteInv, PromisesAreDurable
  <2>2. CASE promised' # promised
    <3>1. running = {} /\ pending = <<>> /\ promised' = mark'
      BY <2>2 DEF WriteInv, OneWriteAtATime, Settlement, ResumeOverlapped, DrainOn
    <3>2. Len(durable) = accepted
      BY <3>1, AllDurable
    <3> QED BY <1>a, <1>6, <3>1, <3>2 DEF Marks, PromisesAreDurable
  <2> QED BY <2>1, <2>2
<1> QED BY <1>1, <1>2, <1>3, <1>4, <1>5, <1>6, <1>7 DEF WriteInv

\* Preserved: the drain loop resolves only when queue and writes are empty.
LEMMA ResumeDrainStep == WriteInv /\ ResumeDrain => WriteInv'
<1> SUFFICES ASSUME WriteInv, ResumeDrain PROVE WriteInv'
  OBVIOUS
<1> USE BoundsAssumption
<1>a. UNCHANGED <<accepted, durable>>
  BY DEF ResumeDrain
<1>b. \/ running = {} /\ StartWrite(pending, FALSE)
      \/ UNCHANGED <<pending, active, running>>
  BY DEF WriteInv, OneWriteAtATime, Settlement, ResumeDrain, DrainOn
<1>c. /\ running' \subseteq Writes
      /\ pending' \in Seq(Events)
      /\ OneWriteAtATime'
      /\ NothingLost'
  <2>1. CASE running = {} /\ StartWrite(pending, FALSE)
    BY <1>a, <2>1, StartWriteKeepsOrder
  <2>2. CASE UNCHANGED <<pending, active, running>>
    BY <1>a, <2>2, QuietKeepsOrder
  <2> QED BY <1>b, <2>1, <2>2
<1>1. WriteTypeOK'
  <2>1. mark' \in 0..MaxEvents /\ promised' \in 0..MaxEvents /\ UNCHANGED callers
    BY BoundsAssumption DEF WriteInv, WriteTypeOK, ResumeDrain, DrainOn
  <2>2. /\ timer' \in BOOLEAN /\ active' \in BOOLEAN
        /\ deadlineExpired' \in BOOLEAN /\ automaticPaused' \in BOOLEAN
    BY Zenon DEF WriteInv, WriteTypeOK, StartWrite, ResumeDrain, DrainOn
  <2>3. settled' \in [background : BOOLEAN, ok : BOOLEAN, queued : BOOLEAN]
    BY DEF WriteInv, WriteTypeOK, ResumeDrain, NoWrite
  <2>4. barrier' \in {"none", "awaiting", "draining"} /\ UNCHANGED init
    BY DEF WriteInv, WriteTypeOK, ResumeDrain, DrainOn
  <2> QED BY <1>a, <1>c, <2>1, <2>2, <2>3, <2>4 DEF WriteInv, WriteTypeOK
<1>2. OneWriteAtATime'
  BY <1>c
<1>3. NothingLost'
  BY <1>c
<1>4. Settlement'
  BY DEF WriteInv, Settlement, WriteTypeOK, Writes, OneWriteAtATime, ResumeDrain, StartWrite, NoWrite, DrainOn
<1>5. Handover'
  BY DEF WriteInv, Handover, WriteTypeOK, Writes, OneWriteAtATime, Settlement, ResumeDrain, StartWrite, NoWrite, DrainOn
<1>6. Marks'
  BY DEF WriteInv, Marks, WriteTypeOK, ResumeDrain, StartWrite, NoWrite, DrainOn
<1>7. PromisesAreDurable'
  <2>1. CASE promised' = promised
    BY <1>a, <2>1 DEF WriteInv, PromisesAreDurable
  <2>2. CASE promised' # promised
    <3>1. running = {} /\ pending = <<>> /\ promised' = mark'
      BY <2>2 DEF WriteInv, OneWriteAtATime, Settlement, ResumeDrain, DrainOn
    <3>2. Len(durable) = accepted
      BY <3>1, AllDurable
    <3> QED BY <1>a, <1>6, <3>1, <3>2 DEF Marks, PromisesAreDurable
  <2> QED BY <2>1, <2>2
<1> QED BY <1>1, <1>2, <1>3, <1>4, <1>5, <1>6, <1>7 DEF WriteInv

\* Preserved: the coordinator cancels the deadline and becomes the one to drain.
LEMMA CallFlushStep == WriteInv /\ CallFlush => WriteInv'
<1> SUFFICES ASSUME WriteInv, CallFlush PROVE WriteInv'
  OBVIOUS
<1> USE BoundsAssumption
<1>1. WriteTypeOK'
  <2>1. callers' \in 0..MaxCallers
    BY BoundsAssumption DEF WriteInv, WriteTypeOK, CallFlush
  <2> QED BY <2>1, Zenon DEF WriteInv, WriteTypeOK, CallFlush
<1>2. OneWriteAtATime'
  BY DEF WriteInv, OneWriteAtATime, WriteTypeOK, Writes, Events, Settlement, NothingLost, CallFlush
<1>3. NothingLost'
  BY DEF WriteInv, NothingLost, WriteTypeOK, Writes, Events, OneWriteAtATime, Settlement, CallFlush
<1>4. Settlement'
  BY DEF WriteInv, Settlement, WriteTypeOK, Writes, OneWriteAtATime, CallFlush
<1>5. Handover'
  BY DEF WriteInv, Handover, WriteTypeOK, Writes, OneWriteAtATime, Settlement, CallFlush
<1>6. Marks'
  BY DEF WriteInv, Marks, WriteTypeOK, CallFlush
<1>7. PromisesAreDurable'
  BY DEF WriteInv, PromisesAreDurable, WriteTypeOK, Writes, Events, NothingLost, Marks, Settlement, OneWriteAtATime, CallFlush
<1> QED BY <1>1, <1>2, <1>3, <1>4, <1>5, <1>6, <1>7 DEF WriteInv

\* Preserved: initialization touches no queue.
LEMMA InitSettlesStep == WriteInv /\ InitSettles => WriteInv'
<1> SUFFICES ASSUME WriteInv, InitSettles PROVE WriteInv'
  OBVIOUS
<1> USE BoundsAssumption
<1>1. WriteTypeOK'
  BY DEF WriteInv, WriteTypeOK, Writes, Events, InitSettles, controller
<1>2. OneWriteAtATime'
  BY DEF WriteInv, OneWriteAtATime, WriteTypeOK, Writes, Events, Settlement, NothingLost, InitSettles, controller
<1>3. NothingLost'
  BY DEF WriteInv, NothingLost, WriteTypeOK, Writes, Events, OneWriteAtATime, Settlement, InitSettles, controller
<1>4. Settlement'
  BY DEF WriteInv, Settlement, WriteTypeOK, Writes, OneWriteAtATime, InitSettles, controller
<1>5. Handover'
  BY DEF WriteInv, Handover, WriteTypeOK, Writes, OneWriteAtATime, Settlement, InitSettles, controller
<1>6. Marks'
  BY DEF WriteInv, Marks, WriteTypeOK, InitSettles, controller
<1>7. PromisesAreDurable'
  BY DEF WriteInv, PromisesAreDurable, WriteTypeOK, Writes, Events, NothingLost, Marks, Settlement, OneWriteAtATime, InitSettles, controller
<1> QED BY <1>1, <1>2, <1>3, <1>4, <1>5, <1>6, <1>7 DEF WriteInv

\* Preserved: a refused session stops draining for good.
LEMMA FlushRejectedStep == WriteInv /\ FlushRejected => WriteInv'
<1> SUFFICES ASSUME WriteInv, FlushRejected PROVE WriteInv'
  OBVIOUS
<1> USE BoundsAssumption
<1>1. WriteTypeOK'
  <2>1. callers' \in 0..MaxCallers
    BY BoundsAssumption DEF WriteInv, WriteTypeOK, FlushRejected
  <2> QED BY <2>1, Zenon DEF WriteInv, WriteTypeOK, FlushRejected
<1>2. OneWriteAtATime'
  BY DEF WriteInv, OneWriteAtATime, WriteTypeOK, Writes, Events, Settlement, NothingLost, FlushRejected
<1>3. NothingLost'
  BY DEF WriteInv, NothingLost, WriteTypeOK, Writes, Events, OneWriteAtATime, Settlement, FlushRejected
<1>4. Settlement'
  BY DEF WriteInv, Settlement, WriteTypeOK, Writes, OneWriteAtATime, FlushRejected
<1>5. Handover'
  BY DEF WriteInv, Handover, WriteTypeOK, Writes, OneWriteAtATime, Settlement, FlushRejected
<1>6. Marks'
  BY DEF WriteInv, Marks, WriteTypeOK, FlushRejected
<1>7. PromisesAreDurable'
  BY DEF WriteInv, PromisesAreDurable, WriteTypeOK, Writes, Events, NothingLost, Marks, Settlement, OneWriteAtATime, FlushRejected
<1> QED BY <1>1, <1>2, <1>3, <1>4, <1>5, <1>6, <1>7 DEF WriteInv

\* Preserved: a second flush joins the open barrier and moves its mark.
LEMMA JoinBarrierStep == WriteInv /\ JoinBarrier => WriteInv'
<1> SUFFICES ASSUME WriteInv, JoinBarrier PROVE WriteInv'
  OBVIOUS
<1> USE BoundsAssumption
<1>1. WriteTypeOK'
  BY DEF WriteInv, WriteTypeOK, Writes, Events, JoinBarrier, controller
<1>2. OneWriteAtATime'
  BY DEF WriteInv, OneWriteAtATime, WriteTypeOK, Writes, Events, Settlement, NothingLost, JoinBarrier, controller
<1>3. NothingLost'
  BY DEF WriteInv, NothingLost, WriteTypeOK, Writes, Events, OneWriteAtATime, Settlement, JoinBarrier, controller
<1>4. Settlement'
  BY DEF WriteInv, Settlement, WriteTypeOK, Writes, OneWriteAtATime, JoinBarrier, controller
<1>5. Handover'
  BY DEF WriteInv, Handover, WriteTypeOK, Writes, OneWriteAtATime, Settlement, JoinBarrier, controller
<1>6. Marks'
  BY DEF WriteInv, Marks, WriteTypeOK, JoinBarrier, controller
<1>7. PromisesAreDurable'
  BY DEF WriteInv, PromisesAreDurable, WriteTypeOK, Writes, Events, NothingLost, Marks, Settlement, OneWriteAtATime, JoinBarrier, controller
<1> QED BY <1>1, <1>2, <1>3, <1>4, <1>5, <1>6, <1>7 DEF WriteInv

\* Preserved: flush waits for the active write or takes the queue at once.
LEMMA OpenBarrierStep == WriteInv /\ OpenBarrier => WriteInv'
<1> SUFFICES ASSUME WriteInv, OpenBarrier PROVE WriteInv'
  OBVIOUS
<1> USE BoundsAssumption
<1>a. UNCHANGED <<accepted, durable>>
  BY DEF OpenBarrier
<1>b. \/ running = {} /\ StartWrite(pending, FALSE)
      \/ UNCHANGED <<pending, active, running>>
  BY DEF WriteInv, OneWriteAtATime, Settlement, OpenBarrier
<1>c. /\ running' \subseteq Writes
      /\ pending' \in Seq(Events)
      /\ OneWriteAtATime'
      /\ NothingLost'
  <2>1. CASE running = {} /\ StartWrite(pending, FALSE)
    BY <1>a, <2>1, StartWriteKeepsOrder
  <2>2. CASE UNCHANGED <<pending, active, running>>
    BY <1>a, <2>2, QuietKeepsOrder
  <2> QED BY <1>b, <2>1, <2>2
<1>1. WriteTypeOK'
  <2>1. callers' \in 0..MaxCallers /\ mark' \in 0..MaxEvents /\ promised' \in 0..MaxEvents
    <3>1. callers' \in 0..MaxCallers
      BY BoundsAssumption DEF WriteInv, WriteTypeOK, OpenBarrier
    <3>2. mark' \in 0..MaxEvents
      BY DEF WriteInv, WriteTypeOK, OpenBarrier
    <3>3. promised' = promised \/ promised' = accepted
      BY DEF OpenBarrier
    <3> QED BY <3>1, <3>2, <3>3 DEF WriteInv, WriteTypeOK
  <2>2. /\ timer' \in BOOLEAN /\ active' \in BOOLEAN
        /\ deadlineExpired' \in BOOLEAN /\ automaticPaused' \in BOOLEAN
    BY Zenon DEF WriteInv, WriteTypeOK, StartWrite, OpenBarrier
  <2>3. settled' \in [background : BOOLEAN, ok : BOOLEAN, queued : BOOLEAN]
    BY DEF WriteInv, WriteTypeOK, OpenBarrier
  <2>4. barrier' \in {"none", "awaiting", "draining"} /\ UNCHANGED init
    BY DEF WriteInv, WriteTypeOK, OpenBarrier
  <2> QED BY <1>a, <1>c, <2>1, <2>2, <2>3, <2>4 DEF WriteInv, WriteTypeOK
<1>2. OneWriteAtATime'
  BY <1>c
<1>3. NothingLost'
  BY <1>c
<1>4. Settlement'
  BY DEF WriteInv, Settlement, WriteTypeOK, Writes, OneWriteAtATime, OpenBarrier, StartWrite
<1>5. Handover'
  BY DEF WriteInv, Handover, WriteTypeOK, Writes, OneWriteAtATime, Settlement, OpenBarrier, StartWrite
<1>6. Marks'
  BY DEF WriteInv, Marks, WriteTypeOK, OpenBarrier, StartWrite
<1>7. PromisesAreDurable'
  <2>1. CASE promised' = promised
    BY <1>a, <2>1 DEF WriteInv, PromisesAreDurable
  <2>2. CASE promised' # promised
    <3>1. running = {} /\ pending = <<>> /\ promised' = mark'
      BY <2>2 DEF WriteInv, OneWriteAtATime, Settlement, OpenBarrier
    <3>2. Len(durable) = accepted
      BY <3>1, AllDurable
    <3> QED BY <1>a, <1>6, <3>1, <3>2 DEF Marks, PromisesAreDurable
  <2> QED BY <2>1, <2>2
<1> QED BY <1>1, <1>2, <1>3, <1>4, <1>5, <1>6, <1>7 DEF WriteInv

-----------------------------------------------------------------------------
(* The invariant of the specification, and what it implies. *)

\* The initial state satisfies the invariant.
LEMMA InitIInv == WriteInit => WriteInv
<1> SUFFICES ASSUME WriteInit PROVE WriteInv
  OBVIOUS
<1> USE BoundsAssumption
<1>1. WriteTypeOK
  <2>1. <<>> \in Seq(Events) /\ 0 \in 0..MaxEvents /\ 0 \in 0..MaxCallers
    OBVIOUS
  <2>2. settled \in [background : BOOLEAN, ok : BOOLEAN, queued : BOOLEAN]
    BY DEF WriteInit, NoWrite
  <2> QED BY <2>1, <2>2, Zenon DEF WriteInit, WriteTypeOK
<1>2. <<>> \o <<>> = <<>> /\ Prefix(0) = <<>>
  BY DEF Prefix
<1>3. NothingLost
  BY <1>2 DEF WriteInit, NothingLost, Prefix
<1>4. OneWriteAtATime /\ Settlement /\ Handover /\ Marks /\ PromisesAreDurable
  BY DEF WriteInit, OneWriteAtATime, Settlement, Handover, Marks, PromisesAreDurable, NoWrite
<1> QED BY <1>1, <1>3, <1>4 DEF WriteInv

\* Every step, stuttering included, preserves the invariant.
LEMMA NextIInv == WriteInv /\ [WriteNext]_writeVars => WriteInv'
<1>1. WriteInv /\ UNCHANGED writeVars => WriteInv'
  <2> SUFFICES ASSUME WriteInv, UNCHANGED writeVars PROVE WriteInv'
    OBVIOUS
  <2>1. WriteTypeOK' /\ OneWriteAtATime' /\ Marks' /\ PromisesAreDurable'
    BY DEF WriteInv, writeVars, controller, WriteTypeOK, OneWriteAtATime, Marks, PromisesAreDurable
  <2>2. NothingLost'
    BY DEF WriteInv, writeVars, controller, NothingLost, Prefix
  <2>3. Settlement'
    BY DEF WriteInv, writeVars, controller, Settlement
  <2>4. Handover'
    BY DEF WriteInv, writeVars, controller, Handover
  <2> QED BY <2>1, <2>2, <2>3, <2>4 DEF WriteInv
<1> QED BY <1>1, EnqueueStep, DeadlineStep, WriteSucceedsStep, WriteFailsStep,
           FinallyStep, ContinueAutomaticStep, ResumeOverlappedStep,
           ResumeDrainStep, CallFlushStep, InitSettlesStep, FlushRejectedStep,
           JoinBarrierStep, OpenBarrierStep DEF WriteNext

\* The inductive invariant holds of every behaviour of the write path.
THEOREM WriteInvariance == WriteSpec => []WriteInv
  BY InitIInv, NextIInv, PTL DEF WriteSpec

\* Type correctness of the write path (WriteBehind, all of its variables).
THEOREM WriteTypeCorrect == WriteSpec => []WriteTypeOK
<1>1. WriteInv => WriteTypeOK
  BY DEF WriteInv
<1> QED BY <1>1, WriteInvariance, PTL

\* startWrite never overlaps another write of the same session.
THEOREM WritesAreSerial == WriteSpec => []OneWriteAtATime
<1>1. WriteInv => OneWriteAtATime
  BY DEF WriteInv
<1> QED BY <1>1, WriteInvariance, PTL

\* Backend, batch and queue always hold the published events, each once and in
\* order, through any sequence of failures, pauses and flushes.
THEOREM NoEventLost == WriteSpec => []NothingLost
<1>1. WriteInv => NothingLost
  BY DEF WriteInv
<1> QED BY <1>1, WriteInvariance, PTL

\* A resolved flush acknowledges durable events only.
THEOREM FlushIsDurable == WriteSpec => []PromisesAreDurable
<1>1. WriteInv => PromisesAreDurable
  BY DEF WriteInv
<1> QED BY <1>1, WriteInvariance, PTL

\* Queued events are never left without anything that will take them.
THEOREM QueueIsNotStranded == WriteSpec => []NotStranded
<1>1. WriteInv => NotStranded
  <2>1. WriteInv => (running # {} => active) /\ callers \in Nat
    BY BoundsAssumption DEF WriteInv, OneWriteAtATime, WriteTypeOK
  <2> QED BY <2>1 DEF WriteInv, Handover, NotStranded
<1> QED BY <1>1, WriteInvariance, PTL

\* The initial state of the write path is an initial state of the durable log.
LEMMA RefinesInit == WriteInit => Log!Init
  BY DEF WriteInit, Log!Init

\* Every step of the write path is a step of the durable log, or a stutter.
LEMMA RefinesNext == WriteInv /\ WriteInv' /\ [WriteNext]_writeVars => [Log!Next]_(Log!vars)
<1> SUFFICES ASSUME WriteInv, WriteInv', [WriteNext]_writeVars PROVE [Log!Next]_(Log!vars)
  OBVIOUS
<1>1. CASE Enqueue
  BY <1>1 DEF Enqueue, Log!Next, Log!Accept
<1>2. CASE WriteSucceeds
  <2> PICK w \in running : w.stage = "writing" /\ durable' = durable \o w.batch
    BY <1>2 DEF WriteSucceeds, MicrotasksDrained
  <2>1. UNCHANGED <<accepted, promised, pending>>
    BY <1>2 DEF WriteSucceeds
  <2>2. /\ durable \in Seq(Events) /\ w.batch \in Seq(Events)
        /\ pending \in Seq(Events) /\ accepted \in Nat
    BY BoundsAssumption DEF WriteInv, WriteTypeOK, Writes
  <2>3. durable' \in Seq(Events) /\ Len(durable') = Len(durable) + Len(w.batch)
    BY <2>2
  <2>4. durable' \o pending = Prefix(accepted)
    <3>1. (durable \o w.batch) \o pending = durable \o (w.batch \o pending)
      BY <2>2, ConcatThree, Zenon
    <3> QED BY <3>1 DEF WriteInv, NothingLost
  <2>5. durable' = Prefix(Len(durable')) /\ Len(durable') + Len(pending) = accepted
    BY <2>2, <2>3, <2>4, PrefixSplit, Zenon
  <2>6. CASE w.batch = <<>>
    <3>1. durable' = durable
      BY <2>2, <2>6, ConcatEmptySeq, Zenon
    <3> QED BY <2>1, <3>1 DEF Log!vars
  <2>7. CASE w.batch # <<>>
    <3>1. Len(durable') \in (Len(durable) + 1)..accepted
      BY <2>2, <2>3, <2>5, <2>7
    <3> QED BY <2>1, <2>5, <3>1 DEF Prefix, Log!Next, Log!Commit, Log!Prefix
  <2> QED BY <2>6, <2>7
<1>3. CASE ResumeOverlapped \/ ResumeDrain \/ OpenBarrier
  <2>1. UNCHANGED <<accepted, durable>> /\ (promised' = promised \/ promised' = mark')
    BY <1>3 DEF ResumeOverlapped, ResumeDrain, OpenBarrier, DrainOn
  <2>2. promised' = mark' => promised' \in promised..Len(durable)
    <3>1. promised \in Nat /\ promised' \in Nat /\ mark' \in Nat /\ mark \in Nat
          /\ accepted \in Nat /\ Len(durable) \in Nat
      BY DEF WriteInv, WriteTypeOK
    <3>2. promised <= mark /\ mark <= accepted
      BY DEF WriteInv, Marks
    <3>3. mark' = mark \/ mark' = accepted
      BY <1>3 DEF ResumeOverlapped, ResumeDrain, OpenBarrier
    <3>4. promised' <= Len(durable)
      BY <2>1 DEF WriteInv, PromisesAreDurable
    <3> QED BY <3>1, <3>2, <3>3, <3>4
  <2> QED BY <2>1, <2>2 DEF Log!Next, Log!Acknowledge, Log!vars
<1>4. CASE UNCHANGED <<accepted, durable, promised>>
  BY <1>4 DEF Log!vars
<1> QED BY <1>1, <1>2, <1>3, <1>4 DEF WriteNext, writeVars, controller, Deadline, WriteFails,
           Finally, ContinueAutomatic, CallFlush, InitSettles, FlushRejected,
           JoinBarrier

\* The controller implements the abstract durable log.
THEOREM RefinesDurableLog == WriteSpec => ImplementsDurableLog
  BY RefinesInit, RefinesNext, WriteInvariance, PTL DEF WriteSpec, ImplementsDurableLog, Log!Spec

-----------------------------------------------------------------------------
(* The ownership of a persisted session: the inductive invariant. *)

\* A source says which log was stored when its revision was current.
SourcesAreRead == \A n \in Slots :
    /\ entry[n].source.revision <= revision
    /\ entry[n].source.revision = revision => entry[n].source.log = log

\* The durable cursor stands at the end of the log.  Ownerless state is only
\* kept for a log whose last turn is over.
CursorIsEnd ==
    /\ ~tracked.known => tracked = NoState
    /\ tracked.known => tracked.cursor = Len(log)
    /\ tracked.known /\ tracked.owner = 0 => ~Interrupted(log)
    /\ tracked.known /\ ~tracked.materialized => log = <<>>
    /\ tracked.owner # 0 => session[tracked.owner].where # "none"

\* The callers that took a ready entry and have not given it back, and those
\* whose entry was read.
Past == {"commit", "committed", "stale", "failed", "held"}
Wanting == Past \cup {"claim", "wait", "checking", "fresh", "outdated"}

\* A caller past the claim has its entry for itself: the entry is not ready, so
\* that nobody can claim it, and its session is not published.
CallerFits(c) ==
    /\ caller[c].pc \in {"idle", "start"} <=> caller[c].on = 0
    /\ caller[c].pc \in Wanting => entry[caller[c].on].result = "ok"
    /\ caller[c].pc \in Past =>
         /\ session[caller[c].on].where = "none"
         /\ entry[caller[c].on].phase \in
              (IF caller[c].pc = "held" THEN {"reserved"} ELSE {"committing", "gone"})

CallersFit ==
    /\ current # 0 => entry[current].phase # "gone" /\ session[current].where = "none"
    /\ \A c \in Callers : CallerFits(c)
    /\ \A c, d \in Callers :
        caller[c].pc \in Past /\ caller[d].pc \in Past /\ c # d => caller[c].on # caller[d].on

\* A holder, and a caller that is about to be one.
Holds(c) == \/ caller[c].pc = "held"
            \/ caller[c].pc = "committed" /\ current = caller[c].on

\* From the check of the revision to the end of the reservation nothing is
\* written and nobody owns the identity.
HoldersFit == \A c \in Callers : Holds(c) =>
    /\ current = caller[c].on /\ stage = "queued"
    /\ tracked.known /\ tracked.materialized /\ tracked.owner = 0
    /\ entry[current].source.revision = revision

Writer == {"suffix", "batch", "init"}
OfSlot == {"load", "retire"} \cup Writer
OfCaller == {"commit", "check"}

\* What the running operation awaits is about the identity as it is now.
StageFits ==
    /\ chain = <<>> => stage = "queued"
    /\ stage = "repair" => ~tracked.known /\ Head1.kind \in {"commit", "append"}
    /\ stage = "adopt" => ~tracked.known /\ Head1.kind = "append"
    /\ stage = "delete" => tracked.owner = 0 /\ Head1.kind = "delete"
    /\ stage = "write" =>
         /\ tracked.known /\ writing.at = tracked.cursor
         /\ Head1.kind \in Writer \cup {"append"}
         /\ Head1.kind \in Writer =>
              /\ tracked.owner = Head1.of /\ writing.at < Head1.arg
              /\ writing.events = SubSeq(session[Head1.of].events, writing.at + 1, Head1.arg)
    /\ stage \in {"repair", "adopt", "write"} /\ Head1.kind = "append" =>
         writing.events = <<[n |-> Head1.arg, open |-> FALSE]>>

\* What is queued for a slot or for a caller finds it as it was left, and the
\* writes of a session find it as the owner.
Queued(o) == \E i \in DOMAIN chain : chain[i] = o
Waits(o) == \E i \in DOMAIN chain : chain[i] = o /\ (i > 1 \/ stage = "queued")

Fits(o) ==
    /\ o.kind = "load" => entry[o.of].result = "pending" /\ session[o.of] = NoSession
    /\ o.kind \in OfCaller =>
         /\ caller[o.arg].on = o.of
         /\ caller[o.arg].pc = IF o.kind = "commit" THEN "commit" ELSE "checking"
    /\ o.kind \in Writer =>
         /\ session[o.of].where \in {"live", "disposed"}
         /\ o.arg <= Len(session[o.of].events) /\ session[o.of].acked <= o.arg
         /\ session[o.of].init = IF o.kind = "batch" THEN "ready" ELSE "pending"
         /\ o.kind # "init" => tracked.owner = o.of
    /\ o.kind = "batch" => session[o.of].busy # "no" /\ session[o.of].acked < o.arg
    /\ o.kind = "suffix" => tracked.materialized /\ Len(entry[o.of].source.log) < o.arg
    /\ o.kind = "retire" => session[o.of].where = "retiring"

Clash(o, p) == \/ o.kind \in OfSlot /\ p.kind \in OfSlot /\ o.of = p.of
               \/ o.kind \in OfCaller /\ p.kind \in OfCaller /\ o.arg = p.arg

OpsFit ==
    /\ \A o \in Operation : Queued(o) => Fits(o)
    /\ \A o \in Operation : Waits(o) /\ o.kind = "init" => tracked.owner # o.of
    /\ \A i, j \in DOMAIN chain : i # j => ~Clash(chain[i], chain[j])

OneLive == \A s, t \in Live : s = t

\* While the binding of a fresh session is queued the pool stays empty: the
\* session, or one created after it, is live or in the way as the retirement.
Guards(s) == s \in Live \/ (Live = {} /\ retiring = s)

InitIsGuarded == \A i \in DOMAIN chain : chain[i].kind = "init" =>
    /\ current = 0
    /\ \E j \in DOMAIN chain, o \in Operation :
         j >= i /\ chain[j] = o /\ o.kind = "init" /\ Guards(o.of)

\* A session whose write path is ready owns the log and has acknowledged no more
\* than is stored, or it never had an event and its identity was reclaimed.
ReadyFits == \A s \in Slots : session[s].where # "none" /\ session[s].init = "ready" =>
    \/ tracked.owner = s /\ session[s].acked <= tracked.cursor
    \/ tracked.owner # s /\ session[s].where # "live" /\ session[s].events = <<>>

\* A prepared session begins with what was read.
PreparedExtends == \A n \in Slots :
    entry[n].result = "ok" => IsPrefix(entry[n].source.log, session[n].events)

\* An append that was requested for an identity out of use runs before anybody
\* comes to own it.
Unowned == tracked.owner = 0 /\ \A c \in Callers : ~Holds(c)

AppendIsUnowned == ~AppendWhileHeld =>
    \A i \in DOMAIN chain : chain[i].kind = "append" =>
        /\ Unowned
        /\ \A j \in 1..(i - 1) :
             /\ chain[j].kind # "init"
             /\ chain[j].kind = "commit" => current # chain[j].of

LogIsOwned == ~AppendWhileHeld =>
    (tracked.owner # 0 => IsPrefix(log, session[tracked.owner].events))

IInv ==
    /\ TypeOK /\ SourcesAreRead /\ CursorIsEnd /\ CallersFit /\ HoldersFit /\ StageFits
    /\ OpsFit /\ OneLive /\ InitIsGuarded /\ ReadyFits /\ PreparedExtends
    /\ AppendIsUnowned /\ LogIsOwned

-----------------------------------------------------------------------------
(* Sequences. *)

\* What a sequence with one more element consists of.
LEMMA Appended ==
    ASSUME NEW S, NEW s \in Seq(S), NEW e \in S
    PROVE  /\ Append(s, e) \in Seq(S) /\ Len(Append(s, e)) = Len(s) + 1 /\ Len(s) \in Nat
           /\ DOMAIN s = 1..Len(s) /\ DOMAIN Append(s, e) = DOMAIN s \cup {Len(s) + 1}
           /\ \A i \in DOMAIN s : Append(s, e)[i] = s[i] /\ i # Len(s) + 1
           /\ Append(s, e)[Len(s) + 1] = e
  OBVIOUS

\* What is left behind the first element.
LEMMA Tailed ==
    ASSUME NEW S, NEW s \in Seq(S), s # <<>>
    PROVE  /\ Tail(s) \in Seq(S) /\ Len(s) \in Nat /\ Len(s) >= 1 /\ Len(Tail(s)) = Len(s) - 1
           /\ DOMAIN s = 1..Len(s) /\ DOMAIN Tail(s) = 1..(Len(s) - 1)
           /\ \A i \in DOMAIN Tail(s) : i + 1 \in DOMAIN s /\ Tail(s)[i] = s[i + 1]
  OBVIOUS

\* A prefix agrees with the sequence as far as it goes.
LEMMA PrefixIs ==
    ASSUME NEW S, NEW s \in Seq(S), NEW t \in Seq(S)
    PROVE  IsPrefix(s, t) <=> /\ Len(s) <= Len(t)
                              /\ \A i \in 1..Len(s) : s[i] = t[i]
<1>1. CASE Len(s) <= Len(t)
  <2>1. /\ SubSeq(s, 1, Len(s)) \in Seq(S) /\ Len(SubSeq(s, 1, Len(s))) = Len(s)
        /\ \A i \in 1..Len(s) : SubSeq(s, 1, Len(s))[i] = s[i]
    OBVIOUS
  <2>2. /\ SubSeq(t, 1, Len(s)) \in Seq(S) /\ Len(SubSeq(t, 1, Len(s))) = Len(s)
        /\ \A i \in 1..Len(s) : SubSeq(t, 1, Len(s))[i] = t[i]
    BY <1>1
  <2>3. SubSeq(s, 1, Len(s)) = SubSeq(t, 1, Len(s)) <=> \A i \in 1..Len(s) : s[i] = t[i]
    BY <2>1, <2>2, SeqEqual
  <2> QED BY <1>1, <2>3 DEF IsPrefix
<1>2. CASE ~(Len(s) <= Len(t))
  BY <1>2 DEF IsPrefix
<1> QED BY <1>1, <1>2

\* A prefix stays one when the sequence grows.
LEMMA PrefixGrows ==
    ASSUME NEW S, NEW s \in Seq(S), NEW t \in Seq(S), NEW e \in S, IsPrefix(s, t)
    PROVE  IsPrefix(s, Append(t, e))
<1> DEFINE u == Append(t, e)
<1>1. /\ u \in Seq(S) /\ Len(u) = Len(t) + 1 /\ Len(t) \in Nat /\ Len(s) \in Nat
      /\ \A i \in 1..Len(t) : u[i] = t[i]
  OBVIOUS
<1>2. Len(s) <= Len(t) /\ \A i \in 1..Len(s) : s[i] = t[i]
  BY PrefixIs
<1> HIDE DEF u
<1>3. Len(s) <= Len(u) /\ \A i \in 1..Len(s) : s[i] = u[i]
  BY <1>1, <1>2
<1>4. IsPrefix(s, u)
  BY <1>1, <1>3, PrefixIs
<1> QED BY <1>4 DEF u

\* The part up to k of a sequence, cut anywhere.
LEMMA PartOfPart ==
    ASSUME NEW S, NEW s \in Seq(S), NEW k \in 0..Len(s), NEW m \in Nat
    PROVE  /\ SubSeq(s, 1, k) \in Seq(S) /\ Len(SubSeq(s, 1, k)) = k
           /\ SubSeq(SubSeq(s, 1, k), m + 1, Len(SubSeq(s, 1, k))) = SubSeq(s, m + 1, k)
<1> DEFINE p == SubSeq(s, 1, k)
<1>1. /\ p \in Seq(S) /\ Len(p) = k /\ \A i \in 1..k : p[i] = s[i]
      /\ k \in Nat /\ Len(s) \in Nat /\ k <= Len(s)
  OBVIOUS
<1> HIDE DEF p
<1>2. SubSeq(p, m + 1, k) = SubSeq(s, m + 1, k)
  <2> DEFINE n == IF m + 1 <= k THEN k - m ELSE 0
  <2>0. n \in Nat /\ \A i \in 1..n : m + i \in 1..k
    BY <1>1
  <2>1. /\ SubSeq(p, m + 1, k) \in Seq(S) /\ Len(SubSeq(p, m + 1, k)) = n
        /\ \A i \in 1..n : SubSeq(p, m + 1, k)[i] = p[m + i]
    BY <1>1
  <2>2. /\ SubSeq(s, m + 1, k) \in Seq(S) /\ Len(SubSeq(s, m + 1, k)) = n
        /\ \A i \in 1..n : SubSeq(s, m + 1, k)[i] = s[m + i]
    BY <1>1
  <2> HIDE DEF n
  <2> QED BY <1>1, <2>0, <2>1, <2>2, SeqEqual
<1> QED BY <1>1, <1>2 DEF p

\* A part of a sequence is not changed by what is appended behind it.
LEMMA PartStays ==
    ASSUME NEW S, NEW s \in Seq(S), NEW e \in S, NEW m \in Nat, NEW k \in Nat, k <= Len(s)
    PROVE  SubSeq(Append(s, e), m + 1, k) = SubSeq(s, m + 1, k)
<1> DEFINE u == Append(s, e)
           n == IF m + 1 <= k THEN k - m ELSE 0
<1>1. /\ u \in Seq(S) /\ Len(u) = Len(s) + 1 /\ Len(s) \in Nat
      /\ \A i \in 1..Len(s) : u[i] = s[i]
  OBVIOUS
<1> HIDE DEF u
<1>2. n \in Nat /\ \A i \in 1..n : m + i \in 1..Len(s)
  BY <1>1
<1>3. /\ SubSeq(u, m + 1, k) \in Seq(S) /\ Len(SubSeq(u, m + 1, k)) = n
      /\ \A i \in 1..n : SubSeq(u, m + 1, k)[i] = u[m + i]
  BY <1>1
<1>4. /\ SubSeq(s, m + 1, k) \in Seq(S) /\ Len(SubSeq(s, m + 1, k)) = n
      /\ \A i \in 1..n : SubSeq(s, m + 1, k)[i] = s[m + i]
  BY <1>1
<1> HIDE DEF n
<1>5. SubSeq(u, m + 1, k) = SubSeq(s, m + 1, k)
  BY <1>1, <1>2, <1>3, <1>4, SeqEqual
<1> QED BY <1>5 DEF u

\* What continues a prefix, taken from the same sequence, makes a longer prefix.
LEMMA PrefixContinues ==
    ASSUME NEW S, NEW l \in Seq(S), NEW s \in Seq(S), IsPrefix(l, s),
           NEW k \in Nat, Len(l) <= k, k <= Len(s)
    PROVE  /\ IsPrefix(l \o SubSeq(s, Len(l) + 1, k), s)
           /\ Len(SubSeq(s, Len(l) + 1, k)) = k - Len(l)
<1> DEFINE m == Len(l)
           n == k - m
           t == SubSeq(s, m + 1, k)
           u == l \o t
<1>1. /\ m \in Nat /\ n \in Nat /\ Len(s) \in Nat /\ m + n = k /\ k <= Len(s)
      /\ \A i \in 1..m : l[i] = s[i]
  BY PrefixIs
<1>2. t \in Seq(S) /\ Len(t) = n /\ \A i \in 1..n : t[i] = s[m + i]
  BY <1>1
<1> HIDE DEF t
<1>3. /\ u \in Seq(S) /\ Len(u) = m + n
      /\ \A i \in 1..(m + n) : u[i] = IF i <= m THEN l[i] ELSE t[i - m]
  <2>1. t \in Seq(S) /\ Len(t) = n
    BY <1>2
  <2>2. /\ l \o t \in Seq(S) /\ Len(l \o t) = Len(l) + Len(t)
        /\ \A i \in 1..(Len(l) + Len(t)) :
             (l \o t)[i] = IF i <= Len(l) THEN l[i] ELSE t[i - Len(l)]
    BY ONLY <2>1, l \in Seq(S), ConcatProperties, Zenon
  <2> HIDE DEF n
  <2> QED BY <2>1, <2>2
<1> HIDE DEF u
<1>4. ASSUME NEW i \in 1..Len(u) PROVE u[i] = s[i]
  <2>1. CASE i <= m
    BY <1>1, <1>3, <2>1
  <2>2. CASE ~(i <= m)
    <3> DEFINE j == i - m
    <3>1. j \in 1..n /\ m + j = i
      BY <1>1, <1>3, <2>2
    <3> HIDE DEF j
    <3>2. u[i] = t[i - m] /\ i - m = j
      BY <1>1, <1>3, <2>2 DEF j
    <3> QED BY <1>2, <3>1, <3>2
  <2> QED BY <2>1, <2>2
<1>5. IsPrefix(u, s)
  BY <1>1, <1>3, <1>4, PrefixIs
<1> QED BY <1>2, <1>5 DEF u, t

\* Of two sequences of which one is a prefix, the beginnings are comparable.
LEMMA PartIsPrefix ==
    ASSUME NEW S, NEW l \in Seq(S), NEW s \in Seq(S), IsPrefix(l, s), NEW k \in 0..Len(l)
    PROVE  IsPrefix(SubSeq(s, 1, k), l)
<1> DEFINE t == SubSeq(s, 1, k)
<1>1. k \in Nat /\ k <= Len(l) /\ Len(l) <= Len(s) /\ Len(l) \in Nat /\ Len(s) \in Nat
      /\ \A i \in 1..Len(l) : l[i] = s[i]
  BY PrefixIs
<1>2. t \in Seq(S) /\ Len(t) = k /\ \A i \in 1..k : t[i] = s[i]
  BY <1>1
<1> HIDE DEF t
<1>3. IsPrefix(t, l)
  BY <1>1, <1>2, PrefixIs
<1> QED BY <1>3 DEF t

\* A prefix of a part is a prefix of the whole.
LEMMA PrefixOfPart ==
    ASSUME NEW S, NEW l \in Seq(S), NEW s \in Seq(S), NEW k \in 0..Len(s),
           IsPrefix(l, SubSeq(s, 1, k))
    PROVE  IsPrefix(l, s)
<1> DEFINE t == SubSeq(s, 1, k)
<1>1. k \in Nat /\ k <= Len(s) /\ Len(s) \in Nat /\ Len(l) \in Nat
  OBVIOUS
<1>2. t \in Seq(S) /\ Len(t) = k /\ \A i \in 1..k : t[i] = s[i]
  BY <1>1
<1>3. IsPrefix(l, t)
  OBVIOUS
<1> HIDE DEF t
<1>4. Len(l) <= k /\ \A i \in 1..Len(l) : l[i] = t[i]
  BY <1>2, <1>3, PrefixIs
<1> QED BY <1>1, <1>2, <1>4, PrefixIs

\* A log that ends with an event which is no marker and leaves no turn open.
LEMMA ClosedByLast ==
    ASSUME NEW l \in Seq(Event), NEW e \in Event, ~e.open
    PROVE  ~Interrupted(Append(l, e))
<1> DEFINE u == Append(l, e)
<1>1. /\ DOMAIN l = 1..Len(l) /\ Len(l) \in Nat
      /\ DOMAIN u = DOMAIN l \cup {Len(l) + 1} /\ u[Len(l) + 1] = e
  OBVIOUS
<1> HIDE DEF u
<1>2. ~IsMarker(e)
  BY DEF IsMarker, Marker
<1>3. ~Interrupted(u)
  BY <1>1, <1>2 DEF Interrupted
<1> QED BY <1>3 DEF u

\* The events of a prepared session begin with the log that was read.
LEMMA SeedExtends ==
    ASSUME NEW l \in Seq(Event)
    PROVE  Seeded(Balanced(l)) \in Seq(Event) /\ IsPrefix(l, Seeded(Balanced(l)))
<1>1. Closer \in Event /\ Marker \in Event
  BY DEF Event, Closer, Marker
<1>2. IsPrefix(l, l)
  BY PrefixIs
<1>3. Balanced(l) \in Seq(Event) /\ IsPrefix(l, Balanced(l))
  <2>1. CASE Interrupted(l)
    BY <1>1, <1>2, <2>1, PrefixGrows DEF Balanced
  <2>2. CASE ~Interrupted(l)
    BY <1>2, <2>2 DEF Balanced
  <2> QED BY <2>1, <2>2
<1> DEFINE b == Balanced(l)
<1> HIDE DEF b
<1>4. b \in Seq(Event) /\ IsPrefix(l, b)
  BY <1>3 DEF b
<1>5. Seeded(b) \in Seq(Event) /\ IsPrefix(l, Seeded(b))
  <2>1. CASE b # <<>> /\ IsMarker(Last(b))
    BY <1>4, <2>1 DEF Seeded
  <2>2. CASE ~(b # <<>> /\ IsMarker(Last(b)))
    BY <1>1, <1>4, <2>2, PrefixGrows DEF Seeded
  <2> QED BY <2>1, <2>2
<1> QED BY <1>5 DEF b

-----------------------------------------------------------------------------
(* The parts of the invariant that are about the chain. *)

\* The first operation is the one that runs.
LEMMA FirstRuns ==
    ASSUME TypeOK, OpsFit, chain # <<>>
    PROVE  /\ 1 \in DOMAIN chain /\ Head1 \in Operation /\ Queued(Head1) /\ Fits(Head1)
           /\ \A i \in DOMAIN chain : i > 1 => chain[i] \in Operation /\ ~Clash(Head1, chain[i])
<1>1. /\ DOMAIN chain = 1..Len(chain) /\ Len(chain) \in Nat /\ Len(chain) # 0
      /\ \A i \in DOMAIN chain : chain[i] \in Operation
  BY DEF TypeOK
<1>2. 1 \in DOMAIN chain
  BY <1>1
<1>3. Queued(Head1) /\ Head1 \in Operation
  BY <1>1, <1>2 DEF Queued, Head1
<1>4. \A i \in DOMAIN chain : i > 1 => ~Clash(chain[1], chain[i])
  BY <1>2 DEF OpsFit
<1> QED BY <1>1, <1>2, <1>3, <1>4 DEF OpsFit, Head1

\* The chain stays, and its operation has not been put back.
LEMMA OpsStay ==
    ASSUME TypeOK, OpsFit, chain' = chain, stage # "queued" => stage' # "queued",
           \A o \in Operation : Queued(o) /\ Fits(o) => Fits(o)',
           \A o \in Operation : Waits(o) /\ Waits(o)' /\ o.kind = "init"
                                => tracked'.owner # o.of \/ tracked'.owner = tracked.owner
    PROVE  OpsFit'
<1>1. \A o \in Operation : Queued(o)' => Fits(o)'
  BY DEF OpsFit, Queued
<1>2. \A o \in Operation : Waits(o)' => Waits(o)
  BY DEF Waits
<1>3. \A o \in Operation : Waits(o)' /\ o.kind = "init" => tracked'.owner # o.of
  BY <1>2 DEF OpsFit
<1> QED BY <1>1, <1>3 DEF OpsFit

\* An operation is queued.
LEMMA OpsGrow ==
    ASSUME TypeOK, OpsFit, StageFits, NEW p \in Operation, chain' = Append(chain, p), stage' = stage,
           \A o \in Operation : Queued(o) /\ Fits(o) => Fits(o)',
           \A o \in Operation : Queued(o) /\ o.kind = "init"
                                => tracked'.owner # o.of \/ tracked'.owner = tracked.owner,
           Fits(p)', p.kind = "init" => tracked'.owner # p.of,
           \A o \in Operation : Queued(o) => ~Clash(o, p)
    PROVE  OpsFit'
<1> USE DEF OpsFit
<1>1. /\ Append(chain, p) \in Seq(Operation) /\ Len(chain) \in Nat
      /\ DOMAIN chain = 1..Len(chain) /\ DOMAIN chain' = DOMAIN chain \cup {Len(chain) + 1}
      /\ \A i \in DOMAIN chain : /\ chain'[i] = chain[i] /\ i # Len(chain) + 1
                                 /\ chain[i] \in Operation
      /\ chain'[Len(chain) + 1] = p
  BY Appended DEF TypeOK
<1>2. \A o \in Operation : Queued(o)' => Queued(o) \/ o = p
  BY <1>1 DEF Queued
<1>3. \A o \in Operation : Waits(o)' => Waits(o) \/ o = p
  BY <1>1 DEF Waits
<1>4. \A o \in Operation : Waits(o) => Queued(o)
  BY DEF Waits, Queued
<1>5. \A o \in Operation : Queued(o)' => Fits(o)'
  BY <1>2
<1>6. \A o \in Operation : Waits(o)' /\ o.kind = "init" => tracked'.owner # o.of
  BY <1>3, <1>4
<1>7. \A i \in DOMAIN chain : ~Clash(chain[i], p) /\ ~Clash(p, chain[i])
  <2> SUFFICES ASSUME NEW i \in DOMAIN chain
               PROVE  ~Clash(chain[i], p) /\ ~Clash(p, chain[i])
    OBVIOUS
  <2>1. Queued(chain[i]) /\ chain[i] \in Operation
    BY <1>1 DEF Queued
  <2>2. ~Clash(chain[i], p)
    BY <2>1
  <2> QED BY <2>2 DEF Clash
<1>8. \A i, j \in DOMAIN chain' : i # j => ~Clash(chain'[i], chain'[j])
  BY <1>1, <1>7
<1> QED BY <1>5, <1>6, <1>8

\* The running operation ends.
LEMMA OpsPop ==
    ASSUME TypeOK, OpsFit, chain # <<>>, Finish,
           \A o \in Operation : Queued(o) /\ Fits(o) /\ ~Clash(Head1, o) => Fits(o)',
           \A o \in Operation : Waits(o) /\ o.kind = "init" /\ ~Clash(Head1, o)
                                => tracked'.owner # o.of \/ tracked'.owner = tracked.owner
    PROVE  OpsFit'
<1> USE DEF OpsFit
<1>1. /\ chain' \in Seq(Operation) /\ Len(chain) \in Nat /\ Len(chain) >= 1
      /\ DOMAIN chain = 1..Len(chain) /\ DOMAIN chain' = 1..(Len(chain) - 1)
      /\ \A i \in DOMAIN chain' : i + 1 \in DOMAIN chain /\ chain'[i] = chain[i + 1]
      /\ stage' = "queued"
  BY Tailed DEF TypeOK, Finish
<1>2. \A i \in DOMAIN chain : chain[i] \in Operation /\ (i > 1 => ~Clash(Head1, chain[i]))
  BY FirstRuns DEF TypeOK
<1>3. \A o \in Operation : Queued(o)' => Queued(o) /\ Waits(o) /\ ~Clash(Head1, o)
  <2> SUFFICES ASSUME NEW o \in Operation, Queued(o)'
               PROVE  Queued(o) /\ Waits(o) /\ ~Clash(Head1, o)
    OBVIOUS
  <2>1. PICK i \in DOMAIN chain' : chain'[i] = o
    BY DEF Queued
  <2>2. i + 1 \in DOMAIN chain /\ chain[i + 1] = o /\ i + 1 > 1
    BY <1>1, <2>1
  <2> QED BY <1>2, <2>2 DEF Queued, Waits
<1>4. \A o \in Operation : Waits(o)' => Queued(o)'
  BY DEF Waits, Queued
<1>5. \A o \in Operation : Queued(o)' => Fits(o)'
  BY <1>3
<1>6. \A o \in Operation : Waits(o)' /\ o.kind = "init" => tracked'.owner # o.of
  BY <1>3, <1>4
<1>7. \A i, j \in DOMAIN chain' : i # j => ~Clash(chain'[i], chain'[j])
  <2> SUFFICES ASSUME NEW i \in DOMAIN chain', NEW j \in DOMAIN chain', i # j
               PROVE  ~Clash(chain'[i], chain'[j])
    OBVIOUS
  <2>1. i + 1 # j + 1
    BY <1>1
  <2> QED BY <1>1, <2>1
<1> QED BY <1>5, <1>6, <1>7

\* A queued binding stays guarded while the chain stays, ...
LEMMA GuardStays ==
    ASSUME TypeOK, InitIsGuarded, chain' = chain,
           \A o \in Operation : Queued(o) /\ o.kind = "init" /\ current = 0
                                => current' = 0 /\ (Guards(o.of) => Guards(o.of)')
    PROVE  InitIsGuarded'
<1>1. \A j \in DOMAIN chain : chain[j] \in Operation /\ Queued(chain[j])
  BY DEF TypeOK, Queued
<1>2. \A i \in DOMAIN chain : chain[i].kind = "init" =>
        /\ current' = 0
        /\ \E j \in DOMAIN chain, o \in Operation :
             j >= i /\ chain[j] = o /\ o.kind = "init" /\ Guards(o.of)'
  <2> SUFFICES ASSUME NEW i \in DOMAIN chain, chain[i].kind = "init"
               PROVE  /\ current' = 0
                      /\ \E j \in DOMAIN chain, o \in Operation :
                           j >= i /\ chain[j] = o /\ o.kind = "init" /\ Guards(o.of)'
    OBVIOUS
  <2>1. PICK j \in DOMAIN chain, o \in Operation :
             j >= i /\ chain[j] = o /\ o.kind = "init" /\ Guards(o.of)
    BY DEF InitIsGuarded
  <2>2. current = 0
    BY DEF InitIsGuarded
  <2> QED BY <1>1, <2>1, <2>2
<1> QED BY <1>2 DEF InitIsGuarded

\* ... grows by something else, ...
LEMMA GuardGrows ==
    ASSUME TypeOK, InitIsGuarded, NEW p \in Operation, chain' = Append(chain, p), p.kind # "init",
           \A o \in Operation : Queued(o) /\ o.kind = "init" /\ current = 0
                                => current' = 0 /\ (Guards(o.of) => Guards(o.of)')
    PROVE  InitIsGuarded'
<1>0. /\ DOMAIN chain' = DOMAIN chain \cup {Len(chain) + 1}
      /\ \A i \in DOMAIN chain : chain'[i] = chain[i]
      /\ chain'[Len(chain) + 1] = p
  BY Appended DEF TypeOK
<1>1. \A j \in DOMAIN chain : chain[j] \in Operation /\ Queued(chain[j])
  BY DEF TypeOK, Queued
<1>2. \A i \in DOMAIN chain' : chain'[i].kind = "init" =>
        /\ current' = 0
        /\ \E j \in DOMAIN chain', o \in Operation :
             j >= i /\ chain'[j] = o /\ o.kind = "init" /\ Guards(o.of)'
  <2> SUFFICES ASSUME NEW i \in DOMAIN chain, chain[i].kind = "init"
               PROVE  /\ current' = 0
                      /\ \E j \in DOMAIN chain', o \in Operation :
                           j >= i /\ chain'[j] = o /\ o.kind = "init" /\ Guards(o.of)'
    BY <1>0
  <2>1. PICK j \in DOMAIN chain, o \in Operation :
             j >= i /\ chain[j] = o /\ o.kind = "init" /\ Guards(o.of)
    BY DEF InitIsGuarded
  <2>2. current = 0
    BY DEF InitIsGuarded
  <2> QED BY <1>0, <1>1, <2>1, <2>2
<1> QED BY <1>2 DEF InitIsGuarded

\* ... or loses its first operation.
LEMMA GuardPops ==
    ASSUME TypeOK, OpsFit, InitIsGuarded, chain # <<>>, Finish,
           \A o \in Operation : Queued(o) /\ ~Clash(Head1, o) /\ o.kind = "init" /\ current = 0
                                => current' = 0 /\ (Guards(o.of) => Guards(o.of)')
    PROVE  InitIsGuarded'
<1>0. /\ Len(chain) \in Nat /\ Len(chain) >= 1
      /\ DOMAIN chain = 1..Len(chain) /\ DOMAIN chain' = 1..(Len(chain) - 1)
      /\ \A i \in DOMAIN chain' : i + 1 \in DOMAIN chain /\ chain'[i] = chain[i + 1]
  BY Tailed DEF TypeOK, Finish
<1>1. \A j \in DOMAIN chain : /\ chain[j] \in Operation /\ Queued(chain[j])
                              /\ j > 1 => ~Clash(Head1, chain[j])
  BY FirstRuns DEF TypeOK, Queued
<1>2. \A i \in DOMAIN chain' : chain'[i].kind = "init" =>
        /\ current' = 0
        /\ \E j \in DOMAIN chain', o \in Operation :
             j >= i /\ chain'[j] = o /\ o.kind = "init" /\ Guards(o.of)'
  <2> SUFFICES ASSUME NEW i \in DOMAIN chain', chain'[i].kind = "init"
               PROVE  /\ current' = 0
                      /\ \E j \in DOMAIN chain', o \in Operation :
                           j >= i /\ chain'[j] = o /\ o.kind = "init" /\ Guards(o.of)'
    OBVIOUS
  <2>1. PICK k \in DOMAIN chain, o \in Operation :
             k >= i + 1 /\ chain[k] = o /\ o.kind = "init" /\ Guards(o.of)
    BY <1>0 DEF InitIsGuarded
  <2>2. current = 0
    BY <1>0 DEF InitIsGuarded
  <2>3. k > 1 /\ k - 1 \in DOMAIN chain' /\ k - 1 >= i /\ chain'[k - 1] = o
    BY <1>0, <2>1
  <2>4. current' = 0 /\ Guards(o.of)'
    BY <1>1, <2>1, <2>2, <2>3
  <2> QED BY <2>1, <2>3, <2>4
<1> QED BY <1>2 DEF InitIsGuarded

\* The same for the appends that wait.
LEMMA AppendStays ==
    ASSUME TypeOK, AppendIsUnowned, chain' = chain,
           ~AppendWhileHeld => \A o \in Operation : Queued(o) /\ o.kind = "append" => Unowned',
           \A o \in Operation : Queued(o) /\ o.kind = "commit" /\ current # o.of => current' # o.of
    PROVE  AppendIsUnowned'
<1>1. \A j \in DOMAIN chain : chain[j] \in Operation /\ Queued(chain[j])
  BY DEF TypeOK, Queued
<1>2. \A i \in DOMAIN chain : \A j \in 1..(i - 1) : j \in DOMAIN chain
  BY DEF TypeOK
<1> QED BY <1>1, <1>2 DEF AppendIsUnowned

\* The chain grows by something that is not an append, ...
LEMMA AppendGrows ==
    ASSUME TypeOK, AppendIsUnowned, NEW p \in Operation, chain' = Append(chain, p), p.kind # "append",
           ~AppendWhileHeld => \A o \in Operation : Queued(o) /\ o.kind = "append" => Unowned',
           \A o \in Operation : Queued(o) /\ o.kind = "commit" /\ current # o.of => current' # o.of
    PROVE  AppendIsUnowned'
<1>0. /\ DOMAIN chain = 1..Len(chain) /\ Len(chain) \in Nat
      /\ DOMAIN chain' = DOMAIN chain \cup {Len(chain) + 1}
      /\ \A i \in DOMAIN chain : chain'[i] = chain[i]
      /\ chain'[Len(chain) + 1] = p
  BY Appended DEF TypeOK
<1>1. \A j \in DOMAIN chain : chain[j] \in Operation /\ Queued(chain[j])
  BY DEF TypeOK, Queued
<1>2. \A i \in DOMAIN chain : \A j \in 1..(i - 1) : j \in DOMAIN chain
  BY <1>0
<1> QED BY <1>0, <1>1, <1>2 DEF AppendIsUnowned

\* ... or loses its first operation.
LEMMA AppendPops ==
    ASSUME TypeOK, AppendIsUnowned, chain # <<>>, Finish,
           ~AppendWhileHeld => \A i \in DOMAIN chain : i > 1 /\ chain[i].kind = "append" => Unowned',
           \A o \in Operation : Queued(o) /\ o.kind = "commit" /\ current # o.of => current' # o.of
    PROVE  AppendIsUnowned'
<1>0. /\ Len(chain) \in Nat /\ Len(chain) >= 1
      /\ DOMAIN chain = 1..Len(chain) /\ DOMAIN chain' = 1..(Len(chain) - 1)
      /\ \A i \in DOMAIN chain' : i + 1 \in DOMAIN chain /\ chain'[i] = chain[i + 1]
  BY Tailed DEF TypeOK, Finish
<1> SUFFICES ASSUME ~AppendWhileHeld, NEW i \in DOMAIN chain', chain'[i].kind = "append"
             PROVE  /\ Unowned'
                    /\ \A j \in 1..(i - 1) :
                          /\ chain'[j].kind # "init"
                          /\ chain'[j].kind = "commit" => current' # chain'[j].of
  BY DEF AppendIsUnowned
<1>1. \A j \in DOMAIN chain : chain[j] \in Operation /\ Queued(chain[j])
  BY DEF TypeOK, Queued
<1>2. /\ i + 1 \in DOMAIN chain /\ i + 1 > 1 /\ chain[i + 1].kind = "append"
      /\ \A j \in 1..(i - 1) : /\ j \in DOMAIN chain' /\ j + 1 \in DOMAIN chain
                               /\ j + 1 \in 1..((i + 1) - 1)
  BY <1>0
<1>3. \A j \in 1..(i - 1) :
         /\ chain[j + 1].kind # "init"
         /\ chain[j + 1].kind = "commit" => current # chain[j + 1].of
  BY <1>2 DEF AppendIsUnowned
<1> QED BY <1>0, <1>1, <1>2, <1>3

\* What is left when the operation of an aborted caller is withdrawn.
LEMMA Withdrawn ==
    ASSUME TypeOK, NEW k \in DOMAIN chain, chain' = RemoveAt(chain, k)
    PROVE  /\ chain' \in Seq(Operation) /\ Len(chain) \in Nat /\ k \in 1..Len(chain)
           /\ DOMAIN chain = 1..Len(chain) /\ DOMAIN chain' = 1..(Len(chain) - 1)
           /\ \A i \in DOMAIN chain' : i < k => i \in DOMAIN chain /\ chain'[i] = chain[i]
           /\ \A i \in DOMAIN chain' : i >= k => i + 1 \in DOMAIN chain /\ chain'[i] = chain[i + 1]
<1>1. chain \in Seq(Operation) /\ Len(chain) \in Nat /\ DOMAIN chain = 1..Len(chain)
  BY DEF TypeOK
<1> DEFINE rest == RemoveAt(chain, k)
<1>a. /\ rest \in Seq(Operation) /\ Len(rest) = Len(chain) - 1
      /\ \A j \in 1..(Len(chain) - 1) : rest[j] = IF j < k THEN chain[j] ELSE chain[j + 1]
  BY <1>1, Seqs!RemoveAtFacts DEF RemoveAt, Seqs!RemoveAt
<1>2. /\ chain' \in Seq(Operation) /\ Len(chain') = Len(chain) - 1
      /\ \A j \in 1..(Len(chain) - 1) : chain'[j] = IF j < k THEN chain[j] ELSE chain[j + 1]
  BY <1>a
<1>3. DOMAIN chain' = 1..(Len(chain) - 1)
  BY <1>2
<1> QED BY <1>1, <1>2, <1>3

\* An operation that has not started is withdrawn, ...
LEMMA OpsLose ==
    ASSUME TypeOK, OpsFit, NEW k \in DOMAIN chain, k > 1 \/ stage = "queued",
           chain' = RemoveAt(chain, k), stage' = stage, tracked' = tracked,
           \A o \in Operation : Queued(o) /\ Fits(o) /\ ~Clash(chain[k], o) => Fits(o)'
    PROVE  OpsFit'
<1> USE DEF OpsFit
<1>1. /\ chain' \in Seq(Operation) /\ Len(chain) \in Nat /\ k \in 1..Len(chain)
      /\ DOMAIN chain = 1..Len(chain) /\ DOMAIN chain' = 1..(Len(chain) - 1)
      /\ \A i \in DOMAIN chain' : i < k => i \in DOMAIN chain /\ chain'[i] = chain[i]
      /\ \A i \in DOMAIN chain' : i >= k => i + 1 \in DOMAIN chain /\ chain'[i] = chain[i + 1]
  BY Withdrawn
<1>2. \A o \in Operation : Queued(o)' => Queued(o) /\ ~Clash(chain[k], o)
  <2> SUFFICES ASSUME NEW o \in Operation, Queued(o)'
               PROVE  Queued(o) /\ ~Clash(chain[k], o)
    OBVIOUS
  <2>1. PICK i \in DOMAIN chain' : chain'[i] = o
    BY DEF Queued
  <2>2. PICK j \in DOMAIN chain : j # k /\ chain[j] = o
    BY <1>1, <2>1
  <2> QED BY <2>2 DEF Queued
<1>3. \A o \in Operation : Waits(o)' => Waits(o)
  <2> SUFFICES ASSUME NEW o \in Operation, Waits(o)'
               PROVE  Waits(o)
    OBVIOUS
  <2>1. PICK i \in DOMAIN chain' : chain'[i] = o /\ (i > 1 \/ stage = "queued")
    BY DEF Waits
  <2>2. PICK j \in DOMAIN chain : chain[j] = o /\ (j > 1 \/ stage = "queued")
    BY <1>1, <2>1
  <2> QED BY <2>2 DEF Waits
<1>4. \A i, j \in DOMAIN chain' : i # j => ~Clash(chain'[i], chain'[j])
  <2> SUFFICES ASSUME NEW i \in DOMAIN chain', NEW j \in DOMAIN chain', i # j
               PROVE  ~Clash(chain'[i], chain'[j])
    OBVIOUS
  <2>1. PICK x \in DOMAIN chain : chain'[i] = chain[x] /\ (IF i < k THEN x = i ELSE x = i + 1)
    BY <1>1
  <2>2. PICK y \in DOMAIN chain : chain'[j] = chain[y] /\ (IF j < k THEN y = j ELSE y = j + 1)
    BY <1>1
  <2>3. x # y
    BY <1>1, <2>1, <2>2
  <2> QED BY <2>1, <2>2, <2>3
<1> QED BY <1>2, <1>3, <1>4

\* ... which is no binding, ...
LEMMA GuardLoses ==
    ASSUME TypeOK, InitIsGuarded, NEW k \in DOMAIN chain, chain' = RemoveAt(chain, k),
           chain[k].kind # "init", current = 0 => current' = 0,
           session' = session, retiring' = retiring
    PROVE  InitIsGuarded'
<1>1. /\ Len(chain) \in Nat /\ k \in 1..Len(chain)
      /\ DOMAIN chain = 1..Len(chain) /\ DOMAIN chain' = 1..(Len(chain) - 1)
      /\ \A i \in DOMAIN chain' : i < k => i \in DOMAIN chain /\ chain'[i] = chain[i]
      /\ \A i \in DOMAIN chain' : i >= k => i + 1 \in DOMAIN chain /\ chain'[i] = chain[i + 1]
  BY Withdrawn
<1>2. \A o \in Operation : Guards(o.of)' <=> Guards(o.of)
  BY DEF Guards, Live
<1>3. \A i \in DOMAIN chain' : chain'[i].kind = "init" =>
        /\ current' = 0
        /\ \E j \in DOMAIN chain', o \in Operation :
             j >= i /\ chain'[j] = o /\ o.kind = "init" /\ Guards(o.of)'
  <2> SUFFICES ASSUME NEW i \in DOMAIN chain', chain'[i].kind = "init"
               PROVE  /\ current' = 0
                      /\ \E j \in DOMAIN chain', o \in Operation :
                           j >= i /\ chain'[j] = o /\ o.kind = "init" /\ Guards(o.of)'
    OBVIOUS
  <2>1. PICK x \in DOMAIN chain : chain'[i] = chain[x] /\ (IF i < k THEN x = i ELSE x = i + 1)
    BY <1>1
  <2>2. PICK y \in DOMAIN chain, o \in Operation :
             y >= x /\ chain[y] = o /\ o.kind = "init" /\ Guards(o.of)
    BY <2>1 DEF InitIsGuarded
  <2>3. current = 0
    BY <2>1 DEF InitIsGuarded
  <2>4. PICK j \in DOMAIN chain' : chain'[j] = chain[y] /\ (IF y < k THEN j = y ELSE j = y - 1)
    BY <1>1, <2>2
  <2>5. j >= i
    BY <1>1, <2>1, <2>2, <2>4
  <2> QED BY <1>2, <2>2, <2>3, <2>4, <2>5
<1> QED BY <1>3 DEF InitIsGuarded

\* ... and the appends that wait stay ahead of every binding.
LEMMA AppendLoses ==
    ASSUME TypeOK, AppendIsUnowned, NEW k \in DOMAIN chain, chain' = RemoveAt(chain, k),
           Unowned => Unowned',
           \A o \in Operation : Queued(o) /\ o.kind = "commit" /\ current # o.of => current' # o.of
    PROVE  AppendIsUnowned'
<1>1. /\ Len(chain) \in Nat /\ k \in 1..Len(chain)
      /\ DOMAIN chain = 1..Len(chain) /\ DOMAIN chain' = 1..(Len(chain) - 1)
      /\ \A i \in DOMAIN chain' : i < k => i \in DOMAIN chain /\ chain'[i] = chain[i]
      /\ \A i \in DOMAIN chain' : i >= k => i + 1 \in DOMAIN chain /\ chain'[i] = chain[i + 1]
  BY Withdrawn
<1>2. \A j \in DOMAIN chain : chain[j] \in Operation /\ Queued(chain[j])
  BY DEF TypeOK, Queued
<1>3. ASSUME ~AppendWhileHeld, NEW i \in DOMAIN chain', chain'[i].kind = "append"
      PROVE  /\ Unowned'
             /\ \A j \in 1..(i - 1) : /\ chain'[j].kind # "init"
                                      /\ chain'[j].kind = "commit" => current' # chain'[j].of
  <2>1. PICK x \in DOMAIN chain : chain'[i] = chain[x] /\ (IF i < k THEN x = i ELSE x = i + 1)
    BY <1>1
  <2>2. /\ Unowned
        /\ \A j \in 1..(x - 1) : /\ chain[j].kind # "init"
                                 /\ chain[j].kind = "commit" => current # chain[j].of
    BY <1>3, <2>1 DEF AppendIsUnowned
  <2>3. ASSUME NEW j \in 1..(i - 1)
        PROVE  /\ chain'[j].kind # "init"
               /\ chain'[j].kind = "commit" => current' # chain'[j].of
    <3>1. j \in DOMAIN chain' /\ j < i
      BY <1>1
    <3>2. PICK y \in DOMAIN chain : chain'[j] = chain[y] /\ (IF j < k THEN y = j ELSE y = j + 1)
      BY <1>1, <3>1
    <3>3. y \in 1..(x - 1)
      BY <1>1, <2>1, <3>1, <3>2
    <3> QED BY <1>2, <2>2, <3>2, <3>3
  <2> QED BY <2>2, <2>3
<1> QED BY <1>3 DEF AppendIsUnowned

-----------------------------------------------------------------------------
(* The pool and its callers. *)

\* The entry of the identity is forgotten or made ready again.
LEMMA Dropping ==
    ASSUME TypeOK, NEW e \in Slots \cup {0}, Drop(e)
    PROVE  /\ current' \in Slots \cup {0} /\ entry' \in [Slots -> Entry]
           /\ current' = IF current = e THEN 0 ELSE current
           /\ \A n \in Slots :
                /\ entry'[n].source = entry[n].source /\ entry'[n].result = entry[n].result
                /\ entry'[n].phase = IF current = e /\ n = e THEN "gone" ELSE entry[n].phase
<1>1. 0 \notin Slots /\ current \in Slots \cup {0} /\ entry \in [Slots -> Entry]
  BY DEF TypeOK, Slots
<1>2. CASE e # 0 /\ current = e
  <2>1. current' = 0 /\ entry' = [entry EXCEPT ![e].phase = "gone"] /\ e \in Slots
    BY <1>2 DEF Drop
  <2>2. entry' \in [Slots -> Entry]
    BY <1>1, <2>1 DEF Entry
  <2> QED BY <1>1, <1>2, <2>1, <2>2 DEF Entry
<1>3. CASE ~(e # 0 /\ current = e)
  BY <1>1, <1>3 DEF Drop, pool
<1> QED BY <1>2, <1>3

\* What makeReady does to the pool.
LEMMA MakingReady ==
    ASSUME TypeOK, NEW e \in Slots, MakeReady(e)
    PROVE  /\ current' = current /\ entry' \in [Slots -> Entry]
           /\ \A n \in Slots :
                /\ entry'[n].source = entry[n].source /\ entry'[n].result = entry[n].result
                /\ entry'[n].phase = IF current = e /\ n = e THEN "ready" ELSE entry[n].phase
<1>1. 0 \notin Slots /\ current \in Slots \cup {0} /\ entry \in [Slots -> Entry]
  BY DEF TypeOK, Slots
<1>2. CASE current = e
  <2>1. current' = current /\ entry' = [entry EXCEPT ![e].phase = "ready"]
    BY <1>2 DEF MakeReady
  <2>2. entry' \in [Slots -> Entry]
    BY <1>1, <2>1 DEF Entry
  <2> QED BY <1>1, <1>2, <2>1, <2>2 DEF Entry
<1>3. CASE current # e
  BY <1>1, <1>3 DEF MakeReady, pool
<1> QED BY <1>2, <1>3

\* A caller keeps its entry and gets no further than a claim, or it goes away.
Stays(c) == /\ caller'[c].on = caller[c].on
            /\ \/ caller'[c].pc = caller[c].pc
               \/ caller[c].pc = "wait" /\ caller'[c].pc = "claim"
Leaves(c) == caller'[c].pc \in {"idle", "start"} /\ caller'[c].on = 0

\* Settling the waiters of an entry, ...
LEMMA Releasing ==
    ASSUME TypeOK, NEW e
    PROVE  /\ Released(e) \in [Callers -> Caller]
           /\ \A c \in Callers :
                /\ Released(e)[c].on = caller[c].on /\ Released(e)[c].kind = caller[c].kind
                /\ \/ Released(e)[c].pc = caller[c].pc
                   \/ caller[c].pc = "wait" /\ Released(e)[c].pc = "claim"
<1>1. caller \in [Callers -> Caller]
  BY DEF TypeOK
<1>2. \A c \in Callers : [caller[c] EXCEPT !.pc = "claim"] \in Caller
  BY <1>1 DEF Caller
<1>3. CASE e # 0 /\ current = e
  <2>1. Released(e) = [c \in Callers |->
            IF caller[c].pc = "wait" /\ caller[c].on = e
            THEN [caller[c] EXCEPT !.pc = "claim"] ELSE caller[c]]
    BY <1>3 DEF Released, Woken
  <2>2. Released(e) \in [Callers -> Caller]
    BY <1>1, <1>2, <2>1
  <2> QED BY <1>1, <2>1, <2>2 DEF Caller
<1>4. CASE ~(e # 0 /\ current = e)
  BY <1>1, <1>4 DEF Released
<1> QED BY <1>3, <1>4

\* ... and one of the callers is answered or starts again.
LEMMA Leaving ==
    ASSUME TypeOK, NEW cs \in [Callers -> Caller], NEW c \in Callers,
           caller' = Done(cs, c) \/ caller' = Again(cs, c),
           \A d \in Callers : /\ cs[d].on = caller[d].on
                              /\ \/ cs[d].pc = caller[d].pc
                                 \/ caller[d].pc = "wait" /\ cs[d].pc = "claim"
    PROVE  /\ caller' \in [Callers -> Caller] /\ Leaves(c)
           /\ \A d \in Callers \ {c} : Stays(d)
<1>1. CASE caller' = Done(cs, c)
  <2>1. caller' = [cs EXCEPT ![c] = Idle] /\ Idle \in Caller
    BY <1>1 DEF Done, Idle, Caller, Kinds
  <2>2. /\ caller' \in [Callers -> Caller] /\ caller'[c] = Idle
        /\ \A d \in Callers \ {c} : caller'[d] = cs[d]
    BY <2>1
  <2> QED BY <2>2 DEF Stays, Leaves, Idle
<1>2. CASE caller' = Again(cs, c)
  <2>1. caller' = [cs EXCEPT ![c] = [cs[c] EXCEPT !.pc = "start", !.on = 0]]
    BY <1>2 DEF Again
  <2> DEFINE x == [cs[c] EXCEPT !.pc = "start", !.on = 0]
  <2>2. x \in Caller /\ x.pc = "start" /\ x.on = 0
    <3>1. cs[c] \in Caller
      OBVIOUS
    <3> QED BY <3>1 DEF Caller
  <2> HIDE DEF x
  <2>3. /\ caller' \in [Callers -> Caller] /\ caller'[c] = x
        /\ \A d \in Callers \ {c} : caller'[d] = cs[d]
    BY <2>1, <2>2 DEF x
  <2> QED BY <2>2, <2>3 DEF Stays, Leaves
<1> QED BY <1>1, <1>2

\* The callers but those of a set stay or go away, and nobody else takes an entry.
LEMMA CallersKept ==
    ASSUME TypeOK, TypeOK', CallersFit, NEW C \in SUBSET Callers, \A c, d \in C : c = d,
           current' # 0 => entry'[current'].phase # "gone" /\ session'[current'].where = "none",
           \A n \in Slots : entry[n].result = "ok" => entry'[n].result = "ok",
           \A d \in Callers \ C : Stays(d) \/ Leaves(d),
           \A d \in Callers \ C : Stays(d) /\ caller[d].pc \in Past =>
             /\ session'[caller[d].on].where = "none"
             /\ \/ entry'[caller[d].on].phase = entry[caller[d].on].phase
                \/ entry'[caller[d].on].phase = "gone" /\ caller[d].pc # "held",
           \A c \in C :
             /\ CallerFits(c)'
             /\ caller'[c].pc \in Past =>
                  /\ caller'[c].on = caller[c].on
                  /\ caller[c].pc \in Past \/ entry[caller[c].on].phase = "ready"
    PROVE  CallersFit'
<1>1. \A c \in Callers : CallerFits(c) /\ caller[c] \in Caller /\ caller'[c] \in Caller
  BY DEF CallersFit, TypeOK
<1>2. \A c \in Callers : caller[c].on \in Slots \cup {0} /\ caller'[c].on \in Slots \cup {0}
  BY <1>1 DEF Caller
<1>3. ASSUME NEW c \in Callers \ C
      PROVE  CallerFits(c)'
  <2>1. CASE Leaves(c)
    BY <2>1 DEF Leaves, CallerFits, Wanting, Past
  <2>2. CASE Stays(c)
    BY <1>1, <1>2, <2>2 DEF Stays, CallerFits, Wanting, Past
  <2> QED BY <2>1, <2>2
<1>4. ASSUME NEW c \in Callers, caller'[c].pc \in Past
      PROVE  /\ caller'[c].on = caller[c].on
             /\ caller[c].pc \in Past \/ (c \in C /\ entry[caller[c].on].phase = "ready")
  <2>1. CASE c \in C
    BY <1>4, <2>1
  <2>2. CASE c \notin C
    BY <1>4, <2>2 DEF Stays, Leaves, Past
  <2> QED BY <2>1, <2>2
<1>5. \A c \in Callers : caller[c].pc \in Past => entry[caller[c].on].phase # "ready"
  BY <1>1 DEF CallerFits
<1>6. \A c, d \in Callers : caller'[c].pc \in Past /\ caller'[d].pc \in Past /\ c # d
                            => caller'[c].on # caller'[d].on
  BY <1>4, <1>5 DEF CallersFit
<1> QED BY <1>3, <1>6 DEF CallersFit

\* Whoever stays holds no more than before.
LEMMA HoldsStay ==
    ASSUME TypeOK, CallersFit, NEW d \in Callers, Stays(d) \/ Leaves(d), Holds(d)',
           caller[d].pc # "held" => current' \in {current, 0}
    PROVE  Holds(d) /\ caller'[d].pc = caller[d].pc /\ caller'[d].on = caller[d].on
<1>1. CallerFits(d) /\ caller[d] \in Caller
  BY DEF CallersFit, TypeOK
<1>2. Stays(d)
  BY DEF Leaves, Holds
<1> QED BY <1>1, <1>2 DEF Stays, Holds, CallerFits

\* While somebody holds the identity, nothing that the holder relies on changes.
LEMMA HoldersKept ==
    ASSUME TypeOK, CallersFit, HoldersFit,
           \A d \in Callers : Holds(d)' =>
             /\ Holds(d) /\ caller'[d].on = caller[d].on /\ current' = current
             /\ stage' = "queued" /\ tracked' = tracked /\ revision' = revision
             /\ \A n \in Slots : entry'[n].source = entry[n].source
    PROVE  HoldersFit'
<1>1. current \in Slots \cup {0}
  BY DEF TypeOK
<1>2. ASSUME NEW d \in Callers, Holds(d)'
      PROVE  /\ current' = caller'[d].on /\ stage' = "queued"
             /\ tracked'.known /\ tracked'.materialized /\ tracked'.owner = 0
             /\ entry'[current'].source.revision = revision'
  <2>1. /\ current = caller[d].on /\ tracked.known /\ tracked.materialized /\ tracked.owner = 0
        /\ entry[current].source.revision = revision
    BY <1>2 DEF HoldersFit
  <2>2. current # 0
    BY <1>2, <2>1 DEF CallersFit, CallerFits, Holds
  <2> QED BY <1>1, <1>2, <2>1, <2>2
<1> QED BY <1>2 DEF HoldersFit

\* A caller or an entry moves on and keeps the rest.
Phases == {"loading", "ready", "committing", "reserved", "gone"}
Places == {"idle", "start", "await", "claim", "wait", "commit", "committed", "stale",
           "failed", "held", "checking", "fresh", "outdated"}

\* A caller goes on to another place and keeps its entry.
LEMMA CallerMoves ==
    ASSUME TypeOK, NEW c \in Callers, NEW pc \in Places, caller' = [caller EXCEPT ![c].pc = pc]
    PROVE  /\ caller' \in [Callers -> Caller]
           /\ caller'[c].pc = pc /\ caller'[c].on = caller[c].on
           /\ \A d \in Callers \ {c} : caller'[d] = caller[d] /\ Stays(d)
<1> DEFINE x == [caller[c] EXCEPT !.pc = pc]
<1>1. caller \in [Callers -> Caller] /\ caller[c] \in Caller
  BY DEF TypeOK
<1>2. x \in Caller /\ x.pc = pc /\ x.on = caller[c].on
  BY <1>1 DEF Caller, Places
<1>3. caller' = [caller EXCEPT ![c] = x]
  OBVIOUS
<1> HIDE DEF x
<1>4. /\ caller' \in [Callers -> Caller] /\ caller'[c] = x
      /\ \A d \in Callers \ {c} : caller'[d] = caller[d]
  BY <1>1, <1>2, <1>3
<1> QED BY <1>2, <1>4 DEF Stays

\* An entry goes on to another phase and keeps its source.
LEMMA EntryMoves ==
    ASSUME TypeOK, NEW n \in Slots, NEW phase \in Phases, entry' = [entry EXCEPT ![n].phase = phase]
    PROVE  /\ entry' \in [Slots -> Entry] /\ entry'[n].phase = phase
           /\ \A e \in Slots : /\ entry'[e].source = entry[e].source
                               /\ entry'[e].result = entry[e].result
                               /\ e # n => entry'[e].phase = entry[e].phase
<1> DEFINE x == [entry[n] EXCEPT !.phase = phase]
<1>1. entry \in [Slots -> Entry] /\ entry[n] \in Entry
  BY DEF TypeOK
<1>2. x \in Entry /\ x.phase = phase /\ x.source = entry[n].source /\ x.result = entry[n].result
  BY <1>1 DEF Entry, Phases
<1>3. entry' = [entry EXCEPT ![n] = x]
  OBVIOUS
<1> HIDE DEF x
<1>4. /\ entry' \in [Slots -> Entry] /\ entry'[n] = x
      /\ \A e \in Slots \ {n} : entry'[e] = entry[e]
  BY <1>1, <1>2, <1>3
<1> QED BY <1>2, <1>4

\* The parts that neither the phases of the pool nor the callers can disturb.
LEMMA PoolKept ==
    ASSUME TypeOK, SourcesAreRead, CursorIsEnd, OneLive, ReadyFits, PreparedExtends, LogIsOwned,
           UNCHANGED <<store, tracked, session>>,
           \A n \in Slots : entry'[n].source = entry[n].source /\ entry'[n].result = entry[n].result
    PROVE  /\ SourcesAreRead' /\ CursorIsEnd' /\ OneLive' /\ ReadyFits' /\ PreparedExtends'
           /\ LogIsOwned'
<1>0. /\ log' = log /\ revision' = revision /\ tracked' = tracked /\ session' = session
  BY DEF store
<1>1. SourcesAreRead'
  BY <1>0 DEF SourcesAreRead
<1>2. CursorIsEnd'
  BY <1>0 DEF CursorIsEnd, Interrupted
<1>3. OneLive' /\ ReadyFits' /\ LogIsOwned'
  BY <1>0 DEF OneLive, Live, ReadyFits, LogIsOwned
<1>4. PreparedExtends'
  BY <1>0 DEF PreparedExtends
<1> QED BY <1>1, <1>2, <1>3, <1>4

\* How a step of caller c changes the chain: not at all, unless c has nothing
\* queued; or its operation is queued, ends, or is withdrawn before it started.
Queues(c) ==
    /\ caller[c].pc \notin {"commit", "checking"} /\ UNCHANGED <<stage, writing>>
    /\ \E p \in Operation : /\ p.kind \in OfCaller /\ p.arg = c /\ Fits(p)'
                            /\ chain' = Append(chain, p)
Ends(c) == chain # <<>> /\ Head1.kind \in OfCaller /\ Head1.arg = c /\ Finish
Withdraws(c) ==
    /\ UNCHANGED <<stage, writing>>
    /\ \E k \in DOMAIN chain : /\ k > 1 \/ stage = "queued"
                               /\ chain[k].kind \in OfCaller /\ chain[k].arg = c
                               /\ chain' = RemoveAt(chain, k)
ChainOf(c) ==
    \/ UNCHANGED work /\ (Stays(c) \/ caller[c].pc \notin {"commit", "checking"})
    \/ Queues(c) \/ Ends(c) \/ Withdraws(c)

\* What is queued and stays queued finds its entry and its caller as before.
LEMMA FitsForCallers ==
    ASSUME TypeOK, NEW c \in Callers, UNCHANGED <<tracked, session>>,
           \A n \in Slots : entry'[n].source = entry[n].source /\ entry'[n].result = entry[n].result,
           \A d \in Callers \ {c} : Stays(d),
           NEW o \in Operation, Fits(o), o.kind \in OfCaller => o.arg # c \/ Stays(c)
    PROVE  Fits(o)'
<1>0. tracked' = tracked /\ session' = session
  OBVIOUS
<1>1. CASE o.kind \in OfCaller
  <2>1. o.arg \in Callers /\ Stays(o.arg)
    BY <1>1 DEF Operation, OfCaller
  <2>2. /\ caller[o.arg].on = o.of
        /\ caller[o.arg].pc = IF o.kind = "commit" THEN "commit" ELSE "checking"
    BY <1>1 DEF Fits
  <2>3. caller'[o.arg].on = caller[o.arg].on /\ caller'[o.arg].pc = caller[o.arg].pc
    BY <2>1, <2>2 DEF Stays
  <2> QED BY <1>1, <2>2, <2>3 DEF Fits, OfCaller, Writer
<1>2. CASE o.kind \in {"load", "suffix"}
  <2>1. o.of \in Slots
    BY <1>2 DEF Operation
  <2>2. entry'[o.of].source = entry[o.of].source /\ entry'[o.of].result = entry[o.of].result
    BY <2>1
  <2> QED BY <1>0, <1>2, <2>2 DEF Fits, OfCaller, Writer
<1>3. CASE o.kind \notin OfCaller \cup {"load", "suffix"}
  BY <1>0, <1>3 DEF Fits, OfCaller, Writer
<1> QED BY <1>1, <1>2, <1>3

\* A step of a caller that changes nothing but the pool and the chain, or that
\* repairs the log while nobody holds the identity.
LEMMA CallerStep ==
    ASSUME IInv, TypeOK', NEW c \in Callers, UNCHANGED <<tracked, session, retiring>>,
           \/ UNCHANGED store
           \/ /\ SourcesAreRead' /\ CursorIsEnd' /\ LogIsOwned'
              /\ \A d \in Callers : ~Holds(d),
           current' \in {current, 0}, current' # 0 => entry'[current'].phase # "gone",
           \A n \in Slots : entry'[n].source = entry[n].source /\ entry'[n].result = entry[n].result,
           \A d \in Callers \ {c} :
             /\ Stays(d)
             /\ caller[d].pc \in Past =>
                  \/ entry'[caller[d].on].phase = entry[caller[d].on].phase
                  \/ entry'[caller[d].on].phase = "gone" /\ caller[d].pc # "held"
             /\ caller[d].pc = "held" => current' = current,
           CallerFits(c)',
           caller'[c].pc \in Past =>
             /\ caller'[c].on = caller[c].on
             /\ caller[c].pc \in Past \/ entry[caller[c].on].phase = "ready",
           Holds(c)' => Holds(c) /\ current' = current,
           ChainOf(c)
    PROVE  IInv'
<1> USE DEF IInv
<1>0. tracked' = tracked /\ session' = session /\ retiring' = retiring
  OBVIOUS
<1>1. /\ SourcesAreRead' /\ CursorIsEnd' /\ OneLive' /\ ReadyFits' /\ PreparedExtends'
      /\ LogIsOwned'
  <2>1. OneLive' /\ ReadyFits' /\ PreparedExtends'
    BY <1>0 DEF OneLive, Live, ReadyFits, PreparedExtends
  <2>2. CASE UNCHANGED store
    BY <2>2, PoolKept
  <2> QED BY <2>1, <2>2
<1>2. CallersFit'
  <2>1. {c} \in SUBSET Callers /\ \A d, e \in {c} : d = e
    OBVIOUS
  <2>2. \A d \in Callers \ {c} : Stays(d) /\ caller[d].pc \in Past
                                  => session'[caller[d].on].where = "none"
    BY <1>0 DEF CallersFit, CallerFits
  <2>3. current' # 0 => session'[current'].where = "none"
    BY <1>0 DEF CallersFit
  <2> QED BY <2>1, <2>2, <2>3, CallersKept
<1>3. \A d \in Callers : Holds(d)' => /\ Holds(d) /\ current' = current
                                      /\ caller'[d].on = caller[d].on /\ revision' = revision
  <2> SUFFICES ASSUME NEW d \in Callers, Holds(d)'
               PROVE  /\ Holds(d) /\ current' = current /\ caller'[d].on = caller[d].on
                      /\ revision' = revision
    OBVIOUS
  <2>0. Holds(d) => revision' = revision
    BY DEF store
  <2>1. CASE d = c
    BY <2>0, <2>1 DEF Holds, Past
  <2>2. CASE d # c
    <3>1. Holds(d) /\ caller'[d].pc = caller[d].pc /\ caller'[d].on = caller[d].on
      BY <2>2, HoldsStay
    <3>2. caller[d].on # 0 /\ (caller[d].pc # "held" => current = caller[d].on /\ current' = caller[d].on)
      BY <3>1 DEF CallersFit, CallerFits, Holds
    <3> QED BY <2>0, <2>2, <3>1, <3>2
  <2> QED BY <2>1, <2>2
<1>4. Unowned => Unowned'
  BY <1>0, <1>3 DEF Unowned
<1>5. \A o \in Operation : Queued(o) /\ o.kind = "commit" /\ current # o.of => current' # o.of
  BY DEF Operation, Slots
<1>6. \A o \in Operation : Guards(o.of) => Guards(o.of)'
  BY <1>0 DEF Guards, Live
<1>7. current = 0 => current' = 0
  OBVIOUS
<1>8. \A o \in Operation : Queued(o) /\ o.kind = "append" /\ ~AppendWhileHeld => Unowned
  BY DEF AppendIsUnowned, Queued
<1>9. \A o \in Operation : Queued(o) => Fits(o)
  BY DEF OpsFit
<1>10. CASE UNCHANGED work /\ (Stays(c) \/ caller[c].pc \notin {"commit", "checking"})
  <2>0. chain' = chain /\ stage' = stage /\ writing' = writing
    BY <1>10 DEF work
  <2>1. \A o \in Operation : Queued(o) /\ Fits(o) => Fits(o)'
    BY <1>10, FitsForCallers DEF Fits
  <2>2. OpsFit'
    BY <1>0, <2>0, <2>1, OpsStay
  <2>3. InitIsGuarded'
    BY <1>6, <1>7, <2>0, GuardStays
  <2>4. AppendIsUnowned'
    BY <1>4, <1>5, <1>8, <2>0, AppendStays
  <2>5. StageFits'
    BY <1>0, <2>0 DEF StageFits, Head1
  <2>6. HoldersFit'
    BY <1>0, <1>3, <2>0, HoldersKept DEF HoldersFit
  <2> QED BY <1>1, <1>2, <2>2, <2>3, <2>4, <2>5, <2>6
<1>11. CASE Queues(c)
  <2>0. /\ caller[c].pc \notin {"commit", "checking"}
        /\ stage' = stage /\ writing' = writing
    BY <1>11 DEF Queues
  <2>1. PICK p \in Operation : /\ p.kind \in OfCaller /\ p.arg = c /\ Fits(p)'
                               /\ chain' = Append(chain, p)
    BY <1>11 DEF Queues
  <2>2. \A o \in Operation : Queued(o) => ~Clash(o, p) /\ Fits(o)'
    <3> SUFFICES ASSUME NEW o \in Operation, Queued(o)
                 PROVE  ~Clash(o, p) /\ Fits(o)'
      OBVIOUS
    <3>1. o.kind \in OfCaller => o.arg # c
      BY <1>9, <2>0 DEF Fits
    <3>2. ~Clash(o, p)
      BY <2>1, <3>1 DEF Clash, OfCaller, OfSlot, Writer
    <3> QED BY <1>9, <3>1, <3>2, FitsForCallers
  <2>3. p.kind \notin {"init", "append"}
    BY <2>1 DEF OfCaller
  <2>4. OpsFit'
    BY <1>0, <2>0, <2>1, <2>2, <2>3, OpsGrow
  <2>5. InitIsGuarded'
    BY <1>6, <1>7, <2>1, <2>3, GuardGrows
  <2>6. AppendIsUnowned'
    BY <1>4, <1>5, <1>8, <2>1, <2>3, AppendGrows
  <2>7. StageFits'
    <3>1. CASE chain = <<>>
      BY <2>0, <3>1 DEF StageFits
    <3>2. CASE chain # <<>>
      <4>1. chain' # <<>> /\ Head1' = Head1
        BY <2>1, <3>2, Appended DEF TypeOK, Head1
      <4> QED BY <1>0, <2>0, <3>2, <4>1 DEF StageFits
    <3> QED BY <3>1, <3>2
  <2>8. HoldersFit'
    BY <1>0, <1>3, <2>0, HoldersKept DEF HoldersFit
  <2> QED BY <1>1, <1>2, <2>4, <2>5, <2>6, <2>7, <2>8
<1>12. CASE Ends(c)
  <2>0. /\ chain # <<>> /\ Head1.kind \in OfCaller /\ Head1.arg = c /\ Finish
        /\ stage' = "queued"
    BY <1>12 DEF Ends, Finish
  <2>1. \A o \in Operation : Queued(o) /\ Fits(o) /\ ~Clash(Head1, o) => Fits(o)'
    <3> SUFFICES ASSUME NEW o \in Operation, Queued(o), ~Clash(Head1, o)
                 PROVE  Fits(o)'
      OBVIOUS
    <3>1. o.kind \in OfCaller => o.arg # c
      BY <2>0 DEF Clash
    <3> QED BY <1>9, <3>1, FitsForCallers
  <2>2. OpsFit'
    BY <1>0, <2>0, <2>1, OpsPop
  <2>3. InitIsGuarded'
    BY <1>6, <1>7, <2>0, GuardPops
  <2>4. AppendIsUnowned'
    <3>1. ~AppendWhileHeld => \A i \in DOMAIN chain : i > 1 /\ chain[i].kind = "append" => Unowned'
      BY <1>4 DEF AppendIsUnowned
    <3> QED BY <1>5, <2>0, <3>1, AppendPops
  <2>5. StageFits'
    BY <2>0 DEF StageFits
  <2>6. HoldersFit'
    BY <1>0, <1>3, <2>0, HoldersKept DEF HoldersFit
  <2> QED BY <1>1, <1>2, <2>2, <2>3, <2>4, <2>5, <2>6
<1>13. CASE Withdraws(c)
  <2>0. stage' = stage /\ writing' = writing
    BY <1>13 DEF Withdraws
  <2>1. PICK k \in DOMAIN chain : /\ k > 1 \/ stage = "queued"
                                  /\ chain[k].kind \in OfCaller /\ chain[k].arg = c
                                  /\ chain' = RemoveAt(chain, k)
    BY <1>13 DEF Withdraws
  <2>2. \A o \in Operation : Queued(o) /\ Fits(o) /\ ~Clash(chain[k], o) => Fits(o)'
    <3> SUFFICES ASSUME NEW o \in Operation, Queued(o), ~Clash(chain[k], o)
                 PROVE  Fits(o)'
      OBVIOUS
    <3>1. o.kind \in OfCaller => o.arg # c
      BY <2>1 DEF Clash
    <3> QED BY <1>9, <3>1, FitsForCallers
  <2>3. OpsFit'
    BY <1>0, <2>0, <2>1, <2>2, OpsLose
  <2>4. InitIsGuarded'
    BY <1>0, <1>7, <2>1, GuardLoses DEF OfCaller
  <2>5. AppendIsUnowned'
    BY <1>4, <1>5, <2>1, AppendLoses
  <2>6. StageFits'
    <3>1. CASE stage = "queued"
      BY <2>0, <3>1 DEF StageFits
    <3>2. CASE stage # "queued"
      <4>1. /\ k > 1 /\ Len(chain) \in Nat /\ k \in 1..Len(chain)
            /\ DOMAIN chain' = 1..(Len(chain) - 1)
            /\ \A i \in DOMAIN chain' : i < k => chain'[i] = chain[i]
        BY <2>1, <3>2, Withdrawn
      <4>2. 1 \in DOMAIN chain' /\ chain'[1] = chain[1]
        BY <4>1
      <4>3. chain' # <<>> /\ Head1' = Head1
        BY <4>2 DEF Head1
      <4> QED BY <1>0, <2>0, <4>3 DEF StageFits
    <3> QED BY <3>1, <3>2
  <2>7. HoldersFit'
    BY <1>0, <1>3, <2>0, HoldersKept DEF HoldersFit
  <2> QED BY <1>1, <1>2, <2>3, <2>4, <2>5, <2>6, <2>7
<1> QED BY <1>10, <1>11, <1>12, <1>13 DEF ChainOf

-----------------------------------------------------------------------------
(* The steps of the callers. *)

\* A caller calls prepare, load or inspect.
LEMMA CallInv ==
    ASSUME IInv, NEW c \in Callers, NEW kind \in Kinds, Call(c, kind)
    PROVE  IInv'
<1> USE DEF Call
<1>1. caller \in [Callers -> Caller] /\ calls \in Nat /\ CallerFits(c)
  BY DEF IInv, TypeOK, CallersFit
<1> DEFINE x == [caller[c] EXCEPT !.pc = "start", !.kind = kind]
<1>2. x \in Caller /\ x.pc = "start" /\ x.on = 0
  <2>1. caller[c] \in Caller /\ caller[c].on = 0
    BY <1>1 DEF CallerFits
  <2> QED BY <2>1 DEF Caller
<1>3. caller' = [caller EXCEPT ![c] = x]
  OBVIOUS
<1> HIDE DEF x
<1>4. /\ caller' \in [Callers -> Caller] /\ caller'[c] = x
      /\ \A d \in Callers \ {c} : caller'[d] = caller[d]
  BY <1>1, <1>2, <1>3
<1>5. current' = current /\ entry' = entry
  BY DEF pool
<1>6. TypeOK'
  BY <1>1, <1>4, <1>5 DEF IInv, TypeOK, store, work
<1>7. CallerFits(c)' /\ caller'[c].pc \notin Past /\ ~Holds(c)'
  BY <1>2, <1>4 DEF CallerFits, Wanting, Past, Holds
<1>8. ChainOf(c)
  BY DEF ChainOf
<1>9. current # 0 => entry[current].phase # "gone"
  BY DEF IInv, CallersFit
<1> QED BY <1>4, <1>5, <1>6, <1>7, <1>8, <1>9, CallerStep DEF Stays

\* A caller that is answered at once, or that joins the pool's entry.
LEMMA BeginJoins ==
    ASSUME IInv, NEW c \in Callers, caller[c].pc = "start",
           UNCHANGED <<store, pool, tracked, session, retiring, work, budget>>,
           \/ caller' = Done(caller, c)
           \/ /\ current # 0
              /\ caller' = [caller EXCEPT ![c].pc = "await", ![c].on = current]
    PROVE  IInv'
<1>1. /\ caller \in [Callers -> Caller] /\ CallerFits(c) /\ current \in Slots \cup {0}
      /\ current' = current /\ entry' = entry /\ TypeOK
  BY DEF IInv, TypeOK, CallersFit, pool
<1>2. /\ caller' \in [Callers -> Caller] /\ \A d \in Callers \ {c} : Stays(d)
      /\ CallerFits(c)' /\ caller'[c].pc \notin Past /\ ~Holds(c)'
  <2>1. CASE caller' = Done(caller, c)
    <3>1. /\ caller' \in [Callers -> Caller] /\ Leaves(c)
          /\ \A d \in Callers \ {c} : Stays(d)
      BY <1>1, <2>1, Leaving
    <3> QED BY <3>1 DEF Leaves, CallerFits, Wanting, Past, Holds
  <2>2. CASE caller' = [caller EXCEPT ![c].pc = "await", ![c].on = current] /\ current # 0
    <3> DEFINE x == [caller[c] EXCEPT !.pc = "await", !.on = current]
    <3>1. x \in Caller /\ x.pc = "await" /\ x.on = current
      <4>1. caller[c] \in Caller
        BY <1>1
      <4> QED BY <1>1, <4>1 DEF Caller
    <3>2. caller' = [caller EXCEPT ![c] = x]
      BY <2>2
    <3> HIDE DEF x
    <3>3. /\ caller' \in [Callers -> Caller] /\ caller'[c] = x
          /\ \A d \in Callers \ {c} : caller'[d] = caller[d]
      BY <1>1, <3>1, <3>2
    <3> QED BY <2>2, <3>1, <3>3 DEF Stays, CallerFits, Wanting, Past, Holds
  <2> QED BY <2>1, <2>2
<1>3. TypeOK'
  BY <1>1, <1>2 DEF TypeOK, store, work, budget
<1>4. ChainOf(c)
  BY DEF ChainOf
<1>5. current # 0 => entry[current].phase # "gone"
  BY DEF IInv, CallersFit
<1> QED BY <1>1, <1>2, <1>3, <1>4, <1>5, CallerStep

\* The shared read settled for an observer.
LEMMA ReadSettlesInv ==
    ASSUME IInv, NEW c \in Callers, ReadSettles(c)
    PROVE  IInv'
<1>1. /\ caller \in [Callers -> Caller] /\ CallerFits(c) /\ TypeOK
      /\ current' = current /\ entry' = entry /\ chain \in Seq(Operation)
      /\ UNCHANGED <<store, tracked, session, retiring>> /\ caller[c].pc = "await"
      /\ UNCHANGED <<stage, writing, budget>>
  BY DEF IInv, TypeOK, CallersFit, pool, ReadSettles
<1>2. /\ caller' \in [Callers -> Caller] /\ \A d \in Callers \ {c} : Stays(d)
      /\ CallerFits(c)' /\ caller'[c].pc \notin Past /\ ~Holds(c)'
      /\ chain' \in Seq(Operation) /\ ChainOf(c)
  <2>1. CASE caller' = Done(caller, c) /\ UNCHANGED chain
    <3>1. /\ caller' \in [Callers -> Caller] /\ Leaves(c)
          /\ \A d \in Callers \ {c} : Stays(d)
      BY <1>1, <2>1, Leaving
    <3>2. ChainOf(c)
      BY <1>1, <2>1 DEF ChainOf, work
    <3> QED BY <1>1, <2>1, <3>1, <3>2 DEF Leaves, CallerFits, Wanting, Past, Holds
  <2>2. CASE /\ entry[caller[c].on].result = "ok"
             /\ caller' = [caller EXCEPT ![c].pc = "checking"]
             /\ chain' = Append(chain, Op("check", caller[c].on, c))
    <3>1. caller[c].on \in Slots /\ 0 \notin Slots
      BY <1>1 DEF CallerFits, Caller, Slots
    <3>3. /\ caller' \in [Callers -> Caller]
          /\ caller'[c].pc = "checking" /\ caller'[c].on = caller[c].on
          /\ \A d \in Callers \ {c} : caller'[d] = caller[d] /\ Stays(d)
      BY <1>1, <2>2, CallerMoves DEF Places
    <3>b. Op("check", caller[c].on, c) \in Operation
      BY <3>1 DEF Op, Operation
    <3>4. PICK p \in Operation : /\ p = Op("check", caller[c].on, c)
                                /\ p.kind = "check" /\ p.of = caller[c].on /\ p.arg = c
      BY <3>b DEF Op
    <3>5. chain' = Append(chain, p) /\ chain' \in Seq(Operation)
      BY <1>1, <2>2, <3>4, Appended
    <3>6. Fits(p)'
      BY <3>1, <3>3, <3>4 DEF Fits, OfCaller, Writer
    <3>7. ChainOf(c)
      BY <1>1, <3>4, <3>5, <3>6 DEF ChainOf, Queues, OfCaller
    <3> QED BY <1>1, <2>2, <3>1, <3>3, <3>5, <3>7 DEF Stays, CallerFits, Wanting, Past, Holds
  <2> QED BY <2>1, <2>2 DEF ReadSettles
<1>3. TypeOK'
  BY <1>1, <1>2 DEF TypeOK, store, budget
<1>5. current # 0 => entry[current].phase # "gone"
  BY DEF IInv, CallersFit
<1> QED BY <1>1, <1>2, <1>3, <1>5, CallerStep

\* A caller claims a ready entry, waits for it or starts over.
LEMMA ClaimInv ==
    ASSUME IInv, NEW c \in Callers, Claim(c)
    PROVE  IInv'
<1> DEFINE n == caller[c].on
<1>0. /\ caller \in [Callers -> Caller] /\ entry \in [Slots -> Entry] /\ CallerFits(c) /\ TypeOK
      /\ current \in Slots \cup {0} /\ chain \in Seq(Operation) /\ 0 \notin Slots
      /\ \A d \in Callers : CallerFits(d)
      /\ \A d \in Callers : caller[d].pc = "held" => current = caller[d].on
      /\ UNCHANGED <<store, tracked, session, retiring, stage, writing, budget>>
      /\ caller[c].pc \in {"claim", "await"}
  BY DEF IInv, TypeOK, CallersFit, HoldersFit, Holds, Slots, Claim
<1>1. n \in Slots /\ entry[n].result = "ok"
  BY <1>0 DEF Caller, CallerFits, Wanting, Claim
<1>2. /\ caller' \in [Callers -> Caller] /\ \A d \in Callers \ {c} : Stays(d)
      /\ CallerFits(c)' /\ caller'[c].pc \notin Past \ {"commit"} /\ ~Holds(c)'
      /\ caller'[c].pc \in Past => caller'[c].on = n /\ entry[n].phase = "ready"
      /\ chain' \in Seq(Operation) /\ ChainOf(c)
      /\ entry' \in [Slots -> Entry] /\ current' = current
      /\ \A e \in Slots : entry'[e].source = entry[e].source /\ entry'[e].result = entry[e].result
      /\ \A e \in Slots : /\ entry[e].phase # "ready" => entry'[e].phase = entry[e].phase
                          /\ entry[e].phase = "ready" => entry'[e].phase \in {"ready", "committing"}
  <2>1. CASE caller' = Again(caller, c) /\ UNCHANGED <<pool, chain>>
    <3>1. /\ caller' \in [Callers -> Caller] /\ Leaves(c)
          /\ \A d \in Callers \ {c} : Stays(d)
      BY <1>0, <2>1, Leaving
    <3>2. ChainOf(c)
      BY <1>0, <2>1 DEF ChainOf, work
    <3> QED BY <1>0, <2>1, <3>1, <3>2 DEF Leaves, CallerFits, Wanting, Past, Holds, pool
  <2>2. CASE /\ current = n /\ entry[n].phase = "ready"
             /\ entry' = [entry EXCEPT ![n].phase = "committing"]
             /\ caller' = [caller EXCEPT ![c].pc = "commit"]
             /\ chain' = Append(chain, Op("commit", n, c))
             /\ UNCHANGED current
    <3>2. /\ caller' \in [Callers -> Caller] /\ caller'[c].pc = "commit" /\ caller'[c].on = n
          /\ \A d \in Callers \ {c} : caller'[d] = caller[d] /\ Stays(d)
      BY <1>0, <2>2, CallerMoves DEF Places
    <3>4. /\ entry' \in [Slots -> Entry] /\ entry'[n].phase = "committing"
          /\ \A e \in Slots : /\ entry'[e].source = entry[e].source
                              /\ entry'[e].result = entry[e].result
                              /\ e # n => entry'[e].phase = entry[e].phase
      BY <1>0, <1>1, <2>2, EntryMoves DEF Phases
    <3>5. Op("commit", n, c) \in Operation
      BY <1>1 DEF Op, Operation
    <3>6. PICK p \in Operation : /\ p = Op("commit", n, c)
                                 /\ p.kind = "commit" /\ p.of = n /\ p.arg = c
      BY <3>5 DEF Op
    <3>7. chain' = Append(chain, p) /\ chain' \in Seq(Operation)
      BY <1>0, <2>2, <3>6, Appended
    <3>8. Fits(p)'
      BY <3>2, <3>6 DEF Fits, OfCaller, Writer
    <3>9. ChainOf(c)
      BY <1>0, <3>6, <3>7, <3>8 DEF ChainOf, Queues, OfCaller
    <3>10. session[n].where = "none"
      BY <1>0, <1>1, <2>2 DEF IInv, CallersFit
    <3>11. CallerFits(c)'
      BY <1>0, <1>1, <3>2, <3>4, <3>10 DEF CallerFits, Wanting, Past
    <3> QED BY <1>0, <1>1, <2>2, <3>2, <3>4, <3>7, <3>9, <3>11 DEF Past, Holds
  <2>3. CASE /\ caller' = [caller EXCEPT ![c].pc = "wait"]
             /\ UNCHANGED <<pool, chain>>
    <3>2. /\ caller' \in [Callers -> Caller] /\ caller'[c].pc = "wait" /\ caller'[c].on = n
          /\ \A d \in Callers \ {c} : caller'[d] = caller[d] /\ Stays(d)
      BY <1>0, <2>3, CallerMoves DEF Places
    <3>3. ChainOf(c)
      BY <1>0, <2>3 DEF ChainOf, work
    <3> QED BY <1>0, <1>1, <2>3, <3>2, <3>3 DEF CallerFits, Wanting, Past, Holds, pool
  <2> QED BY <2>1, <2>2, <2>3 DEF Claim
<1>3. TypeOK'
  BY <1>0, <1>2 DEF TypeOK, store, budget
<1>4. current # 0 => entry[current].phase # "gone"
  BY DEF IInv, CallersFit
<1>5. current' # 0 => entry'[current'].phase # "gone"
  BY <1>0, <1>2, <1>4
<1>6. ASSUME NEW d \in Callers \ {c}
      PROVE  /\ caller[d].pc \in Past => entry'[caller[d].on].phase = entry[caller[d].on].phase
             /\ caller[d].pc = "held" => current' = current
  <2>1. caller[d].pc \in Past => caller[d].on \in Slots /\ entry[caller[d].on].phase # "ready"
    BY <1>0 DEF CallerFits, Caller, Past
  <2> QED BY <1>2, <2>1
<1> HIDE DEF n
<1> QED BY <1>0, <1>2, <1>3, <1>5, <1>6, CallerStep DEF n

\* What the invariant says of the callers.
LEMMA CallersNow ==
    ASSUME IInv
    PROVE  /\ TypeOK /\ 0 \notin Slots
           /\ caller \in [Callers -> Caller] /\ entry \in [Slots -> Entry]
           /\ current \in Slots \cup {0} /\ chain \in Seq(Operation)
           /\ current # 0 => entry[current].phase # "gone" /\ session[current].where = "none"
           /\ \A d \in Callers :
                /\ CallerFits(d)
                /\ caller[d].pc \notin {"idle", "start"} => caller[d].on \in Slots
                /\ caller[d].pc = "held" => /\ current = caller[d].on
                                            /\ entry[current].phase = "reserved"
           /\ \A c, d \in Callers :
                caller[c].pc \in Past /\ caller[d].pc \in Past /\ c # d
                  => caller[c].on # caller[d].on
<1> USE DEF IInv
<1>1. /\ TypeOK /\ 0 \notin Slots /\ caller \in [Callers -> Caller]
      /\ current \in Slots \cup {0} /\ chain \in Seq(Operation) /\ entry \in [Slots -> Entry]
  BY DEF TypeOK, Slots
<1>2. ASSUME NEW d \in Callers
      PROVE  /\ CallerFits(d)
             /\ caller[d].pc \notin {"idle", "start"} => caller[d].on \in Slots
             /\ caller[d].pc = "held" => /\ current = caller[d].on
                                         /\ entry[current].phase = "reserved"
  <2>1. CallerFits(d) /\ caller[d] \in Caller
    BY <1>1 DEF CallersFit
  <2>2. caller[d].pc = "held" => current = caller[d].on
    BY DEF HoldersFit, Holds
  <2> QED BY <2>1, <2>2 DEF CallerFits, Caller, Past
<1> QED BY <1>1, <1>2 DEF CallersFit

\* A reservation continues after its commit.
LEMMA CommitReturnsInv ==
    ASSUME IInv, NEW c \in Callers, CommitReturns(c)
    PROVE  IInv'
<1> DEFINE n == caller[c].on
<1>0. /\ TypeOK /\ 0 \notin Slots
      /\ caller \in [Callers -> Caller] /\ entry \in [Slots -> Entry]
      /\ current \in Slots \cup {0}
      /\ current # 0 => entry[current].phase # "gone" /\ session[current].where = "none"
      /\ \A d \in Callers :
           /\ CallerFits(d)
           /\ caller[d].pc \notin {"idle", "start"} => caller[d].on \in Slots
           /\ caller[d].pc = "held" => /\ current = caller[d].on
                                       /\ entry[current].phase = "reserved"
      /\ \A d, e \in Callers :
           caller[d].pc \in Past /\ caller[e].pc \in Past /\ d # e => caller[d].on # caller[e].on
  BY CallersNow
<1>1. /\ UNCHANGED <<store, tracked, session, retiring, work, budget>>
      /\ caller[c].pc \in {"failed", "stale", "committed"} /\ n \in Slots
  BY <1>0 DEF CommitReturns
<1>2. /\ caller' \in [Callers -> Caller] /\ \A d \in Callers \ {c} : Stays(d)
      /\ CallerFits(c)' /\ (Leaves(c) \/ (caller'[c].pc = "held" /\ caller'[c].on = n))
      /\ entry' \in [Slots -> Entry] /\ current' \in {current, 0} /\ (current # n => current' = current)
      /\ \A e \in Slots : entry'[e].source = entry[e].source /\ entry'[e].result = entry[e].result
      /\ \A e \in Slots : e # n => entry'[e].phase = entry[e].phase
      /\ current' # 0 => entry'[current'].phase # "gone"
      /\ Holds(c)' => Holds(c) /\ current' = current
  <2>1. CASE /\ Drop(n)
             /\ caller' = Done(Released(n), c) \/ caller' = Again(Released(n), c)
    <3>1. /\ Released(n) \in [Callers -> Caller]
          /\ \A d \in Callers :
               /\ Released(n)[d].on = caller[d].on
               /\ \/ Released(n)[d].pc = caller[d].pc
                  \/ caller[d].pc = "wait" /\ Released(n)[d].pc = "claim"
      BY <1>0, Releasing
    <3>2. /\ caller' \in [Callers -> Caller] /\ Leaves(c)
          /\ \A d \in Callers \ {c} : Stays(d)
      BY <1>0, <2>1, <3>1, Leaving
    <3>3. /\ current' \in Slots \cup {0} /\ entry' \in [Slots -> Entry]
          /\ current' = IF current = n THEN 0 ELSE current
          /\ \A e \in Slots :
               /\ entry'[e].source = entry[e].source /\ entry'[e].result = entry[e].result
               /\ entry'[e].phase = IF current = n /\ e = n THEN "gone" ELSE entry[e].phase
      BY <1>0, <1>1, <2>1, Dropping
    <3>4. CallerFits(c)' /\ ~Holds(c)'
      BY <3>2 DEF Leaves, CallerFits, Wanting, Past, Holds
    <3> HIDE DEF n
    <3> QED BY <1>0, <1>1, <3>2, <3>3, <3>4
  <2>2. CASE MakeReady(n) /\ caller' = Done(Released(n), c)
    <3>1. /\ Released(n) \in [Callers -> Caller]
          /\ \A d \in Callers :
               /\ Released(n)[d].on = caller[d].on
               /\ \/ Released(n)[d].pc = caller[d].pc
                  \/ caller[d].pc = "wait" /\ Released(n)[d].pc = "claim"
      BY <1>0, Releasing
    <3>2. /\ caller' \in [Callers -> Caller] /\ Leaves(c)
          /\ \A d \in Callers \ {c} : Stays(d)
      BY <1>0, <2>2, <3>1, Leaving
    <3>3. /\ current' = current /\ entry' \in [Slots -> Entry]
          /\ \A e \in Slots :
               /\ entry'[e].source = entry[e].source /\ entry'[e].result = entry[e].result
               /\ entry'[e].phase = IF current = n /\ e = n THEN "ready" ELSE entry[e].phase
      BY <1>0, <1>1, <2>2, MakingReady
    <3>4. CallerFits(c)' /\ ~Holds(c)'
      BY <3>2 DEF Leaves, CallerFits, Wanting, Past, Holds
    <3> HIDE DEF n
    <3> QED BY <1>0, <1>1, <3>2, <3>3, <3>4
  <2>3. CASE caller' = Again(caller, c) /\ UNCHANGED pool
    <3>1. /\ caller' \in [Callers -> Caller] /\ Leaves(c)
          /\ \A d \in Callers \ {c} : Stays(d)
      BY <1>0, <2>3, Leaving
    <3>2. CallerFits(c)' /\ ~Holds(c)'
      BY <3>1 DEF Leaves, CallerFits, Wanting, Past, Holds
    <3> QED BY <1>0, <1>1, <2>3, <3>1, <3>2 DEF pool
  <2>4. CASE /\ caller[c].pc = "committed" /\ current = n
             /\ entry' = [entry EXCEPT ![n].phase = "reserved"]
             /\ caller' = [caller EXCEPT ![c].pc = "held"]
             /\ UNCHANGED current
    <3>1. /\ caller' \in [Callers -> Caller] /\ caller'[c].pc = "held" /\ caller'[c].on = n
          /\ \A d \in Callers \ {c} : caller'[d] = caller[d] /\ Stays(d)
      BY <1>0, <2>4, CallerMoves DEF Places
    <3>2. /\ entry' \in [Slots -> Entry] /\ entry'[n].phase = "reserved"
          /\ \A e \in Slots : /\ entry'[e].source = entry[e].source
                              /\ entry'[e].result = entry[e].result
                              /\ e # n => entry'[e].phase = entry[e].phase
      BY <1>0, <1>1, <2>4, EntryMoves DEF Phases
    <3>3. session'[n].where = "none" /\ entry[n].result = "ok" /\ Holds(c)
      BY <1>0, <1>1, <2>4 DEF CallerFits, Past, Wanting, Holds
    <3> HIDE DEF n
    <3>4. CallerFits(c)'
      BY <1>0, <1>1, <3>1, <3>2, <3>3 DEF CallerFits, Past, Wanting
    <3> QED BY <1>0, <1>1, <2>4, <3>1, <3>2, <3>3, <3>4
  <2> QED BY <2>1, <2>2, <2>3, <2>4 DEF CommitReturns
<1>3. TypeOK'
  BY <1>0, <1>1, <1>2 DEF TypeOK, store, work, budget
<1>4. ChainOf(c)
  BY <1>1 DEF ChainOf
<1>5. ASSUME NEW d \in Callers \ {c}
      PROVE  /\ caller[d].pc \in Past => entry'[caller[d].on].phase = entry[caller[d].on].phase
             /\ caller[d].pc = "held" => current' = current
  <2>1. caller[d].pc \in Past => caller[d].on \in Slots /\ caller[d].on # n
    BY <1>0, <1>1 DEF Past
  <2> HIDE DEF n
  <2> QED BY <1>0, <1>2, <2>1 DEF Past
<1>6. caller'[c].pc \in Past => caller'[c].on = caller[c].on /\ caller[c].pc \in Past
  BY <1>1, <1>2 DEF Leaves, Past
<1> HIDE DEF n
<1> QED BY <1>0, <1>1, <1>2, <1>3, <1>4, <1>5, <1>6, CallerStep

\* A caller that goes away and settles the waiters of its entry.
LEMMA LeavingReleased ==
    ASSUME TypeOK, NEW c \in Callers, NEW e \in Slots,
           caller' = Done(Released(e), c) \/ caller' = Again(Released(e), c)
    PROVE  /\ caller' \in [Callers -> Caller] /\ Leaves(c)
           /\ \A d \in Callers \ {c} : Stays(d)
           /\ CallerFits(c)' /\ ~Holds(c)' /\ caller'[c].pc \notin Past
<1>1. /\ Released(e) \in [Callers -> Caller]
      /\ \A d \in Callers :
           /\ Released(e)[d].on = caller[d].on
           /\ \/ Released(e)[d].pc = caller[d].pc
              \/ caller[d].pc = "wait" /\ Released(e)[d].pc = "claim"
  BY Releasing
<1>2. /\ caller' \in [Callers -> Caller] /\ Leaves(c)
      /\ \A d \in Callers \ {c} : Stays(d)
  BY <1>1, Leaving
<1> QED BY <1>2 DEF Leaves, CallerFits, Wanting, Past, Holds

\* A caller that goes away without more.
LEMMA LeavingAtOnce ==
    ASSUME TypeOK, NEW c \in Callers, caller' = Done(caller, c) \/ caller' = Again(caller, c)
    PROVE  /\ caller' \in [Callers -> Caller] /\ Leaves(c)
           /\ \A d \in Callers \ {c} : Stays(d)
           /\ CallerFits(c)' /\ ~Holds(c)' /\ caller'[c].pc \notin Past
<1>1. caller \in [Callers -> Caller]
  BY DEF TypeOK
<1>2. /\ caller' \in [Callers -> Caller] /\ Leaves(c)
      /\ \A d \in Callers \ {c} : Stays(d)
  BY <1>1, Leaving
<1> QED BY <1>2 DEF Leaves, CallerFits, Wanting, Past, Holds

\* The chain asks for an inspection whether its source is current.
LEMMA CheckRunsInv ==
    ASSUME IInv, CheckRuns
    PROVE  IInv'
<1>0. /\ TypeOK /\ 0 \notin Slots
      /\ caller \in [Callers -> Caller] /\ entry \in [Slots -> Entry]
      /\ current \in Slots \cup {0} /\ chain \in Seq(Operation)
      /\ current # 0 => entry[current].phase # "gone" /\ session[current].where = "none"
      /\ \A d \in Callers :
           /\ CallerFits(d)
           /\ caller[d].pc \notin {"idle", "start"} => caller[d].on \in Slots
  BY CallersNow
<1>1. /\ chain # <<>> /\ Head1.kind = "check" /\ stage = "queued" /\ Finish
      /\ UNCHANGED <<store, pool, tracked, session, retiring, calls, acts>>
      /\ current' = current /\ entry' = entry
      /\ faults' = faults \/ faults' = faults + 1
  BY DEF CheckRuns, Starts, Running, pool, Fault
<1>2. Head1 \in Operation /\ Fits(Head1)
  BY <1>1, FirstRuns DEF IInv
<1>3. PICK c \in Callers : /\ c = Head1.arg
                            /\ caller[c].pc = "checking" /\ caller[c].on \in Slots
  BY <1>0, <1>1, <1>2 DEF Operation, Fits, OfCaller
<1>4. /\ caller' \in [Callers -> Caller] /\ \A d \in Callers \ {c} : Stays(d)
      /\ CallerFits(c)' /\ ~Holds(c)' /\ caller'[c].pc \notin Past
  <2>1. CASE \E pc \in {"fresh", "outdated"} : caller' = [caller EXCEPT ![c].pc = pc]
    <3>1. PICK pc \in {"fresh", "outdated"} : caller' = [caller EXCEPT ![c].pc = pc]
      BY <2>1
    <3>2. /\ caller' \in [Callers -> Caller] /\ caller'[c].pc = pc
          /\ caller'[c].on = caller[c].on
          /\ \A d \in Callers \ {c} : caller'[d] = caller[d] /\ Stays(d)
      BY <1>0, <1>3, <3>1, CallerMoves DEF Places
    <3> QED BY <1>0, <1>1, <1>3, <3>2 DEF CallerFits, Wanting, Past, Holds
  <2>2. CASE caller' = Done(caller, c)
    BY <1>0, <1>3, <2>2, LeavingAtOnce
  <2> QED BY <1>3, <2>1, <2>2 DEF CheckRuns
<1>5. chain' \in Seq(Operation) /\ stage' = "queued" /\ writing' = NoWriting
  BY <1>0, <1>1, Tailed DEF Finish
<1>6. TypeOK'
  BY <1>0, <1>1, <1>4, <1>5 DEF TypeOK, store, NoWriting
<1>7. ChainOf(c)
  BY <1>1, <1>3 DEF ChainOf, Ends, OfCaller
<1> QED BY <1>0, <1>1, <1>3, <1>4, <1>6, <1>7, CallerStep

\* An inspection is answered, or discards its source.
LEMMA CheckReturnsInv ==
    ASSUME IInv, NEW c \in Callers, CheckReturns(c)
    PROVE  IInv'
<1> DEFINE n == caller[c].on
<1>0. /\ TypeOK /\ 0 \notin Slots
      /\ caller \in [Callers -> Caller] /\ entry \in [Slots -> Entry]
      /\ current \in Slots \cup {0}
      /\ current # 0 => entry[current].phase # "gone" /\ session[current].where = "none"
      /\ \A d \in Callers :
           /\ CallerFits(d)
           /\ caller[d].pc \notin {"idle", "start"} => caller[d].on \in Slots
           /\ caller[d].pc = "held" => /\ current = caller[d].on
                                       /\ entry[current].phase = "reserved"
  BY CallersNow
<1>1. /\ UNCHANGED <<store, tracked, session, retiring, work, budget>>
      /\ caller[c].pc \in {"fresh", "outdated"} /\ n \in Slots
  BY <1>0 DEF CheckReturns
<1>2. /\ caller' \in [Callers -> Caller] /\ \A d \in Callers \ {c} : Stays(d)
      /\ CallerFits(c)' /\ ~Holds(c)' /\ caller'[c].pc \notin Past
      /\ entry' \in [Slots -> Entry] /\ current' \in {current, 0}
      /\ current' = 0 \/ entry'[current'].phase # "gone"
      /\ \A e \in Slots : /\ entry'[e].source = entry[e].source
                          /\ entry'[e].result = entry[e].result
                          /\ entry'[e].phase \in {entry[e].phase, "gone"}
      /\ current' = current \/ ~Held
      /\ \A e \in Slots : ~Held \/ entry'[e].phase = entry[e].phase
  <2>1. CASE caller' = Done(caller, c) /\ UNCHANGED pool
    BY <1>0, <2>1, LeavingAtOnce DEF pool
  <2>2. CASE /\ ~(current = n /\ Held) /\ Drop(n) /\ caller' = Again(Released(n), c)
    <3>1. /\ current' \in Slots \cup {0} /\ entry' \in [Slots -> Entry]
          /\ current' = IF current = n THEN 0 ELSE current
          /\ \A e \in Slots :
               /\ entry'[e].source = entry[e].source /\ entry'[e].result = entry[e].result
               /\ entry'[e].phase = IF current = n /\ e = n THEN "gone" ELSE entry[e].phase
      BY <1>0, <1>1, <2>2, Dropping
    <3>2. /\ caller' \in [Callers -> Caller] /\ \A d \in Callers \ {c} : Stays(d)
          /\ CallerFits(c)' /\ ~Holds(c)' /\ caller'[c].pc \notin Past
      BY <1>0, <1>1, <2>2, LeavingReleased
    <3> HIDE DEF n
    <3> QED BY <1>0, <1>1, <2>2, <3>1, <3>2
  <2> QED BY <2>1, <2>2 DEF CheckReturns
<1>3. TypeOK'
  BY <1>0, <1>1, <1>2 DEF TypeOK, store, work, budget
<1>4. ChainOf(c)
  BY <1>1 DEF ChainOf
<1>5. ASSUME NEW d \in Callers \ {c}
      PROVE  /\ caller[d].pc \in Past =>
                  \/ entry'[caller[d].on].phase = entry[caller[d].on].phase
                  \/ entry'[caller[d].on].phase = "gone" /\ caller[d].pc # "held"
             /\ caller[d].pc = "held" => current' = current
  <2>1. caller[d].pc = "held" => Held
    BY <1>0 DEF Held
  <2>2. caller[d].pc \in Past => caller[d].on \in Slots
    BY <1>0 DEF Past
  <2> QED BY <1>0, <1>2, <2>1, <2>2
<1> HIDE DEF n
<1> QED BY <1>0, <1>1, <1>2, <1>3, <1>4, <1>5, CallerStep

\* A caller's signal aborts.
LEMMA AbortInv ==
    ASSUME IInv, NEW c \in Callers, Abort(c)
    PROVE  IInv'
<1> DEFINE n == caller[c].on
<1>0. /\ TypeOK /\ 0 \notin Slots
      /\ caller \in [Callers -> Caller] /\ entry \in [Slots -> Entry]
      /\ current \in Slots \cup {0} /\ chain \in Seq(Operation)
      /\ current # 0 => entry[current].phase # "gone" /\ session[current].where = "none"
      /\ \A d \in Callers :
           /\ CallerFits(d)
           /\ caller[d].pc \notin {"idle", "start"} => caller[d].on \in Slots
           /\ caller[d].pc = "held" => /\ current = caller[d].on
                                       /\ entry[current].phase = "reserved"
      /\ \A d, e \in Callers :
           caller[d].pc \in Past /\ caller[e].pc \in Past /\ d # e => caller[d].on # caller[e].on
  BY CallersNow
<1>1. UNCHANGED <<store, tracked, session, retiring, stage, writing, budget>>
  BY DEF Abort
<1>2. CASE /\ caller[c].pc \in {"start", "await", "claim", "wait"}
           /\ caller' = Done(caller, c) /\ UNCHANGED <<pool, chain>>
  <2>1. /\ caller' \in [Callers -> Caller] /\ \A d \in Callers \ {c} : Stays(d)
        /\ CallerFits(c)' /\ ~Holds(c)' /\ caller'[c].pc \notin Past
        /\ current' = current /\ entry' = entry
    BY <1>0, <1>2, LeavingAtOnce DEF pool
  <2>2. TypeOK'
    BY <1>0, <1>1, <1>2, <2>1 DEF TypeOK, store, budget
  <2>3. ChainOf(c)
    BY <1>1, <1>2 DEF ChainOf, work
  <2> QED BY <1>0, <1>1, <2>1, <2>2, <2>3, CallerStep
<1>3. CASE /\ caller[c].pc \in {"commit", "checking"}
           /\ \E i \in DOMAIN chain : QueuedBy(c, chain[i]) /\ chain' = RemoveAt(chain, i)
           /\ IF caller[c].pc = "commit"
              THEN Drop(n) /\ caller' = Done(Released(n), c)
              ELSE caller' = Done(caller, c) /\ UNCHANGED pool
  <2>1. n \in Slots
    BY <1>0, <1>3
  <2>2. /\ caller' \in [Callers -> Caller] /\ \A d \in Callers \ {c} : Stays(d)
        /\ CallerFits(c)' /\ ~Holds(c)' /\ caller'[c].pc \notin Past
        /\ entry' \in [Slots -> Entry] /\ current' \in {current, 0}
        /\ caller[c].pc # "commit" \/ current # n => current' = current /\ entry' = entry
        /\ \A e \in Slots : /\ entry'[e].source = entry[e].source
                            /\ entry'[e].result = entry[e].result
                            /\ e # n => entry'[e].phase = entry[e].phase
        /\ current = n => entry' = entry \/ current' = 0
    <3>1. CASE caller[c].pc = "commit"
      <4>1. Drop(n) /\ caller' = Done(Released(n), c)
        BY <1>3, <3>1
      <4>2. /\ current' \in Slots \cup {0} /\ entry' \in [Slots -> Entry]
            /\ current' = IF current = n THEN 0 ELSE current
            /\ \A e \in Slots :
                 /\ entry'[e].source = entry[e].source /\ entry'[e].result = entry[e].result
                 /\ entry'[e].phase = IF current = n /\ e = n THEN "gone" ELSE entry[e].phase
        BY <1>0, <2>1, <4>1, Dropping
      <4>3. /\ caller' \in [Callers -> Caller] /\ \A d \in Callers \ {c} : Stays(d)
            /\ CallerFits(c)' /\ ~Holds(c)' /\ caller'[c].pc \notin Past
        BY <1>0, <2>1, <4>1, LeavingReleased
      <4>4. current # n => entry' = entry
        BY <4>1 DEF Drop, pool
      <4> HIDE DEF n
      <4> QED BY <2>1, <3>1, <4>2, <4>3, <4>4
    <3>2. CASE caller[c].pc # "commit"
      <4>1. caller' = Done(caller, c) /\ current' = current /\ entry' = entry
        BY <1>3, <3>2 DEF pool
      <4>2. /\ caller' \in [Callers -> Caller] /\ \A d \in Callers \ {c} : Stays(d)
            /\ CallerFits(c)' /\ ~Holds(c)' /\ caller'[c].pc \notin Past
        BY <1>0, <4>1, LeavingAtOnce
      <4> HIDE DEF n
      <4> QED BY <1>0, <4>1, <4>2
    <3> QED BY <3>1, <3>2
  <2>3. PICK k \in DOMAIN chain : QueuedBy(c, chain[k]) /\ chain' = RemoveAt(chain, k)
    BY <1>3
  <2>4. chain' \in Seq(Operation)
    BY <1>0, <2>3, Withdrawn
  <2>5. k > 1 \/ stage = "queued"
    <3>1. k \in Nat /\ k >= 1
      BY <1>0, <2>3
    <3>2. k = 1 => stage = "queued"
      BY <2>3 DEF QueuedBy, Head1
    <3> QED BY <3>1, <3>2
  <2>6. ChainOf(c)
    BY <1>1, <2>3, <2>5 DEF ChainOf, Withdraws, QueuedBy, OfCaller
  <2>7. TypeOK'
    BY <1>0, <1>1, <2>2, <2>4 DEF TypeOK, store, budget
  <2>8. ASSUME NEW d \in Callers \ {c}
        PROVE  /\ caller[d].pc \in Past => entry'[caller[d].on].phase = entry[caller[d].on].phase
               /\ caller[d].pc = "held" => current' = current
    <3>1. caller[d].pc \in Past => caller[d].on \in Slots
      BY <1>0 DEF Past
    <3>2. caller[d].pc \in Past /\ caller[c].pc = "commit" => caller[d].on # n
      BY <1>0 DEF Past
    <3> HIDE DEF n
    <3> QED BY <1>0, <2>2, <3>1, <3>2 DEF Past
  <2>9. current' # 0 => entry'[current'].phase # "gone"
    <3> HIDE DEF n
    <3> QED BY <1>0, <2>2
  <2> HIDE DEF n
  <2> QED BY <1>0, <1>1, <2>2, <2>6, <2>7, <2>8, <2>9, CallerStep
<1>4. CASE /\ caller' = [caller EXCEPT ![c].aborted = TRUE] /\ UNCHANGED <<pool, chain>>
  <2> DEFINE x == [caller[c] EXCEPT !.aborted = TRUE]
  <2>1. x \in Caller /\ x.pc = caller[c].pc /\ x.on = n
    <3>1. caller[c] \in Caller
      BY <1>0
    <3> QED BY <3>1 DEF Caller
  <2>2. caller' = [caller EXCEPT ![c] = x]
    BY <1>4
  <2> HIDE DEF x
  <2>3. /\ caller' \in [Callers -> Caller] /\ caller'[c] = x
        /\ \A d \in Callers \ {c} : caller'[d] = caller[d]
    BY <1>0, <2>1, <2>2
  <2>4. \A d \in Callers : Stays(d)
    BY <2>1, <2>3 DEF Stays
  <2>5. current' = current /\ entry' = entry /\ session' = session
    BY <1>1, <1>4 DEF pool
  <2>6. CallerFits(c)' /\ (Holds(c)' => Holds(c))
    <3>1. CallerFits(c)
      BY <1>0
    <3> QED BY <2>1, <2>3, <2>5, <3>1 DEF CallerFits, Holds
  <2>7. TypeOK'
    BY <1>0, <1>1, <1>4, <2>3, <2>5 DEF TypeOK, store, budget
  <2>8. ChainOf(c)
    BY <1>1, <1>4, <2>4 DEF ChainOf, work
  <2>9. caller'[c].pc = caller[c].pc /\ caller'[c].on = caller[c].on
    BY <2>1, <2>3
  <2> HIDE DEF n
  <2> QED BY <1>0, <1>1, <2>3, <2>4, <2>5, <2>6, <2>7, <2>8, <2>9, CallerStep
<1> QED BY <1>2, <1>3, <1>4 DEF Abort

\* A preparation is given back.
LEMMA ReleaseInv ==
    ASSUME IInv, NEW c \in Callers, Release(c)
    PROVE  IInv'
<1> DEFINE s == caller[c].on
<1>0. /\ TypeOK /\ 0 \notin Slots
      /\ caller \in [Callers -> Caller] /\ entry \in [Slots -> Entry]
      /\ current \in Slots \cup {0}
      /\ current # 0 => entry[current].phase # "gone" /\ session[current].where = "none"
      /\ \A d \in Callers :
           /\ CallerFits(d)
           /\ caller[d].pc \notin {"idle", "start"} => caller[d].on \in Slots
           /\ caller[d].pc = "held" => /\ current = caller[d].on
                                       /\ entry[current].phase = "reserved"
      /\ \A d, e \in Callers :
           caller[d].pc \in Past /\ caller[e].pc \in Past /\ d # e => caller[d].on # caller[e].on
  BY CallersNow
<1>1. /\ UNCHANGED <<store, tracked, session, retiring, work, budget>>
      /\ caller[c].pc = "held" /\ s \in Slots /\ current = s
      /\ caller' = Done(Released(s), c)
  BY <1>0 DEF Release
<1>2. /\ caller' \in [Callers -> Caller] /\ \A d \in Callers \ {c} : Stays(d)
      /\ CallerFits(c)' /\ ~Holds(c)' /\ caller'[c].pc \notin Past
  BY <1>0, <1>1, LeavingReleased
<1>3. /\ entry' \in [Slots -> Entry] /\ current' \in {current, 0}
      /\ current' # 0 => entry'[current'].phase # "gone"
      /\ \A e \in Slots : /\ entry'[e].source = entry[e].source
                          /\ entry'[e].result = entry[e].result
                          /\ e # s => entry'[e].phase = entry[e].phase
  <2>1. CASE MakeReady(s)
    <3>1. /\ current' = current /\ entry' \in [Slots -> Entry]
          /\ \A n \in Slots :
               /\ entry'[n].source = entry[n].source /\ entry'[n].result = entry[n].result
               /\ entry'[n].phase = IF current = s /\ n = s THEN "ready" ELSE entry[n].phase
      BY <1>0, <1>1, <2>1, MakingReady
    <3> HIDE DEF s
    <3> QED BY <1>0, <1>1, <3>1
  <2>2. CASE Drop(s)
    <3>1. /\ current' \in Slots \cup {0} /\ entry' \in [Slots -> Entry]
          /\ current' = IF current = s THEN 0 ELSE current
          /\ \A e \in Slots :
               /\ entry'[e].source = entry[e].source /\ entry'[e].result = entry[e].result
               /\ entry'[e].phase = IF current = s /\ e = s THEN "gone" ELSE entry[e].phase
      BY <1>0, <1>1, <2>2, Dropping
    <3> HIDE DEF s
    <3> QED BY <1>0, <1>1, <3>1
  <2> QED BY <2>1, <2>2 DEF Release
<1>4. TypeOK'
  BY <1>0, <1>1, <1>2, <1>3 DEF TypeOK, store, work, budget
<1>5. ChainOf(c)
  BY <1>1 DEF ChainOf
<1>6. ASSUME NEW d \in Callers \ {c}
      PROVE  /\ caller[d].pc \in Past => entry'[caller[d].on].phase = entry[caller[d].on].phase
             /\ caller[d].pc # "held"
  <2>1. caller[d].pc \in Past => caller[d].on \in Slots /\ caller[d].on # s
    BY <1>0, <1>1 DEF Past
  <2> HIDE DEF s
  <2> QED BY <1>0, <1>1, <1>3, <2>1 DEF Past
<1> HIDE DEF s
<1> QED BY <1>0, <1>1, <1>2, <1>3, <1>4, <1>5, <1>6, CallerStep

\* The pool drops a ready entry for another identity.
LEMMA EvictInv ==
    ASSUME IInv, Evict
    PROVE  IInv'
<1> USE DEF IInv
<1>0. /\ TypeOK /\ 0 \notin Slots
      /\ caller \in [Callers -> Caller] /\ entry \in [Slots -> Entry]
      /\ current \in Slots \cup {0} /\ chain \in Seq(Operation)
      /\ \A d \in Callers :
           /\ CallerFits(d)
           /\ caller[d].pc \notin {"idle", "start"} => caller[d].on \in Slots
           /\ caller[d].pc = "held" => /\ current = caller[d].on
                                       /\ entry[current].phase = "reserved"
  BY CallersNow
<1>1. /\ current \in Slots /\ entry[current].phase = "ready" /\ current' = 0
      /\ entry' = [entry EXCEPT ![current].phase = "gone"]
      /\ UNCHANGED <<store, tracked, session, retiring, caller, work>>
      /\ log' = log /\ revision' = revision /\ chain' = chain /\ stage' = stage
      /\ writing' = writing /\ acts' \in Nat /\ calls' = calls /\ faults' = faults
  BY <1>0 DEF Evict, store, work, TypeOK
<1>2. /\ entry' \in [Slots -> Entry]
      /\ \A n \in Slots : /\ entry'[n].source = entry[n].source
                          /\ entry'[n].result = entry[n].result
                          /\ entry[n].phase # "ready" => entry'[n].phase = entry[n].phase
  BY <1>0, <1>1, EntryMoves DEF Phases
<1>3. TypeOK'
  BY <1>0, <1>1, <1>2 DEF TypeOK
<1>4. /\ SourcesAreRead' /\ CursorIsEnd' /\ OneLive' /\ ReadyFits' /\ PreparedExtends'
      /\ LogIsOwned'
  BY <1>1, <1>2, PoolKept
<1>5. CallersFit'
  <2>1. ASSUME NEW d \in Callers
        PROVE  CallerFits(d)'
    <3>1. caller[d].pc \in Past => caller[d].on \in Slots /\ entry[caller[d].on].phase # "ready"
      BY <1>0 DEF CallerFits, Past
    <3> QED BY <1>0, <1>1, <1>2, <3>1 DEF CallerFits, Past, Wanting
  <2> QED BY <1>1, <2>1 DEF CallersFit
<1>6. \A d \in Callers : ~Holds(d)'
  <2> SUFFICES ASSUME NEW d \in Callers, Holds(d)' PROVE FALSE
    OBVIOUS
  <2>1. caller[d].on # 0 /\ caller[d].pc # "held"
    BY <1>0, <1>1 DEF CallerFits, Holds
  <2> QED BY <1>1, <2>1 DEF Holds
<1>7. HoldersFit'
  BY <1>6 DEF HoldersFit
<1>8. StageFits'
  BY <1>1 DEF StageFits, Head1
<1>9. OpsFit'
  <2>1. ASSUME NEW o \in Operation, Fits(o)
        PROVE  Fits(o)'
    <3>1. o.kind \in {"load", "suffix"} => o.of \in Slots
      BY DEF Operation
    <3> QED BY <1>1, <1>2, <2>1, <3>1 DEF Fits, OfCaller, Writer
  <2> QED BY <1>1, <2>1, OpsStay
<1>10. InitIsGuarded'
  BY <1>1, GuardStays DEF Guards, Live
<1>11. AppendIsUnowned'
  <2>1. ~AppendWhileHeld => \A o \in Operation : Queued(o) /\ o.kind = "append" => Unowned'
    BY <1>1, <1>6 DEF AppendIsUnowned, Unowned, Queued
  <2>2. \A o \in Operation : Queued(o) /\ o.kind = "commit" /\ current # o.of => current' # o.of
    BY <1>0, <1>1 DEF Operation
  <2> QED BY <1>1, <2>1, <2>2, AppendStays
<1> QED BY <1>3, <1>4, <1>5, <1>7, <1>8, <1>9, <1>10, <1>11

-----------------------------------------------------------------------------
(* The slots and the sessions in them. *)

\* Nothing refers to a slot that is taken for a new entry or a new session.
LEMMA FreeIs ==
    ASSUME IInv, FreeSlots # {}
    PROVE  /\ NewSlot \in Slots /\ current # NewSlot /\ tracked.owner # NewSlot
           /\ retiring # NewSlot /\ session[NewSlot].where = "none"
           /\ \A c \in Callers : caller[c].on # NewSlot
           /\ \A o \in Operation : Queued(o) /\ o.kind \in OfSlot \cup OfCaller => o.of # NewSlot
<1> USE DEF IInv
<1>1. NewSlot \in FreeSlots
  BY DEF NewSlot
<1>2. /\ NewSlot \in Slots /\ current # NewSlot /\ tracked.owner # NewSlot
      /\ retiring # NewSlot /\ session[NewSlot].where = "none"
      /\ \A c \in Callers : caller[c].on # NewSlot
      /\ \A i \in DOMAIN chain : chain[i].kind # "load" \/ chain[i].of # NewSlot
  BY <1>1 DEF FreeSlots
<1>3. ASSUME NEW o \in Operation, Queued(o), o.kind \in OfSlot \cup OfCaller
      PROVE  o.of # NewSlot
  <2>1. Fits(o)
    BY <1>3 DEF OpsFit
  <2>2. o.kind = "load" => o.of # NewSlot
    BY <1>2, <1>3 DEF Queued
  <2>3. o.kind \in OfCaller => o.arg \in Callers /\ caller[o.arg].on = o.of
    BY <2>1 DEF Operation, Fits, OfCaller
  <2>4. o.kind \in Writer \cup {"retire"} => session[o.of].where # "none"
    BY <2>1 DEF Fits, Writer
  <2> QED BY <1>2, <1>3, <2>2, <2>3, <2>4 DEF OfSlot
<1> QED BY <1>2, <1>3

\* What is queued for the other slots finds them as before.
LEMMA FitsForSlot ==
    ASSUME TypeOK, NEW s, tracked' = tracked,
           \A n \in Slots \ {s} : entry'[n] = entry[n] /\ session'[n] = session[n],
           \A c \in Callers : caller[c].pc \in {"commit", "checking"} =>
               caller'[c].pc = caller[c].pc /\ caller'[c].on = caller[c].on,
           NEW o \in Operation, Fits(o), o.kind \in OfSlot => o.of # s
    PROVE  Fits(o)'
<1>1. CASE o.kind \in OfCaller
  <2>1. /\ o.arg \in Callers /\ caller[o.arg].on = o.of
        /\ caller[o.arg].pc = IF o.kind = "commit" THEN "commit" ELSE "checking"
    BY <1>1 DEF Operation, OfCaller, Fits
  <2>2. caller'[o.arg].on = caller[o.arg].on /\ caller'[o.arg].pc = caller[o.arg].pc
    BY <2>1
  <2> QED BY <1>1, <2>1, <2>2 DEF Fits, OfCaller, Writer
<1>2. CASE o.kind \in OfSlot
  <2>1. o.of \in Slots \ {s}
    BY <1>2 DEF Operation, OfSlot, Writer
  <2>2. entry'[o.of] = entry[o.of] /\ session'[o.of] = session[o.of]
    BY <2>1
  <2> QED BY <1>2, <2>2 DEF Fits, OfSlot, OfCaller, Writer
<1>3. CASE o.kind \notin OfCaller \cup OfSlot
  BY <1>3 DEF Fits, OfSlot, OfCaller, Writer
<1> QED BY <1>1, <1>2, <1>3

\* The stage stays as it is; the owner keeps its events.
LEMMA StageKept ==
    ASSUME TypeOK, StageFits, stage' = stage, writing' = writing, tracked' = tracked,
           chain' = chain \/ \E p \in Operation : chain' = Append(chain, p),
           tracked.owner # 0 => session'[tracked.owner].events = session[tracked.owner].events
    PROVE  StageFits'
<1>1. CASE stage = "queued"
  BY <1>1 DEF StageFits
<1>2. CASE stage # "queued"
  <2>1. chain # <<>> /\ chain \in Seq(Operation) /\ Head1 \in Operation
    <3>1. chain # <<>> /\ chain \in Seq(Operation)
      BY <1>2 DEF StageFits, TypeOK
    <3> QED BY <3>1 DEF Head1
  <2>2. chain' # <<>> /\ Head1' = Head1
    <3>1. CASE chain' = chain
      BY <2>1, <3>1 DEF Head1
    <3>2. CASE \E p \in Operation : chain' = Append(chain, p)
      BY <2>1, <3>2, Appended DEF Head1
    <3> QED BY <3>1, <3>2
  <2>3. Head1.kind \in Writer => Head1.of # 0
    BY <2>1 DEF Operation, Writer, Slots
  <2> QED BY <1>2, <2>1, <2>2, <2>3 DEF StageFits
<1> QED BY <1>1, <1>2

\* A session of the live map moves on and keeps its events.
LEMMA SessionMoves ==
    ASSUME IInv, TypeOK', UNCHANGED <<store, pool, tracked, stage, writing>>,
           chain' = chain \/ \E p \in Operation : chain' = Append(chain, p),
           \A d \in Callers : Stays(d) \/ Leaves(d),
           \A n \in Slots :
             /\ session'[n].where = "none" <=> session[n].where = "none"
             /\ session'[n].where = "live" => session[n].where = "live"
             /\ session'[n].events = session[n].events
             /\ session'[n].init = session[n].init /\ session'[n].acked = session[n].acked
    PROVE  /\ SourcesAreRead' /\ CursorIsEnd' /\ CallersFit' /\ HoldersFit' /\ StageFits'
           /\ OneLive' /\ ReadyFits' /\ PreparedExtends' /\ LogIsOwned'
           /\ Unowned => Unowned'
           /\ \A o \in Operation : current # o.of => current' # o.of
<1> USE DEF IInv
<1>0. /\ log' = log /\ revision' = revision /\ tracked' = tracked /\ entry' = entry
      /\ current' = current /\ stage' = stage /\ writing' = writing
      /\ current \in Slots \cup {0} /\ tracked.owner \in Slots \cup {0}
  BY DEF store, pool, TypeOK, State
<1>1. SourcesAreRead'
  BY <1>0 DEF SourcesAreRead
<1>2. CursorIsEnd'
  BY <1>0 DEF CursorIsEnd, Interrupted
<1>3. CallersFit'
  <2>1. {} \in SUBSET Callers /\ (\A c, d \in {} : c = d) /\ Callers \ {} = Callers
    OBVIOUS
  <2>2. \A d \in Callers : Stays(d) /\ caller[d].pc \in Past =>
           session'[caller[d].on].where = "none"
    <3> SUFFICES ASSUME NEW d \in Callers, caller[d].pc \in Past
                 PROVE  session'[caller[d].on].where = "none"
      OBVIOUS
    <3>1. caller[d].on \in Slots /\ session[caller[d].on].where = "none"
      BY CallersNow DEF CallerFits, Past
    <3> QED BY <3>1
  <2>3. current' # 0 => entry'[current'].phase # "gone" /\ session'[current'].where = "none"
    BY <1>0 DEF CallersFit
  <2> QED BY <1>0, <2>1, <2>2, <2>3, CallersKept
<1>4. \A d \in Callers : Holds(d)' => Holds(d) /\ caller'[d].on = caller[d].on
  BY <1>0, HoldsStay
<1>5. HoldersFit'
  BY <1>0, <1>4, HoldersKept DEF HoldersFit
<1>6. StageFits'
  BY <1>0, StageKept
<1>7. OneLive'
  BY DEF OneLive, Live
<1>8. ReadyFits'
  BY <1>0 DEF ReadyFits
<1>9. PreparedExtends'
  BY <1>0 DEF PreparedExtends
<1>10. LogIsOwned'
  BY <1>0 DEF LogIsOwned
<1>11. Unowned => Unowned'
  BY <1>0, <1>4 DEF Unowned
<1> QED BY <1>0, <1>1, <1>2, <1>3, <1>5, <1>6, <1>7, <1>8, <1>9, <1>10, <1>11

\* One session changes.
LEMMA SessionIs ==
    ASSUME TypeOK, NEW s \in Slots, NEW x \in Session, x.acked <= Len(x.events),
           session' = [session EXCEPT ![s] = x]
    PROVE  /\ session' \in [Slots -> Session] /\ session'[s] = x
           /\ \A n \in Slots \ {s} : session'[n] = session[n]
           /\ \A n \in Slots : session'[n].acked <= Len(session'[n].events)
<1>1. /\ session \in [Slots -> Session]
      /\ \A n \in Slots : session[n].acked <= Len(session[n].events)
  BY DEF TypeOK
<1>2. /\ session' \in [Slots -> Session] /\ session'[s] = x
      /\ \A n \in Slots \ {s} : session'[n] = session[n]
  BY <1>1
<1> QED BY <1>1, <1>2

\* The controller queues a batch: only the owner has something to hand over.
LEMMA HandOverInv ==
    ASSUME IInv, NEW s \in Slots, HandOver(s)
    PROVE  IInv'
<1> USE DEF IInv
<1> DEFINE x == [session[s] EXCEPT !.busy = session[s].where]
<1>0. /\ TypeOK /\ session[s] \in Session /\ session[s].acked <= Len(session[s].events)
      /\ chain \in Seq(Operation)
      /\ session[s].where \in {"live", "disposed"} /\ session[s].init = "ready"
      /\ session[s].busy = "no" /\ session[s].acked < Len(session[s].events)
      /\ UNCHANGED <<store, pool, tracked, retiring, caller, stage, writing, budget>>
  BY DEF TypeOK, HandOver
<1>1. /\ x \in Session /\ x.where = session[s].where /\ x.events = session[s].events
      /\ x.acked = session[s].acked /\ x.init = session[s].init /\ x.busy # "no"
  BY <1>0 DEF Session
<1>2. session' = [session EXCEPT ![s] = x]
  BY DEF HandOver
<1> HIDE DEF x
<1>3. /\ session' \in [Slots -> Session] /\ session'[s] = x
      /\ \A n \in Slots \ {s} : session'[n] = session[n]
      /\ \A n \in Slots : session'[n].acked <= Len(session'[n].events)
  BY <1>0, <1>1, <1>2, SessionIs
<1>4. Op("batch", s, Len(session[s].events)) \in Operation
  BY <1>0 DEF Op, Operation, Session
<1>5. PICK p \in Operation : /\ chain' = Append(chain, p)
                             /\ p.kind = "batch" /\ p.of = s /\ p.arg = Len(session[s].events)
  BY <1>4 DEF HandOver, Op
<1>6. chain' \in Seq(Operation)
  BY <1>0, <1>5, Appended
<1>7. TypeOK'
  BY <1>0, <1>3, <1>6 DEF TypeOK, store, pool, budget
<1>8. \A d \in Callers : Stays(d)
  BY <1>0 DEF Stays
<1>9. \A n \in Slots :
        /\ session'[n].where = session[n].where /\ session'[n].events = session[n].events
        /\ session'[n].init = session[n].init /\ session'[n].acked = session[n].acked
  BY <1>1, <1>3
<1>10. /\ SourcesAreRead' /\ CursorIsEnd' /\ CallersFit' /\ HoldersFit' /\ StageFits'
       /\ OneLive' /\ ReadyFits' /\ PreparedExtends' /\ LogIsOwned'
       /\ Unowned => Unowned'
       /\ \A o \in Operation : current # o.of => current' # o.of
  BY <1>0, <1>5, <1>7, <1>8, <1>9, SessionMoves
<1>11. \A o \in Operation : Queued(o) => Fits(o)' /\ ~Clash(o, p)
  <2> SUFFICES ASSUME NEW o \in Operation, Queued(o)
               PROVE  Fits(o)' /\ ~Clash(o, p)
    OBVIOUS
  <2>1. Fits(o)
    BY DEF OpsFit
  <2>2. o.kind \in OfSlot => o.of # s
    BY <1>0, <2>1 DEF Fits, OfSlot, Writer, NoSession
  <2>3. tracked' = tracked /\ entry' = entry /\ caller' = caller
    BY <1>0 DEF pool
  <2>4. Fits(o)'
    BY <1>3, <2>1, <2>2, <2>3, FitsForSlot
  <2> QED BY <1>5, <2>2, <2>4 DEF Clash, OfCaller
<1>12. Fits(p)'
  <2>0. session[s].events # <<>>
    BY <1>0 DEF Session
  <2>1. tracked.owner = s
    BY <1>0, <2>0 DEF ReadyFits
  <2> QED BY <1>0, <1>1, <1>3, <1>5, <2>1 DEF Fits, OfCaller, Writer, Session
<1>13. OpsFit'
  BY <1>0, <1>5, <1>11, <1>12, OpsGrow
<1>14. InitIsGuarded'
  BY <1>0, <1>5, <1>9, GuardGrows DEF Guards, Live, pool
<1>15. AppendIsUnowned'
  <2>1. ~AppendWhileHeld => \A o \in Operation : Queued(o) /\ o.kind = "append" => Unowned'
    BY <1>10 DEF AppendIsUnowned, Queued
  <2> QED BY <1>5, <1>10, <2>1, AppendGrows
<1> QED BY <1>7, <1>10, <1>13, <1>14, <1>15

\* A live session is disposed and its retirement begins.
LEMMA DisposeInv ==
    ASSUME IInv, NEW s \in Slots, DisposeSession(s)
    PROVE  IInv'
<1> USE DEF IInv
<1> DEFINE x == [session[s] EXCEPT !.where = "disposed"]
<1>0. /\ TypeOK /\ session[s] \in Session /\ session[s].acked <= Len(session[s].events)
      /\ session[s].where = "live" /\ retiring' = s
      /\ UNCHANGED <<store, pool, tracked, caller, work, budget>>
      /\ chain' = chain /\ stage' = stage /\ writing' = writing
  BY DEF TypeOK, DisposeSession, Live, work
<1>1. /\ x \in Session /\ x.where = "disposed" /\ x.events = session[s].events
      /\ x.acked = session[s].acked /\ x.init = session[s].init /\ x.busy = session[s].busy
  BY <1>0 DEF Session
<1>2. session' = [session EXCEPT ![s] = x]
  BY DEF DisposeSession
<1> HIDE DEF x
<1>3. /\ session' \in [Slots -> Session] /\ session'[s] = x
      /\ \A n \in Slots \ {s} : session'[n] = session[n]
      /\ \A n \in Slots : session'[n].acked <= Len(session'[n].events)
  BY <1>0, <1>1, <1>2, SessionIs
<1>4. TypeOK'
  BY <1>0, <1>3 DEF TypeOK, store, pool, budget
<1>5. \A d \in Callers : Stays(d)
  BY <1>0 DEF Stays
<1>6. \A n \in Slots :
        /\ session'[n].where = (IF n = s THEN "disposed" ELSE session[n].where)
        /\ session'[n].events = session[n].events /\ session'[n].busy = session[n].busy
        /\ session'[n].init = session[n].init /\ session'[n].acked = session[n].acked
  BY <1>1, <1>3
<1>7. /\ SourcesAreRead' /\ CursorIsEnd' /\ CallersFit' /\ HoldersFit' /\ StageFits'
      /\ OneLive' /\ ReadyFits' /\ PreparedExtends' /\ LogIsOwned'
      /\ Unowned => Unowned'
      /\ \A o \in Operation : current # o.of => current' # o.of
  BY <1>0, <1>4, <1>5, <1>6, SessionMoves
<1>8. \A o \in Operation : Queued(o) /\ Fits(o) => Fits(o)'
  <2> SUFFICES ASSUME NEW o \in Operation, Fits(o)
               PROVE  Fits(o)'
    OBVIOUS
  <2>0. tracked' = tracked /\ entry' = entry /\ caller' = caller
    BY <1>0 DEF pool
  <2>1. CASE o.kind \in OfSlot => o.of # s
    BY <1>3, <2>0, <2>1, FitsForSlot
  <2>2. CASE o.kind \in OfSlot /\ o.of = s
    <3>1. o.kind \in Writer
      BY <1>0, <2>2 DEF Fits, OfSlot, Writer, NoSession
    <3> QED BY <1>0, <1>6, <2>0, <2>2, <3>1 DEF Fits, OfCaller, Writer
  <2> QED BY <2>1, <2>2
<1>9. OpsFit'
  BY <1>0, <1>8, OpsStay
<1>10. InitIsGuarded'
  <2>1. Live = {s} /\ Live' = {}
    BY <1>0, <1>6 DEF OneLive, Live
  <2>2. \A o \in Operation : Guards(o.of) => Guards(o.of)'
    BY <1>0, <2>1 DEF Guards
  <2> QED BY <1>0, <2>2, GuardStays DEF pool
<1>11. AppendIsUnowned'
  <2>1. ~AppendWhileHeld => \A o \in Operation : Queued(o) /\ o.kind = "append" => Unowned'
    BY <1>7 DEF AppendIsUnowned, Queued
  <2> QED BY <1>0, <1>7, <2>1, AppendStays
<1> QED BY <1>4, <1>7, <1>9, <1>10, <1>11

\* The last flush is done and the release of the state is queued.
LEMMA FlushedInv ==
    ASSUME IInv, NEW s \in Slots, FlushedForRetirement(s)
    PROVE  IInv'
<1> USE DEF IInv
<1> DEFINE x == [session[s] EXCEPT !.where = "retiring"]
<1>0. /\ TypeOK /\ session[s] \in Session /\ session[s].acked <= Len(session[s].events)
      /\ chain \in Seq(Operation)
      /\ session[s].where = "disposed" /\ session[s].init = "ready" /\ session[s].busy = "no"
      /\ UNCHANGED <<store, pool, tracked, retiring, caller, stage, writing, budget>>
  BY DEF TypeOK, FlushedForRetirement
<1>1. /\ x \in Session /\ x.where = "retiring" /\ x.events = session[s].events
      /\ x.acked = session[s].acked /\ x.init = session[s].init
  BY <1>0 DEF Session
<1>2. session' = [session EXCEPT ![s] = x]
  BY DEF FlushedForRetirement
<1> HIDE DEF x
<1>3. /\ session' \in [Slots -> Session] /\ session'[s] = x
      /\ \A n \in Slots \ {s} : session'[n] = session[n]
      /\ \A n \in Slots : session'[n].acked <= Len(session'[n].events)
  BY <1>0, <1>1, <1>2, SessionIs
<1>4. Op("retire", s, 0) \in Operation
  BY DEF Op, Operation
<1>5. PICK p \in Operation : chain' = Append(chain, p) /\ p.kind = "retire" /\ p.of = s
  BY <1>4 DEF FlushedForRetirement, Op
<1>6. chain' \in Seq(Operation)
  BY <1>0, <1>5, Appended
<1>7. TypeOK'
  BY <1>0, <1>3, <1>6 DEF TypeOK, store, pool, budget
<1>8. \A d \in Callers : Stays(d)
  BY <1>0 DEF Stays
<1>9. \A n \in Slots :
        /\ session'[n].where = (IF n = s THEN "retiring" ELSE session[n].where)
        /\ session'[n].events = session[n].events
        /\ session'[n].init = session[n].init /\ session'[n].acked = session[n].acked
  BY <1>1, <1>3
<1>10. /\ SourcesAreRead' /\ CursorIsEnd' /\ CallersFit' /\ HoldersFit' /\ StageFits'
       /\ OneLive' /\ ReadyFits' /\ PreparedExtends' /\ LogIsOwned'
       /\ Unowned => Unowned'
       /\ \A o \in Operation : current # o.of => current' # o.of
  BY <1>0, <1>5, <1>7, <1>8, <1>9, SessionMoves
<1>11. \A o \in Operation : Queued(o) => Fits(o)' /\ ~Clash(o, p)
  <2> SUFFICES ASSUME NEW o \in Operation, Queued(o)
               PROVE  Fits(o)' /\ ~Clash(o, p)
    OBVIOUS
  <2>1. Fits(o)
    BY DEF OpsFit
  <2>2. o.kind \in OfSlot => o.of # s
    BY <1>0, <2>1 DEF Fits, OfSlot, Writer, NoSession
  <2>3. tracked' = tracked /\ entry' = entry /\ caller' = caller
    BY <1>0 DEF pool
  <2>4. Fits(o)'
    BY <1>3, <2>1, <2>2, <2>3, FitsForSlot
  <2> QED BY <1>5, <2>2, <2>4 DEF Clash, OfCaller
<1>12. Fits(p)'
  BY <1>5, <1>9 DEF Fits, OfCaller, Writer
<1>13. OpsFit'
  BY <1>0, <1>5, <1>11, <1>12, OpsGrow
<1>14. InitIsGuarded'
  <2>1. Live' = Live /\ retiring' = retiring /\ current' = current
    BY <1>0, <1>9 DEF Live, pool
  <2> QED BY <1>5, <2>1, GuardGrows DEF Guards
<1>15. AppendIsUnowned'
  <2>1. ~AppendWhileHeld => \A o \in Operation : Queued(o) /\ o.kind = "append" => Unowned'
    BY <1>10 DEF AppendIsUnowned, Queued
  <2> QED BY <1>5, <1>10, <2>1, AppendGrows
<1> QED BY <1>7, <1>10, <1>13, <1>14, <1>15

\* The last flush failed: nothing of the session is queued any more.
LEMMA RetireFailsInv ==
    ASSUME IInv, NEW s \in Slots, RetireFails(s)
    PROVE  IInv'
<1> USE DEF IInv
<1> DEFINE x == [session[s] EXCEPT !.where = "stuck"]
<1>0. /\ TypeOK /\ session[s] \in Session /\ session[s].acked <= Len(session[s].events)
      /\ session[s].where = "failing" \/ (session[s].where = "disposed" /\ session[s].init = "failed")
      /\ retiring' = (IF retiring = s THEN 0 ELSE retiring)
      /\ UNCHANGED <<store, pool, tracked, work, budget>>
      /\ chain' = chain /\ stage' = stage /\ writing' = writing
      /\ retiring \in Slots \cup {0} /\ caller \in [Callers -> Caller]
  BY DEF TypeOK, RetireFails, work
<1>1. /\ x \in Session /\ x.where = "stuck" /\ x.events = session[s].events
      /\ x.acked = session[s].acked /\ x.init = session[s].init
  BY <1>0 DEF Session
<1>2. session' = [session EXCEPT ![s] = x]
  BY DEF RetireFails
<1> HIDE DEF x
<1>3. /\ session' \in [Slots -> Session] /\ session'[s] = x
      /\ \A n \in Slots \ {s} : session'[n] = session[n]
      /\ \A n \in Slots : session'[n].acked <= Len(session'[n].events)
  BY <1>0, <1>1, <1>2, SessionIs
<1>4. /\ caller' \in [Callers -> Caller]
      /\ \A d \in Callers : caller'[d] = caller[d] \/ (caller[d].pc = "start" /\ caller'[d] = Idle)
  <2>1. Idle \in Caller
    BY DEF Idle, Caller, Kinds
  <2> QED BY <1>0, <2>1 DEF RetireFails
<1>5. TypeOK'
  BY <1>0, <1>3, <1>4 DEF TypeOK, store, pool, budget
<1>6. \A d \in Callers : Stays(d) \/ Leaves(d)
  BY <1>4 DEF Stays, Leaves, Idle
<1>7. \A n \in Slots :
        /\ session'[n].where = (IF n = s THEN "stuck" ELSE session[n].where)
        /\ session'[n].events = session[n].events
        /\ session'[n].init = session[n].init /\ session'[n].acked = session[n].acked
  BY <1>1, <1>3
<1>8. /\ SourcesAreRead' /\ CursorIsEnd' /\ CallersFit' /\ HoldersFit' /\ StageFits'
      /\ OneLive' /\ ReadyFits' /\ PreparedExtends' /\ LogIsOwned'
      /\ Unowned => Unowned'
      /\ \A o \in Operation : current # o.of => current' # o.of
  BY <1>0, <1>5, <1>6, <1>7, SessionMoves
<1>9. \A o \in Operation : Fits(o) => Fits(o)' /\ (o.kind \in OfSlot => o.of # s)
  <2> SUFFICES ASSUME NEW o \in Operation, Fits(o)
               PROVE  Fits(o)' /\ (o.kind \in OfSlot => o.of # s)
    OBVIOUS
  <2>1. o.kind \in OfSlot => o.of # s
    BY <1>0 DEF Fits, OfSlot, Writer, NoSession
  <2>2. tracked' = tracked /\ entry' = entry
    BY <1>0 DEF pool
  <2>3. \A d \in Callers : caller[d].pc \in {"commit", "checking"} =>
           caller'[d].pc = caller[d].pc /\ caller'[d].on = caller[d].on
    BY <1>4
  <2> QED BY <1>3, <2>1, <2>2, <2>3, FitsForSlot
<1>10. OpsFit'
  BY <1>0, <1>9, OpsStay
<1>11. InitIsGuarded'
  <2>1. Live' = Live /\ current' = current
    BY <1>0, <1>7 DEF Live, pool
  <2>2. \A o \in Operation : Queued(o) /\ o.kind = "init" => o.of # s
    BY <1>9 DEF OpsFit, OfSlot, Writer
  <2>3. \A o \in Operation : Queued(o) /\ o.kind = "init" => (Guards(o.of) => Guards(o.of)')
    BY <1>0, <2>1, <2>2 DEF Guards
  <2> QED BY <1>0, <2>1, <2>3, GuardStays
<1>12. AppendIsUnowned'
  <2>1. ~AppendWhileHeld => \A o \in Operation : Queued(o) /\ o.kind = "append" => Unowned'
    BY <1>8 DEF AppendIsUnowned, Queued
  <2> QED BY <1>0, <1>8, <2>1, AppendStays
<1> QED BY <1>5, <1>8, <1>10, <1>11, <1>12

-----------------------------------------------------------------------------
(* What is requested of the chain and what enters the slots. *)

\* Who has an entry past the claim holds it while it is the pool's.
LEMMA PastIsHeld ==
    ASSUME IInv, ~Held
    PROVE  \A d \in Callers : /\ ~Holds(d)
                              /\ caller[d].pc \in Past => current # caller[d].on
<1> SUFFICES ASSUME NEW d \in Callers
             PROVE  ~Holds(d) /\ (caller[d].pc \in Past => current # caller[d].on)
  OBVIOUS
<1>1. /\ CallerFits(d) /\ (current # 0 => entry[current].phase # "gone")
      /\ caller[d].pc \notin {"idle", "start"} => caller[d].on # 0
      /\ caller[d].pc = "held" => current = caller[d].on
  BY CallersNow
<1>2. caller[d].pc \in Past => current # caller[d].on
  BY <1>1 DEF CallerFits, Past, Held
<1> QED BY <1>1, <1>2 DEF Holds, Past

\* With no live session and no retirement no binding is queued.
LEMMA NoBinding ==
    ASSUME TypeOK, InitIsGuarded, Live = {}, retiring = 0
    PROVE  \A i \in DOMAIN chain : chain[i].kind # "init"
<1> SUFFICES ASSUME NEW i \in DOMAIN chain, chain[i].kind = "init" PROVE FALSE
  OBVIOUS
<1>1. PICK j \in DOMAIN chain, o \in Operation :
           j >= i /\ chain[j] = o /\ o.kind = "init" /\ Guards(o.of)
  BY DEF InitIsGuarded
<1>2. o.of \in Slots
  BY <1>1 DEF Operation
<1> QED BY <1>1, <1>2 DEF Guards, Slots

\* An operation that no session, entry or caller waits for is queued.
LEMMA RequestKept ==
    ASSUME IInv, NEW p \in Operation, p.kind \in {"append", "delete"}, chain' = Append(chain, p),
           UNCHANGED <<store, pool, tracked, session, retiring, caller, stage, writing>>,
           calls' \in Nat, acts' \in Nat, faults' \in Nat
    PROVE  /\ TypeOK' /\ SourcesAreRead' /\ CursorIsEnd' /\ CallersFit' /\ HoldersFit'
           /\ StageFits' /\ OpsFit' /\ OneLive' /\ InitIsGuarded' /\ ReadyFits'
           /\ PreparedExtends' /\ LogIsOwned'
<1> USE DEF IInv
<1>1. /\ chain' \in Seq(Operation) /\ TypeOK
      /\ session' = session /\ retiring' = retiring /\ tracked' = tracked
      /\ entry' = entry /\ current' = current /\ caller' = caller
  BY Appended DEF TypeOK, pool
<1>2. TypeOK'
  BY <1>1 DEF TypeOK, store
<1>3. \A d \in Callers : Stays(d)
  BY <1>1 DEF Stays
<1>4. /\ SourcesAreRead' /\ CursorIsEnd' /\ CallersFit' /\ HoldersFit' /\ StageFits'
      /\ OneLive' /\ ReadyFits' /\ PreparedExtends' /\ LogIsOwned'
  BY <1>1, <1>2, <1>3, SessionMoves
<1>5. \A o \in Operation : Fits(o) => Fits(o)'
  BY <1>1 DEF Fits
<1>6. Fits(p)' /\ p.kind # "init" /\ \A o \in Operation : ~Clash(o, p)
  BY DEF Fits, Clash, OfCaller, OfSlot, Writer
<1>7. OpsFit'
  BY <1>1, <1>5, <1>6, OpsGrow
<1>8. InitIsGuarded'
  BY <1>1, <1>6, GuardGrows DEF Guards, Live
<1> QED BY <1>2, <1>4, <1>7, <1>8

\* A deletion is requested.
LEMMA RequestDeleteInv ==
    ASSUME IInv, RequestDelete
    PROVE  IInv'
<1> USE DEF IInv
<1>1. Op("delete", 0, 0) \in Operation
  BY DEF Op, Operation
<1>2. PICK p \in Operation : chain' = Append(chain, p) /\ p.kind = "delete"
  BY <1>1 DEF RequestDelete, Op
<1>3. /\ TypeOK' /\ SourcesAreRead' /\ CursorIsEnd' /\ CallersFit' /\ HoldersFit'
      /\ StageFits' /\ OpsFit' /\ OneLive' /\ InitIsGuarded' /\ ReadyFits'
      /\ PreparedExtends' /\ LogIsOwned'
  BY <1>2, RequestKept DEF RequestDelete, TypeOK
<1>4. AppendIsUnowned'
  <2>1. tracked' = tracked /\ current' = current /\ caller' = caller
    BY DEF RequestDelete, pool
  <2>2. ~AppendWhileHeld => \A o \in Operation : Queued(o) /\ o.kind = "append" => Unowned'
    BY <2>1 DEF AppendIsUnowned, Queued, Unowned, Holds
  <2> QED BY <1>2, <2>1, <2>2, AppendGrows
<1> QED BY <1>3, <1>4

\* An append is requested, for an identity that is not in use.
LEMMA RequestAppendInv ==
    ASSUME IInv, RequestAppend
    PROVE  IInv'
<1> USE DEF IInv
<1>0. /\ TypeOK /\ chain \in Seq(Operation) /\ acts \in Nat
      /\ log \in Seq(Event) /\ Balanced(log) \in Seq(Event)
  <2>1. TypeOK /\ chain \in Seq(Operation) /\ acts \in Nat /\ log \in Seq(Event)
    BY DEF TypeOK
  <2>2. Closer \in Event
    BY DEF Event, Closer
  <2> QED BY <2>1, <2>2, Appended DEF Balanced
<1>1. Op("append", Len(Balanced(log)), NewEvent) \in Operation
  BY <1>0 DEF Op, Operation, NewEvent
<1>2. PICK p \in Operation : chain' = Append(chain, p) /\ p.kind = "append"
  BY <1>1 DEF RequestAppend, Op
<1>3. /\ TypeOK' /\ SourcesAreRead' /\ CursorIsEnd' /\ CallersFit' /\ HoldersFit'
      /\ StageFits' /\ OpsFit' /\ OneLive' /\ InitIsGuarded' /\ ReadyFits'
      /\ PreparedExtends' /\ LogIsOwned'
  BY <1>2, RequestKept DEF RequestAppend, TypeOK
<1>4. AppendIsUnowned'
  <2> SUFFICES ASSUME ~AppendWhileHeld PROVE AppendIsUnowned'
    BY DEF AppendIsUnowned
  <2>1. /\ tracked' = tracked /\ current' = current /\ caller' = caller
        /\ ~Held /\ tracked.owner = 0 /\ retiring = 0 /\ Live = {}
    BY DEF RequestAppend, pool
  <2>2. Unowned'
    BY <2>1, PastIsHeld DEF Unowned, Holds
  <2>3. /\ DOMAIN chain = 1..Len(chain) /\ Len(chain) \in Nat
        /\ DOMAIN chain' = DOMAIN chain \cup {Len(chain) + 1}
        /\ \A i \in DOMAIN chain : chain'[i] = chain[i]
    BY <1>0, <1>2, Appended
  <2>4. ASSUME NEW j \in DOMAIN chain
        PROVE  /\ chain[j].kind # "init"
               /\ chain[j].kind = "commit" => current # chain[j].of
    <3>1. chain[j] \in Operation /\ Queued(chain[j])
      BY <1>0 DEF Queued
    <3>2. PICK o \in Operation : o = chain[j]
      BY <3>1
    <3>3. Fits(o)
      BY <3>1, <3>2 DEF OpsFit
    <3>4. o.kind = "commit" => current # o.of
      BY <2>1, <3>3, PastIsHeld DEF Fits, OfCaller, Operation, Past
    <3> QED BY <1>0, <2>1, <3>2, <3>4, NoBinding
  <2>5. \A i \in DOMAIN chain' : \A j \in 1..(i - 1) : j \in DOMAIN chain
    BY <2>3
  <2> QED BY <2>1, <2>2, <2>3, <2>4, <2>5 DEF AppendIsUnowned
<1> QED BY <1>3, <1>4

\* A cold read is started for an identity that nobody is about to bind.
LEMMA BeginReads ==
    ASSUME IInv, NEW c \in Callers, caller[c].pc = "start", retiring = 0, Live = {},
           current = 0, FreeSlots # {}, current' = NewSlot,
           entry' = [entry EXCEPT ![NewSlot] = [NoEntry EXCEPT !.phase = "loading"]],
           session' = [session EXCEPT ![NewSlot] = NoSession],
           caller' = [caller EXCEPT ![c].pc = "await", ![c].on = NewSlot],
           chain' = Append(chain, Op("load", NewSlot, 0)),
           UNCHANGED <<store, tracked, retiring, stage, writing, budget>>
    PROVE  IInv'
<1> USE DEF IInv
<1>0. PICK n \in Slots :
        /\ n = NewSlot /\ n # 0 /\ current # n /\ tracked.owner # n
        /\ retiring # n /\ session[n].where = "none"
        /\ \A d \in Callers : caller[d].on # n
        /\ \A o \in Operation : Queued(o) /\ o.kind \in OfSlot \cup OfCaller => o.of # n
  BY FreeIs DEF Slots
<1>1. /\ TypeOK /\ 0 \notin Slots
      /\ caller \in [Callers -> Caller] /\ entry \in [Slots -> Entry]
      /\ chain \in Seq(Operation) /\ session \in [Slots -> Session]
      /\ \A d \in Callers :
           /\ CallerFits(d)
           /\ caller[d].pc \notin {"idle", "start"} => caller[d].on \in Slots
           /\ caller[d].pc = "held" => current = caller[d].on
      /\ \A d, e \in Callers :
           caller[d].pc \in Past /\ caller[e].pc \in Past /\ d # e => caller[d].on # caller[e].on
      /\ log' = log /\ revision' = revision /\ revision \in Nat /\ tracked' = tracked
      /\ tracked.owner \in Slots \cup {0}
  BY CallersNow DEF TypeOK, store, State
<1> DEFINE x == [NoEntry EXCEPT !.phase = "loading"]
<1>2. /\ x \in Entry /\ x.phase = "loading" /\ x.result = "pending" /\ x.source = NoSource
      /\ NoSource.revision = -1
  <2>1. NoSource.revision = -1 /\ NoSource.log = <<>> /\ NoSource \in [revision : Int, log : Seq(Event)]
    BY DEF NoSource
  <2>2. NoEntry.result = "pending" /\ NoEntry.source = NoSource /\ NoEntry \in Entry
    BY <2>1 DEF NoEntry, Entry
  <2> QED BY <2>1, <2>2 DEF Entry
<1>3. entry' = [entry EXCEPT ![n] = x]
  BY <1>0
<1> HIDE DEF x
<1>4. /\ entry' \in [Slots -> Entry] /\ entry'[n] = x
      /\ \A e \in Slots \ {n} : entry'[e] = entry[e]
  <2>1. entry \in [Slots -> Entry] /\ x \in Entry
    BY <1>1, <1>2
  <2> QED BY <1>3, <2>1
<1>5. /\ NoSession \in Session /\ NoSession.where = "none" /\ NoSession.acked <= Len(NoSession.events)
  BY DEF NoSession, Session
<1>6. /\ session' \in [Slots -> Session] /\ session'[n] = NoSession
      /\ \A e \in Slots \ {n} : session'[e] = session[e]
      /\ \A e \in Slots : session'[e].acked <= Len(session'[e].events)
  BY <1>0, <1>1, <1>5, SessionIs
<1> DEFINE y == [caller[c] EXCEPT !.pc = "await", !.on = n]
<1>7. y \in Caller /\ y.pc = "await" /\ y.on = n
  <2>1. caller[c] \in Caller
    BY <1>1
  <2> QED BY <2>1 DEF Caller
<1>8. caller' = [caller EXCEPT ![c] = y]
  BY <1>0
<1> HIDE DEF y
<1>9. /\ caller' \in [Callers -> Caller] /\ caller'[c] = y
      /\ \A d \in Callers \ {c} : caller'[d] = caller[d]
  BY <1>1, <1>7, <1>8
<1>10. Op("load", n, 0) \in Operation
  BY DEF Op, Operation
<1>11. PICK p \in Operation : chain' = Append(chain, p) /\ p.kind = "load" /\ p.of = n
  BY <1>0, <1>10 DEF Op
<1>12. chain' \in Seq(Operation)
  BY <1>1, <1>11, Appended
<1>13. TypeOK'
  BY <1>0, <1>1, <1>4, <1>6, <1>9, <1>12 DEF TypeOK, budget
<1>14. SourcesAreRead'
  <2>1. x.source.revision <= revision /\ x.source.revision # revision
    <3>1. NoSource.revision <= revision /\ NoSource.revision # revision
      BY <1>1, <1>2
    <3> QED BY <1>2, <3>1
  <2>2. ASSUME NEW m \in Slots
        PROVE  /\ entry'[m].source.revision <= revision
               /\ entry'[m].source.revision = revision => entry'[m].source.log = log
    <3>1. CASE m = n
      BY <1>4, <2>1, <3>1
    <3>2. CASE m # n
      <4>1. entry'[m] = entry[m]
        BY <1>4, <3>2
      <4> QED BY <4>1 DEF SourcesAreRead
    <3> QED BY <3>1, <3>2
  <2> QED BY <1>1, <2>2 DEF SourcesAreRead
<1>15. CursorIsEnd'
  BY <1>0, <1>1, <1>6 DEF CursorIsEnd, Interrupted
<1>16. CallersFit'
  <2>1. CallerFits(c)' /\ caller'[c].pc \notin Past
    BY <1>0, <1>7, <1>9 DEF CallerFits, Wanting, Past
  <2>2. ASSUME NEW d \in Callers \ {c}
        PROVE  CallerFits(d)'
    <3>1. caller[d].pc \notin {"idle", "start"} => caller[d].on \in Slots \ {n}
      BY <1>0, <1>1
    <3>2. /\ CallerFits(d) /\ caller'[d] = caller[d]
          /\ caller[d].pc \in Wanting => /\ entry'[caller[d].on] = entry[caller[d].on]
                                        /\ session'[caller[d].on] = session[caller[d].on]
      BY <1>1, <1>4, <1>6, <1>9, <3>1 DEF Wanting, Past
    <3> QED BY <3>2 DEF CallerFits, Wanting, Past
  <2>3. entry'[current'].phase # "gone" /\ session'[current'].where = "none"
    BY <1>0, <1>2, <1>4, <1>5, <1>6
  <2>4. \A d, e \in Callers :
           caller'[d].pc \in Past /\ caller'[e].pc \in Past /\ d # e
             => caller'[d].on # caller'[e].on
    BY <1>1, <1>9, <2>1
  <2> QED BY <2>1, <2>2, <2>3, <2>4 DEF CallersFit
<1>17. \A d \in Callers : ~Holds(d)'
  <2> SUFFICES ASSUME NEW d \in Callers PROVE ~Holds(d)'
    OBVIOUS
  <2>1. CASE d = c
    BY <1>7, <1>9, <2>1 DEF Holds
  <2>2. CASE d # c
    BY <1>0, <1>1, <1>9, <2>2 DEF Holds
  <2> QED BY <2>1, <2>2
<1>18. HoldersFit'
  BY <1>17 DEF HoldersFit
<1>19. StageFits'
  <2>1. tracked.owner # 0 => session'[tracked.owner].events = session[tracked.owner].events
    BY <1>0, <1>1, <1>6
  <2> QED BY <1>1, <1>11, <2>1, StageKept
<1>20. \A i \in DOMAIN chain : chain[i].kind # "init"
  BY <1>1, NoBinding
<1>21. \A o \in Operation : Queued(o) => Fits(o)' /\ ~Clash(o, p) /\ o.kind # "init"
  <2> SUFFICES ASSUME NEW o \in Operation, Queued(o)
               PROVE  Fits(o)' /\ ~Clash(o, p) /\ o.kind # "init"
    OBVIOUS
  <2>1. Fits(o) /\ o.kind # "init"
    BY <1>20 DEF OpsFit, Queued
  <2>2. o.kind \in OfSlot => o.of # n
    BY <1>0
  <2>3. \A d \in Callers : caller[d].pc \in {"commit", "checking"} =>
           caller'[d].pc = caller[d].pc /\ caller'[d].on = caller[d].on
    BY <1>9
  <2>4. Fits(o)'
    BY <1>1, <1>4, <1>6, <2>1, <2>2, <2>3, FitsForSlot
  <2> QED BY <1>11, <2>1, <2>2, <2>4 DEF Clash, OfCaller
<1>22. Fits(p)'
  BY <1>2, <1>4, <1>6, <1>11 DEF Fits, OfCaller, Writer
<1>23. OpsFit'
  BY <1>1, <1>11, <1>21, <1>22, OpsGrow
<1>24. OneLive' /\ Live' = Live
  BY <1>0, <1>5, <1>6 DEF OneLive, Live
<1>25. InitIsGuarded'
  BY <1>1, <1>11, <1>21, GuardGrows
<1>26. ReadyFits'
  BY <1>0, <1>1, <1>5, <1>6 DEF ReadyFits
<1>27. PreparedExtends'
  BY <1>2, <1>4, <1>6 DEF PreparedExtends
<1>28. AppendIsUnowned'
  <2>1. ~AppendWhileHeld => \A o \in Operation : Queued(o) /\ o.kind = "append" => Unowned'
    BY <1>1, <1>17 DEF AppendIsUnowned, Queued, Unowned
  <2>2. \A o \in Operation : Queued(o) /\ o.kind = "commit" => current' # o.of
    BY <1>0 DEF OfCaller
  <2> QED BY <1>1, <1>11, <2>1, <2>2, AppendGrows
<1>29. LogIsOwned'
  BY <1>0, <1>1, <1>6 DEF LogIsOwned
<1> QED BY <1>13, <1>14, <1>15, <1>16, <1>18, <1>19, <1>23, <1>24, <1>25, <1>26, <1>27,
           <1>28, <1>29

\* The head of the retry loop.
LEMMA BeginInv ==
    ASSUME IInv, NEW c \in Callers, Begin(c)
    PROVE  IInv'
<1>1. CASE /\ UNCHANGED <<pool, session, chain>>
           /\ \/ caller' = Done(caller, c)
              \/ /\ current # 0
                 /\ caller' = [caller EXCEPT ![c].pc = "await", ![c].on = current]
  BY <1>1, BeginJoins DEF Begin, work
<1>2. CASE ~(/\ UNCHANGED <<pool, session, chain>>
             /\ \/ caller' = Done(caller, c)
                \/ /\ current # 0
                   /\ caller' = [caller EXCEPT ![c].pc = "await", ![c].on = current])
  BY <1>2, BeginReads DEF Begin
<1> QED BY <1>1, <1>2

-----------------------------------------------------------------------------
(* The running operation. *)

\* A commit is answered without a reservation.
LEMMA CommitAnswered ==
    ASSUME IInv, Running("commit"), NEW c \in Callers, c = Head1.arg, NEW pc \in {"failed", "stale"},
           caller' = [caller EXCEPT ![c].pc = pc], Finish,
           UNCHANGED <<pool, tracked, session, retiring, calls, acts>>, faults' \in Nat,
           log' \in Seq(Event) /\ revision' \in Nat,
           \/ UNCHANGED store
           \/ /\ SourcesAreRead' /\ CursorIsEnd' /\ LogIsOwned'
              /\ \A d \in Callers : ~Holds(d)
    PROVE  IInv'
<1>0. /\ TypeOK /\ 0 \notin Slots
      /\ caller \in [Callers -> Caller] /\ entry \in [Slots -> Entry]
      /\ current \in Slots \cup {0} /\ chain \in Seq(Operation)
      /\ current # 0 => entry[current].phase # "gone"
      /\ CallerFits(c)
      /\ current' = current /\ entry' = entry
  BY CallersNow DEF pool
<1>1. chain # <<>> /\ Head1.kind = "commit" /\ caller[c].pc = "commit"
  <2>1. chain # <<>> /\ Head1.kind = "commit"
    BY DEF Running
  <2>2. Fits(Head1)
    BY <2>1, FirstRuns DEF IInv
  <2> QED BY <2>1, <2>2 DEF Fits, OfCaller
<1>2. /\ caller' \in [Callers -> Caller]
      /\ caller'[c].pc = pc /\ caller'[c].on = caller[c].on
      /\ \A d \in Callers \ {c} : Stays(d)
  BY <1>0, CallerMoves DEF Places
<1>3. chain' \in Seq(Operation) /\ stage' = "queued" /\ writing' \in [at : Nat, events : Seq(Event)]
  BY <1>0, <1>1, Tailed DEF Finish, NoWriting
<1>4. TypeOK'
  BY <1>0, <1>2, <1>3 DEF TypeOK
<1>5. CallerFits(c)' /\ ~Holds(c)'
  BY <1>0, <1>1, <1>2 DEF CallerFits, Wanting, Past, Holds
<1>6. ChainOf(c)
  BY <1>1 DEF ChainOf, Ends, OfCaller
<1>7. \A n \in Slots : entry'[n].source = entry[n].source /\ entry'[n].result = entry[n].result
  BY <1>0
<1>8. \A d \in Callers \ {c} :
             /\ Stays(d)
             /\ caller[d].pc \in Past => entry'[caller[d].on].phase = entry[caller[d].on].phase
             /\ caller[d].pc = "held" => current' = current
  BY <1>0, <1>2
<1>9. caller'[c].on = caller[c].on /\ caller[c].pc \in Past
  BY <1>1, <1>2 DEF Past
<1> QED BY <1>0, <1>4, <1>5, <1>6, <1>7, <1>8, <1>9, CallerStep

\* A log that is stored whole again was read by nobody yet.
LEMMA NewRevision ==
    ASSUME TypeOK, SourcesAreRead, revision' = revision + 1,
           \A n \in Slots : entry'[n].source = entry[n].source
    PROVE  SourcesAreRead' /\ revision' \in Nat
<1>1. /\ revision \in Nat
      /\ \A n \in Slots : entry[n].source.revision \in Int
  BY DEF TypeOK, Entry
<1> QED BY <1>1 DEF SourcesAreRead

\* A log gets balanced.
LEMMA BalancedIs ==
    ASSUME NEW l \in Seq(Event)
    PROVE  /\ Balanced(l) \in Seq(Event) /\ Len(Balanced(l)) >= Len(l)
           /\ ~Interrupted(Balanced(l)) 
<1>1. Closer \in Event /\ ~Closer.open
  BY DEF Event, Closer
<1>2. CASE Interrupted(l)
  <2>1. Balanced(l) = Append(l, Closer)
    BY <1>2 DEF Balanced
  <2> QED BY <1>1, <2>1, ClosedByLast
<1>3. CASE ~Interrupted(l)
  BY <1>3 DEF Balanced
<1> QED BY <1>2, <1>3

\* The step that repairs the log or fails to, seen from the commit.
LEMMA CommitRepairedInv ==
    ASSUME IInv, CommitRepaired
    PROVE  IInv'
<1> USE DEF IInv
<1>1. /\ Running("commit") /\ chain # <<>> /\ stage = "repair" /\ TypeOK /\ log \in Seq(Event)
      /\ revision \in Nat /\ Finish /\ faults \in Nat
      /\ UNCHANGED <<pool, tracked, session, retiring, calls, acts>>
      /\ entry' = entry /\ tracked' = tracked /\ session' = session
  BY DEF CommitRepaired, TypeOK, Running, pool
<1>2. PICK c \in Callers : c = Head1.arg
  <2>1. Head1 \in Operation /\ Head1.kind = "commit"
    BY <1>1, FirstRuns DEF Running
  <2> QED BY <2>1 DEF Operation
<1>3. ~tracked.known /\ tracked = NoState /\ \A d \in Callers : ~Holds(d)
  BY <1>1 DEF StageFits, CursorIsEnd, HoldersFit
<1>4. CASE /\ log' = Balanced(log) /\ revision' = revision + 1
           /\ caller' = [caller EXCEPT ![Head1.arg].pc = "stale"]
           /\ UNCHANGED faults
  <2>1. log' \in Seq(Event)
    BY <1>1, <1>4, BalancedIs
  <2>2. SourcesAreRead' /\ revision' \in Nat
    BY <1>1, <1>4, NewRevision
  <2>3. CursorIsEnd' /\ LogIsOwned'
    BY <1>1, <1>3 DEF CursorIsEnd, LogIsOwned, NoState
  <2> QED BY <1>1, <1>2, <1>3, <1>4, <2>1, <2>2, <2>3, CommitAnswered
<1>5. CASE /\ Fault
           /\ caller' = [caller EXCEPT ![Head1.arg].pc = "failed"]
           /\ UNCHANGED store
  <2>1. faults' \in Nat /\ log' \in Seq(Event) /\ revision' \in Nat
    BY <1>1, <1>5 DEF Fault, store
  <2> QED BY <1>1, <1>2, <1>5, <2>1, CommitAnswered
<1> QED BY <1>4, <1>5 DEF CommitRepaired

\* Nothing moves but the stage of the running operation, while nobody holds; the
\* log may be repaired meanwhile, or grow behind the coordinator's back.
LEMMA StageMoves ==
    ASSUME IInv, TypeOK', StageFits', stage # "queued" => stage' # "queued",
           UNCHANGED <<pool, tracked, session, retiring, caller, chain>>,
           UNCHANGED store \/ (SourcesAreRead' /\ CursorIsEnd' /\ LogIsOwned'),
           \A d \in Callers : ~Holds(d)
    PROVE  IInv'
<1> USE DEF IInv
<1>0. /\ current' = current /\ entry' = entry
      /\ tracked' = tracked /\ session' = session /\ retiring' = retiring
      /\ caller' = caller /\ chain' = chain
  BY DEF pool
<1>1. /\ SourcesAreRead' /\ CursorIsEnd' /\ OneLive' /\ ReadyFits' /\ PreparedExtends'
      /\ LogIsOwned'
  <2>1. OneLive' /\ ReadyFits' /\ PreparedExtends'
    BY <1>0 DEF OneLive, Live, ReadyFits, PreparedExtends
  <2>2. CASE UNCHANGED store
    BY <1>0, <2>2, PoolKept
  <2> QED BY <2>1, <2>2
<1>2. \A d \in Callers : ~Holds(d)' /\ (CallerFits(d) => CallerFits(d)')
  BY <1>0 DEF Holds, CallerFits
<1>3. CallersFit'
  BY <1>0, <1>2 DEF CallersFit
<1>4. HoldersFit'
  BY <1>2 DEF HoldersFit
<1>5. OpsFit'
  <2>1. \A o \in Operation : Fits(o) => Fits(o)'
    BY <1>0 DEF Fits
  <2> QED BY <1>0, <2>1, OpsStay
<1>6. InitIsGuarded'
  BY <1>0, GuardStays DEF Guards, Live
<1>7. AppendIsUnowned'
  <2>1. ~AppendWhileHeld => \A o \in Operation : Queued(o) /\ o.kind = "append" => Unowned'
    BY <1>0, <1>2 DEF AppendIsUnowned, Queued, Unowned
  <2> QED BY <1>0, <2>1, AppendStays
<1> QED BY <1>1, <1>3, <1>4, <1>5, <1>6, <1>7

\* The reservation is granted: the source is what is stored, and the durable
\* cursor stands at its end.
LEMMA CommitGranted ==
    ASSUME IInv, Running("commit"), NEW c \in Callers, c = Head1.arg, tracked.owner = 0,
           entry[Head1.of].source.revision = revision,
           ~Interrupted(entry[Head1.of].source.log),
           tracked' = [known |-> TRUE, cursor |-> Len(entry[Head1.of].source.log),
                       materialized |-> TRUE, owner |-> 0],
           caller' = [caller EXCEPT ![c].pc = "committed"], Finish,
           UNCHANGED <<store, pool, session, retiring, budget>>
    PROVE  IInv'
<1> USE DEF IInv
<1>0. /\ TypeOK /\ 0 \notin Slots
      /\ caller \in [Callers -> Caller] /\ entry \in [Slots -> Entry]
      /\ current \in Slots \cup {0} /\ chain \in Seq(Operation)
      /\ current # 0 => entry[current].phase # "gone" /\ session[current].where = "none"
      /\ \A d \in Callers : CallerFits(d)
      /\ current' = current /\ entry' = entry /\ log' = log /\ revision' = revision
      /\ session' = session /\ retiring' = retiring /\ log \in Seq(Event)
  BY CallersNow DEF pool, store, TypeOK
<1>1. chain # <<>> /\ Head1.kind = "commit" /\ Head1 \in Operation /\ Fits(Head1) /\ stage' = "queued"
  BY FirstRuns DEF Running, Finish
<1>2. PICK n \in Slots : n = Head1.of
  BY <1>1 DEF Operation
<1>3. /\ caller[c].pc = "commit" /\ caller[c].on = n
      /\ entry[n].source.revision = revision /\ entry[n].source.log = log /\ ~Interrupted(log)
  BY <1>1, <1>2 DEF Fits, OfCaller, SourcesAreRead
<1>4. /\ caller' \in [Callers -> Caller]
      /\ caller'[c].pc = "committed" /\ caller'[c].on = n
      /\ \A d \in Callers \ {c} : caller'[d] = caller[d] /\ Stays(d)
  BY <1>0, <1>3, CallerMoves DEF Places
<1>5. /\ tracked' = [known |-> TRUE, cursor |-> Len(log), materialized |-> TRUE, owner |-> 0]
  BY <1>2, <1>3
<1>6. TypeOK'
  <2>1. chain' \in Seq(Operation) /\ writing' \in [at : Nat, events : Seq(Event)]
    BY <1>0, <1>1, Tailed DEF Finish, NoWriting
  <2>2. tracked' \in State
    BY <1>0, <1>5 DEF State
  <2> QED BY <1>0, <1>1, <1>4, <2>1, <2>2 DEF TypeOK, budget
<1>7. SourcesAreRead'
  BY <1>0 DEF SourcesAreRead
<1>8. CursorIsEnd'
  BY <1>0, <1>3, <1>5 DEF CursorIsEnd, Interrupted
<1>9. CallersFit'
  <2>1. {c} \in SUBSET Callers /\ \A d, e \in {c} : d = e
    OBVIOUS
  <2>2. \A d \in Callers \ {c} : caller[d].pc \in Past => session'[caller[d].on].where = "none"
    BY <1>0 DEF CallerFits
  <2>3. CallerFits(c)'
    BY <1>0, <1>3, <1>4 DEF CallerFits, Wanting, Past
  <2>4. caller'[c].on = caller[c].on /\ caller[c].pc \in Past
    BY <1>3, <1>4 DEF Past
  <2>5. current' # 0 => entry'[current'].phase # "gone" /\ session'[current'].where = "none"
    BY <1>0
  <2>6. \A m \in Slots : entry[m].result = "ok" => entry'[m].result = "ok"
    BY <1>0
  <2>7. \A d \in Callers \ {c} : Stays(d) \/ Leaves(d)
    BY <1>4
  <2>8. \A d \in Callers \ {c} : entry'[caller[d].on].phase = entry[caller[d].on].phase
    BY <1>0
  <2> QED BY <1>0, <1>6, <2>1, <2>2, <2>3, <2>4, <2>5, <2>6, <2>7, <2>8, CallersKept
<1>10. \A d \in Callers \ {c} : Holds(d)' => Holds(d) /\ caller'[d].on = caller[d].on
  BY <1>0, <1>4 DEF Holds
<1>11. HoldersFit'
  <2>1. ASSUME NEW d \in Callers, Holds(d)'
        PROVE  /\ current' = caller'[d].on /\ entry'[current'].source.revision = revision'
    <3>1. CASE d = c
      BY <1>0, <1>3, <1>4, <2>1, <3>1 DEF Holds
    <3>2. CASE d # c
      BY <1>0, <1>10, <2>1, <3>2 DEF HoldersFit
    <3> QED BY <3>1, <3>2
  <2>2. tracked'.known /\ tracked'.materialized /\ tracked'.owner = 0
    BY <1>5
  <2> QED BY <1>1, <2>1, <2>2 DEF HoldersFit
<1>12. StageFits'
  BY <1>1 DEF StageFits
<1>13. OpsFit'
  <2>1. \A o \in Operation : Fits(o) /\ ~Clash(Head1, o) => Fits(o)'
    <3> SUFFICES ASSUME NEW o \in Operation, Fits(o), ~Clash(Head1, o)
                 PROVE  Fits(o)'
      OBVIOUS
    <3>1. CASE o.kind \in OfCaller
      <4>1. o.arg \in Callers \ {c}
        BY <1>1, <3>1 DEF Operation, OfCaller, Clash
      <4> QED BY <1>4, <3>1, <4>1 DEF Fits, OfCaller, Writer
    <3>2. CASE o.kind \in Writer
      <4>1. o.kind = "init"
        BY <1>0, <3>2 DEF Fits, Operation, Writer
      <4> QED BY <1>0, <4>1 DEF Fits, OfCaller, Writer
    <3>3. CASE o.kind \notin OfCaller \cup Writer
      BY <1>0, <3>3 DEF Fits, OfCaller, Writer
    <3> QED BY <3>1, <3>2, <3>3
  <2>2. tracked'.owner = tracked.owner
    BY <1>5
  <2> QED BY <1>1, <2>1, <2>2, OpsPop
<1>14. InitIsGuarded'
  BY <1>0, <1>1, GuardPops DEF Guards, Live
<1>15. AppendIsUnowned'
  <2>1. ~AppendWhileHeld => \A i \in DOMAIN chain : i > 1 /\ chain[i].kind = "append" => Unowned'
    <3> SUFFICES ASSUME ~AppendWhileHeld, NEW i \in DOMAIN chain, i > 1, chain[i].kind = "append"
                 PROVE  Unowned'
      OBVIOUS
    <3>1. 1 \in 1..(i - 1)
      BY <1>0
    <3>2. Unowned /\ current # n
      BY <1>1, <1>2, <3>1 DEF AppendIsUnowned, Head1
    <3> QED BY <1>0, <1>4, <1>5, <1>10, <3>2 DEF Unowned, Holds
  <2> QED BY <1>0, <1>1, <2>1, AppendPops
<1>16. OneLive' /\ PreparedExtends'
  BY <1>0 DEF OneLive, Live, PreparedExtends
<1>17. ReadyFits' /\ LogIsOwned'
  BY <1>0, <1>5 DEF ReadyFits, LogIsOwned
<1> QED BY <1>6, <1>7, <1>8, <1>9, <1>11, <1>12, <1>13, <1>14, <1>15, <1>16, <1>17

\* A commit runs.
LEMMA CommitRunsInv ==
    ASSUME IInv, CommitRuns
    PROVE  IInv'
<1>1. /\ Running("commit") /\ chain # <<>> /\ stage = "queued" /\ TypeOK /\ log \in Seq(Event)
      /\ revision \in Nat /\ faults \in Nat /\ Head1.kind = "commit" /\ Head1 \in Operation
      /\ UNCHANGED <<store, pool, session, retiring, calls, acts>>
  BY FirstRuns DEF IInv, CommitRuns, Starts, TypeOK, Running
<1>2. PICK c \in Callers : c = Head1.arg
  BY <1>1 DEF Operation
<1>3. CASE /\ UNCHANGED tracked /\ faults' \in Nat /\ Finish
           /\ \E pc \in {"failed", "stale"} : caller' = [caller EXCEPT ![c].pc = pc]
  <2>1. log' \in Seq(Event) /\ revision' \in Nat
    BY <1>1 DEF store
  <2> QED BY <1>1, <1>2, <1>3, <2>1, CommitAnswered
<1>4. CASE /\ tracked.owner = 0 /\ entry[Head1.of].source.revision = revision
           /\ ~Interrupted(entry[Head1.of].source.log)
           /\ tracked' = [known |-> TRUE, cursor |-> Len(entry[Head1.of].source.log),
                          materialized |-> TRUE, owner |-> 0]
           /\ caller' = [caller EXCEPT ![c].pc = "committed"] /\ Finish
           /\ UNCHANGED faults
  BY <1>1, <1>2, <1>4, CommitGranted DEF budget
<1>5. CASE /\ tracked.owner = 0 /\ entry[Head1.of].source.revision = revision
           /\ Interrupted(entry[Head1.of].source.log)
           /\ stage' = "repair" /\ UNCHANGED <<tracked, caller, chain, writing, faults>>
  <2>1. entry[Head1.of].source.log = log
    BY <1>1, <1>5 DEF IInv, SourcesAreRead, Operation
  <2>2. ~tracked.known
    BY <1>5, <2>1 DEF IInv, CursorIsEnd
  <2>3. \A d \in Callers : ~Holds(d)
    BY <2>2 DEF IInv, HoldersFit
  <2>4. StageFits'
    BY <1>1, <1>5, <2>2 DEF StageFits, Head1
  <2>5. TypeOK'
    BY <1>1, <1>5 DEF TypeOK, store, pool
  <2> QED BY <1>1, <1>5, <2>3, <2>4, <2>5, StageMoves
<1>6. faults' = faults \/ Fault => faults' \in Nat
  BY <1>1 DEF Fault
<1> QED BY <1>2, <1>3, <1>4, <1>5, <1>6 DEF CommitRuns

\* The cold read of a slot settles.
LEMMA LoadSettles ==
    ASSUME IInv, TypeOK', Running("load"), NEW n \in Slots, n = Head1.of, Finish,
           UNCHANGED <<store, tracked, retiring, caller>>,
           \A m \in Slots \ {n} : entry'[m] = entry[m] /\ session'[m] = session[m],
           IF current = n THEN current' = 0 \/ (current' = n /\ entry'[n].phase = "ready")
           ELSE current' = current,
           session'[n].where = "none",
           IF entry'[n].result = "ok"
           THEN /\ entry'[n].source = [revision |-> revision, log |-> log]
                /\ IsPrefix(log, session'[n].events)
           ELSE entry'[n].source = entry[n].source
    PROVE  IInv'
<1> USE DEF IInv
<1>0. /\ TypeOK /\ 0 \notin Slots
      /\ caller \in [Callers -> Caller] /\ entry \in [Slots -> Entry]
      /\ current \in Slots \cup {0} /\ chain \in Seq(Operation)
      /\ current # 0 => entry[current].phase # "gone" /\ session[current].where = "none"
      /\ \A d \in Callers :
           /\ CallerFits(d)
           /\ caller[d].pc \notin {"idle", "start"} => caller[d].on \in Slots
           /\ caller[d].pc = "held" => current = caller[d].on
      /\ \A d, e \in Callers :
           caller[d].pc \in Past /\ caller[e].pc \in Past /\ d # e => caller[d].on # caller[e].on
      /\ log' = log /\ revision' = revision /\ tracked' = tracked /\ retiring' = retiring
      /\ caller' = caller /\ tracked.owner \in Slots \cup {0}
  BY CallersNow DEF store, TypeOK, State
<1>1. /\ chain # <<>> /\ Head1.kind = "load" /\ stage' = "queued"
      /\ entry[n].result = "pending" /\ session[n].where = "none"
  <2>1. chain # <<>> /\ Head1.kind = "load" /\ stage' = "queued" /\ Fits(Head1)
    BY FirstRuns DEF Running, Finish
  <2> QED BY <2>1 DEF Fits, NoSession
<1>2. \A d \in Callers : caller[d].pc \in Wanting =>
         /\ caller[d].on \in Slots \ {n}
         /\ entry'[caller[d].on] = entry[caller[d].on]
         /\ session'[caller[d].on] = session[caller[d].on]
  <2>1. \A d \in Callers : caller[d].pc \in Wanting => caller[d].on \in Slots \ {n}
    BY <1>0, <1>1 DEF CallerFits, Wanting, Past
  <2> QED BY <2>1
<1>3. tracked.owner # n /\ (tracked.owner # 0 => session'[tracked.owner] = session[tracked.owner])
  <2>1. tracked.owner # n
    BY <1>0, <1>1 DEF CursorIsEnd
  <2> QED BY <1>0, <2>1
<1>4. SourcesAreRead'
  <2>1. revision \in Nat
    BY <1>0 DEF TypeOK
  <2>2. ASSUME NEW m \in Slots
        PROVE  /\ entry'[m].source.revision <= revision
               /\ entry'[m].source.revision = revision => entry'[m].source.log = log
    <3>1. CASE m = n /\ entry'[n].result = "ok"
      BY <2>1, <3>1
    <3>2. CASE ~(m = n /\ entry'[n].result = "ok")
      <4>1. entry'[m].source = entry[m].source
        BY <3>2
      <4> QED BY <4>1 DEF SourcesAreRead
    <3> QED BY <3>1, <3>2
  <2> QED BY <1>0, <2>2 DEF SourcesAreRead
<1>5. CursorIsEnd' /\ LogIsOwned'
  BY <1>0, <1>3 DEF CursorIsEnd, LogIsOwned, Interrupted
<1>6. CallersFit'
  <2>1. \A d \in Callers : CallerFits(d)'
    BY <1>0, <1>2 DEF CallerFits, Wanting
  <2>2. current' # 0 => entry'[current'].phase # "gone" /\ session'[current'].where = "none"
    BY <1>0
  <2> QED BY <1>0, <2>1, <2>2 DEF CallersFit
<1>7. \A d \in Callers : Holds(d)' =>
         /\ Holds(d) /\ current' = current /\ entry'[current] = entry[current]
  <2> SUFFICES ASSUME NEW d \in Callers, Holds(d)'
               PROVE  Holds(d) /\ current' = current /\ entry'[current] = entry[current]
    OBVIOUS
  <2>1. caller[d].on \in Slots \ {n}
    BY <1>0, <1>2 DEF Holds, Wanting, Past
  <2> QED BY <1>0, <1>2, <2>1 DEF Holds, Wanting, Past
<1>8. HoldersFit'
  BY <1>0, <1>1, <1>7 DEF HoldersFit
<1>9. StageFits'
  BY <1>1 DEF StageFits
<1>10. OpsFit'
  <2>1. \A o \in Operation : Fits(o) /\ ~Clash(Head1, o) => Fits(o)'
    <3> SUFFICES ASSUME NEW o \in Operation, Fits(o), ~Clash(Head1, o)
                 PROVE  Fits(o)'
      OBVIOUS
    <3>1. o.kind \in OfSlot => o.of # n
      BY <1>1 DEF Clash, OfSlot
    <3> QED BY <1>0, <3>1, FitsForSlot
  <2> QED BY <1>0, <1>1, <2>1, OpsPop
<1>11. Live' = Live
  BY <1>1 DEF Live
<1>12. InitIsGuarded'
  BY <1>0, <1>1, <1>11, GuardPops DEF Guards
<1>13. AppendIsUnowned'
  <2>1. ~AppendWhileHeld => \A i \in DOMAIN chain : i > 1 /\ chain[i].kind = "append" => Unowned'
    BY <1>0, <1>7 DEF AppendIsUnowned, Unowned
  <2>2. \A o \in Operation : Queued(o) /\ o.kind = "commit" /\ current # o.of => current' # o.of
    BY <1>0 DEF Operation
  <2> QED BY <1>0, <1>1, <2>1, <2>2, AppendPops
<1>14. OneLive'
  BY <1>11 DEF OneLive
<1>15. ReadyFits'
  BY <1>0, <1>1 DEF ReadyFits
<1>16. PreparedExtends'
  <2>1. ASSUME NEW m \in Slots, entry'[m].result = "ok"
        PROVE  IsPrefix(entry'[m].source.log, session'[m].events)
    <3>1. CASE m = n
      <4>1. entry'[m].source.log = log
        BY <2>1, <3>1
      <4> QED BY <2>1, <3>1, <4>1
    <3>2. CASE m # n
      <4>1. entry'[m] = entry[m] /\ session'[m] = session[m]
        BY <3>2
      <4> QED BY <2>1, <4>1 DEF PreparedExtends
    <3> QED BY <3>1, <3>2
  <2> QED BY <2>1 DEF PreparedExtends
<1> QED BY <1>4, <1>5, <1>6, <1>8, <1>9, <1>10, <1>12, <1>13, <1>14, <1>15, <1>16

\* A cold read returns.
LEMMA LoadReturnsInv ==
    ASSUME IInv, LoadReturns
    PROVE  IInv'
<1>1. /\ Running("load") /\ chain # <<>> /\ TypeOK /\ 0 \notin Slots /\ log \in Seq(Event)
      /\ revision \in Nat /\ faults \in Nat /\ Head1.kind = "load" /\ Head1 \in Operation
      /\ Fits(Head1) /\ current \in Slots \cup {0} /\ chain \in Seq(Operation)
      /\ entry \in [Slots -> Entry] /\ session \in [Slots -> Session]
      /\ UNCHANGED <<store, tracked, retiring, caller, calls, acts>> /\ Finish
  BY FirstRuns DEF IInv, LoadReturns, Starts, TypeOK, Running, Slots
<1>2. PICK n \in Slots : n = Head1.of
  BY <1>1 DEF Operation
<1>3. session[n] = NoSession /\ entry[n] \in Entry /\ NoSession \in Session /\ NoSession.acked = 0
      /\ NoSession.where = "none"
  BY <1>1, <1>2 DEF Fits, NoSession, Session
<1>4. /\ chain' \in Seq(Operation) /\ stage' = "queued"
      /\ writing' \in [at : Nat, events : Seq(Event)]
  BY <1>1, Tailed DEF Finish, NoWriting
<1>5. CASE /\ log # <<>> /\ Live = {}
           /\ entry' = [entry EXCEPT
                ![n].phase = IF current = n THEN "ready" ELSE "gone",
                ![n].result = "ok",
                ![n].source = [revision |-> revision, log |-> log]]
           /\ LET events == Seeded(Balanced(log))
              IN session' = [session EXCEPT ![n].events = events,
                                            ![n].seeded = Len(events)]
           /\ UNCHANGED <<current, faults>>
  <2> DEFINE x == [entry[n] EXCEPT !.phase = IF current = n THEN "ready" ELSE "gone",
                                   !.result = "ok",
                                   !.source = [revision |-> revision, log |-> log]]
             events == Seeded(Balanced(log))
             y == [session[n] EXCEPT !.events = events, !.seeded = Len(events)]
  <2>1. events \in Seq(Event) /\ IsPrefix(log, events) /\ Len(events) \in Nat
    BY <1>1, SeedExtends
  <2> HIDE DEF events
  <2>2. /\ x \in Entry /\ x.result = "ok" /\ x.source = [revision |-> revision, log |-> log]
        /\ current = n => x.phase = "ready"
    <3>1. [revision |-> revision, log |-> log] \in [revision : Int, log : Seq(Event)]
      BY <1>1
    <3> QED BY <1>3, <3>1 DEF Entry
  <2>3. y \in Session /\ y.events = events /\ y.acked = 0 /\ y.where = "none"
    BY <1>3, <2>1 DEF Session
  <2>4. entry' = [entry EXCEPT ![n] = x] /\ session' = [session EXCEPT ![n] = y]
    BY <1>5 DEF events
  <2> HIDE DEF x, y
  <2>5. /\ entry' \in [Slots -> Entry] /\ entry'[n] = x
        /\ \A m \in Slots \ {n} : entry'[m] = entry[m]
    BY <1>1, <2>2, <2>4
  <2>6. /\ session' \in [Slots -> Session] /\ session'[n] = y
        /\ \A m \in Slots \ {n} : session'[m] = session[m]
        /\ \A m \in Slots : session'[m].acked <= Len(session'[m].events)
    <3>1. y.acked <= Len(y.events)
      BY <2>1, <2>3
    <3> QED BY <1>1, <2>3, <2>4, <3>1, SessionIs
  <2>7. TypeOK'
    BY <1>1, <1>4, <1>5, <2>5, <2>6 DEF TypeOK, store
  <2>8. IF current = n THEN current' = 0 \/ (current' = n /\ entry'[n].phase = "ready")
        ELSE current' = current
    BY <1>5, <2>2, <2>5
  <2> QED BY <1>1, <1>2, <2>1, <2>2, <2>3, <2>5, <2>6, <2>7, <2>8, LoadSettles
<1>6. CASE /\ IF log = <<>> \/ Live # {} THEN UNCHANGED faults ELSE Fault
           /\ current' = IF current = n THEN 0 ELSE current
           /\ entry' = [entry EXCEPT ![n].phase = "gone", ![n].result = "failed"]
           /\ UNCHANGED session
  <2> DEFINE x == [entry[n] EXCEPT !.phase = "gone", !.result = "failed"]
  <2>1. x \in Entry /\ x.result = "failed" /\ x.source = entry[n].source
    BY <1>3 DEF Entry
  <2>2. entry' = [entry EXCEPT ![n] = x]
    BY <1>6
  <2> HIDE DEF x
  <2>3. /\ entry' \in [Slots -> Entry] /\ entry'[n] = x
        /\ \A m \in Slots \ {n} : entry'[m] = entry[m]
    BY <1>1, <2>1, <2>2
  <2>4. faults' \in Nat
    BY <1>1, <1>6 DEF Fault
  <2>5. TypeOK'
    BY <1>1, <1>4, <1>6, <2>3, <2>4 DEF TypeOK, store
  <2>6. IF current = n THEN current' = 0 \/ (current' = n /\ entry'[n].phase = "ready")
        ELSE current' = current
    BY <1>6
  <2>7. /\ session'[n].where = "none" /\ entry'[n].result # "ok"
        /\ entry'[n].source = entry[n].source
        /\ \A m \in Slots \ {n} : session'[m] = session[m]
    BY <1>3, <1>6, <2>1, <2>3
  <2> QED BY <1>1, <1>2, <2>3, <2>5, <2>6, <2>7, LoadSettles
<1> QED BY <1>2, <1>5, <1>6 DEF LoadReturns

\* Another process writes to an identity that has no cursor here.
LEMMA ForeignWriteInv ==
    ASSUME IInv, ForeignWrite
    PROVE  IInv'
<1> USE DEF IInv
<1>1. /\ TypeOK /\ log \in Seq(Event) /\ acts \in Nat /\ ~tracked.known /\ tracked = NoState
      /\ UNCHANGED <<pool, tracked, session, retiring, caller, work, calls, faults>>
      /\ chain' = chain /\ stage' = stage /\ writing' = writing /\ stage = "queued"
      /\ tracked' = tracked /\ session' = session /\ entry' = entry
      /\ acts' \in Nat /\ revision' = revision + 1
  BY DEF TypeOK, ForeignWrite, CursorIsEnd, work, pool
<1>2. log' \in Seq(Event)
  <2>1. Balanced(log) \in Seq(Event) /\ [n |-> NewEvent, open |-> FALSE] \in Event
    BY <1>1, BalancedIs DEF Event, NewEvent
  <2> QED BY <2>1 DEF ForeignWrite
<1>3. SourcesAreRead' /\ revision' \in Nat
  BY <1>1, NewRevision
<1>4. CursorIsEnd' /\ LogIsOwned'
  BY <1>1 DEF CursorIsEnd, LogIsOwned, NoState
<1>5. TypeOK'
  BY <1>1, <1>2, <1>3 DEF TypeOK, pool
<1>6. StageFits'
  BY <1>1 DEF StageFits
<1>7. \A d \in Callers : ~Holds(d)
  BY <1>1 DEF HoldersFit
<1> QED BY <1>1, <1>3, <1>4, <1>5, <1>6, <1>7, StageMoves

\* The session after its write, or the write of somebody else, ended.
LEMMA EndedSession ==
    ASSUME IInv, chain # <<>>, Head1.kind \in Writer \cup {"append", "delete"},
           NEW ok \in BOOLEAN, End(ok)
    PROVE  /\ session' \in [Slots -> Session]
           /\ chain' \in Seq(Operation) /\ stage' = "queued"
           /\ writing' \in [at : Nat, events : Seq(Event)]
           /\ Head1.kind \notin Writer => session' = session
           /\ \A m \in Slots :
                /\ session'[m].acked <= Len(session'[m].events)
                /\ session'[m].events = session[m].events
                /\ session'[m].where = session[m].where \/ session'[m].where = "failing"
                /\ session'[m].where = "none" <=> session[m].where = "none"
                /\ m # Head1.of => session'[m] = session[m]
           /\ Head1.kind \in Writer => /\ Head1.of \in Slots
                                       /\ session[Head1.of].where \in {"live", "disposed"}
           /\ Head1.kind \in {"init", "suffix"} =>
                /\ session'[Head1.of].init = (IF ok THEN "ready" ELSE "failed")
                /\ session'[Head1.of].acked = session[Head1.of].acked
           /\ Head1.kind = "batch" =>
                /\ session'[Head1.of].init = "ready"
                /\ session'[Head1.of].acked = IF ok THEN Head1.arg ELSE session[Head1.of].acked
<1> USE DEF IInv
<1>1. /\ TypeOK /\ session \in [Slots -> Session] /\ chain \in Seq(Operation)
      /\ \A m \in Slots : session[m].acked <= Len(session[m].events)
      /\ Head1 \in Operation /\ Fits(Head1) /\ Finish /\ session' = Settled(ok)
  BY FirstRuns DEF TypeOK, End
<1>2. /\ chain' \in Seq(Operation) /\ stage' = "queued"
      /\ writing' \in [at : Nat, events : Seq(Event)]
  BY <1>1, Tailed DEF Finish, NoWriting
<1>3. CASE Head1.kind \notin Writer
  <2>1. session' = session
    BY <1>1, <1>3 DEF Settled, Writer
  <2> QED BY <1>1, <1>2, <1>3, <2>1 DEF Writer
<1>4. CASE Head1.kind \in Writer
  <2>1. PICK s \in Slots : s = Head1.of
    BY <1>1, <1>4 DEF Operation, Writer
  <2>2. /\ session[s] \in Session /\ session[s].acked <= Len(session[s].events)
        /\ session[s].where \in {"live", "disposed"} /\ Head1.arg <= Len(session[s].events)
        /\ Head1.arg \in Nat
        /\ Head1.kind = "batch" => session[s].init = "ready"
    BY <1>1, <1>4, <2>1 DEF Fits, Operation, Writer
  <2>3. CASE Head1.kind \in {"init", "suffix"}
    <3> DEFINE y == [session[s] EXCEPT !.init = IF ok THEN "ready" ELSE "failed"]
    <3>1. /\ y \in Session /\ y.init = (IF ok THEN "ready" ELSE "failed")
          /\ y.acked = session[s].acked /\ y.events = session[s].events
          /\ y.where = session[s].where
      BY <2>2 DEF Session
    <3>2. session' = [session EXCEPT ![s] = y]
      BY <1>1, <2>1, <2>3 DEF Settled
    <3> HIDE DEF y
    <3>3. /\ session' \in [Slots -> Session] /\ session'[s] = y
          /\ \A n \in Slots \ {s} : session'[n] = session[n]
          /\ \A n \in Slots : session'[n].acked <= Len(session'[n].events)
      BY <1>1, <2>2, <3>1, <3>2, SessionIs
    <3>4. /\ session'[Head1.of].init = (IF ok THEN "ready" ELSE "failed")
          /\ session'[Head1.of].acked = session[Head1.of].acked
      BY <2>1, <3>1, <3>3
    <3>5. \A m \in Slots :
             /\ session'[m].events = session[m].events /\ session'[m].where = session[m].where
             /\ m # Head1.of => session'[m] = session[m]
      BY <2>1, <3>1, <3>3
    <3> QED BY <1>2, <2>1, <2>2, <2>3, <3>3, <3>4, <3>5
  <2>4. CASE Head1.kind = "batch"
    <3> DEFINE y == [session[s] EXCEPT
                !.busy = "no",
                !.acked = IF ok THEN Head1.arg ELSE @,
                !.where = IF ~ok /\ session[s].busy = "disposed" THEN "failing" ELSE @]
    <3>1. /\ y \in Session /\ y.init = session[s].init /\ y.events = session[s].events
          /\ y.acked = (IF ok THEN Head1.arg ELSE session[s].acked)
          /\ y.where \in {session[s].where, "failing"}
      BY <2>2 DEF Session
    <3>2. session' = [session EXCEPT ![s] = y]
      BY <1>1, <2>1, <2>4 DEF Settled
    <3> HIDE DEF y
    <3>3. /\ session' \in [Slots -> Session] /\ session'[s] = y
          /\ \A n \in Slots \ {s} : session'[n] = session[n]
          /\ \A n \in Slots : session'[n].acked <= Len(session'[n].events)
      <4>1. y.acked <= Len(y.events)
        BY <2>2, <3>1
      <4> QED BY <1>1, <3>1, <3>2, <4>1, SessionIs
    <3>4. /\ session'[Head1.of].init = "ready"
          /\ session'[Head1.of].acked = IF ok THEN Head1.arg ELSE session[Head1.of].acked
      BY <2>1, <2>2, <2>4, <3>1, <3>3
    <3>5. \A m \in Slots :
             /\ session'[m].events = session[m].events
             /\ session'[m].where = session[m].where \/ session'[m].where = "failing"
             /\ session'[m].where = "none" <=> session[m].where = "none"
             /\ m # Head1.of => session'[m] = session[m]
      BY <2>1, <2>2, <3>1, <3>3
    <3> QED BY <1>2, <2>1, <2>2, <2>4, <3>3, <3>4, <3>5
  <2> QED BY <1>4, <2>3, <2>4 DEF Writer
<1> QED BY <1>3, <1>4

\* The running write or deletion ends.
LEMMA Ending ==
    ASSUME IInv, TypeOK', chain # <<>>, Head1.kind \in Writer \cup {"append", "delete"},
           NEW ok \in BOOLEAN, End(ok), retiring' = retiring,
           current' \in {current, 0}, current' # 0 => entry'[current'].phase # "gone",
           \A n \in Slots : entry'[n].source = entry[n].source /\ entry'[n].result = entry[n].result,
           \A d \in Callers :
             /\ Stays(d)
             /\ caller[d].pc \in Past =>
                  \/ entry'[caller[d].on].phase = entry[caller[d].on].phase
                  \/ entry'[caller[d].on].phase = "gone" /\ caller[d].pc # "held",
           SourcesAreRead', CursorIsEnd', HoldersFit', ReadyFits', LogIsOwned',
           \A o \in Operation : Queued(o) /\ ~Clash(Head1, o) =>
             /\ o.kind \in {"suffix", "batch"} =>
                  /\ tracked'.owner = tracked.owner
                  /\ tracked.materialized => tracked'.materialized
             /\ o.kind = "init" => tracked'.owner # o.of \/ tracked'.owner = tracked.owner,
           ~AppendWhileHeld =>
             \A i \in DOMAIN chain : i > 1 /\ chain[i].kind = "append" => Unowned'
    PROVE  IInv'
<1> USE DEF IInv
<1>0. /\ TypeOK /\ 0 \notin Slots /\ current \in Slots \cup {0}
      /\ entry \in [Slots -> Entry] /\ chain \in Seq(Operation)
      /\ current # 0 => entry[current].phase # "gone" /\ session[current].where = "none"
      /\ \A d \in Callers :
           /\ CallerFits(d)
           /\ caller[d].pc \notin {"idle", "start"} => caller[d].on \in Slots
      /\ Finish /\ Head1 \in Operation
  BY CallersNow, FirstRuns DEF End
<1>1. /\ stage' = "queued" /\ (Head1.kind \notin Writer => session' = session)
      /\ \A m \in Slots :
           /\ session'[m].events = session[m].events
           /\ session'[m].where = session[m].where \/ session'[m].where = "failing"
           /\ session'[m].where = "none" <=> session[m].where = "none"
           /\ m # Head1.of => session'[m] = session[m]
      /\ Head1.kind \in Writer => Head1.of \in Slots
  BY EndedSession
<1>2. CallersFit'
  <2>1. {} \in SUBSET Callers /\ (\A c, d \in {} : c = d) /\ Callers \ {} = Callers
    OBVIOUS
  <2>2. \A d \in Callers : caller[d].pc \in Past => session'[caller[d].on].where = "none"
    BY <1>0, <1>1 DEF CallerFits, Past
  <2>3. current' # 0 => entry'[current'].phase # "gone" /\ session'[current'].where = "none"
    BY <1>0, <1>1
  <2> QED BY <2>1, <2>2, <2>3, CallersKept
<1>3. StageFits'
  BY <1>1 DEF StageFits
<1>4. \A o \in Operation : o.kind \in OfSlot /\ ~Clash(Head1, o) /\ Head1.kind \in Writer
                           => o.of # Head1.of
  BY DEF Clash, OfSlot
<1>5. OpsFit'
  <2>1. \A o \in Operation : Queued(o) /\ Fits(o) /\ ~Clash(Head1, o) => Fits(o)'
    <3> SUFFICES ASSUME NEW o \in Operation, Queued(o), Fits(o), ~Clash(Head1, o)
                 PROVE  Fits(o)'
      OBVIOUS
    <3>1. CASE o.kind \in OfCaller
      <4>1. /\ o.arg \in Callers /\ caller[o.arg].on = o.of
            /\ caller[o.arg].pc = IF o.kind = "commit" THEN "commit" ELSE "checking"
        BY <3>1 DEF Operation, OfCaller, Fits
      <4>2. caller'[o.arg].on = caller[o.arg].on /\ caller'[o.arg].pc = caller[o.arg].pc
        BY <4>1 DEF Stays
      <4> QED BY <3>1, <4>1, <4>2 DEF Fits, OfCaller, Writer
    <3>2. CASE o.kind \in OfSlot
      <4>1. o.of \in Slots
        BY <3>2 DEF Operation, OfSlot, Writer
      <4>2. session'[o.of] = session[o.of]
        <5>1. CASE Head1.kind \in Writer
          BY <1>1, <1>4, <3>2, <4>1, <5>1
        <5>2. CASE Head1.kind \notin Writer
          BY <1>1, <5>2
        <5> QED BY <5>1, <5>2
      <4>3. entry'[o.of].source = entry[o.of].source /\ entry'[o.of].result = entry[o.of].result
        BY <4>1
      <4> QED BY <3>2, <4>2, <4>3 DEF Fits, OfSlot, OfCaller, Writer
    <3>3. CASE o.kind \notin OfCaller \cup OfSlot
      BY <3>3 DEF Fits, OfSlot, OfCaller, Writer
    <3> QED BY <3>1, <3>2, <3>3
  <2>2. \A o \in Operation : Waits(o) /\ o.kind = "init" /\ ~Clash(Head1, o)
                             => tracked'.owner # o.of \/ tracked'.owner = tracked.owner
    BY DEF Waits, Queued
  <2> QED BY <1>0, <2>1, <2>2, OpsPop
<1>6. OneLive'
  BY <1>1 DEF OneLive, Live
<1>7. InitIsGuarded'
  <2>1. \A o \in Operation : ~Clash(Head1, o) /\ o.kind = "init" /\ Guards(o.of) => Guards(o.of)'
    <3> SUFFICES ASSUME NEW o \in Operation, ~Clash(Head1, o), o.kind = "init", Guards(o.of)
                 PROVE  Guards(o.of)'
      OBVIOUS
    <3>1. o.of \in Slots /\ session'[o.of] = session[o.of]
      <4>1. o.of \in Slots
        BY DEF Operation
      <4>2. CASE Head1.kind \in Writer
        BY <1>1, <1>4, <4>1, <4>2 DEF OfSlot, Writer
      <4>3. CASE Head1.kind \notin Writer
        BY <1>1, <4>1, <4>3
      <4> QED BY <4>1, <4>2, <4>3
    <3>2. Live' \subseteq Live
      BY <1>1 DEF Live
    <3> QED BY <3>1, <3>2 DEF Guards, Live
  <2>2. current = 0 => current' = 0
    OBVIOUS
  <2> QED BY <1>0, <2>1, <2>2, GuardPops
<1>8. AppendIsUnowned'
  <2>1. \A o \in Operation : Queued(o) /\ o.kind = "commit" /\ current # o.of => current' # o.of
    BY <1>0 DEF Operation
  <2> QED BY <1>0, <2>1, AppendPops
<1>9. PreparedExtends'
  BY <1>1 DEF PreparedExtends
<1> QED BY <1>2, <1>3, <1>5, <1>6, <1>7, <1>8, <1>9

\* It ends without a change of the log.  The state of the identity stays, or it
\* is bound or forgotten while the pool is empty.
LEMMA EndRuns ==
    ASSUME IInv, chain # <<>>, Head1.kind \in Writer \cup {"append", "delete"},
           NEW ok \in BOOLEAN, End(ok), UNCHANGED <<store, pool, retiring, caller>>,
           tracked' \in State, calls' \in Nat, acts' \in Nat, faults' \in Nat,
           \/ /\ tracked' = tracked
              /\ ok /\ Head1.kind \in Writer =>
                   tracked.owner = Head1.of /\ session'[Head1.of].acked <= tracked.cursor
           \/ /\ current = 0 /\ CursorIsEnd' /\ LogIsOwned' /\ ReadyFits'
              /\ \A o \in Operation : Queued(o) /\ ~Clash(Head1, o) =>
                   /\ o.kind \notin {"suffix", "batch"}
                   /\ o.kind = "init" => tracked'.owner # o.of
              /\ ~AppendWhileHeld => \A i \in DOMAIN chain : i > 1 => chain[i].kind # "append"
    PROVE  IInv'
<1> USE DEF IInv
<1>0. /\ TypeOK /\ 0 \notin Slots /\ current \in Slots \cup {0}
      /\ entry \in [Slots -> Entry] /\ chain \in Seq(Operation)
      /\ current # 0 => entry[current].phase # "gone" /\ session[current].where = "none"
      /\ \A d \in Callers :
           /\ CallerFits(d)
           /\ caller[d].pc \notin {"idle", "start"} => caller[d].on \in Slots
           /\ caller[d].pc = "held" => current = caller[d].on
      /\ current' = current /\ entry' = entry /\ caller' = caller
      /\ log' = log /\ revision' = revision /\ retiring' = retiring
      /\ tracked.owner \in Slots \cup {0}
  BY CallersNow DEF pool, store, TypeOK, State
<1>1. /\ session' \in [Slots -> Session]
      /\ chain' \in Seq(Operation) /\ stage' = "queued"
      /\ writing' \in [at : Nat, events : Seq(Event)]
      /\ Head1.kind \notin Writer => session' = session
      /\ \A m \in Slots :
           /\ session'[m].acked <= Len(session'[m].events)
           /\ session'[m].events = session[m].events
           /\ session'[m].where = session[m].where \/ session'[m].where = "failing"
           /\ session'[m].where = "none" <=> session[m].where = "none"
           /\ m # Head1.of => session'[m] = session[m]
      /\ Head1.kind \in Writer => /\ Head1.of \in Slots
                                  /\ session[Head1.of].where \in {"live", "disposed"}
      /\ Head1.kind \in {"init", "suffix"} =>
           /\ session'[Head1.of].init = (IF ok THEN "ready" ELSE "failed")
           /\ session'[Head1.of].acked = session[Head1.of].acked
      /\ Head1.kind = "batch" =>
           /\ session'[Head1.of].init = "ready"
           /\ session'[Head1.of].acked = IF ok THEN Head1.arg ELSE session[Head1.of].acked
  BY EndedSession
<1>2. TypeOK'
  BY <1>0, <1>1 DEF TypeOK
<1>3. /\ SourcesAreRead'
      /\ \A n \in Slots : entry'[n].source = entry[n].source /\ entry'[n].result = entry[n].result
      /\ \A d \in Callers : Stays(d) /\ entry'[caller[d].on].phase = entry[caller[d].on].phase
      /\ \A d \in Callers : Holds(d)' <=> Holds(d)
  BY <1>0 DEF SourcesAreRead, Stays, Holds
<1>4. CASE /\ tracked' = tracked
           /\ ok /\ Head1.kind \in Writer =>
                tracked.owner = Head1.of /\ session'[Head1.of].acked <= tracked.cursor
  <2>1. CursorIsEnd' /\ LogIsOwned'
    BY <1>0, <1>1, <1>4 DEF CursorIsEnd, LogIsOwned, Interrupted
  <2>2. ReadyFits'
    <3>1. ASSUME NEW m \in Slots, session'[m].where # "none", session'[m].init = "ready"
          PROVE  \/ tracked.owner = m /\ session'[m].acked <= tracked.cursor
                 \/ tracked.owner # m /\ session'[m].where # "live" /\ session'[m].events = <<>>
      <4>1. CASE session'[m] = session[m]
        BY <3>1, <4>1 DEF ReadyFits
      <4>2. CASE session'[m] # session[m]
        <5>1. m = Head1.of /\ Head1.kind \in Writer
          BY <1>1, <4>2
        <5>2. CASE ok
          BY <1>4, <5>1, <5>2
        <5>3. CASE ~ok
          <6>1. Head1.kind = "batch" /\ session'[m].acked = session[m].acked
            BY <1>1, <3>1, <5>1, <5>3 DEF Writer
          <6>2. session[m].init = "ready" /\ session[m].where # "none" /\ tracked.owner = m
            <7>1. Head1 \in Operation /\ Fits(Head1)
              BY FirstRuns
            <7> QED BY <1>1, <5>1, <6>1, <7>1 DEF Fits, Writer
          <6> QED BY <6>1, <6>2 DEF ReadyFits
        <5> QED BY <5>2, <5>3
      <4> QED BY <4>1, <4>2
    <3> QED BY <1>4, <3>1 DEF ReadyFits
  <2>3. HoldersFit'
    BY <1>0, <1>1, <1>3, <1>4, HoldersKept
  <2>4. ~AppendWhileHeld =>
             \A i \in DOMAIN chain : i > 1 /\ chain[i].kind = "append" => Unowned'
    BY <1>3, <1>4 DEF AppendIsUnowned, Unowned
  <2> QED BY <1>0, <1>2, <1>3, <1>4, <2>1, <2>2, <2>3, <2>4, Ending
<1>5. CASE /\ current = 0 /\ CursorIsEnd' /\ LogIsOwned' /\ ReadyFits'
           /\ \A o \in Operation : Queued(o) /\ ~Clash(Head1, o) =>
                /\ o.kind \notin {"suffix", "batch"}
                /\ o.kind = "init" => tracked'.owner # o.of
           /\ ~AppendWhileHeld => \A i \in DOMAIN chain : i > 1 => chain[i].kind # "append"
  <2>1. \A d \in Callers : ~Holds(d)'
    BY <1>0, <1>3, <1>5 DEF Holds
  <2>2. HoldersFit'
    BY <2>1 DEF HoldersFit
  <2> QED BY <1>0, <1>2, <1>3, <1>5, <2>2, Ending
<1> QED BY <1>4, <1>5

\* A deletion is refused, or discards the view of the log that is only read.
LEMMA DeleteRunsInv ==
    ASSUME IInv, DeleteRuns
    PROVE  IInv'
<1> USE DEF IInv
<1>0. /\ TypeOK /\ 0 \notin Slots /\ current \in Slots \cup {0}
      /\ caller \in [Callers -> Caller] /\ entry \in [Slots -> Entry] /\ chain \in Seq(Operation)
      /\ current # 0 => entry[current].phase # "gone" /\ session[current].where = "none"
      /\ \A d \in Callers :
           /\ CallerFits(d)
           /\ caller[d].pc \notin {"idle", "start"} => caller[d].on \in Slots
           /\ caller[d].pc = "held" => current = caller[d].on
  BY CallersNow
<1>1. /\ chain # <<>> /\ Head1.kind = "delete" /\ stage = "queued"
      /\ UNCHANGED <<store, tracked, session, retiring, budget>>
      /\ tracked' = tracked /\ session' = session /\ retiring' = retiring
      /\ tracked' \in State /\ calls' \in Nat /\ acts' \in Nat /\ faults' \in Nat
  BY <1>0 DEF DeleteRuns, Starts, Running, budget, TypeOK
<1>2. CASE Finish /\ UNCHANGED <<pool, caller>>
  <2>1. End(TRUE)
    BY <1>1, <1>2 DEF End, Settled
  <2> QED BY <1>1, <1>2, <2>1, EndRuns DEF Writer
<1>3. CASE /\ Live = {} /\ tracked.owner = 0 /\ ~Held
           /\ Drop(current) /\ caller' = Released(current)
           /\ stage' = "delete"
           /\ UNCHANGED <<chain, writing>>
  <2>1. \A d \in Callers : ~Holds(d) /\ (caller[d].pc \in Past => current # caller[d].on)
    BY <1>3, PastIsHeld
  <2>2. /\ current' \in Slots \cup {0} /\ entry' \in [Slots -> Entry] /\ current' = 0
        /\ \A n \in Slots :
             /\ entry'[n].source = entry[n].source /\ entry'[n].result = entry[n].result
             /\ entry'[n].phase = IF n = current THEN "gone" ELSE entry[n].phase
    BY <1>0, <1>3, Dropping
  <2>3. /\ caller' \in [Callers -> Caller]
        /\ \A d \in Callers : Stays(d)
    BY <1>0, <1>3, Releasing DEF Stays
  <2>4. TypeOK'
    BY <1>0, <1>1, <1>3, <2>2, <2>3 DEF TypeOK, store
  <2>5. /\ SourcesAreRead' /\ CursorIsEnd' /\ OneLive' /\ ReadyFits' /\ PreparedExtends'
        /\ LogIsOwned'
    BY <1>1, <2>2, PoolKept
  <2>6. CallersFit'
    <3>1. {} \in SUBSET Callers /\ (\A c, d \in {} : c = d) /\ Callers \ {} = Callers
      OBVIOUS
    <3>2. \A d \in Callers : caller[d].pc \in Past =>
             /\ session'[caller[d].on].where = "none"
             /\ entry'[caller[d].on].phase = entry[caller[d].on].phase
      BY <1>0, <1>1, <2>1, <2>2 DEF CallerFits, Past
    <3> QED BY <2>2, <2>3, <2>4, <3>1, <3>2, CallersKept
  <2>7. \A d \in Callers : ~Holds(d)'
    BY <2>1, <2>2, <2>3, HoldsStay
  <2>8. HoldersFit'
    BY <2>7 DEF HoldersFit
  <2>9. StageFits'
    BY <1>1, <1>3 DEF StageFits, Head1
  <2>10. OpsFit'
    <3>1. ASSUME NEW o \in Operation, Fits(o)
          PROVE  Fits(o)'
      <4>1. CASE o.kind \in OfCaller
        <5>1. /\ o.arg \in Callers /\ caller[o.arg].on = o.of
              /\ caller[o.arg].pc = IF o.kind = "commit" THEN "commit" ELSE "checking"
          BY <3>1, <4>1 DEF Operation, OfCaller, Fits
        <5>2. caller'[o.arg].on = caller[o.arg].on /\ caller'[o.arg].pc = caller[o.arg].pc
          BY <2>3, <5>1 DEF Stays
        <5> QED BY <4>1, <5>1, <5>2 DEF Fits, OfCaller, Writer
      <4>2. CASE o.kind \notin OfCaller
        <5>1. o.kind \in {"load", "suffix"} => o.of \in Slots
          BY DEF Operation
        <5> QED BY <1>1, <2>2, <3>1, <4>2, <5>1 DEF Fits, OfCaller, Writer
      <4> QED BY <4>1, <4>2
    <3> QED BY <1>1, <1>3, <3>1, OpsStay
  <2>11. InitIsGuarded'
    BY <1>1, <1>3, <2>2, GuardStays DEF Guards, Live
  <2>12. AppendIsUnowned'
    <3>1. ~AppendWhileHeld => \A o \in Operation : Queued(o) /\ o.kind = "append" => Unowned'
      BY <1>1, <1>3, <2>7 DEF Unowned
    <3>2. \A o \in Operation : Queued(o) /\ o.kind = "commit" /\ current # o.of => current' # o.of
      BY <1>0, <2>2 DEF Operation
    <3> QED BY <1>3, <3>1, <3>2, AppendStays
  <2> QED BY <2>4, <2>5, <2>6, <2>8, <2>9, <2>10, <2>11, <2>12
<1> QED BY <1>2, <1>3 DEF DeleteRuns

\* The backend removed the log, or failed to.
LEMMA DeleteReturnsInv ==
    ASSUME IInv, DeleteReturns
    PROVE  IInv'
<1> USE DEF IInv
<1>1. /\ TypeOK /\ chain # <<>> /\ Head1.kind = "delete" /\ stage = "delete" /\ Finish
      /\ chain \in Seq(Operation) /\ 0 \notin Slots
      /\ tracked \in State /\ faults \in Nat /\ calls \in Nat /\ acts \in Nat
      /\ tracked.owner = 0 /\ current \in Slots \cup {0}
      /\ UNCHANGED <<pool, session, retiring, caller, calls, acts>>
      /\ entry' = entry /\ current' = current /\ caller' = caller /\ session' = session
  BY DEF DeleteReturns, Running, TypeOK, StageFits, pool, Slots
<1>2. End(TRUE)
  BY <1>1 DEF End, Settled
<1>3. CASE log' = <<>> /\ revision' = revision + 1 /\ tracked' = NoState /\ UNCHANGED faults
  <2>1. SourcesAreRead' /\ revision' \in Nat
    BY <1>1, <1>3, NewRevision
  <2>2. /\ chain' \in Seq(Operation) /\ stage' = "queued"
        /\ writing' \in [at : Nat, events : Seq(Event)]
    BY <1>1, <1>2, EndedSession
  <2>3. TypeOK'
    <3>1. NoState \in State
      BY DEF NoState, State
    <3> QED BY <1>1, <1>3, <2>1, <2>2, <3>1 DEF TypeOK
  <2>4. tracked'.owner = 0 /\ ~tracked'.known /\ CursorIsEnd' /\ LogIsOwned'
    BY <1>3 DEF NoState, CursorIsEnd, LogIsOwned
  <2>5. \A d \in Callers : ~Holds(d)' /\ Stays(d)
    BY <1>1 DEF HoldersFit, Holds, Stays
  <2>6. HoldersFit' /\ Unowned'
    BY <2>4, <2>5 DEF HoldersFit, Unowned
  <2>7. ReadyFits'
    BY <1>1, <2>4 DEF ReadyFits
  <2>8. \A o \in Operation : Queued(o) => o.kind \notin {"suffix", "batch"}
    BY <1>1 DEF OpsFit, Fits, Operation, Writer
  <2>9. current # 0 => entry[current].phase # "gone"
    BY DEF CallersFit
  <2> QED BY <1>1, <1>2, <2>1, <2>3, <2>4, <2>5, <2>6, <2>7, <2>8, <2>9, Ending
<1>4. CASE Fault /\ UNCHANGED <<store, tracked>>
  <2>1. faults' \in Nat /\ tracked' \in State /\ calls' \in Nat /\ acts' \in Nat
    BY <1>1, <1>4 DEF Fault
  <2> QED BY <1>1, <1>2, <1>4, <2>1, EndRuns DEF Writer
<1> QED BY <1>3, <1>4 DEF DeleteReturns

\* A part of a sequence is empty when it ends before it begins.
LEMMA PartIs ==
    ASSUME NEW S, NEW s \in Seq(S), NEW m \in Nat, NEW k \in Nat, k <= Len(s)
    PROVE  /\ SubSeq(s, m + 1, k) \in Seq(S)
           /\ SubSeq(s, m + 1, k) = <<>> <=> k <= m
<1>1. /\ SubSeq(s, m + 1, k) \in Seq(S)
      /\ Len(SubSeq(s, m + 1, k)) = IF m + 1 <= k THEN k - m ELSE 0
  OBVIOUS
<1>2. SubSeq(s, m + 1, k) = <<>> <=> Len(SubSeq(s, m + 1, k)) = 0
  BY <1>1
<1> QED BY <1>1, <1>2

\* A write of the owner, or of nobody, runs up to its await.
LEMMA AppendCoreInv ==
    ASSUME IInv, chain # <<>>, stage = "queued", Head1.kind \in Writer \cup {"append"},
           NEW at \in Nat, NEW events \in Seq(Event), AppendCore(tracked, at, events),
           UNCHANGED <<store, pool, tracked, retiring, caller, budget>>,
           Head1.kind = "append" => events = <<[n |-> Head1.arg, open |-> FALSE]>>,
           Head1.kind \in Writer =>
             /\ tracked.owner = Head1.of
             /\ events = SubSeq(session[Head1.of].events, at + 1, Head1.arg)
             /\ events = <<>> =>
                  (IF Head1.kind = "batch" THEN Head1.arg ELSE session[Head1.of].acked)
                    <= tracked.cursor
    PROVE  IInv'
<1> USE DEF IInv
<1>1. /\ TypeOK /\ Head1 \in Operation /\ Fits(Head1) /\ tracked \in State
      /\ calls \in Nat /\ acts \in Nat /\ faults \in Nat
      /\ calls' = calls /\ acts' = acts /\ faults' = faults /\ tracked' = tracked
      /\ \A n \in Slots : session[n] \in Session
  BY FirstRuns DEF TypeOK, budget
<1>2. ASSUME NEW ok \in BOOLEAN, End(ok), ok => events = <<>>
      PROVE  IInv'
  <2>1. ok /\ Head1.kind \in Writer =>
          tracked.owner = Head1.of /\ session'[Head1.of].acked <= tracked.cursor
    <3> SUFFICES ASSUME ok, Head1.kind \in Writer
                 PROVE  tracked.owner = Head1.of /\ session'[Head1.of].acked <= tracked.cursor
      OBVIOUS
    <3>1. /\ Head1.kind \in {"init", "suffix"} =>
                session'[Head1.of].acked = session[Head1.of].acked
          /\ Head1.kind = "batch" => session'[Head1.of].acked = Head1.arg
      BY <1>2, EndedSession
    <3> QED BY <1>2, <3>1 DEF Writer
  <2> QED BY <1>1, <1>2, <2>1, EndRuns
<1>3. ASSUME NEW next \in {"adopt", "write"}, Continue(next, at, events), ~Held,
             next = "adopt" => ~tracked.known,
             next = "write" => tracked.known /\ at = tracked.cursor, events # <<>>
      PROVE  IInv'
  <2>1. /\ stage' = next /\ writing' = [at |-> at, events |-> events]
        /\ chain' = chain /\ session' = session
    BY <1>3 DEF Continue
  <2>2. TypeOK'
    BY <1>1, <2>1 DEF TypeOK, store, pool
  <2>3. Head1.kind \in Writer => tracked.known /\ at < Head1.arg
    <3> SUFFICES ASSUME Head1.kind \in Writer PROVE tracked.known /\ at < Head1.arg
      OBVIOUS
    <3>1. Head1.of \in Slots /\ Head1.arg \in Nat /\ 0 \notin Slots
      BY <1>1 DEF Operation, Writer, Slots
    <3>2. tracked.known
      BY <3>1 DEF CursorIsEnd, NoState
    <3>3. session[Head1.of].events \in Seq(Event) /\ Head1.arg <= Len(session[Head1.of].events)
      BY <1>1, <3>1 DEF Fits, Session
    <3> QED BY <1>3, <3>1, <3>2, <3>3, PartIs
  <2>4. StageFits'
    <3>1. Head1' = Head1 /\ tracked' = tracked
      BY <1>1, <2>1 DEF Head1
    <3>2. next = "adopt" => Head1.kind = "append"
      BY <1>3, <2>3
    <3> QED BY <1>3, <2>1, <2>3, <3>1, <3>2 DEF StageFits, Writer
  <2>5. \A d \in Callers : ~Holds(d)
    BY <1>3, PastIsHeld
  <2> QED BY <1>1, <2>1, <2>2, <2>4, <2>5, StageMoves
<1> QED BY <1>2, <1>3 DEF AppendCore

\* An append runs up to its write.
LEMMA AppendRunsInv ==
    ASSUME IInv, AppendRuns
    PROVE  IInv'
<1>1. /\ chain # <<>> /\ Head1.kind = "append" /\ stage = "queued" /\ Head1 \in Operation
      /\ UNCHANGED <<store, pool, tracked, retiring, caller, budget>>
  BY FirstRuns DEF IInv, AppendRuns, Starts, Running
<1>2. Head1.of \in Nat /\ Head1.arg \in Nat
  BY <1>1 DEF Operation
<1> DEFINE events == <<[n |-> Head1.arg, open |-> FALSE]>>
<1>3. events \in Seq(Event) /\ AppendCore(tracked, Head1.of, events)
  BY <1>2 DEF Event, AppendRuns
<1> QED BY <1>1, <1>2, <1>3, AppendCoreInv DEF Writer

\* The suffix of a published session runs up to its write.
LEMMA SuffixRunsInv ==
    ASSUME IInv, SuffixRuns
    PROVE  IInv'
<1> USE DEF IInv
<1>1. /\ chain # <<>> /\ Head1.kind = "suffix" /\ stage = "queued" /\ Head1 \in Operation
      /\ Fits(Head1) /\ TypeOK
      /\ UNCHANGED <<store, pool, tracked, retiring, caller, budget>>
  BY FirstRuns DEF SuffixRuns, Starts, Running
<1>2. PICK s \in Slots : s = Head1.of
  BY <1>1 DEF Operation
<1>3. /\ Head1.arg \in Nat /\ session[s] \in Session /\ entry[s] \in Entry
  BY <1>1 DEF Operation, TypeOK
<1> DEFINE at == Len(entry[s].source.log)
           events == SubSeq(session[s].events, at + 1, Head1.arg)
<1>4. /\ session[s].events \in Seq(Event) /\ at \in Nat /\ at < Head1.arg
      /\ Head1.arg <= Len(session[s].events) /\ tracked.owner = s
  BY <1>1, <1>2, <1>3 DEF Fits, Writer, Session, Entry
<1>5. AppendCore(tracked, at, events)
  BY <1>2 DEF SuffixRuns
<1> HIDE DEF at
<1>6. events \in Seq(Event) /\ events # <<>>
  <2>1. /\ SubSeq(session[s].events, at + 1, Head1.arg) \in Seq(Event)
        /\ SubSeq(session[s].events, at + 1, Head1.arg) = <<>> <=> Head1.arg <= at
    BY <1>3, <1>4, PartIs
  <2>2. ~(Head1.arg <= at)
    BY <1>3, <1>4
  <2> QED BY <2>1, <2>2
<1> HIDE DEF events
<1>7. events = SubSeq(session[Head1.of].events, at + 1, Head1.arg)
  BY <1>2 DEF events
<1> QED BY <1>1, <1>2, <1>4, <1>5, <1>6, <1>7, AppendCoreInv DEF Writer

\* A batch of a live session runs up to its write.
LEMMA BatchRunsInv ==
    ASSUME IInv, BatchRuns
    PROVE  IInv'
<1> USE DEF IInv
<1>1. /\ chain # <<>> /\ Head1.kind = "batch" /\ stage = "queued" /\ Head1 \in Operation
      /\ Fits(Head1) /\ TypeOK /\ 0 \notin Slots
      /\ UNCHANGED <<store, pool, tracked, retiring, caller, budget>>
  BY FirstRuns DEF BatchRuns, Starts, Running, Slots
<1>2. PICK s \in Slots : s = Head1.of
  BY <1>1 DEF Operation
<1>3. /\ Head1.arg \in Nat /\ session[s] \in Session /\ tracked \in State
  BY <1>1 DEF Operation, TypeOK
<1>4. /\ session[s].events \in Seq(Event) /\ session[s].acked \in Nat /\ tracked.cursor \in Nat
      /\ Head1.arg <= Len(session[s].events) /\ tracked.owner = s
      /\ session[s].where # "none" /\ session[s].init = "ready"
  BY <1>1, <1>2, <1>3 DEF Fits, Writer, Session, State
<1>5. tracked.known /\ session[s].acked <= tracked.cursor
  BY <1>1, <1>4 DEF CursorIsEnd, NoState, ReadyFits
<1> DEFINE at == tracked.cursor
           events == SubSeq(session[s].events, at + 1, Head1.arg)
<1>6. AppendCore(tracked, at, events)
  <2> DEFINE cursor == IF tracked.known THEN tracked.cursor ELSE 0
             start == IF session[s].acked < cursor THEN cursor ELSE session[s].acked
  <2>1. AppendCore(tracked, start, SubSeq(session[s].events, start + 1, Head1.arg))
    BY <1>2 DEF BatchRuns
  <2>2. start = at
    BY <1>4, <1>5
  <2> HIDE DEF start, at
  <2> QED BY <2>1, <2>2
<1>7. at \in Nat /\ at = tracked.cursor
  BY <1>4
<1> HIDE DEF at
<1>8. events \in Seq(Event) /\ (events = <<>> => Head1.arg <= at)
  BY <1>3, <1>4, <1>7, PartIs
<1> HIDE DEF events
<1>9. events = SubSeq(session[Head1.of].events, at + 1, Head1.arg)
  BY <1>2 DEF events
<1> QED BY <1>1, <1>2, <1>4, <1>6, <1>7, <1>8, <1>9, AppendCoreInv DEF Writer

\* What the binding of a fresh session finds: no entry, no owner among the
\* sessions that still wait for theirs, and no append behind it.
LEMMA InitFinds ==
    ASSUME IInv, Starts("init"), NEW s \in Slots, s = Head1.of
    PROVE  /\ chain # <<>> /\ Head1.kind = "init" /\ stage = "queued" /\ TypeOK /\ 0 \notin Slots
           /\ session[s] \in Session /\ session[s].where \in {"live", "disposed"}
           /\ session[s].init = "pending"
           /\ Head1.arg \in Nat /\ Head1.arg <= Len(session[s].events)
           /\ session[s].acked <= Head1.arg
           /\ current = 0 /\ \A d \in Callers : ~Holds(d)
           /\ \A o \in Operation : Queued(o) /\ o.kind = "init" => tracked.owner # o.of
           /\ tracked.owner # s
           /\ \A o \in Operation : Queued(o) /\ o.kind = "init" /\ ~Clash(Head1, o) => o.of # s
           /\ ~AppendWhileHeld => \A i \in DOMAIN chain : i > 1 => chain[i].kind # "append"
<1> USE DEF IInv
<1>1. /\ TypeOK /\ 0 \notin Slots /\ chain \in Seq(Operation)
      /\ \A d \in Callers :
           /\ caller[d].pc \notin {"idle", "start"} => caller[d].on \in Slots
           /\ caller[d].pc = "held" => current = caller[d].on
  BY CallersNow
<1>2. /\ chain # <<>> /\ Head1.kind = "init" /\ stage = "queued" /\ Head1 \in Operation
      /\ Queued(Head1) /\ Fits(Head1) /\ 1 \in DOMAIN chain
  BY FirstRuns DEF Starts, Running
<1>3. /\ session[s].where \in {"live", "disposed"} /\ session[s].init = "pending"
      /\ Head1.arg <= Len(session[s].events) /\ session[s].acked <= Head1.arg
  BY <1>2 DEF Fits, Writer
<1>4. session[s] \in Session /\ Head1.arg \in Nat
  BY <1>2 DEF TypeOK, Operation
<1>5. current = 0
  BY <1>2 DEF InitIsGuarded, Head1
<1>6. \A d \in Callers : ~Holds(d)
  BY <1>1, <1>5 DEF Holds
<1>7. \A o \in Operation : Queued(o) /\ o.kind = "init" => tracked.owner # o.of
  BY <1>2 DEF OpsFit, Queued, Waits
<1>8. tracked.owner # s
  BY <1>2, <1>7
<1>9. \A o \in Operation : Queued(o) /\ o.kind = "init" /\ ~Clash(Head1, o) => o.of # s
  BY <1>2 DEF Clash, OfSlot, Writer
<1>10. ~AppendWhileHeld => \A i \in DOMAIN chain : i > 1 => chain[i].kind # "append"
  <2> SUFFICES ASSUME ~AppendWhileHeld, NEW i \in DOMAIN chain, i > 1, chain[i].kind = "append"
               PROVE  FALSE
    OBVIOUS
  <2>1. 1 \in 1..(i - 1)
    BY <1>1
  <2> QED BY <1>2, <2>1 DEF AppendIsUnowned, Head1
<1> QED BY <1>1, <1>2, <1>3, <1>4, <1>5, <1>6, <1>7, <1>8, <1>9, <1>10

\* The identity can be bound: nobody owns it, or an owner that is no longer live
\* and that neither stored nor still has anything to write.
Reclaimed == ~tracked.materialized /\ ~HasWork(tracked.owner)
Unclaimed == tracked.owner = 0 \/ Reclaimed

\* Nothing of the identity is left to be written, and no session that can write
\* has an event, when a binding finds no owner or reclaims one.
LEMMA OwnerIsGone ==
    ASSUME IInv, Starts("init"), Unclaimed
    PROVE  /\ \A o \in Operation : Queued(o) => o.kind \notin {"suffix", "batch"}
           /\ \A m \in Slots :
                session[m].where # "none" /\ session[m].init = "ready" =>
                  session[m].where # "live" /\ session[m].events = <<>>
<1> USE DEF IInv
<1>1. PICK s \in Slots : s = Head1.of
  <2>1. chain # <<>> /\ Head1 \in Operation /\ Head1.kind = "init"
    BY FirstRuns DEF Starts, Running
  <2> QED BY <2>1 DEF Operation
<1>2. /\ TypeOK /\ 0 \notin Slots /\ tracked.owner \in Slots \cup {0}
      /\ 1 \in DOMAIN chain /\ chain[1].kind = "init"
      /\ \A o \in Operation : Queued(o) /\ o.kind = "init" => tracked.owner # o.of
  BY <1>1, InitFinds, FirstRuns DEF TypeOK, State, Head1
<1>3. ASSUME NEW o \in Operation, Queued(o), o.kind \in {"suffix", "batch"}
      PROVE  FALSE
  <2>1. /\ Fits(o) /\ o.of \in Slots /\ o.arg \in Nat
    BY <1>3 DEF OpsFit, Operation
  <2>2. tracked.owner = o.of /\ Reclaimed
    BY <1>2, <1>3, <2>1 DEF Fits, Writer, Unclaimed
  <2>3. session[o.of] \in Session /\ o.kind = "batch"
    BY <1>2, <1>3, <2>1, <2>2 DEF Fits, Reclaimed, TypeOK
  <2>4. /\ session[o.of].acked \in Nat /\ Len(session[o.of].events) \in Nat
        /\ session[o.of].acked < o.arg /\ o.arg <= Len(session[o.of].events)
    BY <2>1, <2>3 DEF Fits, Writer, Session
  <2> QED BY <2>1, <2>2, <2>4 DEF Reclaimed, HasWork
<1>4. ASSUME NEW m \in Slots, session[m].where # "none", session[m].init = "ready"
      PROVE  session[m].where # "live" /\ session[m].events = <<>>
  <2>1. CASE tracked.owner # m
    BY <1>4, <2>1 DEF ReadyFits
  <2>2. CASE tracked.owner = m
    <3>1. ~tracked.materialized /\ ~HasWork(m) /\ session[m].acked <= tracked.cursor
      BY <1>2, <1>4, <2>2 DEF Unclaimed, Reclaimed, ReadyFits
    <3>2. tracked.known /\ log = <<>> /\ tracked.cursor = Len(log)
      BY <1>2, <2>2, <3>1 DEF CursorIsEnd, NoState
    <3>3. session[m].events \in Seq(Event) /\ session[m].acked \in Nat
      BY <1>2 DEF TypeOK, Session
    <3>4. Len(session[m].events) = 0
      BY <3>1, <3>2, <3>3 DEF HasWork
    <3>5. session[m].events = <<>>
      BY <3>3, <3>4
    <3>6. m \notin Live
      <4>1. PICK j \in DOMAIN chain, o \in Operation :
                 j >= 1 /\ chain[j] = o /\ o.kind = "init" /\ Guards(o.of)
        BY <1>2 DEF InitIsGuarded
      <4>2. tracked.owner # o.of /\ o.of \in Slots
        BY <1>2, <4>1 DEF Queued, Operation
      <4> QED BY <2>2, <4>1, <4>2 DEF Guards, OneLive
    <3> QED BY <3>5, <3>6 DEF Live
  <2> QED BY <2>1, <2>2
<1> QED BY <1>3, <1>4

\* A binding is refused, at most forgetting the state that it wanted to reclaim.
LEMMA InitFails ==
    ASSUME IInv, Starts("init"), End(FALSE), UNCHANGED <<store, pool, retiring, caller>>,
           calls' \in Nat, acts' \in Nat, faults' \in Nat,
           tracked' = tracked \/ (tracked' = NoState /\ Unclaimed)
    PROVE  IInv'
<1> USE DEF IInv
<1>1. /\ chain # <<>> /\ Head1 \in Operation /\ Head1.kind = "init" /\ tracked \in State
      /\ NoState \in State
  BY FirstRuns DEF Starts, Running, TypeOK, NoState, State
<1>2. PICK s \in Slots : s = Head1.of
  BY <1>1 DEF Operation
<1>3. CASE tracked' = tracked
  BY <1>1, <1>3, EndRuns DEF Writer
<1>4. CASE tracked' = NoState /\ Unclaimed
  <2>1. /\ current = 0 /\ 0 \notin Slots
        /\ ~AppendWhileHeld => \A i \in DOMAIN chain : i > 1 => chain[i].kind # "append"
    BY <1>2, InitFinds
  <2>2. /\ \A o \in Operation : Queued(o) => o.kind \notin {"suffix", "batch"}
        /\ \A m \in Slots :
             session[m].where # "none" /\ session[m].init = "ready" =>
               session[m].where # "live" /\ session[m].events = <<>>
    BY <1>4, OwnerIsGone
  <2>3. tracked'.owner = 0 /\ CursorIsEnd' /\ LogIsOwned'
    BY <1>4 DEF NoState, CursorIsEnd, LogIsOwned
  <2>4. /\ session'[s].init = "failed"
        /\ \A m \in Slots \ {s} : session'[m] = session[m]
    BY <1>1, <1>2, EndedSession DEF Writer
  <2>5. ReadyFits'
    BY <2>1, <2>2, <2>3, <2>4 DEF ReadyFits
  <2>6. \A o \in Operation : o.kind = "init" => tracked'.owner # o.of
    BY <2>1, <2>3 DEF Operation
  <2> QED BY <1>1, <1>4, <2>1, <2>2, <2>3, <2>5, <2>6, EndRuns DEF Writer
<1> QED BY <1>3, <1>4

\* A fresh session becomes the owner of a log that its seed reproduces, and the
\* rest of the seed is written.
LEMMA InitBinds ==
    ASSUME IInv, Starts("init"), Unclaimed, NEW s \in Slots, s = Head1.of,
           NEW t \in State, tracked' = t, t.known, t.owner = s, t.cursor = Len(log),
           ~t.materialized => log = <<>>,
           IsPrefix(log, SubSeq(session[s].events, 1, Head1.arg)),
           AppendCore(t, t.cursor,
                      SubSeq(SubSeq(session[s].events, 1, Head1.arg), t.cursor + 1,
                             Len(SubSeq(session[s].events, 1, Head1.arg)))),
           UNCHANGED <<store, pool, retiring, caller, budget>>
    PROVE  IInv'
<1> USE DEF IInv
<1> DEFINE seed == SubSeq(session[s].events, 1, Head1.arg)
           rest == SubSeq(seed, t.cursor + 1, Len(seed))
<1>1. /\ chain # <<>> /\ Head1.kind = "init" /\ stage = "queued" /\ TypeOK /\ 0 \notin Slots
      /\ session[s] \in Session /\ session[s].where \in {"live", "disposed"}
      /\ session[s].init = "pending"
      /\ Head1.arg \in Nat /\ Head1.arg <= Len(session[s].events)
      /\ session[s].acked <= Head1.arg
      /\ current = 0 /\ \A d \in Callers : ~Holds(d)
      /\ \A o \in Operation : Queued(o) /\ o.kind = "init" /\ ~Clash(Head1, o) => o.of # s
      /\ ~AppendWhileHeld => \A i \in DOMAIN chain : i > 1 => chain[i].kind # "append"
  BY InitFinds
<1>2. /\ session[s].events \in Seq(Event) /\ log \in Seq(Event) /\ t.cursor \in Nat
      /\ Head1.arg \in 0..Len(session[s].events) /\ session[s].acked \in Nat
  BY <1>1 DEF Session, State, TypeOK
<1>3. /\ seed \in Seq(Event) /\ Len(seed) = Head1.arg
      /\ rest = SubSeq(session[s].events, t.cursor + 1, Head1.arg)
  BY <1>2, PartOfPart
<1>4. IsPrefix(log, session[s].events) /\ Len(log) <= Head1.arg
  <2>1. IsPrefix(log, session[s].events)
    BY <1>2, PrefixOfPart
  <2>2. IsPrefix(log, seed)
    OBVIOUS
  <2> HIDE DEF seed
  <2>3. Len(log) <= Len(seed)
    BY <1>2, <1>3, <2>2, PrefixIs
  <2> QED BY <1>3, <2>1, <2>3
<1>5. AppendCore(t, t.cursor, rest)
  OBVIOUS
<1> HIDE DEF seed, rest
<1>6. rest \in Seq(Event) /\ (rest = <<>> <=> Head1.arg <= t.cursor)
  <2>1. /\ SubSeq(session[s].events, t.cursor + 1, Head1.arg) \in Seq(Event)
        /\ SubSeq(session[s].events, t.cursor + 1, Head1.arg) = <<>> <=> Head1.arg <= t.cursor
    BY <1>1, <1>2, PartIs
  <2> QED BY <1>3, <2>1
<1>7. /\ \A o \in Operation : Queued(o) => o.kind \notin {"suffix", "batch"}
      /\ \A m \in Slots :
           session[m].where # "none" /\ session[m].init = "ready" =>
             session[m].where # "live" /\ session[m].events = <<>>
  BY OwnerIsGone
<1>8. ~Held
  BY <1>1 DEF Held
<1>9. CASE rest = <<>> /\ End(TRUE)
  <2>1. /\ session'[s].init = "ready" /\ session'[s].acked = session[s].acked
        /\ session'[s].events = session[s].events
        /\ session'[s].where # "none"
        /\ \A m \in Slots \ {s} : session'[m] = session[m]
    BY <1>1, <1>9, EndedSession DEF Writer
  <2>2. session'[s].acked <= t.cursor
    BY <1>1, <1>2, <1>6, <1>9, <2>1
  <2>3. log' = log
    BY DEF store
  <2>4. CursorIsEnd'
    BY <1>1, <2>1, <2>3 DEF CursorIsEnd
  <2>5. LogIsOwned'
    BY <1>4, <2>1, <2>3 DEF LogIsOwned
  <2>6. ReadyFits'
    BY <1>7, <2>1, <2>2 DEF ReadyFits
  <2>7. calls' \in Nat /\ acts' \in Nat /\ faults' \in Nat
    BY <1>1 DEF budget, TypeOK
  <2> QED BY <1>1, <1>7, <1>9, <2>4, <2>5, <2>6, <2>7, EndRuns DEF Writer
<1>10. CASE rest # <<>> /\ Continue("write", t.cursor, rest)
  <2>1. /\ stage' = "write" /\ writing' = [at |-> t.cursor, events |-> rest]
        /\ chain' = chain /\ session' = session /\ current' = current /\ entry' = entry
        /\ log' = log /\ revision' = revision /\ retiring' = retiring /\ caller' = caller
    BY <1>10 DEF Continue, store, pool
  <2>2. TypeOK'
    BY <1>1, <1>2, <1>6, <2>1 DEF TypeOK, budget
  <2>3. SourcesAreRead'
    BY <2>1 DEF SourcesAreRead
  <2>4. CursorIsEnd'
    BY <1>1, <2>1 DEF CursorIsEnd
  <2>5. CallersFit'
    <3>1. \A d \in Callers : CallerFits(d) => CallerFits(d)'
      BY <2>1 DEF CallerFits
    <3> QED BY <2>1, <3>1 DEF CallersFit
  <2>6. HoldersFit'
    BY <1>1, <2>1 DEF HoldersFit, Holds
  <2>7. StageFits'
    <3>1. Head1' = Head1 /\ Head1.kind = "init" /\ t.cursor < Head1.arg
      BY <1>1, <1>2, <1>6, <1>10, <2>1 DEF Head1
    <3> QED BY <1>1, <1>3, <2>1, <3>1 DEF StageFits, Writer
  <2>8. OpsFit'
    <3>1. \A o \in Operation : Queued(o) /\ Fits(o) => Fits(o)'
      BY <1>7, <2>1 DEF Fits, Writer
    <3>2. \A o \in Operation : Waits(o)' /\ o.kind = "init" => o.of # s
      <4> SUFFICES ASSUME NEW o \in Operation, Waits(o)', o.kind = "init"
                   PROVE  o.of # s
        OBVIOUS
      <4>1. PICK i \in DOMAIN chain : chain[i] = o /\ i > 1
        BY <2>1 DEF Waits
      <4>2. ~Clash(Head1, o) /\ Queued(o)
        BY <1>1, <4>1, FirstRuns DEF Queued
      <4> QED BY <1>1, <4>2
    <3> QED BY <1>1, <2>1, <3>1, <3>2, OpsStay
  <2>9. OneLive' /\ PreparedExtends'
    BY <2>1 DEF OneLive, Live, PreparedExtends
  <2>10. InitIsGuarded'
    BY <1>1, <2>1, GuardStays DEF Guards, Live
  <2>11. ReadyFits'
    BY <1>1, <1>7, <2>1 DEF ReadyFits
  <2>12. AppendIsUnowned'
    <3> SUFFICES ASSUME ~AppendWhileHeld PROVE \A i \in DOMAIN chain : chain[i].kind # "append"
      BY <2>1 DEF AppendIsUnowned
    <3> QED BY <1>1 DEF TypeOK, Head1
  <2>13. LogIsOwned'
    BY <1>4, <2>1 DEF LogIsOwned
  <2> QED BY <2>2, <2>3, <2>4, <2>5, <2>6, <2>7, <2>8, <2>9, <2>10, <2>11, <2>12, <2>13
<1> QED BY <1>5, <1>8, <1>9, <1>10 DEF AppendCore

\* The binding of a fresh session runs.
LEMMA InitRunsInv ==
    ASSUME IInv, InitRuns
    PROVE  IInv'
<1> USE DEF IInv
<1>1. /\ Starts("init") /\ chain # <<>> /\ Head1.kind = "init" /\ Head1 \in Operation
      /\ TypeOK /\ tracked \in State /\ log \in Seq(Event)
      /\ calls \in Nat /\ acts \in Nat /\ faults \in Nat
      /\ UNCHANGED <<store, pool, retiring, caller, calls, acts>>
  BY FirstRuns DEF InitRuns, Starts, Running, TypeOK
<1>2. PICK s \in Slots : s = Head1.of
  BY <1>1 DEF Operation
<1>3. /\ current = 0 /\ session[s].events \in Seq(Event)
      /\ Head1.arg \in 0..Len(session[s].events)
  <2>1. /\ current = 0 /\ session[s] \in Session
        /\ Head1.arg \in Nat /\ Head1.arg <= Len(session[s].events)
    BY <1>1, <1>2, InitFinds
  <2> QED BY <2>1 DEF Session
<1> DEFINE seed == SubSeq(session[s].events, 1, Head1.arg)
           Bind(t) == /\ tracked' = t
                      /\ AppendCore(t, t.cursor, SubSeq(seed, t.cursor + 1, Len(seed)))
           reclaims == tracked.known /\ tracked.owner # 0
                       /\ ~tracked.materialized /\ ~HasWork(tracked.owner)
           untracked == ~tracked.known \/ reclaims
           stored == SubSeq(log, 1, tracked.cursor)
<1>4. reclaims => Unclaimed
  BY DEF Unclaimed, Reclaimed
<1>5. ~tracked.known => tracked = NoState /\ Unclaimed
  BY DEF CursorIsEnd, NoState, Unclaimed
<1>6. CASE /\ Fault /\ tracked' = (IF reclaims THEN NoState ELSE tracked) /\ End(FALSE)
  <2>1. faults' \in Nat /\ calls' \in Nat /\ acts' \in Nat
    BY <1>1, <1>6 DEF Fault
  <2>2. tracked' = tracked \/ (tracked' = NoState /\ Unclaimed)
    BY <1>4, <1>6
  <2> QED BY <1>1, <1>6, <2>1, <2>2, InitFails
<1>7. CASE UNCHANGED <<tracked, faults>> /\ End(FALSE)
  BY <1>1, <1>7, InitFails
<1>8. CASE untracked /\ tracked' = NoState /\ End(FALSE) /\ UNCHANGED faults
  <2>1. tracked' = tracked \/ (tracked' = NoState /\ Unclaimed)
    BY <1>4, <1>5, <1>8
  <2> QED BY <1>1, <1>8, <2>1, InitFails
<1>9. CASE /\ tracked.known /\ tracked.owner = 0 /\ UNCHANGED faults
           /\ IsPrefix(stored, seed) /\ Bind([tracked EXCEPT !.owner = s])
  <2> DEFINE t == [tracked EXCEPT !.owner = s]
  <2>1. /\ t \in State /\ t.known /\ t.owner = s /\ t.cursor = tracked.cursor
        /\ t.materialized = tracked.materialized
    BY <1>1, <1>9 DEF State
  <2>2. tracked' = t /\ AppendCore(t, t.cursor, SubSeq(seed, t.cursor + 1, Len(seed)))
    BY <1>9
  <2> HIDE DEF t
  <2>3. tracked.cursor = Len(log) /\ (~tracked.materialized => log = <<>>)
    BY <1>9 DEF CursorIsEnd
  <2>4. stored = log
    BY <1>1, <2>3
  <2>5. IsPrefix(log, seed)
    BY <1>9, <2>4
  <2>6. Unclaimed
    BY <1>9 DEF Unclaimed
  <2> QED BY <1>1, <1>2, <1>9, <2>1, <2>2, <2>3, <2>5, <2>6, InitBinds DEF budget
<1>10. CASE /\ untracked /\ UNCHANGED faults /\ IsPrefix(log, seed)
            /\ Bind([known |-> TRUE, cursor |-> Len(log), materialized |-> TRUE, owner |-> s])
  <2> DEFINE t == [known |-> TRUE, cursor |-> Len(log), materialized |-> TRUE, owner |-> s]
  <2>1. /\ t \in State /\ t.known /\ t.owner = s /\ t.cursor = Len(log) /\ t.materialized
    BY <1>1 DEF State
  <2>2. tracked' = t /\ AppendCore(t, t.cursor, SubSeq(seed, t.cursor + 1, Len(seed)))
    BY <1>10
  <2> HIDE DEF t
  <2> QED BY <1>1, <1>2, <1>4, <1>5, <1>10, <2>1, <2>2, InitBinds DEF budget
<1>11. CASE /\ untracked /\ log = <<>> /\ UNCHANGED faults
            /\ Bind([NoState EXCEPT !.known = TRUE, !.owner = s])
  <2> DEFINE t == [NoState EXCEPT !.known = TRUE, !.owner = s]
  <2>1. /\ t \in State /\ t.known /\ t.owner = s /\ t.cursor = 0
    BY DEF State, NoState
  <2>2. tracked' = t /\ AppendCore(t, t.cursor, SubSeq(seed, t.cursor + 1, Len(seed)))
    BY <1>11
  <2> HIDE DEF t
  <2>3. Len(log) = 0 /\ IsPrefix(log, seed)
    <3>1. seed \in Seq(Event) /\ log \in Seq(Event) /\ Len(log) = 0 /\ Len(seed) \in Nat
      BY <1>1, <1>3, <1>11
    <3> HIDE DEF seed
    <3>2. Len(log) <= Len(seed) /\ \A i \in 1..Len(log) : log[i] = seed[i]
      BY <3>1
    <3>3. IsPrefix(log, seed)
      BY <3>1, <3>2, PrefixIs
    <3> QED BY <3>1, <3>3
  <2> QED BY <1>1, <1>2, <1>4, <1>5, <1>11, <2>1, <2>2, <2>3, InitBinds DEF budget
<1> HIDE DEF reclaims, Bind
<1> QED BY <1>2, <1>3, <1>6, <1>7, <1>8, <1>9, <1>10, <1>11 DEF InitRuns, reclaims, Bind

\* The running operation goes on, and the pool's entry may be dropped meanwhile.
LEMMA Moving ==
    ASSUME IInv, TypeOK', StageFits', stage # "queued" => stage' # "queued",
           UNCHANGED <<session, retiring, caller, chain>>,
           \A d \in Callers : ~Holds(d),
           current' \in {current, 0}, current' # 0 => entry'[current'].phase # "gone",
           \A n \in Slots :
             /\ entry'[n].source = entry[n].source /\ entry'[n].result = entry[n].result
             /\ entry[n].phase # "ready" => entry'[n].phase = entry[n].phase,
           SourcesAreRead', CursorIsEnd', LogIsOwned',
           tracked'.owner = tracked.owner, tracked.materialized => tracked'.materialized,
           tracked.owner # 0 => tracked'.cursor = tracked.cursor
    PROVE  IInv'
<1> USE DEF IInv
<1>0. /\ TypeOK /\ 0 \notin Slots /\ current \in Slots \cup {0}
      /\ current # 0 => entry[current].phase # "gone" /\ session[current].where = "none"
      /\ \A d \in Callers :
           /\ CallerFits(d)
           /\ caller[d].pc \notin {"idle", "start"} => caller[d].on \in Slots
      /\ session' = session /\ retiring' = retiring /\ caller' = caller /\ chain' = chain
      /\ tracked.owner \in Slots \cup {0}
  BY CallersNow DEF TypeOK, State
<1>1. CallersFit'
  <2>1. ASSUME NEW d \in Callers PROVE CallerFits(d)'
    <3>1. caller[d].pc \in Past => caller[d].on \in Slots /\ entry[caller[d].on].phase # "ready"
      BY <1>0 DEF CallerFits, Past
    <3>2. caller[d].pc \in Wanting => caller[d].on \in Slots
      BY <1>0 DEF Wanting, Past
    <3> QED BY <1>0, <3>1, <3>2 DEF CallerFits
  <2>2. current' # 0 => entry'[current'].phase # "gone" /\ session'[current'].where = "none"
    BY <1>0
  <2> QED BY <1>0, <2>1, <2>2 DEF CallersFit
<1>2. \A d \in Callers : ~Holds(d)'
  BY <1>0 DEF Holds, CallerFits
<1>3. HoldersFit'
  BY <1>2 DEF HoldersFit
<1>4. OpsFit'
  <2>1. ASSUME NEW o \in Operation, Fits(o)
        PROVE  Fits(o)'
    <3>1. o.kind \in {"load", "suffix"} => o.of \in Slots
      BY DEF Operation
    <3> QED BY <1>0, <2>1, <3>1 DEF Fits, OfCaller, Writer
  <2> QED BY <1>0, <2>1, OpsStay
<1>5. OneLive' /\ PreparedExtends'
  BY <1>0 DEF OneLive, Live, PreparedExtends
<1>6. InitIsGuarded'
  BY <1>0, GuardStays DEF Guards, Live
<1>7. ReadyFits'
  <2>1. ASSUME NEW m \in Slots, session[m].where # "none", session[m].init = "ready"
        PROVE  \/ tracked'.owner = m /\ session[m].acked <= tracked'.cursor
               \/ tracked'.owner # m /\ session[m].where # "live" /\ session[m].events = <<>>
    <3>1. \/ tracked.owner = m /\ session[m].acked <= tracked.cursor
          \/ tracked.owner # m /\ session[m].where # "live" /\ session[m].events = <<>>
      BY <2>1 DEF ReadyFits
    <3> QED BY <1>0, <3>1
  <2> QED BY <1>0, <2>1 DEF ReadyFits
<1>8. AppendIsUnowned'
  <2>1. ~AppendWhileHeld => \A o \in Operation : Queued(o) /\ o.kind = "append" => Unowned'
    BY <1>2 DEF AppendIsUnowned, Unowned, Queued
  <2>2. \A o \in Operation : Queued(o) /\ o.kind = "commit" /\ current # o.of => current' # o.of
    BY <1>0 DEF Operation
  <2> QED BY <1>0, <2>1, <2>2, AppendStays
<1> QED BY <1>1, <1>3, <1>4, <1>5, <1>6, <1>7, <1>8

\* An append to an identity that is not tracked adopts the stored log.
LEMMA AdoptRunsInv ==
    ASSUME IInv, AdoptRuns
    PROVE  IInv'
<1> USE DEF IInv
<1>0. /\ TypeOK /\ 0 \notin Slots /\ current \in Slots \cup {0}
      /\ entry \in [Slots -> Entry] /\ chain \in Seq(Operation) /\ log \in Seq(Event)
      /\ current # 0 => entry[current].phase # "gone" /\ session[current].where = "none"
      /\ \A d \in Callers :
           /\ CallerFits(d)
           /\ caller[d].pc \notin {"idle", "start"} => caller[d].on \in Slots
      /\ calls \in Nat /\ acts \in Nat /\ faults \in Nat /\ tracked \in State
      /\ writing \in [at : Nat, events : Seq(Event)]
  BY CallersNow DEF TypeOK
<1>1. /\ chain # <<>> /\ stage = "adopt" /\ Head1.kind = "append" /\ ~tracked.known
      /\ tracked = NoState /\ tracked.owner = 0 /\ \A d \in Callers : ~Holds(d)
      /\ writing.events = <<[n |-> Head1.arg, open |-> FALSE]>>
      /\ UNCHANGED <<store, retiring, caller, calls, acts>>
      /\ log' = log /\ revision' = revision /\ caller' = caller /\ retiring' = retiring
  BY DEF AdoptRuns, StageFits, CursorIsEnd, NoState, HoldersFit, store
<1>2. /\ current' \in Slots \cup {0} /\ entry' \in [Slots -> Entry] /\ current' \in {current, 0}
      /\ current' # 0 => entry'[current'].phase # "gone"
      /\ \A n \in Slots :
           /\ entry'[n].source = entry[n].source /\ entry'[n].result = entry[n].result
           /\ entry[n].phase # "ready" => entry'[n].phase = entry[n].phase
  <2>1. CASE current # 0 /\ entry[current].phase = "ready"
    <3>1. Drop(current)
      BY <2>1 DEF AdoptRuns
    <3> QED BY <1>0, <2>1, <3>1, Dropping
  <2>2. CASE ~(current # 0 /\ entry[current].phase = "ready")
    <3>1. current' = current /\ entry' = entry
      BY <2>2 DEF AdoptRuns, pool
    <3> QED BY <1>0, <3>1
  <2> QED BY <2>1, <2>2
<1>3. SourcesAreRead'
  BY <1>1, <1>2 DEF SourcesAreRead
<1>4. \A d \in Callers : ~Holds(d)' /\ Stays(d)
  <2> SUFFICES ASSUME NEW d \in Callers PROVE ~Holds(d)' /\ Stays(d)
    OBVIOUS
  <2>1. caller'[d] = caller[d] /\ ~Holds(d)
    BY <1>1
  <2>2. caller[d].pc = "committed" => caller[d].on # 0
    BY <1>0
  <2> QED BY <1>2, <2>1, <2>2 DEF Holds, Stays
<1>5. \A d \in Callers : caller[d].pc \in Past =>
         entry'[caller[d].on].phase = entry[caller[d].on].phase
  BY <1>0, <1>2 DEF CallerFits, Past
<1>6. CASE UNCHANGED <<tracked, work, session, faults>>
  <2>1. /\ chain' = chain /\ stage' = stage /\ writing' = writing /\ session' = session
        /\ tracked' = tracked /\ faults' = faults
    BY <1>6 DEF work
  <2>2. TypeOK'
    BY <1>0, <1>1, <1>2, <2>1 DEF TypeOK
  <2>3. StageFits' /\ CursorIsEnd' /\ LogIsOwned'
    BY <1>1, <2>1 DEF StageFits, CursorIsEnd, LogIsOwned, Head1, Interrupted
  <2> QED BY <1>1, <1>2, <1>3, <2>1, <2>2, <2>3, Moving
<1>7. CASE stage' = "repair" /\ UNCHANGED <<tracked, chain, writing, session, faults>>
  <2>1. TypeOK'
    BY <1>0, <1>1, <1>2, <1>7 DEF TypeOK
  <2>2. StageFits' /\ CursorIsEnd' /\ LogIsOwned'
    BY <1>1, <1>7 DEF StageFits, CursorIsEnd, LogIsOwned, Head1, Interrupted
  <2> QED BY <1>1, <1>2, <1>3, <1>7, <2>1, <2>2, Moving
<1>8. ASSUME tracked' = tracked \/ /\ ~Interrupted(log)
                                   /\ tracked' = [known |-> TRUE, cursor |-> Len(log),
                                                  materialized |-> TRUE, owner |-> 0]
      PROVE  /\ tracked' \in State /\ tracked'.owner = 0 /\ CursorIsEnd' /\ LogIsOwned'
  <2>1. tracked' \in State /\ tracked'.owner = 0
    <3>1. CASE tracked' = tracked
      BY <1>0, <1>1, <3>1
    <3>2. CASE tracked' = [known |-> TRUE, cursor |-> Len(log), materialized |-> TRUE, owner |-> 0]
      <4>1. Len(log) \in Nat
        BY <1>0
      <4> QED BY <3>2, <4>1 DEF State
    <3> QED BY <1>8, <3>1, <3>2
  <2>2. CursorIsEnd' /\ LogIsOwned'
    BY <1>1, <1>8 DEF CursorIsEnd, LogIsOwned, NoState, Interrupted
  <2> QED BY <2>1, <2>2
<1>9. CASE /\ ~Interrupted(log)
           /\ tracked' = [known |-> TRUE, cursor |-> Len(log), materialized |-> TRUE, owner |-> 0]
           /\ writing.at = Len(log) /\ Continue("write", writing.at, writing.events)
           /\ UNCHANGED faults
  <2>1. /\ stage' = "write" /\ writing' = [at |-> writing.at, events |-> writing.events]
        /\ chain' = chain /\ session' = session /\ faults' = faults
    BY <1>9 DEF Continue
  <2>2. TypeOK'
    BY <1>0, <1>1, <1>2, <1>8, <1>9, <2>1 DEF TypeOK
  <2>3. StageFits'
    BY <1>1, <1>9, <2>1 DEF StageFits, Head1, Writer
  <2> QED BY <1>1, <1>2, <1>3, <1>8, <1>9, <2>1, <2>2, <2>3, Moving
<1>10. CASE /\ End(FALSE) /\ faults' \in Nat
            /\ \/ tracked' = tracked
               \/ /\ ~Interrupted(log)
                  /\ tracked' = [known |-> TRUE, cursor |-> Len(log), materialized |-> TRUE,
                                 owner |-> 0]
  <2>1. /\ session' \in [Slots -> Session]
        /\ chain' \in Seq(Operation) /\ stage' = "queued"
        /\ writing' \in [at : Nat, events : Seq(Event)] /\ session' = session
        /\ \A m \in Slots : session'[m].acked <= Len(session'[m].events)
    BY <1>1, <1>10, EndedSession DEF Writer
  <2>2. TypeOK'
    BY <1>0, <1>1, <1>2, <1>8, <1>10, <2>1 DEF TypeOK
  <2>3. ReadyFits'
    BY <1>0, <1>1, <1>8, <1>10, <2>1 DEF ReadyFits
  <2>4. HoldersFit' /\ Unowned'
    BY <1>4, <1>8, <1>10 DEF HoldersFit, Unowned
  <2>5. tracked'.owner = tracked.owner /\ (tracked.materialized => tracked'.materialized)
    BY <1>1, <1>8, <1>10
  <2> QED BY <1>1, <1>2, <1>3, <1>4, <1>5, <1>8, <1>10, <2>2, <2>3, <2>4, <2>5, Ending
<1>11. faults' = faults \/ Fault => faults' \in Nat
  BY <1>0 DEF Fault
<1> QED BY <1>6, <1>7, <1>9, <1>10, <1>11 DEF AdoptRuns

\* The repair of an adoption settles.
LEMMA AdoptRepairedInv ==
    ASSUME IInv, AdoptRepaired
    PROVE  IInv'
<1> USE DEF IInv
<1>1. /\ TypeOK /\ chain # <<>> /\ stage = "repair" /\ Head1.kind = "append"
      /\ ~tracked.known /\ tracked = NoState /\ tracked.owner = 0
      /\ \A d \in Callers : ~Holds(d)
      /\ log \in Seq(Event) /\ tracked \in State /\ calls \in Nat /\ acts \in Nat /\ faults \in Nat
      /\ UNCHANGED <<pool, tracked, retiring, caller, calls, acts>>
      /\ tracked' = tracked /\ entry' = entry
  BY DEF AdoptRepaired, StageFits, CursorIsEnd, NoState, HoldersFit, TypeOK, pool
<1>2. CASE /\ log' = Balanced(log) /\ revision' = revision + 1
           /\ stage' = "adopt"
           /\ UNCHANGED <<session, chain, writing, faults>>
  <2>1. log' \in Seq(Event)
    BY <1>1, <1>2, BalancedIs
  <2>2. SourcesAreRead' /\ revision' \in Nat
    BY <1>1, <1>2, NewRevision
  <2>3. CursorIsEnd' /\ LogIsOwned'
    BY <1>1, <1>2 DEF CursorIsEnd, LogIsOwned
  <2>4. TypeOK'
    BY <1>1, <1>2, <2>1, <2>2 DEF TypeOK, pool
  <2>5. StageFits'
    BY <1>1, <1>2 DEF StageFits, Head1
  <2> QED BY <1>1, <1>2, <2>2, <2>3, <2>4, <2>5, StageMoves
<1>3. CASE Fault /\ End(FALSE) /\ UNCHANGED store
  <2>1. faults' \in Nat /\ tracked' \in State
    BY <1>1, <1>3 DEF Fault
  <2> QED BY <1>1, <1>3, <2>1, EndRuns
<1> QED BY <1>2, <1>3 DEF AdoptRepaired

\* What a durable write adds to the log.
LEMMA WriteIs ==
    ASSUME IInv, stage = "write", log' = log \o writing.events,
           tracked' = [tracked EXCEPT !.materialized = TRUE, !.cursor = @ + Len(writing.events)]
    PROVE  /\ log' \in Seq(Event) /\ tracked' \in State /\ tracked'.known
           /\ tracked'.materialized /\ tracked'.owner = tracked.owner
           /\ tracked'.cursor = Len(log') /\ tracked.cursor <= tracked'.cursor
           /\ Head1.kind = "append" => ~Interrupted(log')
           /\ Head1.kind \in Writer =>
                /\ tracked'.cursor = Head1.arg
                /\ ~AppendWhileHeld => IsPrefix(log', session[Head1.of].events)
<1> USE DEF IInv
<1>1. /\ TypeOK /\ tracked.known /\ writing.at = tracked.cursor /\ tracked.cursor = Len(log)
      /\ Head1.kind \in Writer =>
              /\ tracked.owner = Head1.of /\ writing.at < Head1.arg
              /\ writing.events = SubSeq(session[Head1.of].events, writing.at + 1, Head1.arg)
      /\ Head1.kind = "append" => writing.events = <<[n |-> Head1.arg, open |-> FALSE]>>
      /\ chain # <<>>
  BY DEF StageFits, CursorIsEnd
<1>2. /\ Head1 \in Operation /\ Fits(Head1) /\ log \in Seq(Event) /\ tracked \in State
      /\ writing.events \in Seq(Event)
  BY <1>1, FirstRuns DEF TypeOK
<1> DEFINE l == log \o writing.events
<1>3. l \in Seq(Event) /\ Len(l) = Len(log) + Len(writing.events)
  BY <1>2
<1>4. /\ Len(log) \in Nat /\ Len(writing.events) \in Nat /\ tracked.cursor \in Nat
  BY <1>1, <1>2
<1>5. /\ tracked' \in State /\ tracked'.known /\ tracked'.materialized
      /\ tracked'.owner = tracked.owner
      /\ tracked'.cursor = tracked.cursor + Len(writing.events)
  <2> DEFINE k == tracked.cursor + Len(writing.events)
  <2>1. k \in Nat /\ tracked' = [tracked EXCEPT !.materialized = TRUE, !.cursor = k]
    BY <1>4
  <2> HIDE DEF k
  <2>2. /\ tracked' \in State /\ tracked'.known = tracked.known /\ tracked'.materialized
        /\ tracked'.owner = tracked.owner /\ tracked'.cursor = k
    BY <1>2, <2>1 DEF State
  <2> QED BY <1>1, <2>2 DEF k
<1>6. CASE Head1.kind = "append"
  <2> DEFINE e == [n |-> Head1.arg, open |-> FALSE]
  <2>1. e \in Event /\ ~e.open
    BY <1>2, <1>6 DEF Event, Operation
  <2>2. l = Append(log, e)
    <3>1. writing.events = <<e>>
      BY <1>1, <1>6
    <3> HIDE DEF e
    <3>2. log \o <<e>> = Append(log, e)
      BY <1>2, <2>1
    <3> QED BY <3>1, <3>2
  <2> HIDE DEF e
  <2>3. ~Interrupted(Append(log, e))
    BY <1>2, <2>1, ClosedByLast
  <2>4. ~Interrupted(l)
    BY <2>2, <2>3
  <2>5. log' = l
    OBVIOUS
  <2> HIDE DEF l
  <2>6. ~Interrupted(log)' = ~Interrupted(l)
    BY <2>5 DEF Interrupted
  <2> QED BY <1>1, <1>3, <1>4, <1>5, <1>6, <2>4, <2>5, <2>6 DEF Writer
<1>7. CASE Head1.kind \in Writer
  <2>1. PICK s \in Slots : s = Head1.of
    BY <1>2, <1>7 DEF Operation, Writer
  <2>2. /\ session[s] \in Session /\ Head1.arg \in Nat
        /\ Head1.arg <= Len(session[s].events)
    BY <1>1, <1>2, <1>7, <2>1 DEF Fits, TypeOK, Operation, Writer
  <2>3. session[s].events \in Seq(Event) /\ Len(log) < Head1.arg /\ tracked.owner # 0
    BY <1>1, <1>7, <2>1, <2>2 DEF Session, Slots
  <2>4. writing.events = SubSeq(session[s].events, Len(log) + 1, Head1.arg)
    BY <1>1, <1>7, <2>1
  <2>5. Len(SubSeq(session[s].events, Len(log) + 1, Head1.arg)) = Head1.arg - Len(log)
    BY <1>4, <2>2, <2>3
  <2>6. tracked'.cursor = Head1.arg /\ Len(l) = Head1.arg
    BY <1>1, <1>3, <1>4, <1>5, <2>2, <2>4, <2>5
  <2>7. ~AppendWhileHeld => IsPrefix(l, session[s].events)
    <3> SUFFICES ASSUME ~AppendWhileHeld PROVE IsPrefix(l, session[s].events)
      OBVIOUS
    <3>1. IsPrefix(log, session[s].events)
      BY <1>1, <1>7, <2>1, <2>3 DEF LogIsOwned
    <3>2. IsPrefix(log \o SubSeq(session[s].events, Len(log) + 1, Head1.arg), session[s].events)
      BY <1>2, <1>4, <2>2, <2>3, <3>1, PrefixContinues
    <3> QED BY <2>4, <3>2
  <2>8. log' = l
    OBVIOUS
  <2> HIDE DEF l
  <2>9. tracked'.cursor >= tracked.cursor
    BY <1>1, <1>4, <2>2, <2>3, <2>6
  <2> QED BY <1>3, <1>5, <1>7, <2>1, <2>6, <2>7, <2>8, <2>9 DEF Writer
<1>8. Head1.kind \in Writer \cup {"append"}
  BY DEF StageFits
<1> QED BY <1>6, <1>7, <1>8

\* A write returned: its events are stored and every view of the old log is
\* discarded, or it failed.
LEMMA WriteReturnsInv ==
    ASSUME IInv, WriteReturns
    PROVE  IInv'
<1> USE DEF IInv
<1>0. /\ TypeOK /\ 0 \notin Slots /\ current \in Slots \cup {0}
      /\ entry \in [Slots -> Entry] /\ chain \in Seq(Operation) /\ caller \in [Callers -> Caller]
      /\ current # 0 => entry[current].phase # "gone" /\ session[current].where = "none"
      /\ \A d \in Callers :
           /\ CallerFits(d)
           /\ caller[d].pc \notin {"idle", "start"} => caller[d].on \in Slots
      /\ calls \in Nat /\ acts \in Nat /\ faults \in Nat /\ tracked \in State
      /\ revision \in Nat
  BY CallersNow DEF TypeOK
<1>1. /\ chain # <<>> /\ stage = "write" /\ Head1.kind \in Writer \cup {"append"}
      /\ tracked.known /\ tracked.cursor = Len(log) /\ \A d \in Callers : ~Holds(d)
      /\ Head1.kind \in Writer => tracked.owner = Head1.of
      /\ Head1 \in Operation /\ Fits(Head1)
      /\ UNCHANGED <<retiring, calls, acts>>
  BY FirstRuns DEF WriteReturns, StageFits, CursorIsEnd, HoldersFit
<1>2. CASE Fault /\ End(FALSE) /\ UNCHANGED <<store, tracked, pool, caller>>
  <2>1. faults' \in Nat /\ tracked' \in State
    BY <1>0, <1>2 DEF Fault
  <2> QED BY <1>0, <1>1, <1>2, <2>1, EndRuns
<1>3. CASE /\ log' = log \o writing.events /\ revision' = revision + 1
           /\ tracked' = [tracked EXCEPT !.materialized = TRUE,
                                         !.cursor = @ + Len(writing.events)]
           /\ Drop(current) /\ caller' = Released(current)
           /\ End(TRUE)
           /\ UNCHANGED faults
  <2>1. /\ log' \in Seq(Event) /\ tracked' \in State /\ tracked'.known
        /\ tracked'.materialized /\ tracked'.owner = tracked.owner
        /\ tracked'.cursor = Len(log') /\ tracked.cursor <= tracked'.cursor
        /\ Head1.kind = "append" => ~Interrupted(log')
        /\ Head1.kind \in Writer =>
             /\ tracked'.cursor = Head1.arg
             /\ ~AppendWhileHeld => IsPrefix(log', session[Head1.of].events)
    BY <1>1, <1>3, WriteIs
  <2>2. /\ current' \in Slots \cup {0} /\ entry' \in [Slots -> Entry]
        /\ current' = 0
        /\ \A n \in Slots :
             /\ entry'[n].source = entry[n].source /\ entry'[n].result = entry[n].result
             /\ entry'[n].phase = IF current = current /\ n = current THEN "gone" ELSE entry[n].phase
    BY <1>0, <1>3, Dropping
  <2>3. /\ caller' \in [Callers -> Caller] /\ \A d \in Callers : Stays(d)
    BY <1>0, <1>3, Releasing DEF Stays
  <2>4. /\ session' \in [Slots -> Session]
        /\ chain' \in Seq(Operation) /\ stage' = "queued"
        /\ writing' \in [at : Nat, events : Seq(Event)]
        /\ Head1.kind \notin Writer => session' = session
        /\ \A m \in Slots :
             /\ session'[m].acked <= Len(session'[m].events)
             /\ session'[m].events = session[m].events
             /\ session'[m].where = session[m].where \/ session'[m].where = "failing"
             /\ session'[m].where = "none" <=> session[m].where = "none"
             /\ m # Head1.of => session'[m] = session[m]
        /\ Head1.kind \in Writer => Head1.of \in Slots
        /\ Head1.kind \in {"init", "suffix"} =>
             session'[Head1.of].acked = session[Head1.of].acked
        /\ Head1.kind = "batch" => session'[Head1.of].acked = Head1.arg
    BY <1>1, <1>3, EndedSession
  <2>5. SourcesAreRead' /\ revision' \in Nat
    BY <1>0, <1>3, <2>2, NewRevision
  <2>6. TypeOK'
    BY <1>0, <1>1, <1>3, <2>1, <2>2, <2>3, <2>4, <2>5 DEF TypeOK
  <2>7. tracked.owner \in Slots \cup {0} /\ (Head1.kind \in Writer => tracked.owner # 0)
    BY <1>0, <1>1, <2>4 DEF State
  <2>8. CursorIsEnd'
    <3>1. tracked'.owner # 0 => session'[tracked'.owner].where # "none"
      BY <2>1, <2>4, <2>7 DEF CursorIsEnd
    <3>2. tracked'.owner = 0 => ~Interrupted(log')
      BY <1>1, <2>1, <2>7
    <3> QED BY <2>1, <3>1, <3>2 DEF CursorIsEnd, Interrupted
  <2>9. ~AppendWhileHeld /\ Head1.kind = "append" => tracked.owner = 0
    <3>1. 1 \in DOMAIN chain
      BY <1>1, FirstRuns
    <3> QED BY <3>1 DEF AppendIsUnowned, Unowned, Head1
  <2>10. LogIsOwned'
    <3> SUFFICES ASSUME ~AppendWhileHeld, tracked'.owner # 0
                 PROVE  IsPrefix(log', session'[tracked'.owner].events)
      BY DEF LogIsOwned
    <3>1. Head1.kind \in Writer
      BY <1>1, <2>1, <2>9
    <3> QED BY <1>1, <2>1, <2>4, <3>1
  <2>11. ReadyFits'
    <3>1. ASSUME NEW m \in Slots, session'[m].where # "none", session'[m].init = "ready"
          PROVE  \/ tracked.owner = m /\ session'[m].acked <= tracked'.cursor
                 \/ tracked.owner # m /\ session'[m].where # "live" /\ session'[m].events = <<>>
      <4>1. CASE session'[m] = session[m]
        <5>1. \/ tracked.owner = m /\ session[m].acked <= tracked.cursor
              \/ tracked.owner # m /\ session[m].where # "live" /\ session[m].events = <<>>
          BY <3>1, <4>1 DEF ReadyFits
        <5>2. session[m].acked \in Nat /\ tracked.cursor \in Nat /\ tracked'.cursor \in Nat
          BY <1>0, <2>1 DEF TypeOK, State, Session
        <5> QED BY <2>1, <4>1, <5>1, <5>2
      <4>2. CASE session'[m] # session[m]
        <5>1. m = Head1.of /\ Head1.kind \in Writer
          BY <2>4, <4>2
        <5>2. session[m].acked <= Head1.arg /\ Head1.arg \in Nat
          BY <1>1, <5>1 DEF Fits, Operation, Writer
        <5>3. session'[m].acked <= Head1.arg
          BY <2>4, <5>1, <5>2 DEF Writer
        <5> QED BY <1>1, <2>1, <5>1, <5>3
      <4> QED BY <4>1, <4>2
    <3> QED BY <2>1, <3>1 DEF ReadyFits
  <2>12. \A d \in Callers : ~Holds(d)'
    BY <1>0, <1>1, <2>2, <2>3, HoldsStay
  <2>13. HoldersFit'
    BY <2>12 DEF HoldersFit
  <2>14. ~AppendWhileHeld => \A i \in DOMAIN chain : i > 1 /\ chain[i].kind = "append" => Unowned'
    BY <2>1, <2>12 DEF AppendIsUnowned, Unowned
  <2>15. \A d \in Callers : caller[d].pc \in Past =>
             \/ entry'[caller[d].on].phase = entry[caller[d].on].phase
             \/ entry'[caller[d].on].phase = "gone" /\ caller[d].pc # "held"
    BY <1>0, <1>1, <2>2 DEF Past, Holds
  <2> QED BY <1>1, <1>3, <2>1, <2>2, <2>3, <2>5, <2>6, <2>8, <2>10, <2>11, <2>13, <2>14, <2>15,
             Ending
<1> QED BY <1>2, <1>3 DEF WriteReturns

-----------------------------------------------------------------------------
(* The live sessions come and go. *)

\* The session of slot s goes live with these events; those behind the durable
\* cursor become an operation of the chain.
GoesLive(s, events) ==
    /\ session' = [session EXCEPT
            ![s].where = "live", ![s].events = events,
            ![s].acked = Len(session[s].events),
            ![s].init = IF Len(events) > tracked.cursor THEN "pending" ELSE "ready"]
    /\ chain' = IF Len(events) > tracked.cursor
                THEN Append(chain, Op("suffix", s, Len(events))) ELSE chain

\* A held preparation is published: its session becomes the owner.
LEMMA Published ==
    ASSUME IInv, NEW c \in Callers, caller[c].pc = "held", Live = {},
           NEW s \in Slots, s = caller[c].on, NEW events \in Seq(Event),
           IsPrefix(session[s].events, events),
           tracked.cursor = Len(Balanced(entry[s].source.log)),
           Drop(s), caller' = Done(Released(s), c), tracked' = [tracked EXCEPT !.owner = s],
           GoesLive(s, events),
           UNCHANGED <<store, retiring, stage, writing, calls, faults>>, acts' \in Nat
    PROVE  IInv'
<1> USE DEF IInv
<1>0. /\ TypeOK /\ 0 \notin Slots /\ current \in Slots \cup {0}
      /\ entry \in [Slots -> Entry] /\ chain \in Seq(Operation) /\ caller \in [Callers -> Caller]
      /\ session \in [Slots -> Session] /\ tracked \in State /\ log \in Seq(Event)
      /\ \A d \in Callers :
           /\ CallerFits(d)
           /\ caller[d].pc \notin {"idle", "start"} => caller[d].on \in Slots
           /\ caller[d].pc = "held" => current = caller[d].on
      /\ \A d, e \in Callers :
           caller[d].pc \in Past /\ caller[e].pc \in Past /\ d # e => caller[d].on # caller[e].on
      /\ log' = log /\ revision' = revision /\ retiring' = retiring
      /\ stage' = stage /\ writing' = writing
  BY CallersNow DEF TypeOK, store
<1>1. /\ current = s /\ stage = "queued" /\ tracked.known /\ tracked.materialized
      /\ tracked.owner = 0 /\ entry[s].source.revision = revision
  BY DEF HoldersFit, Holds
<1>2. /\ entry[s].source.log = log /\ entry[s].result = "ok" /\ session[s].where = "none"
      /\ tracked.cursor = Len(log)
  BY <1>0, <1>1 DEF SourcesAreRead, CursorIsEnd, CallerFits, Wanting, Past
<1>3. /\ session[s] \in Session /\ session[s].events \in Seq(Event)
      /\ Len(session[s].events) <= Len(events) /\ Len(events) \in Nat
      /\ Len(session[s].events) \in Nat
  <2>1. session[s] \in Session
    BY <1>0
  <2>2. session[s].events \in Seq(Event)
    BY <2>1 DEF Session
  <2> QED BY <2>1, <2>2, PrefixIs
<1>4. IsPrefix(log, events)
  <2>1. IsPrefix(log, session[s].events)
    BY <1>2 DEF PreparedExtends
  <2>2. /\ Len(log) <= Len(session[s].events)
        /\ \A i \in 1..Len(log) : log[i] = session[s].events[i]
    BY <1>0, <1>3, <2>1, PrefixIs
  <2>3. \A i \in 1..Len(session[s].events) : session[s].events[i] = events[i]
    BY <1>3, PrefixIs
  <2>4. Len(log) \in Nat
    BY <1>0
  <2>5. Len(log) <= Len(events) /\ \A i \in 1..Len(log) : log[i] = events[i]
    BY <1>3, <2>2, <2>3, <2>4
  <2> QED BY <1>0, <2>5, PrefixIs
<1> DEFINE suffix == Len(events) > tracked.cursor
           y == [session[s] EXCEPT !.where = "live", !.events = events,
                                   !.acked = Len(session[s].events),
                                   !.init = IF suffix THEN "pending" ELSE "ready"]
<1>5. /\ y \in Session /\ y.where = "live" /\ y.events = events
      /\ y.acked = Len(session[s].events) /\ y.acked <= Len(y.events)
      /\ y.init = IF suffix THEN "pending" ELSE "ready"
  <2>1. PICK r \in Session : r = session[s]
    BY <1>3
  <2>2. PICK w \in {"pending", "ready"} : w = IF suffix THEN "pending" ELSE "ready"
    OBVIOUS
  <2>3. /\ y = [r EXCEPT !.where = "live", !.events = events,
                         !.acked = Len(r.events), !.init = w]
        /\ Len(r.events) <= Len(events) /\ Len(r.events) \in Nat
    BY <1>3, <2>1, <2>2
  <2> HIDE DEF y, suffix
  <2>4. y \in Session
    BY ONLY <2>3, events \in Seq(Event) DEF Session
  <2>5. /\ y.where = "live" /\ y.events = events /\ y.acked = Len(r.events) /\ y.init = w
    BY ONLY <2>3 DEF Session
  <2> QED BY <2>1, <2>2, <2>3, <2>4, <2>5
<1>6. session' = [session EXCEPT ![s] = y]
  BY Zenon DEF GoesLive
<1>7. chain' = IF suffix THEN Append(chain, Op("suffix", s, Len(events))) ELSE chain
  BY DEF GoesLive
<1>8. suffix <=> Len(events) > Len(log)
  BY <1>2
<1> HIDE DEF y, suffix
<1>9. /\ session' \in [Slots -> Session] /\ session'[s] = y
      /\ \A n \in Slots \ {s} : session'[n] = session[n]
      /\ \A n \in Slots : session'[n].acked <= Len(session'[n].events)
  BY <1>0, <1>5, <1>6, SessionIs
<1>10. /\ current' = 0 /\ entry' \in [Slots -> Entry]
       /\ \A n \in Slots :
            /\ entry'[n].source = entry[n].source /\ entry'[n].result = entry[n].result
            /\ entry'[n].phase = IF n = s THEN "gone" ELSE entry[n].phase
  BY <1>0, <1>1, Dropping
<1>11. /\ caller' \in [Callers -> Caller] /\ Leaves(c)
       /\ \A d \in Callers \ {c} : Stays(d)
  BY <1>0, LeavingReleased
<1>12. /\ tracked' \in State /\ tracked'.owner = s /\ tracked'.known
       /\ tracked'.materialized /\ tracked'.cursor = Len(log)
  BY <1>0, <1>1, <1>2 DEF State
<1>13. suffix => Op("suffix", s, Len(events)) \in Operation
  BY <1>3 DEF Op, Operation
<1>14. chain' \in Seq(Operation)
  BY <1>0, <1>7, <1>13
<1>15. TypeOK'
  <2>1. /\ log' \in Seq(Event) /\ revision' \in Nat /\ retiring' \in Slots \cup {0}
        /\ stage' \in {"queued", "repair", "adopt", "write", "delete"}
        /\ writing' \in [at : Nat, events : Seq(Event)]
        /\ calls' \in Nat /\ faults' \in Nat /\ acts' \in Nat
    BY <1>0 DEF TypeOK
  <2>2. current' \in Slots \cup {0}
    BY <1>10
  <2> QED BY <2>1, <2>2, <1>9, <1>10, <1>11, <1>12, <1>14 DEF TypeOK
<1>16. SourcesAreRead'
  BY <1>0, <1>10 DEF SourcesAreRead
<1>17. CursorIsEnd'
  <2>1. session'[s].where # "none" /\ tracked'.owner # 0
    <3>1. s # 0
      BY <1>0
    <3> QED BY <1>5, <1>9, <1>12, <3>1
  <2> QED BY <1>0, <1>12, <2>1 DEF CursorIsEnd
<1>18. \A d \in Callers \ {c} : caller[d].pc \in Past => caller[d].on \in Slots \ {s}
  BY <1>0 DEF Past
<1>19. CallersFit'
  <2>1. {} \in SUBSET Callers /\ (\A d, e \in {} : d = e) /\ Callers \ {} = Callers
    OBVIOUS
  <2>2. \A d \in Callers : Stays(d) \/ Leaves(d)
    BY <1>11
  <2>3. \A d \in Callers : Stays(d) /\ caller[d].pc \in Past =>
           /\ session'[caller[d].on].where = "none"
           /\ entry'[caller[d].on].phase = entry[caller[d].on].phase
    <3> SUFFICES ASSUME NEW d \in Callers, Stays(d), caller[d].pc \in Past
                 PROVE  /\ session'[caller[d].on].where = "none"
                        /\ entry'[caller[d].on].phase = entry[caller[d].on].phase
      OBVIOUS
    <3>1. d # c
      BY <1>11 DEF Stays, Leaves
    <3>2. caller[d].on \in Slots \ {s} /\ session[caller[d].on].where = "none"
      BY <1>0, <1>18, <3>1 DEF CallerFits
    <3> QED BY <1>9, <1>10, <3>2
  <2>4. /\ current' # 0 => entry'[current'].phase # "gone" /\ session'[current'].where = "none"
        /\ \A n \in Slots : entry[n].result = "ok" => entry'[n].result = "ok"
    BY <1>10
  <2>5. /\ current' # 0 => entry'[current'].phase # "gone" /\ session'[current'].where = "none"
        /\ \A n \in Slots : entry[n].result = "ok" => entry'[n].result = "ok"
        /\ \A d \in Callers \ {} : Stays(d) \/ Leaves(d)
        /\ \A d \in Callers \ {} : Stays(d) /\ caller[d].pc \in Past =>
              /\ session'[caller[d].on].where = "none"
              /\ \/ entry'[caller[d].on].phase = entry[caller[d].on].phase
                 \/ entry'[caller[d].on].phase = "gone" /\ caller[d].pc # "held"
    BY <2>2, <2>3, <2>4
  <2> QED BY <1>15, <2>1, <2>5, CallersKept
<1>20. \A d \in Callers : ~Holds(d)'
  <2> SUFFICES ASSUME NEW d \in Callers, Holds(d)' PROVE FALSE
    OBVIOUS
  <2>1. d # c
    BY <1>11 DEF Leaves, Holds
  <2>2. Holds(d)
    BY <1>10, <1>11, <2>1, HoldsStay
  <2>3. current = caller[d].on /\ caller[d].pc \in Past
    BY <2>2 DEF HoldersFit, Holds, Past
  <2> QED BY <1>1, <1>18, <2>1, <2>3
<1>21. HoldersFit'
  BY <1>20 DEF HoldersFit
<1>22. StageFits'
  BY <1>0, <1>1 DEF StageFits
<1>23. \A o \in Operation : Queued(o) =>
          Fits(o)' /\ (o.kind \in OfSlot => o.of # s)
  <2> SUFFICES ASSUME NEW o \in Operation, Queued(o)
               PROVE  Fits(o)' /\ (o.kind \in OfSlot => o.of # s)
    OBVIOUS
  <2>1. Fits(o)
    BY DEF OpsFit
  <2>2. o.kind \notin {"suffix", "batch"}
    BY <1>0, <1>1, <2>1 DEF Fits, Writer, Operation
  <2>3. o.kind \in OfSlot => o.of # s
    BY <1>2, <2>1 DEF Fits, OfSlot, Writer
  <2>4. CASE o.kind \in OfCaller
    <3>1. /\ o.arg \in Callers /\ caller[o.arg].on = o.of
          /\ caller[o.arg].pc = IF o.kind = "commit" THEN "commit" ELSE "checking"
      BY <2>1, <2>4 DEF Operation, OfCaller, Fits
    <3>2. o.arg # c
      BY <3>1
    <3>3. caller'[o.arg].on = caller[o.arg].on /\ caller'[o.arg].pc = caller[o.arg].pc
      BY <1>11, <3>1, <3>2 DEF Stays
    <3> QED BY <2>4, <3>1, <3>3 DEF Fits, OfCaller, OfSlot, Writer
  <2>5. CASE o.kind \in OfSlot
    <3>1. o.of \in Slots \ {s}
      BY <2>3, <2>5 DEF Operation, OfSlot, Writer
    <3>2. session'[o.of] = session[o.of] /\ entry'[o.of].result = entry[o.of].result
      BY <1>9, <1>10, <3>1
    <3> QED BY <2>1, <2>2, <2>3, <2>5, <3>2 DEF Fits, OfSlot, OfCaller, Writer
  <2>6. CASE o.kind \notin OfCaller \cup OfSlot
    BY <2>6 DEF Fits, OfSlot, OfCaller, Writer
  <2> QED BY <2>4, <2>5, <2>6
<1>24. \A i \in DOMAIN chain : chain[i].kind # "init"
  BY <1>0, <1>1 DEF InitIsGuarded
<1>25. \A i \in DOMAIN chain : ~AppendWhileHeld => chain[i].kind # "append"
  BY DEF AppendIsUnowned, Unowned, Holds
<1>26. OpsFit' /\ InitIsGuarded' /\ AppendIsUnowned'
  <2>1. CASE ~suffix
    <3>1. chain' = chain
      BY <1>7, <2>1
    <3>2. OpsFit'
      <4>1. \A o \in Operation : Waits(o) => o.kind # "init"
        BY <1>24 DEF Waits
      <4> QED BY <1>0, <1>1, <1>23, <3>1, <4>1, OpsStay
    <3> QED BY <1>24, <1>25, <3>1, <3>2 DEF InitIsGuarded, AppendIsUnowned
  <2>2. CASE suffix
    <3>1. PICK p \in Operation : /\ chain' = Append(chain, p)
                                 /\ p.kind = "suffix" /\ p.of = s /\ p.arg = Len(events)
      BY <1>7, <1>13, <2>2 DEF Op
    <3>2. Fits(p)'
      <4>1. /\ session'[s].where = "live" /\ session'[s].init = "pending"
            /\ session'[s].events = events /\ session'[s].acked <= Len(events)
        BY <1>3, <1>5, <1>9, <2>2
      <4>2. entry'[s].source.log = log /\ Len(log) < Len(events)
        BY <1>0, <1>2, <1>3, <1>8, <1>10, <2>2
      <4>3. p.kind # "batch" /\ p.kind \notin OfCaller /\ p.kind # "load" /\ p.kind # "retire"
        BY <3>1 DEF OfCaller
      <4>4. p.kind \in Writer =>
              /\ session'[p.of].where \in {"live", "disposed"}
              /\ p.arg <= Len(session'[p.of].events) /\ session'[p.of].acked <= p.arg
              /\ session'[p.of].init = IF p.kind = "batch" THEN "ready" ELSE "pending"
              /\ p.kind # "init" => tracked'.owner = p.of
        BY <1>3, <1>12, <3>1, <4>1
      <4>5. p.kind = "suffix" => tracked'.materialized /\ Len(entry'[p.of].source.log) < p.arg
        BY <1>12, <3>1, <4>2
      <4> QED BY <4>3, <4>4, <4>5 DEF Fits
    <3>3. \A o \in Operation : Queued(o) => o.kind # "init" /\ ~Clash(o, p)
      BY <1>23, <1>24, <3>1 DEF Clash, OfCaller, Queued
    <3>4. OpsFit'
      BY <1>0, <1>23, <3>1, <3>2, <3>3, OpsGrow
    <3>5. \A i \in DOMAIN chain' :
             chain'[i].kind # "init" /\ (~AppendWhileHeld => chain'[i].kind # "append")
      BY <1>0, <1>24, <1>25, <3>1, Appended
    <3> QED BY <3>4, <3>5 DEF InitIsGuarded, AppendIsUnowned
  <2> QED BY <2>1, <2>2
<1>27. OneLive'
  BY <1>9 DEF OneLive, Live
<1>28. ReadyFits'
  <2>1. y.init = "ready" => y.acked <= Len(log)
    <3>1. Len(log) \in Nat
      BY <1>0
    <3> QED BY <1>3, <1>5, <1>8, <3>1
  <2>2. ASSUME NEW m \in Slots, session'[m].where # "none", session'[m].init = "ready"
        PROVE  \/ s = m /\ session'[m].acked <= Len(log)
               \/ s # m /\ session'[m].where # "live" /\ session'[m].events = <<>>
    <3>1. CASE m = s
      BY <1>9, <2>1, <2>2, <3>1
    <3>2. CASE m # s
      <4>1. session'[m] = session[m] /\ tracked.owner # m
        BY <1>0, <1>1, <1>9, <3>2
      <4>2. session[m].where # "none" /\ session[m].init = "ready"
        BY <2>2, <4>1
      <4>3. session[m].where # "live" /\ session[m].events = <<>>
        BY <4>1, <4>2 DEF ReadyFits
      <4> QED BY <3>2, <4>1, <4>3
    <3> QED BY <3>1, <3>2
  <2> QED BY <1>12, <2>2 DEF ReadyFits
<1>29. PreparedExtends'
  <2>1. ASSUME NEW m \in Slots, entry'[m].result = "ok"
        PROVE  IsPrefix(entry'[m].source.log, session'[m].events)
    <3>1. entry[m].result = "ok" /\ entry'[m].source = entry[m].source
      BY <1>10, <2>1
    <3>2. CASE m = s
      BY <1>2, <1>4, <1>5, <1>9, <3>1, <3>2
    <3>3. CASE m # s
      BY <1>9, <3>1, <3>3 DEF PreparedExtends
    <3> QED BY <3>2, <3>3
  <2> QED BY <2>1 DEF PreparedExtends
<1>30. LogIsOwned'
  BY <1>0, <1>4, <1>5, <1>9, <1>12 DEF LogIsOwned
<1> QED BY <1>15, <1>16, <1>17, <1>19, <1>21, <1>22, <1>26, <1>27, <1>28, <1>29, <1>30

\* A publication, with or without an event that precedes it.
LEMMA PublishInv ==
    ASSUME IInv, NEW c \in Callers, NEW late \in BOOLEAN, Publish(c, late)
    PROVE  IInv'
<1>1. /\ caller[c].pc = "held" /\ caller[c].on \in Slots /\ TypeOK /\ acts \in Nat
  BY CallersNow DEF Publish, TypeOK
<1>2. PICK s \in Slots : s = caller[c].on
  BY <1>1
<1> DEFINE events == IF late
                     THEN Append(session[s].events, [n |-> NewEvent, open |-> TRUE])
                     ELSE session[s].events
<1>3. events \in Seq(Event) /\ IsPrefix(session[s].events, events)
  <2>1. session[s].events \in Seq(Event) /\ [n |-> NewEvent, open |-> TRUE] \in Event
    BY <1>1 DEF TypeOK, Session, Event, NewEvent
  <2>2. IsPrefix(session[s].events, session[s].events)
    BY <2>1, PrefixIs
  <2> QED BY <2>1, <2>2, PrefixGrows
<1>4. /\ Live = {} /\ tracked.cursor = Len(Balanced(entry[s].source.log))
      /\ Drop(s) /\ caller' = Done(Released(s), c) /\ tracked' = [tracked EXCEPT !.owner = s]
      /\ UNCHANGED <<store, retiring, stage, writing, calls, faults>> /\ acts' \in Nat
  <2>1. acts' = acts + 1 \/ acts' = acts
    BY Zenon DEF Publish
  <2>2. acts' \in Nat
    BY ONLY <1>1, <2>1
  <2> QED BY <1>2, <2>2, Zenon DEF Publish
<1>5. GoesLive(s, events)
  BY <1>2, Zenon DEF Publish, GoesLive
<1> HIDE DEF events
<1> QED BY <1>1, <1>2, <1>3, <1>4, <1>5, Published

\* The chain releases the state of a retired session.
LEMMA RetireRunsInv ==
    ASSUME IInv, RetireRuns
    PROVE  IInv'
<1> USE DEF IInv
<1>0. /\ TypeOK /\ 0 \notin Slots /\ current \in Slots \cup {0}
      /\ chain \in Seq(Operation) /\ caller \in [Callers -> Caller]
      /\ \A d \in Callers :
           /\ CallerFits(d)
           /\ caller[d].pc \notin {"idle", "start"} => caller[d].on \in Slots
      /\ session \in [Slots -> Session] /\ retiring \in Slots \cup {0} /\ tracked \in State
      /\ log' = log /\ revision' = revision /\ current' = current /\ entry' = entry
      /\ caller' = caller
  BY CallersNow DEF TypeOK, RetireRuns, store, pool
<1>1. /\ chain # <<>> /\ Head1.kind = "retire" /\ stage = "queued" /\ Finish
      /\ Head1 \in Operation /\ Fits(Head1)
  BY FirstRuns DEF RetireRuns, Starts, Running
<1>2. PICK s \in Slots : s = Head1.of
  BY <1>1 DEF Operation
<1>3. /\ session[s] \in Session /\ session[s].where = "retiring"
      /\ session[s].acked <= Len(session[s].events) /\ s # 0
  BY <1>0, <1>1, <1>2 DEF Fits, TypeOK
<1> DEFINE x == [session[s] EXCEPT !.where = "none"]
<1>4. /\ x \in Session /\ x.where = "none" /\ x.events = session[s].events
      /\ x.acked <= Len(x.events)
  BY <1>3 DEF Session
<1>5. /\ session' = [session EXCEPT ![s] = x]
      /\ tracked' = IF tracked.owner = s THEN NoState ELSE tracked
      /\ retiring' = IF retiring = s THEN 0 ELSE retiring
  BY <1>2 DEF RetireRuns
<1> HIDE DEF x
<1>6. /\ session' \in [Slots -> Session] /\ session'[s] = x
      /\ \A n \in Slots \ {s} : session'[n] = session[n]
      /\ \A n \in Slots : session'[n].acked <= Len(session'[n].events)
  BY <1>0, <1>4, <1>5, SessionIs
<1>7. /\ NoState \in State /\ ~NoState.known /\ NoState.owner = 0
  BY DEF NoState, State
<1>8. /\ tracked' \in State
      /\ tracked.owner # s => tracked' = tracked
      /\ tracked.owner = s => tracked' = NoState /\ tracked'.owner = 0
      /\ tracked.owner \in Slots \cup {0}
  BY <1>0, <1>5, <1>7 DEF State
<1>9. /\ chain' \in Seq(Operation) /\ stage' = "queued"
      /\ writing' \in [at : Nat, events : Seq(Event)]
  BY <1>0, <1>1, Tailed DEF Finish, NoWriting
<1>10. TypeOK'
  <2>1. /\ log' \in Seq(Event) /\ revision' \in Nat /\ current' \in Slots \cup {0}
        /\ entry' \in [Slots -> Entry] /\ caller' \in [Callers -> Caller]
        /\ retiring' \in Slots \cup {0}
        /\ calls' \in Nat /\ acts' \in Nat /\ faults' \in Nat
    BY <1>0, <1>5 DEF TypeOK, RetireRuns, budget
  <2> QED BY <1>6, <1>8, <1>9, <2>1 DEF TypeOK
<1>11. SourcesAreRead'
  BY <1>0 DEF SourcesAreRead
<1>12. CursorIsEnd'
  <2>1. CASE tracked.owner = s
    BY <1>7, <1>8, <2>1 DEF CursorIsEnd
  <2>2. CASE tracked.owner # s
    <3>1. tracked.owner # 0 => session'[tracked.owner] = session[tracked.owner]
      BY <1>6, <1>8, <2>2
    <3> QED BY <1>0, <1>8, <2>2, <3>1 DEF CursorIsEnd
  <2> QED BY <2>1, <2>2
<1>13. \A m \in Slots : session[m].where = "none" => session'[m].where = "none"
  BY <1>3, <1>6
<1>14. CallersFit'
  <2>1. {} \in SUBSET Callers /\ (\A c, d \in {} : c = d) /\ Callers \ {} = Callers
    OBVIOUS
  <2>2. \A d \in Callers : caller[d].pc \in Past => session'[caller[d].on].where = "none"
    BY <1>0, <1>13 DEF CallerFits, Past
  <2>3. current' # 0 => entry'[current'].phase # "gone" /\ session'[current'].where = "none"
    BY <1>0, <1>13 DEF CallersFit
  <2>4. \A d \in Callers : Stays(d)
    BY <1>0 DEF Stays
  <2> QED BY <1>0, <1>10, <2>1, <2>2, <2>3, <2>4, CallersKept
<1>15. \A d \in Callers : Holds(d)' = Holds(d) /\ (Holds(d) => tracked' = tracked)
  BY <1>0, <1>3, <1>8 DEF Holds, HoldersFit
<1>16. HoldersFit'
  BY <1>0, <1>9, <1>15, HoldersKept
<1>17. StageFits'
  BY <1>9 DEF StageFits
<1>18. \A o \in Operation : Queued(o) /\ ~Clash(Head1, o) =>
          /\ Fits(o)' /\ (o.kind \in OfSlot => o.of # s)
          /\ o.kind = "init" => tracked'.owner # o.of \/ tracked'.owner = tracked.owner
  <2> SUFFICES ASSUME NEW o \in Operation, Queued(o), ~Clash(Head1, o)
               PROVE  /\ Fits(o)' /\ (o.kind \in OfSlot => o.of # s)
                      /\ o.kind = "init" => tracked'.owner # o.of \/ tracked'.owner = tracked.owner
    OBVIOUS
  <2>1. Fits(o)
    BY DEF OpsFit
  <2>2. o.kind \in OfSlot => o.of # s
    BY <1>1, <1>2 DEF Clash, OfSlot
  <2>3. o.kind = "init" => tracked'.owner # o.of \/ tracked'.owner = tracked.owner
    BY <1>0, <1>8 DEF Operation
  <2>4. CASE o.kind \notin {"suffix", "batch"}
    <3>1. CASE o.kind \in OfSlot
      <4>1. o.of \in Slots \ {s}
        BY <2>2, <3>1 DEF Operation, OfSlot, Writer
      <4>2. session'[o.of] = session[o.of]
        BY <1>6, <4>1
      <4>3. entry'[o.of] = entry[o.of] /\ o.kind \in {"load", "retire", "init"}
        BY <1>0, <2>4, <3>1 DEF OfSlot, Writer
      <4> QED BY <2>1, <2>2, <2>3, <4>2, <4>3 DEF Fits, OfCaller, Writer
    <3>2. CASE o.kind \notin OfSlot
      BY <1>0, <2>1, <3>2 DEF Fits, OfSlot, OfCaller, Writer
    <3> QED BY <2>2, <2>3, <3>1, <3>2
  <2>5. CASE o.kind \in {"suffix", "batch"}
    <3>1. tracked.owner = o.of /\ o.of # s
      BY <2>1, <2>2, <2>5 DEF Fits, OfSlot, Writer
    <3>2. tracked' = tracked
      BY <1>8, <3>1
    <3>3. \A c \in Callers : caller[c].pc \in {"commit", "checking"} =>
             caller'[c].pc = caller[c].pc /\ caller'[c].on = caller[c].on
      BY <1>0
    <3>4. Fits(o)'
      BY <1>0, <1>6, <2>1, <2>2, <3>2, <3>3, FitsForSlot
    <3> QED BY <2>2, <2>3, <3>4
  <2> QED BY <2>4, <2>5
<1>19. OpsFit'
  <2>1. \A o \in Operation : Waits(o) => Queued(o)
    BY DEF Waits, Queued
  <2> QED BY <1>0, <1>1, <1>18, <2>1, OpsPop
<1>20. OneLive' /\ Live' = Live
  BY <1>3, <1>4, <1>6 DEF OneLive, Live
<1>21. InitIsGuarded'
  <2>1. \A o \in Operation : Queued(o) /\ ~Clash(Head1, o) /\ o.kind = "init"
                             => (Guards(o.of) => Guards(o.of)')
    BY <1>5, <1>18, <1>20 DEF Guards, OfSlot, Writer
  <2> QED BY <1>0, <1>1, <2>1, GuardPops
<1>22. ReadyFits'
  <2>1. ASSUME NEW m \in Slots, session'[m].where # "none", session'[m].init = "ready"
        PROVE  \/ tracked'.owner = m /\ session'[m].acked <= tracked'.cursor
               \/ tracked'.owner # m /\ session'[m].where # "live" /\ session'[m].events = <<>>
    <3>1. m # s /\ session'[m] = session[m] /\ m # 0
      BY <1>0, <1>4, <1>6, <2>1
    <3>2. CASE tracked.owner = s
      BY <1>8, <2>1, <3>1, <3>2 DEF ReadyFits
    <3>3. CASE tracked.owner # s
      BY <1>8, <2>1, <3>1, <3>3 DEF ReadyFits
    <3> QED BY <3>2, <3>3
  <2> QED BY <2>1 DEF ReadyFits
<1>23. PreparedExtends'
  <2>1. \A m \in Slots : session'[m].events = session[m].events
    BY <1>4, <1>6
  <2> QED BY <1>0, <2>1 DEF PreparedExtends
<1>24. AppendIsUnowned'
  <2>1. Unowned => Unowned'
    BY <1>3, <1>8, <1>15 DEF Unowned
  <2>2. ~AppendWhileHeld => \A i \in DOMAIN chain : chain[i].kind = "append" => Unowned'
    BY <2>1 DEF AppendIsUnowned
  <2> QED BY <1>0, <1>1, <2>2, AppendPops
<1>25. LogIsOwned'
  <2>1. CASE tracked.owner = s
    BY <1>8, <2>1 DEF LogIsOwned
  <2>2. CASE tracked.owner # s
    <3>1. tracked.owner # 0 => session'[tracked.owner] = session[tracked.owner]
      BY <1>6, <1>8, <2>2
    <3> QED BY <1>0, <1>8, <2>2, <3>1 DEF LogIsOwned
  <2> QED BY <2>1, <2>2
<1> QED BY <1>10, <1>11, <1>12, <1>14, <1>16, <1>17, <1>19, <1>20, <1>21, <1>22, <1>23,
           <1>24, <1>25

\* A session with this identity is created.
LEMMA CreateFreshInv ==
    ASSUME IInv, NEW seed \in {<<>>, log}, CreateFresh(seed)
    PROVE  IInv'
<1> USE DEF IInv
<1>0. PICK n \in Slots :
        /\ n = NewSlot /\ n # 0 /\ current # n /\ tracked.owner # n
        /\ retiring # n /\ session[n].where = "none"
        /\ \A d \in Callers : caller[d].on # n
        /\ \A o \in Operation : Queued(o) /\ o.kind \in OfSlot \cup OfCaller => o.of # n
  BY FreeIs DEF Slots, CreateFresh
<1>1. /\ TypeOK /\ 0 \notin Slots /\ current = 0 /\ current' = 0 /\ Live = {}
      /\ caller \in [Callers -> Caller] /\ entry \in [Slots -> Entry]
      /\ chain \in Seq(Operation) /\ session \in [Slots -> Session]
      /\ \A d \in Callers :
           /\ CallerFits(d)
           /\ caller[d].pc \notin {"idle", "start"} => caller[d].on \in Slots
           /\ caller[d].pc = "held" => current = caller[d].on
      /\ log' = log /\ revision' = revision /\ revision \in Nat /\ log \in Seq(Event)
      /\ tracked' = tracked /\ caller' = caller /\ retiring' = retiring /\ acts \in Nat
      /\ stage' = stage /\ writing' = writing
      /\ tracked.owner \in Slots \cup {0} /\ seed \in Seq(Event)
  <2>1. /\ current = 0 /\ current' = 0 /\ Live = {} /\ log' = log /\ revision' = revision
        /\ tracked' = tracked /\ caller' = caller /\ retiring' = retiring
        /\ stage' = stage /\ writing' = writing
    BY DEF CreateFresh, store
  <2>2. /\ revision \in Nat /\ log \in Seq(Event) /\ session \in [Slots -> Session] /\ acts \in Nat
        /\ tracked \in State
    BY DEF TypeOK
  <2>3. tracked.owner \in Slots \cup {0}
    BY <2>2 DEF State
  <2>4. seed \in Seq(Event)
    <3>1. CASE seed = <<>>
      BY <3>1
    <3>2. CASE seed = log
      BY <2>2, <3>2
    <3> QED BY <3>1, <3>2
  <2> QED BY <2>1, <2>2, <2>3, <2>4, CallersNow
<1> DEFINE events == IF seed = <<>> THEN <<>> ELSE Seeded(seed)
           x == [NoSession EXCEPT !.where = "live", !.init = "pending",
                                  !.events = events, !.acked = Len(events)]
<1>2. events \in Seq(Event) /\ Len(events) \in Nat
  <2>1. Marker \in Event
    BY DEF Marker, Event
  <2>2. Seeded(seed) \in Seq(Event)
    BY <1>1, <2>1 DEF Seeded
  <2> QED BY <2>2
<1>3. /\ session' = [session EXCEPT ![n] = x]
      /\ chain' = Append(chain, Op("init", n, Len(events)))
      /\ entry' = [entry EXCEPT ![n] = NoEntry]
  BY <1>0 DEF CreateFresh
<1> HIDE DEF events
<1>4. /\ x \in Session /\ x.where = "live" /\ x.init = "pending" /\ x.events = events
      /\ x.acked = Len(events) /\ x.acked <= Len(x.events)
  <2>1. NoSession \in Session
    BY DEF NoSession, Session
  <2>2. Len(events) \in Nat
    BY <1>2
  <2>3. /\ x.where = "live" /\ x.init = "pending" /\ x.events = events /\ x.acked = Len(events)
    BY <2>1 DEF Session
  <2>4. x \in Session
    BY <1>2, <2>1 DEF Session
  <2> QED BY <2>2, <2>3, <2>4
<1> HIDE DEF x
<1>5. /\ session' \in [Slots -> Session] /\ session'[n] = x
      /\ \A e \in Slots \ {n} : session'[e] = session[e]
      /\ \A e \in Slots : session'[e].acked <= Len(session'[e].events)
  BY <1>1, <1>3, <1>4, SessionIs
<1>6. /\ NoEntry \in Entry /\ NoEntry.result = "pending" /\ NoEntry.source.revision = -1
  <2>1. NoSource.revision = -1 /\ NoSource \in [revision : Int, log : Seq(Event)]
    BY DEF NoSource
  <2> QED BY <2>1 DEF NoEntry, Entry
<1>7. /\ entry' \in [Slots -> Entry] /\ entry'[n] = NoEntry
      /\ \A e \in Slots \ {n} : entry'[e] = entry[e]
  BY <1>1, <1>3, <1>6
<1>8. Op("init", n, Len(events)) \in Operation
  BY <1>2 DEF Op, Operation
<1>9. PICK p \in Operation : /\ chain' = Append(chain, p) /\ p.kind = "init" /\ p.of = n
                             /\ p.arg = Len(events)
  BY <1>3, <1>8 DEF Op
<1>10. chain' \in Seq(Operation)
  BY <1>1, <1>9, Appended
<1>11. TypeOK'
  <2>1. /\ log' \in Seq(Event) /\ revision' \in Nat /\ current' \in Slots \cup {0}
        /\ caller' \in [Callers -> Caller] /\ retiring' \in Slots \cup {0} /\ tracked' \in State
        /\ stage' \in {"queued", "repair", "adopt", "write", "delete"}
        /\ writing' \in [at : Nat, events : Seq(Event)]
        /\ calls' \in Nat /\ acts' \in Nat /\ faults' \in Nat
    BY <1>1 DEF TypeOK, CreateFresh
  <2> QED BY <1>5, <1>7, <1>10, <2>1 DEF TypeOK
<1>12. SourcesAreRead'
  <2>1. ASSUME NEW m \in Slots
        PROVE  /\ entry'[m].source.revision <= revision
               /\ entry'[m].source.revision = revision => entry'[m].source.log = log
    <3>1. CASE m = n
      BY <1>1, <1>6, <1>7, <3>1
    <3>2. CASE m # n
      <4>1. entry'[m] = entry[m]
        BY <1>7, <3>2
      <4> QED BY <4>1 DEF SourcesAreRead
    <3> QED BY <3>1, <3>2
  <2> QED BY <1>1, <2>1 DEF SourcesAreRead
<1>13. tracked.owner # 0 => session'[tracked.owner] = session[tracked.owner]
  BY <1>0, <1>1, <1>5
<1>14. CursorIsEnd'
  BY <1>1, <1>13 DEF CursorIsEnd
<1>15. CallersFit'
  <2>1. ASSUME NEW d \in Callers
        PROVE  CallerFits(d)'
    <3>1. caller[d].pc \notin {"idle", "start"} => caller[d].on \in Slots \ {n}
      BY <1>0, <1>1
    <3>2. /\ CallerFits(d) /\ caller'[d] = caller[d]
          /\ caller[d].pc \in Wanting => /\ entry'[caller[d].on] = entry[caller[d].on]
                                        /\ session'[caller[d].on] = session[caller[d].on]
      BY <1>1, <1>5, <1>7, <3>1 DEF Wanting, Past
    <3> QED BY <3>2 DEF CallerFits, Wanting, Past
  <2> QED BY <1>1, <2>1 DEF CallersFit
<1>16. \A d \in Callers : ~Holds(d)' /\ ~Holds(d)
  BY <1>1 DEF Holds
<1>17. HoldersFit'
  BY <1>16 DEF HoldersFit
<1>18. StageFits'
  BY <1>1, <1>9, <1>13, StageKept
<1>19. \A o \in Operation : Queued(o) => Fits(o)' /\ ~Clash(o, p)
  <2> SUFFICES ASSUME NEW o \in Operation, Queued(o)
               PROVE  Fits(o)' /\ ~Clash(o, p)
    OBVIOUS
  <2>1. Fits(o)
    BY DEF OpsFit
  <2>2. o.kind \in OfSlot => o.of # n
    BY <1>0
  <2>3. \A d \in Callers : caller[d].pc \in {"commit", "checking"} =>
           caller'[d].pc = caller[d].pc /\ caller'[d].on = caller[d].on
    BY <1>1
  <2>4. Fits(o)'
    BY <1>1, <1>5, <1>7, <2>1, <2>2, <2>3, FitsForSlot
  <2> QED BY <1>9, <2>2, <2>4 DEF Clash, OfCaller
<1>20. Fits(p)'
  <2>1. /\ session'[p.of].where = "live" /\ p.arg <= Len(session'[p.of].events)
        /\ session'[p.of].acked <= p.arg /\ session'[p.of].init = "pending"
    BY <1>2, <1>4, <1>5, <1>9
  <2> QED BY <1>9, <2>1 DEF Fits, OfCaller, Writer
<1>21. OpsFit'
  BY <1>0, <1>1, <1>9, <1>19, <1>20, OpsGrow
<1>22. Live' = {n}
  BY <1>1, <1>4, <1>5 DEF Live
<1>23. OneLive'
  BY <1>22 DEF OneLive
<1>24. InitIsGuarded'
  <2>1. /\ Len(chain) \in Nat /\ DOMAIN chain = 1..Len(chain)
        /\ DOMAIN chain' = DOMAIN chain \cup {Len(chain) + 1}
        /\ chain'[Len(chain) + 1] = p
    BY <1>1, <1>9, Appended
  <2>2. Guards(n)'
    BY <1>22 DEF Guards
  <2>3. ASSUME NEW i \in DOMAIN chain'
        PROVE  \E j \in DOMAIN chain', o \in Operation :
                  j >= i /\ chain'[j] = o /\ o.kind = "init" /\ Guards(o.of)'
    <3>1. Len(chain) + 1 \in DOMAIN chain' /\ Len(chain) + 1 >= i
      BY <2>1
    <3>2. Guards(p.of)'
      BY <1>9, <2>2
    <3> QED BY <1>9, <2>1, <3>1, <3>2
  <2> QED BY <1>1, <2>3 DEF InitIsGuarded
<1>25. ReadyFits'
  <2>1. ASSUME NEW m \in Slots, session'[m].where # "none", session'[m].init = "ready"
        PROVE  \/ tracked.owner = m /\ session'[m].acked <= tracked.cursor
               \/ tracked.owner # m /\ session'[m].where # "live" /\ session'[m].events = <<>>
    <3>1. m # n /\ session'[m] = session[m]
      BY <1>4, <1>5, <2>1
    <3> QED BY <2>1, <3>1 DEF ReadyFits
  <2> QED BY <1>1, <2>1 DEF ReadyFits
<1>26. PreparedExtends'
  <2>1. ASSUME NEW m \in Slots, entry'[m].result = "ok"
        PROVE  IsPrefix(entry'[m].source.log, session'[m].events)
    <3>1. m # n /\ session'[m] = session[m] /\ entry'[m] = entry[m]
      BY <1>5, <1>6, <1>7, <2>1
    <3> QED BY <2>1, <3>1 DEF PreparedExtends
  <2> QED BY <2>1 DEF PreparedExtends
<1>27. AppendIsUnowned'
  <2>1. ~AppendWhileHeld => \A o \in Operation : Queued(o) /\ o.kind = "append" => Unowned'
    BY <1>1, <1>16 DEF AppendIsUnowned, Queued, Unowned
  <2>2. \A o \in Operation : Queued(o) /\ o.kind = "commit" /\ current # o.of => current' # o.of
    BY <1>1
  <2> QED BY <1>1, <1>9, <2>1, <2>2, AppendGrows
<1>28. LogIsOwned'
  BY <1>1, <1>13 DEF LogIsOwned
<1> QED BY <1>11, <1>12, <1>14, <1>15, <1>17, <1>18, <1>21, <1>23, <1>24, <1>25, <1>26,
           <1>27, <1>28

\* A session that is live or held accepts an event.
LEMMA SessionAppendsInv ==
    ASSUME IInv, NEW s \in Slots, NEW open \in BOOLEAN, SessionAppends(s, open)
    PROVE  IInv'
<1> USE DEF IInv
<1> DEFINE e == [n |-> NewEvent, open |-> open]
           x == [session[s] EXCEPT !.events = Append(@, e)]
<1>0. /\ TypeOK /\ 0 \notin Slots /\ current \in Slots \cup {0}
      /\ caller \in [Callers -> Caller] /\ entry \in [Slots -> Entry]
      /\ chain \in Seq(Operation) /\ session \in [Slots -> Session]
      /\ \A d \in Callers :
           /\ CallerFits(d)
           /\ caller[d].pc \notin {"idle", "start"} => caller[d].on \in Slots
           /\ caller[d].pc = "held" => current = caller[d].on
      /\ UNCHANGED <<store, pool, tracked, retiring, caller, work, calls, faults>>
  BY CallersNow DEF TypeOK, SessionAppends
<1>1. /\ log' = log /\ revision' = revision /\ current' = current /\ entry' = entry
      /\ tracked' = tracked /\ retiring' = retiring /\ caller' = caller /\ chain' = chain
      /\ stage' = stage /\ writing' = writing
  BY <1>0 DEF store, pool, work
<1>2. /\ log \in Seq(Event) /\ tracked \in State /\ tracked.owner \in Slots \cup {0}
      /\ session[s] \in Session /\ session[s].acked <= Len(session[s].events) /\ acts \in Nat
  <2>1. log \in Seq(Event) /\ tracked \in State /\ acts \in Nat
    BY DEF TypeOK
  <2>2. tracked.owner \in Slots \cup {0}
    BY <2>1 DEF State
  <2>3. session[s] \in Session /\ session[s].acked <= Len(session[s].events)
    BY DEF TypeOK
  <2> QED BY <2>1, <2>2, <2>3
<1>3. /\ session[s].events \in Seq(Event) /\ e \in Event /\ session[s].acked \in Nat
  <2>1. session[s].events \in Seq(Event) /\ session[s].acked \in Nat
    BY <1>2 DEF Session
  <2>2. e \in Event
    BY <1>2 DEF Event, NewEvent
  <2> QED BY <2>1, <2>2
<1>4. session' = [session EXCEPT ![s] = x]
  BY <1>0 DEF SessionAppends
<1> HIDE DEF e
<1>5. /\ x.events = Append(session[s].events, e) /\ x.where = session[s].where
      /\ x.init = session[s].init /\ x.acked = session[s].acked /\ x.busy = session[s].busy
  BY <1>2 DEF Session
<1>6. x \in Session
  <2>0. Append(session[s].events, e) \in Seq(Event)
    BY <1>3, Appended
  <2>1. PICK l \in Seq(Event) : l = Append(session[s].events, e)
    BY <2>0
  <2>2. x = [session[s] EXCEPT !.events = l]
    BY <2>1
  <2> QED BY <1>2, <2>1, <2>2 DEF Session
<1> HIDE DEF x
<1>7. /\ x.events \in Seq(Event) /\ Len(x.events) = Len(session[s].events) + 1
      /\ Len(session[s].events) \in Nat /\ x.acked <= Len(x.events)
  BY <1>2, <1>3, <1>5
<1>8. /\ session' \in [Slots -> Session] /\ session'[s] = x
      /\ \A n \in Slots \ {s} : session'[n] = session[n]
      /\ \A n \in Slots : session'[n].acked <= Len(session'[n].events)
  BY <1>0, <1>4, <1>6, <1>7, SessionIs
<1>9. \A n \in Slots :
        /\ session'[n].where = session[n].where /\ session'[n].init = session[n].init
        /\ session'[n].acked = session[n].acked /\ session'[n].busy = session[n].busy
        /\ Len(session'[n].events) >= Len(session[n].events)
  <2>1. ASSUME NEW n \in Slots
        PROVE  /\ session'[n].where = session[n].where /\ session'[n].init = session[n].init
               /\ session'[n].acked = session[n].acked /\ session'[n].busy = session[n].busy
               /\ Len(session'[n].events) >= Len(session[n].events)
    <3>1. CASE n = s
      BY <1>5, <1>7, <1>8, <3>1
    <3>2. CASE n # s
      <4>1. session[n] \in Session
        BY <1>0
      <4>2. Len(session[n].events) \in Nat
        BY <4>1 DEF Session
      <4> QED BY <1>8, <3>2, <4>2
    <3> QED BY <3>1, <3>2
  <2> QED BY <2>1
<1>10. \* s is live, or it is held and its entry was read
       /\ session[s].where = "live" \/ (session[s].where = "none" /\ entry[s].result = "ok")
  <2>1. CASE s \in Live
    BY <2>1 DEF Live
  <2>2. CASE \E c \in Callers : caller[c].pc = "held" /\ caller[c].on = s
    BY <1>0, <2>2 DEF CallerFits, Wanting, Past
  <2> QED BY <2>1, <2>2 DEF SessionAppends
<1>11. TypeOK'
  <2>1. acts' \in Nat /\ calls' \in Nat /\ faults' \in Nat
    BY <1>0, <1>2 DEF TypeOK, SessionAppends
  <2> QED BY <1>1, <1>8, <2>1 DEF TypeOK
<1>12. \A l \in Seq(Event), n \in Slots :
          IsPrefix(l, session[n].events) => IsPrefix(l, session'[n].events)
  <2> SUFFICES ASSUME NEW l \in Seq(Event), NEW n \in Slots, IsPrefix(l, session[n].events)
               PROVE  IsPrefix(l, session'[n].events)
    OBVIOUS
  <2>1. CASE n = s
    <3>1. IsPrefix(l, Append(session[s].events, e))
      BY <1>3, <2>1, PrefixGrows
    <3> QED BY <1>5, <1>8, <2>1, <3>1
  <2>2. CASE n # s
    BY <1>8, <2>2
  <2> QED BY <2>1, <2>2
<1>13. SourcesAreRead'
  BY <1>1 DEF SourcesAreRead
<1>14. CursorIsEnd'
  BY <1>1, <1>2, <1>9 DEF CursorIsEnd
<1>15. CallersFit'
  <2>1. \A d \in Callers : CallerFits(d)'
    BY <1>0, <1>1, <1>9 DEF CallerFits, Past
  <2> QED BY <1>0, <1>1, <1>9, <2>1 DEF CallersFit
<1>16. \A d \in Callers : Holds(d)' = Holds(d)
  BY <1>1 DEF Holds
<1>17. HoldersFit'
  BY <1>1, <1>16 DEF HoldersFit
<1>18. \A o \in Operation : Queued(o) => Fits(o)'
  <2> SUFFICES ASSUME NEW o \in Operation, Queued(o)
               PROVE  Fits(o)'
    OBVIOUS
  <2>1. Fits(o)
    BY DEF OpsFit
  <2>2. CASE o.kind = "load"
    <3>1. o.of \in Slots /\ o.of # s
      BY <1>10, <2>1, <2>2 DEF Operation, Fits, NoSession
    <3>2. session'[o.of] = session[o.of]
      BY <1>8, <3>1
    <3> QED BY <1>1, <2>1, <2>2, <3>2 DEF Fits, OfCaller, Writer
  <2>3. CASE o.kind \in Writer
    <3>1. o.of \in Slots /\ o.arg \in Nat
      BY <2>3 DEF Operation, Writer
    <3>2. /\ session'[o.of].where = session[o.of].where /\ session'[o.of].init = session[o.of].init
          /\ session'[o.of].acked = session[o.of].acked /\ session'[o.of].busy = session[o.of].busy
          /\ Len(session'[o.of].events) >= Len(session[o.of].events)
      BY <1>9, <3>1
    <3>3. o.arg <= Len(session'[o.of].events)
      <4>1. session[o.of].events \in Seq(Event) /\ session'[o.of].events \in Seq(Event)
        BY <1>0, <1>8, <3>1 DEF Session
      <4>2. o.arg <= Len(session[o.of].events)
        BY <2>1, <2>3 DEF Fits
      <4> QED BY <3>1, <3>2, <4>1, <4>2
    <3> QED BY <1>1, <2>1, <2>3, <3>2, <3>3 DEF Fits, OfCaller, Writer
  <2>4. CASE o.kind \notin {"load"} \cup Writer
    <3>1. o.kind = "retire" => o.of \in Slots
      BY DEF Operation
    <3> QED BY <1>1, <1>9, <2>1, <2>4, <3>1 DEF Fits, OfCaller, Writer
  <2> QED BY <2>2, <2>3, <2>4
<1>19. OpsFit'
  BY <1>0, <1>1, <1>18, OpsStay
<1>20. StageFits'
  <2>1. stage = "write" /\ Head1.kind \in Writer =>
           writing.events = SubSeq(session'[Head1.of].events, writing.at + 1, Head1.arg)
    <3> SUFFICES ASSUME stage = "write", Head1.kind \in Writer
                 PROVE  writing.events
                          = SubSeq(session'[Head1.of].events, writing.at + 1, Head1.arg)
      OBVIOUS
    <3>1. chain # <<>>
      BY DEF StageFits
    <3>2. Head1 \in Operation /\ Fits(Head1)
      BY <3>1, FirstRuns
    <3>3. PICK m \in Slots, k \in Nat : m = Head1.of /\ k = Head1.arg
      BY <3>2 DEF Operation, Writer
    <3>4. PICK a \in Nat : a = writing.at
      BY DEF TypeOK
    <3>5. writing.events = SubSeq(session[m].events, a + 1, k) /\ k <= Len(session[m].events)
      BY <3>2, <3>3, <3>4 DEF StageFits, Fits
    <3>6. SubSeq(session'[m].events, a + 1, k) = SubSeq(session[m].events, a + 1, k)
      <4>1. CASE m = s
        <5>1. SubSeq(Append(session[s].events, e), a + 1, k) = SubSeq(session[s].events, a + 1, k)
          BY <1>3, <3>5, <4>1, PartStays
        <5> QED BY <1>5, <1>8, <4>1, <5>1
      <4>2. CASE m # s
        BY <1>8, <4>2
      <4> QED BY <4>1, <4>2
    <3> QED BY <3>3, <3>4, <3>5, <3>6
  <2>2. Head1' = Head1
    BY <1>1 DEF Head1
  <2> QED BY <1>1, <2>1, <2>2 DEF StageFits
<1>21. OneLive' /\ Live' = Live
  BY <1>9 DEF OneLive, Live
<1>22. InitIsGuarded'
  BY <1>0, <1>1, <1>21, GuardStays DEF Guards
<1>23. ReadyFits'
  <2>1. ASSUME NEW m \in Slots, session'[m].where # "none", session'[m].init = "ready"
        PROVE  \/ tracked.owner = m /\ session'[m].acked <= tracked.cursor
               \/ tracked.owner # m /\ session'[m].where # "live" /\ session'[m].events = <<>>
    <3>1. /\ session[m].where # "none" /\ session[m].init = "ready"
          /\ session'[m].acked = session[m].acked /\ session'[m].where = session[m].where
      BY <1>9, <2>1
    <3>2. CASE tracked.owner = m
      BY <3>1, <3>2 DEF ReadyFits
    <3>3. CASE tracked.owner # m
      <4>1. session[m].where # "live" /\ session[m].events = <<>>
        BY <3>1, <3>3 DEF ReadyFits
      <4>2. m # s
        BY <1>10, <3>1, <4>1
      <4> QED BY <1>8, <3>1, <3>3, <4>1, <4>2
    <3> QED BY <3>2, <3>3
  <2> QED BY <1>1, <2>1 DEF ReadyFits
<1>24. PreparedExtends'
  <2>1. \A n \in Slots : entry[n].source.log \in Seq(Event)
    BY <1>0 DEF Entry
  <2> QED BY <1>1, <1>12, <2>1 DEF PreparedExtends
<1>25. AppendIsUnowned'
  <2>1. Unowned' = Unowned
    BY <1>1, <1>16 DEF Unowned
  <2>2. ~AppendWhileHeld => \A o \in Operation : Queued(o) /\ o.kind = "append" => Unowned'
    BY <2>1 DEF AppendIsUnowned, Queued
  <2> QED BY <1>0, <1>1, <2>2, AppendStays
<1>26. LogIsOwned'
  BY <1>1, <1>2, <1>12 DEF LogIsOwned
<1> QED BY <1>11, <1>13, <1>14, <1>15, <1>17, <1>19, <1>20, <1>21, <1>22, <1>23, <1>24,
           <1>25, <1>26

-----------------------------------------------------------------------------
(* A session of the pool is not published, and a published one is not in the *)
(* pool.                                                                     *)

OnePlace == current # 0 => Live = {}

\* No session becomes live, and no entry is made.
Shrinks == current' \in {current, 0} /\ Live' \subseteq Live

\* A session that leaves the live ones is the only one that changes place.
LEMMA LiveLoses ==
    ASSUME IInv, NEW s \in Slots, NEW where \in {"disposed", "retiring", "stuck", "none"},
           session' = [session EXCEPT ![s].where = where]
    PROVE  Live' \subseteq Live
<1>1. session \in [Slots -> Session] /\ session[s] \in Session
  BY DEF IInv, TypeOK
<1>2. [session[s] EXCEPT !.where = where].where = where
  BY <1>1 DEF Session
<1>3. \A n \in Slots : session'[n].where = "live" => n # s /\ session[n].where = "live"
  BY <1>1, <1>2
<1> QED BY <1>3 DEF Live

\* The steps of the operation that runs.
LEMMA OperationsShrink ==
    ASSUME IInv, Operations
    PROVE  Shrinks
<1>0. /\ session \in [Slots -> Session] /\ entry \in [Slots -> Entry]
      /\ OpsFit /\ TypeOK
      /\ chain # <<>> => Head1 \in Operation /\ Fits(Head1)
  BY FirstRuns DEF IInv, TypeOK
<1>1. CASE LoadReturns
  <2>1. chain # <<>> /\ Head1.kind = "load" /\ current' \in {current, 0}
    BY <1>1 DEF LoadReturns, Starts, Running
  <2>2. PICK n \in Slots : n = Head1.of
    BY <1>0, <2>1 DEF Operation
  <2>3. \A l : [session[n] EXCEPT !.events = l, !.seeded = Len(l)].where = session[n].where
    BY <1>0, <2>2 DEF Session
  <2>4. \A m \in Slots : session'[m].where = session[m].where
    <3>1. CASE session' = session
      BY <3>1
    <3>2. CASE session' # session
      <4>1. PICK l : session' = [session EXCEPT ![n] = [session[n] EXCEPT !.events = l, !.seeded = Len(l)]]
        BY <1>1, <2>2, <3>2, Zenon DEF LoadReturns
      <4> QED BY <1>0, <2>3, <4>1
    <3> QED BY <3>1, <3>2
  <2> QED BY <2>1, <2>4 DEF Shrinks, Live
<1>2. CASE CommitRuns \/ CommitRepaired \/ CheckRuns \/ DeleteReturns
  BY <1>2 DEF CommitRuns, CommitRepaired, CheckRuns, DeleteReturns, pool, Shrinks, Live
<1>3. CASE DeleteRuns
  BY <1>3 DEF DeleteRuns, Drop, pool, Shrinks, Live
<1>4. CASE RetireRuns
  <2>1. chain # <<>> /\ Head1.kind = "retire" /\ current' = current
    BY <1>4 DEF RetireRuns, Starts, Running, pool
  <2>2. PICK s \in Slots : s = Head1.of
    BY <1>0, <2>1 DEF Operation
  <2>3. session' = [session EXCEPT ![s].where = "none"]
    BY <1>4, <2>2 DEF RetireRuns
  <2> QED BY <2>1, <2>3, LiveLoses DEF Shrinks
<1>5. CASE chain # <<>> /\ session' = session /\ current' \in {current, 0}
  BY <1>5 DEF Shrinks, Live
<1>6. CASE /\ chain # <<>> /\ current' \in {current, 0}
           /\ Head1.kind \in Writer \cup {"append", "delete"}
           /\ \E ok \in BOOLEAN : End(ok)
  <2>1. \A m \in Slots : session'[m].where = "live" => session[m].where = "live"
    BY <1>6, EndedSession
  <2> QED BY <1>6, <2>1 DEF Shrinks, Live
<1>7. CASE AppendRuns \/ SuffixRuns \/ BatchRuns
  <2>1. /\ chain # <<>> /\ current' = current
        /\ Head1.kind \in Writer \cup {"append", "delete"}
    BY <1>7 DEF AppendRuns, SuffixRuns, BatchRuns, Starts, Running, pool, Writer
  <2>2. (\E ok \in BOOLEAN : End(ok)) \/ session' = session
    BY <1>7, Zenon DEF AppendRuns, SuffixRuns, BatchRuns, AppendCore, Continue
  <2> QED BY <1>5, <1>6, <2>1, <2>2
<1>8. CASE InitRuns
  <2>1. /\ chain # <<>> /\ current' = current
        /\ Head1.kind \in Writer \cup {"append", "delete"}
    BY <1>8 DEF InitRuns, Starts, Running, pool, Writer
  <2>2. (\E ok \in BOOLEAN : End(ok)) \/ session' = session
    BY <1>8 DEF InitRuns, AppendCore, Continue
  <2> QED BY <1>5, <1>6, <2>1, <2>2
<1>9. CASE AdoptRuns \/ AdoptRepaired \/ WriteReturns
  <2>1. /\ chain # <<>> /\ current' \in {current, 0}
        /\ Head1.kind \in Writer \cup {"append", "delete"}
    BY <1>9 DEF AdoptRuns, AdoptRepaired, WriteReturns, Drop, pool, Writer, IInv, StageFits
  <2>2. (\E ok \in BOOLEAN : End(ok)) \/ session' = session
    BY <1>9 DEF AdoptRuns, AdoptRepaired, WriteReturns, Continue, work
  <2> QED BY <1>5, <1>6, <2>1, <2>2
<1> QED BY <1>1, <1>2, <1>3, <1>4, <1>7, <1>8, <1>9 DEF Operations

\* The steps of the callers, of the sessions and of the environment that make
\* neither an entry nor a live session.
LEMMA OthersShrink ==
    ASSUME IInv,
           \/ \E c \in Callers :
                \/ ReadSettles(c) \/ Claim(c) \/ CommitReturns(c) \/ CheckReturns(c)
                \/ Release(c) \/ Abort(c)
                \/ \E kind \in Kinds : Call(c, kind)
           \/ \E s \in Slots : SessionSteps(s) \/ DisposeSession(s)
           \/ \E s \in Slots, open \in BOOLEAN : SessionAppends(s, open)
           \/ RequestAppend \/ RequestDelete \/ Evict \/ ForeignWrite \/ UNCHANGED vars
    PROVE  Shrinks
<1>0. session \in [Slots -> Session]
  BY DEF IInv, TypeOK
<1>1. CASE \E c \in Callers :
             \/ ReadSettles(c) \/ Claim(c)
             \/ \E kind \in Kinds : Call(c, kind)
  BY <1>1 DEF ReadSettles, Claim, Call, pool, Shrinks, Live
<1>2. CASE \E c \in Callers : CommitReturns(c)
  BY <1>2 DEF CommitReturns, Drop, MakeReady, pool, Shrinks, Live
<1>3. CASE \E c \in Callers : CheckReturns(c) \/ Release(c)
  BY <1>3 DEF CheckReturns, Release, Drop, MakeReady, pool, Shrinks, Live
<1>4. CASE \E c \in Callers : Abort(c)
  BY <1>4 DEF Abort, Drop, pool, Shrinks, Live
<1>5. CASE \E s \in Slots : FlushedForRetirement(s) \/ RetireFails(s) \/ DisposeSession(s)
  BY <1>5, LiveLoses DEF FlushedForRetirement, RetireFails, DisposeSession, pool, Shrinks
<1>6. ASSUME NEW s \in Slots, HandOver(s)
      PROVE  Shrinks
  <2>1. [session[s] EXCEPT !.busy = session[s].where].where = session[s].where
    BY <1>0 DEF Session
  <2>2. session' = [session EXCEPT ![s] = [session[s] EXCEPT !.busy = session[s].where]]
    BY <1>6 DEF HandOver
  <2>3. \A m \in Slots : session'[m].where = session[m].where
    BY <1>0, <2>1, <2>2
  <2> QED BY <1>6, <2>3 DEF HandOver, pool, Shrinks, Live
<1>7. ASSUME NEW s \in Slots, NEW open \in BOOLEAN, SessionAppends(s, open)
      PROVE  Shrinks
  <2> DEFINE l == Append(session[s].events, [n |-> NewEvent, open |-> open])
  <2>1. session' = [session EXCEPT ![s] = [session[s] EXCEPT !.events = l]]
    BY <1>7 DEF SessionAppends
  <2> HIDE DEF l
  <2>2. [session[s] EXCEPT !.events = l].where = session[s].where
    BY <1>0 DEF Session
  <2>3. \A m \in Slots : session'[m].where = session[m].where
    BY <1>0, <2>1, <2>2
  <2> QED BY <1>7, <2>3 DEF SessionAppends, pool, Shrinks, Live
<1>8. CASE RequestAppend \/ RequestDelete \/ Evict \/ ForeignWrite \/ UNCHANGED vars
  BY <1>8 DEF RequestAppend, RequestDelete, Evict, ForeignWrite, vars, pool, Shrinks, Live
<1> QED BY <1>1, <1>2, <1>3, <1>4, <1>5, <1>6, <1>7, <1>8 DEF SessionSteps

\* A read is begun without a live session, a session is created without an
\* entry, and a publication takes its entry out of the pool.
LEMMA OnePlaceKept ==
    ASSUME IInv, OnePlace, [Next]_vars
    PROVE  OnePlace'
<1>1. ASSUME NEW c \in Callers, Begin(c)
      PROVE  OnePlace'
  <2>1. CASE UNCHANGED <<pool, session, chain>>
    BY <2>1 DEF OnePlace, Live, pool
  <2>2. CASE ~UNCHANGED <<pool, session, chain>>
    <3>1. Live = {} /\ session' = [session EXCEPT ![NewSlot] = NoSession]
      BY <1>1, <2>2 DEF Begin
    <3>2. session \in [Slots -> Session] /\ NoSession.where = "none"
      BY DEF IInv, TypeOK, NoSession
    <3>3. Live' = {}
      BY <3>1, <3>2 DEF Live
    <3> QED BY <3>3 DEF OnePlace
  <2> QED BY <2>1, <2>2
<1>2. ASSUME NEW c \in Callers, NEW late \in BOOLEAN, Publish(c, late)
      PROVE  OnePlace'
  <2>1. current' = 0
    BY <1>2, Zenon DEF Publish, Drop, pool
  <2> QED BY <2>1 DEF OnePlace
<1>3. ASSUME NEW seed, CreateFresh(seed)
      PROVE  OnePlace'
  BY <1>3 DEF CreateFresh, OnePlace
<1>4. Shrinks => OnePlace'
  BY DEF Shrinks, OnePlace
<1>5. CASE Operations
  BY <1>4, <1>5, OperationsShrink
<1>6. CASE \E c \in Callers : CallerSteps(c) \/ Holder(c)
  BY <1>1, <1>2, <1>4, <1>6, OthersShrink DEF CallerSteps, Holder
<1>7. CASE \E s \in Slots : SessionSteps(s)
  BY <1>4, <1>7, OthersShrink
<1>8. CASE Environment
  BY <1>2, <1>3, <1>4, <1>8, OthersShrink DEF Environment
<1>9. CASE UNCHANGED vars
  BY <1>4, <1>9, OthersShrink
<1> QED BY <1>5, <1>6, <1>7, <1>8, <1>9 DEF Next

-----------------------------------------------------------------------------
(* The invariant. *)

\* It holds at the start, whatever the backend stores.
LEMMA InitInv == Init => IInv
<1> SUFFICES ASSUME Init PROVE IInv
  OBVIOUS
<1> USE DEF Init
<1>1. /\ NoSession \in Session /\ NoSession.where = "none" /\ NoSession.acked = 0
      /\ NoSession.events = <<>>
  BY DEF NoSession, Session
<1>2. /\ NoEntry \in Entry /\ NoEntry.phase = "gone" /\ NoEntry.result = "pending"
      /\ NoEntry.source.revision = -1
  <2>1. NoSource.revision = -1 /\ NoSource \in [revision : Int, log : Seq(Event)]
    BY DEF NoSource
  <2> QED BY <2>1 DEF NoEntry, Entry
<1>3. /\ NoState \in State /\ ~NoState.known /\ NoState.owner = 0
  BY DEF NoState, State
<1>4. /\ Idle \in Caller /\ Idle.pc = "idle" /\ Idle.on = 0
  BY DEF Idle, Caller, Kinds
<1>5. NoWriting \in [at : Nat, events : Seq(Event)]
  BY DEF NoWriting
<1>6. log \in Seq(Event)
  <2>1. [n |-> 1, open |-> FALSE] \in Event /\ [n |-> 1, open |-> TRUE] \in Event
    BY DEF Event
  <2>2. CASE log = <<>>
    BY <2>2
  <2>3. CASE log = <<[n |-> 1, open |-> FALSE]>>
    BY <2>1, <2>3
  <2>4. CASE log = <<[n |-> 1, open |-> TRUE]>>
    BY <2>1, <2>4
  <2> QED BY <2>2, <2>3, <2>4
<1>7. \A s \in Slots : session[s] = NoSession /\ entry[s] = NoEntry
  OBVIOUS
<1>8. \A c \in Callers : caller[c] = Idle
  OBVIOUS
<1>9. chain = <<>> /\ DOMAIN chain = {} /\ chain \in Seq(Operation)
  OBVIOUS
<1>10. TypeOK
  <2>1. /\ session \in [Slots -> Session] /\ entry \in [Slots -> Entry]
        /\ caller \in [Callers -> Caller]
    BY <1>1, <1>2, <1>4
  <2>2. \A s \in Slots : session[s].acked <= Len(session[s].events)
    BY <1>1, <1>7
  <2> QED BY <1>3, <1>5, <1>6, <1>9, <2>1, <2>2 DEF TypeOK
<1>11. SourcesAreRead
  BY <1>2, <1>7 DEF SourcesAreRead
<1>12. CursorIsEnd
  BY <1>3 DEF CursorIsEnd
<1>13. CallersFit
  BY <1>4, <1>8 DEF CallersFit, CallerFits, Wanting, Past
<1>14. \A c \in Callers : ~Holds(c)
  BY <1>4, <1>8 DEF Holds
<1>15. HoldersFit
  BY <1>14 DEF HoldersFit
<1>16. StageFits
  BY DEF StageFits
<1>17. OpsFit
  BY <1>9 DEF OpsFit, Queued, Waits
<1>18. OneLive
  BY <1>1, <1>7 DEF OneLive, Live
<1>19. InitIsGuarded /\ AppendIsUnowned
  BY <1>9 DEF InitIsGuarded, AppendIsUnowned
<1>20. ReadyFits
  BY <1>1, <1>7 DEF ReadyFits
<1>21. PreparedExtends
  BY <1>2, <1>7 DEF PreparedExtends
<1>22. LogIsOwned
  BY <1>3 DEF LogIsOwned
<1> QED BY <1>10, <1>11, <1>12, <1>13, <1>15, <1>16, <1>17, <1>18, <1>19, <1>20, <1>21, <1>22
        DEF IInv

\* Nothing happens.
LEMMA StutterInv ==
    ASSUME IInv, UNCHANGED vars
    PROVE  IInv'
<1> USE DEF IInv
<1>0. /\ log' = log /\ revision' = revision /\ current' = current /\ entry' = entry
      /\ tracked' = tracked /\ session' = session /\ retiring' = retiring /\ caller' = caller
      /\ chain' = chain /\ stage' = stage /\ writing' = writing
      /\ calls' = calls /\ acts' = acts /\ faults' = faults
  BY DEF vars, store, pool, work, budget
<1>1. /\ TypeOK' /\ SourcesAreRead' /\ CursorIsEnd' /\ OneLive' /\ ReadyFits'
      /\ PreparedExtends' /\ LogIsOwned'
  BY <1>0 DEF TypeOK, SourcesAreRead, CursorIsEnd, OneLive, Live, ReadyFits, PreparedExtends,
              LogIsOwned
<1>2. CallersFit' /\ HoldersFit' /\ StageFits'
  BY <1>0 DEF CallersFit, CallerFits, HoldersFit, Holds, StageFits, Head1
<1>3. \A o \in Operation : Fits(o)' = Fits(o) /\ Queued(o)' = Queued(o) /\ Waits(o)' = Waits(o)
  BY <1>0 DEF Fits, Queued, Waits
<1>4. OpsFit'
  BY <1>0, <1>3 DEF OpsFit
<1>5. InitIsGuarded' /\ AppendIsUnowned'
  BY <1>0 DEF InitIsGuarded, Guards, Live, AppendIsUnowned, Unowned, Holds
<1> QED BY <1>1, <1>2, <1>4, <1>5

\* Every step keeps it.
LEMMA NextInv ==
    ASSUME IInv, [Next]_vars
    PROVE  IInv'
<1>1. CASE Operations
  BY <1>1, LoadReturnsInv, CommitRunsInv, CommitRepairedInv, CheckRunsInv, AppendRunsInv,
     SuffixRunsInv, BatchRunsInv, InitRunsInv, AdoptRunsInv, AdoptRepairedInv, WriteReturnsInv,
     DeleteRunsInv, DeleteReturnsInv, RetireRunsInv DEF Operations
<1>2. CASE \E c \in Callers : CallerSteps(c) \/ Holder(c)
  BY <1>2, BeginInv, ReadSettlesInv, ClaimInv, CommitReturnsInv, CheckReturnsInv, PublishInv,
     ReleaseInv DEF CallerSteps, Holder
<1>3. CASE \E s \in Slots : SessionSteps(s)
  BY <1>3, HandOverInv, FlushedInv, RetireFailsInv DEF SessionSteps
<1>4. CASE Environment
  <2>1. CASE \E c \in Callers : Abort(c) \/ Publish(c, TRUE)
    BY <2>1, AbortInv, PublishInv
  <2>2. CASE \E c \in Callers, kind \in Kinds : Call(c, kind)
    BY <2>2, CallInv
  <2>3. CASE \E seed \in {<<>>, log} : CreateFresh(seed)
    BY <2>3, CreateFreshInv
  <2>4. CASE \E s \in Slots : DisposeSession(s)
    BY <2>4, DisposeInv
  <2>5. CASE \E s \in Slots, open \in BOOLEAN : SessionAppends(s, open)
    BY <2>5, SessionAppendsInv
  <2>6. CASE RequestAppend \/ RequestDelete \/ Evict \/ ForeignWrite
    BY <2>6, RequestAppendInv, RequestDeleteInv, EvictInv, ForeignWriteInv
  <2> QED BY <1>4, <2>1, <2>2, <2>3, <2>4, <2>5, <2>6 DEF Environment
<1>5. CASE UNCHANGED vars
  BY <1>5, StutterInv
<1> QED BY <1>1, <1>2, <1>3, <1>4, <1>5 DEF Next

\* The inductive invariant, for every set of callers, number of slots and bound.
THEOREM PreparationsInvariant == Spec => []IInv
<1>1. Init => IInv
  BY InitInv
<1>2. IInv /\ [Next]_vars => IInv'
  BY NextInv
<1> QED BY <1>1, <1>2, PTL DEF Spec

-----------------------------------------------------------------------------
(* What it says about the pool and its owner. *)

\* Every variable of the pool and of the chain keeps its type.
THEOREM PreparationsTypeCorrect == Spec => []TypeOK
<1>1. IInv => TypeOK
  BY DEF IInv
<1> QED BY <1>1, PreparationsInvariant, PTL

\* Between the revision check of its commit and its publication or its return
\* to the pool a held preparation is what is stored, at an ownerless cursor:
\* attachPrepared never refuses it.
THEOREM HeldAreCurrent == Spec => []HeldIsCurrent
<1>1. IInv => HeldIsCurrent
  <2> SUFFICES ASSUME IInv, NEW c \in Callers, caller[c].pc = "held"
               PROVE  /\ current = caller[c].on /\ entry[current].phase = "reserved"
                      /\ entry[current].source = [revision |-> revision, log |-> log]
                      /\ tracked.known /\ tracked.owner = 0 /\ tracked.cursor = Len(log)
    BY DEF HeldIsCurrent
  <2> USE DEF IInv
  <2>1. /\ current = caller[c].on /\ tracked.known /\ tracked.owner = 0
        /\ entry[current].source.revision = revision
    BY DEF HoldersFit, Holds
  <2>2. caller[c].on \in Slots /\ CallerFits(c) /\ entry \in [Slots -> Entry]
    BY CallersNow
  <2>3. entry[current].phase = "reserved"
    BY <2>1, <2>2 DEF CallerFits, Past
  <2>4. tracked.cursor = Len(log)
    BY <2>1 DEF CursorIsEnd
  <2>5. entry[current].source.log = log /\ entry[current].source \in [revision : Int, log : Seq(Event)]
    BY <2>1, <2>2 DEF SourcesAreRead, Entry
  <2> QED BY <2>1, <2>3, <2>4, <2>5
<1> QED BY <1>1, PreparationsInvariant, PTL

\* An entry of the pool and a live session exclude each other.
THEOREM EntryOrLive == Spec => []OnePlace
<1>1. Init => OnePlace
  BY DEF Init, OnePlace
<1>2. IInv /\ OnePlace /\ [Next]_vars => OnePlace'
  BY OnePlaceKept
<1> QED BY <1>1, <1>2, PreparationsInvariant, PTL DEF Spec

\* At most one of the callers that go for an entry is past the claim, and nobody
\* holds a preparation of an identity that is live.
THEOREM HolderIsSole == Spec => []SoleHolder
<1>1. IInv /\ OnePlace => SoleHolder
  <2> SUFFICES ASSUME IInv, OnePlace PROVE SoleHolder
    OBVIOUS
  <2> USE DEF IInv
  <2>1. ASSUME NEW c \in Callers, NEW d \in Callers, c # d,
               caller[c].pc \in {"commit", "committed", "held"},
               caller[d].pc \in {"commit", "committed", "held"}
        PROVE  caller[c].on # caller[d].on
    BY <2>1 DEF CallersFit, Past
  <2>2. ASSUME NEW c \in Callers, caller[c].pc = "held"
        PROVE  Live = {}
    <3>1. current # 0
      BY <2>2, CallersNow DEF Slots
    <3> QED BY <3>1 DEF OnePlace
  <2> QED BY <2>1, <2>2 DEF SoleHolder
<1> QED BY <1>1, PreparationsInvariant, EntryOrLive, PTL

\* Unless somebody appends to an identity that is in use, what is stored is a
\* prefix of the events of the session that owns it, as far as the cursor says.
THEOREM OwnersExtendTheLog == ~AppendWhileHeld => (Spec => []OwnerExtendsLog)
<1> SUFFICES ASSUME ~AppendWhileHeld PROVE Spec => []OwnerExtendsLog
  OBVIOUS
<1>1. IInv => OwnerExtendsLog
  BY DEF IInv, OwnerExtendsLog, LogIsOwned, CursorIsEnd, NoState
<1> QED BY <1>1, PreparationsInvariant, PTL

\* Unless somebody appends to an identity that is in use, every event whose
\* write was acknowledged to a flush is stored, at its place.
THEOREM FlushedEventsAreDurable == ~AppendWhileHeld => (Spec => []FlushedIsDurable)
<1> SUFFICES ASSUME ~AppendWhileHeld PROVE Spec => []FlushedIsDurable
  OBVIOUS
<1>1. IInv => FlushedIsDurable
  <2> SUFFICES ASSUME IInv, NEW s \in Slots,
                      session[s].where # "none", session[s].init = "ready"
               PROVE  IsPrefix(SubSeq(session[s].events, 1, session[s].acked), log)
    BY DEF FlushedIsDurable
  <2> USE DEF IInv
  <2>1. session[s] \in Session /\ session[s].acked <= Len(session[s].events) /\ log \in Seq(Event)
    BY DEF TypeOK
  <2>2. session[s].events \in Seq(Event) /\ session[s].acked \in Nat
    BY <2>1 DEF Session
  <2>3. CASE tracked.owner = s
    <3>1. /\ session[s].acked <= tracked.cursor /\ s # 0
          /\ IsPrefix(log, session[s].events)
      BY <2>3 DEF ReadyFits, LogIsOwned, Slots
    <3>2. tracked.cursor = Len(log)
      BY <2>3, <3>1 DEF CursorIsEnd, NoState
    <3>3. session[s].acked \in 0..Len(log)
      BY <2>1, <2>2, <3>1, <3>2
    <3> QED BY <2>1, <2>2, <3>1, <3>3, PartIsPrefix
  <2>4. CASE tracked.owner # s
    <3>1. session[s].events = <<>>
      BY <2>4 DEF ReadyFits
    <3>2. session[s].acked \in 0..Len(session[s].events) /\ session[s].acked = 0
      BY <2>1, <2>2, <3>1
    <3>3. \A l \in Seq(Event) : SubSeq(l, 1, 0) \in Seq(Event) /\ Len(SubSeq(l, 1, 0)) = 0
      OBVIOUS
    <3>4. PICK t \in Seq(Event) : t = SubSeq(session[s].events, 1, session[s].acked) /\ Len(t) = 0
      BY <2>2, <3>2, <3>3
    <3>5. Len(t) <= Len(log) /\ \A i \in 1..Len(t) : t[i] = log[i]
      BY <2>1, <3>4
    <3>6. IsPrefix(t, log)
      BY <2>1, <3>5, PrefixIs
    <3> QED BY <3>4, <3>6
  <2> QED BY <2>3, <2>4
<1> QED BY <1>1, PreparationsInvariant, PTL
=============================================================================

-------------------------- MODULE AgentDriverProofs --------------------------
(***************************************************************************)
(* Proofs about the agent driver: its inductive invariant, and from it the *)
(* safety properties that the runs check on a small instance.              *)
(*                                                                         *)
(* The invariant says of the log that every beginning of it is good: its   *)
(* turns and steps are numbered and nested, the inbox it rebuilds holds no *)
(* message twice, and none that the transcript has.  A crash keeps some    *)
(* beginning of the log, so this is what survives it.                      *)
(***************************************************************************)
EXTENDS AgentDriver, SessionLogProofs, FiniteSetTheorems

Replays == INSTANCE LeftFold WITH Op <- ReplayEvent
Turns   == INSTANCE LeftFold WITH Op <- StartedEvent
Counts  == INSTANCE LeftFold WITH Op <- CountPrompt

-----------------------------------------------------------------------------
(* What the proofs say of a log and of an inbox. *)

Inserted == {<<>>} \cup {<<m>> : m \in Messages}

\* The events that the agent appends.
Starts     == [type : {"turn/start"}, turn : Nat]
TurnEnds   == [type : {"turn/end"}, turn : Nat,
               reason : {"aborted", "error", "blocked", "completed", "max-tokens",
                         "none", "interrupted"}]
StepStarts == [type : {"step/start"}, turn : Nat, step : Nat]
StepEnds   == [type : {"step/end"}, turn : Nat, step : Nat]
Inputs     == [type : {"user/message"}, message : Messages \cup {0}]
Splices    == [type : {"agent/inbox/spliced"}, target : Boundaries, start : Nat,
               removed : Nat, inserted : Inserted,
               outcome : {"inserted", "canceled", "claimed"}]
Events == Starts \cup TurnEnds \cup StepStarts \cup StepEnds \cup Inputs \cup Splices

\* The trace of a log that stands in turn o and step s (0 for neither), with nt
\* and ns the next numbers.
Bounds(o, s, nt, ns) ==
    [openTurn |-> o, openStep |-> s, nextTurn |-> nt, nextStep |-> ns, pendingCalls |-> {}]

\* The count of the prompts of a log with open turn o: p of them, none stray.
Counted(o, p) == [open |-> o, prompts |-> p, stray |-> 0]

\* All folds over the log agree on where it stands, and no append was refused.
Stands(l, o, s, nt, ns) ==
    /\ nt \in Nat \ {0} /\ ns \in Nat \ {0}
    /\ o \in {0, nt} /\ s \in {0, ns} /\ (s # 0 => o # 0)
    /\ TraceOf(l) = Bounds(o, s, nt, ns)
    /\ ScanOf(l) = [turn |-> o, step |-> s, calls |-> <<>>]
    /\ LastTurn(l) = IF o = 0 THEN nt - 1 ELSE nt
    /\ Valid(l)
    /\ \E p \in Nat : PromptCount(l) = Counted(o, p)

Boxes == [Boundaries -> Seq(Messages)]
Holds(box) == Range(box["next-turn"]) \cup Range(box["next-step"])

\* No message is queued twice.
Injective(q) == \A i, j \in DOMAIN q : q[i] = q[j] => i = j
Distinct(box) ==
    /\ \A b \in Boundaries : Injective(box[b])
    /\ Range(box["next-turn"]) \cap Range(box["next-step"]) = {}

\* The messages of the transcript: each is there once, none is queued.
Heard(l) == {m \in Messages : \E i \in DOMAIN l : l[i].type = "user/message" /\ l[i].message = m}
HeardOnce(l) ==
    \A i, j \in DOMAIN l :
        /\ l[i].type = "user/message" /\ l[j].type = "user/message"
        /\ l[i].message = l[j].message /\ l[i].message # 0
        => i = j

\* A log that a restart can begin with, when s messages have been submitted.
Good(l, s) ==
    /\ LET t == TraceOf(l) IN Stands(l, t.openTurn, t.openStep, t.nextTurn, t.nextStep)
    /\ Replay(l) \in Boxes /\ Distinct(Replay(l))
    /\ Holds(Replay(l)) \subseteq 1..s
    /\ Heard(l) \subseteq 1..s /\ HeardOnce(l)
    /\ Heard(l) \cap Holds(Replay(l)) = {}

\* Every beginning of the log is good: a crash may leave any of them.
Sound(l, s) ==
    /\ l \in Seq(Events)
    /\ \A n \in 0..Len(l) : Good(SubSeq(l, 1, n), s)

-----------------------------------------------------------------------------
(* The inductive invariant. *)

\* The log stands where the driver does.
LogFits ==
    /\ Sound(log, sent)
    /\ Replay(log) = inbox
    /\ pc \in {"preStep", "stopping"} => Stands(log, turn, 0, turn, step + 1)
    /\ pc = "step" => Stands(log, turn, step, turn, step)
    /\ pc \notin {"preStep", "step", "stopping"} =>
         LET t == TraceOf(log) IN t.openTurn = 0 /\ t.openStep = 0 /\ t.nextTurn = turn + 1
    /\ pc \in {"start", "between"} => step = 0

\* The claimed batch is neither queued nor in the transcript.
ClaimFits ==
    /\ Injective(claimed)
    /\ Range(claimed) \subseteq 1..sent
    /\ Range(claimed) \cap (Pending \cup Heard(log)) = {}

Owed == Pending \ parked

\* What is queued and not parked has somebody who will look at it, when no waking
\* send falls where the driver may miss it.
OwedFits ==
    /\ waking = "afterAbort" => phase # "idle" /\ signal # "live"
    /\ (Overlooks = {} => (pc = "exit" => waking # "plain"))
    /\ (Overlooks = {} /\ Owed # {} =>
         /\ phase = "idle" /\ waking = "none" => replay
         /\ phase = "maintenance" /\ waking = "none" => wake \/ replay
         /\ phase = "running" /\ signal # "live" /\ waking # "afterAbort" => wake
         /\ pc = "exit" /\ waking = "none" => wake)

IInv == TypeOK /\ LogFits /\ ClaimFits /\ OwedFits

-----------------------------------------------------------------------------
(* One event at a time. *)

\* The folds of the module are the ones the instances are about.
LEMMA DriverFoldsAreInstances ==
  ASSUME NEW l
  PROVE  /\ Replay(l) = Replays!Fold(EmptyInbox, l)
         /\ LastTurn(l) = Turns!Fold(0, l)
         /\ PromptCount(l) = Counts!Fold(NoPrompts, l)
<1>1. Replay(l) = Replays!Fold(EmptyInbox, l)
  BY DEF Replay, Replays!Fold, FoldLeft, MapThenFoldSet, Max,
         Replays!FoldLeft, Replays!MapThenFoldSet, Replays!Max
<1>2. LastTurn(l) = Turns!Fold(0, l)
  BY DEF LastTurn, Turns!Fold, FoldLeft, MapThenFoldSet, Max,
         Turns!FoldLeft, Turns!MapThenFoldSet, Turns!Max
<1>3. PromptCount(l) = Counts!Fold(NoPrompts, l)
  BY DEF PromptCount, Counts!Fold, FoldLeft, MapThenFoldSet, Max,
         Counts!FoldLeft, Counts!MapThenFoldSet, Counts!Max
<1> QED BY <1>1, <1>2, <1>3

\* The replayed inbox, the last turn and the prompts of a log with one more event.
LEMMA ReplayMoves ==
  /\ Replay(<<>>) = EmptyInbox
  /\ \A E : \A l \in Seq(E), e \in E : Replay(Append(l, e)) = ReplayEvent(Replay(l), e)
  BY DriverFoldsAreInstances, Replays!FoldEmpty, Replays!FoldAppend

\* The number of the last turn of a log with one more event.
LEMMA LastTurnMoves ==
  /\ LastTurn(<<>>) = 0
  /\ \A E : \A l \in Seq(E), e \in E : LastTurn(Append(l, e)) = StartedEvent(LastTurn(l), e)
  BY DriverFoldsAreInstances, Turns!FoldEmpty, Turns!FoldAppend

\* The prompts of a log with one more event.
LEMMA PromptsMove ==
  /\ PromptCount(<<>>) = NoPrompts
  /\ \A E : \A l \in Seq(E), e \in E : PromptCount(Append(l, e)) = CountPrompt(PromptCount(l), e)
  BY DriverFoldsAreInstances, Counts!FoldEmpty, Counts!FoldAppend

\* All folds of a log with one more event.
LEMMA FoldsMove ==
  ASSUME NEW l \in Seq(Events), NEW e \in Events
  PROVE  /\ Append(l, e) \in Seq(Events)
         /\ TraceOf(Append(l, e)) = After(TraceOf(l), e)
         /\ ScanOf(Append(l, e)) = ScanEvent(ScanOf(l), e)
         /\ Valid(Append(l, e)) <=> Valid(l) /\ Accepts(TraceOf(l), e)
         /\ LastTurn(Append(l, e)) = StartedEvent(LastTurn(l), e)
         /\ PromptCount(Append(l, e)) = CountPrompt(PromptCount(l), e)
         /\ Replay(Append(l, e)) = ReplayEvent(Replay(l), e)
  BY TraceMoves, ScanMoves, ValidMoves, LastTurnMoves, PromptsMove, ReplayMoves

\* Where the empty log stands.
LEMMA EmptyStands ==
  /\ <<>> \in Seq(Events)
  /\ Stands(<<>>, 0, 0, 1, 1)
  /\ Replay(<<>>) = EmptyInbox
<1>1. TraceOf(<<>>) = Bounds(0, 0, 1, 1)
  BY TraceMoves DEF FreshTrace, Bounds
<1>2. ScanOf(<<>>) = [turn |-> 0, step |-> 0, calls |-> <<>>]
  BY ScanMoves DEF FreshScan
<1>3. PromptCount(<<>>) = Counted(0, 0)
  BY PromptsMove DEF Counted, NoPrompts
<1> QED BY <1>1, <1>2, <1>3, LastTurnMoves, ReplayMoves, ValidMoves DEF Stands

\* What each event does to the count.
LEMMA CountCases ==
  ASSUME NEW o \in Nat, NEW p \in Nat, NEW e
  PROVE  /\ e.type = "turn/start" => CountPrompt(Counted(o, p), e) = Counted(e.turn, 0)
         /\ e.type = "turn/end" => CountPrompt(Counted(o, p), e) = Counted(0, p)
         /\ e.type \notin {"turn/start", "turn/end"} =>
              /\ ~IsClaim(e) => CountPrompt(Counted(o, p), e) = Counted(o, p)
              /\ IsClaim(e) /\ o # 0 /\ e.removed \in Nat /\ p + e.removed <= 1 =>
                   CountPrompt(Counted(o, p), e) = Counted(o, p + e.removed)
<1> DEFINE a == Counted(o, p)
<1>1. a.open = o /\ a.prompts = p /\ a.stray = 0
  BY DEF Counted
<1> HIDE DEF a
<1>2. ASSUME e.type = "turn/start" PROVE CountPrompt(a, e) = Counted(e.turn, 0)
  BY <1>1, <1>2 DEF CountPrompt, Counted, IsClaim
<1>3. ASSUME e.type = "turn/end" PROVE CountPrompt(a, e) = Counted(0, p)
  BY <1>1, <1>3 DEF CountPrompt, Counted, IsClaim
<1>4. ASSUME e.type \notin {"turn/start", "turn/end"}, ~IsClaim(e)
      PROVE  CountPrompt(a, e) = a
  BY <1>4 DEF CountPrompt
<1>5. ASSUME e.type \notin {"turn/start", "turn/end"}, IsClaim(e), o # 0,
             e.removed \in Nat, p + e.removed <= 1
      PROVE  CountPrompt(a, e) = Counted(o, p + e.removed)
  BY <1>1, <1>5 DEF CountPrompt, Counted
<1> QED BY <1>2, <1>3, <1>4, <1>5 DEF a

\* A turn starts.
LEMMA StartStands ==
  ASSUME NEW l \in Seq(Events), NEW nt, NEW ns, Stands(l, 0, 0, nt, ns),
         NEW e \in Starts, e.turn = nt
  PROVE  /\ Stands(Append(l, e), nt, 0, nt, 1)
         /\ PromptCount(Append(l, e)) = Counted(nt, 0)
<1>0. e \in Events /\ e.type = "turn/start" /\ nt \in Nat \ {0} /\ ns \in Nat \ {0}
  BY DEF Events, Starts, Stands
<1>1. PICK p \in Nat : PromptCount(l) = Counted(0, p)
  BY DEF Stands
<1>2. /\ After(Bounds(0, 0, nt, ns), e) = Bounds(nt, 0, nt, 1)
      /\ Accepts(Bounds(0, 0, nt, ns), e)
  BY <1>0 DEF After, Accepts, Bounds
<1>3. CountPrompt(Counted(0, p), e) = Counted(nt, 0)
  BY <1>0, CountCases
<1>4. \A s : ScanEvent(s, e) = [turn |-> nt, step |-> 0, calls |-> <<>>]
  BY <1>0, ScanCases
<1>5. \A n : StartedEvent(n, e) = nt
  BY <1>0 DEF StartedEvent
<1> QED BY <1>0, <1>1, <1>2, <1>3, <1>4, <1>5, FoldsMove DEF Stands

\* A turn ends.
LEMMA TurnEndStands ==
  ASSUME NEW l \in Seq(Events), NEW o, NEW ns, o # 0, Stands(l, o, 0, o, ns),
         NEW e \in TurnEnds, e.turn = o
  PROVE  Stands(Append(l, e), 0, 0, o + 1, ns)
<1>0. e \in Events /\ e.type = "turn/end" /\ o \in Nat \ {0} /\ ns \in Nat \ {0}
  BY DEF Events, TurnEnds, Stands
<1>1. PICK p \in Nat : PromptCount(l) = Counted(o, p)
  BY DEF Stands
<1>2. /\ After(Bounds(o, 0, o, ns), e) = Bounds(0, 0, o + 1, ns)
      /\ Accepts(Bounds(o, 0, o, ns), e)
  BY <1>0 DEF After, Accepts, Bounds
<1>3. CountPrompt(Counted(o, p), e) = Counted(0, p)
  BY <1>0, CountCases
<1>4. \A s : ScanEvent(s, e) = [turn |-> 0, step |-> 0, calls |-> <<>>]
  BY <1>0, ScanCases DEF FreshScan
<1>5. \A n : StartedEvent(n, e) = n
  BY <1>0 DEF StartedEvent
<1> QED BY <1>0, <1>1, <1>2, <1>3, <1>4, <1>5, FoldsMove DEF Stands

\* A step starts.
LEMMA StepStartStands ==
  ASSUME NEW l \in Seq(Events), NEW o, NEW ns, o # 0, Stands(l, o, 0, o, ns),
         NEW e \in StepStarts, e.turn = o, e.step = ns
  PROVE  Stands(Append(l, e), o, ns, o, ns)
<1>0. e \in Events /\ e.type = "step/start" /\ o \in Nat \ {0} /\ ns \in Nat \ {0}
  BY DEF Events, StepStarts, Stands
<1>1. PICK p \in Nat : PromptCount(l) = Counted(o, p)
  BY DEF Stands
<1>2. /\ After(Bounds(o, 0, o, ns), e) = Bounds(o, ns, o, ns)
      /\ Accepts(Bounds(o, 0, o, ns), e)
  BY <1>0 DEF After, Accepts, Bounds
<1>3. CountPrompt(Counted(o, p), e) = Counted(o, p)
  BY <1>0, CountCases DEF IsClaim
<1>4. ScanEvent([turn |-> o, step |-> 0, calls |-> <<>>], e)
        = [turn |-> o, step |-> ns, calls |-> <<>>]
  <2> DEFINE x == [turn |-> o, step |-> 0, calls |-> <<>>]
  <2>1. [x EXCEPT !.step = ns] = [turn |-> o, step |-> ns, calls |-> <<>>]
    OBVIOUS
  <2> HIDE DEF x
  <2>2. ScanEvent(x, e) = [x EXCEPT !.step = ns]
    <3>1. e.type = "step/start"
      BY <1>0
    <3>2. ScanEvent(x, e) = [x EXCEPT !.step = e.step]
      BY <3>1, ScanCases, Zenon
    <3> QED BY <3>2
  <2> QED BY <2>1, <2>2 DEF x
<1>5. \A n : StartedEvent(n, e) = n
  BY <1>0 DEF StartedEvent
<1> QED BY <1>0, <1>1, <1>2, <1>3, <1>4, <1>5, FoldsMove DEF Stands

\* A step ends.
LEMMA StepEndStands ==
  ASSUME NEW l \in Seq(Events), NEW o, NEW s, s # 0, Stands(l, o, s, o, s),
         NEW e \in StepEnds, e.turn = o, e.step = s
  PROVE  Stands(Append(l, e), o, 0, o, s + 1)
<1>0. e \in Events /\ e.type = "step/end" /\ o \in Nat \ {0} /\ s \in Nat \ {0}
  BY DEF Events, StepEnds, Stands
<1>1. PICK p \in Nat : PromptCount(l) = Counted(o, p)
  BY DEF Stands
<1>2. /\ After(Bounds(o, s, o, s), e) = Bounds(o, 0, o, s + 1)
      /\ Accepts(Bounds(o, s, o, s), e)
  BY <1>0 DEF After, Accepts, InOpenStep, Bounds
<1>3. CountPrompt(Counted(o, p), e) = Counted(o, p)
  BY <1>0, CountCases DEF IsClaim
<1>4. ScanEvent([turn |-> o, step |-> s, calls |-> <<>>], e)
        = [turn |-> o, step |-> 0, calls |-> <<>>]
  <2> DEFINE x == [turn |-> o, step |-> s, calls |-> <<>>]
  <2> DEFINE y == [x EXCEPT !.step = 0, !.calls = <<>>]
  <2>1. y = [turn |-> o, step |-> 0, calls |-> <<>>]
    <3>1. DOMAIN y = {"turn", "step", "calls"} /\ y = [f \in DOMAIN y |-> y[f]]
      OBVIOUS
    <3>2. y.turn = o /\ y.step = 0 /\ y.calls = <<>>
      OBVIOUS
    <3> HIDE DEF y
    <3> QED BY <3>1, <3>2
  <2> HIDE DEF x
  <2>2. ScanEvent(x, e) = y
    BY <1>0, ScanCases
  <2> QED BY <2>1, <2>2 DEF x
<1>5. \A n : StartedEvent(n, e) = n
  BY <1>0 DEF StartedEvent
<1> QED BY <1>0, <1>1, <1>2, <1>3, <1>4, <1>5, FoldsMove DEF Stands

\* A message of the transcript and a splice of the inbox leave the log where it
\* stands; a claim of prompts is counted, and has to be in an open turn.
LEMMA InputStands ==
  ASSUME NEW l \in Seq(Events), NEW o, NEW s, NEW nt, NEW ns, Stands(l, o, s, nt, ns),
         NEW e \in Inputs
  PROVE  Stands(Append(l, e), o, s, nt, ns)
<1>0. e \in Events /\ e.type = "user/message" /\ o \in Nat
  BY DEF Events, Inputs, Stands
<1>1. PICK p \in Nat : PromptCount(l) = Counted(o, p)
  BY DEF Stands
<1>2. \A t : After(t, e) = t /\ Accepts(t, e)
  BY <1>0 DEF After, Accepts
<1>3. CountPrompt(Counted(o, p), e) = Counted(o, p)
  BY <1>0, CountCases DEF IsClaim
<1>4. \A x : ScanEvent(x, e) = x
  BY <1>0 DEF ScanEvent
<1>5. \A n : StartedEvent(n, e) = n
  BY <1>0 DEF StartedEvent
<1> QED BY <1>0, <1>1, <1>2, <1>3, <1>4, <1>5, FoldsMove DEF Stands

\* A splice of the inbox: a claim of prompts has to be the first of an open turn.
LEMMA SpliceStands ==
  ASSUME NEW l \in Seq(Events), NEW o, NEW s, NEW nt, NEW ns, Stands(l, o, s, nt, ns),
         NEW p \in Nat, PromptCount(l) = Counted(o, p),
         NEW e \in Splices, IsClaim(e) => o # 0 /\ p + e.removed <= 1
  PROVE  /\ Stands(Append(l, e), o, s, nt, ns)
         /\ ~IsClaim(e) => PromptCount(Append(l, e)) = Counted(o, p)
<1>0. e \in Events /\ e.type = "agent/inbox/spliced" /\ e.removed \in Nat /\ o \in Nat
  BY DEF Events, Splices, Stands
<1> DEFINE q == IF IsClaim(e) THEN p + e.removed ELSE p
<1>1. q \in Nat
  BY <1>0
<1>2. \A t : After(t, e) = t /\ Accepts(t, e)
  BY <1>0 DEF After, Accepts
<1>3. CountPrompt(Counted(o, p), e) = Counted(o, q)
  <2>1. CASE IsClaim(e)
    BY <1>0, <2>1, CountCases
  <2>2. CASE ~IsClaim(e)
    BY <1>0, <2>2, CountCases
  <2> QED BY <2>1, <2>2
<1>4. \A x : ScanEvent(x, e) = x
  BY <1>0 DEF ScanEvent
<1>5. \A n : StartedEvent(n, e) = n
  BY <1>0 DEF StartedEvent
<1>6. PromptCount(Append(l, e)) = Counted(o, q)
  BY <1>0, <1>3, FoldsMove
<1> HIDE DEF q
<1>7. Stands(Append(l, e), o, s, nt, ns)
  BY <1>0, <1>1, <1>2, <1>4, <1>5, <1>6, FoldsMove DEF Stands
<1> QED BY <1>6, <1>7 DEF q

-----------------------------------------------------------------------------
(* What the splices do to the inbox. *)

\* Appending a new element to a list.
LEMMA AppendToList ==
  ASSUME NEW q \in Seq(Messages), NEW m \in Messages
  PROVE  /\ Append(q, m) \in Seq(Messages)
         /\ Range(Append(q, m)) = Range(q) \cup {m}
         /\ Injective(q) /\ m \notin Range(q) => Injective(Append(q, m))
         /\ SubSeq(q, 1, Len(q)) \o <<m>> \o SubSeq(q, Len(q) + 0 + 1, Len(q)) = Append(q, m)
<1> DEFINE r == Append(q, m)
           n == Len(q)
<1>1. /\ r \in Seq(Messages) /\ Len(r) = n + 1 /\ n \in Nat /\ r[n + 1] = m
      /\ \A i \in 1..n : r[i] = q[i]
  OBVIOUS
<1>2. DOMAIN q = 1..n /\ DOMAIN r = 1..(n + 1)
  BY <1>1
<1>3. SubSeq(q, 1, n) \o <<m>> \o SubSeq(q, n + 0 + 1, n) = r
  <2>1. SubSeq(q, 1, n) = q /\ SubSeq(q, n + 0 + 1, n) = <<>>
    OBVIOUS
  <2>2. q \o <<m>> = r /\ r \o <<>> = r
    OBVIOUS
  <2> QED BY <2>1, <2>2
<1> HIDE DEF r, n
<1>4. Range(r) = Range(q) \cup {m}
  BY <1>1, <1>2 DEF Range
<1>5. ASSUME Injective(q), m \notin Range(q) PROVE Injective(r)
  <2> SUFFICES ASSUME NEW i \in DOMAIN r, NEW j \in DOMAIN r, r[i] = r[j] PROVE i = j
    BY DEF Injective
  <2>1. i \in 1..n /\ j \in 1..n => q[i] = q[j]
    BY <1>1
  <2>2. \A k \in 1..n : q[k] # m
    BY <1>2, <1>5 DEF Range
  <2> QED BY <1>1, <1>2, <1>5, <2>1, <2>2 DEF Injective
<1> QED BY <1>1, <1>3, <1>4, <1>5 DEF r, n

\* Removing one element of a list.
LEMMA RemoveFromList ==
  ASSUME NEW q \in Seq(Messages), NEW k \in DOMAIN q
  PROVE  /\ RemoveAt(q, k) \in Seq(Messages)
         /\ Range(RemoveAt(q, k)) \subseteq Range(q)
         /\ Injective(q) => Injective(RemoveAt(q, k)) /\ q[k] \notin Range(RemoveAt(q, k))
         /\ SubSeq(q, 1, k - 1) \o <<>> \o SubSeq(q, k - 1 + 1 + 1, Len(q)) = RemoveAt(q, k)
<1> DEFINE r == RemoveAt(q, k)
           n == Len(q)
<1>1. /\ r \in Seq(Messages) /\ Len(r) = n - 1
      /\ \A j \in 1..(n - 1) : r[j] = IF j < k THEN q[j] ELSE q[j + 1]
  BY Traces!RemoveAtFacts DEF RemoveAt, Traces!RemoveAt
<1>2. n \in Nat /\ DOMAIN q = 1..n /\ DOMAIN r = 1..(n - 1) /\ k \in 1..n
  BY <1>1
<1>3. SubSeq(q, 1, k - 1) \o <<>> \o SubSeq(q, k - 1 + 1 + 1, n) = r
  <2> DEFINE left == SubSeq(q, 1, k - 1)
  <2>1. left \in Seq(Messages) /\ k - 1 + 1 + 1 = k + 1
    OBVIOUS
  <2> HIDE DEF left
  <2>2. left \o <<>> = left
    BY <2>1
  <2> QED BY <2>1, <2>2 DEF left, RemoveAt
<1> HIDE DEF r, n
<1> DEFINE from(j) == IF j < k THEN j ELSE j + 1
<1>4. \A j \in DOMAIN r : from(j) \in DOMAIN q /\ from(j) # k /\ r[j] = q[from(j)]
  BY <1>1, <1>2
<1>5. \A i, j \in DOMAIN r : from(i) = from(j) => i = j
  BY <1>2
<1>6. Range(r) \subseteq Range(q)
  BY <1>4 DEF Range
<1>7. ASSUME Injective(q) PROVE Injective(r) /\ q[k] \notin Range(r)
  <2>1. Injective(r)
    BY <1>4, <1>5, <1>7 DEF Injective
  <2>2. \A j \in DOMAIN r : r[j] # q[k]
    BY <1>2, <1>4, <1>7 DEF Injective
  <2> QED BY <2>1, <2>2 DEF Range
<1> QED BY <1>1, <1>3, <1>6, <1>7 DEF r, n

\* Dropping the first elements of a list, and taking them.
LEMMA SplitList ==
  ASSUME NEW q \in Seq(Messages), NEW n \in 0..Len(q)
  PROVE  /\ SubSeq(q, n + 1, Len(q)) \in Seq(Messages)
         /\ Range(SubSeq(q, n + 1, Len(q))) \subseteq Range(q)
         /\ SubSeq(q, 1, n) \in Seq(Messages)
         /\ Range(SubSeq(q, 1, n)) \subseteq Range(q)
         /\ Injective(q) =>
              /\ Injective(SubSeq(q, n + 1, Len(q))) /\ Injective(SubSeq(q, 1, n))
              /\ Range(SubSeq(q, 1, n)) \cap Range(SubSeq(q, n + 1, Len(q))) = {}
         /\ SubSeq(q, 1, 0) \o <<>> \o SubSeq(q, 0 + n + 1, Len(q)) = SubSeq(q, n + 1, Len(q))
         /\ n = 0 => SubSeq(q, n + 1, Len(q)) = q
         /\ n = Len(q) => SubSeq(q, n + 1, Len(q)) = <<>>
<1> DEFINE r == SubSeq(q, n + 1, Len(q))
           h == SubSeq(q, 1, n)
           k == Len(q)
<1>1. /\ r \in Seq(Messages) /\ Len(r) = k - n /\ k \in Nat /\ n \in 0..k
      /\ \A j \in 1..(k - n) : r[j] = q[n + j]
  OBVIOUS
<1>2. h \in Seq(Messages) /\ Len(h) = n /\ \A j \in 1..n : h[j] = q[j]
  OBVIOUS
<1>3. SubSeq(q, 1, 0) \o <<>> \o SubSeq(q, 0 + n + 1, k) = r
  OBVIOUS
<1>4. (n = 0 => r = q) /\ (n = k => r = <<>>)
  OBVIOUS
<1>5. DOMAIN q = 1..k /\ DOMAIN r = 1..(k - n) /\ DOMAIN h = 1..n
  BY <1>1, <1>2
<1> HIDE DEF r, h, k
<1>6. \A j \in DOMAIN r : n + j \in DOMAIN q /\ r[j] = q[n + j]
  BY <1>1, <1>5
<1>7. \A j \in DOMAIN h : j \in DOMAIN q /\ h[j] = q[j]
  BY <1>1, <1>2, <1>5
<1>8. Range(r) \subseteq Range(q) /\ Range(h) \subseteq Range(q)
  BY <1>6, <1>7 DEF Range
<1>9. ASSUME Injective(q)
      PROVE  Injective(r) /\ Injective(h) /\ Range(h) \cap Range(r) = {}
  <2>1. ASSUME NEW i \in DOMAIN r, NEW j \in DOMAIN r, r[i] = r[j] PROVE i = j
    <3>1. n + i = n + j
      BY <1>6, <1>9, <2>1 DEF Injective
    <3> QED BY <3>1, <1>1, <1>5
  <2>2. Injective(h)
    BY <1>7, <1>9 DEF Injective
  <2>3. ASSUME NEW i \in DOMAIN h, NEW j \in DOMAIN r PROVE h[i] # r[j]
    <3>1. i # n + j
      BY <1>1, <1>5
    <3> QED BY <1>6, <1>7, <1>9, <3>1 DEF Injective
  <2> QED BY <2>1, <2>2, <2>3 DEF Injective, Range
<1> QED BY <1>1, <1>2, <1>3, <1>4, <1>8, <1>9 DEF r, h, k

\* One list replaced by a part of it.
LEMMA ShrinkBox ==
  ASSUME NEW box \in Boxes, NEW b \in Boundaries, NEW q \in Seq(Messages), Distinct(box),
         Range(q) \subseteq Range(box[b]), Injective(q)
  PROVE  LET box2 == [box EXCEPT ![b] = q] IN
         /\ box2 \in Boxes /\ Distinct(box2) /\ Holds(box2) \subseteq Holds(box)
         /\ \A x \in Range(box[b]) : x \notin Range(q) => x \notin Holds(box2)
<1> DEFINE box2 == [box EXCEPT ![b] = q]
<1>1. /\ box2 \in Boxes
      /\ \A c \in Boundaries : box2[c] = IF c = b THEN q ELSE box[c]
  BY DEF Boxes
<1> HIDE DEF box2
<1>2. "next-turn" \in Boundaries /\ "next-step" \in Boundaries /\ b \in {"next-turn", "next-step"}
  BY DEF Boundaries
<1>3. \A c \in Boundaries : Range(box2[c]) \subseteq Range(box[c]) /\ Injective(box2[c])
  BY <1>1 DEF Distinct
<1>4. Holds(box2) \subseteq Holds(box) /\ Distinct(box2)
  BY <1>2, <1>3 DEF Holds, Distinct
<1>5. ASSUME NEW x \in Range(box[b]), x \notin Range(q) PROVE x \notin Holds(box2)
  <2>1. \A c \in Boundaries : c # b => x \notin Range(box[c])
    BY <1>2 DEF Distinct, Boundaries
  <2> QED BY <1>1, <1>2, <1>5, <2>1 DEF Holds
<1> QED BY <1>1, <1>4, <1>5 DEF box2

\* An insertion at the end of a list.
LEMMA InsertBox ==
  ASSUME NEW box \in Boxes, NEW b \in Boundaries, NEW m \in Messages, Distinct(box),
         m \notin Holds(box)
  PROVE  LET box2 == [box EXCEPT ![b] = Append(@, m)] IN
         /\ box2 \in Boxes /\ Distinct(box2) /\ Holds(box2) = Holds(box) \cup {m}
         /\ ReplayEvent(box, Splice(b, Len(box[b]), 0, <<m>>, "inserted")) = box2
<1> DEFINE q == box[b]
           r == Append(q, m)
           box2 == [box EXCEPT ![b] = r]
<1>0. "next-turn" \in Boundaries /\ "next-step" \in Boundaries /\ b \in {"next-turn", "next-step"}
  BY DEF Boundaries
<1>1. q \in Seq(Messages)
  BY DEF Boxes
<1>2. Injective(q) /\ m \notin Range(q)
  BY <1>0 DEF Distinct, Holds
<1> HIDE DEF q
<1>3. /\ r \in Seq(Messages) /\ Range(r) = Range(q) \cup {m} /\ Injective(r)
      /\ SubSeq(q, 1, Len(q)) \o <<m>> \o SubSeq(q, Len(q) + 0 + 1, Len(q)) = r
  BY <1>1, <1>2, AppendToList
<1>4. ReplayEvent(box, Splice(b, Len(q), 0, <<m>>, "inserted")) = box2
  BY <1>3 DEF ReplayEvent, Splice, Apply, q
<1> HIDE DEF r
<1>5. /\ box2 \in Boxes
      /\ \A c \in Boundaries : box2[c] = IF c = b THEN r ELSE box[c]
  BY <1>3 DEF Boxes
<1> HIDE DEF box2
<1>6. Holds(box2) = Holds(box) \cup {m}
  BY <1>0, <1>3, <1>5 DEF Holds, q
<1>7. \A c \in Boundaries : Injective(box2[c])
  BY <1>3, <1>5 DEF Distinct
<1>8. Range(box2["next-turn"]) \cap Range(box2["next-step"]) = {}
  BY <1>0, <1>3, <1>5 DEF Distinct, Holds, q
<1> QED BY <1>4, <1>5, <1>6, <1>7, <1>8 DEF Distinct, box2, r, q

\* Replaying a removal, and a deletion of the first elements.
LEMMA RemoveBox ==
  ASSUME NEW box \in Boxes, NEW b \in Boundaries, NEW k \in DOMAIN box[b]
  PROVE  ReplayEvent(box, Splice(b, k - 1, 1, <<>>, "canceled"))
           = [box EXCEPT ![b] = RemoveAt(@, k)]
<1> DEFINE q == box[b]
<1>1. q \in Seq(Messages)
  BY DEF Boxes
<1> HIDE DEF q
<1>2. SubSeq(q, 1, k - 1) \o <<>> \o SubSeq(q, k - 1 + 1 + 1, Len(q)) = RemoveAt(q, k)
  BY <1>1, RemoveFromList DEF q
<1> QED BY <1>2 DEF ReplayEvent, Splice, Apply, q

\* The replay of a splice that takes messages from the front of a box.
LEMMA DropBox ==
  ASSUME NEW box \in Boxes, NEW b \in Boundaries, NEW n \in 0..Len(box[b]), NEW outcome
  PROVE  ReplayEvent(box, Splice(b, 0, n, <<>>, outcome))
           = [box EXCEPT ![b] = SubSeq(@, n + 1, Len(@))]
<1> DEFINE q == box[b]
<1>1. q \in Seq(Messages)
  BY DEF Boxes
<1> HIDE DEF q
<1>2. SubSeq(q, 1, 0) \o <<>> \o SubSeq(q, 0 + n + 1, Len(q)) = SubSeq(q, n + 1, Len(q))
  BY <1>1, SplitList DEF q
<1> QED BY <1>2 DEF ReplayEvent, Splice, Apply, q

-----------------------------------------------------------------------------
(* Every beginning of the log is good. *)

\* The whole log is one of its beginnings.
LEMMA SoundIsGood ==
  ASSUME NEW l, NEW s, Sound(l, s)
  PROVE  l \in Seq(Events) /\ Len(l) \in Nat /\ Good(l, s)
<1>1. l \in Seq(Events)
  BY DEF Sound
<1>2. Len(l) \in Nat
  BY <1>1
<1>3. Len(l) \in 0..Len(l)
  BY <1>2
<1>4. SubSeq(l, 1, Len(l)) = l
  BY <1>1
<1>5. Good(SubSeq(l, 1, Len(l)), s)
  BY <1>3 DEF Sound
<1>6. Good(l, s)
  BY <1>4, <1>5, Zenon
<1> QED BY <1>1, <1>2, <1>6, Zenon

\* More messages may have been submitted since.
LEMMA GoodStays ==
  ASSUME NEW l, NEW s \in Nat, NEW s2 \in Nat, s <= s2, Good(l, s)
  PROVE  Good(l, s2)
<1>1. 1..s \subseteq 1..s2
  OBVIOUS
<1> QED BY <1>1 DEF Good

\* A log stays sound if the event that is appended leaves it good.
LEMMA SoundAppend ==
  ASSUME NEW l, NEW s \in Nat, NEW s2 \in Nat, s <= s2, Sound(l, s),
         NEW e \in Events, Good(Append(l, e), s2)
  PROVE  Sound(Append(l, e), s2)
<1> DEFINE all == Append(l, e)
<1>0. l \in Seq(Events) /\ Len(l) \in Nat
  BY SoundIsGood
<1>1. all \in Seq(Events) /\ Len(all) = Len(l) + 1 /\ SubSeq(all, 1, Len(l) + 1) = all
  BY <1>0
<1>2. ASSUME NEW n \in 0..Len(l) PROVE Good(SubSeq(all, 1, n), s2)
  <2>1. SubSeq(all, 1, n) = SubSeq(l, 1, n)
    BY <1>0
  <2>2. Good(SubSeq(l, 1, n), s)
    BY DEF Sound
  <2> HIDE DEF all
  <2> QED BY <2>1, <2>2, GoodStays
<1> HIDE DEF all
<1>3. ASSUME NEW n \in 0..Len(all) PROVE Good(SubSeq(all, 1, n), s2)
  <2>1. n \in 0..Len(l) \/ n = Len(l) + 1
    BY <1>0, <1>1
  <2> QED BY <1>1, <1>2, <2>1 DEF all
<1> QED BY <1>1, <1>3 DEF Sound, all

\* A crash keeps a beginning.
LEMMA SoundCut ==
  ASSUME NEW l, NEW s, Sound(l, s), NEW n \in 0..Len(l)
  PROVE  Sound(SubSeq(l, 1, n), s)
<1> DEFINE c == SubSeq(l, 1, n)
<1>0. l \in Seq(Events) /\ Len(l) \in Nat
  BY SoundIsGood
<1>1. c \in Seq(Events) /\ Len(c) = n
  BY <1>0
<1>2. \A k \in 0..n : SubSeq(c, 1, k) = SubSeq(l, 1, k)
  BY <1>0
<1> HIDE DEF c
<1>3. \A k \in 0..n : k \in 0..Len(l)
  BY <1>0
<1> QED BY <1>1, <1>2, <1>3 DEF Sound, c

\* The transcript of a log with one more event.
LEMMA HeardMoves ==
  ASSUME NEW l \in Seq(Events), NEW e \in Events
  PROVE  /\ e.type # "user/message" =>
              Heard(Append(l, e)) = Heard(l) /\ (HeardOnce(l) => HeardOnce(Append(l, e)))
         /\ e.type = "user/message" =>
              /\ Heard(Append(l, e)) = Heard(l) \cup ({e.message} \cap Messages)
              /\ HeardOnce(l) /\ (e.message = 0 \/ e.message \in Messages \ Heard(l)) =>
                   HeardOnce(Append(l, e))
<1> DEFINE all == Append(l, e)
           n == Len(l)
<1>1. /\ all \in Seq(Events) /\ Len(all) = n + 1 /\ n \in Nat /\ all[n + 1] = e
      /\ \A i \in 1..n : all[i] = l[i]
      /\ DOMAIN all = 1..(n + 1) /\ DOMAIN l = 1..n
  OBVIOUS
<1> HIDE DEF all, n
<1>2. ASSUME NEW i \in DOMAIN all PROVE i = n + 1 \/ (i \in DOMAIN l /\ i # n + 1 /\ all[i] = l[i])
  BY <1>1
<1>3. \A i \in DOMAIN l : i \in DOMAIN all /\ i # n + 1 /\ all[i] = l[i]
  BY <1>1
<1>4. n + 1 \in DOMAIN all /\ all[n + 1] = e
  BY <1>1
<1>5. ASSUME e.type # "user/message" PROVE Heard(all) = Heard(l)
  BY <1>2, <1>3, <1>4, <1>5 DEF Heard
<1>6. ASSUME e.type = "user/message"
      PROVE  Heard(all) = Heard(l) \cup ({e.message} \cap Messages)
  BY <1>2, <1>3, <1>4, <1>6 DEF Heard
<1>7. ASSUME HeardOnce(l),
             e.type = "user/message" => e.message = 0 \/ e.message \in Messages \ Heard(l)
      PROVE  HeardOnce(all)
  <2> SUFFICES ASSUME NEW i \in DOMAIN all, NEW j \in DOMAIN all,
                      all[i].type = "user/message", all[j].type = "user/message",
                      all[i].message = all[j].message, all[i].message # 0
               PROVE  i = j
    BY DEF HeardOnce
  <2>1. CASE i = n + 1 /\ j = n + 1
    BY <2>1
  <2>2. CASE i = n + 1 /\ j # n + 1
    <3>1. j \in DOMAIN l /\ all[j] = l[j]
      BY <1>2, <2>2
    <3>2. e.message \in Heard(l)
      BY <1>4, <1>7, <2>2, <3>1 DEF Heard
    <3> QED BY <1>4, <1>7, <2>2, <3>2
  <2>3. CASE i # n + 1 /\ j = n + 1
    <3>1. i \in DOMAIN l /\ all[i] = l[i]
      BY <1>2, <2>3
    <3>2. e.message \in Heard(l)
      BY <1>4, <1>7, <2>3, <3>1 DEF Heard
    <3> QED BY <1>4, <1>7, <2>3, <3>2
  <2>4. CASE i # n + 1 /\ j # n + 1
    BY <1>2, <1>7, <2>4 DEF HeardOnce
  <2> QED BY <2>1, <2>2, <2>3, <2>4
<1> QED BY <1>5, <1>6, <1>7 DEF all

\* What Good says of a log that stands somewhere.
LEMMA StandingIsGood ==
  ASSUME NEW l, NEW s, NEW o, NEW st, NEW nt, NEW ns, Stands(l, o, st, nt, ns),
         Replay(l) \in Boxes, Distinct(Replay(l)), Holds(Replay(l)) \subseteq 1..s,
         Heard(l) \subseteq 1..s, HeardOnce(l), Heard(l) \cap Holds(Replay(l)) = {}
  PROVE  Good(l, s)
<1>1. /\ TraceOf(l).openTurn = o /\ TraceOf(l).openStep = st
      /\ TraceOf(l).nextTurn = nt /\ TraceOf(l).nextStep = ns
  BY DEF Stands, Bounds
<1> QED BY <1>1 DEF Good

\* An event of turns and steps.
LEMMA BoundaryIsSound ==
  ASSUME NEW l, NEW s \in Nat, Sound(l, s),
         NEW e \in Starts \cup TurnEnds \cup StepStarts \cup StepEnds,
         NEW o, NEW st, NEW nt, NEW ns, Stands(Append(l, e), o, st, nt, ns)
  PROVE  /\ Sound(Append(l, e), s)
         /\ Replay(Append(l, e)) = Replay(l)
         /\ Heard(Append(l, e)) = Heard(l)
<1>1. /\ e \in Events /\ e.type # "user/message" /\ e.type # "agent/inbox/spliced"
  BY DEF Events, Starts, TurnEnds, StepStarts, StepEnds
<1>2. l \in Seq(Events) /\ Good(l, s)
  BY SoundIsGood
<1>3. Replay(Append(l, e)) = Replay(l)
  BY <1>1, <1>2, FoldsMove DEF ReplayEvent
<1>4. Heard(Append(l, e)) = Heard(l) /\ HeardOnce(Append(l, e))
  BY <1>1, <1>2, HeardMoves DEF Good
<1>5. Good(Append(l, e), s)
  BY <1>2, <1>3, <1>4, StandingIsGood DEF Good
<1> QED BY <1>1, <1>3, <1>4, <1>5, SoundAppend

\* A message of the transcript: the context message, or one that is new to it.
LEMMA InputIsSound ==
  ASSUME NEW l, NEW s \in Nat, s <= MaxMessages, Sound(l, s), NEW e \in Inputs,
         NEW o, NEW st, NEW nt, NEW ns, Stands(Append(l, e), o, st, nt, ns),
         e.message = 0 \/ e.message \in (1..s) \ (Heard(l) \cup Holds(Replay(l)))
  PROVE  /\ Sound(Append(l, e), s)
         /\ Replay(Append(l, e)) = Replay(l)
         /\ Heard(Append(l, e)) = Heard(l) \cup ({e.message} \cap Messages)
<1>1. e \in Events /\ e.type = "user/message"
  BY DEF Events, Inputs
<1>2. l \in Seq(Events) /\ Good(l, s)
  BY SoundIsGood
<1>3. Replay(Append(l, e)) = Replay(l)
  BY <1>1, <1>2, FoldsMove DEF ReplayEvent
<1>4. \A x \in 1..s : x \in Messages
  BY DriverAssumption DEF Messages
<1>a. 0 \notin Messages
  BY DEF Messages
<1>5. /\ Heard(Append(l, e)) = Heard(l) \cup ({e.message} \cap Messages)
      /\ HeardOnce(Append(l, e))
  BY <1>1, <1>2, <1>4, HeardMoves DEF Good
<1>6. /\ Heard(Append(l, e)) \subseteq 1..s
      /\ Heard(Append(l, e)) \cap Holds(Replay(l)) = {}
  BY <1>2, <1>5, <1>a DEF Good
<1>7. Good(Append(l, e), s)
  BY <1>2, <1>3, <1>5, <1>6, StandingIsGood DEF Good
<1> QED BY <1>1, <1>3, <1>5, <1>7, SoundAppend

\* A splice of the inbox.
LEMMA SpliceIsSound ==
  ASSUME NEW l, NEW s \in Nat, NEW s2 \in Nat, s <= s2, Sound(l, s), NEW e \in Splices,
         NEW o, NEW st, NEW nt, NEW ns, Stands(Append(l, e), o, st, nt, ns),
         NEW box \in Boxes, ReplayEvent(Replay(l), e) = box, Distinct(box),
         Holds(box) \subseteq 1..s2, Heard(l) \cap Holds(box) = {}
  PROVE  /\ Sound(Append(l, e), s2)
         /\ Replay(Append(l, e)) = box
         /\ Heard(Append(l, e)) = Heard(l)
<1>1. e \in Events /\ e.type # "user/message"
  BY DEF Events, Splices
<1>2. l \in Seq(Events) /\ Good(l, s)
  BY SoundIsGood
<1>3. Replay(Append(l, e)) = box
  BY <1>1, <1>2, FoldsMove
<1>4. Heard(Append(l, e)) = Heard(l) /\ HeardOnce(Append(l, e))
  BY <1>1, <1>2, HeardMoves DEF Good
<1>5. Heard(l) \subseteq 1..s2
  <2>1. 1..s \subseteq 1..s2
    OBVIOUS
  <2> QED BY <1>2, <2>1 DEF Good
<1>6. Good(Append(l, e), s2)
  BY <1>3, <1>4, <1>5, StandingIsGood
<1> QED BY <1>1, <1>3, <1>4, <1>6, SoundAppend

\* Deleting the first elements of a list, if there is anything to delete.
LEMMA DeletionIsSound ==
  ASSUME NEW l, NEW s \in Nat, Sound(l, s),
         NEW o, NEW st, NEW nt, NEW ns, Stands(l, o, st, nt, ns),
         NEW p \in Nat, PromptCount(l) = Counted(o, p),
         NEW b \in Boundaries, NEW n \in 0..Len(Replay(l)[b]),
         NEW outcome \in {"canceled", "claimed"},
         b = "next-turn" /\ outcome = "claimed" /\ n # 0 => o # 0 /\ p + n <= 1
  PROVE  LET d == Deletion(b, n, outcome) IN
         /\ d \in Seq(Events)
         /\ Sound(l \o d, s)
         /\ Stands(l \o d, o, st, nt, ns)
         /\ Replay(l \o d)
              = [Replay(l) EXCEPT ![b] = SubSeq(Replay(l)[b], n + 1, Len(Replay(l)[b]))]
         /\ Heard(l \o d) = Heard(l)
         /\ b = "next-step" \/ outcome = "canceled" => PromptCount(l \o d) = Counted(o, p)
<1> DEFINE d == Deletion(b, n, outcome)
           box == Replay(l)
           q == box[b]
           rest == SubSeq(q, n + 1, Len(q))
           box2 == [box EXCEPT ![b] = rest]
           e == Splice(b, 0, n, <<>>, outcome)
<1>1. l \in Seq(Events) /\ Good(l, s)
  BY SoundIsGood
<1>2. box \in Boxes /\ Distinct(box) /\ Holds(box) \subseteq 1..s /\ Heard(l) \cap Holds(box) = {}
  BY <1>1 DEF Good
<1>3. q \in Seq(Messages) /\ Injective(q) /\ Len(q) \in Nat /\ n \in 0..Len(q) /\ n \in Nat
  BY <1>2 DEF Boxes, Distinct
<1> HIDE DEF q
<1>4. /\ rest \in Seq(Messages) /\ Range(rest) \subseteq Range(q) /\ Injective(rest)
      /\ n = 0 => rest = q
  BY <1>3, SplitList
<1> HIDE DEF rest
<1>5. box2 \in Boxes /\ Distinct(box2) /\ Holds(box2) \subseteq Holds(box)
  BY <1>2, <1>4, ShrinkBox DEF q
<1>6. ReplayEvent(box, e) = box2
  BY <1>2, DropBox DEF q, rest
<1>7. CASE n = 0
  <2>1. d = <<>> /\ l \o d = l /\ d \in Seq(Events)
    BY <1>1, <1>7 DEF Deletion
  <2>2. box2 = box
    BY <1>2, <1>4, <1>7 DEF Boxes, q
  <2> QED BY <2>1, <2>2 DEF box2, rest, q
<1>8. CASE n # 0
  <2>1. e \in Splices /\ e.removed = n /\ (IsClaim(e) <=> b = "next-turn" /\ outcome = "claimed")
    BY <1>3 DEF Splices, Splice, Inserted, IsClaim
  <2>2. d = <<e>> /\ d \in Seq(Events) /\ l \o d = Append(l, e)
    BY <1>1, <1>8, <2>1 DEF Deletion, Events
  <2> HIDE DEF d, e
  <2>3. /\ Stands(Append(l, e), o, st, nt, ns)
        /\ ~IsClaim(e) => PromptCount(Append(l, e)) = Counted(o, p)
    BY <1>1, <1>8, <2>1, SpliceStands
  <2> HIDE DEF box2, box
  <2>4. /\ Sound(Append(l, e), s) /\ Replay(Append(l, e)) = box2 /\ Heard(Append(l, e)) = Heard(l)
    <3>1. ReplayEvent(Replay(l), e) = box2 /\ Holds(box2) \subseteq 1..s
          /\ Heard(l) \cap Holds(box2) = {} /\ s <= s
      BY <1>2, <1>5, <1>6 DEF box
    <3> QED BY <1>5, <2>1, <2>3, <3>1, SpliceIsSound
  <2>5. Sound(l \o d, s) /\ Stands(l \o d, o, st, nt, ns) /\ Heard(l \o d) = Heard(l)
    BY <2>2, <2>3, <2>4
  <2>6. Replay(l \o d) = [Replay(l) EXCEPT ![b] = SubSeq(Replay(l)[b], n + 1, Len(Replay(l)[b]))]
    BY <2>2, <2>4 DEF box2, rest, q, box
  <2>7. b = "next-step" \/ outcome = "canceled" => PromptCount(l \o d) = Counted(o, p)
    BY <2>1, <2>2, <2>3
  <2> QED BY <2>2, <2>5, <2>6, <2>7 DEF d
<1> QED BY <1>7, <1>8

\* Appending two sequences one after the other.
LEMMA Associates ==
  ASSUME NEW l \in Seq(Events), NEW x \in Seq(Events), NEW y \in Seq(Events)
  PROVE  l \o (x \o y) = (l \o x) \o y
  OBVIOUS

\* Two lists without a common element, one after the other.
LEMMA ConcatLists ==
  ASSUME NEW x \in Seq(Messages), NEW h \in Seq(Messages)
  PROVE  /\ x \o h \in Seq(Messages) /\ Range(x \o h) = Range(x) \cup Range(h)
         /\ Injective(x) /\ Injective(h) /\ Range(x) \cap Range(h) = {} => Injective(x \o h)
<1> DEFINE c == x \o h
           m == Len(x)
           j == Len(h)
<1>1. /\ c \in Seq(Messages) /\ DOMAIN c = 1..(m + j) /\ m \in Nat /\ j \in Nat
      /\ DOMAIN x = 1..m /\ DOMAIN h = 1..j
      /\ \A i \in 1..m : c[i] = x[i]
      /\ \A i \in 1..j : c[m + i] = h[i]
  OBVIOUS
<1> HIDE DEF m, j, c
<1>2. ASSUME NEW i \in DOMAIN c, ~(i <= m)
      PROVE  i - m \in DOMAIN h /\ c[i] = h[i - m]
  <2>1. i - m \in 1..j /\ m + (i - m) = i
    BY <1>1, <1>2
  <2> QED BY <1>1, <2>1
<1>3. ASSUME NEW i \in DOMAIN c, i <= m PROVE i \in DOMAIN x /\ c[i] = x[i]
  BY <1>1, <1>3
<1>4. Range(c) = Range(x) \cup Range(h)
  <2>1. ASSUME NEW i \in DOMAIN c PROVE c[i] \in Range(x) \cup Range(h)
    BY <1>2, <1>3 DEF Range
  <2>2. ASSUME NEW i \in DOMAIN x PROVE x[i] \in Range(c)
    <3>1. i \in DOMAIN c /\ c[i] = x[i]
      BY <1>1
    <3> QED BY <3>1 DEF Range
  <2>3. ASSUME NEW i \in DOMAIN h PROVE h[i] \in Range(c)
    <3>1. m + i \in DOMAIN c /\ c[m + i] = h[i]
      BY <1>1
    <3> QED BY <3>1 DEF Range
  <2> QED BY <2>1, <2>2, <2>3 DEF Range
<1>5. ASSUME Injective(x), Injective(h), Range(x) \cap Range(h) = {} PROVE Injective(c)
  <2> SUFFICES ASSUME NEW i \in DOMAIN c, NEW k \in DOMAIN c, c[i] = c[k] PROVE i = k
    BY DEF Injective
  <2>0. i \in Nat /\ k \in Nat /\ m \in Nat
    BY <1>1
  <2>1. \A y \in DOMAIN x : \A z \in DOMAIN h : x[y] # h[z]
    BY <1>5 DEF Range
  <2>2. CASE i <= m /\ k <= m
    BY <1>3, <1>5, <2>2 DEF Injective
  <2>3. CASE i <= m /\ ~(k <= m)
    BY <1>2, <1>3, <2>1, <2>3
  <2>4. CASE ~(i <= m) /\ k <= m
    BY <1>2, <1>3, <2>1, <2>4
  <2>5. CASE ~(i <= m) /\ ~(k <= m)
    <3>1. i - m = k - m
      BY <1>2, <1>5, <2>5 DEF Injective
    <3> QED BY <2>0, <3>1
  <2> QED BY <2>2, <2>3, <2>4, <2>5
<1> QED BY <1>1, <1>4, <1>5 DEF c

\* A claim: all of next-step, and one prompt at the boundary of a turn that has none.
LEMMA ClaimIsSound ==
  ASSUME inbox \in Boxes,
         NEW l, NEW s \in Nat, Sound(l, s), Replay(l) = inbox,
         NEW o, NEW st, NEW nt, NEW ns, Stands(l, o, st, nt, ns),
         NEW b \in Boundaries, b = "next-turn" => o # 0 /\ PromptCount(l) = Counted(o, 0)
  PROVE  /\ ClaimSplices(b) \in Seq(Events)
         /\ Sound(l \o ClaimSplices(b), s)
         /\ Stands(l \o ClaimSplices(b), o, st, nt, ns)
         /\ Replay(l \o ClaimSplices(b)) = ClaimRest(b)
         /\ Heard(l \o ClaimSplices(b)) = Heard(l)
<1>0. "next-turn" \in Boundaries /\ "next-step" \in Boundaries /\ b \in {"next-turn", "next-step"}
  BY DEF Boundaries
<1> DEFINE n == Len(inbox["next-step"])
           d1 == Deletion("next-step", n, "claimed")
           k == Prompts(b)
           d2 == Deletion("next-turn", k, "claimed")
           l1 == l \o d1
           box1 == [inbox EXCEPT !["next-step"] = <<>>]
<1>1. PICK p \in Nat : PromptCount(l) = Counted(o, p)
  BY DEF Stands
<1>2. b = "next-turn" => p = 0
  <2>1. Counted(o, p).prompts = p /\ Counted(o, 0).prompts = 0
    BY DEF Counted
  <2> QED BY <1>1, <2>1
<1>3. inbox["next-step"] \in Seq(Messages) /\ inbox["next-turn"] \in Seq(Messages) /\ n \in Nat
  BY <1>0 DEF Boxes
<1>4. SubSeq(inbox["next-step"], n + 1, n) = <<>>
  BY <1>3, SplitList
<1>a. n \in 0..Len(Replay(l)["next-step"])
  BY <1>3
<1> HIDE DEF n
<1>5. /\ d1 \in Seq(Events) /\ Sound(l1, s) /\ Stands(l1, o, st, nt, ns)
      /\ Replay(l1) = [Replay(l) EXCEPT !["next-step"] =
                         SubSeq(Replay(l)["next-step"], n + 1, Len(Replay(l)["next-step"]))]
      /\ Heard(l1) = Heard(l) /\ PromptCount(l1) = Counted(o, p)
  BY <1>0, <1>1, <1>a, DeletionIsSound
<1>6. Replay(l1) = box1
  BY <1>4, <1>5 DEF n
<1>7. box1["next-turn"] = inbox["next-turn"]
  BY <1>0 DEF Boxes
<1>8. k \in 0..Len(inbox["next-turn"]) /\ k \in {0, 1} /\ (b # "next-turn" => k = 0)
  BY <1>3 DEF Prompts
<1> HIDE DEF d1, l1, box1
<1>9. k \in 0..Len(Replay(l1)["next-turn"]) /\ (k # 0 => o # 0 /\ p + k <= 1)
  BY <1>0, <1>2, <1>6, <1>7, <1>8
<1> HIDE DEF k
<1>10. /\ d2 \in Seq(Events) /\ Sound(l1 \o d2, s) /\ Stands(l1 \o d2, o, st, nt, ns)
       /\ Replay(l1 \o d2) = [Replay(l1) EXCEPT !["next-turn"] =
              SubSeq(Replay(l1)["next-turn"], k + 1, Len(Replay(l1)["next-turn"]))]
       /\ Heard(l1 \o d2) = Heard(l1)
  <2>1. Sound(l1, s) /\ Stands(l1, o, st, nt, ns) /\ PromptCount(l1) = Counted(o, p)
    BY <1>5
  <2> HIDE DEF d2
  <2>2. d2 = Deletion("next-turn", k, "claimed")
    BY DEF d2
  <2> QED BY <1>0, <1>9, <2>1, <2>2, DeletionIsSound
<1>11. Replay(l1 \o d2) = ClaimRest(b)
  BY <1>0, <1>6, <1>7, <1>10 DEF Boxes, ClaimRest, box1, k
<1> HIDE DEF d2
<1>12. ClaimSplices(b) = d1 \o d2 /\ ClaimSplices(b) \in Seq(Events)
  BY <1>5, <1>10 DEF ClaimSplices, d1, d2, n, k
<1>13. l \o ClaimSplices(b) = l1 \o d2
  <2>1. l \in Seq(Events) /\ d1 \in Seq(Events) /\ d2 \in Seq(Events)
    BY <1>5, <1>10, SoundIsGood
  <2>2. l \o (d1 \o d2) = (l \o d1) \o d2
    BY <2>1, Associates
  <2> QED BY <1>12, <2>2 DEF l1
<1> QED BY <1>5, <1>10, <1>11, <1>12, <1>13

\* The claimed batch leaves the inbox.
LEMMA ClaimBatchLeaves ==
  ASSUME inbox \in Boxes, Distinct(inbox), NEW b \in Boundaries
  PROVE  /\ ClaimRest(b) \in Boxes /\ Holds(ClaimRest(b)) \subseteq Holds(inbox)
         /\ ClaimBatch(b) \in Seq(Messages) /\ Injective(ClaimBatch(b))
         /\ Range(ClaimBatch(b)) \subseteq Holds(inbox)
         /\ Range(ClaimBatch(b)) \cap Holds(ClaimRest(b)) = {}
<1>0. "next-turn" \in Boundaries /\ "next-step" \in Boundaries /\ Boundaries = {"next-turn", "next-step"}
  BY DEF Boundaries
<1> DEFINE q == inbox["next-turn"]
           k == Prompts(b)
           h == SubSeq(q, 1, k)
           r == SubSeq(q, k + 1, Len(q))
           x == inbox["next-step"]
           rest == ClaimRest(b)
           c == ClaimBatch(b)
<1>1. /\ q \in Seq(Messages) /\ Injective(q) /\ x \in Seq(Messages) /\ Injective(x)
      /\ Range(q) \cap Range(x) = {} /\ Holds(inbox) = Range(q) \cup Range(x)
  BY <1>0 DEF Boxes, Distinct, Holds
<1>2. k \in 0..Len(q)
  BY <1>1 DEF Prompts
<1>3. rest \in Boxes /\ rest["next-turn"] = r /\ rest["next-step"] = <<>> /\ c = x \o h
  <2>1. r \in Seq(Messages)
    BY <1>1, <1>2, SplitList
  <2> HIDE DEF r
  <2>2. ClaimRest(b) = [inbox EXCEPT !["next-step"] = <<>>, !["next-turn"] = r]
    BY DEF ClaimRest, r
  <2> DEFINE y == [inbox EXCEPT !["next-step"] = <<>>]
  <2>a. <<>> \in Seq(Messages)
    OBVIOUS
  <2>b. y \in [Boundaries -> Seq(Messages)] /\ y["next-step"] = <<>>
    BY <1>0, <2>a DEF Boxes
  <2>c. rest = [y EXCEPT !["next-turn"] = r]
    BY <2>2
  <2> HIDE DEF y, rest
  <2>3. rest \in Boxes /\ rest["next-turn"] = r /\ rest["next-step"] = <<>>
    BY <1>0, <2>1, <2>b, <2>c DEF Boxes
  <2> QED BY <2>3 DEF ClaimBatch
<1> HIDE DEF q, k, x, rest, c
<1>4. /\ h \in Seq(Messages) /\ Range(h) \subseteq Range(q) /\ Injective(h)
      /\ Range(r) \subseteq Range(q) /\ Range(h) \cap Range(r) = {}
  BY <1>1, <1>2, SplitList
<1> HIDE DEF h, r
<1>5. Range(<<>>) = {}
  BY DEF Range
<1>6. Holds(rest) = Range(r)
  BY <1>3, <1>5 DEF Holds
<1>7. c \in Seq(Messages) /\ Range(c) = Range(x) \cup Range(h) /\ Injective(c)
  <2>1. Range(x) \cap Range(h) = {}
    BY <1>1, <1>4
  <2> QED BY <1>1, <1>3, <1>4, <2>1, ConcatLists
<1> QED BY <1>1, <1>3, <1>4, <1>6, <1>7 DEF rest, c

\* A cancel that drops the queue.
LEMMA ClearIsSound ==
  ASSUME inbox \in Boxes,
         NEW l, NEW s \in Nat, Sound(l, s), Replay(l) = inbox,
         NEW o, NEW st, NEW nt, NEW ns, Stands(l, o, st, nt, ns)
  PROVE  /\ ClearSplices \in Seq(Events)
         /\ Sound(l \o ClearSplices, s)
         /\ Stands(l \o ClearSplices, o, st, nt, ns)
         /\ Replay(l \o ClearSplices) = EmptyInbox
         /\ Heard(l \o ClearSplices) = Heard(l)
<1>0. "next-turn" \in Boundaries /\ "next-step" \in Boundaries /\ Boundaries = {"next-turn", "next-step"}
  BY DEF Boundaries
<1> DEFINE n == Len(inbox["next-step"])
           k == Len(inbox["next-turn"])
           d1 == Deletion("next-step", n, "canceled")
           d2 == Deletion("next-turn", k, "canceled")
           l1 == l \o d1
           box1 == [inbox EXCEPT !["next-step"] = <<>>]
<1>1. PICK p \in Nat : PromptCount(l) = Counted(o, p)
  BY DEF Stands
<1>3. inbox["next-step"] \in Seq(Messages) /\ inbox["next-turn"] \in Seq(Messages)
      /\ n \in Nat /\ k \in Nat
  BY <1>0 DEF Boxes
<1>4. /\ SubSeq(inbox["next-step"], n + 1, n) = <<>>
      /\ SubSeq(inbox["next-turn"], k + 1, k) = <<>>
  BY <1>3, SplitList
<1>a. n \in 0..Len(Replay(l)["next-step"])
  BY <1>3
<1> HIDE DEF n
<1>5. /\ d1 \in Seq(Events) /\ Sound(l1, s) /\ Stands(l1, o, st, nt, ns)
      /\ Replay(l1) = [Replay(l) EXCEPT !["next-step"] =
                         SubSeq(Replay(l)["next-step"], n + 1, Len(Replay(l)["next-step"]))]
      /\ Heard(l1) = Heard(l) /\ PromptCount(l1) = Counted(o, p)
  BY <1>0, <1>1, <1>a, DeletionIsSound
<1>6. Replay(l1) = box1
  BY <1>4, <1>5 DEF n
<1>7. box1["next-turn"] = inbox["next-turn"]
  BY <1>0 DEF Boxes
<1> HIDE DEF d1, l1, box1
<1>9. k \in 0..Len(Replay(l1)["next-turn"])
  BY <1>3, <1>6, <1>7
<1> HIDE DEF k
<1>10. /\ d2 \in Seq(Events) /\ Sound(l1 \o d2, s) /\ Stands(l1 \o d2, o, st, nt, ns)
       /\ Replay(l1 \o d2) = [Replay(l1) EXCEPT !["next-turn"] =
              SubSeq(Replay(l1)["next-turn"], k + 1, Len(Replay(l1)["next-turn"]))]
       /\ Heard(l1 \o d2) = Heard(l1)
  <2>1. Sound(l1, s) /\ Stands(l1, o, st, nt, ns) /\ PromptCount(l1) = Counted(o, p)
    BY <1>5
  <2> HIDE DEF d2
  <2>2. d2 = Deletion("next-turn", k, "canceled")
    BY DEF d2
  <2> QED BY <1>0, <1>9, <2>1, <2>2, DeletionIsSound
<1>11. Replay(l1 \o d2) = EmptyInbox
  BY <1>0, <1>4, <1>6, <1>7, <1>10 DEF Boxes, EmptyInbox, box1, k
<1> HIDE DEF d2
<1>12. ClearSplices = d1 \o d2 /\ ClearSplices \in Seq(Events)
  BY <1>5, <1>10 DEF ClearSplices, d1, d2, n, k
<1>13. l \o ClearSplices = l1 \o d2
  <2>1. l \in Seq(Events) /\ d1 \in Seq(Events) /\ d2 \in Seq(Events)
    BY <1>5, <1>10, SoundIsGood
  <2>2. l \o (d1 \o d2) = (l \o d1) \o d2
    BY <2>1, Associates
  <2> QED BY <1>12, <2>2 DEF l1
<1> QED BY <1>5, <1>10, <1>11, <1>12, <1>13

\* A batch of messages that are new to the transcript and no longer queued.
LEMMA BatchIsSound ==
  ASSUME NEW l, NEW s \in Nat, s <= MaxMessages, Sound(l, s),
         NEW o, NEW st, NEW nt, NEW ns, Stands(l, o, st, nt, ns),
         NEW batch \in Seq(Messages \cup {0}),
         \A i \in DOMAIN batch :
            batch[i] = 0 \/ batch[i] \in (1..s) \ (Heard(l) \cup Holds(Replay(l))),
         \A i, j \in DOMAIN batch : batch[i] = batch[j] /\ batch[i] # 0 => i = j
  PROVE  /\ UserMessages(batch) \in Seq(Events)
         /\ Sound(l \o UserMessages(batch), s)
         /\ Stands(l \o UserMessages(batch), o, st, nt, ns)
         /\ Replay(l \o UserMessages(batch)) = Replay(l)
<1> DEFINE n == Len(batch)
           um == UserMessages(batch)
           upTo(k) == l \o SubSeq(um, 1, k)
           Fits(k) == /\ Sound(upTo(k), s) /\ Stands(upTo(k), o, st, nt, ns)
                      /\ Replay(upTo(k)) = Replay(l)
                      /\ \A m \in Heard(upTo(k)) : m \in Heard(l) \/ \E i \in 1..k : batch[i] = m
           T == {k \in Nat : k <= n => Fits(k)}
<1>1. l \in Seq(Events) /\ DOMAIN batch = 1..n /\ n \in Nat
  BY SoundIsGood
<1>2. um \in Seq(Events) /\ Len(um) = n /\ \A i \in 1..n : /\ um[i] \in Inputs
                                                          /\ um[i].message = batch[i]
  <2>1. um = [i \in 1..n |-> [type |-> "user/message", message |-> batch[i]]]
    BY <1>1 DEF UserMessages
  <2>2. \A i \in 1..n : batch[i] \in Messages \cup {0}
    BY <1>1
  <2> HIDE DEF n, um
  <2>3. \A i \in 1..n : um[i] \in Inputs /\ um[i].message = batch[i]
    BY <2>1, <2>2 DEF Inputs
  <2>4. um \in [1..n -> Events]
    BY <2>1, <2>3 DEF Events
  <2> QED BY <1>1, <2>3, <2>4, Traces!IsASeq
<1> HIDE DEF um, n
<1>3. 0 \in T
  <2>1. upTo(0) = l
    BY <1>1, <1>2
  <2> HIDE DEF upTo
  <2>2. Fits(0)
    BY <2>1
  <2> QED BY <2>2
<1>4. ASSUME NEW k \in Nat, k \in T PROVE k + 1 \in T
  <2> SUFFICES ASSUME k + 1 <= n PROVE Fits(k + 1)
    OBVIOUS
  <2> DEFINE next == k + 1
             e == um[next]
             a == upTo(k)
             b == upTo(next)
  <2>0. next \in 1..n /\ k <= n /\ next \in DOMAIN batch /\ next \in Nat /\ k < next
    BY <1>1
  <2>1. Fits(k)
    BY <1>4, <2>0
  <2>2. e \in Inputs /\ e.message = batch[next]
    BY <1>2, <2>0
  <2>3. SubSeq(um, 1, next) = Append(SubSeq(um, 1, k), um[next]) /\ SubSeq(um, 1, k) \in Seq(Events)
    BY <1>2, <2>0
  <2>4. e \in Events
    BY <2>2 DEF Events
  <2>5. b = Append(a, e)
    <3> DEFINE x == SubSeq(um, 1, k)
    <3>1. x \in Seq(Events) /\ b = l \o Append(x, e)
      BY <2>3
    <3> HIDE DEF x, b, e
    <3>2. l \o Append(x, e) = Append(l \o x, e)
      BY <1>1, <2>4, <3>1
    <3> QED BY <3>1, <3>2 DEF x
  <2>6. /\ Sound(a, s) /\ Stands(a, o, st, nt, ns) /\ Replay(a) = Replay(l)
        /\ \A m \in Heard(a) : m \in Heard(l) \/ \E i \in 1..k : batch[i] = m
    BY <2>1
  <2> HIDE DEF next, e, a, b, Fits, T, upTo
  <2>7. a \in Seq(Events)
    BY <2>6, SoundIsGood
  <2>8. Stands(b, o, st, nt, ns)
    BY <2>2, <2>5, <2>6, <2>7, InputStands
  <2>9. e.message = 0 \/ e.message \in (1..s) \ (Heard(a) \cup Holds(Replay(a)))
    <3> SUFFICES ASSUME batch[next] # 0
                 PROVE  batch[next] \in (1..s) \ (Heard(a) \cup Holds(Replay(a)))
      BY <2>2
    <3>1. batch[next] \in (1..s) \ (Heard(l) \cup Holds(Replay(l)))
      BY <2>0
    <3>2. ASSUME NEW i \in 1..k PROVE batch[i] # batch[next]
      <4>1. i \in DOMAIN batch /\ i # next
        BY <1>1, <2>0 DEF next
      <4> QED BY <2>0, <4>1
    <3> QED BY <2>6, <3>1, <3>2
  <2>10. Sound(Append(a, e), s) /\ Replay(Append(a, e)) = Replay(a)
         /\ Heard(Append(a, e)) = Heard(a) \cup ({e.message} \cap Messages)
    BY <2>2, <2>5, <2>6, <2>8, <2>9, InputIsSound
  <2>11. ASSUME NEW m \in Heard(b) PROVE m \in Heard(l) \/ \E i \in 1..next : batch[i] = m
    <3>1. m \in Heard(a) \/ m = batch[next]
      BY <2>2, <2>5, <2>10
    <3>2. next \in 1..next /\ \A i \in 1..k : i \in 1..next
      BY <2>0 DEF next
    <3> QED BY <2>6, <3>1, <3>2
  <2>12. Sound(b, s) /\ Replay(b) = Replay(l)
    BY <2>5, <2>6, <2>10
  <2> QED BY <2>8, <2>11, <2>12 DEF Fits, b, next
<1> HIDE DEF T
<1>5. \A k \in Nat : k \in T
  BY <1>3, <1>4, Traces!NatSetInduction
<1>6. Fits(n)
  BY <1>1, <1>5 DEF T
<1>7. upTo(n) = l \o um
  <2>1. SubSeq(um, 1, n) = um
    BY <1>1, <1>2
  <2> QED BY <2>1
<1> HIDE DEF upTo
<1> QED BY <1>2, <1>6, <1>7 DEF um

\* Two sequences of one element.
LEMMA Pair ==
  ASSUME NEW S, NEW x \in S, NEW y \in S
  PROVE  <<x>> \o <<y>> = <<x, y>>
<1> DEFINE a == <<x>>
           b == <<y>>
           c == <<x, y>>
           d == a \o b
<1>1. /\ a \in Seq(S) /\ Len(a) = 1 /\ a[1] = x
      /\ b \in Seq(S) /\ Len(b) = 1 /\ b[1] = y
      /\ c \in Seq(S) /\ Len(c) = 2 /\ c[1] = x /\ c[2] = y
  OBVIOUS
<1> HIDE DEF a, b, c
<1>2. d \in Seq(S) /\ Len(d) = 2 /\ d[1] = x /\ d[2] = y
  <2>1. d \in Seq(S)
    BY <1>1
  <2>2. /\ Len(d) = Len(a) + Len(b)
        /\ \A i \in 1..Len(a) + Len(b) : d[i] = IF i <= Len(a) THEN a[i] ELSE b[i - Len(a)]
    BY <1>1, Traces!ConcatProperties
  <2> HIDE DEF d
  <2>3. Len(d) = 2
    BY <1>1, <2>2
  <2>4. d[1] = x /\ d[2] = y
    BY <1>1, <2>2
  <2> QED BY <2>1, <2>3, <2>4
<1> HIDE DEF d
<1>3. \A i \in 1..Len(d) : d[i] = c[i]
  BY <1>1, <1>2
<1>4. d = c
  BY <1>1, <1>2, <1>3, Traces!SeqEqual
<1> QED BY <1>4 DEF a, b, c, d

\* What the repair of a log that stands in turn o and step st appends.
LEMMA ClosersAre ==
  ASSUME NEW l, NEW o, NEW st, ScanOf(l) = [turn |-> o, step |-> st, calls |-> <<>>]
  PROVE  /\ o = 0 => Closers(l) = <<>>
         /\ o # 0 /\ st = 0 =>
              Closers(l) = <<[type |-> "turn/end", turn |-> o, reason |-> "interrupted"]>>
         /\ o # 0 /\ st # 0 =>
              Closers(l) = <<[type |-> "step/end", turn |-> o, step |-> st],
                             [type |-> "turn/end", turn |-> o, reason |-> "interrupted"]>>
<1> DEFINE s == ScanOf(l)
           made == [i \in DOMAIN s.calls |->
                      [type |-> "tool/result", turn |-> s.turn, step |-> s.calls[i].step,
                       call |-> s.calls[i].call,
                       outcome |-> IF s.calls[i].logged THEN "unknown" ELSE "not-started"]]
           stepEnd == [type |-> "step/end", turn |-> s.turn, step |-> s.step]
           turnEnd == [type |-> "turn/end", turn |-> s.turn, reason |-> "interrupted"]
<1>1. s.turn = o /\ s.step = st /\ s.calls = <<>>
  OBVIOUS
<1>2. made = <<>>
  BY <1>1
<1>3. ASSUME o # 0, st = 0
      PROVE  Closers(l) = <<[type |-> "turn/end", turn |-> o, reason |-> "interrupted"]>>
  <2>1. Closers(l) = made \o <<>> \o <<turnEnd>>
    BY <1>1, <1>3 DEF Closers
  <2>2. <<>> \o <<>> \o <<turnEnd>> = <<turnEnd>>
    OBVIOUS
  <2> QED BY <1>1, <1>2, <2>1, <2>2
<1>4. ASSUME o # 0, st # 0
      PROVE  Closers(l) = <<[type |-> "step/end", turn |-> o, step |-> st],
                            [type |-> "turn/end", turn |-> o, reason |-> "interrupted"]>>
  <2>1. Closers(l) = made \o <<stepEnd>> \o <<turnEnd>>
    BY <1>1, <1>4 DEF Closers
  <2>2. ASSUME NEW x, NEW y PROVE <<>> \o <<x>> \o <<y>> = <<x, y>>
    <3>1. <<>> \o <<x>> = <<x>>
      OBVIOUS
    <3>2. <<x>> \o <<y>> = <<x, y>>
      <4>1. x \in {x, y} /\ y \in {x, y}
        OBVIOUS
      <4> QED BY <4>1, Pair
    <3> QED BY <3>1, <3>2
  <2> QED BY <1>1, <1>2, <2>1, <2>2
<1>5. o = 0 => Closers(l) = <<>>
  BY <1>1 DEF Closers
<1> QED BY <1>3, <1>4, <1>5

\* The repair closes the open step and turn, and changes nothing else.
LEMMA RepairedIsSound ==
  ASSUME NEW l, NEW s \in Nat, Sound(l, s)
  PROVE  /\ Sound(Repaired(l), s) /\ Replay(Repaired(l)) = Replay(l)
         /\ \E nt, ns : Stands(Repaired(l), 0, 0, nt, ns)
<1> DEFINE t == TraceOf(l)
           o == t.openTurn
           st == t.openStep
           nt == t.nextTurn
           ns == t.nextStep
           stepEnd == [type |-> "step/end", turn |-> o, step |-> st]
           turnEnd == [type |-> "turn/end", turn |-> o, reason |-> "interrupted"]
<1>1. l \in Seq(Events) /\ Stands(l, o, st, nt, ns)
  BY SoundIsGood DEF Good
<1> HIDE DEF t, o, st, nt, ns
<1>2. /\ nt \in Nat \ {0} /\ ns \in Nat \ {0} /\ o \in {0, nt} /\ st \in {0, ns}
      /\ st # 0 => o # 0
      /\ ScanOf(l) = [turn |-> o, step |-> st, calls |-> <<>>]
  BY <1>1 DEF Stands
<1>3. stepEnd \in StepEnds /\ turnEnd \in TurnEnds /\ stepEnd \in Events /\ turnEnd \in Events
  BY <1>2 DEF StepEnds, TurnEnds, Events
<1>4. CASE o = 0
  <2>1. Repaired(l) = l /\ st = 0
    BY <1>1, <1>2, <1>4, ClosersAre DEF Repaired
  <2> QED BY <1>1, <1>4, <2>1
<1>5. CASE o # 0 /\ st = 0
  <2>1. Repaired(l) = Append(l, turnEnd)
    <3>1. Closers(l) = <<turnEnd>>
      BY <1>2, <1>5, ClosersAre
    <3> HIDE DEF turnEnd
    <3>2. l \o <<turnEnd>> = Append(l, turnEnd)
      BY <1>1, <1>3
    <3> QED BY <3>1, <3>2 DEF Repaired
  <2>2. o = nt /\ turnEnd.turn = o /\ Stands(l, o, 0, o, ns)
    BY <1>1, <1>2, <1>5
  <2> HIDE DEF turnEnd
  <2>3. Stands(Append(l, turnEnd), 0, 0, o + 1, ns)
    BY <1>1, <1>3, <1>5, <2>2, TurnEndStands
  <2>4. Sound(Append(l, turnEnd), s) /\ Replay(Append(l, turnEnd)) = Replay(l)
    BY <1>3, <2>3, BoundaryIsSound
  <2> QED BY <2>1, <2>3, <2>4
<1>6. CASE o # 0 /\ st # 0
  <2> DEFINE l1 == Append(l, stepEnd)
             l2 == Append(l1, turnEnd)
  <2>1. Repaired(l) = l2
    <3>1. Closers(l) = <<stepEnd, turnEnd>>
      BY <1>2, <1>6, ClosersAre
    <3> HIDE DEF stepEnd, turnEnd
    <3>2. l \o <<stepEnd, turnEnd>> = l2
      BY <1>1, <1>3
    <3> QED BY <3>1, <3>2 DEF Repaired
  <2>2. /\ o = nt /\ st = ns /\ turnEnd.turn = o /\ stepEnd.turn = o /\ stepEnd.step = st
        /\ Stands(l, o, st, o, st)
    BY <1>1, <1>2, <1>6
  <2> HIDE DEF stepEnd, turnEnd, l2
  <2>3. Stands(l1, o, 0, o, st + 1)
    BY <1>1, <1>3, <1>6, <2>2, StepEndStands
  <2>4. Sound(l1, s) /\ Replay(l1) = Replay(l)
    BY <1>3, <2>3, BoundaryIsSound
  <2> HIDE DEF l1
  <2>5. l1 \in Seq(Events)
    BY <2>4, SoundIsGood
  <2> DEFINE next == st + 1
  <2> HIDE DEF next
  <2>6. Stands(Append(l1, turnEnd), 0, 0, o + 1, next)
    BY <1>3, <1>6, <2>2, <2>3, <2>5, TurnEndStands DEF next
  <2>7. Sound(Append(l1, turnEnd), s) /\ Replay(Append(l1, turnEnd)) = Replay(l1)
    BY <1>3, <2>4, <2>6, BoundaryIsSound
  <2> QED BY <2>1, <2>4, <2>6, <2>7 DEF l2
<1> QED BY <1>4, <1>5, <1>6

-----------------------------------------------------------------------------
(* Every action keeps the inductive invariant. *)

\* A log that is sound stands somewhere, and its trace says where.
LEMMA StandsSomewhere ==
  ASSUME NEW l, NEW s, Sound(l, s)
  PROVE  \E o, st, nt, ns : Stands(l, o, st, nt, ns)
  BY SoundIsGood DEF Good

\* The numbers that a standing log has.
LEMMA TraceOfStanding ==
  ASSUME NEW l, NEW o, NEW st, NEW nt, NEW ns, Stands(l, o, st, nt, ns)
  PROVE  /\ TraceOf(l).openTurn = o /\ TraceOf(l).openStep = st /\ TraceOf(l).nextTurn = nt
         /\ nt \in Nat \ {0} /\ ns \in Nat \ {0} /\ o \in {0, nt} /\ st \in {0, ns}
         /\ LastTurn(l) = IF o = 0 THEN nt - 1 ELSE nt
  BY DEF Stands, Bounds

\* Outside a turn the log is closed.
LEMMA BetweenTurns ==
  ASSUME IInv, pc \notin {"preStep", "step", "stopping"}
  PROVE  \E ns : Stands(log, 0, 0, turn + 1, ns)
<1>1. PICK o, st, nt, ns : Stands(log, o, st, nt, ns)
  BY StandsSomewhere DEF IInv, LogFits
<1>2. o = 0 /\ st = 0 /\ nt = turn + 1
  BY <1>1, TraceOfStanding DEF IInv, LogFits
<1> QED BY <1>1, <1>2

\* The facts of the invariant about the log and the inbox.
LEMMA InboxFacts ==
  ASSUME IInv
  PROVE  /\ Sound(log, sent) /\ Replay(log) = inbox /\ log \in Seq(Events) /\ Len(log) \in Nat
         /\ inbox \in Boxes /\ Distinct(inbox) /\ Pending = Holds(inbox)
         /\ Holds(inbox) \subseteq 1..sent /\ Heard(log) \subseteq 1..sent
         /\ Heard(log) \cap Holds(inbox) = {}
         /\ sent \in Nat /\ sent <= MaxMessages /\ turn \in Nat /\ step \in Nat
         /\ 1..sent \subseteq Messages /\ Pending \subseteq Messages
<1>1. Sound(log, sent) /\ Replay(log) = inbox
  BY DEF IInv, LogFits
<1>2. Good(log, sent) /\ log \in Seq(Events) /\ Len(log) \in Nat
  BY <1>1, SoundIsGood
<1>3. sent \in Nat /\ sent <= MaxMessages /\ turn \in Nat /\ step \in Nat
  BY DriverAssumption DEF IInv, TypeOK
<1>4. 1..sent \subseteq Messages
  BY <1>3, DriverAssumption DEF Messages
<1>5. Pending = Holds(inbox)
  BY DEF Pending, Holds
<1> QED BY <1>1, <1>2, <1>3, <1>4, <1>5 DEF Good

Open == {"preStep", "step", "stopping"}

\* An action that leaves the log and the inbox alone and moves the driver, if at
\* all, between positions outside of turns.
LEMMA LogKept ==
  ASSUME IInv, UNCHANGED <<log, inbox, sent, turn, claimed>>,
         \/ pc' = pc /\ step' = step
         \/ /\ pc \notin Open /\ pc' \notin Open
            /\ pc' \in {"start", "between"} => step' = 0
  PROVE  /\ LogFits' /\ ClaimFits' /\ Pending' = Pending
<1>1. CASE pc' = pc /\ step' = step
  BY <1>1 DEF IInv, LogFits, ClaimFits, Pending
<1>2. CASE /\ pc \notin Open /\ pc' \notin Open
           /\ pc' \in {"start", "between"} => step' = 0
  BY <1>2 DEF IInv, LogFits, ClaimFits, Pending, Open
<1> QED BY <1>1, <1>2

\* An action that only splices the inbox.
LEMMA LogSpliced ==
  ASSUME IInv, UNCHANGED <<pc, turn, step, claimed>>,
         sent' \in Nat, sent <= sent', Sound(log', sent'), Replay(log') = inbox',
         Heard(log') = Heard(log), Holds(inbox') \cap Range(claimed) = {},
         \A o, st, nt, ns : Stands(log, o, st, nt, ns) => Stands(log', o, st, nt, ns)
  PROVE  LogFits' /\ ClaimFits'
<1> DEFINE l == log'
           n == sent'
<1>1. LogFits'
  <2>1. ASSUME pc \notin Open
        PROVE  TraceOf(l).openTurn = 0 /\ TraceOf(l).openStep = 0 /\ TraceOf(l).nextTurn = turn + 1
    <3>1. PICK ns : Stands(log, 0, 0, turn + 1, ns)
      BY <2>1, BetweenTurns DEF Open
    <3>2. Stands(l, 0, 0, turn + 1, ns)
      BY <3>1
    <3> HIDE DEF l
    <3> QED BY <3>2, TraceOfStanding
  <2> QED BY <2>1 DEF IInv, LogFits, Open
<1>2. ClaimFits'
  <2>1. 1..sent \subseteq 1..n
    BY InboxFacts
  <2>2. Pending' = Holds(inbox')
    BY DEF Pending, Holds
  <2> QED BY <2>1, <2>2 DEF IInv, ClaimFits
<1> QED BY <1>1, <1>2

\* Whoever has to look at the queue still does when the action only takes from it
\* or parks what it queues.
LEMMA OwedKept ==
  ASSUME IInv, UNCHANGED <<phase, pc, signal, wake, waking, replay>>, Owed' \subseteq Owed
  PROVE  OwedFits'
  BY DEF IInv, OwedFits

\* A message is inserted into the inbox.
LEMMA SendStep ==
  ASSUME IInv, NEW b \in Boundaries, NEW wakeup \in BOOLEAN, Send(b, wakeup)
  PROVE  IInv'
<1> DEFINE m == sent + 1
           afterAbort == wakeup /\ phase # "idle" /\ signal # "live"
           to == IF afterAbort THEN "next-turn" ELSE b
           box == [inbox EXCEPT ![to] = Append(@, m)]
           e == Splice(to, Len(inbox[to]), 0, <<m>>, "inserted")
<1>1. /\ waking = "none" /\ sent < MaxMessages
      /\ sent' = m /\ log' = Append(log, e) /\ inbox' = box
      /\ waking' = IF ~wakeup THEN "none" ELSE IF afterAbort THEN "afterAbort" ELSE "plain"
      /\ parked' = IF wakeup THEN parked ELSE parked \cup {m}
      /\ UNCHANGED <<phase, pc, signal, wake, turn, step, target, claimed, ends, replay, disposal,
                     crashes>>
  BY DEF Send, driver
<1>2. to \in Boundaries
  BY DEF Boundaries
<1> HIDE DEF to
<1>3. m \in Messages /\ m \notin Holds(inbox) /\ m \notin Heard(log) /\ m \notin 1..sent
  BY <1>1, InboxFacts, DriverAssumption DEF Messages
<1>4. m \in Nat /\ sent <= m /\ m \in 0..MaxMessages /\ m \in 1..m /\ 1..sent \subseteq 1..m
  BY <1>1, InboxFacts, DriverAssumption
<1>5. e \in Splices /\ ~IsClaim(e) /\ e \in Events
  <2>1. Len(inbox[to]) \in Nat
    BY <1>2, InboxFacts DEF Boxes
  <2>2. <<m>> \in Inserted
    BY <1>3 DEF Inserted
  <2> QED BY <1>2, <2>1, <2>2 DEF Splice, Splices, IsClaim, Events
<1> HIDE DEF m
<1>6. box \in Boxes /\ Distinct(box) /\ Holds(box) = Holds(inbox) \cup {m}
      /\ ReplayEvent(inbox, e) = box
  BY <1>2, <1>3, InboxFacts, InsertBox
<1> HIDE DEF e, box
<1>7. ASSUME NEW o, NEW st, NEW nt, NEW ns, Stands(log, o, st, nt, ns)
      PROVE  Stands(Append(log, e), o, st, nt, ns)
  <2>1. PICK p \in Nat : PromptCount(log) = Counted(o, p)
    BY <1>7 DEF Stands
  <2> QED BY <1>5, <1>7, <2>1, InboxFacts, SpliceStands
<1>8. /\ Sound(Append(log, e), m) /\ Replay(Append(log, e)) = box
      /\ Heard(Append(log, e)) = Heard(log)
  <2>1. PICK o, st, nt, ns : Stands(log, o, st, nt, ns)
    BY InboxFacts, StandsSomewhere
  <2>2. Stands(Append(log, e), o, st, nt, ns)
    BY <1>7, <2>1
  <2>3. ReplayEvent(Replay(log), e) = box /\ Holds(box) \subseteq 1..m /\ Heard(log) \cap Holds(box) = {}
        /\ Sound(log, sent) /\ sent \in Nat
    BY <1>3, <1>4, <1>6, InboxFacts
  <2> QED BY <1>4, <1>5, <1>6, <2>2, <2>3, SpliceIsSound
<1>9. Holds(inbox') \cap Range(claimed) = {}
  BY <1>1, <1>3, <1>6, InboxFacts DEF IInv, ClaimFits
<1>10. LogFits' /\ ClaimFits'
  BY <1>1, <1>4, <1>7, <1>8, <1>9, LogSpliced
<1>11. TypeOK'
  BY <1>1, <1>3, <1>4, <1>6 DEF IInv, TypeOK, Boxes
<1>12. OwedFits'
  <2>1. Pending' = Pending \cup {m}
    BY <1>1, <1>6, InboxFacts DEF Pending, Holds
  <2>2. CASE wakeup
    <3>1. pc = "exit" => phase = "running"
      BY DEF IInv, TypeOK, PcOf
    <3>2. pc = "exit" /\ signal = "live" => Overlooks # {}
      <4>1. pc = "exit" /\ signal = "live" => MissesLateSends
        BY <2>2 DEF Send
      <4> QED BY <4>1 DEF MissesLateSends
    <3>3. Overlooks = {} /\ pc' = "exit" => waking' = "afterAbort"
      BY <1>1, <2>2, <3>1, <3>2
    <3> QED BY <1>1, <2>2, <3>3 DEF IInv, OwedFits
  <2>3. CASE ~wakeup
    <3>1. Owed' \subseteq Owed
      BY <1>1, <2>1, <2>3 DEF Owed
    <3> QED BY <1>1, <2>3, <3>1, OwedKept
  <2> QED BY <2>2, <2>3
<1> QED BY <1>10, <1>11, <1>12 DEF IInv

\* The rest of send: the driver is woken, or the wake is latched.
LEMMA WakeStep ==
  ASSUME IInv, Wake
  PROVE  IInv'
<1>1. /\ waking # "none" /\ waking' = "none" /\ WakeDriver(waking = "afterAbort")
      /\ UNCHANGED <<inbox, sent, replay, disposal, log, crashes>>
  BY DEF Wake
<1>2. \/ /\ phase = "idle" /\ phase' = "running" /\ pc' = "start"
         /\ signal' = "live" /\ wake' = FALSE /\ step' = 0
         /\ UNCHANGED <<turn, target, claimed, ends, parked>>
      \/ /\ phase # "idle"
         /\ wake' = (wake \/ (signal # "disposed" /\ (phase = "maintenance" \/ waking = "afterAbort")))
         /\ UNCHANGED <<phase, pc, signal, turn, step, target, claimed, ends>>
         /\ parked' = IF signal = "disposed" THEN parked \cup Pending ELSE parked
  BY <1>1 DEF WakeDriver
<1>3. TypeOK /\ Pending \subseteq Messages
  BY InboxFacts DEF IInv
<1>4. TypeOK'
  <2>1. wake' \in BOOLEAN /\ parked' \subseteq Messages
    BY <1>2, <1>3 DEF TypeOK
  <2>2. CASE phase' = "running" /\ pc' = "start" /\ signal' = "live" /\ step' = 0
    BY <1>1, <1>2, <1>3, <2>1, <2>2 DEF TypeOK, PcOf
  <2>3. CASE phase # "idle" /\ UNCHANGED <<phase, pc, signal, step>>
    BY <1>1, <1>2, <1>3, <2>1, <2>3 DEF TypeOK
  <2> QED BY <1>2, <2>2, <2>3
<1>5. LogFits' /\ ClaimFits' /\ Pending' = Pending
  <2>1. phase = "idle" => pc \notin Open
    BY <1>3 DEF TypeOK, PcOf, Open
  <2>2. \/ pc' = pc /\ step' = step
        \/ /\ pc \notin Open /\ pc' \notin Open
           /\ pc' \in {"start", "between"} => step' = 0
    BY <1>2, <2>1 DEF Open
  <2> QED BY <1>1, <1>2, <2>2, LogKept
<1>6. OwedFits'
  <2>1. CASE phase = "idle"
    BY <1>1, <1>2, <2>1 DEF OwedFits
  <2>2. CASE phase # "idle" /\ signal = "disposed"
    <3>1. Owed' = {}
      BY <1>2, <1>5, <2>2 DEF Owed
    <3> QED BY <1>1, <3>1 DEF OwedFits
  <2>3. CASE phase # "idle" /\ signal # "disposed"
    <3>1. Owed' = Owed
      BY <1>2, <1>5, <2>3 DEF Owed
    <3>2. phase = "maintenance" \/ phase = "running"
      BY <1>3, <2>3 DEF TypeOK
    <3>3. waking = "plain" \/ waking = "afterAbort"
      BY <1>1, <1>3 DEF TypeOK
    <3> QED BY <1>1, <1>2, <2>3, <3>1, <3>2, <3>3 DEF IInv, OwedFits
  <2> QED BY <2>1, <2>2, <2>3
<1> QED BY <1>4, <1>5, <1>6 DEF IInv

\* The rest of a retirement: what was latched opens the next driver.
LEMMA ReplayWakeStep ==
  ASSUME IInv, ReplayWake
  PROVE  IInv'
<1>1. /\ replay /\ waking = "none" /\ replay' = FALSE
      /\ UNCHANGED <<inbox, sent, waking, disposal, log, crashes>>
      /\ \/ WakeDriver(FALSE)
         \/ Pending = {} /\ UNCHANGED <<driver, parked>>
  BY DEF ReplayWake, HasPending
<1>2. \/ /\ phase = "idle" /\ phase' = "running" /\ pc' = "start"
         /\ signal' = "live" /\ wake' = FALSE /\ step' = 0
         /\ UNCHANGED <<turn, target, claimed, ends, parked>>
      \/ /\ phase # "idle"
         /\ wake' = (wake \/ (signal # "disposed" /\ phase = "maintenance"))
         /\ UNCHANGED <<phase, pc, signal, turn, step, target, claimed, ends>>
         /\ parked' = IF signal = "disposed" THEN parked \cup Pending ELSE parked
      \/ /\ Pending = {}
         /\ UNCHANGED <<phase, pc, signal, wake, turn, step, target, claimed, ends, parked>>
  BY <1>1 DEF WakeDriver, driver
<1>3. TypeOK /\ Pending \subseteq Messages
  BY InboxFacts DEF IInv
<1>4. TypeOK'
  <2>1. wake' \in BOOLEAN /\ parked' \subseteq Messages
    BY <1>2, <1>3 DEF TypeOK
  <2>2. CASE phase' = "running" /\ pc' = "start" /\ signal' = "live" /\ step' = 0
    BY <1>1, <1>2, <1>3, <2>1, <2>2 DEF TypeOK, PcOf
  <2>3. CASE phase # "idle" /\ UNCHANGED <<phase, pc, signal, step>>
    BY <1>1, <1>2, <1>3, <2>1, <2>3 DEF TypeOK
  <2>4. CASE UNCHANGED <<phase, pc, signal, wake, step>>
    BY <1>1, <1>2, <1>3, <2>1, <2>4 DEF TypeOK
  <2> QED BY <1>2, <2>2, <2>3, <2>4
<1>5. LogFits' /\ ClaimFits' /\ Pending' = Pending
  <2>1. phase = "idle" => pc \notin Open
    BY <1>3 DEF TypeOK, PcOf, Open
  <2>2. \/ pc' = pc /\ step' = step
        \/ /\ pc \notin Open /\ pc' \notin Open
           /\ pc' \in {"start", "between"} => step' = 0
    BY <1>2, <2>1 DEF Open
  <2> QED BY <1>1, <1>2, <2>2, LogKept
<1>6. OwedFits'
  <2>0. CASE Pending = {}
    <3>1. Owed' = {}
      BY <1>5, <2>0 DEF Owed
    <3> QED BY <1>1, <3>1 DEF OwedFits
  <2>1. CASE phase = "idle" /\ Pending # {}
    BY <1>1, <1>2, <2>1 DEF OwedFits
  <2>2. CASE phase # "idle" /\ Pending # {} /\ signal = "disposed"
    <3>1. Owed' = {}
      BY <1>2, <1>5, <2>2 DEF Owed
    <3> QED BY <1>1, <3>1 DEF OwedFits
  <2>3. CASE phase # "idle" /\ Pending # {} /\ signal # "disposed"
    <3>1. Owed' = Owed
      BY <1>2, <1>5, <2>3 DEF Owed
    <3>2. phase = "maintenance" \/ phase = "running"
      BY <1>3, <2>3 DEF TypeOK
    <3> QED BY <1>1, <1>2, <2>3, <3>1, <3>2 DEF IInv, OwedFits
  <2> QED BY <2>0, <2>1, <2>2, <2>3
<1> QED BY <1>4, <1>5, <1>6 DEF IInv

\* A maintenance task begins.
LEMMA RunMaintenanceStep ==
  ASSUME IInv, RunMaintenance
  PROVE  IInv'
<1>1. /\ phase = "idle" /\ waking = "none"
      /\ phase' = "maintenance" /\ signal' = "live" /\ wake' = FALSE
      /\ UNCHANGED <<pc, turn, step, target, claimed, ends, inbox, sent, waking, replay, disposal,
                     log, parked, crashes>>
  BY DEF RunMaintenance
<1>2. TypeOK'
  BY <1>1 DEF IInv, TypeOK, PcOf
<1>3. LogFits' /\ ClaimFits' /\ Pending' = Pending
  BY <1>1, LogKept
<1>4. OwedFits'
  <2>1. Owed' = Owed
    BY <1>1, <1>3 DEF Owed
  <2> QED BY <1>1, <1>2, <2>1 DEF IInv, OwedFits, TypeOK, PcOf
<1> QED BY <1>2, <1>3, <1>4 DEF IInv

\* A maintenance task ends.
LEMMA EndMaintenanceStep ==
  ASSUME IInv, EndMaintenance
  PROVE  IInv'
<1>1. /\ phase = "maintenance" /\ waking = "none" /\ ~replay
      /\ signal' = "live" /\ wake' = FALSE
      /\ \/ phase' = "running" /\ pc' = "start" /\ step' = 0
         \/ ~(wake /\ Pending # {}) /\ phase' = "idle" /\ UNCHANGED <<pc, step>>
      /\ UNCHANGED <<turn, target, claimed, ends, inbox, sent, waking, replay, disposal, log,
                     parked, crashes>>
  BY DEF EndMaintenance, Quiet, HasPending
<1>2. TypeOK'
  <2>1. CASE phase' = "running" /\ pc' = "start" /\ step' = 0
    BY <1>1, <2>1 DEF IInv, TypeOK, PcOf
  <2>2. CASE phase' = "idle" /\ UNCHANGED <<pc, step>>
    BY <1>1, <2>2 DEF IInv, TypeOK, PcOf
  <2> QED BY <1>1, <2>1, <2>2
<1>3. LogFits' /\ ClaimFits' /\ Pending' = Pending
  <2>1. pc \notin Open
    BY <1>1 DEF IInv, TypeOK, PcOf, Open
  <2>2. \/ pc' = pc /\ step' = step
        \/ /\ pc \notin Open /\ pc' \notin Open
           /\ pc' \in {"start", "between"} => step' = 0
    BY <1>1, <2>1 DEF Open
  <2> QED BY <1>1, <2>2, LogKept
<1>4. OwedFits'
  <2>1. Owed' = Owed
    BY <1>1, <1>3 DEF Owed
  <2>2. CASE phase' = "running" /\ pc' = "start"
    BY <1>1, <2>2 DEF OwedFits
  <2>3. CASE phase' = "idle" /\ ~(wake /\ Pending # {}) /\ pc' = pc
    <3>1. Overlooks = {} => Owed = {}
      BY <1>1, <2>3 DEF IInv, OwedFits, Owed
    <3> QED BY <1>1, <2>1, <3>1 DEF OwedFits
  <2> QED BY <1>1, <2>2, <2>3
<1> QED BY <1>2, <1>3, <1>4 DEF IInv

\* A disposal has reached quiescence.
LEMMA FinishDisposeStep ==
  ASSUME IInv, FinishDispose
  PROVE  IInv'
<1>1. /\ disposal' = "done"
      /\ UNCHANGED <<phase, pc, signal, wake, turn, step, target, claimed, ends, inbox, sent, waking,
                     replay, log, parked, crashes>>
  BY DEF FinishDispose, driver
<1>2. TypeOK'
  BY <1>1 DEF IInv, TypeOK
<1>3. LogFits' /\ ClaimFits' /\ Pending' = Pending
  BY <1>1, LogKept
<1>4. OwedFits'
  BY <1>1, <1>3, OwedKept DEF Owed
<1> QED BY <1>2, <1>3, <1>4 DEF IInv

\* An aborted driver opens no turn.
LEMMA SkipTurnStep ==
  ASSUME IInv, SkipTurn
  PROVE  IInv'
<1>1. /\ pc \in {"start", "between"} /\ waking = "none" /\ signal # "live" /\ pc' = "exit"
      /\ UNCHANGED <<phase, signal, wake, turn, step, target, claimed, ends, inbox, log, parked,
                     sent, waking, replay, disposal, crashes>>
  BY DEF SkipTurn, Outside
<1>2. phase = "running"
  BY <1>1 DEF IInv, TypeOK, PcOf
<1>3. TypeOK'
  BY <1>1, <1>2 DEF IInv, TypeOK, PcOf
<1>4. LogFits' /\ ClaimFits' /\ Pending' = Pending
  BY <1>1, LogKept DEF Open
<1>5. OwedFits'
  <2>1. Owed' = Owed
    BY <1>1, <1>4 DEF Owed
  <2> QED BY <1>1, <1>2, <2>1 DEF IInv, OwedFits
<1> QED BY <1>3, <1>4, <1>5 DEF IInv

\* The driver publishes that it is idle.
LEMMA RetireStep ==
  ASSUME IInv, Retire
  PROVE  IInv'
<1>1. /\ pc = "exit" /\ waking = "none" /\ ~replay
      /\ phase' = "idle" /\ pc' = "none" /\ signal' = "live" /\ wake' = FALSE /\ replay' = wake
      /\ UNCHANGED <<turn, step, target, claimed, ends, inbox, sent, waking, disposal, log, parked,
                     crashes>>
  BY DEF Retire, Quiet
<1>2. TypeOK'
  BY <1>1 DEF IInv, TypeOK, PcOf
<1>3. LogFits' /\ ClaimFits' /\ Pending' = Pending
  BY <1>1, LogKept DEF Open
<1>4. OwedFits'
  <2>1. Owed' = Owed
    BY <1>1, <1>3 DEF Owed
  <2> QED BY <1>1, <2>1 DEF IInv, OwedFits
<1> QED BY <1>2, <1>3, <1>4 DEF IInv

\* A message is removed from the inbox.
LEMMA RemoveMessageStep ==
  ASSUME IInv, NEW m \in Messages, RemoveMessage(m)
  PROVE  IInv'
<1>0. PICK b \in Boundaries : \E i \in DOMAIN inbox[b] :
         /\ inbox[b][i] = m
         /\ inbox' = [inbox EXCEPT ![b] = RemoveAt(@, i)]
         /\ log' = Append(log, Splice(b, i - 1, 1, <<>>, "canceled"))
  BY DEF RemoveMessage
<1>1. PICK k \in DOMAIN inbox[b] :
         /\ inbox[b][k] = m
         /\ inbox' = [inbox EXCEPT ![b] = RemoveAt(@, k)]
         /\ log' = Append(log, Splice(b, k - 1, 1, <<>>, "canceled"))
  BY <1>0
<1>2. /\ parked' = parked \ {m}
      /\ UNCHANGED <<phase, pc, signal, wake, turn, step, target, claimed, ends, sent, waking, replay,
                     disposal, crashes>>
  BY DEF RemoveMessage, driver
<1> DEFINE q == inbox[b]
           r == RemoveAt(q, k)
           box == [inbox EXCEPT ![b] = r]
           e == Splice(b, k - 1, 1, <<>>, "canceled")
<1>3. q \in Seq(Messages) /\ Injective(q) /\ m \in Range(q) /\ k \in DOMAIN q /\ q[k] = m
  BY <1>1, InboxFacts DEF Boxes, Distinct, Range
<1>4. k - 1 \in Nat
  BY <1>3
<1>5. e \in Splices /\ ~IsClaim(e)
  BY <1>4 DEF Splice, Splices, IsClaim, Inserted
<1>6. ReplayEvent(inbox, e) = box
  BY <1>3, InboxFacts, RemoveBox
<1> HIDE DEF q, e
<1>7. /\ r \in Seq(Messages) /\ Range(r) \subseteq Range(q) /\ Injective(r) /\ m \notin Range(r)
  BY <1>3, RemoveFromList
<1> HIDE DEF r
<1>8. box \in Boxes /\ Distinct(box) /\ Holds(box) \subseteq Holds(inbox) /\ m \notin Holds(box)
  BY <1>3, <1>7, InboxFacts, ShrinkBox DEF q
<1>9. inbox' = box /\ log' = Append(log, e)
  BY <1>1 DEF box, e, r, q
<1> HIDE DEF box
<1>10. ASSUME NEW o, NEW st, NEW nt, NEW ns, Stands(log, o, st, nt, ns)
       PROVE  Stands(Append(log, e), o, st, nt, ns)
  <2>1. PICK p \in Nat : PromptCount(log) = Counted(o, p)
    BY <1>10 DEF Stands
  <2> QED BY <1>5, <1>10, <2>1, InboxFacts, SpliceStands
<1>11. /\ Sound(Append(log, e), sent) /\ Replay(Append(log, e)) = box
       /\ Heard(Append(log, e)) = Heard(log)
  <2>1. PICK o, st, nt, ns : Stands(log, o, st, nt, ns)
    BY InboxFacts, StandsSomewhere
  <2>2. Stands(Append(log, e), o, st, nt, ns)
    BY <1>10, <2>1
  <2>3. /\ ReplayEvent(Replay(log), e) = box /\ Holds(box) \subseteq 1..sent
        /\ Heard(log) \cap Holds(box) = {} /\ Sound(log, sent) /\ sent \in Nat /\ sent <= sent
    BY <1>6, <1>8, InboxFacts
  <2> QED BY <1>5, <1>8, <2>2, <2>3, SpliceIsSound
<1>12. Holds(inbox') \cap Range(claimed) = {}
  BY <1>8, <1>9, InboxFacts DEF IInv, ClaimFits
<1>13. LogFits' /\ ClaimFits'
  BY <1>2, <1>9, <1>10, <1>11, <1>12, InboxFacts, LogSpliced
<1>14. TypeOK'
  BY <1>2, <1>8, <1>9 DEF IInv, TypeOK, Boxes
<1>15. OwedFits'
  <2>1. Pending' \subseteq Pending /\ m \notin Pending'
    BY <1>8, <1>9, InboxFacts DEF Pending, Holds
  <2>2. Owed' \subseteq Owed
    BY <1>2, <2>1 DEF Owed
  <2> QED BY <1>2, <2>2, OwedKept
<1> QED BY <1>13, <1>14, <1>15 DEF IInv

\* Aborting the signal and parking what is kept, or dropping the queue.
LEMMA CancelStep ==
  ASSUME IInv, NEW cause \in {"user", "disposed"}, NEW keepInbox \in BOOLEAN,
         Cancel(cause, keepInbox), disposal' \in {"none", "waiting", "done"}
  PROVE  IInv'
<1>1. /\ signal' = IF phase # "idle" /\ signal = "live" THEN cause ELSE signal
      /\ UNCHANGED <<phase, pc, turn, step, target, claimed, ends, sent, waking, replay, crashes>>
  BY DEF Cancel
<1>2. TypeOK /\ Pending \subseteq Messages
  BY InboxFacts DEF IInv
<1>3. CASE keepInbox
  <2>1. /\ UNCHANGED <<inbox, log, wake>>
        /\ parked' = IF phase = "running" /\ signal = "live" THEN parked \cup Pending ELSE parked
    BY <1>3 DEF Cancel
  <2>2. TypeOK'
    BY <1>1, <1>2, <2>1 DEF TypeOK
  <2>3. LogFits' /\ ClaimFits' /\ Pending' = Pending
    BY <1>1, <2>1, LogKept
  <2>4. OwedFits'
    <3>1. CASE phase = "running" /\ signal = "live"
      <4>1. Owed' = {}
        BY <2>1, <2>3, <3>1 DEF Owed
      <4>2. waking = "afterAbort" => signal' # "live"
        BY <1>1, <3>1
      <4>3. Overlooks = {} => (pc = "exit" => waking # "plain")
        BY DEF IInv, OwedFits
      <4> QED BY <1>1, <3>1, <4>1, <4>2, <4>3 DEF OwedFits
    <3>2. CASE ~(phase = "running" /\ signal = "live")
      <4>1. Owed' = Owed
        BY <2>1, <2>3, <3>2 DEF Owed
      <4> QED BY <1>1, <1>2, <2>1, <3>2, <4>1 DEF IInv, OwedFits, TypeOK, PcOf
    <3> QED BY <3>1, <3>2
  <2> QED BY <2>2, <2>3, <2>4 DEF IInv
<1>4. CASE ~keepInbox
  <2>1. /\ inbox' = EmptyInbox /\ log' = log \o ClearSplices
        /\ wake' = (wake /\ phase = "idle") /\ parked' = {}
    BY <1>4 DEF Cancel
  <2>2. Range(<<>>) = {} /\ <<>> \in Seq(Messages)
    BY DEF Range
  <2>3. EmptyInbox \in Boxes /\ Holds(EmptyInbox) = {}
    BY <2>2 DEF EmptyInbox, Boxes, Holds, Boundaries
  <2>4. TypeOK'
    BY <1>1, <1>2, <2>1, <2>3 DEF TypeOK, Boxes
  <2>5. \A o, st, nt, ns : Stands(log, o, st, nt, ns) => Stands(log', o, st, nt, ns)
    BY <2>1, InboxFacts, ClearIsSound
  <2>6. /\ Sound(log', sent) /\ Replay(log') = inbox' /\ Heard(log') = Heard(log)
    <3>1. PICK o, st, nt, ns : Stands(log, o, st, nt, ns)
      BY InboxFacts, StandsSomewhere
    <3> QED BY <2>1, <3>1, InboxFacts, ClearIsSound
  <2>7. Holds(inbox') \cap Range(claimed) = {}
    BY <2>1, <2>3
  <2>8. LogFits' /\ ClaimFits'
    BY <1>1, <2>5, <2>6, <2>7, InboxFacts, LogSpliced
  <2>9. OwedFits'
    <3>1. Owed' = {}
      BY <2>1, <2>3 DEF Owed, Pending, Holds
    <3>2. waking = "afterAbort" => phase # "idle" /\ signal' # "live"
      BY <1>1 DEF IInv, OwedFits
    <3>3. Overlooks = {} => (pc = "exit" => waking # "plain")
      BY DEF IInv, OwedFits
    <3> QED BY <1>1, <3>1, <3>2, <3>3 DEF OwedFits
  <2> QED BY <2>4, <2>8, <2>9 DEF IInv
<1> QED BY <1>3, <1>4

\* A person cancels.
LEMMA UserCancelStep ==
  ASSUME IInv, NEW keepInbox \in BOOLEAN, UserCancel(keepInbox)
  PROVE  IInv'
<1>1. Cancel("user", keepInbox) /\ disposal' = disposal
  BY DEF UserCancel
<1>2. disposal' \in {"none", "waiting", "done"}
  BY <1>1 DEF IInv, TypeOK
<1> QED BY <1>1, <1>2, CancelStep

\* The owner of the agent disposes it.
LEMMA DisposeStep ==
  ASSUME IInv, Dispose
  PROVE  IInv'
<1>1. Cancel("disposed", FALSE) /\ disposal' = "waiting"
  BY DEF Dispose
<1> QED BY <1>1, CancelStep

Reasons == {"aborted", "error", "blocked", "completed", "max-tokens", "none", "interrupted"}

\* The driver claims a batch, when the log l stands before a step of its turn.
LEMMA ClaimKept ==
  ASSUME IInv, NEW l, NEW b \in Boundaries, NEW n, NEW k,
         Sound(l, sent), Replay(l) = inbox, Heard(l) = Heard(log),
         Stands(l, n, 0, n, k), b = "next-turn" => PromptCount(l) = Counted(n, 0),
         claimed' = ClaimBatch(b), inbox' = ClaimRest(b), log' = l \o ClaimSplices(b),
         turn' = n, step' + 1 = k, sent' = sent, pc' = "preStep"
  PROVE  /\ LogFits' /\ ClaimFits' /\ inbox' \in Boxes /\ claimed' \in Seq(Messages)
         /\ Pending' \subseteq Pending
<1>1. n # 0
  BY DEF Stands
<1>2. /\ Sound(log', sent) /\ Stands(log', n, 0, n, k) /\ Replay(log') = inbox'
      /\ Heard(log') = Heard(log)
  <2> DEFINE splices == ClaimSplices(b)
             rest == ClaimRest(b)
  <2>1. /\ Sound(l \o splices, sent) /\ Stands(l \o splices, n, 0, n, k)
        /\ Replay(l \o splices) = rest /\ Heard(l \o splices) = Heard(l)
    BY <1>1, InboxFacts, ClaimIsSound
  <2> HIDE DEF splices, rest
  <2> QED BY <2>1 DEF splices, rest
<1>3. /\ inbox' \in Boxes /\ Holds(inbox') \subseteq Holds(inbox)
      /\ claimed' \in Seq(Messages) /\ Injective(claimed')
      /\ Range(claimed') \subseteq Holds(inbox) /\ Range(claimed') \cap Holds(inbox') = {}
  BY InboxFacts, ClaimBatchLeaves
<1>4. Pending' = Holds(inbox')
  BY DEF Pending, Holds
<1>5. LogFits'
  BY <1>2 DEF LogFits
<1>6. ClaimFits'
  BY <1>2, <1>3, <1>4, InboxFacts DEF ClaimFits
<1> QED BY <1>3, <1>4, <1>5, <1>6, InboxFacts

\* The driver ends its turn.
LEMMA CloseKept ==
  ASSUME IInv, NEW l, NEW k, Sound(l, sent), Replay(l) = inbox, Heard(l) = Heard(log),
         Stands(l, turn, 0, turn, k), NEW reason \in Reasons,
         log' = l \o <<TurnEnd(reason)>>, claimed' = <<>>, UNCHANGED <<turn, inbox, sent>>,
         pc' \in {"exit", "between"}, pc' = "between" => step' = 0
  PROVE  LogFits' /\ ClaimFits' /\ Pending' = Pending
<1> DEFINE e == TurnEnd(reason)
<1>1. turn \in Nat /\ turn # 0 /\ l \in Seq(Events)
  BY SoundIsGood DEF Stands
<1>2. e \in TurnEnds /\ e.turn = turn /\ e \in Events
  BY <1>1 DEF TurnEnd, TurnEnds, Events, Reasons
<1> HIDE DEF e
<1>3. l \o <<e>> = Append(l, e)
  BY <1>1, <1>2
<1>4. Stands(Append(l, e), 0, 0, turn + 1, k)
  BY <1>1, <1>2, TurnEndStands
<1>5. /\ Sound(Append(l, e), sent) /\ Replay(Append(l, e)) = Replay(l)
      /\ Heard(Append(l, e)) = Heard(l)
  <2>1. e \in Starts \cup TurnEnds \cup StepStarts \cup StepEnds /\ sent \in Nat
    BY <1>2, InboxFacts
  <2> QED BY <1>4, <2>1, BoundaryIsSound
<1>6. log' = Append(l, e)
  BY <1>3 DEF e
<1>7. LogFits'
  <2> DEFINE all == Append(l, e)
  <2>1. TraceOf(all).openTurn = 0 /\ TraceOf(all).openStep = 0 /\ TraceOf(all).nextTurn = turn + 1
    BY <1>4, TraceOfStanding
  <2>2. Sound(all, sent) /\ Replay(all) = inbox /\ log' = all
    BY <1>5, <1>6
  <2> HIDE DEF all
  <2> QED BY <2>1, <2>2 DEF LogFits
<1>8. Range(<<>>) = {} /\ Injective(<<>>)
  BY DEF Range, Injective
<1>9. ClaimFits'
  BY <1>8 DEF ClaimFits
<1> QED BY <1>7, <1>9 DEF Pending

\* The step of the driver is closed in the log.
LEMMA StepEndKept ==
  ASSUME IInv, pc = "step"
  PROVE  /\ log \o <<StepEnd>> = Append(log, StepEnd)
         /\ Sound(Append(log, StepEnd), sent) /\ Replay(Append(log, StepEnd)) = inbox
         /\ Heard(Append(log, StepEnd)) = Heard(log)
         /\ Stands(Append(log, StepEnd), turn, 0, turn, step + 1)
<1> DEFINE e == StepEnd
<1>1. Stands(log, turn, step, turn, step) /\ step # 0 /\ turn \in Nat /\ step \in Nat
  BY DEF IInv, LogFits, Stands
<1>2. e \in StepEnds /\ e.turn = turn /\ e.step = step /\ e \in Events
  BY <1>1 DEF StepEnd, StepEnds, Events
<1> HIDE DEF e
<1>3. log \o <<e>> = Append(log, e)
  BY <1>2, InboxFacts
<1>4. Stands(Append(log, e), turn, 0, turn, step + 1)
  BY <1>1, <1>2, InboxFacts, StepEndStands
<1>5. /\ Sound(Append(log, e), sent) /\ Replay(Append(log, e)) = Replay(log)
      /\ Heard(Append(log, e)) = Heard(log)
  <2>1. e \in Starts \cup TurnEnds \cup StepStarts \cup StepEnds /\ sent \in Nat /\ Sound(log, sent)
    BY <1>2, InboxFacts
  <2> QED BY <1>4, <2>1, BoundaryIsSound
<1> QED BY <1>3, <1>4, <1>5, InboxFacts DEF e

\* A turn starts and claims its prompt.
LEMMA StartTurnStep ==
  ASSUME IInv, StartTurn
  PROVE  IInv'
<1> DEFINE n == turn + 1
           e == TurnStart(n)
           l == Append(log, e)
           b == "next-turn"
<1>1. /\ pc \in {"start", "between"} /\ waking = "none" /\ signal = "live"
      /\ turn' = n /\ ends' = "none" /\ target' = b /\ claimed' = ClaimBatch(b)
      /\ inbox' = ClaimRest(b) /\ log' = log \o <<e>> \o ClaimSplices(b)
      /\ parked' = parked \cap PendingAfter /\ pc' = "preStep"
      /\ UNCHANGED <<phase, signal, wake, step, sent, waking, replay, disposal, crashes>>
  BY DEF StartTurn, ProposeStep, Outside
<1>2. phase = "running" /\ step = 0
  BY <1>1 DEF IInv, TypeOK, PcOf, LogFits
<1>3. n \in Nat /\ e \in Starts /\ e.turn = n /\ e \in Events /\ b \in Boundaries
  BY InboxFacts DEF TurnStart, Starts, Events, Boundaries
<1>4. PICK ns : Stands(log, 0, 0, turn + 1, ns)
  BY <1>1, BetweenTurns
<1> HIDE DEF e, b
<1>5. log \o <<e>> = l
  BY <1>3, InboxFacts
<1>6. Stands(l, n, 0, n, 1) /\ PromptCount(l) = Counted(n, 0)
  BY <1>3, <1>4, InboxFacts, StartStands
<1>7. Sound(l, sent) /\ Replay(l) = inbox /\ Heard(l) = Heard(log)
  <2>1. e \in Starts \cup TurnEnds \cup StepStarts \cup StepEnds /\ sent \in Nat /\ Sound(log, sent)
    BY <1>3, InboxFacts
  <2>2. Replay(log) = inbox
    BY InboxFacts
  <2> QED BY <1>6, <2>1, <2>2, BoundaryIsSound
<1>8. step' + 1 = 1 /\ log' = l \o ClaimSplices(b)
  BY <1>1, <1>2, <1>5
<1> HIDE DEF n, l
<1>9. /\ LogFits' /\ ClaimFits' /\ inbox' \in Boxes /\ claimed' \in Seq(Messages)
      /\ Pending' \subseteq Pending
  BY <1>1, <1>3, <1>6, <1>7, <1>8, ClaimKept
<1>10. TypeOK'
  BY <1>1, <1>2, <1>3, <1>9 DEF IInv, TypeOK, PcOf, Boxes, b
<1>11. OwedFits'
  BY <1>1, <1>2 DEF OwedFits
<1> QED BY <1>9, <1>10, <1>11 DEF IInv

\* The four ways to leave a turn without a look at the queue.
LEMMA LeaveStep ==
  ASSUME IInv, pc \in Open, Quiet, NEW l, NEW k, Sound(l, sent), Replay(l) = inbox,
         Heard(l) = Heard(log), Stands(l, turn, 0, turn, k), NEW reason \in Reasons,
         log' = l \o <<TurnEnd(reason)>>,
         parked' = IF signal = "live" /\ reason \in {"error", "blocked"}
                   THEN parked \cup Pending ELSE parked,
         reason \notin {"error", "blocked"} /\ signal = "live" /\ Overlooks = {} =>
             Pending \subseteq parked,
         pc' = "exit", claimed' = <<>>,
         UNCHANGED <<phase, signal, wake, turn, step, target, ends, inbox, sent, waking, replay,
                     disposal, crashes>>
  PROVE  IInv'
<1>1. LogFits' /\ ClaimFits' /\ Pending' = Pending
  BY CloseKept
<1>2. phase = "running" /\ waking = "none"
  BY DEF IInv, TypeOK, PcOf, Open, Quiet
<1>3. TypeOK'
  BY <1>2, InboxFacts DEF IInv, TypeOK, PcOf
<1>4. OwedFits'
  <2>1. CASE signal = "live"
    <3>1. Overlooks = {} => Owed' = {}
      BY <1>1, <2>1 DEF Owed
    <3> QED BY <1>2, <3>1 DEF OwedFits
  <2>2. CASE signal # "live"
    <3>1. Owed' = Owed
      BY <1>1, <2>2 DEF Owed
    <3> QED BY <1>2, <2>2, <3>1 DEF IInv, OwedFits
  <2> QED BY <2>1, <2>2
<1> QED BY <1>1, <1>3, <1>4 DEF IInv

\* A pre-step or a turn-stopping ends the turn.
LEMMA LeaveOutsideStep ==
  ASSUME IInv, pc \in {"preStep", "stopping"}, Quiet, NEW reason \in Reasons,
         Leave(<<>>, reason), UNCHANGED <<step, Outside>>,
         reason \notin {"error", "blocked"} /\ signal = "live" /\ Overlooks = {} =>
             Pending \subseteq parked
  PROVE  IInv'
<1>1. log \o <<>> = log
  BY InboxFacts
<1>2. /\ log' = log \o <<TurnEnd(reason)>>
      /\ parked' = IF signal = "live" /\ reason \in {"error", "blocked"}
                   THEN parked \cup Pending ELSE parked
      /\ pc' = "exit" /\ claimed' = <<>>
      /\ UNCHANGED <<phase, signal, wake, turn, step, target, ends, inbox, sent, waking, replay,
                     disposal, crashes>>
  BY <1>1 DEF Leave, Outside
<1>3. Stands(log, turn, 0, turn, step + 1)
  BY DEF IInv, LogFits
<1> DEFINE k == step + 1
<1> HIDE DEF k
<1>4. Stands(log, turn, 0, turn, k) /\ pc \in Open
  BY <1>3 DEF k, Open
<1> QED BY <1>2, <1>4, InboxFacts, LeaveStep

\* A pre-step is rejected, fails or is aborted.
LEMMA EndPreStepStep ==
  ASSUME IInv, EndPreStep
  PROVE  IInv'
<1>1. PICK reason \in {"error", "blocked", "aborted"} :
        Leave(<<>>, reason) /\ (signal = "live" => reason \in {"error", "blocked"})
  BY DEF EndPreStep
<1>2. pc \in {"preStep", "stopping"} /\ Quiet /\ reason \in Reasons /\ UNCHANGED <<step, Outside>>
  BY DEF EndPreStep, Reasons
<1> QED BY <1>1, <1>2, LeaveOutsideStep

\* The first pre-step of a turn enters with nothing.
LEMMA EnterEmptyTurnStep ==
  ASSUME IInv, EnterEmptyTurn
  PROVE  IInv'
<1>1. /\ pc \in {"preStep", "stopping"} /\ Quiet /\ "completed" \in Reasons
      /\ Leave(<<>>, "completed") /\ UNCHANGED <<step, Outside>>
      /\ Pending \subseteq parked \/ MissesEmptyTurns
  BY DEF EnterEmptyTurn, Reasons
<1>2. MissesEmptyTurns => Overlooks # {}
  BY DEF MissesEmptyTurns
<1> QED BY <1>1, <1>2, LeaveOutsideStep

\* A listener of turn-stopping throws.
LEMMA FailStoppingStep ==
  ASSUME IInv, FailStopping
  PROVE  IInv'
<1> DEFINE reason == IF signal = "live" THEN "error" ELSE "aborted"
<1>1. /\ pc \in {"preStep", "stopping"} /\ Quiet /\ reason \in Reasons
      /\ Leave(<<>>, reason) /\ UNCHANGED <<step, Outside>>
      /\ (signal = "live" => reason \in {"error", "blocked"})
  BY DEF FailStopping, Reasons
<1> HIDE DEF reason
<1> QED BY <1>1, LeaveOutsideStep

\* A step fails.
LEMMA FailStepStep ==
  ASSUME IInv, FailStep
  PROVE  IInv'
<1> DEFINE reason == IF signal = "live" THEN "error" ELSE "aborted"
           l == Append(log, StepEnd)
           k == step + 1
<1>1. /\ pc = "step" /\ Quiet /\ reason \in Reasons /\ pc \in Open
      /\ (signal = "live" => reason \in {"error", "blocked"})
  BY DEF FailStep, Reasons, Open
<1>2. /\ log' = log \o <<StepEnd>> \o <<TurnEnd(reason)>>
      /\ parked' = IF signal = "live" /\ reason \in {"error", "blocked"}
                   THEN parked \cup Pending ELSE parked
      /\ pc' = "exit" /\ claimed' = <<>>
      /\ UNCHANGED <<phase, signal, wake, turn, step, target, ends, inbox, sent, waking, replay,
                     disposal, crashes>>
  BY DEF FailStep, Leave, Outside
<1>3. /\ log \o <<StepEnd>> = l /\ Sound(l, sent) /\ Replay(l) = inbox /\ Heard(l) = Heard(log)
      /\ Stands(l, turn, 0, turn, k)
  BY <1>1, StepEndKept
<1> HIDE DEF reason, l, k
<1>4. log' = l \o <<TurnEnd(reason)>>
  BY <1>2, <1>3
<1> QED BY <1>1, <1>2, <1>3, <1>4, LeaveStep

\* The turn is closed after its last step: the driver goes on to the next turn, or
\* leaves when nothing is queued.
LEMMA CloseTurnStep ==
  ASSUME IInv, pc \in {"preStep", "stopping"}, Quiet, signal = "live",
         CloseTurn(<<>>), UNCHANGED Outside
  PROVE  IInv'
<1>1. log \o <<>> = log
  BY InboxFacts
<1>2. /\ log' = log \o <<TurnEnd(ends)>> /\ claimed' = <<>>
      /\ \/ pc' = "between" /\ signal' = "live" /\ wake' = FALSE /\ step' = 0
         \/ Pending = {} /\ pc' = "exit" /\ UNCHANGED <<signal, wake, step>>
      /\ UNCHANGED <<phase, turn, target, ends, inbox, parked, sent, waking, replay, disposal,
                     crashes>>
  BY <1>1 DEF CloseTurn, Outside, HasPending
<1>3. /\ Stands(log, turn, 0, turn, step + 1) /\ ends \in Reasons
      /\ phase = "running" /\ waking = "none"
  BY DEF IInv, LogFits, TypeOK, PcOf, Reasons, Quiet
<1> DEFINE k == step + 1
<1> HIDE DEF k
<1>4. Stands(log, turn, 0, turn, k)
  BY <1>3 DEF k
<1>5. LogFits' /\ ClaimFits' /\ Pending' = Pending
  <2>1. pc' \in {"exit", "between"} /\ (pc' = "between" => step' = 0)
    BY <1>2
  <2>2. UNCHANGED <<turn, inbox, sent>>
    BY <1>2
  <2> QED BY <1>2, <1>3, <1>4, <2>1, <2>2, InboxFacts, CloseKept
<1>6. TypeOK'
  <2>1. CASE pc' = "between" /\ signal' = "live" /\ wake' = FALSE /\ step' = 0
    <3>1. pc' \in PcOf(phase') /\ phase' = "running" /\ claimed' \in Seq(Messages)
      BY <1>2, <1>3, <2>1 DEF PcOf
    <3> QED BY <1>2, <2>1, <3>1 DEF IInv, TypeOK
  <2>2. CASE pc' = "exit" /\ UNCHANGED <<signal, wake, step>>
    BY <1>2, <1>3, <2>2 DEF IInv, TypeOK, PcOf
  <2> QED BY <1>2, <2>1, <2>2
<1>7. OwedFits'
  <2>1. CASE pc' = "between" /\ signal' = "live"
    BY <1>2, <1>3, <2>1 DEF OwedFits
  <2>2. CASE Pending = {}
    <3>1. Owed' = {}
      BY <1>5, <2>2 DEF Owed
    <3> QED BY <1>2, <1>3, <3>1 DEF OwedFits
  <2> QED BY <1>2, <2>1, <2>2
<1> QED BY <1>5, <1>6, <1>7 DEF IInv

\* A later pre-step enters with nothing.
LEMMA EnterNothingMoreStep ==
  ASSUME IInv, EnterNothingMore
  PROVE  IInv'
<1>1. /\ pc \in {"preStep", "stopping"} /\ Quiet /\ signal = "live"
      /\ CloseTurn(<<>>) /\ UNCHANGED Outside
  BY DEF EnterNothingMore
<1> QED BY <1>1, CloseTurnStep

\* A further pre-step of the turn: steering input is claimed.
LEMMA ProposeAgainStep ==
  ASSUME IInv, pc \in {"step", "stopping"}, Quiet, signal = "live",
         NEW l, Sound(l, sent), Replay(l) = inbox, Heard(l) = Heard(log),
         Stands(l, turn, 0, turn, step + 1),
         claimed' = ClaimBatch("next-step"), inbox' = ClaimRest("next-step"),
         log' = l \o ClaimSplices("next-step"), target' = "next-step",
         parked' = parked \cap PendingAfter, pc' = "preStep",
         ends' \in {"none", "completed", "max-tokens"},
         UNCHANGED <<phase, signal, wake, turn, step, sent, waking, replay, disposal, crashes>>
  PROVE  IInv'
<1> DEFINE b == "next-step"
           k == step + 1
<1>1. b \in Boundaries /\ b # "next-turn"
  BY DEF Boundaries
<1>2. phase = "running" /\ waking = "none"
  BY DEF IInv, TypeOK, PcOf, Quiet
<1>3. claimed' = ClaimBatch(b) /\ inbox' = ClaimRest(b) /\ log' = l \o ClaimSplices(b)
  OBVIOUS
<1> HIDE DEF b
<1>4. step' + 1 = k /\ Stands(l, turn, 0, turn, k)
  OBVIOUS
<1> HIDE DEF k
<1>5. /\ LogFits' /\ ClaimFits' /\ inbox' \in Boxes /\ claimed' \in Seq(Messages)
      /\ Pending' \subseteq Pending
  BY <1>1, <1>3, <1>4, ClaimKept
<1>6. TypeOK'
  BY <1>2, <1>5 DEF IInv, TypeOK, PcOf, Boxes, Boundaries
<1>7. OwedFits'
  BY <1>2 DEF OwedFits
<1> QED BY <1>5, <1>6, <1>7 DEF IInv

\* Turn-stopping ends: the turn goes on or is closed.
LEMMA EndStoppingStep ==
  ASSUME IInv, EndStopping
  PROVE  IInv'
<1>1. pc = "stopping" /\ Quiet /\ signal = "live" /\ UNCHANGED Outside
  BY DEF EndStopping
<1>2. CASE CloseTurn(<<>>)
  BY <1>1, <1>2, CloseTurnStep
<1>3. CASE ProposeStep(<<>>, "next-step") /\ UNCHANGED <<phase, signal, wake, turn, step, ends>>
  <2>1. log \o <<>> = log
    BY InboxFacts
  <2>2. /\ claimed' = ClaimBatch("next-step") /\ inbox' = ClaimRest("next-step")
        /\ log' = log \o ClaimSplices("next-step") /\ target' = "next-step"
        /\ parked' = parked \cap PendingAfter /\ pc' = "preStep"
    BY <1>3, <2>1 DEF ProposeStep
  <2>3. /\ Stands(log, turn, 0, turn, step + 1) /\ ends' \in {"none", "completed", "max-tokens"}
        /\ UNCHANGED <<phase, signal, wake, turn, step, sent, waking, replay, disposal, crashes>>
    BY <1>1, <1>3 DEF IInv, LogFits, TypeOK, Outside
  <2> QED BY <1>1, <2>2, <2>3, InboxFacts, ProposeAgainStep
<1> QED BY <1>2, <1>3 DEF EndStopping

\* A step ends.
LEMMA EndStepStep ==
  ASSUME IInv, EndStep
  PROVE  IInv'
<1> DEFINE l == Append(log, StepEnd)
<1>1. /\ pc = "step" /\ Quiet /\ signal = "live"
      /\ UNCHANGED <<phase, signal, wake, turn, step, sent, waking, replay, disposal, crashes>>
  BY DEF EndStep, Outside
<1>2. ends' \in {"none", "completed", "max-tokens"}
  BY DEF EndStep, StepResults, IInv, TypeOK
<1>3. /\ log \o <<StepEnd>> = l /\ Sound(l, sent) /\ Replay(l) = inbox /\ Heard(l) = Heard(log)
      /\ Stands(l, turn, 0, turn, step + 1)
  BY <1>1, StepEndKept
<1>4. CASE pc' = "stopping" /\ log' = l /\ UNCHANGED <<target, claimed, inbox, parked>>
  <2> HIDE DEF l
  <2>1. LogFits'
    BY <1>1, <1>3, <1>4 DEF LogFits
  <2>2. ClaimFits' /\ Pending' = Pending
    BY <1>1, <1>3, <1>4 DEF IInv, ClaimFits, Pending
  <2>3. phase = "running" /\ waking = "none"
    BY <1>1 DEF IInv, TypeOK, PcOf, Quiet
  <2>4. TypeOK'
    BY <1>1, <1>2, <1>4, <2>3 DEF IInv, TypeOK, PcOf
  <2>5. OwedFits'
    BY <1>1, <1>4, <2>3 DEF OwedFits
  <2> QED BY <2>1, <2>2, <2>4, <2>5 DEF IInv
<1>5. CASE ProposeStep(<<StepEnd>>, "next-step")
  <2>1. /\ claimed' = ClaimBatch("next-step") /\ inbox' = ClaimRest("next-step")
        /\ log' = log \o <<StepEnd>> \o ClaimSplices("next-step") /\ target' = "next-step"
        /\ parked' = parked \cap PendingAfter /\ pc' = "preStep"
    BY <1>5 DEF ProposeStep
  <2> HIDE DEF l
  <2>2. log' = l \o ClaimSplices("next-step") /\ pc \in {"step", "stopping"}
    BY <1>1, <1>3, <2>1
  <2> QED BY <1>1, <1>2, <1>3, <2>1, <2>2, ProposeAgainStep
<1> QED BY <1>4, <1>5 DEF EndStep

\* A step is entered with its batch.
LEMMA EnterStepStep ==
  ASSUME IInv, EnterStep
  PROVE  IInv'
<1> DEFINE k == step + 1
           e == StepStart(k)
           l == Append(log, e)
<1>1. /\ pc = "preStep" /\ Quiet /\ signal = "live"
      /\ step' = k /\ pc' = "step" /\ claimed' = <<>>
      /\ UNCHANGED <<phase, signal, wake, turn, target, ends, inbox, parked, sent, waking, replay,
                     disposal, crashes>>
  BY DEF EnterStep, Outside
<1>2. PICK batch \in Decisions : log' = log \o <<e>> \o UserMessages(batch)
  BY DEF EnterStep
<1>3. Stands(log, turn, 0, turn, k) /\ turn # 0 /\ turn \in Nat /\ k \in Nat /\ k # 0
  BY <1>1, InboxFacts DEF IInv, LogFits, Stands
<1>4. e \in StepStarts /\ e.turn = turn /\ e.step = k /\ e \in Events
  BY <1>3 DEF StepStart, StepStarts, Events
<1> HIDE DEF e, k
<1>5. log \o <<e>> = l
  BY <1>4, InboxFacts
<1>6. Stands(l, turn, k, turn, k)
  BY <1>3, <1>4, InboxFacts, StepStartStands
<1>7. Sound(l, sent) /\ Replay(l) = inbox /\ Heard(l) = Heard(log)
  <2>1. e \in Starts \cup TurnEnds \cup StepStarts \cup StepEnds /\ sent \in Nat /\ Sound(log, sent)
    BY <1>4, InboxFacts
  <2>2. Replay(log) = inbox
    BY InboxFacts
  <2> QED BY <1>6, <2>1, <2>2, BoundaryIsSound
<1> HIDE DEF l
<1>8. /\ batch \in Seq(Messages \cup {0})
      /\ \A i \in DOMAIN batch :
            batch[i] = 0 \/ batch[i] \in (1..sent) \ (Heard(l) \cup Holds(Replay(l)))
      /\ \A i, j \in DOMAIN batch : batch[i] = batch[j] /\ batch[i] # 0 => i = j
  <2>1. claimed \in Seq(Messages) /\ Injective(claimed)
    BY DEF IInv, TypeOK, ClaimFits
  <2>2. ASSUME NEW i \in DOMAIN claimed
        PROVE  claimed[i] \in (1..sent) \ (Heard(l) \cup Holds(Replay(l)))
    <3>1. claimed[i] \in Range(claimed)
      BY DEF Range
    <3> QED BY <1>7, <3>1, InboxFacts DEF IInv, ClaimFits
  <2>3. CASE batch = claimed
    BY <2>1, <2>2, <2>3 DEF Injective
  <2>4. CASE batch = <<>>
    BY <2>4
  <2>5. CASE batch = Append(claimed, 0)
    <3> DEFINE n == Len(claimed)
    <3>1. /\ batch \in Seq(Messages \cup {0}) /\ n \in Nat
          /\ DOMAIN batch = 1..(n + 1) /\ DOMAIN claimed = 1..n /\ batch[n + 1] = 0
          /\ \A i \in 1..n : batch[i] = claimed[i]
      BY <2>1, <2>5
    <3> HIDE DEF n
    <3>2. \A i \in DOMAIN batch : i = n + 1 \/ (i \in DOMAIN claimed /\ batch[i] = claimed[i])
      BY <3>1
    <3>3. \A i \in DOMAIN batch :
            batch[i] = 0 \/ batch[i] \in (1..sent) \ (Heard(l) \cup Holds(Replay(l)))
      BY <2>2, <3>1, <3>2
    <3>4. \A i, j \in DOMAIN batch : batch[i] = batch[j] /\ batch[i] # 0 => i = j
      BY <2>1, <3>1, <3>2 DEF Injective
    <3> QED BY <3>1, <3>3, <3>4
  <2> QED BY <2>3, <2>4, <2>5 DEF Decisions
<1>9. /\ Sound(l \o UserMessages(batch), sent)
      /\ Stands(l \o UserMessages(batch), turn, k, turn, k)
      /\ Replay(l \o UserMessages(batch)) = inbox
  <2>1. sent \in Nat /\ sent <= MaxMessages
    BY InboxFacts
  <2> QED BY <1>6, <1>7, <1>8, <2>1, BatchIsSound
<1>10. log' = l \o UserMessages(batch)
  BY <1>2, <1>5
<1>11. LogFits'
  BY <1>1, <1>9, <1>10 DEF LogFits
<1>12. Range(<<>>) = {} /\ Injective(<<>>)
  BY DEF Range, Injective
<1>13. ClaimFits' /\ Pending' = Pending
  BY <1>1, <1>12 DEF ClaimFits, Pending
<1>14. phase = "running" /\ waking = "none"
  BY <1>1 DEF IInv, TypeOK, PcOf, Quiet
<1>15. TypeOK'
  BY <1>1, <1>3, <1>14 DEF IInv, TypeOK, PcOf
<1>16. OwedFits'
  BY <1>1, <1>14 DEF OwedFits
<1> QED BY <1>11, <1>13, <1>15, <1>16 DEF IInv

\* The process dies, and the agent is built anew from a repaired beginning of the log.
LEMMA CrashAndResumeStep ==
  ASSUME IInv, CrashAndResume
  PROVE  IInv'
<1>1. /\ crashes < MaxCrashes /\ crashes' = crashes + 1
      /\ inbox' = Replay(log') /\ turn' = LastTurn(log')
      /\ phase' = "idle" /\ pc' = "none" /\ signal' = "live" /\ wake' = FALSE
      /\ step' = 0 /\ target' = "next-turn" /\ claimed' = <<>> /\ ends' = "none"
      /\ waking' = "none" /\ replay' = FALSE /\ disposal' = "none"
      /\ parked' = PendingAfter /\ sent' = sent
  BY DEF CrashAndResume
<1>2. PICK n \in 0..Len(log) : log' = Repaired(SubSeq(log, 1, n))
  BY DEF CrashAndResume
<1>3. Sound(log', sent) /\ \E nt, ns : Stands(log', 0, 0, nt, ns)
  <2> DEFINE c == SubSeq(log, 1, n)
  <2>1. Sound(c, sent) /\ sent \in Nat
    BY InboxFacts, SoundCut
  <2> HIDE DEF c
  <2>2. Sound(Repaired(c), sent) /\ \E nt, ns : Stands(Repaired(c), 0, 0, nt, ns)
    BY <2>1, RepairedIsSound
  <2> QED BY <1>2, <2>2 DEF c
<1> DEFINE l == log'
<1>4. PICK nt, ns : Stands(l, 0, 0, nt, ns)
  BY <1>3
<1>5. Good(l, sent)
  BY <1>3, SoundIsGood
<1>6. inbox' = Replay(l) /\ turn' = LastTurn(l) /\ Sound(l, sent)
  BY <1>1, <1>3
<1> HIDE DEF l
<1>7. /\ turn' \in Nat /\ TraceOf(l).openTurn = 0 /\ TraceOf(l).openStep = 0
      /\ TraceOf(l).nextTurn = turn' + 1
  <2>1. LastTurn(l) = nt - 1 /\ nt \in Nat \ {0} /\ TraceOf(l).nextTurn = nt
    BY <1>4, TraceOfStanding
  <2>2. TraceOf(l).openTurn = 0 /\ TraceOf(l).openStep = 0
    BY <1>4, TraceOfStanding
  <2>3. nt - 1 \in Nat /\ (nt - 1) + 1 = nt
    BY <2>1
  <2> QED BY <1>6, <2>1, <2>2, <2>3
<1>8. LogFits'
  BY <1>1, <1>6, <1>7 DEF LogFits, l
<1>9. Range(<<>>) = {} /\ Injective(<<>>)
  BY DEF Range, Injective
<1>10. ClaimFits'
  BY <1>1, <1>9 DEF ClaimFits
<1>11. inbox' \in Boxes /\ Holds(inbox') \subseteq 1..sent /\ PendingAfter = Holds(inbox')
  BY <1>5, <1>6 DEF Good, PendingAfter, Holds
<1>12. TypeOK'
  <2>1. parked' \subseteq Messages
    BY <1>1, <1>11, InboxFacts
  <2>2. crashes' \in 0..MaxCrashes
    BY <1>1, DriverAssumption DEF IInv, TypeOK
  <2>3. /\ pc' \in PcOf(phase') /\ target' \in Boundaries /\ claimed' \in Seq(Messages)
        /\ inbox' \in [Boundaries -> Seq(Messages)]
    BY <1>1, <1>11 DEF PcOf, Boundaries, Boxes
  <2> QED BY <1>1, <1>7, <2>1, <2>2, <2>3 DEF IInv, TypeOK
<1>13. OwedFits'
  <2>1. Owed' = {}
    BY <1>1 DEF Owed, Pending, PendingAfter
  <2> QED BY <1>1, <2>1 DEF OwedFits
<1> QED BY <1>8, <1>10, <1>12, <1>13 DEF IInv

-----------------------------------------------------------------------------
(* The theorems. *)

\* The invariant holds at the start.
LEMMA InitStep ==
  ASSUME Init
  PROVE  IInv
<1>1. Range(<<>>) = {} /\ Injective(<<>>) /\ <<>> \in Seq(Messages)
  BY DEF Range, Injective
<1>2. /\ EmptyInbox \in Boxes /\ Holds(EmptyInbox) = {} /\ Distinct(EmptyInbox)
      /\ Pending = {}
  BY <1>1 DEF Init, EmptyInbox, Boxes, Holds, Distinct, Boundaries, Pending
<1>3. <<>> \in Seq(Events) /\ Stands(<<>>, 0, 0, 1, 1) /\ Replay(<<>>) = EmptyInbox
  BY EmptyStands
<1>4. Heard(<<>>) = {} /\ HeardOnce(<<>>)
  BY DEF Heard, HeardOnce
<1>5. Good(<<>>, 0)
  BY <1>2, <1>3, <1>4, StandingIsGood
<1>6. Sound(<<>>, 0)
  <2>1. \A n \in 0..Len(<<>>) : SubSeq(<<>>, 1, n) = <<>>
    OBVIOUS
  <2> QED BY <1>3, <1>5, <2>1 DEF Sound
<1>7. TraceOf(<<>>).openTurn = 0 /\ TraceOf(<<>>).openStep = 0 /\ TraceOf(<<>>).nextTurn = 1
  BY <1>3, TraceOfStanding
<1>8. LogFits
  BY <1>3, <1>6, <1>7 DEF Init, LogFits
<1>9. ClaimFits
  BY <1>1 DEF Init, ClaimFits
<1>10. TypeOK
  <2>1. /\ pc \in PcOf(phase) /\ target \in Boundaries /\ claimed \in Seq(Messages)
        /\ inbox \in [Boundaries -> Seq(Messages)]
    BY <1>1, <1>2 DEF Init, PcOf, Boundaries, Boxes
  <2>2. sent \in 0..MaxMessages /\ crashes \in 0..MaxCrashes
    BY DriverAssumption DEF Init
  <2> QED BY <2>1, <2>2 DEF Init, TypeOK
<1>11. OwedFits
  BY <1>2 DEF Init, OwedFits, Owed
<1> QED BY <1>8, <1>9, <1>10, <1>11 DEF IInv

\* Nothing changes.
LEMMA StutterStep ==
  ASSUME IInv, UNCHANGED vars
  PROVE  IInv'
<1>1. UNCHANGED <<phase, pc, signal, wake, turn, step, target, claimed, ends, inbox, sent, waking,
                  replay, disposal, log, parked, crashes>>
  BY DEF vars, driver
<1>2. LogFits' /\ ClaimFits' /\ Pending' = Pending
  BY <1>1, LogKept
<1>3. TypeOK'
  BY <1>1 DEF IInv, TypeOK
<1>4. OwedFits'
  BY <1>1, <1>2, OwedKept DEF Owed
<1> QED BY <1>2, <1>3, <1>4 DEF IInv

\* Every call from outside, every step of the driver and every crash keeps the
\* inductive invariant.
THEOREM DriverInvariant == Spec => []IInv
<1>1. Init => IInv
  BY InitStep
<1>2. IInv /\ [Next]_vars => IInv'
  <2> SUFFICES ASSUME IInv, [Next]_vars PROVE IInv'
    OBVIOUS
  <2>1. ASSUME NEW b \in Boundaries, NEW wakeup \in BOOLEAN, Send(b, wakeup) PROVE IInv'
    BY <2>1, SendStep
  <2>2. ASSUME NEW keepInbox \in BOOLEAN, UserCancel(keepInbox) PROVE IInv'
    BY <2>2, UserCancelStep
  <2>3. ASSUME NEW m \in Messages, RemoveMessage(m) PROVE IInv'
    BY <2>3, RemoveMessageStep
  <2>4. ASSUME Wake \/ RunMaintenance \/ EndMaintenance \/ Dispose \/ FinishDispose PROVE IInv'
    BY <2>4, WakeStep, RunMaintenanceStep, EndMaintenanceStep, DisposeStep, FinishDisposeStep
  <2>5. ASSUME StartTurn \/ SkipTurn \/ EndPreStep \/ EnterNothingMore \/ EnterEmptyTurn \/ EnterStep
        PROVE  IInv'
    BY <2>5, StartTurnStep, SkipTurnStep, EndPreStepStep, EnterNothingMoreStep,
       EnterEmptyTurnStep, EnterStepStep
  <2>6. ASSUME FailStep \/ EndStep \/ FailStopping \/ EndStopping \/ Retire \/ ReplayWake
               \/ CrashAndResume
        PROVE  IInv'
    BY <2>6, FailStepStep, EndStepStep, FailStoppingStep, EndStoppingStep, RetireStep,
       ReplayWakeStep, CrashAndResumeStep
  <2>7. ASSUME UNCHANGED vars PROVE IInv'
    BY <2>7, StutterStep
  <2> QED BY <2>1, <2>2, <2>3, <2>4, <2>5, <2>6, <2>7 DEF Next
<1> QED BY <1>1, <1>2, PTL DEF Spec

\* The variables of the agent keep their types, and there is a driver exactly in the
\* running phase (agent.ts, Phase).
THEOREM DriverIsTyped == Spec => []TypeOK
<1>1. IInv => TypeOK
  BY DEF IInv
<1> QED BY <1>1, DriverInvariant, PTL

\* The live inbox is what a restart would rebuild from the log, for any number of
\* messages, steps and crashes (inbox.ts, the constructor).
THEOREM InboxStaysReplayable == Spec => []InboxIsReplayable
<1>1. IInv => InboxIsReplayable
  BY DEF IInv, LogFits, InboxIsReplayable
<1> QED BY <1>1, DriverInvariant, PTL

\* Every append passes the checks of the session companion, also after a crash and
\* its repair, and no turn claims a second prompt (agent.ts, turn and preStep).
THEOREM LogStaysValid == Spec => []LogIsValid
<1>1. ASSUME IInv PROVE LogIsValid
  <2>1. PICK o, st, nt, ns : Stands(log, o, st, nt, ns)
    BY <1>1, StandsSomewhere DEF IInv, LogFits
  <2>2. PICK p \in Nat : PromptCount(log) = Counted(o, p)
    BY <2>1 DEF Stands
  <2>3. PromptCount(log).stray = 0
    BY <2>2 DEF Counted
  <2> QED BY <2>1, <2>3 DEF Stands, LogIsValid, OnePromptPerTurn
<1> QED BY <1>1, DriverInvariant, PTL

\* A wake is not lost while no waking send falls where the driver may miss it: at
\* rest, whatever is still queued was parked on purpose (agent.ts, wakeDriver and
\* kick).  Without the hypothesis the code breaks this.
THEOREM NoWakeIsStranded == Overlooks = {} => (Spec => []NoWakeStranded)
<1> SUFFICES ASSUME Overlooks = {} PROVE Spec => []NoWakeStranded
  OBVIOUS
<1>1. IInv => NoWakeStranded
  BY DEF IInv, OwedFits, Owed, NoWakeStranded, Quiet
<1> QED BY <1>1, DriverInvariant, PTL

\* A message enters the transcript at most once and is then no longer queued,
\* whatever is claimed, cancelled, aborted and lost in crashes (inbox.ts, claim).
THEOREM MessagesAreDeliveredOnce == Spec => []DeliveredOnce
<1>1. ASSUME IInv PROVE DeliveredOnce
  <2> SUFFICES ASSUME NEW m \in Messages
               PROVE  /\ Delivered(m) => m \notin Pending
                      /\ Cardinality({i \in DOMAIN log :
                            log[i].type = "user/message" /\ log[i].message = m}) <= 1
    BY DEF DeliveredOnce
  <2>1. Good(log, sent)
    BY <1>1, SoundIsGood DEF IInv, LogFits
  <2>2. Delivered(m) => m \notin Pending
    BY <1>1, InboxFacts DEF Delivered, Heard
  <2> DEFINE S == {i \in DOMAIN log : log[i].type = "user/message" /\ log[i].message = m}
  <2>3. \A i, j \in S : i = j
    <3>1. m # 0
      BY DEF Messages
    <3> QED BY <2>1, <3>1 DEF Good, HeardOnce
  <2>4. Cardinality(S) <= 1
    <3> HIDE DEF S
    <3>1. CASE S = {}
      BY <3>1, FS_EmptySet
    <3>2. CASE S # {}
      <4>1. PICK x \in S : TRUE
        BY <3>2
      <4>2. S = {x}
        BY <2>3, <4>1
      <4> QED BY <4>2, FS_Singleton
    <3> QED BY <3>1, <3>2
  <2> QED BY <2>2, <2>4
<1> QED BY <1>1, DriverInvariant, PTL


-----------------------------------------------------------------------------
(* What a step appends. *)

\* The events that may be appended now: nothing starts after an abort, and a turn
\* ends aborted exactly after one.
Timely ==
    {e \in Events :
        /\ e.type \in {"turn/start", "step/start"} => signal = "live"
        /\ e.type = "turn/end" => (e.reason = "aborted" <=> signal # "live")}

AppendsTimely == \E s \in Seq(Timely) : log' = log \o s

\* The inbox, the transcript and the end of a step may be logged at any time.
LEMMA OthersAreTimely ==
  Splices \subseteq Timely /\ Inputs \subseteq Timely /\ StepEnds \subseteq Timely
  BY DEF Timely, Events, Splices, Inputs, StepEnds

\* The events that a step appended are those behind the log.
LEMMA TimelyIsFinal ==
  ASSUME log \in Seq(Events), AppendsTimely
  PROVE  \A e \in Range(Appended) : e \in Timely
<1>1. PICK s \in Seq(Timely) : log' = log \o s
  BY DEF AppendsTimely
<1> DEFINE n == Len(log)
           k == Len(s)
           a == Appended
<1>2. n \in Nat /\ k \in Nat /\ s \in Seq(Events)
  BY DEF Timely
<1>3. Len(log') = n + k
  BY <1>1, <1>2
<1>4. a \in Seq(Events) /\ Len(a) = k /\ DOMAIN a = 1..k
  BY <1>1, <1>2, <1>3 DEF Appended
<1>5. ASSUME NEW i \in 1..k PROVE a[i] \in Timely
  <2>1. a[i] = s[i]
    BY <1>1, <1>2, <1>3 DEF Appended
  <2>2. s[i] \in Timely
    OBVIOUS
  <2> QED BY <2>1, <2>2
<1> HIDE DEF a
<1>6. \A e \in Range(a) : e \in Timely
  BY <1>4, <1>5 DEF Range
<1> QED BY <1>6 DEF a

\* One event, several, or one with several behind it.
LEMMA TimelyLists ==
  ASSUME log \in Seq(Events)
  PROVE  /\ log' = log => AppendsTimely
         /\ \A e \in Timely : log' = Append(log, e) \/ log' = log \o <<e>> => AppendsTimely
         /\ \A s \in Seq(Timely) : log' = log \o s => AppendsTimely
         /\ \A e \in Timely : \A s \in Seq(Timely) : log' = log \o <<e>> \o s => AppendsTimely
<1>1. Timely \subseteq Events
  BY DEF Timely
<1> HIDE DEF Timely
<1>2. ASSUME log' = log PROVE AppendsTimely
  <2>1. <<>> \in Seq(Timely) /\ log \o <<>> = log
    OBVIOUS
  <2> QED BY <1>2, <2>1 DEF AppendsTimely
<1>3. ASSUME NEW e \in Timely, log' = Append(log, e) \/ log' = log \o <<e>> PROVE AppendsTimely
  <2>1. <<e>> \in Seq(Timely) /\ Append(log, e) = log \o <<e>>
    BY <1>1
  <2> QED BY <1>3, <2>1 DEF AppendsTimely
<1>4. ASSUME NEW s \in Seq(Timely), log' = log \o s PROVE AppendsTimely
  BY <1>4 DEF AppendsTimely
<1>5. ASSUME NEW e \in Timely, NEW s \in Seq(Timely), log' = log \o <<e>> \o s PROVE AppendsTimely
  <2> DEFINE x == <<e>>
  <2>1. x \in Seq(Timely) /\ x \in Seq(Events) /\ s \in Seq(Events)
    BY <1>1
  <2>2. log' = log \o x \o s
    BY <1>5
  <2> HIDE DEF x
  <2>3. x \o s \in Seq(Timely)
    BY <2>1
  <2>4. log \o (x \o s) = (log \o x) \o s
    BY <2>1, Associates
  <2> QED BY <2>2, <2>3, <2>4 DEF AppendsTimely
<1> QED BY <1>2, <1>3, <1>4, <1>5

\* Claiming and clearing log splices only.
LEMMA SplicesAreTimely ==
  ASSUME IInv
  PROVE  /\ ClearSplices \in Seq(Timely)
         /\ \A b \in Boundaries : ClaimSplices(b) \in Seq(Timely)
<1>1. ASSUME NEW b \in Boundaries, NEW n \in Nat, NEW outcome \in {"canceled", "claimed"}
      PROVE  Deletion(b, n, outcome) \in Seq(Timely)
  <2>1. Splice(b, 0, n, <<>>, outcome) \in Timely
    <3>1. Splice(b, 0, n, <<>>, outcome) \in Splices
      BY DEF Splice, Splices, Inserted
    <3> QED BY <3>1, OthersAreTimely
  <2> DEFINE e == Splice(b, 0, n, <<>>, outcome)
  <2> HIDE DEF e
  <2>2. e \in Timely => <<e>> \in Seq(Timely)
    OBVIOUS
  <2> QED BY <2>1, <2>2 DEF Deletion, e
<1>2. ASSUME NEW b \in Boundaries PROVE Len(inbox[b]) \in Nat /\ Prompts(b) \in Nat
  BY InboxFacts DEF Boxes, Prompts
<1>3. "next-step" \in Boundaries /\ "next-turn" \in Boundaries
  BY DEF Boundaries
<1>4. \A x, y \in Seq(Timely) : x \o y \in Seq(Timely)
  OBVIOUS
<1>5. ClearSplices \in Seq(Timely)
  BY <1>1, <1>2, <1>3, <1>4 DEF ClearSplices
<1>6. ASSUME NEW b \in Boundaries PROVE ClaimSplices(b) \in Seq(Timely)
  BY <1>1, <1>2, <1>3, <1>4 DEF ClaimSplices
<1> QED BY <1>5, <1>6

\* What is called from outside logs splices of the inbox.
LEMMA CallsAreTimely ==
  ASSUME IInv,
         \/ \E b \in Boundaries, wakeup \in BOOLEAN : Send(b, wakeup)
         \/ \E keepInbox \in BOOLEAN : UserCancel(keepInbox)
         \/ \E m \in Messages : RemoveMessage(m)
         \/ Dispose
  PROVE  AppendsTimely
<1>0. log \in Seq(Events)
  BY InboxFacts
<1>1. ASSUME NEW b \in Boundaries, NEW wakeup \in BOOLEAN, Send(b, wakeup)
      PROVE  AppendsTimely
  <2> DEFINE to == IF wakeup /\ phase # "idle" /\ signal # "live" THEN "next-turn" ELSE b
             m == sent + 1
             e == Splice(to, Len(inbox[to]), 0, <<m>>, "inserted")
  <2>1. log' = Append(log, e) /\ sent < MaxMessages
    BY <1>1 DEF Send
  <2>2. to \in Boundaries
    BY DEF Boundaries
  <2> HIDE DEF to
  <2>3. Len(inbox[to]) \in Nat
    BY <2>2, InboxFacts DEF Boxes
  <2>4. m \in Messages
    BY <2>1, InboxFacts, DriverAssumption DEF Messages
  <2> HIDE DEF m
  <2>5. <<m>> \in Inserted
    BY <2>4 DEF Inserted
  <2>6. e \in Splices
    BY <2>2, <2>3, <2>5 DEF Splice, Splices
  <2> HIDE DEF e
  <2> QED BY <1>0, <2>1, <2>6, OthersAreTimely, TimelyLists
<1>2. ASSUME NEW cause, NEW keepInbox, Cancel(cause, keepInbox) PROVE AppendsTimely
  BY <1>0, <1>2, SplicesAreTimely, TimelyLists DEF Cancel
<1>3. ASSUME NEW m \in Messages, RemoveMessage(m) PROVE AppendsTimely
  <2>0. PICK b \in Boundaries : \E i \in DOMAIN inbox[b] :
          log' = Append(log, Splice(b, i - 1, 1, <<>>, "canceled"))
    BY <1>3 DEF RemoveMessage
  <2>1. PICK i \in DOMAIN inbox[b] : log' = Append(log, Splice(b, i - 1, 1, <<>>, "canceled"))
    BY <2>0
  <2> DEFINE e == Splice(b, i - 1, 1, <<>>, "canceled")
  <2>2. inbox[b] \in Seq(Messages)
    BY InboxFacts DEF Boxes
  <2>3. i - 1 \in Nat
    BY <2>2
  <2>4. e \in Splices
    BY <2>3 DEF Splice, Splices, Inserted
  <2>5. log' = Append(log, e)
    BY <2>1
  <2> HIDE DEF e
  <2> QED BY <1>0, <2>4, <2>5, OthersAreTimely, TimelyLists
<1> QED BY <1>1, <1>2, <1>3 DEF UserCancel, Dispose

\* An ended turn is recorded as aborted exactly when it was aborted.
LEMMA LeavesAreTimely ==
  ASSUME IInv,
         \/ EndPreStep \/ EnterNothingMore \/ EnterEmptyTurn \/ FailStep \/ FailStopping
         \/ EndStopping /\ CloseTurn(<<>>)
  PROVE  AppendsTimely
<1>0. log \in Seq(Events) /\ turn \in Nat /\ step \in Nat
  BY InboxFacts
<1>1. ends \in {"none", "completed", "max-tokens"}
  BY DEF IInv, TypeOK
<1>2. ASSUME NEW reason \in {"aborted", "error", "blocked", "completed", "max-tokens", "none"},
             reason = "aborted" <=> signal # "live"
      PROVE  TurnEnd(reason) \in Timely
  BY <1>0, <1>2 DEF TurnEnd, Timely, Events, TurnEnds
<1>3. ASSUME NEW reason, TurnEnd(reason) \in Timely, log' = log \o <<>> \o <<TurnEnd(reason)>>
      PROVE  AppendsTimely
  <2>1. log \o <<>> = log
    BY <1>0
  <2> QED BY <1>0, <1>3, <2>1, TimelyLists
<1>4. CASE EndPreStep
  <2>1. PICK reason \in IF signal = "live" THEN {"error", "blocked"} ELSE {"aborted"} :
          log' = log \o <<>> \o <<TurnEnd(reason)>>
    BY <1>4 DEF EndPreStep, Leave
  <2> QED BY <1>2, <1>3, <2>1
<1>5. CASE EnterNothingMore \/ (EndStopping /\ CloseTurn(<<>>))
  <2>1. signal = "live" /\ log' = log \o <<>> \o <<TurnEnd(ends)>>
    BY <1>5 DEF EnterNothingMore, EndStopping, CloseTurn
  <2> QED BY <1>1, <1>2, <1>3, <2>1
<1>6. CASE EnterEmptyTurn
  <2>1. signal = "live" /\ log' = log \o <<>> \o <<TurnEnd("completed")>>
    BY <1>6 DEF EnterEmptyTurn, Leave
  <2> QED BY <1>2, <1>3, <2>1
<1> DEFINE reason == IF signal = "live" THEN "error" ELSE "aborted"
<1>7. TurnEnd(reason) \in Timely
  BY <1>2
<1>8. CASE FailStopping
  <2>1. log' = log \o <<>> \o <<TurnEnd(reason)>>
    BY <1>8 DEF FailStopping, Leave
  <2> HIDE DEF reason
  <2> QED BY <1>3, <1>7, <2>1
<1>9. CASE FailStep
  <2>1. log' = log \o <<StepEnd>> \o <<TurnEnd(reason)>>
    BY <1>9 DEF FailStep, Leave
  <2>2. StepEnd \in StepEnds
    BY <1>0 DEF StepEnd, StepEnds
  <2>3. StepEnd \in Timely
    BY <2>2, OthersAreTimely
  <2> DEFINE e == TurnEnd(reason)
  <2>4. e \in Timely => <<e>> \in Seq(Timely)
    OBVIOUS
  <2> QED BY <1>0, <1>7, <2>1, <2>3, <2>4, TimelyLists
<1> QED BY <1>4, <1>5, <1>6, <1>8, <1>9

\* Turns and steps go on, and start, only while nothing was aborted.
LEMMA StartsAreTimely ==
  ASSUME IInv, \/ StartTurn \/ EnterStep \/ EndStep
               \/ EndStopping /\ ProposeStep(<<>>, "next-step")
  PROVE  AppendsTimely
<1>0. /\ log \in Seq(Events) /\ turn \in Nat /\ step \in Nat
      /\ "next-step" \in Boundaries /\ "next-turn" \in Boundaries
  BY InboxFacts DEF Boundaries
<1>1. CASE StartTurn
  <2>1. signal = "live" /\ log' = log \o <<TurnStart(turn + 1)>> \o ClaimSplices("next-turn")
    BY <1>1 DEF StartTurn, ProposeStep
  <2>2. TurnStart(turn + 1) \in Timely
    BY <1>0, <2>1 DEF TurnStart, Timely, Events, Starts
  <2> QED BY <1>0, <2>1, <2>2, SplicesAreTimely, TimelyLists
<1>2. CASE EnterStep
  <2>1. PICK batch \in Decisions : log' = log \o <<StepStart(step + 1)>> \o UserMessages(batch)
    BY <1>2 DEF EnterStep
  <2>2. signal = "live"
    BY <1>2 DEF EnterStep
  <2>3. StepStart(step + 1) \in Timely
    BY <1>0, <2>2 DEF StepStart, Timely, Events, StepStarts
  <2>4. batch \in Seq(Messages \cup {0})
    <3>1. claimed \in Seq(Messages)
      BY DEF IInv, TypeOK
    <3>2. batch = claimed \/ batch = <<>> \/ batch = Append(claimed, 0)
      BY DEF Decisions
    <3>3. claimed \in Seq(Messages \cup {0})
      BY <3>1
    <3>4. CASE batch = claimed
      BY <3>3, <3>4
    <3>5. CASE batch = <<>>
      BY <3>5
    <3>6. CASE batch = Append(claimed, 0)
      BY <3>3, <3>6
    <3> QED BY <3>2, <3>4, <3>5, <3>6
  <2>5. UserMessages(batch) \in Seq(Timely)
    <3> DEFINE um == UserMessages(batch)
               n == Len(batch)
    <3>1. n \in Nat /\ DOMAIN batch = 1..n
      BY <2>4
    <3>2. um = [i \in 1..n |-> [type |-> "user/message", message |-> batch[i]]]
      BY <3>1 DEF UserMessages
    <3>3. \A i \in 1..n : batch[i] \in Messages \cup {0}
      BY <2>4
    <3> HIDE DEF n, um
    <3>4. \A i \in 1..n : um[i] \in Inputs
      BY <3>2, <3>3 DEF Inputs
    <3>5. um \in [1..n -> Timely]
      BY <3>2, <3>4, OthersAreTimely
    <3>6. um \in Seq(Timely)
      BY <3>1, <3>5, Traces!IsASeq
    <3> QED BY <3>6 DEF um
  <2> QED BY <1>0, <2>1, <2>3, <2>5, TimelyLists
<1>3. CASE EndStep
  <2>1. StepEnd \in StepEnds
    BY <1>0 DEF StepEnd, StepEnds
  <2>2. StepEnd \in Timely
    BY <2>1, OthersAreTimely
  <2>3. \/ log' = Append(log, StepEnd)
        \/ log' = log \o <<StepEnd>> \o ClaimSplices("next-step")
    BY <1>3 DEF EndStep, ProposeStep
  <2> QED BY <1>0, <2>2, <2>3, SplicesAreTimely, TimelyLists
<1>4. CASE EndStopping /\ ProposeStep(<<>>, "next-step")
  <2>1. log' = log \o <<>> \o ClaimSplices("next-step")
    BY <1>4 DEF ProposeStep
  <2>2. log \o <<>> = log
    BY <1>0
  <2> QED BY <1>0, <2>1, <2>2, SplicesAreTimely, TimelyLists
<1> QED BY <1>1, <1>2, <1>3, <1>4

\* After an abort no turn and no step starts, and the turn that is open ends as
\* aborted; no other turn does (agent.ts, turn and its catch).
THEOREM AbortsAreFinal == Spec => AbortIsFinal
<1>1. ASSUME IInv, [Next]_vars
      PROVE  [crashes' = crashes =>
                \A e \in Range(Appended) :
                    /\ e.type \in {"turn/start", "step/start"} => signal = "live"
                    /\ e.type = "turn/end" => (e.reason = "aborted" <=> signal # "live")]_vars
  <2> SUFFICES ASSUME Next, crashes' = crashes PROVE AppendsTimely
    BY <1>1, InboxFacts, TimelyIsFinal DEF Timely
  <2>1. log \in Seq(Events)
    BY <1>1, InboxFacts
  <2>2. ASSUME Wake \/ RunMaintenance \/ EndMaintenance \/ FinishDispose \/ SkipTurn \/ Retire
               \/ ReplayWake
        PROVE  AppendsTimely
    <3>1. log' = log
      BY <2>2 DEF Wake, RunMaintenance, EndMaintenance, FinishDispose, SkipTurn, Retire, ReplayWake
    <3> QED BY <2>1, <3>1, TimelyLists
  <2>3. ASSUME EndStopping PROVE AppendsTimely
    BY <1>1, <2>3, LeavesAreTimely, StartsAreTimely DEF EndStopping
  <2>4. ~CrashAndResume
    <3>1. crashes \in Nat
      BY <1>1, DriverAssumption DEF IInv, TypeOK
    <3> QED BY <3>1 DEF CrashAndResume
  <2> QED BY <1>1, <2>2, <2>3, <2>4, CallsAreTimely, LeavesAreTimely, StartsAreTimely DEF Next
<1> QED BY <1>1, DriverInvariant, PTL DEF Spec, AbortIsFinal
=============================================================================

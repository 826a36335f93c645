------------------------ MODULE ToolSchedulerProofs ------------------------
(***************************************************************************)
(* Proofs about ToolScheduler: results enter the log in the order of the   *)
(* calls, an exclusive call is a barrier, a step that ends has answered    *)
(* its calls, and what a crash leaves is repaired so that each call is     *)
(* answered once and no effect is denied.                                  *)
(*                                                                         *)
(* The first half is about logs alone: which events may extend a log, and  *)
(* what the companion's trace and the scan of the repair then hold.  A     *)
(* crash keeps an arbitrary durable prefix, so these facts are an          *)
(* invariant of every prefix of the log.                                   *)
(***************************************************************************)
EXTENDS ToolScheduler, SessionLogProofs, FiniteSetTheorems

-----------------------------------------------------------------------------
(* The events of the step. *)

TurnStart == [type |-> "turn/start", turn |-> 1]
Message == [type |-> "assistant/message", turn |-> 1, step |-> 1,
            calls |-> [i \in Calls |-> i]]
TurnEnd == [type |-> "turn/end", turn |-> 1, reason |-> "interrupted"]
Outcomes == {"done", "skipped", "unknown", "not-started"}

Boundaries == {TurnStart, Event("step/start"), Message, Event("step/end"), TurnEnd}
Records == {ToolCall(i) : i \in Calls}
Results == {ToolResult(i, outcome) : i \in Calls, outcome \in Outcomes}
Events == Boundaries \cup Records \cup Results

\* Where a log l has a record or a result of call i.
At(l, kind, i) == {p \in DOMAIN l : l[p].type = kind /\ l[p].call = i}
Called(l, i) == At(l, "tool/call", i) # {}
AnsweredIn(l, i) == At(l, "tool/result", i) # {}
HasMessage(l) == Len(l) >= 3 /\ l[3] = Message
Ended(l) == \E p \in DOMAIN l : l[p].type = "step/end"
Closed(l) == \E p \in DOMAIN l : l[p].type = "turn/end"

\* The kinds of event exclude one another.
LEMMA EventKinds ==
  /\ \A e \in Events : e.type \in {"turn/start", "step/start", "assistant/message",
                                   "tool/call", "tool/result", "step/end", "turn/end"}
  /\ \A e \in Events : e.type = "tool/call" => e \in Records
  /\ \A e \in Events : e.type = "tool/result" => e \in Results
  /\ \A e \in Boundaries : e.type \notin {"tool/call", "tool/result"}
  BY DEF Events, Boundaries, Records, Results, TurnStart, Event, Message, TurnEnd,
         ToolCall, ToolResult

\* Where one more event puts a record, a result or a boundary.
LEMMA AtAppend ==
  ASSUME NEW l \in Seq(Events), NEW e \in Events
  PROVE  /\ Append(l, e) \in Seq(Events)
         /\ Len(Append(l, e)) = Len(l) + 1
         /\ DOMAIN Append(l, e) = DOMAIN l \cup {Len(l) + 1}
         /\ Append(l, e)[Len(l) + 1] = e
         /\ \A p \in DOMAIN l : Append(l, e)[p] = l[p]
         /\ \A kind, i : At(Append(l, e), kind, i) =
              IF e.type = kind /\ e.call = i THEN At(l, kind, i) \cup {Len(l) + 1}
              ELSE At(l, kind, i)
         /\ HasMessage(Append(l, e)) <=> HasMessage(l) \/ (Len(l) = 2 /\ e = Message)
         /\ Ended(Append(l, e)) <=> Ended(l) \/ e.type = "step/end"
         /\ Closed(Append(l, e)) <=> Closed(l) \/ e.type = "turn/end"
<1> DEFINE a == Append(l, e)
<1>1. /\ a \in Seq(Events) /\ Len(a) = Len(l) + 1 /\ a[Len(l) + 1] = e
      /\ DOMAIN a = DOMAIN l \cup {Len(l) + 1}
      /\ Len(l) \in Nat /\ DOMAIN l = 1..Len(l)
  OBVIOUS
<1>2. \A p \in DOMAIN l : a[p] = l[p]
  OBVIOUS
<1> HIDE DEF a
<1>3. ASSUME NEW kind, NEW i
      PROVE  At(a, kind, i) = IF e.type = kind /\ e.call = i THEN At(l, kind, i) \cup {Len(l) + 1}
                              ELSE At(l, kind, i)
  BY <1>1, <1>2 DEF At
<1>4. HasMessage(a) <=> HasMessage(l) \/ (Len(l) = 2 /\ e = Message)
  BY <1>1, <1>2 DEF HasMessage
<1>5. Ended(a) <=> Ended(l) \/ e.type = "step/end"
  BY <1>1, <1>2 DEF Ended
<1>6. Closed(a) <=> Closed(l) \/ e.type = "turn/end"
  BY <1>1, <1>2 DEF Closed
<1> QED BY <1>1, <1>2, <1>3, <1>4, <1>5, <1>6 DEF a

-----------------------------------------------------------------------------
(* What holds of a log at every step of its growth. *)

Open(l) == ~Ended(l)
Unanswered(l) == {i \in Calls : ~AnsweredIn(l, i)}
Pending(l) == {i \in Calls : Called(l, i) /\ ~AnsweredIn(l, i)}
Trace(turn, step, nextTurn, nextStep, calls) ==
    [openTurn |-> turn, openStep |-> step, nextTurn |-> nextTurn, nextStep |-> nextStep,
     pendingCalls |-> calls]
ScanEntry == [call : Calls, step : {1}, logged : BOOLEAN]

\* The message comes before every record and result, and the boundaries in their order.
Ordered(l) ==
    /\ l \in Seq(Events) /\ Len(l) >= 2
    /\ \A i \in Calls : Called(l, i) \/ AnsweredIn(l, i) => HasMessage(l)
    /\ Closed(l) => Ended(l)

\* The companion's trace.
TraceFits(l) ==
    /\ Open(l) => TraceOf(l) = Trace(1, 1, 1, 1, Pending(l))
    /\ Ended(l) /\ ~Closed(l) => TraceOf(l) = Trace(1, 0, 1, 2, {})
    /\ Closed(l) => TraceOf(l) = Trace(0, 0, 2, 2, {})

\* The calls that the scan holds for dangling, each marked as recorded or not.
EntriesFit(l, entries) ==
    /\ entries \in Seq(ScanEntry)
    /\ \A j, k \in DOMAIN entries : entries[j].call = entries[k].call => j = k
    /\ \A k \in DOMAIN entries : /\ entries[k].call \in Unanswered(l)
                                 /\ entries[k].logged <=> Called(l, entries[k].call)
    /\ HasMessage(l) => \A i \in Unanswered(l) : \E k \in DOMAIN entries : entries[k].call = i
    /\ ~HasMessage(l) => entries = <<>>

\* The scan of the repair.
ScanFits(l) ==
    /\ Open(l) => \E entries : /\ ScanOf(l) = [turn |-> 1, step |-> 1, calls |-> entries]
                               /\ EntriesFit(l, entries)
    /\ Ended(l) /\ ~Closed(l) => ScanOf(l) = [turn |-> 1, step |-> 0, calls |-> <<>>]
    /\ Closed(l) => ScanOf(l) = FreshScan

\* At most one record and one result of a call, and a repair's result says
\* whether the call was recorded.
Once(l) ==
    \A i \in Calls :
        /\ \A p, q \in At(l, "tool/call", i) : p = q
        /\ \A p, q \in At(l, "tool/result", i) : p = q
        /\ \A p \in At(l, "tool/result", i) :
              /\ l[p].outcome = "unknown" => Called(l, i)
              /\ l[p].outcome = "not-started" => ~Called(l, i)

Good(l) == Ordered(l) /\ TraceFits(l) /\ ScanFits(l) /\ Once(l) /\ Valid(l)

\* The events that may come next.
MayRecord(l, i) == HasMessage(l) /\ Open(l) /\ ~Called(l, i) /\ ~AnsweredIn(l, i)
MayAnswer(l, i, outcome) ==
    /\ HasMessage(l) /\ Open(l) /\ ~AnsweredIn(l, i)
    /\ outcome = "not-started" <=> ~Called(l, i)

\* What the end of a step and of a turn make of the trace and of the scan.
LEMMA EndsOfTrace ==
  /\ \A c : [Trace(1, 1, 1, 1, c) EXCEPT !.openStep = 0, !.nextStep = @ + 1,
                                          !.pendingCalls = {}] = Trace(1, 0, 1, 2, {})
  /\ [Trace(1, 0, 1, 2, {}) EXCEPT !.openTurn = 0, !.nextTurn = @ + 1] = Trace(0, 0, 2, 2, {})
  /\ \A c : [[turn |-> 1, step |-> 1, calls |-> c] EXCEPT !.step = 0, !.calls = <<>>]
              = [turn |-> 1, step |-> 0, calls |-> <<>>]
<1>1. ASSUME NEW c
      PROVE  [Trace(1, 1, 1, 1, c) EXCEPT !.openStep = 0, !.nextStep = @ + 1,
                                          !.pendingCalls = {}] = Trace(1, 0, 1, 2, {})
  <2> DEFINE t == Trace(1, 1, 1, 1, c)
             r == [t EXCEPT !.openStep = 0, !.nextStep = @ + 1, !.pendingCalls = {}]
  <2>1. r = [f \in DOMAIN t |-> r[f]]
    OBVIOUS
  <2>2. /\ r.openTurn = 1 /\ r.openStep = 0 /\ r.nextTurn = 1 /\ r.nextStep = 2
        /\ r.pendingCalls = {}
        /\ DOMAIN t = {"openTurn", "openStep", "nextTurn", "nextStep", "pendingCalls"}
    BY DEF Trace
  <2> HIDE DEF r, t
  <2>3. r = Trace(1, 0, 1, 2, {})
    BY <2>1, <2>2 DEF Trace
  <2> QED BY <2>3 DEF r, t
<1>2. [Trace(1, 0, 1, 2, {}) EXCEPT !.openTurn = 0, !.nextTurn = @ + 1] = Trace(0, 0, 2, 2, {})
  <2> DEFINE t == Trace(1, 0, 1, 2, {})
             r == [t EXCEPT !.openTurn = 0, !.nextTurn = @ + 1]
  <2>1. r = [f \in DOMAIN t |-> r[f]]
    OBVIOUS
  <2>2. /\ r.openTurn = 0 /\ r.openStep = 0 /\ r.nextTurn = 2 /\ r.nextStep = 2
        /\ r.pendingCalls = {}
        /\ DOMAIN t = {"openTurn", "openStep", "nextTurn", "nextStep", "pendingCalls"}
    BY DEF Trace
  <2> HIDE DEF r, t
  <2>3. r = Trace(0, 0, 2, 2, {})
    BY <2>1, <2>2 DEF Trace
  <2> QED BY <2>3 DEF r, t
<1>3. ASSUME NEW c
      PROVE  [[turn |-> 1, step |-> 1, calls |-> c] EXCEPT !.step = 0, !.calls = <<>>]
              = [turn |-> 1, step |-> 0, calls |-> <<>>]
  <2> DEFINE t == [turn |-> 1, step |-> 1, calls |-> c]
             r == [t EXCEPT !.step = 0, !.calls = <<>>]
  <2>1. r = [f \in DOMAIN t |-> r[f]]
    OBVIOUS
  <2>2. r.turn = 1 /\ r.step = 0 /\ r.calls = <<>> /\ DOMAIN t = {"turn", "step", "calls"}
    OBVIOUS
  <2> HIDE DEF r, t
  <2>3. r = [turn |-> 1, step |-> 0, calls |-> <<>>]
    BY <2>1, <2>2
  <2> QED BY <2>3 DEF r, t
<1> QED BY <1>1, <1>2, <1>3

\* A record leaves every other call as it was.
LEMMA RecordFacts ==
  ASSUME NEW l \in Seq(Events), NEW i \in Calls
  PROVE  LET a == Append(l, ToolCall(i)) IN
         /\ ToolCall(i) \in Events
         /\ a \in Seq(Events) /\ Len(a) = Len(l) + 1
         /\ At(a, "tool/call", i) = At(l, "tool/call", i) \cup {Len(l) + 1}
         /\ \A j \in Calls \ {i} : At(a, "tool/call", j) = At(l, "tool/call", j)
         /\ \A j \in Calls : At(a, "tool/result", j) = At(l, "tool/result", j)
         /\ \A j \in Calls : Called(a, j) <=> Called(l, j) \/ j = i
         /\ \A j \in Calls : AnsweredIn(a, j) <=> AnsweredIn(l, j)
         /\ HasMessage(a) <=> HasMessage(l)
         /\ Ended(a) <=> Ended(l)
         /\ Closed(a) <=> Closed(l)
<1> DEFINE e == ToolCall(i)
           a == Append(l, e)
<1>1. e \in Events /\ e.type = "tool/call" /\ e.call = i /\ e # Message
  BY DEF Events, Records, ToolCall, Message
<1> HIDE DEF e
<1>2. /\ a \in Seq(Events) /\ Len(a) = Len(l) + 1
      /\ \A kind, j : At(a, kind, j) =
            IF e.type = kind /\ e.call = j THEN At(l, kind, j) \cup {Len(l) + 1}
            ELSE At(l, kind, j)
      /\ HasMessage(a) <=> HasMessage(l) \/ (Len(l) = 2 /\ e = Message)
      /\ Ended(a) <=> Ended(l) \/ e.type = "step/end"
      /\ Closed(a) <=> Closed(l) \/ e.type = "turn/end"
  BY <1>1, AtAppend
<1> HIDE DEF a
<1>3. At(a, "tool/call", i) = At(l, "tool/call", i) \cup {Len(l) + 1}
  BY <1>1, <1>2
<1>4. \A j \in Calls \ {i} : At(a, "tool/call", j) = At(l, "tool/call", j)
  BY <1>1, <1>2
<1>5. \A j \in Calls : At(a, "tool/result", j) = At(l, "tool/result", j)
  BY <1>1, <1>2
<1>6. \A j \in Calls : Called(a, j) <=> Called(l, j) \/ j = i
  BY <1>3, <1>4 DEF Called
<1>7. \A j \in Calls : AnsweredIn(a, j) <=> AnsweredIn(l, j)
  BY <1>5 DEF AnsweredIn
<1> QED BY <1>1, <1>2, <1>3, <1>4, <1>5, <1>6, <1>7 DEF a, e

\* A result leaves every other call as it was.
LEMMA ResultFacts ==
  ASSUME NEW l \in Seq(Events), NEW i \in Calls, NEW outcome \in Outcomes
  PROVE  LET a == Append(l, ToolResult(i, outcome)) IN
         /\ ToolResult(i, outcome) \in Events
         /\ a \in Seq(Events) /\ Len(a) = Len(l) + 1
         /\ At(a, "tool/result", i) = At(l, "tool/result", i) \cup {Len(l) + 1}
         /\ \A j \in Calls \ {i} : At(a, "tool/result", j) = At(l, "tool/result", j)
         /\ \A j \in Calls : At(a, "tool/call", j) = At(l, "tool/call", j)
         /\ \A j \in Calls : AnsweredIn(a, j) <=> AnsweredIn(l, j) \/ j = i
         /\ \A j \in Calls : Called(a, j) <=> Called(l, j)
         /\ HasMessage(a) <=> HasMessage(l)
         /\ Ended(a) <=> Ended(l)
         /\ Closed(a) <=> Closed(l)
<1> DEFINE e == ToolResult(i, outcome)
           a == Append(l, e)
<1>1. e \in Events /\ e.type = "tool/result" /\ e.call = i /\ e # Message
  BY DEF Events, Results, ToolResult, Message
<1> HIDE DEF e
<1>2. /\ a \in Seq(Events) /\ Len(a) = Len(l) + 1
      /\ \A kind, j : At(a, kind, j) =
            IF e.type = kind /\ e.call = j THEN At(l, kind, j) \cup {Len(l) + 1}
            ELSE At(l, kind, j)
      /\ HasMessage(a) <=> HasMessage(l) \/ (Len(l) = 2 /\ e = Message)
      /\ Ended(a) <=> Ended(l) \/ e.type = "step/end"
      /\ Closed(a) <=> Closed(l) \/ e.type = "turn/end"
  BY <1>1, AtAppend
<1> HIDE DEF a
<1>3. At(a, "tool/result", i) = At(l, "tool/result", i) \cup {Len(l) + 1}
  BY <1>1, <1>2
<1>4. \A j \in Calls \ {i} : At(a, "tool/result", j) = At(l, "tool/result", j)
  BY <1>1, <1>2
<1>5. \A j \in Calls : At(a, "tool/call", j) = At(l, "tool/call", j)
  BY <1>1, <1>2
<1>6. \A j \in Calls : AnsweredIn(a, j) <=> AnsweredIn(l, j) \/ j = i
  BY <1>3, <1>4 DEF AnsweredIn
<1>7. \A j \in Calls : Called(a, j) <=> Called(l, j)
  BY <1>5 DEF Called
<1> QED BY <1>1, <1>2, <1>3, <1>4, <1>5, <1>6, <1>7 DEF a, e

\* A boundary leaves every call as it was.
LEMMA BoundaryFacts ==
  ASSUME NEW l \in Seq(Events), NEW e \in Boundaries
  PROVE  LET a == Append(l, e) IN
         /\ e \in Events
         /\ a \in Seq(Events) /\ Len(a) = Len(l) + 1
         /\ \A kind \in {"tool/call", "tool/result"} : \A j : At(a, kind, j) = At(l, kind, j)
         /\ \A j \in Calls : /\ Called(a, j) <=> Called(l, j)
                             /\ AnsweredIn(a, j) <=> AnsweredIn(l, j)
<1> DEFINE a == Append(l, e)
<1>1. e \in Events /\ e.type \notin {"tool/call", "tool/result"}
  BY EventKinds DEF Events
<1>2. /\ a \in Seq(Events) /\ Len(a) = Len(l) + 1
      /\ \A kind, j : At(a, kind, j) =
            IF e.type = kind /\ e.call = j THEN At(l, kind, j) \cup {Len(l) + 1}
            ELSE At(l, kind, j)
  BY <1>1, AtAppend
<1> HIDE DEF a
<1>3. \A kind \in {"tool/call", "tool/result"} : \A j : At(a, kind, j) = At(l, kind, j)
  BY <1>1, <1>2
<1> QED BY <1>1, <1>2, <1>3 DEF a, Called, AnsweredIn

-----------------------------------------------------------------------------
(* The events that may come next keep a log good. *)

\* The record of the next call.
LEMMA GoodRecord ==
  ASSUME NEW l, Good(l), NEW i \in Calls, MayRecord(l, i)
  PROVE  Good(Append(l, ToolCall(i)))
<1> DEFINE e == ToolCall(i)
           a == Append(l, e)
           t == TraceOf(l)
<1>1. l \in Seq(Events) /\ Len(l) >= 2 /\ Len(l) \in Nat
  BY DEF Good, Ordered
<1>2. /\ e \in Events /\ a \in Seq(Events) /\ Len(a) = Len(l) + 1
      /\ At(a, "tool/call", i) = At(l, "tool/call", i) \cup {Len(l) + 1}
      /\ \A j \in Calls \ {i} : At(a, "tool/call", j) = At(l, "tool/call", j)
      /\ \A j \in Calls : At(a, "tool/result", j) = At(l, "tool/result", j)
      /\ \A j \in Calls : Called(a, j) <=> Called(l, j) \/ j = i
      /\ \A j \in Calls : AnsweredIn(a, j) <=> AnsweredIn(l, j)
      /\ HasMessage(a) /\ ~Ended(a) /\ ~Closed(a) /\ ~Ended(l) /\ ~Closed(l)
  BY <1>1, RecordFacts DEF Good, Ordered, MayRecord, Open
<1>3. e.type = "tool/call" /\ e.turn = 1 /\ e.step = 1 /\ e.call = i
  BY DEF ToolCall
<1>4. t = Trace(1, 1, 1, 1, Pending(l))
  BY <1>2 DEF Good, TraceFits, Open
<1>5. TraceOf(a) = After(t, e) /\ ScanOf(a) = ScanEvent(ScanOf(l), e)
      /\ (Valid(a) <=> Valid(l) /\ Accepts(t, e))
  BY <1>1, <1>2, TraceMoves, ScanMoves, ValidMoves
<1>6. \A p \in DOMAIN l : a[p] = l[p]
  BY <1>1, <1>2, AtAppend
<1>7. MayRecord(l, i) /\ Good(l)
  OBVIOUS
<1> HIDE DEF e, a, t
<1>8. Ordered(a)
  BY <1>1, <1>2 DEF Ordered
<1>9. TraceFits(a)
  <2>1. Pending(a) = Pending(l) \cup {i}
    BY <1>2, <1>7 DEF Pending, MayRecord
  <2>2. After(t, e) = [t EXCEPT !.pendingCalls = @ \cup {i}]
    BY <1>3 DEF After
  <2>3. After(t, e) = Trace(1, 1, 1, 1, Pending(a))
    BY <1>4, <2>1, <2>2 DEF Trace
  <2> QED BY <1>2, <1>5, <2>3 DEF TraceFits, Open
<1>10. Valid(a)
  <2>1. Accepts(t, e)
    BY <1>3, <1>4 DEF Accepts, InOpenStep, Trace
  <2> QED BY <2>1, <1>5, <1>7 DEF Good
<1>11. ScanFits(a)
  <2>1. PICK entries : /\ ScanOf(l) = [turn |-> 1, step |-> 1, calls |-> entries]
                       /\ EntriesFit(l, entries)
    BY <1>2, <1>7 DEF Good, ScanFits, Open
  <2> DEFINE marked == [k \in DOMAIN entries |->
                IF entries[k].call = i THEN [entries[k] EXCEPT !.logged = TRUE]
                ELSE entries[k]]
  <2>2. entries \in Seq(ScanEntry)
    BY <2>1 DEF EntriesFit
  <2>3. ScanOf(a) = [turn |-> 1, step |-> 1, calls |-> marked]
    <3> DEFINE s == ScanOf(l)
    <3>1. s.calls = entries
      BY <2>1
    <3>2. ScanEvent(s, e) = [s EXCEPT !.calls = [k \in DOMAIN s.calls |->
                                IF s.calls[k].call = e.call THEN [s.calls[k] EXCEPT !.logged = TRUE]
                                ELSE s.calls[k]]]
      BY <1>3, ScanCases
    <3>3. ScanEvent(s, e) = [s EXCEPT !.calls = marked]
      BY <1>3, <3>1, <3>2
    <3> HIDE DEF marked
    <3> QED BY <1>5, <2>1, <3>3
  <2>4. /\ marked \in Seq(ScanEntry) /\ DOMAIN marked = DOMAIN entries
        /\ \A k \in DOMAIN entries : /\ marked[k].call = entries[k].call
                                     /\ marked[k].logged <=> entries[k].logged \/ entries[k].call = i
    <3>1. ASSUME NEW k \in DOMAIN entries
          PROVE  /\ marked[k] \in ScanEntry /\ marked[k].call = entries[k].call
                 /\ marked[k].logged <=> entries[k].logged \/ entries[k].call = i
      <4>1. entries[k] \in ScanEntry
        BY <2>2
      <4>2. CASE entries[k].call = i
        <5>1. marked[k] = [entries[k] EXCEPT !.logged = TRUE]
          BY <4>2
        <5> QED BY <4>1, <4>2, <5>1 DEF ScanEntry
      <4>3. CASE entries[k].call # i
        BY <4>1, <4>3
      <4> QED BY <4>2, <4>3
    <3>2. DOMAIN marked = 1..Len(entries) /\ Len(entries) \in Nat /\ DOMAIN entries = 1..Len(entries)
      BY <2>2
    <3>3. marked \in [1..Len(entries) -> ScanEntry]
      BY <3>1, <3>2
    <3> QED BY <3>1, <3>2, <3>3, Traces!IsASeq
  <2> HIDE DEF marked
  <2>5. EntriesFit(a, marked)
    <3>1. Unanswered(a) = Unanswered(l)
      BY <1>2 DEF Unanswered
    <3>2. EntriesFit(l, entries)
      BY <2>1
    <3>3. \A k \in DOMAIN marked : marked[k].logged <=> Called(a, marked[k].call)
      <4>1. \A k \in DOMAIN entries : entries[k].call \in Calls
        BY <3>2 DEF EntriesFit, Unanswered
      <4> QED BY <1>2, <2>4, <3>2, <4>1 DEF EntriesFit
    <3>4. \A j, k \in DOMAIN marked : marked[j].call = marked[k].call => j = k
      BY <2>4, <3>2 DEF EntriesFit
    <3>5. \A k \in DOMAIN marked : marked[k].call \in Unanswered(a)
      BY <2>4, <3>1, <3>2 DEF EntriesFit
    <3>6. \A j \in Unanswered(a) : \E k \in DOMAIN marked : marked[k].call = j
      BY <1>7, <2>4, <3>1, <3>2 DEF EntriesFit, MayRecord
    <3> QED BY <1>2, <2>4, <3>3, <3>4, <3>5, <3>6 DEF EntriesFit
  <2> QED BY <1>2, <2>3, <2>5 DEF ScanFits, Open
<1>12. Once(a)
  <2>1. ASSUME NEW j \in Calls
        PROVE  /\ \A p, q \in At(a, "tool/call", j) : p = q
               /\ \A p, q \in At(a, "tool/result", j) : p = q
               /\ \A p \in At(a, "tool/result", j) :
                     /\ a[p].outcome = "unknown" => Called(a, j)
                     /\ a[p].outcome = "not-started" => ~Called(a, j)
    <3>1. At(l, "tool/call", i) = {} /\ At(l, "tool/result", i) = {}
      BY <1>7 DEF MayRecord, Called, AnsweredIn
    <3>2. \A p \in At(l, "tool/result", j) : p \in DOMAIN l /\ a[p] = l[p]
      BY <1>6 DEF At
    <3>3. Once(l)
      BY <1>7 DEF Good
    <3>4. CASE j = i
      BY <1>2, <3>1, <3>4
    <3>5. CASE j # i
      BY <1>2, <3>2, <3>3, <3>5 DEF Once
    <3> QED BY <3>4, <3>5
  <2> QED BY <2>1 DEF Once
<1> QED BY <1>8, <1>9, <1>10, <1>11, <1>12 DEF Good, a, e

\* Deleting a call from the scan's entries keeps the others.
LEMMA WithoutFits ==
  ASSUME NEW entries \in Seq(ScanEntry), NEW i,
         \A j, k \in DOMAIN entries : entries[j].call = entries[k].call => j = k
  PROVE  LET rest == Without(entries, i) IN
         /\ rest \in Seq(ScanEntry)
         /\ \A k \in DOMAIN rest : \E j \in DOMAIN entries :
               rest[k] = entries[j] /\ entries[j].call # i
         /\ \A j \in DOMAIN entries : entries[j].call # i =>
               \E k \in DOMAIN rest : rest[k] = entries[j]
         /\ \A j, k \in DOMAIN rest : rest[j].call = rest[k].call => j = k
<1> DEFINE rest == Without(entries, i)
           n == Len(entries)
<1>0. n \in Nat /\ DOMAIN entries = 1..n
  OBVIOUS
<1>1. CASE ~\E k \in DOMAIN entries : entries[k].call = i
  <2>1. rest = entries
    BY <1>1 DEF Without
  <2> QED BY <1>1, <2>1
<1>2. CASE \E k \in DOMAIN entries : entries[k].call = i
  <2> DEFINE x == CHOOSE k \in DOMAIN entries : entries[k].call = i
  <2>1. x \in DOMAIN entries /\ entries[x].call = i
    BY <1>2
  <2>2. rest = RemoveAt(entries, x)
    BY <1>2 DEF Without
  <2> HIDE DEF x, rest
  <2>3. /\ rest \in Seq(ScanEntry) /\ Len(rest) = n - 1
        /\ \A j \in 1..(n - 1) : rest[j] = IF j < x THEN entries[j] ELSE entries[j + 1]
    BY <2>1, <2>2, Traces!RemoveAtFacts DEF RemoveAt, Traces!RemoveAt
  <2>4. DOMAIN rest = 1..(n - 1) /\ x \in 1..n
    BY <1>0, <2>1, <2>3
  <2> HIDE DEF n
  <2> DEFINE old(k) == IF k < x THEN k ELSE k + 1
  <2>5. \A k \in DOMAIN rest : old(k) \in DOMAIN entries /\ old(k) # x /\ rest[k] = entries[old(k)]
    BY <1>0, <2>3, <2>4
  <2>6. \A k \in DOMAIN rest : entries[old(k)].call # i
    BY <2>1, <2>5
  <2>7. \A j \in DOMAIN entries : entries[j].call # i =>
               \E k \in DOMAIN rest : rest[k] = entries[j]
    <3> SUFFICES ASSUME NEW j \in DOMAIN entries, entries[j].call # i
                 PROVE  \E k \in DOMAIN rest : rest[k] = entries[j]
      OBVIOUS
    <3>1. j # x
      BY <2>1
    <3>2. CASE j < x
      <4>1. j \in DOMAIN rest /\ rest[j] = entries[j]
        BY <1>0, <2>3, <2>4, <3>2
      <4> QED BY <4>1
    <3>3. CASE j > x
      <4>1. j - 1 \in DOMAIN rest /\ ~(j - 1 < x) /\ (j - 1) + 1 = j
        BY <1>0, <2>4, <3>3
      <4>2. rest[j - 1] = entries[j]
        BY <2>3, <2>4, <4>1
      <4> QED BY <4>1, <4>2
    <3> QED BY <1>0, <2>4, <3>1, <3>2, <3>3
  <2>8. ASSUME NEW j \in DOMAIN rest, NEW k \in DOMAIN rest, rest[j].call = rest[k].call
        PROVE  j = k
    <3>1. old(j) = old(k)
      BY <2>5, <2>8
    <3> QED BY <2>4, <3>1
  <2>9. \A k \in DOMAIN rest : \E j \in DOMAIN entries :
               rest[k] = entries[j] /\ entries[j].call # i
    BY <2>5, <2>6
  <2> QED BY <2>3, <2>7, <2>8, <2>9 DEF rest
<1> QED BY <1>1, <1>2

\* A result for a call that has none.
LEMMA GoodResult ==
  ASSUME NEW l, Good(l), NEW i \in Calls, NEW outcome \in Outcomes, MayAnswer(l, i, outcome)
  PROVE  Good(Append(l, ToolResult(i, outcome)))
<1> DEFINE e == ToolResult(i, outcome)
           a == Append(l, e)
           t == TraceOf(l)
<1>1. l \in Seq(Events) /\ Len(l) >= 2 /\ Len(l) \in Nat
  BY DEF Good, Ordered
<1>2. /\ e \in Events /\ a \in Seq(Events) /\ Len(a) = Len(l) + 1
      /\ At(a, "tool/result", i) = At(l, "tool/result", i) \cup {Len(l) + 1}
      /\ \A j \in Calls \ {i} : At(a, "tool/result", j) = At(l, "tool/result", j)
      /\ \A j \in Calls : At(a, "tool/call", j) = At(l, "tool/call", j)
      /\ \A j \in Calls : AnsweredIn(a, j) <=> AnsweredIn(l, j) \/ j = i
      /\ \A j \in Calls : Called(a, j) <=> Called(l, j)
      /\ HasMessage(a) /\ ~Ended(a) /\ ~Closed(a) /\ ~Ended(l) /\ ~Closed(l)
  BY <1>1, ResultFacts DEF Good, Ordered, MayAnswer, Open
<1>3. e.type = "tool/result" /\ e.turn = 1 /\ e.step = 1 /\ e.call = i /\ e.outcome = outcome
  BY DEF ToolResult
<1>4. t = Trace(1, 1, 1, 1, Pending(l))
  BY <1>2 DEF Good, TraceFits, Open
<1>5. TraceOf(a) = After(t, e) /\ ScanOf(a) = ScanEvent(ScanOf(l), e)
      /\ (Valid(a) <=> Valid(l) /\ Accepts(t, e))
  BY <1>1, <1>2, TraceMoves, ScanMoves, ValidMoves
<1>6. (\A p \in DOMAIN l : a[p] = l[p]) /\ a[Len(l) + 1] = e
  BY <1>1, <1>2, AtAppend
<1>7. MayAnswer(l, i, outcome) /\ Good(l)
  OBVIOUS
<1> HIDE DEF e, a, t
<1>8. Ordered(a)
  BY <1>1, <1>2 DEF Ordered
<1>9. TraceFits(a)
  <2>1. Pending(a) = Pending(l) \ {i}
    BY <1>2, <1>7 DEF Pending, MayAnswer
  <2>2. After(t, e) = [t EXCEPT !.pendingCalls = @ \ {i}]
    BY <1>3 DEF After
  <2>3. After(t, e) = Trace(1, 1, 1, 1, Pending(a))
    BY <1>4, <2>1, <2>2 DEF Trace
  <2> QED BY <1>2, <1>5, <2>3 DEF TraceFits, Open
<1>10. Valid(a)
  <2>1. i \in t.pendingCalls \/ outcome = "not-started"
    BY <1>4, <1>7 DEF Trace, Pending, MayAnswer
  <2>2. Accepts(t, e)
    BY <1>3, <1>4, <2>1 DEF Accepts, InOpenStep, Trace
  <2> QED BY <2>2, <1>5, <1>7 DEF Good
<1>11. ScanFits(a)
  <2>1. PICK entries : /\ ScanOf(l) = [turn |-> 1, step |-> 1, calls |-> entries]
                       /\ EntriesFit(l, entries)
    BY <1>2, <1>7 DEF Good, ScanFits, Open
  <2> DEFINE rest == Without(entries, i)
  <2>2. ScanOf(a) = [turn |-> 1, step |-> 1, calls |-> rest]
    <3> DEFINE s == ScanOf(l)
    <3>1. ScanEvent(s, e) = [s EXCEPT !.calls = Without(s.calls, e.call)]
      BY <1>3, ScanCases
    <3> QED BY <1>3, <1>5, <2>1, <3>1
  <2>3. /\ entries \in Seq(ScanEntry)
        /\ \A j, k \in DOMAIN entries : entries[j].call = entries[k].call => j = k
    BY <2>1 DEF EntriesFit
  <2>4. /\ rest \in Seq(ScanEntry)
        /\ \A k \in DOMAIN rest : \E j \in DOMAIN entries :
               rest[k] = entries[j] /\ entries[j].call # i
        /\ \A j \in DOMAIN entries : entries[j].call # i =>
               \E k \in DOMAIN rest : rest[k] = entries[j]
        /\ \A j, k \in DOMAIN rest : rest[j].call = rest[k].call => j = k
    BY <2>3, WithoutFits
  <2> HIDE DEF rest
  <2>5. EntriesFit(a, rest)
    <3>1. Unanswered(a) = Unanswered(l) \ {i}
      BY <1>2 DEF Unanswered
    <3>2. \A k \in DOMAIN rest : /\ rest[k].call \in Unanswered(a)
                                 /\ rest[k].logged <=> Called(a, rest[k].call)
      <4> SUFFICES ASSUME NEW k \in DOMAIN rest
                   PROVE  /\ rest[k].call \in Unanswered(a)
                          /\ rest[k].logged <=> Called(a, rest[k].call)
        OBVIOUS
      <4>1. PICK j \in DOMAIN entries : rest[k] = entries[j] /\ entries[j].call # i
        BY <2>4
      <4>2. entries[j].call \in Unanswered(l) /\ (entries[j].logged <=> Called(l, entries[j].call))
        BY <2>1 DEF EntriesFit
      <4>3. entries[j].call \in Calls
        BY <4>2 DEF Unanswered
      <4> QED BY <1>2, <3>1, <4>1, <4>2, <4>3
    <3>3. \A j \in Unanswered(a) : \E k \in DOMAIN rest : rest[k].call = j
      <4> SUFFICES ASSUME NEW j \in Unanswered(a) PROVE \E k \in DOMAIN rest : rest[k].call = j
        OBVIOUS
      <4>1. PICK k \in DOMAIN entries : entries[k].call = j
        BY <1>7, <2>1, <3>1 DEF EntriesFit, MayAnswer
      <4>2. PICK m \in DOMAIN rest : rest[m] = entries[k]
        BY <2>4, <3>1, <4>1
      <4> QED BY <4>1, <4>2
    <3> QED BY <1>2, <2>4, <3>2, <3>3 DEF EntriesFit
  <2> QED BY <1>2, <2>2, <2>5 DEF ScanFits, Open
<1>12. Once(a)
  <2>1. ASSUME NEW j \in Calls
        PROVE  /\ \A p, q \in At(a, "tool/call", j) : p = q
               /\ \A p, q \in At(a, "tool/result", j) : p = q
               /\ \A p \in At(a, "tool/result", j) :
                     /\ a[p].outcome = "unknown" => Called(a, j)
                     /\ a[p].outcome = "not-started" => ~Called(a, j)
    <3>1. At(l, "tool/result", i) = {} /\ (outcome = "not-started" <=> ~Called(l, i))
      BY <1>7 DEF MayAnswer, AnsweredIn
    <3>2. \A p \in At(l, "tool/result", j) : p \in DOMAIN l /\ a[p] = l[p]
      BY <1>6 DEF At
    <3>3. Once(l)
      BY <1>7 DEF Good
    <3>4. CASE j = i
      BY <1>2, <1>3, <1>6, <3>1, <3>3, <3>4 DEF Once
    <3>5. CASE j # i
      BY <1>2, <3>2, <3>3, <3>5 DEF Once
    <3> QED BY <3>4, <3>5
  <2> QED BY <2>1 DEF Once
<1> QED BY <1>8, <1>9, <1>10, <1>11, <1>12 DEF Good, a, e

\* The end of the step.
LEMMA GoodStepEnd ==
  ASSUME NEW l, Good(l), Open(l)
  PROVE  /\ Good(Append(l, Event("step/end"))) /\ Ended(Append(l, Event("step/end")))
         /\ ~Closed(Append(l, Event("step/end")))
<1> DEFINE e == Event("step/end")
           a == Append(l, e)
           t == TraceOf(l)
<1>1. l \in Seq(Events) /\ Len(l) >= 2 /\ Len(l) \in Nat /\ ~Ended(l) /\ ~Closed(l)
  BY DEF Good, Ordered, Open
<1>2. e \in Boundaries /\ e \in Events /\ e.type = "step/end" /\ e.turn = 1 /\ e.step = 1
  BY DEF Boundaries, Event, Events
<1>3. /\ a \in Seq(Events) /\ Len(a) = Len(l) + 1
      /\ \A kind \in {"tool/call", "tool/result"} : \A j : At(a, kind, j) = At(l, kind, j)
      /\ \A j \in Calls : /\ Called(a, j) <=> Called(l, j)
                          /\ AnsweredIn(a, j) <=> AnsweredIn(l, j)
  BY <1>1, <1>2, BoundaryFacts
<1>4. /\ \A p \in DOMAIN l : a[p] = l[p]
      /\ HasMessage(l) => HasMessage(a)
      /\ Ended(a) /\ ~Closed(a)
  BY <1>1, <1>2, AtAppend
<1>5. t = Trace(1, 1, 1, 1, Pending(l))
  BY <1>1 DEF Good, TraceFits, Open
<1>6. TraceOf(a) = After(t, e) /\ ScanOf(a) = ScanEvent(ScanOf(l), e)
      /\ (Valid(a) <=> Valid(l) /\ Accepts(t, e))
  BY <1>1, <1>2, TraceMoves, ScanMoves, ValidMoves
<1>7. Good(l) /\ Open(l)
  OBVIOUS
<1> HIDE DEF e, a, t
<1>8. Ordered(a)
  BY <1>1, <1>3, <1>4, <1>7 DEF Ordered, Good
<1>9. TraceFits(a)
  <2>1. After(t, e) = [t EXCEPT !.openStep = 0, !.nextStep = @ + 1, !.pendingCalls = {}]
    BY <1>2 DEF After
  <2>3. After(t, e) = Trace(1, 0, 1, 2, {})
    BY <1>5, <2>1, EndsOfTrace
  <2> QED BY <1>4, <1>6, <2>3 DEF TraceFits, Open
<1>10. Valid(a)
  <2>1. Accepts(t, e)
    BY <1>2, <1>5 DEF Accepts, InOpenStep, Trace
  <2> QED BY <2>1, <1>6, <1>7 DEF Good
<1>11. ScanFits(a)
  <2>1. PICK entries : ScanOf(l) = [turn |-> 1, step |-> 1, calls |-> entries]
    BY <1>1, <1>7 DEF Good, ScanFits, Open
  <2>2. ScanEvent(ScanOf(l), e) = [ScanOf(l) EXCEPT !.step = 0, !.calls = <<>>]
    BY <1>2, ScanCases
  <2>3. ScanOf(a) = [turn |-> 1, step |-> 0, calls |-> <<>>]
    BY <1>6, <2>1, <2>2, EndsOfTrace
  <2> QED BY <1>4, <2>3 DEF ScanFits, Open
<1>12. Once(a)
  <2>1. \A j : \A p \in At(l, "tool/result", j) : p \in DOMAIN l /\ a[p] = l[p]
    BY <1>4 DEF At
  <2> QED BY <1>3, <1>7, <2>1 DEF Once, Good
<1> QED BY <1>4, <1>8, <1>9, <1>10, <1>11, <1>12 DEF Good, a, e

\* The end of the turn.
LEMMA GoodTurnEnd ==
  ASSUME NEW l, Good(l), Ended(l), ~Closed(l)
  PROVE  /\ Good(Append(l, TurnEnd)) /\ Ended(Append(l, TurnEnd)) /\ Closed(Append(l, TurnEnd))
<1> DEFINE e == TurnEnd
           a == Append(l, e)
           t == TraceOf(l)
<1>1. l \in Seq(Events) /\ Len(l) >= 2 /\ Len(l) \in Nat /\ Ended(l) /\ ~Closed(l)
  BY DEF Good, Ordered
<1>2. e \in Boundaries /\ e \in Events /\ e.type = "turn/end" /\ e.turn = 1
  BY DEF Boundaries, Events, TurnEnd
<1>3. /\ a \in Seq(Events) /\ Len(a) = Len(l) + 1
      /\ \A kind \in {"tool/call", "tool/result"} : \A j : At(a, kind, j) = At(l, kind, j)
      /\ \A j \in Calls : /\ Called(a, j) <=> Called(l, j)
                          /\ AnsweredIn(a, j) <=> AnsweredIn(l, j)
  BY <1>1, <1>2, BoundaryFacts
<1>4. /\ \A p \in DOMAIN l : a[p] = l[p]
      /\ HasMessage(l) => HasMessage(a)
      /\ Ended(a) /\ Closed(a)
  BY <1>1, <1>2, AtAppend
<1>5. t = Trace(1, 0, 1, 2, {})
  BY <1>1 DEF Good, TraceFits, Open
<1>6. TraceOf(a) = After(t, e) /\ ScanOf(a) = ScanEvent(ScanOf(l), e)
      /\ (Valid(a) <=> Valid(l) /\ Accepts(t, e))
  BY <1>1, <1>2, TraceMoves, ScanMoves, ValidMoves
<1>7. Good(l)
  OBVIOUS
<1> HIDE DEF e, a, t
<1>8. Ordered(a)
  BY <1>1, <1>3, <1>4, <1>7 DEF Ordered, Good
<1>9. TraceFits(a)
  <2>1. After(t, e) = [t EXCEPT !.openTurn = 0, !.nextTurn = @ + 1]
    BY <1>2 DEF After
  <2>3. After(t, e) = Trace(0, 0, 2, 2, {})
    BY <1>5, <2>1, EndsOfTrace
  <2> QED BY <1>4, <1>6, <2>3 DEF TraceFits, Open
<1>10. Valid(a)
  <2>1. Accepts(t, e)
    BY <1>2, <1>5 DEF Accepts, InOpenStep, Trace
  <2> QED BY <2>1, <1>6, <1>7 DEF Good
<1>11. ScanFits(a)
  BY <1>2, <1>4, <1>6, ScanCases DEF ScanFits, Open
<1>12. Once(a)
  <2>1. \A j : \A p \in At(l, "tool/result", j) : p \in DOMAIN l /\ a[p] = l[p]
    BY <1>4 DEF At
  <2> QED BY <1>3, <1>7, <2>1 DEF Once, Good
<1> QED BY <1>4, <1>8, <1>9, <1>10, <1>11, <1>12 DEF Good, a, e

-----------------------------------------------------------------------------
(* Every prefix of a log. *)

\* A step that ended without a scheduler failure f has answered every call.
Ends(l, f) == Ended(l) /\ HasMessage(l) => f = TRUE \/ Unanswered(l) = {}

\* A crash may leave any prefix that is at least as long as what the request
\* had made durable.
Sound(l, f) ==
    /\ l \in Seq(Events) /\ Len(l) >= 2
    /\ \A n \in 2..Len(l) : Good(SubSeq(l, 1, n)) /\ Ends(SubSeq(l, 1, n), f)

\* The whole log is one of its beginnings.
LEMMA SoundIsGood ==
  ASSUME NEW l, NEW f, Sound(l, f)
  PROVE  Good(l) /\ Ends(l, f) /\ l \in Seq(Events) /\ Len(l) >= 2 /\ Len(l) \in Nat
<1>1. l \in Seq(Events) /\ Len(l) >= 2 /\ Len(l) \in Nat
  BY DEF Sound
<1>2. SubSeq(l, 1, Len(l)) = l /\ Len(l) \in 2..Len(l)
  BY <1>1
<1> QED BY <1>1, <1>2 DEF Sound

\* A log stays sound if the event that is appended leaves it good.
LEMMA SoundAppend ==
  ASSUME NEW l, NEW f, Sound(l, f), NEW e \in Events,
         Good(Append(l, e)), Ends(Append(l, e), f)
  PROVE  Sound(Append(l, e), f)
<1> DEFINE a == Append(l, e)
<1>1. l \in Seq(Events) /\ Len(l) >= 2 /\ Len(l) \in Nat
  BY SoundIsGood
<1>2. a \in Seq(Events) /\ Len(a) = Len(l) + 1
  BY <1>1
<1>3. ASSUME NEW n \in 2..Len(a) PROVE Good(SubSeq(a, 1, n)) /\ Ends(SubSeq(a, 1, n), f)
  <2>1. CASE n = Len(a)
    <3>1. SubSeq(a, 1, n) = a
      BY <1>2, <2>1
    <3> QED BY <3>1
  <2>2. CASE n # Len(a)
    <3>1. n \in 2..Len(l)
      BY <1>1, <1>2, <2>2
    <3>2. SubSeq(a, 1, n) = SubSeq(l, 1, n)
      BY <1>1, <1>2, <3>1
    <3> QED BY <3>1, <3>2 DEF Sound
  <2> QED BY <2>1, <2>2
<1> QED BY <1>1, <1>2, <1>3 DEF Sound

\* A beginning of a sound log is sound: this is what a crash leaves.
LEMMA SoundCut ==
  ASSUME NEW l, NEW f, Sound(l, f), NEW m \in 2..Len(l)
  PROVE  Sound(SubSeq(l, 1, m), f) /\ Len(SubSeq(l, 1, m)) = m
<1>1. l \in Seq(Events) /\ Len(l) >= 2 /\ Len(l) \in Nat
  BY SoundIsGood
<1> DEFINE a == SubSeq(l, 1, m)
<1>2. a \in Seq(Events) /\ Len(a) = m
  BY <1>1
<1>3. ASSUME NEW n \in 2..m PROVE SubSeq(a, 1, n) = SubSeq(l, 1, n) /\ n \in 2..Len(l)
  BY <1>1, <1>2
<1>4. ASSUME NEW n \in 2..m PROVE Good(SubSeq(a, 1, n)) /\ Ends(SubSeq(a, 1, n), f)
  <2>1. Good(SubSeq(l, 1, n)) /\ Ends(SubSeq(l, 1, n), f)
    BY <1>3 DEF Sound
  <2> QED BY <1>3, <2>1
<1>5. m >= 2
  BY <1>1
<1> HIDE DEF a
<1>6. Sound(a, f)
  BY <1>2, <1>4, <1>5 DEF Sound
<1> QED BY <1>2, <1>6 DEF a

\* A failure that comes later does not unmake it.
LEMMA SoundAfterFailure ==
  ASSUME NEW l, NEW f, NEW g, Sound(l, f), f = g \/ g = TRUE
  PROVE  Sound(l, g)
  BY DEF Sound, Ends

\* The log with which the step begins.
Prologue == <<TurnStart, Event("step/start")>>

\* The log with which the scheduler starts.
LEMMA PrologueIsSound ==
  ASSUME NEW f
  PROVE  Sound(Prologue, f) /\ ~HasMessage(Prologue) /\ Open(Prologue)
<1> DEFINE e1 == TurnStart
           e2 == Event("step/start")
           l1 == Append(<<>>, e1)
           l2 == Append(l1, e2)
<1>1. e1 \in Events /\ e2 \in Events /\ <<>> \in Seq(Events) /\ l1 \in Seq(Events)
  BY DEF Events, Boundaries
<1>2. Prologue = l2 /\ Len(Prologue) = 2 /\ Prologue \in Seq(Events) /\ DOMAIN Prologue = 1..2
  BY <1>1 DEF Prologue
<1>3. Prologue[1] = e1 /\ Prologue[2] = e2
  BY DEF Prologue
<1>4. \A p \in 1..2 : p = 1 \/ p = 2
  OBVIOUS
<1>5. /\ e1.type = "turn/start" /\ e1.turn = 1
      /\ e2.type = "step/start" /\ e2.turn = 1 /\ e2.step = 1
  BY DEF TurnStart, Event
<1>6. /\ \A kind \in {"tool/call", "tool/result"} : \A i : At(Prologue, kind, i) = {}
      /\ ~Ended(Prologue) /\ ~Closed(Prologue)
  BY <1>2, <1>3, <1>4, <1>5 DEF At, Ended, Closed
<1>7. ~HasMessage(Prologue)
  BY <1>2 DEF HasMessage
<1>8. \A i \in Calls : ~Called(Prologue, i) /\ ~AnsweredIn(Prologue, i)
  BY <1>6 DEF Called, AnsweredIn
<1> DEFINE t0 == FreshTrace
           t1 == TraceOf(l1)
<1>9. TraceOf(<<>>) = t0 /\ t1 = After(t0, e1) /\ TraceOf(l2) = After(t1, e2)
      /\ ScanOf(<<>>) = FreshScan
      /\ ScanOf(l1) = ScanEvent(FreshScan, e1) /\ ScanOf(l2) = ScanEvent(ScanOf(l1), e2)
      /\ Valid(<<>>) /\ (Valid(l1) <=> Valid(<<>>) /\ Accepts(t0, e1))
      /\ (Valid(l2) <=> Valid(l1) /\ Accepts(t1, e2))
  BY <1>1, TraceMoves, ScanMoves, ValidMoves
<1>10. FreshTrace = Trace(0, 0, 1, 1, {})
  BY DEF FreshTrace, Trace
<1> HIDE DEF e1, e2, l1, l2, t0
<1>11. t1 = Trace(1, 0, 1, 1, {})
  <2>1. After(t0, e1) = [t0 EXCEPT !.openTurn = 1, !.nextStep = 1]
    BY <1>5 DEF After
  <2> DEFINE r == [t0 EXCEPT !.openTurn = 1, !.nextStep = 1]
  <2>2. r = [f1 \in DOMAIN t0 |-> r[f1]]
    OBVIOUS
  <2>3. /\ r.openTurn = 1 /\ r.openStep = 0 /\ r.nextTurn = 1 /\ r.nextStep = 1
        /\ r.pendingCalls = {}
        /\ DOMAIN t0 = {"openTurn", "openStep", "nextTurn", "nextStep", "pendingCalls"}
    BY <1>10 DEF Trace, t0
  <2> HIDE DEF r
  <2>4. r = Trace(1, 0, 1, 1, {})
    BY <2>2, <2>3 DEF Trace
  <2> QED BY <1>9, <2>1, <2>4 DEF r
<1> HIDE DEF t1
<1>12. TraceOf(l2) = Trace(1, 1, 1, 1, {})
  <2>1. After(t1, e2) = [t1 EXCEPT !.openStep = e2.step]
    BY <1>5 DEF After
  <2>2. [Trace(1, 0, 1, 1, {}) EXCEPT !.openStep = 1] = Trace(1, 1, 1, 1, {})
    BY DEF Trace
  <2> QED BY <1>5, <1>9, <1>11, <2>1, <2>2
<1>13. Valid(l2)
  <2>1. Accepts(t0, e1)
    BY <1>5, <1>10 DEF Accepts, Trace, t0
  <2>2. Accepts(t1, e2)
    BY <1>5, <1>11 DEF Accepts, Trace
  <2> QED BY <2>1, <2>2, <1>9
<1>14. ScanOf(l2) = [turn |-> 1, step |-> 1, calls |-> <<>>]
  <2>1. ScanOf(l1) = [turn |-> 1, step |-> 0, calls |-> <<>>]
    <3>1. ScanEvent(FreshScan, e1) = [turn |-> e1.turn, step |-> 0, calls |-> <<>>]
      BY <1>5 DEF ScanEvent
    <3> QED BY <1>5, <1>9, <3>1
  <2>2. ScanEvent(ScanOf(l1), e2) = [ScanOf(l1) EXCEPT !.step = e2.step]
    BY <1>5, ScanCases
  <2>3. [[turn |-> 1, step |-> 0, calls |-> <<>>] EXCEPT !.step = 1]
          = [turn |-> 1, step |-> 1, calls |-> <<>>]
    OBVIOUS
  <2> QED BY <1>5, <1>9, <2>1, <2>2, <2>3
<1>15. Ordered(Prologue)
  BY <1>2, <1>6, <1>8 DEF Ordered
<1>16. TraceFits(Prologue)
  <2>1. Pending(Prologue) = {}
    BY <1>8 DEF Pending
  <2> QED BY <1>2, <1>6, <1>12, <2>1 DEF TraceFits, Open
<1>17. ScanFits(Prologue)
  <2>1. EntriesFit(Prologue, <<>>)
    BY <1>7 DEF EntriesFit
  <2> QED BY <1>2, <1>6, <1>14, <2>1 DEF ScanFits, Open
<1>18. Once(Prologue)
  BY <1>6 DEF Once
<1>19. Good(Prologue) /\ Ends(Prologue, f)
  BY <1>2, <1>6, <1>13, <1>15, <1>16, <1>17, <1>18 DEF Good, Ends
<1>20. SubSeq(Prologue, 1, 2) = Prologue
  BY <1>2
<1>21. ASSUME NEW n \in 2..2
       PROVE  Good(SubSeq(Prologue, 1, n)) /\ Ends(SubSeq(Prologue, 1, n), f)
  <2>1. n = 2
    OBVIOUS
  <2> QED BY <1>19, <1>20, <2>1
<1> QED BY <1>2, <1>6, <1>7, <1>21 DEF Sound, Open

\* The log of Init.
LEMMA MessageIsSound ==
  ASSUME NEW f
  PROVE  LET l == Append(Prologue, Message) IN
         /\ Sound(l, f) /\ HasMessage(l) /\ Open(l) /\ Len(l) = 3
         /\ \A kind \in {"tool/call", "tool/result"} : \A i : At(l, kind, i) = {}
<1> DEFINE l == Prologue
           e == Message
           a == Append(l, e)
           t == TraceOf(l)
<1>1. Sound(l, f) /\ ~HasMessage(l) /\ Open(l)
  BY PrologueIsSound
<1>2. Good(l) /\ l \in Seq(Events)
  BY <1>1, SoundIsGood
<1>3. Len(l) = 2 /\ \A kind \in {"tool/call", "tool/result"} : \A i : At(l, kind, i) = {}
  <2>1. Len(l) = 2 /\ DOMAIN l = 1..2 /\ l[1] = TurnStart /\ l[2] = Event("step/start")
    BY DEF Prologue
  <2>2. \A p \in 1..2 : p = 1 \/ p = 2
    OBVIOUS
  <2> QED BY <2>1, <2>2 DEF At, TurnStart, Event
<1>4. /\ e \in Boundaries /\ e \in Events
      /\ e.type = "assistant/message" /\ e.turn = 1 /\ e.step = 1
      /\ e.calls = [i \in Calls |-> i]
  BY DEF Boundaries, Events, Message
<1>5. t = Trace(1, 1, 1, 1, Pending(l))
  BY <1>1, <1>2 DEF Good, TraceFits
<1>6. /\ TraceOf(a) = After(t, e) /\ ScanOf(a) = ScanEvent(ScanOf(l), e)
      /\ Valid(a) <=> Valid(l) /\ Accepts(t, e)
  BY <1>2, <1>4, TraceMoves, ScanMoves, ValidMoves
<1>7. /\ a \in Seq(Events) /\ Len(a) = 3
      /\ \A kind \in {"tool/call", "tool/result"} : \A j : At(a, kind, j) = {}
      /\ \A j \in Calls : ~Called(a, j) /\ ~AnsweredIn(a, j)
  <2>1. /\ a \in Seq(Events) /\ Len(a) = Len(l) + 1
        /\ \A kind \in {"tool/call", "tool/result"} : \A j : At(a, kind, j) = At(l, kind, j)
    BY <1>2, <1>4, BoundaryFacts
  <2> QED BY <1>3, <2>1 DEF Called, AnsweredIn
<1>8. /\ HasMessage(a) /\ ~Ended(a)
      /\ Closed(a) <=> Closed(l)
  BY <1>1, <1>2, <1>3, <1>4, AtAppend DEF Open
<1>9. ~Closed(a)
  BY <1>1, <1>2, <1>8 DEF Good, Ordered, Open
<1>10. PICK entries : ScanOf(l) = [turn |-> 1, step |-> 1, calls |-> entries] /\ entries = <<>>
  BY <1>1, <1>2 DEF Good, ScanFits, EntriesFit
<1>11. \A i \in Calls : ~Called(l, i) /\ ~AnsweredIn(l, i)
  BY <1>3 DEF Called, AnsweredIn
<1> HIDE DEF l, e, a, t
<1>12. Ordered(a)
  BY <1>7, <1>8, <1>9 DEF Ordered
<1>13. TraceFits(a)
  <2>1. After(t, e) = t
    BY <1>4 DEF After
  <2>2. Pending(a) = {} /\ Pending(l) = {}
    BY <1>7, <1>11 DEF Pending
  <2> QED BY <1>5, <1>6, <1>8, <1>9, <2>1, <2>2 DEF TraceFits, Open
<1>14. Valid(a)
  <2>1. Accepts(t, e)
    BY <1>4, <1>5 DEF Accepts, InOpenStep, Trace
  <2> QED BY <1>2, <1>6, <2>1 DEF Good
<1>15. ScanFits(a)
  <2> DEFINE fresh == [i \in DOMAIN e.calls |->
                         [call |-> e.calls[i], step |-> e.step, logged |-> FALSE]]
  <2>0. e.type = "assistant/message"
    BY <1>4
  <2>1. ScanEvent(ScanOf(l), e) = [ScanOf(l) EXCEPT !.calls = ScanOf(l).calls \o fresh]
    BY <2>0 DEF ScanEvent
  <2>2. fresh = [i \in Calls |-> [call |-> i, step |-> 1, logged |-> FALSE]]
    BY <1>4
  <2> HIDE DEF fresh
  <2>3. NumCalls \in Nat /\ Calls = 1..NumCalls
    BY SchedulerAssumption DEF Calls
  <2>4. fresh \in Seq(ScanEntry) /\ DOMAIN fresh = Calls
    <3>1. fresh \in [1..NumCalls -> ScanEntry]
      BY <2>2, <2>3 DEF ScanEntry
    <3> QED BY <2>2, <2>3, <3>1, Traces!IsASeq
  <2>5. <<>> \o fresh = fresh
    BY <2>4
  <2>6. ScanOf(a) = [turn |-> 1, step |-> 1, calls |-> fresh]
    BY <1>6, <1>10, <2>1, <2>5
  <2>7. \A k \in Calls : fresh[k].call = k /\ fresh[k].logged = FALSE
    BY <2>2
  <2>8. Unanswered(a) = Calls
    BY <1>7 DEF Unanswered
  <2>9. EntriesFit(a, fresh)
    BY <1>7, <1>8, <2>4, <2>7, <2>8 DEF EntriesFit
  <2> QED BY <1>8, <1>9, <2>6, <2>9 DEF ScanFits, Open
<1>16. Once(a)
  BY <1>7 DEF Once
<1>17. Good(a) /\ Ends(a, f)
  BY <1>8, <1>12, <1>13, <1>14, <1>15, <1>16 DEF Good, Ends
<1>18. Sound(a, f)
  BY <1>1, <1>4, <1>17, SoundAppend DEF a
<1> QED BY <1>7, <1>8, <1>18 DEF a, e, l, Open

-----------------------------------------------------------------------------
(* The repair. *)

\* The result that the repair makes up for an entry of the scan.
MadeUp(entry) == ToolResult(entry.call, IF entry.logged THEN "unknown" ELSE "not-started")

\* What the closers of a log are.
LEMMA ClosersOfOpen ==
  ASSUME NEW l, Good(l), Open(l)
  PROVE  \E entries : LET k == Len(entries) IN
            /\ EntriesFit(l, entries)
            /\ Closers(l) \in Seq(Events) /\ Len(Closers(l)) = k + 2
            /\ \A j \in 1..k : Closers(l)[j] = MadeUp(entries[j])
            /\ Closers(l)[k + 1] = Event("step/end")
            /\ Closers(l)[k + 2] = TurnEnd
<1>1. PICK entries : /\ ScanOf(l) = [turn |-> 1, step |-> 1, calls |-> entries]
                     /\ EntriesFit(l, entries)
  BY DEF Good, ScanFits
<1> DEFINE k == Len(entries)
           results == [i \in DOMAIN entries |-> MadeUp(entries[i])]
<1>2. entries \in Seq(ScanEntry) /\ DOMAIN entries = 1..k /\ k \in Nat
  BY <1>1 DEF EntriesFit
<1>3. ASSUME NEW i \in DOMAIN entries
      PROVE  /\ MadeUp(entries[i]) \in Events
             /\ [type |-> "tool/result", turn |-> 1, step |-> entries[i].step,
                 call |-> entries[i].call,
                 outcome |-> IF entries[i].logged THEN "unknown" ELSE "not-started"]
                  = MadeUp(entries[i])
  <2>1. entries[i] \in ScanEntry
    BY <1>2
  <2>2. entries[i].call \in Calls /\ entries[i].step = 1
    BY <2>1 DEF ScanEntry
  <2>3. (IF entries[i].logged THEN "unknown" ELSE "not-started") \in Outcomes
    BY DEF Outcomes
  <2> QED BY <2>2, <2>3 DEF MadeUp, ToolResult, Events, Results
<1>4. results \in Seq(Events) /\ Len(results) = k
  <2>1. results \in [1..k -> Events]
    BY <1>2, <1>3
  <2> HIDE DEF results
  <2> QED BY <1>2, <2>1, Traces!IsASeq
<1>5. Closers(l) = results \o <<Event("step/end")>> \o <<TurnEnd>>
  <2> DEFINE s == ScanOf(l)
             made == [i \in DOMAIN s.calls |->
                        [type |-> "tool/result", turn |-> s.turn, step |-> s.calls[i].step,
                         call |-> s.calls[i].call,
                         outcome |-> IF s.calls[i].logged THEN "unknown" ELSE "not-started"]]
             stepEnd == [type |-> "step/end", turn |-> s.turn, step |-> s.step]
             turnEnd == [type |-> "turn/end", turn |-> s.turn, reason |-> "interrupted"]
  <2>1. s.turn = 1 /\ s.step = 1 /\ s.calls = entries
    BY <1>1
  <2>2. Closers(l) = made \o <<stepEnd>> \o <<turnEnd>>
    BY <2>1 DEF Closers
  <2>3. stepEnd = Event("step/end") /\ turnEnd = TurnEnd
    BY <2>1 DEF Event, TurnEnd
  <2>4. made = results
    BY <1>3, <2>1
  <2> QED BY <2>2, <2>3, <2>4
<1>6. Event("step/end") \in Events /\ TurnEnd \in Events
  BY DEF Events, Boundaries
<1> DEFINE e1 == Event("step/end")
           e2 == TurnEnd
           left == results \o <<e1>>
<1> HIDE DEF results, k, e1, e2
<1>7. /\ left \in Seq(Events) /\ Len(left) = k + 1 /\ left[k + 1] = e1
      /\ \A j \in 1..k : left[j] = results[j]
  BY <1>2, <1>4, <1>6 DEF e1, e2
<1> HIDE DEF left
<1>8. /\ left \o <<e2>> \in Seq(Events) /\ Len(left \o <<e2>>) = k + 2
      /\ (left \o <<e2>>)[k + 2] = e2
      /\ \A j \in 1..(k + 1) : (left \o <<e2>>)[j] = left[j]
  BY <1>2, <1>6, <1>7 DEF e1, e2
<1>9. Closers(l) = left \o <<e2>>
  BY <1>5 DEF left, e1, e2
<1>10. \A j \in 1..k : Closers(l)[j] = MadeUp(entries[j])
  <2>1. \A j \in 1..k : results[j] = MadeUp(entries[j])
    BY <1>2 DEF results
  <2>2. \A j \in 1..k : j \in 1..(k + 1)
    BY <1>2
  <2> QED BY <1>7, <1>8, <1>9, <2>1, <2>2
<1>11. k + 1 \in 1..(k + 1)
  BY <1>2
<1> QED BY <1>1, <1>7, <1>8, <1>9, <1>10, <1>11 DEF k, e1, e2

\* A log whose step has ended needs the end of its turn, or nothing.
LEMMA ClosersOfEnded ==
  ASSUME NEW l, Good(l), Ended(l)
  PROVE  /\ ~Closed(l) => Closers(l) = <<TurnEnd>>
         /\ Closed(l) => Closers(l) = <<>>
<1>1. CASE Closed(l)
  <2>1. ScanOf(l).turn = 0
    BY <1>1 DEF Good, ScanFits, FreshScan
  <2> QED BY <1>1, <2>1 DEF Closers
<1>2. CASE ~Closed(l)
  <2>1. ScanOf(l) = [turn |-> 1, step |-> 0, calls |-> <<>>]
    BY <1>2 DEF Good, ScanFits
  <2> DEFINE s == ScanOf(l)
             made == [i \in DOMAIN s.calls |->
                        [type |-> "tool/result", turn |-> s.turn, step |-> s.calls[i].step,
                         call |-> s.calls[i].call,
                         outcome |-> IF s.calls[i].logged THEN "unknown" ELSE "not-started"]]
             turnEnd == [type |-> "turn/end", turn |-> s.turn, reason |-> "interrupted"]
  <2>2. s.turn = 1 /\ s.step = 0 /\ s.calls = <<>>
    BY <2>1
  <2>3. Closers(l) = made \o <<>> \o <<turnEnd>>
    BY <2>2 DEF Closers
  <2>4. made = <<>> /\ turnEnd = TurnEnd
    BY <2>2 DEF TurnEnd
  <2>5. <<>> \o <<>> \o <<TurnEnd>> = <<TurnEnd>>
    OBVIOUS
  <2> QED BY <1>2, <2>3, <2>4, <2>5
<1> QED BY <1>1, <1>2

\* Records, results and boundaries that may come next keep every prefix good.
LEMMA SoundRecord ==
  ASSUME NEW l, NEW f, Sound(l, f), NEW i \in Calls, MayRecord(l, i)
  PROVE  Sound(Append(l, ToolCall(i)), f)
<1> DEFINE a == Append(l, ToolCall(i))
<1>1. Good(l) /\ l \in Seq(Events)
  BY SoundIsGood
<1>2. ToolCall(i) \in Events /\ (Ended(a) <=> Ended(l))
  BY <1>1, RecordFacts
<1>3. Good(a)
  BY <1>1, GoodRecord
<1>4. Ends(a, f)
  BY <1>2 DEF Ends, MayRecord, Open
<1> QED BY <1>2, <1>3, <1>4, SoundAppend

\* A sound log stays sound with one more result.
LEMMA SoundResult ==
  ASSUME NEW l, NEW f, Sound(l, f), NEW i \in Calls, NEW outcome \in Outcomes,
         MayAnswer(l, i, outcome)
  PROVE  Sound(Append(l, ToolResult(i, outcome)), f)
<1> DEFINE a == Append(l, ToolResult(i, outcome))
<1>1. Good(l) /\ l \in Seq(Events)
  BY SoundIsGood
<1>2. ToolResult(i, outcome) \in Events /\ (Ended(a) <=> Ended(l))
  BY <1>1, ResultFacts
<1>3. Good(a)
  BY <1>1, GoodResult
<1>4. Ends(a, f)
  BY <1>2 DEF Ends, MayAnswer, Open
<1> QED BY <1>2, <1>3, <1>4, SoundAppend

\* A sound log stays sound with the end of the step.
LEMMA SoundStepEnd ==
  ASSUME NEW l, NEW f, Sound(l, f), Open(l),
         HasMessage(l) => f = TRUE \/ Unanswered(l) = {}
  PROVE  LET a == Append(l, Event("step/end")) IN
         /\ Sound(a, f) /\ Ended(a) /\ ~Closed(a)
         /\ \A kind \in {"tool/call", "tool/result"} : \A j : At(a, kind, j) = At(l, kind, j)
         /\ HasMessage(a) <=> HasMessage(l)
<1> DEFINE e == Event("step/end")
           a == Append(l, e)
<1>1. Good(l) /\ l \in Seq(Events)
  BY SoundIsGood
<1>2. e \in Boundaries /\ e \in Events /\ e # Message
  BY DEF Events, Boundaries, Event, Message
<1>3. /\ \A kind \in {"tool/call", "tool/result"} : \A j : At(a, kind, j) = At(l, kind, j)
      /\ \A j \in Calls : AnsweredIn(a, j) <=> AnsweredIn(l, j)
  BY <1>1, <1>2, BoundaryFacts
<1>4. HasMessage(a) <=> HasMessage(l)
  BY <1>1, <1>2, AtAppend
<1>5. Good(a) /\ Ended(a) /\ ~Closed(a)
  BY <1>1, GoodStepEnd
<1> HIDE DEF a, e
<1>6. Ends(a, f)
  BY <1>3, <1>4 DEF Ends, Unanswered
<1>7. Sound(a, f)
  BY <1>2, <1>5, <1>6, SoundAppend DEF a
<1> QED BY <1>3, <1>4, <1>5, <1>7 DEF a, e

\* A sound log stays sound with the end of the turn.
LEMMA SoundTurnEnd ==
  ASSUME NEW l, NEW f, Sound(l, f), Ended(l), ~Closed(l)
  PROVE  Sound(Append(l, TurnEnd), f)
<1> DEFINE e == TurnEnd
           a == Append(l, e)
<1>1. Good(l) /\ Ends(l, f) /\ l \in Seq(Events)
  BY SoundIsGood
<1>2. e \in Boundaries /\ e \in Events /\ e # Message
  BY DEF Events, Boundaries, TurnEnd, Message
<1>3. \A j \in Calls : AnsweredIn(a, j) <=> AnsweredIn(l, j)
  BY <1>1, <1>2, BoundaryFacts
<1>4. HasMessage(a) <=> HasMessage(l)
  BY <1>1, <1>2, AtAppend
<1>5. Good(a)
  BY <1>1, GoodTurnEnd
<1> HIDE DEF a, e
<1>6. Ends(a, f)
  BY <1>1, <1>3, <1>4 DEF Ends, Unanswered
<1> QED BY <1>2, <1>5, <1>6, SoundAppend DEF a, e

\* The repair appends its closers one by one.
LEMMA Extend ==
  ASSUME NEW l \in Seq(Events), NEW c \in Seq(Events), NEW n \in 0..Len(c)
  PROVE  /\ l \o SubSeq(c, 1, n) \in Seq(Events)
         /\ Len(l \o SubSeq(c, 1, n)) = Len(l) + n
         /\ \A p \in DOMAIN l : (l \o SubSeq(c, 1, n))[p] = l[p]
         /\ n = 0 => l \o SubSeq(c, 1, n) = l
         /\ n < Len(c) => l \o SubSeq(c, 1, n + 1) = Append(l \o SubSeq(c, 1, n), c[n + 1])
                          /\ c[n + 1] \in Events
<1> DEFINE part == SubSeq(c, 1, n)
<1>0. Len(c) \in Nat /\ n \in Nat /\ n <= Len(c)
  OBVIOUS
<1>1. part \in Seq(Events) /\ Len(part) = n /\ (n = 0 => part = <<>>)
  BY <1>0
<1>2. /\ l \o part \in Seq(Events) /\ Len(l \o part) = Len(l) + n
      /\ \A p \in DOMAIN l : (l \o part)[p] = l[p]
      /\ n = 0 => l \o part = l
  BY <1>1
<1>3. ASSUME n < Len(c)
      PROVE  l \o SubSeq(c, 1, n + 1) = Append(l \o part, c[n + 1]) /\ c[n + 1] \in Events
  <2>1. n + 1 \in 1..Len(c) /\ c[n + 1] \in Events
    BY <1>0, <1>3
  <2>2. SubSeq(c, 1, n + 1) = Append(part, c[n + 1])
    BY <1>0, <2>1
  <2>3. l \o Append(part, c[n + 1]) = Append(l \o part, c[n + 1])
    BY <1>1, <2>1
  <2> QED BY <2>1, <2>2, <2>3
<1> QED BY <1>2, <1>3

\* What the repair has made of an open log l after n of its closers.
Repairs(l, f, entries, a, n) ==
    /\ Sound(a, f) /\ Open(a)
    /\ HasMessage(a) <=> HasMessage(l)
    /\ \A i \in Calls :
         /\ Called(a, i) <=> Called(l, i)
         /\ AnsweredIn(a, i) <=> AnsweredIn(l, i) \/ \E j \in 1..n : entries[j].call = i

\* Any part of the closers of an open step leaves a sound log.
LEMMA RepairOfOpen ==
  ASSUME NEW l, NEW f, Sound(l, f), Open(l), NEW n \in 0..Len(Closers(l))
  PROVE  Closers(l) \in Seq(Events) /\ Sound(l \o SubSeq(Closers(l), 1, n), f)
<1> DEFINE c == Closers(l)
           a(m) == l \o SubSeq(c, 1, m)
<1>1. Good(l) /\ l \in Seq(Events) /\ Len(l) >= 2 /\ Len(l) \in Nat
  BY SoundIsGood
<1>2. PICK entries :
        /\ EntriesFit(l, entries)
        /\ c \in Seq(Events) /\ Len(c) = Len(entries) + 2
        /\ \A j \in 1..Len(entries) : c[j] = MadeUp(entries[j])
        /\ c[Len(entries) + 1] = Event("step/end")
        /\ c[Len(entries) + 2] = TurnEnd
  BY <1>1, ClosersOfOpen
<1> DEFINE k == Len(entries)
           T == {m \in Nat : m <= k => Repairs(l, f, entries, a(m), m)}
<1>3. entries \in Seq(ScanEntry) /\ DOMAIN entries = 1..k /\ k \in Nat
  BY <1>2 DEF EntriesFit
<1> HIDE DEF c, k
<1>5. c[k + 1] = Event("step/end") /\ c[k + 2] = TurnEnd /\ Len(c) = k + 2 /\ c \in Seq(Events)
  BY <1>2 DEF k
<1>4. ASSUME NEW m \in 0..(k + 2)
      PROVE  /\ m = 0 => a(m) = l
             /\ m < k + 2 => a(m + 1) = Append(a(m), c[m + 1])
  <2>1. m \in 0..Len(c)
    BY <1>5
  <2>2. /\ m = 0 => l \o SubSeq(c, 1, m) = l
        /\ m < Len(c) => l \o SubSeq(c, 1, m + 1) = Append(l \o SubSeq(c, 1, m), c[m + 1])
    BY <1>1, <1>5, <2>1, Extend
  <2> QED BY <1>5, <2>2
<1>6. \A j \in 1..k : c[j] = MadeUp(entries[j])
  BY <1>2 DEF k
<1> HIDE DEF a
<1>7. 0 \in T
  <2>1. a(0) = l
    BY <1>3, <1>4
  <2>2. Repairs(l, f, entries, l, 0)
    BY DEF Repairs
  <2> QED BY <2>1, <2>2
<1>8. ASSUME NEW m \in Nat, m \in T
      PROVE  m + 1 \in T
  <2>1. SUFFICES ASSUME m + 1 <= k PROVE Repairs(l, f, entries, a(m + 1), m + 1)
    OBVIOUS
  <2>2. Repairs(l, f, entries, a(m), m) /\ m + 1 \in 1..k /\ a(m + 1) = Append(a(m), MadeUp(entries[m + 1]))
    <3>1. m <= k /\ m + 1 \in 1..k /\ m \in 0..(k + 2) /\ m < k + 2
      BY <1>3, <2>1
    <3>2. a(m + 1) = Append(a(m), c[m + 1]) /\ c[m + 1] = MadeUp(entries[m + 1])
      BY <1>4, <1>6, <3>1
    <3> QED BY <1>8, <3>1, <3>2
  <2> DEFINE i == entries[m + 1].call
             outcome == IF entries[m + 1].logged THEN "unknown" ELSE "not-started"
  <2>3. /\ i \in Calls /\ i \in Unanswered(l)
        /\ entries[m + 1].logged <=> Called(l, i)
        /\ MadeUp(entries[m + 1]) = ToolResult(i, outcome)
        /\ outcome \in Outcomes
    BY <1>2, <1>3, <2>2 DEF EntriesFit, Unanswered, MadeUp, Outcomes
  <2>4. \A j \in 1..m : entries[j].call # i
    <3>1. \A j, q \in DOMAIN entries : entries[j].call = entries[q].call => j = q
      BY <1>2 DEF EntriesFit
    <3>2. \A j \in 1..m : j \in DOMAIN entries /\ j # m + 1
      BY <1>3, <2>2
    <3> QED BY <1>3, <2>2, <3>1, <3>2
  <2>5. HasMessage(l)
    BY <1>2, <1>3, <2>2 DEF EntriesFit
  <2> HIDE DEF i, outcome
  <2>6. outcome = "not-started" <=> ~Called(l, i)
    BY <2>3 DEF outcome, i
  <2>7. MayAnswer(a(m), i, outcome)
    BY <2>2, <2>3, <2>4, <2>5, <2>6 DEF MayAnswer, Repairs, Unanswered
  <2>8. Sound(a(m), f) /\ a(m) \in Seq(Events)
    BY <2>2, SoundIsGood DEF Repairs
  <2> DEFINE b == a(m)
             d == a(m + 1)
  <2>9. d = Append(b, ToolResult(i, outcome)) /\ b \in Seq(Events)
    BY <2>2, <2>3, <2>8
  <2>10. Sound(d, f)
    BY <2>3, <2>7, <2>8, <2>9, SoundResult
  <2> HIDE DEF b, d
  <2>11. /\ \A j \in Calls : AnsweredIn(d, j) <=> AnsweredIn(b, j) \/ j = i
         /\ \A j \in Calls : Called(d, j) <=> Called(b, j)
         /\ HasMessage(d) <=> HasMessage(b)
         /\ Ended(d) <=> Ended(b)
    BY <2>3, <2>9, ResultFacts
  <2>12. \A j \in Calls : (\E q \in 1..(m + 1) : entries[q].call = j)
                          <=> (\E q \in 1..m : entries[q].call = j) \/ j = i
    BY DEF i
  <2> QED BY <2>2, <2>10, <2>11, <2>12 DEF Repairs, Open, b, d
<1> HIDE DEF T
<1>9. \A m \in Nat : m \in T
  BY <1>7, <1>8, Traces!NatSetInduction
<1>10. \A m \in 0..k : Repairs(l, f, entries, a(m), m)
  BY <1>3, <1>9 DEF T
<1>11. HasMessage(a(k)) => Unanswered(a(k)) = {}
  <2>1. Repairs(l, f, entries, a(k), k)
    BY <1>3, <1>10
  <2>2. HasMessage(l) => \A i \in Unanswered(l) : \E j \in 1..k : entries[j].call = i
    BY <1>2, <1>3 DEF EntriesFit
  <2> QED BY <2>1, <2>2 DEF Repairs, Unanswered
<1>12. a(k + 1) = Append(a(k), Event("step/end")) /\ a(k + 2) = Append(a(k + 1), TurnEnd)
  <2>1. k \in 0..(k + 2) /\ k + 1 \in 0..(k + 2) /\ (k + 1) + 1 = k + 2
    BY <1>3
  <2> QED BY <1>3, <1>4, <1>5, <2>1
<1>13. Sound(a(k), f) /\ Open(a(k))
  BY <1>3, <1>10 DEF Repairs
<1>14. Sound(a(k + 1), f) /\ Ended(a(k + 1)) /\ ~Closed(a(k + 1))
  BY <1>11, <1>12, <1>13, SoundStepEnd
<1>15. Sound(a(k + 2), f)
  BY <1>12, <1>14, SoundTurnEnd
<1>16. n \in 0..k \/ n = k + 1 \/ n = k + 2
  BY <1>3, <1>5 DEF c
<1>17. Sound(a(n), f)
  <2>1. CASE n \in 0..k
    BY <1>10, <2>1 DEF Repairs
  <2> QED BY <1>14, <1>15, <1>16, <2>1
<1> QED BY <1>2, <1>17 DEF a, c

\* Any part of a repair leaves a sound log, and a log that needs none is closed.
LEMMA RepairIsSound ==
  ASSUME NEW l, NEW f, Sound(l, f)
  PROVE  /\ Closers(l) \in Seq(Events)
         /\ \A n \in 0..Len(Closers(l)) : Sound(l \o SubSeq(Closers(l), 1, n), f)
         /\ Closers(l) = <<>> => Closed(l)
<1>1. Good(l) /\ l \in Seq(Events) /\ Len(l) >= 2 /\ Len(l) \in Nat
  BY SoundIsGood
<1>2. CASE Open(l)
  <2>1. Closers(l) \in Seq(Events) /\ Closers(l) # <<>>
    BY <1>1, <1>2, ClosersOfOpen DEF EntriesFit
  <2> QED BY <1>2, <2>1, RepairOfOpen
<1>3. CASE Ended(l) /\ ~Closed(l)
  <2>1. Closers(l) = <<TurnEnd>> /\ TurnEnd \in Events
    BY <1>1, <1>3, ClosersOfEnded DEF Events, Boundaries
  <2>2. Sound(Append(l, TurnEnd), f)
    BY <1>3, SoundTurnEnd
  <2> DEFINE e == TurnEnd
             c == <<e>>
  <2>3. c \in Seq(Events) /\ Len(c) = 1 /\ c # <<>> /\ e \in Events
    BY <2>1
  <2>4. ASSUME NEW n \in 0..1 PROVE Sound(l \o SubSeq(c, 1, n), f)
    <3>1. n = 0 => l \o SubSeq(c, 1, n) = l
      BY <1>1, <2>3, Extend
    <3>2. n = 1 => l \o SubSeq(c, 1, n) = Append(l, e)
      <4> HIDE DEF e
      <4>1. l \o c = Append(l, e)
        BY <1>1, <2>3
      <4> HIDE DEF c
      <4>2. SubSeq(c, 1, 1) = c
        BY <2>3
      <4> QED BY <4>1, <4>2
    <3>3. n = 0 \/ n = 1
      OBVIOUS
    <3> HIDE DEF c
    <3>4. CASE n = 0
      BY <3>1, <3>4
    <3>5. CASE n = 1
      BY <2>2, <3>2, <3>5
    <3> QED BY <3>3, <3>4, <3>5
  <2> QED BY <2>1, <2>3, <2>4
<1>4. CASE Closed(l)
  <2>1. Closers(l) = <<>>
    BY <1>1, <1>4, ClosersOfEnded DEF Good, Ordered
  <2>2. <<>> \in Seq(Events) /\ Len(<<>>) = 0
    OBVIOUS
  <2>3. l \o SubSeq(<<>>, 1, 0) = l
    BY <1>1, <2>2, Extend
  <2>4. \A n \in 0..0 : n = 0
    OBVIOUS
  <2> QED BY <1>4, <2>1, <2>2, <2>3, <2>4
<1> QED BY <1>2, <1>3, <1>4 DEF Open

-----------------------------------------------------------------------------
(* The order of records and results. *)

InModelOrder(l) ==
    \A i, j \in Calls : i < j =>
        \A kind \in {"tool/call", "tool/result"} :
        \A q \in At(l, kind, j) : \E p \in At(l, kind, i) : p < q

\* The calls of ex are barriers.
Barrier(l, ex) ==
    \A i \in ex : \A j \in Calls \ {i} :
        LET lo == IF i < j THEN i ELSE j
            hi == IF i < j THEN j ELSE i
        IN \A q \in At(l, "tool/call", hi) : \E p \in At(l, "tool/result", lo) : p < q

AllDone(l) == \A i \in Calls : \A p \in At(l, "tool/result", i) : l[p].outcome = "done"

\* The calls before c are recorded, those before r have their result.
Progress(l, c, r) ==
    \A i \in Calls : (Called(l, i) <=> i < c) /\ (AnsweredIn(l, i) <=> i < r)

\* The log of a step that is not closed, with f for the scheduler's failure.
Standing(l, f, ex) ==
    Sound(l, f) /\ Open(l) /\ HasMessage(l) /\ InModelOrder(l) /\ Barrier(l, ex)

Running(l, f, ex, c, r) == Standing(l, f, ex) /\ Progress(l, c, r)

\* A record in the order of the calls keeps the order, and the barriers when every
\* exclusive call before it is answered.
LEMMA RunningRecord ==
  ASSUME NEW l, NEW f, NEW ex \in SUBSET Calls, NEW c \in Calls, NEW r \in 1..c,
         Running(l, f, ex, c, r), \A i \in ex : i < r,
         NEW ex2 \in SUBSET (ex \cup {c}), c \in ex2 => r = c
  PROVE  /\ Running(Append(l, ToolCall(c)), f, ex2, c + 1, r)
         /\ AllDone(l) => AllDone(Append(l, ToolCall(c)))
<1> DEFINE a == Append(l, ToolCall(c))
<1>1. Sound(l, f) /\ Open(l) /\ HasMessage(l) /\ l \in Seq(Events) /\ Len(l) \in Nat
      /\ DOMAIN l = 1..Len(l)
  BY SoundIsGood DEF Running, Standing
<1>2. Calls \subseteq Nat /\ c \in Nat /\ r \in Nat /\ r <= c
  BY SchedulerAssumption DEF Calls
<1>3. \A i \in Calls : (Called(l, i) <=> i < c) /\ (AnsweredIn(l, i) <=> i < r)
  BY DEF Running, Progress
<1>4. Sound(a, f)
  BY <1>1, <1>2, <1>3, SoundRecord DEF MayRecord
<1>5. /\ At(a, "tool/call", c) = At(l, "tool/call", c) \cup {Len(l) + 1}
      /\ \A j \in Calls \ {c} : At(a, "tool/call", j) = At(l, "tool/call", j)
      /\ \A j \in Calls : At(a, "tool/result", j) = At(l, "tool/result", j)
      /\ \A j \in Calls : Called(a, j) <=> Called(l, j) \/ j = c
      /\ \A j \in Calls : AnsweredIn(a, j) <=> AnsweredIn(l, j)
      /\ HasMessage(a) <=> HasMessage(l)
      /\ Ended(a) <=> Ended(l)
  BY <1>1, RecordFacts
<1>6. \A kind, j : \A p \in At(l, kind, j) : p \in 1..Len(l)
  BY <1>1 DEF At
<1>7. InModelOrder(l) /\ Barrier(l, ex)
  BY DEF Running, Standing
<1>8. At(l, "tool/call", c) = {}
  BY <1>2, <1>3 DEF Called
<1>9. \A p \in DOMAIN l : a[p] = l[p]
  BY <1>1
<1> HIDE DEF a
<1>10. Progress(a, c + 1, r)
  BY <1>2, <1>3, <1>5 DEF Progress
<1>11. InModelOrder(a)
  <2> SUFFICES ASSUME NEW i \in Calls, NEW j \in Calls, i < j,
                      NEW kind \in {"tool/call", "tool/result"}, NEW q \in At(a, kind, j)
               PROVE  \E p \in At(a, kind, i) : p < q
    BY DEF InModelOrder
  <2>1. CASE kind = "tool/call" /\ j = c
    <3>1. q = Len(l) + 1
      BY <1>5, <1>8, <2>1
    <3>2. PICK p \in At(l, "tool/call", i) : TRUE
      BY <1>3, <2>1 DEF Called
    <3>3. p \in At(a, "tool/call", i) /\ p < q
      BY <1>1, <1>5, <1>6, <2>1, <3>1, <3>2
    <3> QED BY <2>1, <3>3
  <2>2. CASE ~(kind = "tool/call" /\ j = c)
    <3>1. q \in At(l, kind, j)
      BY <1>5, <2>2
    <3>2. PICK p \in At(l, kind, i) : p < q
      BY <1>7, <3>1 DEF InModelOrder
    <3>3. p \in At(a, kind, i)
      BY <1>5, <3>2
    <3> QED BY <3>2, <3>3
  <2> QED BY <2>1, <2>2
<1>12. Barrier(a, ex2)
  <2> SUFFICES ASSUME NEW i \in ex2, NEW j \in Calls \ {i}
               PROVE  LET lo == IF i < j THEN i ELSE j
                          hi == IF i < j THEN j ELSE i
                      IN \A q \in At(a, "tool/call", hi) : \E p \in At(a, "tool/result", lo) : p < q
    BY DEF Barrier
  <2> DEFINE lo == IF i < j THEN i ELSE j
             hi == IF i < j THEN j ELSE i
  <2>1. i \in Calls /\ j \in Calls /\ lo \in Calls /\ hi \in Calls /\ lo < hi
        /\ (i = lo \/ i = hi)
    BY <1>2
  <2>2. ASSUME NEW q \in At(a, "tool/call", hi) PROVE \E p \in At(a, "tool/result", lo) : p < q
    <3> HIDE DEF lo, hi
    <3>1. CASE hi = c
      <4>1. q = Len(l) + 1
        BY <1>5, <1>8, <3>1
      <4>2. lo < r
        BY <1>2, <2>1, <3>1
      <4>3. PICK p \in At(l, "tool/result", lo) : TRUE
        BY <1>3, <2>1, <4>2 DEF AnsweredIn
      <4>4. p \in At(a, "tool/result", lo) /\ p < q
        BY <1>1, <1>5, <1>6, <2>1, <4>1, <4>3
      <4> QED BY <4>4
    <3>2. CASE hi # c
      <4>1. q \in At(l, "tool/call", hi)
        BY <1>5, <2>1, <3>2
      <4>2. hi < c
        BY <1>3, <2>1, <4>1 DEF Called
      <4>3. i \in ex
        BY <1>2, <2>1, <4>2
      <4>4. PICK p \in At(l, "tool/result", lo) : p < q
        BY <1>7, <2>1, <4>1, <4>3 DEF Barrier, lo, hi
      <4> QED BY <1>5, <2>1, <4>4
    <3> QED BY <3>1, <3>2
  <2> QED BY <2>2
<1>13. AllDone(l) => AllDone(a)
  BY <1>5, <1>9 DEF AllDone, At
<1> QED BY <1>1, <1>4, <1>5, <1>10, <1>11, <1>12, <1>13 DEF Running, Standing, Open, a

\* A result in the order of the calls keeps the order and the barriers.
LEMMA RunningResult ==
  ASSUME NEW l, NEW f, NEW ex \in SUBSET Calls, NEW c \in Nat, NEW r \in Calls, r < c,
         Running(l, f, ex, c, r), NEW outcome \in {"done", "skipped"}
  PROVE  /\ Running(Append(l, ToolResult(r, outcome)), f, ex, c, r + 1)
         /\ AllDone(l) /\ outcome = "done" => AllDone(Append(l, ToolResult(r, outcome)))
<1> DEFINE e == ToolResult(r, outcome)
           a == Append(l, e)
<1>1. Sound(l, f) /\ Open(l) /\ HasMessage(l) /\ l \in Seq(Events) /\ Len(l) \in Nat
      /\ DOMAIN l = 1..Len(l)
  BY SoundIsGood DEF Running, Standing
<1>2. Calls \subseteq Nat /\ outcome \in Outcomes /\ outcome # "not-started"
  BY SchedulerAssumption DEF Calls, Outcomes
<1>3. \A i \in Calls : (Called(l, i) <=> i < c) /\ (AnsweredIn(l, i) <=> i < r)
  BY DEF Running, Progress
<1>4. Sound(a, f)
  BY <1>1, <1>2, <1>3, SoundResult DEF MayAnswer
<1>5. /\ At(a, "tool/result", r) = At(l, "tool/result", r) \cup {Len(l) + 1}
      /\ \A j \in Calls \ {r} : At(a, "tool/result", j) = At(l, "tool/result", j)
      /\ \A j \in Calls : At(a, "tool/call", j) = At(l, "tool/call", j)
      /\ \A j \in Calls : AnsweredIn(a, j) <=> AnsweredIn(l, j) \/ j = r
      /\ \A j \in Calls : Called(a, j) <=> Called(l, j)
      /\ HasMessage(a) <=> HasMessage(l)
      /\ Ended(a) <=> Ended(l)
  BY <1>1, <1>2, ResultFacts
<1>6. \A kind, j : \A p \in At(l, kind, j) : p \in 1..Len(l)
  BY <1>1 DEF At
<1>7. InModelOrder(l) /\ Barrier(l, ex)
  BY DEF Running, Standing
<1>8. At(l, "tool/result", r) = {}
  BY <1>2, <1>3 DEF AnsweredIn
<1>9. \A p \in DOMAIN l : a[p] = l[p]
  BY <1>1
<1>10. a[Len(l) + 1] = e /\ e.outcome = outcome
  BY <1>1 DEF ToolResult
<1> HIDE DEF a, e
<1>11. Progress(a, c, r + 1)
  BY <1>2, <1>3, <1>5 DEF Progress
<1>12. InModelOrder(a)
  <2> SUFFICES ASSUME NEW i \in Calls, NEW j \in Calls, i < j,
                      NEW kind \in {"tool/call", "tool/result"}, NEW q \in At(a, kind, j)
               PROVE  \E p \in At(a, kind, i) : p < q
    BY DEF InModelOrder
  <2>1. CASE kind = "tool/result" /\ j = r
    <3>1. q = Len(l) + 1
      BY <1>5, <1>8, <2>1
    <3>2. PICK p \in At(l, "tool/result", i) : TRUE
      BY <1>3, <2>1 DEF AnsweredIn
    <3>3. p \in At(a, "tool/result", i) /\ p < q
      BY <1>1, <1>5, <1>6, <2>1, <3>1, <3>2
    <3> QED BY <2>1, <3>3
  <2>2. CASE ~(kind = "tool/result" /\ j = r)
    <3>1. q \in At(l, kind, j)
      BY <1>5, <2>2
    <3>2. PICK p \in At(l, kind, i) : p < q
      BY <1>7, <3>1 DEF InModelOrder
    <3>3. p \in At(a, kind, i)
      BY <1>5, <3>2
    <3> QED BY <3>2, <3>3
  <2> QED BY <2>1, <2>2
<1>13. Barrier(a, ex)
  <2> SUFFICES ASSUME NEW i \in ex, NEW j \in Calls \ {i}
               PROVE  LET lo == IF i < j THEN i ELSE j
                          hi == IF i < j THEN j ELSE i
                      IN \A q \in At(a, "tool/call", hi) : \E p \in At(a, "tool/result", lo) : p < q
    BY DEF Barrier
  <2> DEFINE lo == IF i < j THEN i ELSE j
             hi == IF i < j THEN j ELSE i
  <2>1. lo \in Calls /\ hi \in Calls
    BY <1>2
  <2>2. ASSUME NEW q \in At(a, "tool/call", hi) PROVE \E p \in At(a, "tool/result", lo) : p < q
    <3>1. \A q1 \in At(l, "tool/call", hi) : \E p \in At(l, "tool/result", lo) : p < q1
      BY <1>7 DEF Barrier
    <3> HIDE DEF lo, hi
    <3>2. PICK p \in At(l, "tool/result", lo) : p < q
      BY <1>5, <2>1, <2>2, <3>1
    <3> QED BY <1>5, <2>1, <3>2
  <2> QED BY <2>2
<1>14. AllDone(l) /\ outcome = "done" => AllDone(a)
  <2> SUFFICES ASSUME AllDone(l), outcome = "done", NEW i \in Calls, NEW p \in At(a, "tool/result", i)
               PROVE  a[p].outcome = "done"
    BY DEF AllDone
  <2>1. p \in At(l, "tool/result", i) \/ p = Len(l) + 1
    BY <1>5
  <2>2. CASE p \in At(l, "tool/result", i)
    BY <1>9, <2>2 DEF AllDone, At
  <2> QED BY <1>10, <2>1, <2>2
<1> QED BY <1>1, <1>4, <1>5, <1>11, <1>12, <1>13, <1>14 DEF Running, Standing, Open, a, e

\* What an abort makes of the calls that were never started.
LEMMA SkippedCalls ==
  ASSUME NEW from \in 1..(NumCalls + 1)
  PROVE  /\ Skipped(from) \in Seq(Events)
         /\ Len(Skipped(from)) = 2 * (NumCalls - from + 1)
         /\ \A m \in 0..(NumCalls - from) :
              /\ Skipped(from)[2 * m + 1] = ToolCall(from + m)
              /\ Skipped(from)[2 * m + 2] = ToolResult(from + m, "skipped")
<1> DEFINE n == 2 * (NumCalls - from + 1)
           s == Skipped(from)
<1>1. NumCalls \in Nat /\ n \in Nat /\ Calls = 1..NumCalls /\ from \in Nat
  BY SchedulerAssumption DEF Calls
<1>2. s = [k \in 1..n |-> LET i == from + (k - 1) \div 2
                          IN IF k % 2 = 1 THEN ToolCall(i) ELSE ToolResult(i, "skipped")]
  BY DEF Skipped
<1>3. ASSUME NEW k \in 1..n
      PROVE  from + (k - 1) \div 2 \in Calls
  <2>1. (k - 1) \div 2 \in 0..(NumCalls - from)
    BY <1>1
  <2> QED BY <1>1, <2>1
<1>4. \A i \in Calls : ToolCall(i) \in Events /\ ToolResult(i, "skipped") \in Events
  BY DEF Events, Records, Results, Outcomes
<1>5. s \in [1..n -> Events]
  BY <1>2, <1>3, <1>4
<1>6. s \in Seq(Events) /\ Len(s) = n
  <2> HIDE DEF s, n
  <2> QED BY <1>1, <1>5, Traces!IsASeq
<1>7. ASSUME NEW m \in 0..(NumCalls - from)
      PROVE  s[2 * m + 1] = ToolCall(from + m) /\ s[2 * m + 2] = ToolResult(from + m, "skipped")
  <2>1. /\ 2 * m + 1 \in 1..n /\ (2 * m + 1 - 1) \div 2 = m /\ (2 * m + 1) % 2 = 1
        /\ 2 * m + 2 \in 1..n /\ (2 * m + 2 - 1) \div 2 = m /\ (2 * m + 2) % 2 = 0
    BY <1>1
  <2> HIDE DEF n
  <2> QED BY <1>2, <2>1
<1> QED BY <1>6, <1>7

\* An abort records and answers them in order.
LEMMA RunningSkipped ==
  ASSUME NEW l, NEW f, NEW ex \in SUBSET Calls, NEW from \in 1..(NumCalls + 1),
         Running(l, f, ex, from, from), \A i \in ex : i < from
  PROVE  Running(l \o Skipped(from), f, ex, NumCalls + 1, NumCalls + 1)
<1> DEFINE s == Skipped(from)
           a(m) == l \o SubSeq(s, 1, m)
           k == NumCalls - from + 1
           T == {m \in Nat : m <= k => Running(a(2 * m), f, ex, from + m, from + m)}
<1>1. /\ s \in Seq(Events) /\ Len(s) = 2 * k
      /\ \A m \in 0..(k - 1) : /\ s[2 * m + 1] = ToolCall(from + m)
                               /\ s[2 * m + 2] = ToolResult(from + m, "skipped")
  <2>1. k - 1 = NumCalls - from
    BY SchedulerAssumption
  <2>2. \A m \in 0..(NumCalls - from) : /\ s[2 * m + 1] = ToolCall(from + m)
                                        /\ s[2 * m + 2] = ToolResult(from + m, "skipped")
    BY SkippedCalls
  <2> QED BY <2>1, <2>2, SkippedCalls
<1>2. NumCalls \in Nat /\ k \in Nat /\ Calls = 1..NumCalls /\ from \in Nat /\ from >= 1
      /\ from + k = NumCalls + 1
  BY SchedulerAssumption DEF Calls
<1>3. l \in Seq(Events)
  BY SoundIsGood DEF Running, Standing
<1> HIDE DEF s, k
<1>4. ASSUME NEW m \in 0..(2 * k)
      PROVE  /\ m = 0 => a(m) = l
             /\ m < 2 * k => a(m + 1) = Append(a(m), s[m + 1])
  BY <1>1, <1>3, Extend
<1> HIDE DEF a
<1>5. 0 \in T
  <2>1. a(2 * 0) = l /\ from + 0 = from
    BY <1>2, <1>4
  <2> QED BY <2>1
<1>6. ASSUME NEW m \in Nat, m \in T
      PROVE  m + 1 \in T
  <2>1. SUFFICES ASSUME m + 1 <= k
                 PROVE  Running(a(2 * (m + 1)), f, ex, from + (m + 1), from + (m + 1))
    OBVIOUS
  <2> DEFINE c == from + m
             b == a(2 * m)
  <2>2. Running(b, f, ex, c, c)
    BY <1>2, <1>6, <2>1
  <2>3. c \in Calls /\ c \in Nat /\ c \in 1..c /\ m \in 0..(k - 1) /\ c < c + 1
    BY <1>2, <2>1
  <2>4. a(2 * m + 1) = Append(b, s[2 * m + 1])
    <3>1. 2 * m \in 0..(2 * k) /\ 2 * m < 2 * k
      BY <1>2, <2>1
    <3> QED BY <1>4, <3>1
  <2>5. a(2 * m + 2) = Append(a(2 * m + 1), s[2 * m + 2])
    <3>1. 2 * m + 1 \in 0..(2 * k) /\ 2 * m + 1 < 2 * k /\ (2 * m + 1) + 1 = 2 * m + 2
      BY <1>2, <2>1
    <3> DEFINE d == 2 * m + 1
    <3>2. d \in 0..(2 * k) /\ d < 2 * k /\ d + 1 = 2 * m + 2
      BY <3>1
    <3> HIDE DEF d
    <3>3. a(d + 1) = Append(a(d), s[d + 1])
      BY <1>4, <3>2
    <3> QED BY <3>2, <3>3 DEF d
  <2>6. \A i \in ex : i < c
    BY <1>2, <2>3
  <2>7. Running(a(2 * m + 1), f, ex, c + 1, c)
    <3>1. a(2 * m + 1) = Append(b, ToolCall(c))
      BY <1>1, <2>3, <2>4
    <3>2. ex \in SUBSET (ex \cup {c}) /\ c \notin ex
      BY <2>3, <2>6
    <3> HIDE DEF b, c
    <3> QED BY <2>2, <2>3, <2>6, <3>1, <3>2, RunningRecord
  <2>8. Running(a(2 * m + 2), f, ex, c + 1, c + 1)
    <3>1. a(2 * m + 2) = Append(a(2 * m + 1), ToolResult(c, "skipped"))
      BY <1>1, <2>3, <2>5
    <3> HIDE DEF c
    <3>2. c + 1 \in Nat
      BY <2>3
    <3> QED BY <2>3, <2>7, <3>1, <3>2, RunningResult
  <2>9. 2 * (m + 1) = 2 * m + 2 /\ from + (m + 1) = c + 1
    BY <1>2
  <2> QED BY <2>8, <2>9
<1> HIDE DEF T
<1>7. k \in T
  <2>1. \A m \in Nat : m \in T
    BY <1>5, <1>6, Traces!NatSetInduction
  <2> QED BY <1>2, <2>1
<1>8. Running(a(2 * k), f, ex, NumCalls + 1, NumCalls + 1)
  BY <1>2, <1>7 DEF T
<1>9. a(2 * k) = l \o s
  <2>1. SubSeq(s, 1, Len(s)) = s
    BY <1>1, <1>2
  <2> QED BY <1>1, <2>1 DEF a
<1> QED BY <1>8, <1>9 DEF s

-----------------------------------------------------------------------------
(* The inductive invariant. *)

Working == {"plan", "prepare", "commit", "finalize", "race"}

\* The next call to be recorded: the one at pre-execute is recorded already.
Cursor == IF pc = "prepare" THEN next + 1 ELSE next

\* What the log holds at each point of the step.
LogFits ==
    /\ Sound(log, failure)
    /\ pc \in Working => /\ Running(log, failure, exclusive, Cursor, commit)
                         /\ AllDone(log)
    /\ pc \in {"drain", "failed"} => /\ failure = TRUE
                                     /\ Standing(log, failure, exclusive) /\ AllDone(log)
    /\ pc = "done" => Running(log, failure, exclusive, NumCalls + 1, NumCalls + 1)
    /\ pc = "closed" => InModelOrder(log) /\ Barrier(log, exclusive)
    /\ pc = "resumed" => Closed(log)

\* What the pool holds: a call that was started waits for its dispatch or has a
\* slot, unless the scheduler fails.
PoolFits ==
    /\ pc \in {"plan", "prepare"} => next <= NumCalls
    /\ pc = "plan" => commit = next /\ InFlight = {}
    /\ pc = "prepare" => Cardinality(InFlight) < MaxParallel
    /\ pc = "finalize" => commit < next /\ slot[commit] # "none"
    /\ pc \in Working /\ ~failure =>
         \A i \in Calls : i < next /\ slot[i] = "none" => stage[i] \in {"flush", "body"}
    /\ pc = "done" => InFlight = {}
    /\ pc \in {"failed", "closed"} => \A i \in Calls : stage[i] \in {"none", "settled"}
    /\ pc \in {"crashed", "resumed"} => \A i \in Calls : stage[i] = "none"

\* The exclusive calls are those of earlier groups, and the only one of this group.
GroupFits ==
    /\ first <= commit
    /\ \A i \in exclusive : i < Cursor
    /\ \A i \in exclusive : i < first \/ (mode = "exclusive" /\ i = first)

\* A body is entered when the record of its call is durable.
EffectsFit ==
    /\ \A i \in Calls : stage[i] = "flush" =>
         mark[i] <= Len(log) /\ \E p \in At(log, "tool/call", i) : p <= mark[i]
    /\ \A i \in Calls : stage[i] = "body" => i \in ran
    /\ \A i \in ran : \E p \in At(log, "tool/call", i) : p <= durable

IInv == TypeOK /\ LogFits /\ PoolFits /\ (pc \in Working => GroupFits) /\ EffectsFit

\* The calls in flight are finitely many, and fewer when some of them go.
LEMMA InFlightCounts ==
  ASSUME TypeOK
  PROVE  /\ IsFiniteSet(InFlight) /\ Cardinality(InFlight) \in Nat
         /\ \A S \in SUBSET InFlight : Cardinality(S) <= Cardinality(InFlight)
         /\ \A i : Cardinality(InFlight \cup {i}) <= Cardinality(InFlight) + 1
<1>1. IsFiniteSet(Calls)
  BY SchedulerAssumption, FS_Interval DEF Calls
<1>2. IsFiniteSet(InFlight)
  BY <1>1, FS_Subset DEF InFlight
<1>3. Cardinality(InFlight) \in Nat
  BY <1>2, FS_CardinalityType
<1>4. \A S \in SUBSET InFlight : Cardinality(S) <= Cardinality(InFlight)
  BY <1>2, FS_Subset
<1>5. \A i : Cardinality(InFlight \cup {i}) <= Cardinality(InFlight) + 1
  BY <1>2, <1>3, FS_AddElement
<1> QED BY <1>2, <1>3, <1>4, <1>5

\* The log grows at its end.
Grows ==
    /\ log' \in Seq(Events) /\ Len(log) <= Len(log')
    /\ \A p \in DOMAIN log : p \in DOMAIN log' /\ log'[p] = log[p]

\* What a step appends disturbs nothing that is in the log.
LEMMA LogGrows ==
  ASSUME log \in Seq(Events), \/ log' = log
                              \/ \E e \in Events : log' = Append(log, e)
                              \/ \E s \in Seq(Events) : log' = log \o s
  PROVE  Grows
<1>1. CASE log' = log
  BY <1>1 DEF Grows
<1>2. CASE \E e \in Events : log' = Append(log, e)
  BY <1>2 DEF Grows
<1>3. CASE \E s \in Seq(Events) : log' = log \o s
  BY <1>3 DEF Grows
<1> QED BY <1>1, <1>2, <1>3

\* What no body is newly entered by, and no checkpoint newly asked for by, leaves
\* the effects known.
LEMMA EffectsKept ==
  ASSUME log \in Seq(Events), EffectsFit, Grows, mark \in [Calls -> Nat], durable \in Nat,
         durable' \in Nat, durable <= durable', mark' = mark, ran' = ran, ran \subseteq Calls,
         \A i \in Calls : stage'[i] \in {"flush", "body"} => stage'[i] = stage[i]
  PROVE  EffectsFit'
<1>1. \A i, kind : \A p \in At(log, kind, i) : p \in At(log', kind, i) /\ p \in Nat
  BY DEF Grows, At
<1>2. Len(log) \in Nat /\ Len(log') \in Nat /\ Len(log) <= Len(log')
  BY DEF Grows
<1>3. ASSUME NEW i \in Calls, stage'[i] = "flush"
      PROVE  mark'[i] <= Len(log') /\ \E p \in At(log', "tool/call", i) : p <= mark'[i]
  <2>1. mark[i] <= Len(log) /\ mark[i] \in Nat
    BY <1>3 DEF EffectsFit
  <2>2. PICK p \in At(log, "tool/call", i) : p <= mark[i]
    BY <1>3 DEF EffectsFit
  <2> QED BY <1>1, <1>2, <2>1, <2>2
<1>4. ASSUME NEW i \in ran
      PROVE  \E p \in At(log', "tool/call", i) : p <= durable'
  <2>1. PICK p \in At(log, "tool/call", i) : p <= durable
    BY DEF EffectsFit
  <2> QED BY <1>1, <2>1
<1>5. \A i \in Calls : stage'[i] = "body" => i \in ran
  BY DEF EffectsFit
<1> QED BY <1>3, <1>4, <1>5 DEF EffectsFit

\* What the parts of the invariant say of a step that works.
LEMMA WorkingFacts ==
  ASSUME IInv, pc \in Working
  PROVE  /\ Running(log, failure, exclusive, Cursor, commit) /\ AllDone(log)
         /\ log \in Seq(Events) /\ Len(log) \in Nat
         /\ GroupFits /\ NumCalls \in Nat /\ MaxParallel \in Nat \ {0}
         /\ Calls = 1..NumCalls /\ exclusive \in SUBSET Calls
         /\ next \in 1..(NumCalls + 1) /\ commit \in 1..next /\ first \in 1..next
         /\ durable \in Nat /\ durable <= Len(log)
<1>1. Running(log, failure, exclusive, Cursor, commit) /\ AllDone(log) /\ GroupFits
  BY DEF IInv, LogFits
<1>2. log \in Seq(Events) /\ Len(log) \in Nat
  BY SoundIsGood DEF IInv, LogFits
<1> QED BY <1>1, <1>2, SchedulerAssumption DEF IInv, TypeOK, Calls

\* The log keeps standing when the scheduler fails.
LEMMA StandingFails ==
  ASSUME NEW l, NEW f, NEW ex, Standing(l, f, ex)
  PROVE  Standing(l, TRUE, ex) /\ Sound(l, TRUE)
  BY SoundAfterFailure DEF Standing

-----------------------------------------------------------------------------
(* The actions of the scheduler. *)

\* An action that leaves the log and the dispatched calls alone.
LEMMA QuietEffects ==
  ASSUME IInv, UNCHANGED <<log, durable, stage, mark, ran>>
  PROVE  EffectsFit'
  BY DEF IInv, EffectsFit, At

\* The scheduler plans its next group.
LEMMA BeginGroupStep ==
  ASSUME IInv, BeginGroup
  PROVE  IInv'
<1>1. /\ pc = "plan" /\ next <= NumCalls /\ first' = next /\ aborted' = signal
      /\ UNCHANGED <<slot, stage, mark, failure, signal, durable, ran>>
  BY DEF BeginGroup
<1>2. /\ Running(log, failure, exclusive, next, commit) /\ AllDone(log) /\ GroupFits
      /\ log \in Seq(Events) /\ Len(log) \in Nat
      /\ NumCalls \in Nat /\ MaxParallel \in Nat \ {0}
      /\ Calls = 1..NumCalls /\ exclusive \in SUBSET Calls
      /\ next \in 1..(NumCalls + 1) /\ commit = next /\ InFlight = {} /\ InFlight' = {}
      /\ \A i \in exclusive : i < next
      /\ durable \in Nat
  BY <1>1, WorkingFacts DEF IInv, PoolFits, Working, Cursor, GroupFits, InFlight
<1>3. PICK kind \in Modes : /\ mode' = kind
                            /\ IF signal THEN EndGroup(TRUE) ELSE StartCall(next, kind)
  BY DEF BeginGroup
<1>4. CASE signal
  <2>1. /\ pc' = "done" /\ log' = log \o Skipped(next)
        /\ UNCHANGED <<next, commit, exclusive>>
    BY <1>3, <1>4 DEF EndGroup
  <2>2. Running(log', failure, exclusive, NumCalls + 1, NumCalls + 1)
    BY <1>2, <2>1, RunningSkipped
  <2>3. Skipped(next) \in Seq(Events)
    BY <1>2, SkippedCalls
  <2>4. Grows
    BY <1>2, <2>1, <2>3, LogGrows
  <2>5. Len(log') >= Len(log) /\ Len(log') \in Nat
    BY <1>2, <2>4 DEF Grows
  <2>6. TypeOK'
    BY <1>1, <1>2, <1>3, <2>1, <2>5 DEF IInv, TypeOK, Over, InFlight
  <2>7. LogFits'
    BY <1>1, <2>1, <2>2 DEF LogFits, Working, Running, Standing
  <2>8. PoolFits'
    BY <1>2, <2>1 DEF PoolFits, Working
  <2>9. EffectsFit'
    BY <1>1, <1>2, <2>4, EffectsKept DEF IInv, TypeOK
  <2> QED BY <2>1, <2>6, <2>7, <2>8, <2>9 DEF IInv, Working
<1>5. CASE ~signal
  <2>1. /\ pc' = "prepare" /\ log' = Append(log, ToolCall(next))
        /\ exclusive' = (IF kind = "exclusive" THEN exclusive \cup {next} ELSE exclusive)
        /\ UNCHANGED <<next, commit>>
    BY <1>3, <1>5 DEF StartCall
  <2>2. next \in Calls /\ next \in 1..next /\ ToolCall(next) \in Events
        /\ exclusive' \in SUBSET (exclusive \cup {next}) /\ exclusive' \in SUBSET Calls
    BY <1>1, <1>2, <2>1 DEF Events, Records
  <2>3. Running(log', failure, exclusive', next + 1, commit) /\ AllDone(log')
    BY <1>2, <2>1, <2>2, RunningRecord
  <2>4. Grows
    BY <1>2, <2>1, <2>2, LogGrows
  <2>5. Len(log') >= Len(log) /\ Len(log') \in Nat
    BY <1>2, <2>4 DEF Grows
  <2>6. TypeOK'
    BY <1>1, <1>2, <1>3, <2>1, <2>2, <2>5 DEF IInv, TypeOK, Over, InFlight
  <2>7. LogFits'
    BY <1>1, <2>1, <2>3 DEF LogFits, Working, Running, Standing, Cursor
  <2>8. PoolFits'
    <3>1. Cardinality(InFlight') < MaxParallel
      BY <1>2, FS_EmptySet
    <3> QED BY <1>1, <1>2, <2>1, <3>1 DEF IInv, PoolFits, Working
  <2>9. GroupFits'
    <3>1. \A i \in exclusive' : i \in exclusive \/ (i = next /\ kind = "exclusive")
      BY <2>1
    <3> QED BY <1>1, <1>2, <1>3, <2>1, <3>1 DEF GroupFits, Cursor
  <2>10. EffectsFit'
    BY <1>1, <1>2, <2>4, EffectsKept DEF IInv, TypeOK
  <2> QED BY <2>6, <2>7, <2>8, <2>9, <2>10 DEF IInv
<1> QED BY <1>4, <1>5

\* The preparation of a call returns, and the call is recorded and dispatched or skipped.
LEMMA PrepareReturnsStep ==
  ASSUME IInv, PrepareReturns
  PROVE  IInv'
<1>1. /\ pc = "prepare" /\ ~failure /\ next' = next + 1 /\ pc' = "commit"
      /\ UNCHANGED <<mode, first, commit, aborted, exclusive, failure, signal, log, durable, ran>>
  BY DEF PrepareReturns, disk
<1>2. /\ Running(log, failure, exclusive, next + 1, commit) /\ AllDone(log) /\ GroupFits
      /\ log \in Seq(Events) /\ Len(log) \in Nat
      /\ NumCalls \in Nat /\ MaxParallel \in Nat \ {0}
      /\ Calls = 1..NumCalls /\ exclusive \in SUBSET Calls
      /\ next \in Calls /\ next \in Nat /\ commit \in 1..next /\ first \in 1..next
      /\ stage[next] = "none" /\ slot[next] = "none"
      /\ Cardinality(InFlight) < MaxParallel
  BY <1>1, WorkingFacts DEF IInv, PoolFits, Working, Cursor, TypeOK
<1>3. \/ /\ stage' = [stage EXCEPT ![next] = "flush"]
         /\ mark' = [mark EXCEPT ![next] = Len(log)]
         /\ slot' = slot
      \/ /\ \E kind \in Undispatched : slot' = [slot EXCEPT ![next] = kind]
         /\ UNCHANGED <<stage, mark>>
  BY DEF PrepareReturns
<1>4. /\ stage' \in [Calls -> {"none", "flush", "body", "settled"}]
      /\ slot' \in [Calls -> {"none", "post", "final"}]
      /\ mark' \in [Calls -> Nat]
      /\ stage'[next] \in {"none", "flush"} /\ (slot'[next] = "none" => stage'[next] = "flush")
      /\ \A i \in Calls \ {next} : stage'[i] = stage[i] /\ slot'[i] = slot[i] /\ mark'[i] = mark[i]
      /\ stage'[next] = "flush" => mark'[next] = Len(log)
  <2>0. /\ stage \in [Calls -> {"none", "flush", "body", "settled"}]
        /\ slot \in [Calls -> {"none", "post", "final"}] /\ mark \in [Calls -> Nat]
    BY DEF IInv, TypeOK
  <2>1. CASE stage' = [stage EXCEPT ![next] = "flush"]
    <3>1. /\ mark' = [mark EXCEPT ![next] = Len(log)]
          /\ slot' = slot
      <4>1. stage'[next] # stage[next]
        BY <1>2, <2>0, <2>1
      <4> QED BY <1>3, <4>1
    <3> QED BY <1>2, <2>0, <2>1, <3>1
  <2>2. CASE stage' = stage
    <3>1. PICK kind \in Undispatched : slot' = [slot EXCEPT ![next] = kind]
      <4>1. [stage EXCEPT ![next] = "flush"][next] # stage[next]
        BY <1>2, <2>0
      <4> QED BY <1>3, <2>2, <4>1
    <3>2. mark' = mark
      <4>1. [stage EXCEPT ![next] = "flush"][next] # stage[next]
        BY <1>2, <2>0
      <4> QED BY <1>3, <2>2, <4>1
    <3> QED BY <1>2, <2>0, <2>2, <3>1, <3>2 DEF Undispatched
  <2> QED BY <1>3, <2>1, <2>2
<1>5. Cardinality(InFlight') <= MaxParallel
  <2>1. TypeOK
    BY DEF IInv
  <2>2. /\ Cardinality(InFlight) \in Nat
        /\ Cardinality(InFlight \cup {next}) <= Cardinality(InFlight) + 1
        /\ Cardinality(InFlight \cup {next}) \in Nat
    BY <2>1, InFlightCounts, FS_AddElement, FS_CardinalityType
  <2>3. CASE stage'[next] = "none"
    <3>1. \A i \in Calls : stage'[i] = stage[i]
      BY <1>2, <1>4, <2>3
    <3>2. InFlight' = InFlight
      BY <3>1 DEF InFlight
    <3> QED BY <1>2, <2>2, <3>2
  <2>4. CASE stage'[next] = "flush"
    <3>1. InFlight' = InFlight \cup {next}
      <4>1. \A i \in Calls : stage'[i] # "none" <=> stage[i] # "none" \/ i = next
        BY <1>4, <2>4
      <4> QED BY <1>2, <4>1 DEF InFlight
    <3> QED BY <1>2, <2>2, <3>1
  <2> QED BY <1>4, <2>3, <2>4
<1>6. TypeOK'
  <2>1. /\ next' \in first'..(NumCalls + 1) /\ first' \in 1..(NumCalls + 1)
        /\ commit' \in 1..next'
    BY <1>1, <1>2 DEF IInv, TypeOK
  <2>2. \A i \in Calls : i >= next' => stage'[i] = "none" /\ slot'[i] = "none"
    <3>1. \A i \in Calls : i >= next + 1 => i # next /\ i >= next
      BY <1>2
    <3> QED BY <1>1, <1>4, <3>1 DEF IInv, TypeOK
  <2>3. \A i \in Calls : i < commit' => slot'[i] # "none"
    <3>1. \A i \in Calls : i < commit => i # next
      BY <1>2
    <3> QED BY <1>1, <1>4, <3>1 DEF IInv, TypeOK
  <2>4. TypeOK
    BY DEF IInv
  <2> QED BY <1>1, <1>4, <1>5, <2>1, <2>2, <2>3, <2>4 DEF TypeOK
<1>7. LogFits'
  BY <1>1, <1>2 DEF LogFits, Working, Running, Standing, Cursor
<1>8. PoolFits'
  <2>1. \A i \in Calls : i < next + 1 /\ slot'[i] = "none" => stage'[i] \in {"flush", "body"}
    <3>1. \A i \in Calls : i < next /\ slot[i] = "none" => stage[i] \in {"flush", "body"}
      BY <1>1 DEF IInv, PoolFits, Working
    <3>2. \A i \in Calls : i < next + 1 => i = next \/ i < next
      BY <1>2
    <3> QED BY <1>4, <3>1, <3>2
  <2> QED BY <1>1, <2>1 DEF PoolFits
<1>9. GroupFits'
  BY <1>1, <1>2 DEF GroupFits, Cursor
<1>10. EffectsFit'
  <2>1. next < next + 1 /\ \E p \in At(log, "tool/call", next) : p <= Len(log)
    <3>1. Called(log, next)
      BY <1>2 DEF Running, Progress
    <3> QED BY <1>2, <3>1 DEF Called, At
  <2>2. ASSUME NEW i \in Calls, stage'[i] = "flush"
        PROVE  mark'[i] <= Len(log) /\ \E p \in At(log, "tool/call", i) : p <= mark'[i]
    <3>1. CASE i = next
      <4>1. mark'[i] = Len(log)
        BY <1>4, <2>2, <3>1
      <4> QED BY <1>2, <2>1, <3>1, <4>1
    <3>2. CASE i # next
      BY <1>4, <2>2, <3>2 DEF IInv, EffectsFit
    <3> QED BY <3>1, <3>2
  <2>3. \A i \in Calls : stage'[i] = "body" => i \in ran
    BY <1>4 DEF IInv, EffectsFit
  <2> QED BY <1>1, <2>2, <2>3 DEF IInv, EffectsFit, At
<1> QED BY <1>6, <1>7, <1>8, <1>9, <1>10 DEF IInv

\* prepare or finalize fails, and the scheduler drains its pool.
LEMMA FailsStep ==
  ASSUME IInv, PrepareFails \/ FinalizeFails
  PROVE  IInv'
<1>1. /\ pc \in Working /\ failure' = TRUE /\ pc' = "drain"
      /\ UNCHANGED <<mode, first, next, commit, aborted, exclusive, slot, stage, mark, signal,
                     log, durable, ran>>
  BY DEF PrepareFails, FinalizeFails, group, disk, Working
<1>2. Standing(log, TRUE, exclusive) /\ Sound(log, TRUE) /\ AllDone(log)
  BY <1>1, WorkingFacts, StandingFails DEF Running
<1>3. TypeOK'
  BY <1>1 DEF IInv, TypeOK, InFlight
<1>4. LogFits'
  BY <1>1, <1>2 DEF LogFits, Working
<1>5. PoolFits'
  BY <1>1 DEF PoolFits, Working
<1>6. EffectsFit'
  BY <1>1, QuietEffects
<1> QED BY <1>1, <1>3, <1>4, <1>5, <1>6 DEF IInv, Working

\* A result is committed.
LEMMA CommitStep ==
  ASSUME IInv, CommitFinal \/ FinalizeReturns
  PROVE  IInv'
<1>1. /\ pc \in {"commit", "finalize"} /\ pc' = "commit"
      /\ log' = Append(log, ToolResult(commit, "done")) /\ commit' = commit + 1
      /\ UNCHANGED <<mode, first, next, aborted, exclusive, slot, stage, mark, failure, signal,
                     durable, ran>>
  BY DEF CommitFinal, FinalizeReturns, Ready
<1>2. /\ Running(log, failure, exclusive, next, commit) /\ AllDone(log) /\ GroupFits
      /\ log \in Seq(Events) /\ Len(log) \in Nat
      /\ NumCalls \in Nat /\ Calls = 1..NumCalls /\ exclusive \in SUBSET Calls
      /\ next \in 1..(NumCalls + 1) /\ commit \in 1..next /\ first \in 1..next
      /\ durable \in Nat
  BY <1>1, WorkingFacts DEF Working, Cursor
<1>3. commit \in Calls /\ commit < next /\ slot[commit] # "none"
  <2>1. CASE CommitFinal
    <3>1. commit \in Calls /\ slot[commit] = "final"
      BY <1>2, <2>1 DEF CommitFinal, Ready
    <3>2. \A i \in Calls : i >= next => slot[i] = "none"
      BY DEF IInv, TypeOK
    <3> QED BY <1>2, <3>1, <3>2
  <2>2. CASE FinalizeReturns
    <3>1. commit < next /\ slot[commit] # "none"
      BY <2>2 DEF FinalizeReturns, IInv, PoolFits
    <3> QED BY <1>2, <3>1
  <2> QED BY <2>1, <2>2
<1>4. Running(log', failure, exclusive, next, commit + 1) /\ AllDone(log')
  BY <1>1, <1>2, <1>3, RunningResult
<1>5. ToolResult(commit, "done") \in Events
  BY <1>3 DEF Events, Results, Outcomes
<1>6. Grows
  BY <1>1, <1>2, <1>5, LogGrows
<1>7. Len(log') >= Len(log) /\ Len(log') \in Nat
  BY <1>2, <1>6 DEF Grows
<1>8. TypeOK'
  <2>1. commit' \in 1..next' /\ durable' \in 2..Len(log')
    BY <1>1, <1>2, <1>3, <1>7 DEF IInv, TypeOK
  <2>2. \A i \in Calls : i < commit' => slot'[i] # "none"
    <3>1. \A i \in Calls : i < commit + 1 => i = commit \/ i < commit
      BY <1>2
    <3> QED BY <1>1, <1>3, <3>1 DEF IInv, TypeOK
  <2> QED BY <1>1, <2>1, <2>2 DEF IInv, TypeOK, InFlight
<1>9. LogFits'
  BY <1>1, <1>4 DEF LogFits, Working, Running, Standing, Cursor
<1>10. PoolFits'
  <2>1. ~failure => \A i \in Calls : i < next /\ slot[i] = "none" => stage[i] \in {"flush", "body"}
    BY <1>1 DEF IInv, PoolFits, Working
  <2> QED BY <1>1, <2>1 DEF PoolFits
<1>11. GroupFits'
  BY <1>1, <1>2 DEF GroupFits, Cursor
<1>12. EffectsFit'
  BY <1>1, <1>2, <1>6, EffectsKept DEF IInv, TypeOK
<1> QED BY <1>8, <1>9, <1>10, <1>11, <1>12 DEF IInv

\* A result is committed in its turn.
LEMMA AwaitFinalizeStep ==
  ASSUME IInv, AwaitFinalize
  PROVE  IInv'
<1>1. /\ pc = "commit" /\ pc' = "finalize" /\ commit <= NumCalls /\ slot[commit] = "post"
      /\ UNCHANGED <<mode, first, next, commit, aborted, exclusive, slot, stage, mark, failure,
                     signal, log, durable, ran>>
  BY DEF AwaitFinalize, Ready, group, disk
<1>2. commit \in Calls /\ commit < next
  <2>1. commit \in Calls /\ commit \in Nat /\ next \in Nat
    BY <1>1, WorkingFacts DEF Working
  <2> QED BY <1>1, <2>1 DEF IInv, TypeOK
<1>3. TypeOK'
  BY <1>1 DEF IInv, TypeOK, InFlight
<1>4. LogFits'
  BY <1>1 DEF IInv, LogFits, Working, Cursor
<1>5. PoolFits'
  BY <1>1, <1>2 DEF IInv, PoolFits, Working
<1>6. GroupFits'
  BY <1>1 DEF IInv, GroupFits, Working, Cursor
<1>7. EffectsFit'
  BY <1>1, QuietEffects
<1> QED BY <1>3, <1>4, <1>5, <1>6, <1>7 DEF IInv

\* The pool drains when the scheduler has failed: before a commit pass, and after
\* a settled call has left.
LEMMA DrainsStep ==
  ASSUME IInv, pc \in Working, failure = TRUE, pc' = "drain",
         UNCHANGED <<group, slot, mark, failure, signal, disk, ran>>,
         \A i \in Calls : stage'[i] = stage[i] \/ stage'[i] = "none",
         stage' \in [Calls -> {"none", "flush", "body", "settled"}]
  PROVE  IInv'
<1>1. UNCHANGED <<mode, first, next, commit, aborted, exclusive, slot, mark, failure, signal,
                  log, durable, ran>>
  BY DEF group, disk
<1>2. Standing(log, failure, exclusive) /\ AllDone(log) /\ log \in Seq(Events) /\ durable \in Nat
      /\ MaxParallel \in Nat
  BY WorkingFacts DEF Running
<1>3. Cardinality(InFlight') <= MaxParallel
  <2>1. InFlight' \subseteq InFlight
    BY DEF InFlight
  <2>2. TypeOK
    BY DEF IInv
  <2>3. IsFiniteSet(InFlight) /\ Cardinality(InFlight) \in Nat
    BY <2>2, InFlightCounts
  <2>4. Cardinality(InFlight') <= Cardinality(InFlight) /\ Cardinality(InFlight') \in Nat
    BY <2>1, <2>3, FS_Subset, FS_CardinalityType
  <2> QED BY <1>2, <2>2, <2>3, <2>4 DEF TypeOK
<1>4. TypeOK'
  BY <1>1, <1>3 DEF IInv, TypeOK
<1>5. LogFits'
  BY <1>1, <1>2 DEF LogFits, Working, Standing
<1>6. PoolFits'
  BY <1>1 DEF PoolFits, Working
<1>7. EffectsFit'
  <2>1. Grows
    BY <1>1, <1>2, LogGrows
  <2> QED BY <1>1, <1>2, <2>1, EffectsKept DEF IInv, TypeOK
<1> QED BY <1>4, <1>5, <1>6, <1>7 DEF IInv, Working

\* A pass over the pool that starts a call, waits, or ends the group.
LEMMA CommitEndsStep ==
  ASSUME IInv, CommitEnds
  PROVE  IInv'
<1>1. /\ pc = "commit" /\ ~Ready("post") /\ ~Ready("final")
      /\ UNCHANGED <<slot, stage, mark, failure, signal, durable, ran>>
  BY DEF CommitEnds
<1>2. /\ Running(log, failure, exclusive, next, commit) /\ AllDone(log) /\ GroupFits
      /\ log \in Seq(Events) /\ Len(log) \in Nat
      /\ NumCalls \in Nat /\ MaxParallel \in Nat \ {0}
      /\ Calls = 1..NumCalls /\ exclusive \in SUBSET Calls
      /\ next \in 1..(NumCalls + 1) /\ commit \in 1..next /\ first \in 1..next
      /\ durable \in Nat /\ next \in Nat /\ commit \in Nat
  BY <1>1, WorkingFacts DEF Working, Cursor
<1>3. CASE failure
  <2>1. pc' = "drain" /\ UNCHANGED <<group, log>>
    BY <1>3 DEF CommitEnds
  <2>2. failure = TRUE
    BY <1>3 DEF IInv, TypeOK
  <2>3. stage' \in [Calls -> {"none", "flush", "body", "settled"}]
    BY <1>1 DEF IInv, TypeOK
  <2> QED BY <1>1, <2>1, <2>2, <2>3, DrainsStep DEF Working, disk
<1>4. CASE ~failure
  <2>1. FillPool(aborted \/ signal)
    BY <1>4 DEF CommitEnds
  <2> DEFINE stop == aborted \/ signal
  <2>2. aborted' = stop /\ UNCHANGED <<mode, first>> /\ stop \in BOOLEAN
    BY <2>1 DEF FillPool, IInv, TypeOK
  <2>3. \A i \in Calls : i < next /\ slot[i] = "none" => stage[i] \in {"flush", "body"}
    BY <1>1, <1>4 DEF IInv, PoolFits, Working
  <2>4. InFlight = {} => commit = next
    <3>1. SUFFICES ASSUME InFlight = {}, commit < next PROVE FALSE
      BY <1>2
    <3>2. commit \in Calls
      BY <1>2, <3>1
    <3>3. slot[commit] = "none"
      BY <1>1, <1>2, <3>2 DEF Ready, IInv, TypeOK
    <3>4. stage[commit] \in {"flush", "body"}
      BY <2>3, <3>1, <3>2, <3>3
    <3> QED BY <3>1, <3>2, <3>4 DEF InFlight
  <2>5. \A i \in exclusive : i < next
    BY <1>1, <1>2 DEF GroupFits, Cursor
  <2>6. CASE ~stop /\ mode = "parallel" /\ next <= NumCalls /\ Cardinality(InFlight) < MaxParallel
             /\ StartCall(next, "parallel")
    <3>1. /\ log' = Append(log, ToolCall(next)) /\ pc' = "prepare"
          /\ exclusive' = exclusive /\ UNCHANGED <<next, commit>>
      BY <2>6 DEF StartCall
    <3>2. next \in Calls /\ ToolCall(next) \in Events /\ exclusive \in SUBSET (exclusive \cup {next})
          /\ next \notin exclusive
      BY <1>2, <2>5, <2>6 DEF Events, Records
    <3>3. \A i \in exclusive : i < commit
      BY <1>2, <2>6 DEF GroupFits
    <3>4. Running(log', failure, exclusive, next + 1, commit) /\ AllDone(log')
      BY <1>2, <3>1, <3>2, <3>3, RunningRecord
    <3>5. Grows
      BY <1>2, <3>1, <3>2, LogGrows
    <3>6. Len(log') >= Len(log) /\ Len(log') \in Nat
      BY <1>2, <3>5 DEF Grows
    <3>7. TypeOK'
      BY <1>1, <2>2, <3>1, <3>6 DEF IInv, TypeOK, InFlight
    <3>8. LogFits'
      BY <1>1, <3>1, <3>4 DEF LogFits, Working, Running, Standing, Cursor
    <3>9. PoolFits'
      <4>1. Cardinality(InFlight') < MaxParallel
        BY <1>1, <2>6 DEF InFlight
      <4> QED BY <1>1, <2>3, <2>6, <3>1, <4>1 DEF PoolFits, Working
    <3>10. GroupFits'
      BY <1>1, <1>2, <2>2, <3>1 DEF GroupFits, Cursor
    <3>11. EffectsFit'
      BY <1>1, <1>2, <3>5, EffectsKept DEF IInv, TypeOK
    <3> QED BY <3>7, <3>8, <3>9, <3>10, <3>11 DEF IInv
  <2>7. CASE InFlight # {} /\ pc' = "race" /\ UNCHANGED <<log, next, commit, exclusive>>
    <3>1. TypeOK'
      BY <1>1, <2>2, <2>7 DEF IInv, TypeOK, InFlight
    <3>2. LogFits'
      BY <1>1, <2>7 DEF IInv, LogFits, Working, Cursor
    <3>3. PoolFits'
      BY <1>1, <2>3, <2>7 DEF PoolFits, Working
    <3>4. GroupFits'
      BY <1>1, <1>2, <2>2, <2>7 DEF GroupFits, Cursor
    <3>5. EffectsFit'
      BY <1>1, <2>7, QuietEffects
    <3> QED BY <3>1, <3>2, <3>3, <3>4, <3>5 DEF IInv
  <2>8. CASE InFlight = {} /\ EndGroup(stop)
    <3>1. InFlight' = {} /\ commit = next
      BY <1>1, <2>4, <2>8 DEF InFlight
    <3>2. /\ pc' = (IF stop \/ next > NumCalls THEN "done" ELSE "plan")
          /\ log' = (IF stop THEN log \o Skipped(next) ELSE log)
          /\ UNCHANGED <<next, commit, exclusive>>
      BY <2>8 DEF EndGroup
    <3>3. Skipped(next) \in Seq(Events)
      BY <1>2, SkippedCalls
    <3>4. Grows
      BY <1>2, <3>2, <3>3, LogGrows
    <3>5. Len(log') >= Len(log) /\ Len(log') \in Nat
      BY <1>2, <3>4 DEF Grows
    <3>6. TypeOK'
      BY <1>1, <2>2, <3>2, <3>5 DEF IInv, TypeOK, InFlight, Over
    <3>7. LogFits'
      <4>1. CASE pc' = "plan"
        <5>1. log' = log
          BY <3>2, <4>1
        <5> QED BY <1>1, <1>2, <3>2, <4>1, <5>1
                DEF LogFits, Working, Running, Standing, Cursor
      <4>2. CASE pc' = "done"
        <5>1. Running(log', failure, exclusive, NumCalls + 1, NumCalls + 1)
          <6>1. CASE stop
            BY <1>2, <2>5, <3>1, <3>2, <6>1, RunningSkipped
          <6>2. CASE ~stop
            <7>1. next = NumCalls + 1 /\ log' = log
              BY <1>2, <3>2, <4>2, <6>2
            <7> QED BY <1>2, <3>1, <7>1
          <6> QED BY <6>1, <6>2
        <5> QED BY <1>1, <3>2, <4>2, <5>1 DEF LogFits, Working, Running, Standing
      <4> QED BY <3>2, <4>1, <4>2
    <3>8. PoolFits'
      BY <1>1, <1>2, <2>3, <3>1, <3>2 DEF PoolFits, Working
    <3>9. pc' \in Working => GroupFits'
      BY <1>1, <1>2, <2>2, <3>2 DEF GroupFits, Cursor, Working
    <3>10. EffectsFit'
      BY <1>1, <1>2, <3>4, EffectsKept DEF IInv, TypeOK
    <3> QED BY <3>6, <3>7, <3>8, <3>9, <3>10 DEF IInv
  <2> QED BY <2>1, <2>6, <2>7, <2>8 DEF FillPool
<1> QED BY <1>3, <1>4

\* The race for the pool returns.
LEMMA RaceReturnsStep ==
  ASSUME IInv, RaceReturns
  PROVE  IInv'
<1>1. /\ pc = "race" /\ pc' = (IF failure THEN "drain" ELSE "commit")
      /\ UNCHANGED <<group, slot, mark, failure, signal, disk, ran>>
      /\ UNCHANGED <<mode, first, next, commit, aborted, exclusive, log, durable>>
  BY DEF RaceReturns, group, disk
<1>2. PICK i \in Calls : stage[i] = "settled" /\ stage' = [stage EXCEPT ![i] = "none"]
  BY DEF RaceReturns
<1>3. /\ stage' \in [Calls -> {"none", "flush", "body", "settled"}]
      /\ stage'[i] = "none" /\ \A j \in Calls \ {i} : stage'[j] = stage[j]
  BY <1>2 DEF IInv, TypeOK
<1>4. CASE failure
  <2>1. failure = TRUE /\ pc' = "drain"
    BY <1>1, <1>4 DEF IInv, TypeOK
  <2>2. \A j \in Calls : stage'[j] = stage[j] \/ stage'[j] = "none"
    BY <1>3
  <2> QED BY <1>1, <1>3, <2>1, <2>2, DrainsStep DEF Working
<1>5. CASE ~failure
  <2>1. pc' = "commit"
    BY <1>1, <1>5
  <2>2. InFlight' \subseteq InFlight
    BY <1>3 DEF InFlight
  <2>3. Cardinality(InFlight') <= MaxParallel
    <3>1. TypeOK
      BY DEF IInv
    <3>2. IsFiniteSet(InFlight) /\ Cardinality(InFlight) \in Nat
      BY <3>1, InFlightCounts
    <3>3. Cardinality(InFlight') <= Cardinality(InFlight) /\ Cardinality(InFlight') \in Nat
      BY <2>2, <3>2, FS_Subset, FS_CardinalityType
    <3> QED BY <3>1, <3>2, <3>3, SchedulerAssumption DEF TypeOK
  <2>4. TypeOK'
    BY <1>1, <1>3, <2>1, <2>3 DEF IInv, TypeOK
  <2>5. LogFits'
    BY <1>1, <2>1 DEF IInv, LogFits, Working, Cursor
  <2>6. PoolFits'
    <3>1. \A j \in Calls : j < next /\ slot[j] = "none" => stage[j] \in {"flush", "body"}
      BY <1>1, <1>5 DEF IInv, PoolFits, Working
    <3>2. \A j \in Calls : j < next /\ slot[j] = "none" => stage'[j] \in {"flush", "body"}
      BY <1>2, <1>3, <3>1
    <3> QED BY <1>1, <2>1, <3>2 DEF PoolFits
  <2>7. GroupFits'
    BY <1>1, <2>1 DEF IInv, GroupFits, Working, Cursor
  <2>8. EffectsFit'
    <3>1. log \in Seq(Events) /\ durable \in Nat /\ durable <= durable
      BY <1>1, WorkingFacts DEF Working
    <3>2. Grows
      BY <1>1, <3>1, LogGrows
    <3> QED BY <1>1, <1>3, <3>1, <3>2, EffectsKept DEF IInv, TypeOK
  <2> QED BY <2>4, <2>5, <2>6, <2>7, <2>8 DEF IInv
<1> QED BY <1>4, <1>5

\* A failed group has drained its pool.
LEMMA DrainPoolStep ==
  ASSUME IInv, DrainPool
  PROVE  IInv'
<1>1. /\ pc = "drain" /\ pc' = "failed" /\ \A i \in InFlight : stage[i] = "settled"
      /\ UNCHANGED <<mode, first, next, commit, aborted, exclusive, slot, stage, mark, failure,
                     signal, log, durable, ran>>
  BY DEF DrainPool, group, disk
<1>2. TypeOK'
  BY <1>1 DEF IInv, TypeOK, InFlight, Over
<1>3. LogFits'
  BY <1>1 DEF IInv, LogFits, Working
<1>4. PoolFits'
  BY <1>1 DEF PoolFits, InFlight, Working
<1>5. EffectsFit'
  BY <1>1, QuietEffects
<1> QED BY <1>1, <1>2, <1>3, <1>4, <1>5 DEF IInv, Working

\* The agent closes a step that answered every call or failed.
LEMMA CloseStepStep ==
  ASSUME IInv, CloseStep
  PROVE  IInv'
<1>1. /\ pc \in {"done", "failed"} /\ pc' = "closed" /\ log' = Append(log, Event("step/end"))
      /\ UNCHANGED <<mode, first, next, commit, aborted, exclusive, slot, stage, mark, failure,
                     signal, durable, ran>>
  BY DEF CloseStep, group
<1>2. Standing(log, failure, exclusive) /\ (failure = TRUE \/ Unanswered(log) = {})
  <2>1. CASE pc = "done"
    <3>1. Running(log, failure, exclusive, NumCalls + 1, NumCalls + 1)
      BY <2>1 DEF IInv, LogFits
    <3>2. \A i \in Calls : i < NumCalls + 1
      BY SchedulerAssumption DEF Calls
    <3> QED BY <3>1, <3>2 DEF Running, Progress, Unanswered
  <2>2. CASE pc = "failed"
    BY <2>2 DEF IInv, LogFits
  <2> QED BY <1>1, <2>1, <2>2
<1>3. /\ Sound(log', failure)
      /\ \A kind \in {"tool/call", "tool/result"} : \A j : At(log', kind, j) = At(log, kind, j)
  BY <1>1, <1>2, SoundStepEnd DEF Standing
<1>4. log \in Seq(Events) /\ Event("step/end") \in Events /\ Len(log) \in Nat
  BY <1>2, SoundIsGood DEF Standing, Events, Boundaries
<1>5. Grows
  BY <1>1, <1>4, LogGrows
<1>6. Len(log') >= Len(log) /\ Len(log') \in Nat
  BY <1>4, <1>5 DEF Grows
<1>7. TypeOK'
  BY <1>1, <1>4, <1>6 DEF IInv, TypeOK, InFlight, Over
<1>8. LogFits'
  <2>1. InModelOrder(log') /\ Barrier(log', exclusive)
    BY <1>2, <1>3 DEF Standing, InModelOrder, Barrier
  <2> QED BY <1>1, <1>3, <2>1 DEF LogFits, Working
<1>9. PoolFits'
  <2>1. \A i \in Calls : stage[i] \in {"none", "settled"}
    BY <1>1 DEF IInv, PoolFits, InFlight
  <2> QED BY <1>1, <2>1 DEF PoolFits, Working
<1>10. EffectsFit'
  <2>1. durable \in Nat
    BY <1>4 DEF IInv, TypeOK
  <2> QED BY <1>1, <1>4, <1>5, <2>1, EffectsKept DEF IInv, TypeOK
<1> QED BY <1>1, <1>7, <1>8, <1>9, <1>10 DEF IInv, Working

-----------------------------------------------------------------------------
(* The dispatched calls, and the abort. *)

\* A dispatched call moves on: its checkpoint has resolved and its body is entered,
\* or it has settled with a slot, or it has rejected and fails the scheduler.
LEMMA DispatchStep ==
  ASSUME IInv, NEW i \in Calls, pc # "crashed", stage[i] \in {"flush", "body"},
         UNCHANGED <<pc, group, mark, signal, disk>>,
         NEW where \in {"body", "settled"}, stage' = [stage EXCEPT ![i] = where],
         slot' = slot \/ \E kind \in {"post", "final"} : slot' = [slot EXCEPT ![i] = kind],
         failure' = failure \/ failure' = TRUE,
         failure' = TRUE \/ where = "body" \/ slot'[i] # "none",
         IF where = "body" THEN stage[i] = "flush" /\ durable >= mark[i] /\ ran' = ran \cup {i}
         ELSE ran' = ran
  PROVE  IInv'
<1>1. UNCHANGED <<pc, mode, first, next, commit, aborted, exclusive, mark, signal, log, durable>>
  BY DEF group, disk
<1>2. pc \in Working \cup {"drain"}
  <2>1. pc \notin {"done", "failed", "closed", "resumed"}
    BY DEF IInv, PoolFits, InFlight
  <2> QED BY <2>1 DEF IInv, TypeOK, Over, Working
<1>3. /\ stage \in [Calls -> {"none", "flush", "body", "settled"}]
      /\ slot \in [Calls -> {"none", "post", "final"}]
      /\ failure \in BOOLEAN /\ ran \subseteq Calls
  BY DEF IInv, TypeOK
<1>4. /\ stage' \in [Calls -> {"none", "flush", "body", "settled"}]
      /\ stage'[i] = where /\ \A j \in Calls \ {i} : stage'[j] = stage[j]
  BY <1>3
<1>5. /\ slot' \in [Calls -> {"none", "post", "final"}]
      /\ \A j \in Calls : slot[j] # "none" => slot'[j] # "none"
      /\ \A j \in Calls \ {i} : slot'[j] = slot[j]
  BY <1>3
<1>6. InFlight' = InFlight
  BY <1>4 DEF InFlight
<1>7. ran' \subseteq Calls /\ ran \subseteq ran' /\ \A j \in ran' : j \in ran \/ (j = i /\ where = "body")
  BY <1>3
<1>8. failure' \in BOOLEAN /\ (failure' = FALSE => failure = FALSE)
  BY <1>3
<1>9. next \in Nat /\ Calls \subseteq Nat /\ ~(i >= next)
  BY SchedulerAssumption DEF IInv, TypeOK, Calls
<1>10. TypeOK'
  <2>1. Cardinality(InFlight') <= MaxParallel
    BY <1>6 DEF IInv, TypeOK
  <2>2. \A j \in Calls : j >= next' => stage'[j] = "none" /\ slot'[j] = "none"
    <3>1. \A j \in Calls : j >= next => j # i
      BY <1>9
    <3> QED BY <1>1, <1>4, <1>5, <3>1 DEF IInv, TypeOK
  <2>3. \A j \in Calls : j < commit' => slot'[j] # "none"
    BY <1>1, <1>5 DEF IInv, TypeOK
  <2>4. TypeOK
    BY DEF IInv
  <2> QED BY <1>1, <1>4, <1>5, <1>7, <1>8, <2>1, <2>2, <2>3, <2>4 DEF TypeOK
<1>11. LogFits'
  <2>1. Sound(log, failure')
    BY SoundAfterFailure DEF IInv, LogFits
  <2>2. pc \in Working => Running(log, failure', exclusive, Cursor, commit) /\ AllDone(log)
    BY <2>1 DEF IInv, LogFits, Running, Standing
  <2>3. pc = "drain" => failure' = TRUE /\ Standing(log, failure', exclusive) /\ AllDone(log)
    BY <2>1 DEF IInv, LogFits, Standing
  <2>4. Cursor' = Cursor
    BY <1>1 DEF Cursor
  <2> QED BY <1>1, <1>2, <2>1, <2>2, <2>3, <2>4 DEF LogFits, Working
<1>12. PoolFits'
  <2>1. pc # "plan"
    <3>1. i \in InFlight
      BY DEF InFlight
    <3> QED BY <3>1 DEF IInv, PoolFits
  <2>2. pc = "prepare" => next <= NumCalls /\ Cardinality(InFlight') < MaxParallel
    BY <1>6 DEF IInv, PoolFits
  <2>3. pc = "finalize" => commit < next /\ slot'[commit] # "none"
    <3>1. SUFFICES ASSUME pc = "finalize" PROVE commit < next /\ slot'[commit] # "none"
      OBVIOUS
    <3>2. commit < next /\ slot[commit] # "none" /\ commit \in Calls
      BY <3>1, WorkingFacts DEF IInv, PoolFits, Working
    <3> QED BY <1>5, <3>2
  <2>4. pc \in Working /\ ~failure' =>
           \A j \in Calls : j < next /\ slot'[j] = "none" => stage'[j] \in {"flush", "body"}
    <3>1. SUFFICES ASSUME pc \in Working, ~failure', NEW j \in Calls, j < next, slot'[j] = "none"
                   PROVE  stage'[j] \in {"flush", "body"}
      OBVIOUS
    <3>2. ~failure
      BY <1>3, <1>8, <3>1
    <3>3. CASE j = i
      BY <1>4, <3>1, <3>3
    <3>4. CASE j # i
      BY <1>4, <1>5, <3>1, <3>2, <3>4 DEF IInv, PoolFits
    <3> QED BY <3>3, <3>4
  <2> QED BY <1>1, <1>2, <2>1, <2>2, <2>3, <2>4 DEF PoolFits, Working
<1>13. pc' \in Working => GroupFits'
  BY <1>1 DEF IInv, GroupFits, Cursor
<1>14. EffectsFit'
  <2>1. ASSUME NEW j \in Calls, stage'[j] = "flush"
        PROVE  mark[j] <= Len(log) /\ \E p \in At(log, "tool/call", j) : p <= mark[j]
    <3>1. stage[j] = "flush"
      BY <1>4, <2>1
    <3> QED BY <3>1 DEF IInv, EffectsFit
  <2>2. ASSUME NEW j \in Calls, stage'[j] = "body"
        PROVE  j \in ran'
    BY <1>4, <1>7, <2>2 DEF IInv, EffectsFit
  <2>3. ASSUME NEW j \in ran'
        PROVE  \E p \in At(log, "tool/call", j) : p <= durable
    <3>1. CASE j \in ran
      BY <3>1 DEF IInv, EffectsFit
    <3>2. CASE j = i /\ where = "body"
      <4>1. PICK p \in At(log, "tool/call", i) : p <= mark[i]
        BY <3>2 DEF IInv, EffectsFit
      <4>2. p \in Nat /\ mark[i] \in Nat /\ durable \in Nat
        <5>1. log \in Seq(Events)
          BY SoundIsGood DEF IInv, LogFits
        <5> QED BY <4>1, <5>1 DEF At, IInv, TypeOK
      <4> QED BY <3>2, <4>1, <4>2
    <3> QED BY <1>7, <3>1, <3>2
  <2> QED BY <1>1, <2>1, <2>2, <2>3 DEF EffectsFit
<1> QED BY <1>1, <1>10, <1>11, <1>12, <1>13, <1>14 DEF IInv

\* A dispatched call moves, beside the scheduler.
LEMMA CallStep ==
  ASSUME IInv, NEW i \in Calls,
         CheckpointResolves(i) \/ CheckpointRejects(i) \/ BodyReturns(i) \/ DispatchFails(i)
  PROVE  IInv'
<1>1. stage[i] \in {"flush", "body"}
  BY DEF CheckpointResolves, CheckpointRejects, BodyReturns, DispatchFails
<1>2. pc # "crashed"
  BY <1>1 DEF IInv, PoolFits
<1>3. slot \in [Calls -> {"none", "post", "final"}]
  BY DEF IInv, TypeOK
<1>4. UNCHANGED <<pc, group, mark, signal, disk>>
  BY DEF CheckpointResolves, CheckpointRejects, BodyReturns, DispatchFails
<1>5. CASE CheckpointResolves(i) /\ ~signal
  <2>1. /\ stage[i] = "flush" /\ durable >= mark[i] /\ stage' = [stage EXCEPT ![i] = "body"]
        /\ ran' = ran \cup {i} /\ slot' = slot /\ failure' = failure
    BY <1>5 DEF CheckpointResolves
  <2> QED BY <1>1, <1>2, <1>4, <2>1, DispatchStep
<1>6. CASE \E kind \in {"post", "final"} : Settle(i, kind) /\ failure' = failure /\ ran' = ran
  <2>1. PICK kind \in {"post", "final"} : Settle(i, kind) /\ failure' = failure /\ ran' = ran
    BY <1>6
  <2>2. stage' = [stage EXCEPT ![i] = "settled"] /\ slot' = [slot EXCEPT ![i] = kind]
    BY <2>1 DEF Settle
  <2>3. slot'[i] # "none"
    BY <1>3, <2>2
  <2> QED BY <1>1, <1>2, <1>4, <2>1, <2>2, <2>3, DispatchStep
<1>7. CASE DispatchFails(i)
  <2>1. /\ stage' = [stage EXCEPT ![i] = "settled"] /\ failure' = TRUE /\ slot' = slot
        /\ ran' = ran
    BY <1>7 DEF DispatchFails
  <2> QED BY <1>1, <1>2, <1>4, <2>1, DispatchStep
<1> QED BY <1>5, <1>6, <1>7 DEF CheckpointResolves, CheckpointRejects, BodyReturns

\* The signal is aborted.
LEMMA AbortStep ==
  ASSUME IInv, Abort
  PROVE  IInv'
<1>1. /\ signal' = TRUE
      /\ UNCHANGED <<pc, mode, first, next, commit, aborted, exclusive, slot, stage, mark, failure,
                     log, durable, ran>>
  BY DEF Abort, group, disk
<1>2. TypeOK'
  BY <1>1 DEF IInv, TypeOK, InFlight
<1>3. LogFits'
  BY <1>1 DEF IInv, LogFits, Cursor
<1>4. PoolFits'
  BY <1>1 DEF IInv, PoolFits, InFlight
<1>5. pc' \in Working => GroupFits'
  BY <1>1 DEF IInv, GroupFits, Cursor
<1>6. EffectsFit'
  BY <1>1, QuietEffects
<1> QED BY <1>2, <1>3, <1>4, <1>5, <1>6 DEF IInv

-----------------------------------------------------------------------------
(* The disk, the crash and the repair. *)

\* More of the log becomes durable.
LEMMA PersistStep ==
  ASSUME IInv, Persist
  PROVE  IInv'
<1>1. UNCHANGED <<pc, mode, first, next, commit, aborted, exclusive, slot, stage, mark, failure,
                  signal, log, ran>>
  BY DEF Persist, group
<1>2. log \in Seq(Events) /\ Len(log) \in Nat /\ durable \in Nat /\ durable >= 2
  <2>1. log \in Seq(Events) /\ Len(log) \in Nat
    BY SoundIsGood DEF IInv, LogFits
  <2> QED BY <2>1 DEF IInv, TypeOK
<1>3. durable' \in Nat /\ durable <= durable' /\ durable' \in 2..Len(log)
  BY <1>2 DEF Persist
<1>4. TypeOK'
  BY <1>1, <1>3 DEF IInv, TypeOK, InFlight
<1>5. LogFits'
  BY <1>1 DEF IInv, LogFits, Cursor
<1>6. PoolFits'
  BY <1>1 DEF IInv, PoolFits, InFlight
<1>7. pc' \in Working => GroupFits'
  BY <1>1 DEF IInv, GroupFits, Cursor
<1>8. EffectsFit'
  <2>1. Grows
    BY <1>1, <1>2, LogGrows
  <2> QED BY <1>1, <1>2, <1>3, <2>1, EffectsKept DEF IInv, TypeOK
<1> QED BY <1>4, <1>5, <1>6, <1>7, <1>8 DEF IInv

\* A crash keeps the durable prefix, and with it the record of every call whose
\* body was entered.
LEMMA CrashStep ==
  ASSUME IInv, Crash
  PROVE  IInv'
<1>1. /\ pc' = "crashed" /\ log' = SubSeq(log, 1, durable) /\ stage' = [i \in Calls |-> "none"]
      /\ UNCHANGED <<mode, first, next, commit, aborted, exclusive, slot, mark, failure, signal,
                     durable, ran>>
  BY DEF Crash, group
<1>2. Sound(log, failure) /\ log \in Seq(Events) /\ Len(log) \in Nat
  BY SoundIsGood DEF IInv, LogFits
<1>3. durable \in 2..Len(log)
  BY DEF IInv, TypeOK
<1>4. Sound(log', failure) /\ Len(log') = durable
  BY <1>1, <1>2, <1>3, SoundCut
<1>5. \A i \in Calls : stage'[i] = "none"
  BY <1>1
<1>6. InFlight' = {}
  BY <1>5 DEF InFlight
<1>7. TypeOK'
  <2>1. Cardinality(InFlight') <= MaxParallel
    BY <1>6, FS_EmptySet, SchedulerAssumption
  <2>2. durable' \in 2..Len(log')
    BY <1>1, <1>2, <1>3, <1>4
  <2>3. stage' \in [Calls -> {"none", "flush", "body", "settled"}]
    BY <1>1
  <2>4. \A i \in Calls : i >= next' => stage'[i] = "none" /\ slot'[i] = "none"
    BY <1>1, <1>5 DEF IInv, TypeOK
  <2> QED BY <1>1, <2>1, <2>2, <2>3, <2>4 DEF IInv, TypeOK, Over
<1>8. LogFits'
  BY <1>1, <1>4 DEF LogFits, Working
<1>9. PoolFits'
  BY <1>1, <1>5 DEF PoolFits, Working
<1>10. EffectsFit'
  <2>1. ASSUME NEW i \in ran
        PROVE  \E p \in At(log', "tool/call", i) : p <= durable
    <3>1. PICK p \in At(log, "tool/call", i) : p <= durable
      BY DEF IInv, EffectsFit
    <3>2. p \in DOMAIN log' /\ log'[p] = log[p]
      BY <1>1, <1>2, <1>3, <3>1 DEF At
    <3> QED BY <3>1, <3>2 DEF At
  <2> QED BY <1>1, <1>5, <2>1 DEF EffectsFit
<1> QED BY <1>1, <1>7, <1>8, <1>9, <1>10 DEF IInv, Working

\* A repair stores a part of its closers.
LEMMA WriteRepairStep ==
  ASSUME IInv, WriteRepair
  PROVE  IInv'
<1>1. /\ pc = "crashed" /\ pc' = "crashed"
      /\ UNCHANGED <<mode, first, next, commit, aborted, exclusive, slot, stage, mark, failure,
                     signal, ran>>
  BY DEF WriteRepair, group
<1>2. Sound(log, failure) /\ log \in Seq(Events) /\ Len(log) \in Nat /\ durable \in 2..Len(log)
  BY SoundIsGood DEF IInv, LogFits, TypeOK
<1>3. /\ Closers(log) \in Seq(Events)
      /\ \A n \in 0..Len(Closers(log)) : Sound(log \o SubSeq(Closers(log), 1, n), failure)
  BY <1>2, RepairIsSound
<1> DEFINE c == Closers(log)
<1>4. PICK n \in 1..Len(c) : /\ log' = log \o SubSeq(c, 1, n)
                             /\ durable' = Len(log) + Len(SubSeq(c, 1, n))
  BY DEF WriteRepair
<1> HIDE DEF c
<1>5. c \in Seq(Events) /\ Len(c) \in Nat /\ n \in 0..Len(c) /\ n \in Nat
  BY <1>3, <1>4 DEF c
<1>6. SubSeq(c, 1, n) \in Seq(Events) /\ Len(SubSeq(c, 1, n)) = n
  BY <1>5
<1>7. Sound(log', failure)
  BY <1>3, <1>4, <1>5 DEF c
<1>8. Len(log') = Len(log) + n
  BY <1>2, <1>4, <1>5, Extend
<1>9. durable' = Len(log') /\ durable' \in 2..Len(log') /\ durable \in Nat /\ durable' \in Nat
      /\ durable <= durable'
  BY <1>2, <1>4, <1>5, <1>6, <1>8
<1>10. Grows
  BY <1>2, <1>4, <1>6, LogGrows
<1>11. TypeOK'
  BY <1>1, <1>9 DEF IInv, TypeOK, InFlight, Over
<1>12. LogFits'
  BY <1>1, <1>7 DEF LogFits, Working
<1>13. PoolFits'
  BY <1>1 DEF IInv, PoolFits, Working
<1>14. EffectsFit'
  BY <1>1, <1>2, <1>9, <1>10, EffectsKept DEF IInv, TypeOK
<1> QED BY <1>1, <1>11, <1>12, <1>13, <1>14 DEF IInv, Working

\* A session is resumed from what was stored and repaired.
LEMMA ResumeStep ==
  ASSUME IInv, Resume
  PROVE  IInv'
<1>1. /\ pc = "crashed" /\ pc' = "resumed" /\ Closers(log) = <<>>
      /\ UNCHANGED <<mode, first, next, commit, aborted, exclusive, slot, stage, mark, failure,
                     signal, log, durable, ran>>
  BY DEF Resume, group, disk
<1>2. Sound(log, failure)
  BY DEF IInv, LogFits
<1>3. Closed(log)
  BY <1>1, <1>2, RepairIsSound
<1>4. TypeOK'
  BY <1>1 DEF IInv, TypeOK, InFlight, Over
<1>5. LogFits'
  BY <1>1, <1>2, <1>3 DEF LogFits, Working
<1>6. PoolFits'
  BY <1>1 DEF IInv, PoolFits, Working
<1>7. EffectsFit'
  BY <1>1, QuietEffects
<1> QED BY <1>1, <1>4, <1>5, <1>6, <1>7 DEF IInv, Working

-----------------------------------------------------------------------------
(* The theorems. *)

\* The invariant holds at the start.
LEMMA InitStep ==
  ASSUME Init
  PROVE  IInv
<1>1. log = Append(Prologue, Message)
  BY DEF Init, Prologue, TurnStart, Message, Event
<1>2. /\ Sound(log, failure) /\ HasMessage(log) /\ Open(log) /\ Len(log) = 3
      /\ \A kind \in {"tool/call", "tool/result"} : \A i : At(log, kind, i) = {}
  BY <1>1, MessageIsSound
<1>3. InFlight = {}
  BY DEF Init, InFlight
<1>4. NumCalls \in Nat \ {0} /\ MaxParallel \in Nat \ {0} /\ Calls = 1..NumCalls
  BY SchedulerAssumption DEF Calls
<1>5. TypeOK
  <2>1. Cardinality(InFlight) <= MaxParallel
    BY <1>3, <1>4, FS_EmptySet
  <2>2. /\ slot \in [Calls -> {"none", "post", "final"}]
        /\ stage \in [Calls -> {"none", "flush", "body", "settled"}]
        /\ mark \in [Calls -> Nat]
        /\ \A i \in Calls : stage[i] = "none" /\ slot[i] = "none"
    BY DEF Init
  <2>3. /\ first \in 1..(NumCalls + 1) /\ next \in first..(NumCalls + 1) /\ commit \in 1..next
        /\ \A i \in Calls : ~(i < commit)
        /\ durable \in 2..Len(log)
    BY <1>2, <1>4 DEF Init
  <2>4. /\ pc = "plan" /\ mode \in Modes
        /\ failure \in BOOLEAN /\ signal \in BOOLEAN /\ aborted \in BOOLEAN
        /\ ran \subseteq Calls /\ exclusive \subseteq Calls
    BY DEF Init, Modes
  <2> QED BY <2>1, <2>2, <2>3, <2>4 DEF TypeOK
<1>6. LogFits
  <2>1. Progress(log, 1, 1)
    BY <1>2, <1>4 DEF Progress, Called, AnsweredIn
  <2>2. InModelOrder(log) /\ Barrier(log, {}) /\ AllDone(log)
    BY <1>2 DEF InModelOrder, Barrier, AllDone
  <2> QED BY <1>2, <2>1, <2>2 DEF Init, LogFits, Working, Running, Standing, Cursor
<1>7. PoolFits
  BY <1>3, <1>4 DEF Init, PoolFits, Working
<1>8. GroupFits
  BY DEF Init, GroupFits
<1>9. EffectsFit
  BY DEF Init, EffectsFit
<1> QED BY <1>5, <1>6, <1>7, <1>8, <1>9 DEF IInv

\* Nothing changes.
LEMMA StutterStep ==
  ASSUME IInv, UNCHANGED vars
  PROVE  IInv'
<1>1. UNCHANGED <<pc, mode, first, next, commit, aborted, exclusive, slot, stage, mark, failure,
                  signal, log, durable, ran>>
  BY DEF vars, group, disk
<1>2. TypeOK'
  BY <1>1 DEF IInv, TypeOK, InFlight
<1>3. LogFits'
  BY <1>1 DEF IInv, LogFits, Cursor
<1>4. PoolFits'
  BY <1>1 DEF IInv, PoolFits, InFlight
<1>5. pc' \in Working => GroupFits'
  BY <1>1 DEF IInv, GroupFits, Cursor
<1>6. EffectsFit'
  BY <1>1, QuietEffects
<1> QED BY <1>2, <1>3, <1>4, <1>5, <1>6 DEF IInv

\* Every step of the scheduler, of the calls, of the disk, of a crash and of a repair
\* keeps the inductive invariant.
THEOREM InductiveInvariant == Spec => []IInv
<1>1. Init => IInv
  BY InitStep
<1>2. IInv /\ [Next]_vars => IInv'
  <2> SUFFICES ASSUME IInv, [Next]_vars PROVE IInv'
    OBVIOUS
  <2>1. ASSUME Scheduler PROVE IInv'
    BY <2>1, BeginGroupStep, PrepareReturnsStep, FailsStep, CommitStep, AwaitFinalizeStep,
       CommitEndsStep, RaceReturnsStep, DrainPoolStep, CloseStepStep DEF Scheduler
  <2>2. ASSUME NEW i \in Calls,
               CheckpointResolves(i) \/ CheckpointRejects(i) \/ BodyReturns(i) \/ DispatchFails(i)
        PROVE  IInv'
    BY <2>2, CallStep
  <2>3. ASSUME Abort \/ Persist \/ Crash \/ WriteRepair \/ Resume PROVE IInv'
    BY <2>3, AbortStep, PersistStep, CrashStep, WriteRepairStep, ResumeStep
  <2>4. ASSUME UNCHANGED vars PROVE IInv'
    BY <2>4, StutterStep
  <2> QED BY <2>1, <2>2, <2>3, <2>4 DEF Next
<1> QED BY <1>1, <1>2, PTL DEF Spec

\* The variables of the scheduler keep their types; no more than MaxParallel calls
\* are ever in flight, and the durable prefix is a prefix (tool-calls.ts, fillPool).
THEOREM SchedulerIsTyped == Spec => []TypeOK
<1>1. IInv => TypeOK
  BY DEF IInv
<1> QED BY <1>1, InductiveInvariant, PTL

\* What the invariant says of the log while the process lives.
LEMMA OrderOfLivingStep ==
  ASSUME IInv, pc \notin {"crashed", "resumed"}
  PROVE  InModelOrder(log) /\ Barrier(log, exclusive)
<1>1. pc \in Working \cup {"drain", "failed", "done", "closed"}
  BY DEF IInv, TypeOK, Over, Working
<1> QED BY <1>1 DEF IInv, LogFits, Running, Standing

\* Calls and results enter the transcript in the model's order for any number of
\* calls and any pool, whatever the order in which dispatches settle, abort and
\* fail (tool-calls.ts, commitReady).
THEOREM ResultsAreOrdered == Spec => []ModelOrder
<1>1. IInv => ModelOrder
  BY OrderOfLivingStep DEF ModelOrder, InModelOrder, Positions, At
<1> QED BY <1>1, InductiveInvariant, PTL

\* An exclusive call never overlaps another one in the transcript
\* (tool-calls.ts, executeToolCalls and fillPool).
THEOREM ExclusiveCallsAreBarriers == Spec => []ExclusiveIsBarrier
<1>1. IInv => ExclusiveIsBarrier
  <2> SUFFICES ASSUME IInv, pc \notin {"crashed", "resumed"} PROVE Barrier(log, exclusive)
    BY DEF ExclusiveIsBarrier, Barrier, Positions, At
  <2> QED BY OrderOfLivingStep
<1> QED BY <1>1, InductiveInvariant, PTL

\* Two positions of which any two are equal are one.
LEMMA OneOrNone ==
  ASSUME NEW S, \A p, q \in S : p = q
  PROVE  Cardinality(S) <= 1 /\ (S # {} => Cardinality(S) = 1)
<1>1. CASE S = {}
  BY <1>1, FS_EmptySet
<1>2. CASE S # {}
  <2>1. PICK x \in S : TRUE
    BY <1>2
  <2>2. S = {x}
    BY <2>1
  <2> QED BY <2>2, FS_Singleton
<1> QED BY <1>1, <1>2

\* Each call is recorded and answered exactly once when the step ends well, no result
\* is made up when it fails, and what a crash and any number of interrupted repairs
\* leave answers each call once, truthfully (tool-calls.ts, repair.ts).
THEOREM CallsAreAnsweredOnce == Spec => []AnsweredOnce
<1>1. ASSUME IInv PROVE AllAnswered
  <2>1. Good(log) /\ log \in Seq(Events)
    BY <1>1, SoundIsGood DEF IInv, LogFits
  <2>2. ASSUME pc \in {"done", "failed", "closed"}
        PROVE  Valid(log) /\ \A i \in InFlight : stage[i] = "settled"
    BY <1>1, <2>1, <2>2 DEF Good, IInv, PoolFits, InFlight
  <2>3. ASSUME pc = "done"
        PROVE  /\ InFlight = {}
               /\ \A i \in Calls : /\ Cardinality(Positions("tool/call", i)) = 1
                                   /\ Cardinality(Positions("tool/result", i)) = 1
    <3>1. Progress(log, NumCalls + 1, NumCalls + 1)
      BY <1>1, <2>3 DEF IInv, LogFits, Running
    <3>2. ASSUME NEW i \in Calls
          PROVE  At(log, "tool/call", i) # {} /\ At(log, "tool/result", i) # {}
      <4>1. i < NumCalls + 1
        BY SchedulerAssumption DEF Calls
      <4> QED BY <3>1, <4>1 DEF Progress, Called, AnsweredIn
    <3>3. \A i \in Calls : /\ Cardinality(At(log, "tool/call", i)) = 1
                           /\ Cardinality(At(log, "tool/result", i)) = 1
      BY <2>1, <3>2, OneOrNone DEF Good, Once
    <3> QED BY <1>1, <2>3, <3>3 DEF IInv, PoolFits, Positions, At
  <2>4. ASSUME pc = "failed"
        PROVE  \A i \in Calls : \A p \in Positions("tool/result", i) : log[p].outcome = "done"
    <3>1. AllDone(log)
      BY <1>1, <2>4 DEF IInv, LogFits
    <3> QED BY <3>1 DEF AllDone, Positions, At
  <2> QED BY <2>2, <2>3, <2>4 DEF AllAnswered
<1>2. ASSUME IInv, pc = "resumed" PROVE RepairAnswersOnce
  <2>1. Good(log) /\ Ends(log, failure) /\ log \in Seq(Events) /\ Len(log) \in Nat
    BY <1>2, SoundIsGood DEF IInv, LogFits
  <2>2. Closed(log) /\ Ended(log)
    BY <1>2, <2>1 DEF IInv, LogFits, Good, Ordered
  <2>3. TraceOf(log).openTurn = 0 /\ TraceOf(log).openStep = 0
    <3>1. TraceOf(log) = Trace(0, 0, 2, 2, {})
      BY <2>1, <2>2 DEF Good, TraceFits
    <3> QED BY <3>1 DEF Trace
  <2>4. ASSUME Len(log) >= 3, log[3].type = "assistant/message"
        PROVE  HasMessage(log)
    <3>1. log[3] \in Events
      BY <2>1, <2>4
    <3>2. log[3] = Message
      BY <2>4, <3>1 DEF Events, Boundaries, Records, Results, TurnStart, Event, TurnEnd,
                        ToolCall, ToolResult
    <3> QED BY <2>4, <3>2 DEF HasMessage
  <2>5. ASSUME HasMessage(log), NEW i \in Calls
        PROVE  /\ Cardinality(At(log, "tool/result", i)) <= 1
               /\ AnsweredIn(log, i) \/ failure
               /\ \A p \in At(log, "tool/result", i) :
                     /\ log[p].outcome = "unknown" => Called(log, i)
                     /\ log[p].outcome = "not-started" => ~Called(log, i)
    <3>1. failure = TRUE \/ AnsweredIn(log, i)
      BY <2>1, <2>2, <2>5 DEF Ends, Unanswered
    <3>2. Cardinality(At(log, "tool/result", i)) <= 1
      BY <2>1, OneOrNone DEF Good, Once
    <3> QED BY <2>1, <3>1, <3>2 DEF Good, Once
  <2> QED BY <2>1, <2>3, <2>4, <2>5
          DEF RepairAnswersOnce, Good, Positions, At, Answered, AnsweredIn, Recorded, Called
<1>3. IInv => AnsweredOnce
  BY <1>1, <1>2 DEF AnsweredOnce, RepairAnswersOnce
<1> QED BY <1>3, InductiveInvariant, PTL

\* Every call whose body was entered is known to the resumed session as recorded
\* (the checkpoint policy on tools/execute, repair.ts).
THEOREM EffectsStayKnown == Spec => []EffectsAreRecorded
<1>1. IInv => EffectsAreRecorded
  <2> SUFFICES ASSUME IInv, pc = "resumed", NEW i \in ran
               PROVE  /\ Recorded(i)
                      /\ \A p \in Positions("tool/result", i) : log[p].outcome # "not-started"
    BY DEF EffectsAreRecorded
  <2>1. i \in Calls /\ Called(log, i)
    BY DEF IInv, TypeOK, EffectsFit, Called
  <2>2. Good(log)
    BY SoundIsGood DEF IInv, LogFits
  <2>3. \A p \in At(log, "tool/result", i) : log[p].outcome # "not-started"
    BY <2>1, <2>2 DEF Good, Once
  <2> QED BY <2>1, <2>3 DEF Recorded, Called, Positions, At
<1> QED BY <1>1, InductiveInvariant, PTL
=============================================================================

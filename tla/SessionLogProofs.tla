-------------------------- MODULE SessionLogProofs --------------------------
(***************************************************************************)
(* How the folds of SessionLog move with one event, and what the closers   *)
(* of an interrupted turn are made of.  The proofs about the tool          *)
(* scheduler and the agent driver follow their logs with these lemmas.     *)
(***************************************************************************)
EXTENDS SessionLog, TLAPS

Traces == INSTANCE LeftFold WITH Op <- After
Checks == INSTANCE LeftFold WITH Op <- Check
Scans  == INSTANCE LeftFold WITH Op <- ScanEvent

\* The folds of the module are the ones the instances are about.
LEMMA FoldsAreInstances ==
  ASSUME NEW log
  PROVE  /\ TraceOf(log) = Traces!Fold(FreshTrace, log)
         /\ ScanOf(log) = Scans!Fold(FreshScan, log)
         /\ FoldLeft(Check, [trace |-> FreshTrace, ok |-> TRUE], log)
              = Checks!Fold([trace |-> FreshTrace, ok |-> TRUE], log)
<1>1. TraceOf(log) = Traces!Fold(FreshTrace, log)
  BY DEF TraceOf, Traces!Fold, FoldLeft, MapThenFoldSet, Max,
         Traces!FoldLeft, Traces!MapThenFoldSet, Traces!Max
<1>2. ScanOf(log) = Scans!Fold(FreshScan, log)
  BY DEF ScanOf, Scans!Fold, FoldLeft, MapThenFoldSet, Max,
         Scans!FoldLeft, Scans!MapThenFoldSet, Scans!Max
<1>3. FoldLeft(Check, [trace |-> FreshTrace, ok |-> TRUE], log)
        = Checks!Fold([trace |-> FreshTrace, ok |-> TRUE], log)
  BY DEF Checks!Fold, FoldLeft, MapThenFoldSet, Max,
         Checks!FoldLeft, Checks!MapThenFoldSet, Checks!Max
<1> QED BY <1>1, <1>2, <1>3

\* The trace of an empty log, and of a log that has one more event.
LEMMA TraceMoves ==
  /\ TraceOf(<<>>) = FreshTrace
  /\ \A E : \A log \in Seq(E), e \in E : TraceOf(Append(log, e)) = After(TraceOf(log), e)
  BY FoldsAreInstances, Traces!FoldEmpty, Traces!FoldAppend

\* The same for the scan.
LEMMA ScanMoves ==
  /\ ScanOf(<<>>) = FreshScan
  /\ \A E : \A log \in Seq(E), e \in E : ScanOf(Append(log, e)) = ScanEvent(ScanOf(log), e)
  BY FoldsAreInstances, Scans!FoldEmpty, Scans!FoldAppend

\* The check carries the trace along.
LEMMA CheckCarriesTrace ==
  ASSUME NEW E
  PROVE  \A log \in Seq(E) :
            FoldLeft(Check, [trace |-> FreshTrace, ok |-> TRUE], log).trace = TraceOf(log)
<1> DEFINE first == [trace |-> FreshTrace, ok |-> TRUE]
           T == {log \in Seq(E) : Checks!Fold(first, log).trace = TraceOf(log)}
<1>1. <<>> \in T
  BY Checks!FoldEmpty, TraceMoves
<1>2. ASSUME NEW log \in Seq(E), NEW e \in E, log \in T PROVE Append(log, e) \in T
  <2>1. Checks!Fold(first, Append(log, e)) = Check(Checks!Fold(first, log), e)
    BY Checks!FoldAppend
  <2>2. TraceOf(Append(log, e)) = After(TraceOf(log), e)
    BY TraceMoves
  <2>3. Append(log, e) \in Seq(E)
    OBVIOUS
  <2> QED BY <1>2, <2>1, <2>2, <2>3 DEF Check
<1> HIDE DEF T
<1>3. \A log \in Seq(E) : log \in T
  BY <1>1, <1>2, Checks!SeqSetInduction
<1> QED BY <1>3, FoldsAreInstances DEF T

\* A log is valid if it was before its last event and its trace accepts that event.
LEMMA ValidMoves ==
  /\ Valid(<<>>)
  /\ \A E : \A log \in Seq(E), e \in E :
        Valid(Append(log, e)) <=> Valid(log) /\ Accepts(TraceOf(log), e)
<1> DEFINE first == [trace |-> FreshTrace, ok |-> TRUE]
<1>1. Valid(<<>>)
  <2>1. Checks!Fold(first, <<>>) = first
    BY Checks!FoldEmpty
  <2>2. Valid(<<>>) = Checks!Fold(first, <<>>).ok
    BY FoldsAreInstances DEF Valid
  <2>3. first.ok = TRUE
    OBVIOUS
  <2> QED BY <2>1, <2>2, <2>3, Zenon
<1>2. ASSUME NEW E, NEW log \in Seq(E), NEW e \in E
      PROVE  Valid(Append(log, e)) <=> Valid(log) /\ Accepts(TraceOf(log), e)
  <2>1. Checks!Fold(first, Append(log, e)) = Check(Checks!Fold(first, log), e)
    BY Checks!FoldAppend
  <2>2. Checks!Fold(first, log).trace = TraceOf(log)
    BY CheckCarriesTrace, FoldsAreInstances
  <2>3. Valid(log) = Checks!Fold(first, log).ok
    BY FoldsAreInstances DEF Valid
  <2>4. Valid(Append(log, e)) = Checks!Fold(first, Append(log, e)).ok
    BY FoldsAreInstances DEF Valid
  <2> DEFINE c == Checks!Fold(first, log)
  <2>5. Check(c, e).ok = (c.ok /\ Accepts(c.trace, e))
    BY DEF Check
  <2> QED BY <2>1, <2>2, <2>3, <2>4, <2>5, Zenon
<1> QED BY <1>1, <1>2

\* One event of the scan, by its type.
LEMMA ScanCases ==
  ASSUME NEW s, NEW e
  PROVE  /\ e.type = "turn/start" => ScanEvent(s, e) = [turn |-> e.turn, step |-> 0, calls |-> <<>>]
         /\ e.type = "turn/end" => ScanEvent(s, e) = FreshScan
         /\ e.type = "step/start" => ScanEvent(s, e) = [s EXCEPT !.step = e.step]
         /\ e.type = "step/end" => ScanEvent(s, e) = [s EXCEPT !.step = 0, !.calls = <<>>]
         /\ e.type = "assistant/message" =>
              ScanEvent(s, e) = [s EXCEPT !.calls = s.calls \o [i \in DOMAIN e.calls |->
                                    [call |-> e.calls[i], step |-> e.step, logged |-> FALSE]]]
         /\ e.type = "tool/call" =>
              ScanEvent(s, e) = [s EXCEPT !.calls = [i \in DOMAIN s.calls |->
                                    IF s.calls[i].call = e.call THEN [s.calls[i] EXCEPT !.logged = TRUE]
                                    ELSE s.calls[i]]]
         /\ e.type = "tool/result" =>
              ScanEvent(s, e) = [s EXCEPT !.calls = Without(s.calls, e.call)]
         /\ e.type \notin {"turn/start", "turn/end", "step/start", "step/end",
                           "assistant/message", "tool/call", "tool/result"} => ScanEvent(s, e) = s
<1>1. CASE e.type = "turn/start"
  BY <1>1 DEF ScanEvent
<1>2. CASE e.type = "turn/end"
  BY <1>2 DEF ScanEvent
<1>3. CASE e.type = "step/start"
  BY <1>3 DEF ScanEvent
<1>4. CASE e.type = "step/end"
  BY <1>4 DEF ScanEvent
<1>5. CASE e.type = "assistant/message"
  BY <1>5 DEF ScanEvent
<1>6. CASE e.type = "tool/call"
  BY <1>6 DEF ScanEvent
<1>7. CASE e.type = "tool/result"
  BY <1>7 DEF ScanEvent
<1>8. CASE e.type \notin {"turn/start", "turn/end", "step/start", "step/end",
                          "assistant/message", "tool/call", "tool/result"}
  BY <1>8 DEF ScanEvent
<1> QED BY <1>1, <1>2, <1>3, <1>4, <1>5, <1>6, <1>7, <1>8
=============================================================================

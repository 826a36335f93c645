----------------------------- MODULE SessionLog -----------------------------
(***************************************************************************)
(* The relations between the events of one session log, as the session     *)
(* invariant companion checks them on every append (invariant.ts), and the *)
(* closers that a resumed session appends after a crash (repair.ts).       *)
(*                                                                         *)
(* An event is a record with a "type"; fields that no relation looks at    *)
(* are left out.  A tool result carries its outcome: "done", "unknown" for *)
(* TOOL_OUTCOME_UNKNOWN or "not-started" for TOOL_NOT_STARTED.             *)
(***************************************************************************)
EXTENDS Naturals, SequencesExt

\* A turn or step number of 0 stands for null.
FreshTrace == [openTurn |-> 0, openStep |-> 0, nextTurn |-> 1, nextStep |-> 1,
               pendingCalls |-> {}]

InOpenStep(t, e) == t.openTurn = e.turn /\ t.openStep = e.step /\ e.step # 0

\* validateEvent: the event may follow a log whose trace is t.
Accepts(t, e) ==
    CASE e.type = "turn/start" -> t.openTurn = 0 /\ e.turn = t.nextTurn
      [] e.type = "turn/end"   -> t.openTurn = e.turn /\ t.openStep = 0
      [] e.type = "step/start" ->
            t.openTurn = e.turn /\ t.openStep = 0 /\ e.step = t.nextStep
      [] e.type \in {"step/end", "assistant/message", "tool/call"} -> InOpenStep(t, e)
      [] e.type = "tool/result" ->
            InOpenStep(t, e) /\ (e.call \in t.pendingCalls \/ e.outcome = "not-started")
      [] OTHER -> TRUE

\* applyTransition: the trace after an accepted event.
After(t, e) ==
    CASE e.type = "turn/start" -> [t EXCEPT !.openTurn = e.turn, !.nextStep = 1]
      [] e.type = "turn/end"   -> [t EXCEPT !.openTurn = 0, !.nextTurn = @ + 1]
      [] e.type = "step/start" -> [t EXCEPT !.openStep = e.step]
      [] e.type = "step/end"   ->
            [t EXCEPT !.openStep = 0, !.nextStep = @ + 1, !.pendingCalls = {}]
      [] e.type = "tool/call"   -> [t EXCEPT !.pendingCalls = @ \cup {e.call}]
      [] e.type = "tool/result" -> [t EXCEPT !.pendingCalls = @ \ {e.call}]
      [] OTHER -> t

TraceOf(log) == FoldLeft(After, FreshTrace, log)

\* One event of seedSession: validated against the trace, then applied to it.
Check(a, e) == [trace |-> After(a.trace, e), ok |-> a.ok /\ Accepts(a.trace, e)]

\* seedSession: every event of the log is accepted after the ones before it.
Valid(log) == FoldLeft(Check, [trace |-> FreshTrace, ok |-> TRUE], log).ok

-----------------------------------------------------------------------------
(* interruptedTurnClosers. *)

\* What the scan of repair.ts keeps: the open turn and step, and the calls of
\* the last assistant messages without a result, each with "logged" once its
\* tool/call event was seen.
FreshScan == [turn |-> 0, step |-> 0, calls |-> <<>>]

\* Deleting a key of the map of pending calls.
Without(calls, id) ==
    IF \E i \in DOMAIN calls : calls[i].call = id
    THEN RemoveAt(calls, CHOOSE i \in DOMAIN calls : calls[i].call = id)
    ELSE calls

ScanEvent(s, e) ==
    CASE e.type = "turn/start" -> [turn |-> e.turn, step |-> 0, calls |-> <<>>]
      [] e.type = "turn/end"   -> FreshScan
      [] e.type = "step/start" -> [s EXCEPT !.step = e.step]
      [] e.type = "step/end"   -> [s EXCEPT !.step = 0, !.calls = <<>>]
      [] e.type = "assistant/message" ->
            [s EXCEPT !.calls = @ \o [i \in DOMAIN e.calls |->
                [call |-> e.calls[i], step |-> e.step, logged |-> FALSE]]]
      [] e.type = "tool/call" ->
            [s EXCEPT !.calls = [i \in DOMAIN s.calls |->
                IF s.calls[i].call = e.call THEN [s.calls[i] EXCEPT !.logged = TRUE]
                ELSE s.calls[i]]]
      [] e.type = "tool/result" -> [s EXCEPT !.calls = Without(@, e.call)]
      [] OTHER -> s

ScanOf(log) == FoldLeft(ScanEvent, FreshScan, log)

\* A result for every dangling call, then the step's end, then the turn's end.
Closers(log) ==
    LET s == ScanOf(log)
        result(c) == [type |-> "tool/result", turn |-> s.turn, step |-> c.step,
                      call |-> c.call,
                      outcome |-> IF c.logged THEN "unknown" ELSE "not-started"]
        results == [i \in DOMAIN s.calls |-> result(s.calls[i])]
        stepEnd == IF s.step = 0 THEN <<>>
                   ELSE <<[type |-> "step/end", turn |-> s.turn, step |-> s.step]>>
        turnEnd == <<[type |-> "turn/end", turn |-> s.turn, reason |-> "interrupted"]>>
    IN IF s.turn = 0 THEN <<>> ELSE results \o stepEnd \o turnEnd

\* What a resumed session starts from.
Repaired(log) == log \o Closers(log)
=============================================================================

--------------------------- MODULE MCAgentDriver ---------------------------
(***************************************************************************)
(* TLC instance of the agent driver.  Without a crash no action reads the  *)
(* log, and the properties checked under DriverView look at what a step    *)
(* appends and at three folds over the log.  The folds are in the view, so *)
(* states with the same view have the same futures and the same verdicts.  *)
(***************************************************************************)
EXTENDS AgentDriver

DriverView == <<phase, pc, signal, wake, turn, step, target, claimed, ends, inbox, sent,
                waking, replay, disposal, parked, crashes,
                TraceOf(log), Valid(log), PromptCount(log)>>
=============================================================================

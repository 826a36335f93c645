-------------------------- MODULE MCPreparations --------------------------
(***************************************************************************)
(* TLC instance of the session preparations.  A slot is looked into while  *)
(* the pool, a caller's reservation or inspection, or a live session       *)
(* refers to it; of any other entry only its result is.  States with the   *)
(* same view have the same futures and the same verdicts.                  *)
(***************************************************************************)
EXTENDS Preparations

InUse(n) ==
    \/ current = n \/ session[n].where # "none"
    \/ \E c \in Callers :
         /\ caller[c].on = n
         /\ caller[c].pc \notin {"await", "claim", "wait"} \/ caller[c].kind = "inspect"

SlotsView ==
    <<store, current, tracked, retiring, caller, work, budget,
      [n \in Slots |-> IF InUse(n) THEN <<entry[n], session[n]>>
                       ELSE IF n \in FreeSlots THEN <<NoEntry, NoSession>>
                       ELSE <<[NoEntry EXCEPT !.result = entry[n].result], NoSession>>]>>
============================================================================

--------------------------- MODULE MCModelRequest ---------------------------
(***************************************************************************)
(* TLC instance of the model request: one provider with a finite policy,   *)
(* the same with another budget, one that always retries, and one without  *)
(* a policy.                                                               *)
(***************************************************************************)
EXTENDS ModelRequest, TLC

CONSTANTS once, twice, ever, bare

MCMode == (once :> "normal") @@ (twice :> "normal") @@ (ever :> "always") @@ (bare :> "none")
MCMaxRetries == (once :> 1) @@ (twice :> 2) @@ (ever :> 1) @@ (bare :> 1)
=============================================================================

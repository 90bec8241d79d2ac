---------------------------- MODULE MCMiddleware ----------------------------
(***************************************************************************)
(* The middlewares under model checking.  The stack of ToolChain, the      *)
(* cache and the background jobs share no state, so a behaviour exercises  *)
(* one of them, chosen in the initial state, and leaves the others alone.  *)
(***************************************************************************)
EXTENDS ToolChain, ToolCache, AsyncJobs

VARIABLE part

vars == <<part, chainVars, cacheVars, jobVars>>

OneTool == [k \in Keys |-> "tool"]

Init ==
  /\ part \in {"chain", "cache", "jobs"}
  /\ ChainInit /\ ToolCacheInit /\ JobsInit

Next ==
  \/ part = "chain" /\ ChainNext /\ UNCHANGED <<part, cacheVars, jobVars>>
  \/ part = "cache" /\ ToolCacheNext /\ UNCHANGED <<part, chainVars, jobVars>>
  \/ part = "jobs" /\ JobsNext /\ UNCHANGED <<part, chainVars, cacheVars>>

Spec == Init /\ [][Next]_vars /\ (part = "chain" => ChainFairness)
=============================================================================

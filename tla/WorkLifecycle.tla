--------------------------- MODULE WorkLifecycle ---------------------------
(***************************************************************************)
(* What the server promises about a piece of background work, whoever      *)
(* carries it out: it starts once, its fate is decided once, and it is     *)
(* forgotten only by an explicit delete, after which nothing brings it     *)
(* back.  TaskCalls (task.go) implements it.                               *)
(***************************************************************************)
CONSTANT Work

VARIABLE phase

Fates == {"succeeded", "failed", "cancelled"}

Init == phase = [w \in Work |-> "new"]

Start(w) ==
  /\ phase[w] = "new"
  /\ phase' = [phase EXCEPT ![w] = "active"]

Decide(w, fate) ==
  /\ phase[w] = "active"
  /\ phase' = [phase EXCEPT ![w] = fate]

Forget(w) ==
  /\ phase[w] \in {"active"} \cup Fates
  /\ phase' = [phase EXCEPT ![w] = "forgotten"]

Next == \E w \in Work : Start(w) \/ Forget(w) \/ \E fate \in Fates : Decide(w, fate)

Spec == Init /\ [][Next]_phase
=============================================================================

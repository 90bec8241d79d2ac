--------------------------- MODULE RecentlyClosed ---------------------------
(***************************************************************************)
(* What the closed-session memory of session_tools.go promises: it holds   *)
(* exactly the Capacity sessions that were closed last, the oldest one     *)
(* leaving when a further one is closed; closing a remembered session      *)
(* again changes nothing.                                                  *)
(***************************************************************************)
EXTENDS Naturals, Sequences

CONSTANTS Ids, Capacity

VARIABLES
  recent,     \* the remembered sessions, oldest first
  remembered  \* what a lookup by id answers

Members(s) == {s[i] : i \in 1 .. Len(s)}

Init == recent = <<>> /\ remembered = {}

Close(id) ==
  /\ id \notin Members(recent)
  /\ recent' = IF Len(recent) < Capacity THEN Append(recent, id)
                                         ELSE Append(Tail(recent), id)
  /\ remembered' = Members(recent')

Next == \E id \in Ids : Close(id)

Spec == Init /\ [][Next]_<<recent, remembered>>
=============================================================================

----------------------------- MODULE MCDispatch -----------------------------
(***************************************************************************)
(* Connections a and b, with a handshake each, a request of each and the   *)
(* cancel notification of a's request; a cfg takes the messages its        *)
(* question needs.  MCId: a's request and b's initialize have ids that     *)
(* differ in type only, a's initialize has a null id.  MCSharedId: both    *)
(* clients count their ids from 0.                                         *)
(***************************************************************************)
EXTENDS Dispatch

CONSTANTS initA, initB, callA, callB, cancelA, a, b

MCKind ==
  [m \in Messages |->
     CASE m \in {initA, initB} -> "initialize"
       [] m \in {callA, callB} -> "request"
       [] m = cancelA -> "cancelled"]

MCFrom == [m \in Messages |-> IF m \in {initB, callB} THEN b ELSE a]

MCId ==
  [m \in Messages |->
     CASE m \in {callA, cancelA} -> [type |-> "number", text |-> 1]
       [] m = initB -> [type |-> "string", text |-> 1]
       [] OTHER -> [type |-> "other", text |-> 0]]

MCSharedId ==
  [m \in Messages |-> [type |-> "number", text |-> IF m \in {initA, initB} THEN 0 ELSE 1]]
=============================================================================

----------------------------- MODULE MCPending -----------------------------
(***************************************************************************)
(* Two concurrent Sends; three responses, so that an id can be answered    *)
(* twice while another answer is under way.  A response that names an id   *)
(* before a Send has been given it is the unsolicited one.                 *)
(***************************************************************************)
EXTENDS PendingRequests

MCKeys == 1..2
=============================================================================

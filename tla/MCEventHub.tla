------------------------------ MODULE MCEventHub ------------------------------
(* Two handlers and one client. *)
EXTENDS EventHub

CONSTANTS l1, h1, h2, reader, ghost
=============================================================================

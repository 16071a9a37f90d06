------------------------------ MODULE MCPubSub ------------------------------
(* The instance of PubSub for TLC is all in its configuration. *)
EXTENDS PubSub
=============================================================================

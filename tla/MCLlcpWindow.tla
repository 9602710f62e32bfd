---------------------------- MODULE MCLlcpWindow ----------------------------
(* The window of a socket that sends until its counters wrap, and beyond. *)
EXTENDS LlcpWindow
=============================================================================

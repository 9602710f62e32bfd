---------------------------- MODULE MCWin32Mutex ----------------------------
(* Four threads: one initialises, two wait for it, one comes late. *)
EXTENDS Win32Mutex

CONSTANTS t1, t2, t3, t4
=============================================================================

------------------------------- MODULE MCTrace -------------------------------
(* Two threads whose first calls race for setup: one goes on to a second    *)
(* call, which closes a context or not, the other traces once; and two tags *)
(* that are turned on and off meanwhile, as often as it may be.             *)
EXTENDS Trace

CONSTANTS t1, t2

MCMaxCalls == [t \in {t1, t2} |-> IF t = t1 THEN 2 ELSE 1]
=============================================================================

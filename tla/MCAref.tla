------------------------------- MODULE MCAref -------------------------------
(* Three threads and a count of two bits, filled by up to three references. *)
EXTENDS Aref, TLC

CONSTANTS t1, t2, t3, r1, r2, r3
=============================================================================

---------------------------- MODULE MCLinkedList ----------------------------
(* Two lists and three items: an item can be first, last, only or between. *)
EXTENDS LinkedList

CONSTANTS l1, l2, x1, x2, x3
=============================================================================

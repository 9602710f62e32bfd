------------------------------- MODULE MCQemud -------------------------------
(* Two descriptors, so that one can leak and the other be used; two binary  *)
(* digits for a length: messages of 2 and 3 bytes, of which the longer does *)
(* not fit the buffer, bytes that read as a header, no message at all, and  *)
(* one of 4 bytes, a length with three digits of which the header has two.  *)
EXTENDS Qemud

CONSTANTS d1, d2

MCMessages == {<<>>, <<1, Other>>, <<1, 0, 1>>, <<Other, Other, Other, Other>>}
=============================================================================

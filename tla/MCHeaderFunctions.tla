------------------------- MODULE MCHeaderFunctions -------------------------
(* Paths around every rule, every two times in words of four 1-bit bytes,   *)
(* every bitmask of up to three words, the last one full or not; one or two *)
(* audio devices; channels at both ends of what inputs, outputs and masks   *)
(* have; every start of a walk over a card; names of sockets around the     *)
(* room of the key, many of them the same up to there.                      *)
EXTENDS HeaderFunctions

MCSocketNames == {s \in UNION {[1 .. n -> {"a", "b"}] : n \in 1 .. 4} : Len(s) > 2 => s[1] = "a"}
=============================================================================

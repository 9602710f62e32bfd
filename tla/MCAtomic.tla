------------------------------ MODULE MCAtomic ------------------------------
(* Three processors on a two-bit word, on ARM or MIPS, or with the loops of *)
(* ARM64: x86 and x86_64 do without the one of "add".                       *)
EXTENDS Atomic, Bitwise, TLC

CONSTANTS t1, t2, t3

MCBitAnd(v, w) == v & w
MCBitOr(v, w) == v | w

\* A lock taken with cas and left with a store, a counter and a flag word.
MCCalls ==
  { [name |-> "cas", old |-> 0, new |-> 1],
    dec,
    [name |-> "and", arg |-> 2],
    [name |-> "store", arg |-> 0] }
=============================================================================

------------------------------- MODULE Bitmask -------------------------------
(***************************************************************************)
(* cutils/bitops.h: bitmasks of num_bits bits in an array of words.  "This *)
(* doesn't provide any locking/exclusion, and isn't atomic", and no bounds *)
(* are checked: the functions are modelled as what they compute when one   *)
(* thread calls them with a bit of the mask.                               *)
(*                                                                         *)
(* A word is the set of the positions of its 1 bits.                       *)
(***************************************************************************)
EXTENDS Integers, FiniteSets, FiniteSetsExt

CONSTANT BITS_PER_WORD   \* 32 in the program

Positions == 0 .. BITS_PER_WORD - 1

BITS_TO_WORDS(x) == (x + BITS_PER_WORD - 1) \div BITS_PER_WORD
BIT_IN_WORD(x) == x % BITS_PER_WORD
BIT_WORD(x) == x \div BITS_PER_WORD

\* The indices of the words of a bitmask.
Words(num_bits) == 0 .. BITS_TO_WORDS(num_bits) - 1

Bitmasks(num_bits) == [Words(num_bits) -> SUBSET Positions]

bitmask_init(num_bits) == [w \in Words(num_bits) |-> {}]

bitmask_test(bitmask, bit) == BIT_IN_WORD(bit) \in bitmask[BIT_WORD(bit)]

bitmask_set(bitmask, bit) == [bitmask EXCEPT ![BIT_WORD(bit)] = @ \cup {BIT_IN_WORD(bit)}]

bitmask_clear(bitmask, bit) == [bitmask EXCEPT ![BIT_WORD(bit)] = @ \ {BIT_IN_WORD(bit)}]

\* Mutated form of bitmask_ffz: the zeros past the last bit count.
FfzUnbounded(bitmask, num_bits) ==
  LET open == {w \in Words(num_bits) : bitmask[w] # Positions}
  IN  IF open = {} THEN -1
      ELSE BITS_PER_WORD * Min(open) + Min(Positions \ bitmask[Min(open)])

\* ffs(~word) is 0 for a word of ones: the loop goes on to the next.
bitmask_ffz(bitmask, num_bits) ==
  LET open == {w \in Words(num_bits) : bitmask[w] # Positions}
      result == BITS_PER_WORD * Min(open) + Min(Positions \ bitmask[Min(open)])
  IN  IF open = {} \/ result >= num_bits THEN -1 ELSE result

\* The weight of the first words, up to as many as there are.
WeightOfWords(bitmask, num_bits) ==
  LET weight[i \in 0 .. BITS_TO_WORDS(num_bits)] ==
        IF i = 0 THEN 0 ELSE weight[i - 1] + Cardinality(bitmask[i - 1])
  IN  weight

bitmask_weight(bitmask, num_bits) ==
  WeightOfWords(bitmask, num_bits)[BITS_TO_WORDS(num_bits)]
=============================================================================

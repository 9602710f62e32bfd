----------------------------- MODULE AtomicWord -----------------------------
(***************************************************************************)
(* The vocabulary of cutils/atomic.h: a 32-bit word shared by threads, the *)
(* calls a thread may make on it, and what each call does to the word and  *)
(* returns when it is executed alone.  The specification of what a call    *)
(* promises (AtomicSpec) and the two ways the headers implement it         *)
(* (AtomicLLSC, AtomicCasLoop) share these definitions.                    *)
(*                                                                         *)
(* A word is a number modulo WordSize (2^32 in the program): int32_t       *)
(* arithmetic on the assembly operands wraps, so -1 is WordSize - 1.  The  *)
(* bitwise operators of C are the parameters BitAnd and BitOr.             *)
(***************************************************************************)
EXTENDS Integers

CONSTANTS Threads,        \* the threads that share the word
          WordSize,       \* the number of values of a word
          BitAnd(_, _),   \* the C operator &
          BitOr(_, _),    \* the C operator |
          Calls           \* the calls the threads make

Word == 0 .. WordSize - 1

Call ==
  [name : {"cas"}, old : Word, new : Word]
    \cup [name : {"add", "and", "or", "store", "load"}, arg : Word]

ASSUME WordAssumption ==
  /\ WordSize \in Nat \ {0}
  /\ \A v, w \in Word : BitAnd(v, w) \in Word /\ BitOr(v, w) \in Word

ASSUME CallsAssumption == Calls \subseteq Call /\ Calls # {}

\* A call that reads the word and writes it back in one atomic update.
IsUpdate(c) == c.name \in {"cas", "add", "and", "or"}

\* The value of the word after call c, when v is the value before it.
Updated(c, v) ==
  CASE c.name = "cas"   -> IF v = c.old THEN c.new ELSE v
    [] c.name = "add"   -> (v + c.arg) % WordSize
    [] c.name = "and"   -> BitAnd(v, c.arg)
    [] c.name = "or"    -> BitOr(v, c.arg)
    [] c.name = "store" -> c.arg
    [] c.name = "load"  -> v

\* What call c returns: a cas returns 0 exactly when it stored (the result
\* is "prev != old_value"), the others return the previous value.
Returned(c, v) ==
  IF c.name = "cas" THEN (IF v = c.old THEN 0 ELSE 1)
  ELSE IF c.name = "store" THEN 0 ELSE v

\* The register contents of a thread between two calls.
NoCall == [name |-> "none"]

inc == [name |-> "add", arg |-> 1 % WordSize]
dec == [name |-> "add", arg |-> WordSize - 1]
=============================================================================

---------------------------- MODULE AtomicCasLoop ----------------------------
(***************************************************************************)
(* The atomic operations as the x86, x86_64 and ARM64 headers write them.  *)
(* The processor (or, on ARM64, the compiler's __sync builtin) compares    *)
(* and swaps in one instruction; the read-modify-write operations that     *)
(* have no instruction of their own read the word plainly and loop on the  *)
(* compare-and-swap.                                                       *)
(***************************************************************************)
EXTENDS AtomicWord

CONSTANT ISA   \* the instruction set: "x86", "x86_64" or "arm64"

\* The operations written as a read and a cas in a loop; x86 adds with
\* "lock; xaddl".
Looped == {"and", "or"} \cup (IF ISA = "arm64" THEN {"add"} ELSE {})

VARIABLES word,   \* *ptr
          pc,     \* the instruction each thread is at
          call,   \* the call it makes
          prev,   \* the local "prev", read plainly from *ptr
          ret     \* what the call returns

vars == <<word, pc, call, prev, ret>>

Init ==
  /\ word = 0
  /\ pc = [t \in Threads |-> "idle"]
  /\ call = [t \in Threads |-> NoCall]
  /\ prev = [t \in Threads |-> 0]
  /\ ret = [t \in Threads |-> 0]

Begin(t) ==
  /\ pc[t] = "idle"
  /\ \E c \in Calls :
       /\ call' = [call EXCEPT ![t] = c]
       /\ pc' = [pc EXCEPT ![t] = IF c.name \in Looped THEN "read" ELSE "access"]
  /\ UNCHANGED <<word, prev, ret>>

\* One instruction does it all: "lock; cmpxchgl", "lock; xaddl", a load, a
\* store.
Access(t) ==
  /\ pc[t] = "access"
  /\ word' = Updated(call[t], word)
  /\ ret' = [ret EXCEPT ![t] = Returned(call[t], word)]
  /\ pc' = [pc EXCEPT ![t] = "return"]
  /\ UNCHANGED <<call, prev>>

\* prev = *ptr;
ReadPrev(t) ==
  /\ pc[t] = "read"
  /\ prev' = [prev EXCEPT ![t] = word]
  /\ pc' = [pc EXCEPT ![t] = "cas"]
  /\ UNCHANGED <<word, call, ret>>

\* Mutated form of CasStores: the value computed from prev is stored plainly.
StoreBlindly(t) ==
  /\ pc[t] = "cas"
  /\ word' = Updated(call[t], prev[t])
  /\ ret' = [ret EXCEPT ![t] = prev[t]]
  /\ pc' = [pc EXCEPT ![t] = "return"]
  /\ UNCHANGED <<call, prev>>

\* status = android_atomic_cas(prev, f(prev, value), ptr): another thread
\* may have written the word and written it back since it was read.
CasStores(t) ==
  /\ pc[t] = "cas"
  /\ word = prev[t]
  /\ word' = Updated(call[t], prev[t])
  /\ ret' = [ret EXCEPT ![t] = prev[t]]
  /\ pc' = [pc EXCEPT ![t] = "return"]
  /\ UNCHANGED <<call, prev>>

\* Mutated form of CasFails: prev is read once, before the loop.
CasFailsWithoutReload(t) ==
  /\ pc[t] = "cas"
  /\ word # prev[t]
  /\ UNCHANGED vars

\* The cas found another value: status is 1 and the loop reads again.
CasFails(t) ==
  /\ pc[t] = "cas"
  /\ word # prev[t]
  /\ pc' = [pc EXCEPT ![t] = "read"]
  /\ UNCHANGED <<word, call, prev, ret>>

Return(t) ==
  /\ pc[t] = "return"
  /\ pc' = [pc EXCEPT ![t] = "idle"]
  /\ call' = [call EXCEPT ![t] = NoCall]
  /\ prev' = [prev EXCEPT ![t] = 0]
  /\ ret' = [ret EXCEPT ![t] = 0]
  /\ UNCHANGED word

Step(t) ==
  \/ Access(t)
  \/ ReadPrev(t)
  \/ CasStores(t)
  \/ CasFails(t)
  \/ Return(t)

Next == \E t \in Threads : Begin(t) \/ Step(t)

Spec == Init /\ [][Next]_vars

\* A thread that has begun a call keeps running.
FairSpec == Spec /\ \A t \in Threads : WF_vars(Step(t))
-----------------------------------------------------------------------------
TypeOK ==
  /\ word \in Word
  /\ pc \in [Threads -> {"idle", "access", "read", "cas", "return"}]
  /\ call \in [Threads -> Calls \cup {NoCall}]
  /\ \A t \in Threads : call[t] = NoCall <=> pc[t] = "idle"
  /\ \A t \in Threads : pc[t] \in {"read", "cas"} => call[t].name \in Looped
  /\ prev \in [Threads -> Word]
  /\ ret \in [Threads -> Word \cup {0, 1}]

Phase(t) ==
  CASE pc[t] = "idle"   -> "idle"
    [] pc[t] = "return" -> "done"
    [] OTHER            -> "called"

Abstract == INSTANCE AtomicSpec WITH phase <- [t \in Threads |-> Phase(t)]

\* Every call of the x86 and ARM64 headers takes effect at one instant with
\* the result atomic.h promises: the plain read before the cas is harmless,
\* even when the word went through other values and came back.
Linearizable == Abstract!Spec
=============================================================================

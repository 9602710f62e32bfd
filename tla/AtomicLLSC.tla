----------------------------- MODULE AtomicLLSC -----------------------------
(***************************************************************************)
(* The atomic operations as the ARM, MIPS and MIPS64 headers write them: a *)
(* load-linked (ldrex, ll) that opens a reservation on the word, the new   *)
(* value in a register, and a store-conditional (strex, sc) that stores    *)
(* only while the reservation stands; the loop starts again when it does   *)
(* not.  The barriers around the loops order other accesses and are the    *)
(* subject of AtomicOrdering.                                              *)
(***************************************************************************)
EXTENDS AtomicWord

CONSTANT MaxInterrupts   \* bound on the reservations lost to interrupts

ASSUME InterruptsAssumption == MaxInterrupts \in Nat

VARIABLES word,        \* *ptr
          reserved,    \* the exclusive monitor of each processor
          pc,          \* the instruction each thread is at
          call,        \* the call it makes
          prev,        \* the register that the load-linked fills
          ret,         \* what the call returns
          interrupts   \* reservations lost so far without a store

vars == <<word, reserved, pc, call, prev, ret, interrupts>>

Init ==
  /\ word = 0
  /\ reserved = [t \in Threads |-> FALSE]
  /\ pc = [t \in Threads |-> "idle"]
  /\ call = [t \in Threads |-> NoCall]
  /\ prev = [t \in Threads |-> 0]
  /\ ret = [t \in Threads |-> 0]
  /\ interrupts = 0

NoReservation == [t \in Threads |-> FALSE]

Begin(t) ==
  /\ pc[t] = "idle"
  /\ \E c \in Calls :
       /\ call' = [call EXCEPT ![t] = c]
       /\ pc' = [pc EXCEPT ![t] = IF IsUpdate(c) THEN "ldrex" ELSE "access"]
  /\ UNCHANGED <<word, reserved, prev, ret, interrupts>>

\* android_atomic_*_load and *_store: one aligned access.  A store takes
\* away the reservations that other processors hold on the word.
Access(t) ==
  /\ pc[t] = "access"
  /\ word' = Updated(call[t], word)
  /\ ret' = [ret EXCEPT ![t] = Returned(call[t], word)]
  /\ reserved' = IF call[t].name = "store" THEN NoReservation ELSE reserved
  /\ pc' = [pc EXCEPT ![t] = "return"]
  /\ UNCHANGED <<call, prev, interrupts>>

\* The value that the reserved load found differs from old_value: the cas
\* leaves its loop without a store, and leaves its reservation open.
Mismatch(c, v) == c.name = "cas" /\ v # c.old

LoadLinked(t) ==
  /\ pc[t] = "ldrex"
  /\ prev' = [prev EXCEPT ![t] = word]
  /\ reserved' = [reserved EXCEPT ![t] = TRUE]
  /\ IF Mismatch(call[t], word)
       THEN /\ ret' = [ret EXCEPT ![t] = Returned(call[t], word)]
            /\ pc' = [pc EXCEPT ![t] = "return"]
       ELSE /\ pc' = [pc EXCEPT ![t] = "strex"]
            /\ UNCHANGED ret
  /\ UNCHANGED <<word, call, interrupts>>

\* Mutated form of StoreConditional: strex without a look at the monitor.
StoreUnconditional(t) ==
  /\ pc[t] = "strex"
  /\ word' = Updated(call[t], prev[t])
  /\ ret' = [ret EXCEPT ![t] = Returned(call[t], prev[t])]
  /\ reserved' = NoReservation
  /\ pc' = [pc EXCEPT ![t] = "return"]
  /\ UNCHANGED <<call, prev, interrupts>>

\* strex/sc with the reservation still open: the word takes the value
\* computed from prev, and every other reservation on it is lost.
StoreConditional(t) ==
  /\ pc[t] = "strex"
  /\ reserved[t]
  /\ word' = Updated(call[t], prev[t])
  /\ ret' = [ret EXCEPT ![t] = Returned(call[t], prev[t])]
  /\ reserved' = NoReservation
  /\ pc' = [pc EXCEPT ![t] = "return"]
  /\ UNCHANGED <<call, prev, interrupts>>

\* Mutated form of Retry: the loop goes back to the strex, not to the ldrex.
RetryWithoutReload(t) ==
  /\ pc[t] = "strex"
  /\ ~reserved[t]
  /\ UNCHANGED vars

\* status says that nothing was stored: "while (status != 0)".
Retry(t) ==
  /\ pc[t] = "strex"
  /\ ~reserved[t]
  /\ pc' = [pc EXCEPT ![t] = "ldrex"]
  /\ UNCHANGED <<word, reserved, call, prev, ret, interrupts>>

Return(t) ==
  /\ pc[t] = "return"
  /\ pc' = [pc EXCEPT ![t] = "idle"]
  /\ call' = [call EXCEPT ![t] = NoCall]
  /\ prev' = [prev EXCEPT ![t] = 0]
  /\ ret' = [ret EXCEPT ![t] = 0]
  /\ UNCHANGED <<word, reserved, interrupts>>

\* A context switch or an exception drops the reservation of a processor.
Interrupt(t) ==
  /\ reserved[t]
  /\ interrupts < MaxInterrupts
  /\ reserved' = [reserved EXCEPT ![t] = FALSE]
  /\ interrupts' = interrupts + 1
  /\ UNCHANGED <<word, pc, call, prev, ret>>

Step(t) ==
  \/ Access(t)
  \/ LoadLinked(t)
  \/ StoreConditional(t)
  \/ Retry(t)
  \/ Return(t)

Next == \E t \in Threads : Begin(t) \/ Step(t) \/ Interrupt(t)

Spec == Init /\ [][Next]_vars

\* A thread that has begun a call keeps running.
FairSpec == Spec /\ \A t \in Threads : WF_vars(Step(t))
-----------------------------------------------------------------------------
TypeOK ==
  /\ word \in Word
  /\ reserved \in [Threads -> BOOLEAN]
  /\ pc \in [Threads -> {"idle", "access", "ldrex", "strex", "return"}]
  /\ call \in [Threads -> Calls \cup {NoCall}]
  /\ \A t \in Threads : call[t] = NoCall <=> pc[t] = "idle"
  /\ prev \in [Threads -> Word]
  /\ ret \in [Threads -> Word \cup {0, 1}]
  /\ interrupts \in 0 .. MaxInterrupts

\* A part of the inductive invariant that Linearizable is proved with: a
\* reservation that survived to the store-conditional vouches for the
\* register, since nobody wrote the word after the load-linked.
ReservationFresh ==
  \A t \in Threads : pc[t] = "strex" /\ reserved[t] => prev[t] = word

\* Another part of it: a cas that is about to store was told to, since its
\* test succeeded.
CasAboutToStore ==
  \A t \in Threads :
    pc[t] = "strex" /\ call[t].name = "cas" => prev[t] = call[t].old

\* The instant at which the detailed call takes effect is the step that
\* sends it to "return".
Phase(t) ==
  CASE pc[t] = "idle"   -> "idle"
    [] pc[t] = "return" -> "done"
    [] OTHER            -> "called"

Abstract == INSTANCE AtomicSpec WITH phase <- [t \in Threads |-> Phase(t)]

\* Every call of the ARM and MIPS headers takes effect at one instant
\* between its start and its return, with the result atomic.h promises,
\* whatever other threads and interrupts do between its ldrex and strex.
Linearizable == Abstract!Spec
=============================================================================

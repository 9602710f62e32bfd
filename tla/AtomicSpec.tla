----------------------------- MODULE AtomicSpec -----------------------------
(***************************************************************************)
(* What cutils/atomic.h promises its callers: each call takes effect at    *)
(* one instant between its start and its return.                           *)
(***************************************************************************)
EXTENDS AtomicWord

VARIABLES word,   \* the shared word, *addr
          phase,  \* where each thread is in its call
          call,   \* the call each thread makes or NoCall
          ret     \* what it returns, 0 until it does

vars == <<word, phase, call, ret>>

Init ==
  /\ word = 0
  /\ phase = [t \in Threads |-> "idle"]
  /\ call = [t \in Threads |-> NoCall]
  /\ ret = [t \in Threads |-> 0]

Begin(t) ==
  /\ phase[t] = "idle"
  /\ \E c \in Calls : call' = [call EXCEPT ![t] = c]
  /\ phase' = [phase EXCEPT ![t] = "called"]
  /\ UNCHANGED <<word, ret>>

\* The whole call, in one step.
Execute(t) ==
  /\ phase[t] = "called"
  /\ word' = Updated(call[t], word)
  /\ ret' = [ret EXCEPT ![t] = Returned(call[t], word)]
  /\ phase' = [phase EXCEPT ![t] = "done"]
  /\ UNCHANGED call

Return(t) ==
  /\ phase[t] = "done"
  /\ phase' = [phase EXCEPT ![t] = "idle"]
  /\ call' = [call EXCEPT ![t] = NoCall]
  /\ ret' = [ret EXCEPT ![t] = 0]
  /\ UNCHANGED word

Next == \E t \in Threads : Begin(t) \/ Execute(t) \/ Return(t)

Spec == Init /\ [][Next]_vars
=============================================================================

------------------------------- MODULE Atomic -------------------------------
(***************************************************************************)
(* cutils/atomic as it is built: atomic-inline.h includes the header of    *)
(* one instruction set, and every thread runs its operations, either the   *)
(* load-linked ones of AtomicLLSC or the compare-and-swap ones of          *)
(* AtomicCasLoop.                                                          *)
(***************************************************************************)
EXTENDS AtomicLLSC

CONSTANT ISA   \* the instruction set of the other build

ASSUME ISAAssumption == ISA \in {"x86", "x86_64", "arm64"}

VARIABLE build   \* "llsc" for ARM, MIPS and MIPS64, or ISA

CasLoop == INSTANCE AtomicCasLoop

buildVars == <<vars, build>>

BuildInit == Init /\ build \in {"llsc", ISA}

LinkedStep(t) ==
  /\ build = "llsc"
  /\ Step(t)
  /\ UNCHANGED build

CasStep(t) ==
  /\ build = ISA
  /\ \/ CasLoop!Access(t)
     \/ CasLoop!ReadPrev(t)
     \/ CasLoop!CasStores(t)
     \/ CasLoop!CasFails(t)
     \/ CasLoop!Return(t)
  /\ UNCHANGED <<reserved, interrupts, build>>

BuildNext ==
  \E t \in Threads :
    \/ LinkedStep(t)
    \/ build = "llsc" /\ (Begin(t) \/ Interrupt(t)) /\ UNCHANGED build
    \/ CasStep(t)
    \/ build = ISA /\ CasLoop!Begin(t) /\ UNCHANGED <<reserved, interrupts, build>>

BuildSpec == BuildInit /\ [][BuildNext]_buildVars

\* A thread that has begun a call keeps running.
FairBuildSpec ==
  BuildSpec /\ \A t \in Threads : WF_buildVars(LinkedStep(t) \/ CasStep(t))
-----------------------------------------------------------------------------
InFlight == \E t \in Threads : pc[t] \notin {"idle", "return"}
SomeReturn == \E t \in Threads : pc[t] = "return"

\* The loops of no header can all spin for ever: while calls are in
\* progress one of them completes.  A store-conditional fails because of
\* another thread's store or of an interrupt, and a cas because another
\* thread changed the word.
LockFree == InFlight ~> SomeReturn
=============================================================================

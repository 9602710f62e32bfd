----------------------------- MODULE Win32Mutex -----------------------------
(***************************************************************************)
(* cutils/threads.h, HAVE_WIN32_THREADS: a mutex made of a CRITICAL_SECTION *)
(* and a flag, init, that says whether the section has been initialised: 0 *)
(* no, 1 somebody is at it, 2 yes.  A mutex starts from MUTEX_INITIALIZER  *)
(* (init is 0, the first mutex_lock initialises) or from mutex_init.  The  *)
(* flag is read and written by plain accesses, one step each.              *)
(*                                                                         *)
(* The critical section is external: Enter waits until it is free, and     *)
(* initialising a section again makes it free, whoever was inside.         *)
(* Nobody enters it twice, or destroys a mutex that is in use.             *)
(***************************************************************************)
EXTENDS Naturals, FiniteSets

CONSTANTS Threads,
          OneFirstCaller   \* while init is 0 the threads call mutex_lock one
                           \* at a time, until the first of them set init

ASSUME OneFirstCallerAssumption == OneFirstCaller \in BOOLEAN

NoSection == "no section"  \* not initialised, or deleted
Free == "free"

ASSUME SectionAssumption == {NoSection, Free} \cap Threads = {}

VARIABLES init,     \* lock->init
          section,  \* lock->lock: NoSection, Free, or the thread inside
          pc        \* where each thread is

vars == <<init, section, pc>>

Outside == "outside"        \* no call in progress, the mutex not held
First == "first"            \* read init = 0
Initialize == "initialize"  \* wrote init := 1
Publish == "publish"        \* initialised the section
Wait == "wait"              \* in while (lock->init != 2) Sleep(10)
Enter == "enter"            \* about to enter the section
Critical == "critical"      \* mutex_lock has returned
Places == {Outside, First, Initialize, Publish, Wait, Enter, Critical}

Idle == \A t \in Threads : pc[t] = Outside

\* MUTEX_INITIALIZER
Init ==
  /\ init = 0
  /\ section = NoSection
  /\ pc = [t \in Threads |-> Outside]

Goto(t, place) == pc' = [pc EXCEPT ![t] = place]

\* Before anybody uses the mutex.
mutex_init ==
  /\ Idle /\ init = 0
  /\ section' = Free
  /\ init' = 2
  /\ UNCHANGED pc
-----------------------------------------------------------------------------
(* mutex_lock                                                              *)

\* if (!lock->init) ...
ReadInit(t) ==
  /\ pc[t] = Outside
  /\ OneFirstCaller /\ init = 0 => Idle
  /\ Goto(t, IF init = 0 THEN First ELSE Wait)
  /\ UNCHANGED <<init, section>>

\* lock->init = 1
Announce(t) ==
  /\ pc[t] = First
  /\ init' = 1
  /\ Goto(t, Initialize)
  /\ UNCHANGED section

\* InitializeCriticalSection(lock->lock)
InitializeSection(t) ==
  /\ pc[t] = Initialize
  /\ section' = Free
  /\ Goto(t, Publish)
  /\ UNCHANGED init

\* Mutated form of SetReady: init is left at 1.
SetReadyForgotten(t) ==
  /\ pc[t] = Publish
  /\ Goto(t, Enter)
  /\ UNCHANGED <<init, section>>

\* lock->init = 2
SetReady(t) ==
  /\ pc[t] = Publish
  /\ init' = 2
  /\ Goto(t, Enter)
  /\ UNCHANGED section

\* while (lock->init != 2) Sleep(10)
SleepMore(t) ==
  /\ pc[t] = Wait
  /\ init # 2
  /\ UNCHANGED vars

\* The condition of the loop is false.
SeeReady(t) ==
  /\ pc[t] = Wait
  /\ init = 2
  /\ Goto(t, Enter)
  /\ UNCHANGED <<init, section>>

\* Mutated form of EnterSection: it does not wait for the thread inside.
EnterAnyway(t) ==
  /\ pc[t] = Enter
  /\ section' = t
  /\ Goto(t, Critical)
  /\ UNCHANGED init

\* EnterCriticalSection(lock->lock)
EnterSection(t) ==
  /\ pc[t] = Enter
  /\ section = Free
  /\ section' = t
  /\ Goto(t, Critical)
  /\ UNCHANGED init
-----------------------------------------------------------------------------
mutex_unlock(t) ==
  /\ pc[t] = Critical
  /\ section' = Free
  /\ Goto(t, Outside)
  /\ UNCHANGED init

\* Mutated form of mutex_destroy: init stays, the section goes.
DestroyKeepsInit ==
  /\ Idle /\ init # 0
  /\ section' = NoSection
  /\ UNCHANGED <<init, pc>>

\* When nobody uses the mutex; it can be locked again afterwards.
mutex_destroy ==
  /\ Idle /\ init # 0
  /\ init' = 0
  /\ section' = NoSection
  /\ UNCHANGED pc

mutex_lock(t) ==
  \/ ReadInit(t) \/ Announce(t) \/ InitializeSection(t) \/ SetReady(t)
  \/ SleepMore(t) \/ SeeReady(t) \/ EnterSection(t)

Next ==
  \/ mutex_init \/ mutex_destroy
  \/ \E t \in Threads : mutex_lock(t) \/ mutex_unlock(t)

Spec == Init /\ [][Next]_vars

\* A call in progress goes on, a held mutex is released, and Windows lets
\* the threads that wait for a section in, one after the other.
FairSpec ==
  /\ Spec
  /\ \A t \in Threads :
       /\ WF_vars(Announce(t) \/ InitializeSection(t) \/ SetReady(t))
       /\ WF_vars(SeeReady(t))
       /\ SF_vars(EnterSection(t))
       /\ WF_vars(mutex_unlock(t))
-----------------------------------------------------------------------------
TypeOK ==
  /\ init \in 0 .. 2
  /\ section \in {NoSection, Free} \cup Threads
  /\ pc \in [Threads -> Places]

\* Between mutex_lock and mutex_unlock a thread is alone.
MutualExclusion ==
  \A t, u \in Threads : pc[t] = Critical /\ pc[u] = Critical => t = u

\* No thread enters or leaves a critical section that is not initialised,
\* or that is initialised again under its feet: the thread between lock and
\* unlock is the one inside the section.
SectionReady ==
  \A t \in Threads :
    /\ pc[t] = Enter => section # NoSection
    /\ pc[t] = Critical => section = t

\* A thread that has called mutex_lock comes to hold the mutex: the flag
\* never sends it into a wait that nobody ends.
LockSucceeds ==
  \A t \in Threads : pc[t] \in {First, Wait, Enter} ~> pc[t] = Critical
=============================================================================

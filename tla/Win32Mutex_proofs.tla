-------------------------- MODULE Win32Mutex_proofs --------------------------
(***************************************************************************)
(* The Win32 mutex of cutils/threads.h excludes, for any number of         *)
(* threads, as long as the first calls of mutex_lock do not race for the   *)
(* initialisation (OneFirstCaller).                                        *)
(***************************************************************************)
EXTENDS Win32Mutex, TLAPS

\* The phases of the flag.  At 0 nobody is past reading it; at 1 one thread
\* initialises and the others wait; at 2 the section is there for good.
Untouched ==
  init = 0 =>
    /\ section = NoSection
    /\ \A t \in Threads : pc[t] \in {Outside, First}
    /\ \A t, u \in Threads : pc[t] = First /\ u # t => pc[u] = Outside

Initializing ==
  init = 1 =>
    /\ section \in {NoSection, Free}
    /\ \A t \in Threads :
         /\ pc[t] \in {Outside, Initialize, Publish, Wait}
         /\ pc[t] = Publish => section = Free
    /\ \A t, u \in Threads :
         pc[t] \in {Initialize, Publish} /\ u # t => pc[u] \in {Outside, Wait}

Ready ==
  init = 2 =>
    /\ section # NoSection
    /\ \A t \in Threads :
         /\ pc[t] \in {Outside, Wait, Enter, Critical}
         /\ pc[t] = Critical => section = t

Inv == TypeOK /\ Untouched /\ Initializing /\ Ready

\* The states of a section that no thread is in are no threads.
LEMMA NotThreads ==
  /\ NoSection # Free
  /\ NoSection \notin Threads
  /\ Free \notin Threads
  BY SectionAssumption DEF NoSection, Free

USE DEF Outside, First, Initialize, Publish, Wait, Enter, Critical

\* The phases are an invariant of the mutex, whoever takes the next step of
\* mutex_init, mutex_lock, mutex_unlock or mutex_destroy.
THEOREM PhasesHold == OneFirstCaller => (Spec => []Inv)
<1> SUFFICES ASSUME OneFirstCaller PROVE Spec => []Inv
  OBVIOUS
<1> USE NotThreads DEF Inv, Places
<1>1. Init => Inv
  <2> SUFFICES ASSUME Init PROVE Inv
    OBVIOUS
  <2>1. TypeOK
    BY DEF Init, TypeOK
  <2>2. Untouched /\ Initializing /\ Ready
    BY DEF Init, Untouched, Initializing, Ready
  <2> QED
    BY <2>1, <2>2
<1>2. Inv /\ [Next]_vars => Inv'
  <2> SUFFICES ASSUME Inv, [Next]_vars PROVE Inv'
    OBVIOUS
  <2>1. CASE mutex_init
    <3>1. TypeOK'
      BY <2>1 DEF mutex_init, Idle, TypeOK
    <3>2. Untouched'
      BY <2>1 DEF mutex_init, Idle, TypeOK, Untouched, Initializing, Ready
    <3>3. Initializing'
      BY <2>1 DEF mutex_init, Idle, TypeOK, Untouched, Initializing, Ready
    <3>4. Ready'
      BY <2>1 DEF mutex_init, Idle, TypeOK, Untouched, Initializing, Ready
    <3> QED
      BY <3>1, <3>2, <3>3, <3>4
  <2>2. CASE mutex_destroy
    <3>1. TypeOK'
      BY <2>2 DEF mutex_destroy, Idle, TypeOK
    <3>2. Untouched'
      BY <2>2 DEF mutex_destroy, Idle, TypeOK, Untouched, Initializing, Ready
    <3>3. Initializing'
      BY <2>2 DEF mutex_destroy, Idle, TypeOK, Untouched, Initializing, Ready
    <3>4. Ready'
      BY <2>2 DEF mutex_destroy, Idle, TypeOK, Untouched, Initializing, Ready
    <3> QED
      BY <3>1, <3>2, <3>3, <3>4
  <2>3. ASSUME NEW t \in Threads, ReadInit(t) PROVE Inv'
    <3>1. TypeOK'
      BY <2>3 DEF ReadInit, Goto, Idle, TypeOK
    <3>2. Untouched'
      BY <2>3 DEF ReadInit, Goto, Idle, TypeOK, Untouched, Initializing, Ready
    <3>3. Initializing'
      BY <2>3 DEF ReadInit, Goto, Idle, TypeOK, Untouched, Initializing, Ready
    <3>4. Ready'
      BY <2>3 DEF ReadInit, Goto, Idle, TypeOK, Untouched, Initializing, Ready
    <3> QED
      BY <3>1, <3>2, <3>3, <3>4
  <2>4. ASSUME NEW t \in Threads, Announce(t) PROVE Inv'
    <3>1. TypeOK'
      BY <2>4 DEF Announce, Goto, TypeOK
    <3>2. Untouched'
      BY <2>4 DEF Announce, Goto, TypeOK, Untouched, Initializing, Ready
    <3>3. Initializing'
      BY <2>4 DEF Announce, Goto, TypeOK, Untouched, Initializing, Ready
    <3>4. Ready'
      BY <2>4 DEF Announce, Goto, TypeOK, Untouched, Initializing, Ready
    <3> QED
      BY <3>1, <3>2, <3>3, <3>4
  <2>5. ASSUME NEW t \in Threads, InitializeSection(t) PROVE Inv'
    <3>1. TypeOK'
      BY <2>5 DEF InitializeSection, Goto, TypeOK
    <3>2. Untouched'
      BY <2>5 DEF InitializeSection, Goto, TypeOK, Untouched, Initializing, Ready
    <3>3. Initializing'
      BY <2>5 DEF InitializeSection, Goto, TypeOK, Untouched, Initializing, Ready
    <3>4. Ready'
      BY <2>5 DEF InitializeSection, Goto, TypeOK, Untouched, Initializing, Ready
    <3> QED
      BY <3>1, <3>2, <3>3, <3>4
  <2>6. ASSUME NEW t \in Threads, SetReady(t) PROVE Inv'
    <3>1. TypeOK'
      BY <2>6 DEF SetReady, Goto, TypeOK
    <3>2. Untouched'
      BY <2>6 DEF SetReady, Goto, TypeOK, Untouched, Initializing, Ready
    <3>3. Initializing'
      BY <2>6 DEF SetReady, Goto, TypeOK, Untouched, Initializing, Ready
    <3>4. Ready'
      BY <2>6 DEF SetReady, Goto, TypeOK, Untouched, Initializing, Ready
    <3> QED
      BY <3>1, <3>2, <3>3, <3>4
  <2>7. ASSUME NEW t \in Threads, SeeReady(t) PROVE Inv'
    <3>1. TypeOK'
      BY <2>7 DEF SeeReady, Goto, TypeOK
    <3>2. Untouched'
      BY <2>7 DEF SeeReady, Goto, TypeOK, Untouched, Initializing, Ready
    <3>3. Initializing'
      BY <2>7 DEF SeeReady, Goto, TypeOK, Untouched, Initializing, Ready
    <3>4. Ready'
      BY <2>7 DEF SeeReady, Goto, TypeOK, Untouched, Initializing, Ready
    <3> QED
      BY <3>1, <3>2, <3>3, <3>4
  <2>8. ASSUME NEW t \in Threads, EnterSection(t) PROVE Inv'
    <3>1. TypeOK'
      BY <2>8 DEF EnterSection, Goto, TypeOK
    <3>2. Untouched'
      BY <2>8 DEF EnterSection, Goto, TypeOK, Untouched, Initializing, Ready
    <3>3. Initializing'
      BY <2>8 DEF EnterSection, Goto, TypeOK, Untouched, Initializing, Ready
    <3>4. Ready'
      BY <2>8 DEF EnterSection, Goto, TypeOK, Untouched, Initializing, Ready
    <3> QED
      BY <3>1, <3>2, <3>3, <3>4
  <2>9. ASSUME NEW t \in Threads, mutex_unlock(t) PROVE Inv'
    <3>1. TypeOK'
      BY <2>9 DEF mutex_unlock, Goto, TypeOK
    <3>2. Untouched'
      BY <2>9 DEF mutex_unlock, Goto, TypeOK, Untouched, Initializing, Ready
    <3>3. Initializing'
      BY <2>9 DEF mutex_unlock, Goto, TypeOK, Untouched, Initializing, Ready
    <3>4. Ready'
      BY <2>9 DEF mutex_unlock, Goto, TypeOK, Untouched, Initializing, Ready
    <3> QED
      BY <3>1, <3>2, <3>3, <3>4
  <2>10. CASE UNCHANGED vars
    BY <2>10 DEF vars, TypeOK, Untouched, Initializing, Ready
  <2> QED
    BY <2>1, <2>2, <2>3, <2>4, <2>5, <2>6, <2>7, <2>8, <2>9, <2>10 DEF Next, mutex_lock, SleepMore
<1> QED
  BY <1>1, <1>2, PTL DEF Spec

\* Two threads are never between mutex_lock and mutex_unlock together.
THEOREM Excludes == OneFirstCaller => (Spec => []MutualExclusion)
<1>1. Inv => MutualExclusion
  BY NotThreads DEF Inv, TypeOK, Untouched, Initializing, Ready, MutualExclusion
<1> QED
  BY <1>1, PhasesHold, PTL

\* The section a thread enters is initialised, and it is the one inside it
\* as long as it holds the mutex.
THEOREM SectionIsReady == OneFirstCaller => (Spec => []SectionReady)
<1>1. Inv => SectionReady
  BY NotThreads DEF Inv, TypeOK, Untouched, Initializing, Ready, SectionReady
<1> QED
  BY <1>1, PhasesHold, PTL
=============================================================================

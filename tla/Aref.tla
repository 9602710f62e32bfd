-------------------------------- MODULE Aref --------------------------------
(***************************************************************************)
(* cutils/aref.h: an object that lives while somebody holds a reference to *)
(* it.  The reference count is an int32_t that aref_get and aref_put       *)
(* change with android_atomic_inc and android_atomic_dec, one step each    *)
(* (AtomicLLSC and AtomicCasLoop implement them so).  What holds a         *)
(* reference is outside the header: here a reference is one of Refs, and a *)
(* thread that has one may copy it (aref_get), give it to another thread,  *)
(* or drop it (aref_put).                                                  *)
(***************************************************************************)
EXTENDS Integers, FiniteSets

CONSTANTS Threads,    \* the threads that use the object
          Refs,       \* the references that can exist at a time
          WordSize    \* the number of values of the count, 2^32

ASSUME ArefAssumption ==
  /\ Threads # {}
  /\ IsFiniteSet(Refs) /\ Refs # {}
  /\ WordSize \in Nat
  /\ Cardinality(Refs) < WordSize   \* the count does not wrap around

Nobody == "nobody"

ASSUME NobodyAssumption == Nobody \notin Threads

VARIABLES count,     \* r->count
          holder,    \* who holds each reference
          releasing, \* the threads that are about to call release(r)
          released,  \* the number of times that release has been called
          seen       \* what aref_count told each thread; 0 when it is stale

vars == <<count, holder, releasing, released, seen>>

Live == {r \in Refs : holder[r] # Nobody}

\* aref_init, by the thread that makes the object.
Init ==
  /\ count = 1 % WordSize
  /\ \E r \in Refs : \E t \in Threads :
       holder = [q \in Refs |-> IF q = r THEN t ELSE Nobody]
  /\ releasing = {}
  /\ released = 0
  /\ seen = [t \in Threads |-> 0]

Holds(t) == \E r \in Refs : holder[r] = t

\* Mutated form of aref_get: the increment of another thread is overwritten.
GetLosesIncrement(t) ==
  /\ Holds(t)
  /\ \E r \in Refs \ Live : holder' = [holder EXCEPT ![r] = t]
  /\ seen' = [seen EXCEPT ![t] = 0]
  /\ UNCHANGED <<count, releasing, released>>

\* Only a thread that holds a reference may take another.
aref_get(t) ==
  /\ Holds(t)
  /\ \E r \in Refs \ Live : holder' = [holder EXCEPT ![r] = t]
  /\ count' = (count + 1) % WordSize
  /\ seen' = [seen EXCEPT ![t] = 0]
  /\ UNCHANGED <<releasing, released>>

\* Mutated form of aref_put: it takes what android_atomic_dec returns for
\* the new value.
PutComparesWithZero(t) ==
  /\ \E r \in Refs : holder[r] = t /\ holder' = [holder EXCEPT ![r] = Nobody]
  /\ count' = (count - 1) % WordSize
  /\ releasing' = IF count = 0 THEN releasing \cup {t} ELSE releasing
  /\ seen' = [seen EXCEPT ![t] = 0]
  /\ UNCHANGED released

\* Mutated form of aref_put: the count is read by itself, after the
\* decrement of another thread, and still shows one reference more.
PutComparesLoosely(t) ==
  /\ \E r \in Refs : holder[r] = t /\ holder' = [holder EXCEPT ![r] = Nobody]
  /\ count' = (count - 1) % WordSize
  /\ releasing' = IF count <= 2 THEN releasing \cup {t} ELSE releasing
  /\ seen' = [seen EXCEPT ![t] = 0]
  /\ UNCHANGED released

\* android_atomic_dec returns the previous value: 1 means that this thread
\* dropped the last reference.
aref_put(t) ==
  /\ \E r \in Refs : holder[r] = t /\ holder' = [holder EXCEPT ![r] = Nobody]
  /\ count' = (count - 1) % WordSize
  /\ releasing' = IF count = 1 THEN releasing \cup {t} ELSE releasing
  /\ seen' = [seen EXCEPT ![t] = 0]
  /\ UNCHANGED released

\* The callback of aref_put, after the decrement and outside of it.
release(t) ==
  /\ t \in releasing
  /\ releasing' = releasing \ {t}
  /\ released' = released + 1
  /\ UNCHANGED <<count, holder, seen>>

\* A plain read of the count by a holder.
aref_count(t) ==
  /\ Holds(t)
  /\ seen' = [seen EXCEPT ![t] = count]
  /\ UNCHANGED <<count, holder, releasing, released>>

\* A thread gives one of its references away.
HandOver(t) ==
  /\ \E r \in Refs : \E u \in Threads \ {t} :
       holder[r] = t /\ holder' = [holder EXCEPT ![r] = u]
  /\ seen' = [seen EXCEPT ![t] = 0]
  /\ UNCHANGED <<count, releasing, released>>

Next ==
  \E t \in Threads :
    aref_get(t) \/ aref_put(t) \/ release(t) \/ aref_count(t) \/ HandOver(t)

Spec == Init /\ [][Next]_vars

\* aref_put calls release(r) right after the decrement.
FairSpec == Spec /\ \A t \in Threads : WF_vars(release(t))
-----------------------------------------------------------------------------
TypeOK ==
  /\ count \in 0 .. WordSize - 1
  /\ holder \in [Refs -> Threads \cup {Nobody}]
  /\ releasing \subseteq Threads
  /\ released \in Nat
  /\ seen \in [Threads -> 0 .. WordSize - 1]

\* While anyone holds a reference, the object has not been released and no
\* thread is about to release it.
NoEarlyRelease == Live # {} => releasing = {} /\ released = 0

\* Two threads that drop their references together do not both release.
ReleasedOnce == Cardinality(releasing) + released <= 1

\* A holder that reads a count of 1 owns the object alone, and goes on
\* owning it alone until it copies or passes on its reference itself.
SoleOwner ==
  \A t \in Threads : seen[t] = 1 => \A r \in Live : holder[r] = t

\* The last aref_put gets the object released.
EventuallyReleased == (Live = {}) ~> (released = 1)
=============================================================================

--------------------------- MODULE AtomicOrdering ---------------------------
(***************************************************************************)
(* What the barriers of cutils/atomic.h are worth: threads run straight-   *)
(* line programs made of its operations (AtomicBarriers) and of plain      *)
(* accesses, on a processor and with a compiler that reorder accesses as   *)
(* far as the barriers let them.                                           *)
(*                                                                         *)
(* An instruction may be performed before an earlier one of its thread     *)
(* when they touch different locations, the later does not use what the    *)
(* earlier read, and either the compiler or the processor may swap them:   *)
(*   - the compiler keeps volatile accesses in order among themselves and  *)
(*     everything in order across asm with a "memory" clobber;             *)
(*   - a single processor shows its threads program order; x86 lets loads  *)
(*     pass earlier stores; ARM and MIPS let any two accesses pass; none   *)
(*     moves an access across dmb, sync, mfence or a lock prefix.          *)
(* The processors are external to the headers; their asm is not.           *)
(*                                                                         *)
(* The programs are the uses that the comments of atomic.h describe,       *)
(* aref_put, and the first lock of a Windows mutex, by N threads.          *)
(***************************************************************************)
EXTENDS AtomicBarriers

CONSTANT N   \* the number of threads

ASSUME SeveralThreads == N \in Nat /\ N >= 2

Thread == 1 .. N

VARIABLES target, test,  \* what runs; chosen once
          mem,           \* memory, by location
          reg,           \* registers, by thread
          done           \* indices of the instructions performed, by thread

orderingVars == <<target, test, mem, reg, done>>
-----------------------------------------------------------------------------
(* What the programs share, and the registers of each thread.              *)

lock == <<"lock", 0>>
data == <<"data", 0>>         \* what the lock or the flags protect
Flag(t) == <<"flag", t>>      \* thread t has published the data
Part(t) == <<"part", t>>      \* what thread t writes of an object
count == <<"count", 0>>       \* the references to the object
init == <<"init", 0>>         \* the flag of a Windows mutex
section == <<"section", 0>>   \* 1 when its critical section is made

Locations ==
  {lock, data, count, init, section} \cup {Flag(t) : t \in Thread} \cup {Part(t) : t \in Thread}

zero == <<"zero", 0>>         \* always 0
result == <<"result", 0>>     \* what a flag or a count was
Value(t) == <<"value", t>>

Registers == {zero, result} \cup {Value(t) : t \in Thread}
-----------------------------------------------------------------------------
(* The programs.                                                           *)

\* The lock of the comment of atomic.h: cas until it is ours, a barrier, the
\* work (an increment of a plain counter), a barrier, the store.
LockProgram(b) ==
  android_atomic_acquire_cas(b, lock, 0, 1)
    \o <<Load(data, Value(1)), Store(data, Value(1), 1)>>
    \o android_atomic_release_store(b, lock, zero, 0)

CasUnlockProgram(b) ==
  android_atomic_acquire_cas(b, lock, 0, 1)
    \o <<Load(data, Value(1)), Store(data, Value(1), 1)>>
    \o android_atomic_release_cas(b, lock, 1, 0)

\* The first thread publishes data under a flag, each other passes the flag
\* on, and the last reads the data.
PublishProgram(b, t) ==
  CASE t = 1 -> <<Store(data, zero, 1)>>
                  \o android_atomic_release_store(b, Flag(1), zero, 1)
    [] t \in 2 .. N - 1 -> android_atomic_acquire_load(b, Flag(t - 1), result)
                             \o android_atomic_release_store(b, Flag(t), result, 0)
    [] t = N -> android_atomic_acquire_load(b, Flag(N - 1), result)
                  \o <<Load(data, Value(1))>>

\* Each announces itself and then looks at the next.
DekkerProgram(b, t) ==
  LET next == IF t = N THEN 1 ELSE t + 1
  IN  android_atomic_acquire_store(b, Part(t), zero, 1)
        \o android_atomic_release_load(b, Part(next), Value(next))

\* The k-th of the threads other than t.
Other(t, k) == IF k < t THEN k ELSE k + 1

\* Each writes its part of an object and drops its reference; whoever drops
\* the last one reads the whole object (aref_put and its release callback).
LastPutProgram(b, t) ==
  <<Store(Part(t), zero, 1)>>
    \o android_atomic_add(b, count, result, -1)
    \o [k \in 1 .. N - 1 |-> Load(Part(Other(t, k)), Value(Other(t, k)))]

\* A function that the compiler does not see into.
External(accesses) == android_compiler_barrier \o accesses \o android_compiler_barrier

\* Mutated form of FirstMutexLock: init says 2 before it is so.
FirstMutexLockEarly ==
  <<Store(init, zero, 1), Store(init, zero, 2)>> \o External(<<Store(section, zero, 1)>>)

\* mutex_lock on Windows (cutils/threads.h) that finds init = 0: plain stores
\* around the one that makes the critical section.
FirstMutexLock ==
  <<Store(init, zero, 1)>>
    \o External(<<Store(section, zero, 1)>>)   \* InitializeCriticalSection
    \o <<Store(init, zero, 2)>>

\* mutex_lock of another thread, when it does find init = 2.
LaterMutexLock ==
  <<Load(init, result)>> \o External(<<Load(section, Value(1))>>)   \* EnterCriticalSection

Tests == {"lock", "cas unlock", "publish", "dekker", "last put", "mutex"}

Program(name, b, t) ==
  CASE name = "lock" -> LockProgram(b)
    [] name = "cas unlock" -> CasUnlockProgram(b)
    [] name = "publish" -> PublishProgram(b, t)
    [] name = "dekker" -> DekkerProgram(b, t)
    [] name = "last put" -> LastPutProgram(b, t)
    [] name = "mutex" -> IF t = 1 THEN FirstMutexLock ELSE LaterMutexLock
-----------------------------------------------------------------------------
(* The compiler and the processor.                                         *)

Code(t) == Program(test, target, t)

IsAccess(i) == i.kind \in {"load", "store", "cas", "add"}
IsFence(i) == i.kind = "fence" \/ (i.kind \in {"cas", "add"} /\ i.full)
IsCompilerBarrier(i) == IsFence(i) \/ i.kind = "compiler barrier"

\* The later instruction uses the value that the earlier one read.
DependsOn(later, earlier) ==
  earlier.kind \in {"load", "add"} /\ later.kind = "store" /\ later.reg = earlier.reg

ProcessorMaySwap(earlier, later) ==
  /\ target.smp
  /\ IsX86(target) => earlier.kind = "store" /\ later.kind = "load"

MayPass(code, j, i) ==
  /\ code[i].loc # code[j].loc
  /\ ~DependsOn(code[i], code[j])
  /\ \/ /\ ~(code[i].volatile /\ code[j].volatile)
        /\ \A k \in j .. i : ~IsCompilerBarrier(code[k])
     \/ /\ ProcessorMaySwap(code[j], code[i])
        /\ \A k \in j .. i : ~IsFence(code[k])

MayPerform(t, i) ==
  /\ IsAccess(Code(t)[i])
  /\ i \notin done[t]
  /\ \A j \in 1 .. i - 1 :
       IsAccess(Code(t)[j]) /\ j \notin done[t] => MayPass(Code(t), j, i)

OrderingInit ==
  /\ target \in Targets
  /\ test \in Tests
  /\ mem = [l \in Locations |-> IF l = count THEN N ELSE 0]
  /\ reg = [t \in Thread |-> [r \in Registers |-> 0]]
  /\ done = [t \in Thread |-> {}]

Perform(t, i) ==
  LET c == Code(t)[i]
  IN  /\ MayPerform(t, i)
      /\ \/ /\ c.kind = "load"
            /\ reg' = [reg EXCEPT ![t][c.reg] = mem[c.loc]]
            /\ UNCHANGED mem
         \/ /\ c.kind = "store"
            /\ mem' = [mem EXCEPT ![c.loc] = reg[t][c.reg] + c.num]
            /\ UNCHANGED reg
         \/ /\ c.kind = "cas"
            /\ mem[c.loc] = c.old
            /\ mem' = [mem EXCEPT ![c.loc] = c.num]
            /\ UNCHANGED reg
         \/ /\ c.kind = "add"
            /\ reg' = [reg EXCEPT ![t][c.reg] = mem[c.loc]]
            /\ mem' = [mem EXCEPT ![c.loc] = @ + c.num]
      /\ done' = [done EXCEPT ![t] = @ \cup {i}]
      /\ UNCHANGED <<target, test>>

Finished(t) == \A i \in 1 .. Len(Code(t)) : IsAccess(Code(t)[i]) => i \in done[t]

AllFinished == \A t \in Thread : Finished(t)

Terminated == AllFinished /\ UNCHANGED orderingVars

OrderingNext ==
  \/ \E t \in Thread : \E i \in 1 .. Len(Code(t)) : Perform(t, i)
  \/ Terminated

OrderingSpec == OrderingInit /\ [][OrderingNext]_orderingVars
-----------------------------------------------------------------------------
\* Work done under the lock of atomic.h is never lost: every thread saw what
\* the owner before it wrote, on every processor.
NoLostUpdate ==
  test \in {"lock", "cas unlock"} /\ AllFinished => mem[data] = N

\* Whoever acquires a flag sees what was written before the flag was
\* released, even through other threads.
PublicationSeen ==
  test = "publish" /\ Finished(N) /\ reg[N][result] = 1 => reg[N][Value(1)] = 1

\* acquire_store followed by release_load: the store is visible before the
\* load is performed, so the threads cannot all miss each other.
SomeoneSeesTheOther ==
  test = "dekker" /\ AllFinished
    => \E t, u \in Thread : reg[t][Value(u)] = 1

\* The writes made before a reference was dropped, by any thread, are there
\* before the count is.
WritesPrecedePut ==
  test = "last put"
    => \A t \in Thread : reg[t][result] # 0 => mem[Part(t)] = 1

\* The release callback sees all writes to the object.  It needs an order
\* between the decrement and the reads after it, which android_atomic_dec
\* has on x86 and on ARM64; the ARM and MIPS headers put their only barrier
\* in front of the loop, and the loop itself orders nothing.
LastPutSeesWrites ==
  /\ test = "last put"
  /\ target.isa \in {"x86", "x86_64", "arm64"}
  => \A t \in Thread :
       Finished(t) /\ reg[t][result] = 1
         => \A u \in Thread \ {t} : reg[t][Value(u)] = 1

\* Whoever finds init = 2 in a Windows mutex enters a critical section that
\* was made.  init is a plain int: the function calls keep the compiler from
\* moving its accesses, and only x86 keeps the processor from doing so.
SectionMadeBeforeUse ==
  test = "mutex" /\ IsX86(target)
    => \A t \in Thread \ {1} :
         Finished(t) /\ reg[t][result] = 2 => reg[t][Value(1)] = 1
=============================================================================

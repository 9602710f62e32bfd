--------------------------- MODULE AtomicBarriers ---------------------------
(***************************************************************************)
(* The instructions that the headers of cutils/atomic emit for each of     *)
(* their operations, and where they put the barriers.                      *)
(*                                                                         *)
(* A target is an instruction set and the value of ANDROID_SMP, which the  *)
(* 64-bit headers do not look at.  An instruction is a plain or volatile   *)
(* access, a read-modify-write, or a barrier of the compiler or of the     *)
(* processor.                                                              *)
(***************************************************************************)
EXTENDS Integers, Sequences

Targets ==
  [isa : {"arm", "mips", "x86"}, smp : BOOLEAN]
    \cup [isa : {"arm64", "mips64", "x86_64"}, smp : {TRUE}]

IsX86(b) == b.isa \in {"x86", "x86_64"}
-----------------------------------------------------------------------------
(* Instructions.  A store writes the sum of a register and a number; a     *)
(* read-modify-write adds a number, or waits for old and stores new: the   *)
(* callers loop until their cas succeeds, and a failed one writes nothing. *)

Load(l, r) == [kind |-> "load", loc |-> l, reg |-> r, volatile |-> FALSE]
Store(l, r, n) == [kind |-> "store", loc |-> l, reg |-> r, num |-> n, volatile |-> FALSE]
Volatile(i) == [i EXCEPT !.volatile = TRUE]
Cas(l, old, new, full) ==
  [kind |-> "cas", loc |-> l, old |-> old, num |-> new, volatile |-> TRUE, full |-> full]
Add(l, r, n, full) ==
  [kind |-> "add", loc |-> l, reg |-> r, num |-> n, volatile |-> TRUE, full |-> full]

\* asm volatile ("" : : : "memory")
android_compiler_barrier == <<[kind |-> "compiler barrier"]>>

\* Mutated form of the memory barrier: a bare compiler barrier on x86.
X86MemoryBarrierDropped(b) ==
  IF IsX86(b) THEN android_compiler_barrier ELSE <<[kind |-> "fence"]>>

\* dmb, sync or mfence; the 32-bit headers omit it for a single processor.
android_memory_barrier(b) ==
  IF ~b.smp /\ b.isa \in {"arm", "mips", "x86"}
    THEN android_compiler_barrier
    ELSE <<[kind |-> "fence"]>>

\* The barrier of acquire_load and release_store: x86 keeps those in order
\* by itself and only stops the compiler.
LoadStoreBarrier(b) ==
  IF IsX86(b) THEN android_compiler_barrier ELSE android_memory_barrier(b)

\* The barrier beside a read-modify-write: a lock prefix makes its own.
UpdateBarrier(b) == IF IsX86(b) THEN <<>> ELSE android_memory_barrier(b)

\* Mutated form of SelfOrdering: the cas of ARM64 is taken to order nothing.
SelfOrderingOnX86(b) == IsX86(b)

\* lock cmpxchg with a "memory" clobber, and the __sync builtin of ARM64,
\* order what surrounds them; the ldrex/strex and ll/sc loops do not.
SelfOrdering(b) == IsX86(b) \/ b.isa = "arm64"
-----------------------------------------------------------------------------
(* The operations.                                                         *)

android_atomic_acquire_load(b, l, r) ==
  <<Volatile(Load(l, r))>> \o LoadStoreBarrier(b)

android_atomic_release_load(b, l, r) ==
  android_memory_barrier(b) \o <<Volatile(Load(l, r))>>

android_atomic_acquire_store(b, l, r, n) ==
  <<Volatile(Store(l, r, n))>> \o android_memory_barrier(b)

\* Mutated form of release_store: no barrier, not even for the compiler.
ReleaseStoreUnfenced(b, l, r, n) == <<Volatile(Store(l, r, n))>>

android_atomic_release_store(b, l, r, n) ==
  LoadStoreBarrier(b) \o <<Volatile(Store(l, r, n))>>

\* Mutated form of acquire_cas: the barrier is in front, as in release_cas.
AcquireCasAsRelease(b, l, old, new) ==
  UpdateBarrier(b) \o <<Cas(l, old, new, SelfOrdering(b))>>

android_atomic_acquire_cas(b, l, old, new) ==
  <<Cas(l, old, new, SelfOrdering(b))>> \o UpdateBarrier(b)

android_atomic_release_cas(b, l, old, new) ==
  UpdateBarrier(b) \o <<Cas(l, old, new, SelfOrdering(b))>>

\* Mutated form of add: the barrier is left out, as if the loop were enough.
AddUnfenced(b, l, r, n) == <<Add(l, r, n, SelfOrdering(b))>>

android_atomic_add(b, l, r, n) ==
  UpdateBarrier(b) \o <<Add(l, r, n, SelfOrdering(b))>>
=============================================================================

---------------------------- MODULE Atomic_proofs ----------------------------
(***************************************************************************)
(* The operations of cutils/atomic implement AtomicSpec in every build: for *)
(* every set of threads, every word size, every set of calls, every number *)
(* of interrupts and every instruction set.                                *)
(*                                                                         *)
(* For the loops of ARM and MIPS the argument is the inductive invariant   *)
(* Inv: a reservation that is still open at the strex means that the       *)
(* register prev holds the word, so the store-conditional is AtomicSpec's  *)
(* Execute on the current word.  For those of x86 and ARM64 nothing about  *)
(* prev is needed: the cas compares it with the word in the very step that *)
(* stores, so a word that changed and changed back is as good as one that  *)
(* did not.                                                                *)
(*                                                                         *)
(* The rest of the module is about their order (AtomicOrdering): what the  *)
(* barriers are worth to any number of threads, on every target.  For each *)
(* program one lemma says which instructions it is made of, the next what  *)
(* each of its steps does and which earlier accesses the barriers have     *)
(* made it wait for, and an inductive invariant does the rest as if the    *)
(* threads ran one access at a time.                                       *)
(***************************************************************************)
EXTENDS Atomic, AtomicOrdering, FiniteSetTheorems, SequenceTheorems, TLAPS

\* The two ways through the code: the update loop or a single access.
KindMatchesPc ==
  \A t \in Threads :
    /\ pc[t] \in {"ldrex", "strex"} => IsUpdate(call[t])
    /\ pc[t] = "access" => call[t].name \in {"store", "load"}

Inv == TypeOK /\ ReservationFresh /\ CasAboutToStore /\ KindMatchesPc

\* A call leaves a word in the word: the sum wraps (atomic.h: "the same
\* characteristics, e.g. what happens on overflow").
LEMMA UpdatedIsWord ==
  ASSUME NEW c \in Calls, NEW v \in Word
  PROVE  Updated(c, v) \in Word
<1>1. WordSize \in Nat \ {0} /\ c \in Call
  BY WordAssumption, CallsAssumption
<1>2. CASE c.name = "add"
  <2>1. c.arg \in Word
    BY <1>1, <1>2 DEF Call
  <2>2. v + c.arg \in Int
    BY <2>1, <1>1 DEF Word
  <2>3. (v + c.arg) % WordSize \in 0 .. WordSize - 1
    BY <2>2, <1>1
  <2> QED BY <2>3, <1>2 DEF Updated, Word
<1>3. CASE c.name \in {"cas", "store", "load"}
  BY <1>1, <1>3 DEF Updated, Call
<1>4. CASE c.name \in {"and", "or"}
  BY <1>1, <1>4, WordAssumption DEF Updated, Call
<1> QED BY <1>1, <1>2, <1>3, <1>4 DEF Call

LEMMA ReturnedType ==
  ASSUME NEW c \in Calls, NEW v \in Word
  PROVE  Returned(c, v) \in Word \cup {0, 1}
BY DEF Returned

\* NoCall is not a call.
LEMMA NoCallIsNoCall == NoCall \notin Calls
<1>1. \A c \in Calls : c.name \in {"cas", "add", "and", "or", "store", "load"}
  BY CallsAssumption DEF Call
<1> QED BY <1>1 DEF NoCall

\* Initially no thread is in a loop.
LEMMA InvInit == Init => Inv
<1>1. 0 \in Word /\ MaxInterrupts \in Nat
  BY WordAssumption, InterruptsAssumption DEF Word
<1> QED
  BY <1>1 DEF Init, Inv, TypeOK, ReservationFresh, CasAboutToStore, KindMatchesPc

\* A step of the code preserves the invariant: whoever writes the word
\* closes every reservation, whoever opens one has just read the word.
LEMMA InvStep == Inv /\ [Next]_vars => Inv'
<1> SUFFICES ASSUME Inv, [Next]_vars PROVE Inv'
  OBVIOUS
<1> USE DEF Inv, TypeOK, ReservationFresh, CasAboutToStore, KindMatchesPc
<1>1. CASE UNCHANGED vars
  BY <1>1 DEF vars
<1>2. ASSUME NEW t \in Threads, Begin(t) PROVE Inv'
  <2> PICK c \in Calls :
        /\ call' = [call EXCEPT ![t] = c]
        /\ pc' = [pc EXCEPT ![t] = IF IsUpdate(c) THEN "ldrex" ELSE "access"]
    BY <1>2 DEF Begin
  <2>1. c # NoCall
    BY NoCallIsNoCall
  <2>2. ~IsUpdate(c) => c.name \in {"store", "load"}
    BY CallsAssumption DEF Call, IsUpdate
  <2> QED BY <1>2, <2>1, <2>2 DEF Begin
<1>3. ASSUME NEW t \in Threads, Access(t) PROVE Inv'
  <2>1. call[t] \in Calls
    BY <1>3 DEF Access
  <2>2. word' \in Word /\ ret'[t] \in Word \cup {0, 1}
    BY <1>3, <2>1, UpdatedIsWord, ReturnedType DEF Access
  <2>3. CASE call[t].name = "store"
    BY <1>3, <2>2, <2>3 DEF Access, NoReservation
  <2>4. CASE call[t].name = "load"
    <3>1. word' = word
      BY <1>3, <2>4 DEF Access, Updated
    <3> QED BY <1>3, <2>2, <2>4, <3>1 DEF Access
  <2> QED BY <1>3, <2>3, <2>4 DEF Access
<1>4. ASSUME NEW t \in Threads, LoadLinked(t) PROVE Inv'
  <2>1. CASE Mismatch(call[t], word)
    <3>1. call[t] \in Calls
      BY <1>4 DEF LoadLinked
    <3>2. ret'[t] \in Word \cup {0, 1}
      BY <1>4, <2>1, <3>1, ReturnedType DEF LoadLinked
    <3> QED BY <1>4, <2>1, <3>2 DEF LoadLinked
  <2>2. CASE ~Mismatch(call[t], word)
    BY <1>4, <2>2 DEF LoadLinked, Mismatch
  <2> QED BY <2>1, <2>2
<1>5. ASSUME NEW t \in Threads, StoreConditional(t) PROVE Inv'
  <2>1. call[t] \in Calls
    BY <1>5 DEF StoreConditional
  <2>2. word' \in Word /\ ret'[t] \in Word \cup {0, 1}
    BY <1>5, <2>1, UpdatedIsWord, ReturnedType DEF StoreConditional
  <2> QED BY <1>5, <2>2 DEF StoreConditional, NoReservation
<1>6. ASSUME NEW t \in Threads, Retry(t) PROVE Inv'
  BY <1>6 DEF Retry
<1>7. ASSUME NEW t \in Threads, Return(t) PROVE Inv'
  <2>1. 0 \in Word
    BY WordAssumption DEF Word
  <2> QED BY <1>7, <2>1 DEF Return
<1>8. ASSUME NEW t \in Threads, Interrupt(t) PROVE Inv'
  BY <1>8, InterruptsAssumption DEF Interrupt
<1> QED
  BY <1>1, <1>2, <1>3, <1>4, <1>5, <1>6, <1>7, <1>8 DEF Next, Step

LEMMA Invariance == Spec => []Inv
BY InvInit, InvStep, PTL DEF Spec

\* The variables keep their types; in particular the word stays a word.
THEOREM TypeCorrect == Spec => []TypeOK
<1>1. Inv => TypeOK
  BY DEF Inv
<1> QED BY Invariance, <1>1, PTL
-----------------------------------------------------------------------------
phase == [t \in Threads |-> Phase(t)]

\* AtomicSpec and the loops use the same vocabulary of calls.
LEMMA SameVocabulary ==
  /\ Abstract!NoCall = NoCall
  /\ \A c, v : /\ Abstract!Updated(c, v) = Updated(c, v)
               /\ Abstract!Returned(c, v) = Returned(c, v)
BY DEF NoCall, Abstract!NoCall, Updated, Abstract!Updated, Returned, Abstract!Returned

\* The initial states of the loops are initial states of AtomicSpec.
LEMMA RefinesInit == Init => Abstract!Init
<1> SUFFICES ASSUME Init PROVE Abstract!Init
  OBVIOUS
<1>1. phase = [t \in Threads |-> "idle"]
  BY DEF Init, phase, Phase
<1> QED BY <1>1, SameVocabulary DEF Init, Abstract!Init, phase

\* What AtomicSpec sees of thread t's move to location l.
LEMMA PhaseStep ==
  ASSUME NEW S, pc \in [Threads -> S], NEW t \in Threads, NEW l, pc' = [pc EXCEPT ![t] = l]
  PROVE  /\ l = "idle" => phase' = [phase EXCEPT ![t] = "idle"]
         /\ l = "return" => phase' = [phase EXCEPT ![t] = "done"]
         /\ l \notin {"idle", "return"} => phase' = [phase EXCEPT ![t] = "called"]
BY DEF phase, Phase

\* Every step of the loops is a step of AtomicSpec or changes nothing that
\* AtomicSpec sees.
LEMMA RefinesStep == Inv /\ [Next]_vars => [Abstract!Next]_(Abstract!vars)
<1> SUFFICES ASSUME Inv, [Next]_vars
             PROVE  [Abstract!Next]_(Abstract!vars)
  OBVIOUS
<1> USE DEF Inv
<1>0. Abstract!vars = <<word, phase, call, ret>>
  BY DEF Abstract!vars, phase
<1>1. CASE UNCHANGED vars
  <2>1. phase' = phase
    BY <1>1 DEF vars, phase, Phase
  <2> QED BY <1>1, <2>1 DEF vars, Abstract!vars, phase
<1>2. ASSUME NEW t \in Threads, Begin(t) PROVE Abstract!Begin(t)
  <2>1. phase[t] = "idle"
    BY <1>2 DEF Begin, phase, Phase
  <2>2. phase' = [phase EXCEPT ![t] = "called"]
    <3>1. PICK l \in {"ldrex", "access"} : pc' = [pc EXCEPT ![t] = l]
      BY <1>2 DEF Begin
    <3> QED BY <3>1, PhaseStep DEF TypeOK
  <2> QED BY <1>2, <2>1, <2>2 DEF Begin, Abstract!Begin, phase
<1>3. ASSUME NEW t \in Threads,
             pc[t] \in {"access", "ldrex", "strex"},
             word' = Updated(call[t], word),
             ret' = [ret EXCEPT ![t] = Returned(call[t], word)],
             pc' = [pc EXCEPT ![t] = "return"],
             UNCHANGED call
      PROVE  Abstract!Execute(t)
  <2>1. phase[t] = "called"
    BY <1>3 DEF phase, Phase
  <2>2. phase' = [phase EXCEPT ![t] = "done"]
    BY <1>3, PhaseStep DEF TypeOK
  <2> QED BY <1>3, <2>1, <2>2, SameVocabulary DEF Abstract!Execute, phase
<1>4. ASSUME NEW t \in Threads, Access(t) PROVE Abstract!Execute(t)
  BY <1>3, <1>4 DEF Access
<1>5. ASSUME NEW t \in Threads, LoadLinked(t)
      PROVE  Abstract!Execute(t) \/ UNCHANGED Abstract!vars
  <2>1. CASE Mismatch(call[t], word)
    <3>1. word' = Updated(call[t], word)
      BY <1>5, <2>1 DEF LoadLinked, Mismatch, Updated
    <3> QED BY <1>3, <1>5, <2>1, <3>1 DEF LoadLinked
  <2>2. CASE ~Mismatch(call[t], word)
    <3>1. phase[t] = "called" /\ phase' = [phase EXCEPT ![t] = "called"]
      BY <1>5, <2>2, PhaseStep DEF TypeOK, LoadLinked, phase, Phase
    <3>2. phase' = phase
      BY <3>1 DEF phase
    <3> QED BY <1>0, <1>5, <2>2, <3>2 DEF LoadLinked, Abstract!vars, phase
  <2> QED BY <2>1, <2>2
<1>6. ASSUME NEW t \in Threads, StoreConditional(t) PROVE Abstract!Execute(t)
  <2>1. prev[t] = word
    BY <1>6 DEF StoreConditional, ReservationFresh
  <2> QED BY <1>3, <1>6, <2>1 DEF StoreConditional
<1>7. ASSUME NEW t \in Threads, Retry(t) PROVE UNCHANGED Abstract!vars
  <2>1. phase[t] = "called" /\ phase' = [phase EXCEPT ![t] = "called"]
    BY <1>7, PhaseStep DEF TypeOK, Retry, phase, Phase
  <2>2. phase' = phase
    BY <2>1 DEF phase
  <2> QED BY <1>7, <2>2 DEF Retry, Abstract!vars, phase
<1>8. ASSUME NEW t \in Threads, Interrupt(t) PROVE UNCHANGED Abstract!vars
  <2>1. phase' = phase
    BY <1>8 DEF Interrupt, phase, Phase
  <2> QED BY <1>8, <2>1 DEF Interrupt, Abstract!vars, phase
<1>9. ASSUME NEW t \in Threads, Return(t) PROVE Abstract!Return(t)
  <2>1. phase[t] = "done" /\ phase' = [phase EXCEPT ![t] = "idle"]
    BY <1>9, PhaseStep DEF TypeOK, Return, phase, Phase
  <2> QED BY <1>9, <2>1, SameVocabulary DEF Return, Abstract!Return, phase
<1> QED
  BY <1>1, <1>2, <1>4, <1>5, <1>6, <1>7, <1>8, <1>9
  DEF Next, Step, Abstract!Next

\* The ARM and MIPS loops implement the atomic word that atomic.h promises.
THEOREM LLSCImplementsAtomic == Spec => Linearizable
BY RefinesInit, RefinesStep, Invariance, PTL DEF Spec, Linearizable, Abstract!Spec
-----------------------------------------------------------------------------
(* The single instructions and the loops around the cas.                   *)

\* The shape of the control variables, and which calls reach the loop.
CasInv ==
  /\ pc \in [Threads -> {"idle", "access", "read", "cas", "return"}]
  /\ \A t \in Threads : pc[t] \in {"read", "cas"} => call[t].name \in CasLoop!Looped
  /\ DOMAIN call = Threads

LEMMA CasInvInit == CasLoop!Init => CasInv
BY DEF CasLoop!Init, CasInv

LEMMA CasInvStep == CasInv /\ [CasLoop!Next]_(CasLoop!vars) => CasInv'
<1> SUFFICES ASSUME CasInv, [CasLoop!Next]_(CasLoop!vars) PROVE CasInv'
  OBVIOUS
<1> USE DEF CasInv
<1>1. CASE UNCHANGED CasLoop!vars
  BY <1>1 DEF CasLoop!vars
<1>2. ASSUME NEW t \in Threads, CasLoop!Begin(t) PROVE CasInv'
  BY <1>2 DEF CasLoop!Begin
<1>3. ASSUME NEW t \in Threads, CasLoop!Access(t) PROVE CasInv'
  BY <1>3 DEF CasLoop!Access
<1>4. ASSUME NEW t \in Threads, CasLoop!ReadPrev(t) PROVE CasInv'
  BY <1>4 DEF CasLoop!ReadPrev
<1>5. ASSUME NEW t \in Threads, CasLoop!CasStores(t) PROVE CasInv'
  BY <1>5 DEF CasLoop!CasStores
<1>6. ASSUME NEW t \in Threads, CasLoop!CasFails(t) PROVE CasInv'
  BY <1>6 DEF CasLoop!CasFails
<1>7. ASSUME NEW t \in Threads, CasLoop!Return(t) PROVE CasInv'
  BY <1>7 DEF CasLoop!Return
<1> QED
  BY <1>1, <1>2, <1>3, <1>4, <1>5, <1>6, <1>7 DEF CasLoop!Next, CasLoop!Step

\* The loops and AtomicSpec use the same vocabulary of calls.
LEMMA CasVocabulary ==
  /\ CasLoop!NoCall = NoCall
  /\ \A c, v : /\ CasLoop!Updated(c, v) = Updated(c, v)
               /\ CasLoop!Returned(c, v) = Returned(c, v)
BY DEF NoCall, CasLoop!NoCall, Updated, CasLoop!Updated, Returned, CasLoop!Returned

\* A looped operation returns the previous value.
LEMMA LoopedReturnsPrevious ==
  ASSUME NEW c, NEW v, c.name \in CasLoop!Looped
  PROVE  CasLoop!Returned(c, v) = v
BY DEF CasLoop!Returned, CasLoop!Looped

LEMMA CasRefinesInit == CasLoop!Init => Abstract!Init
<1> SUFFICES ASSUME CasLoop!Init PROVE Abstract!Init
  OBVIOUS
<1>1. phase = [t \in Threads |-> "idle"]
  BY DEF CasLoop!Init, phase, Phase
<1> QED BY <1>1, SameVocabulary, CasVocabulary DEF CasLoop!Init, Abstract!Init, phase

LEMMA CasRefinesStep == CasInv /\ [CasLoop!Next]_(CasLoop!vars) => [Abstract!Next]_(Abstract!vars)
<1> SUFFICES ASSUME CasInv, [CasLoop!Next]_(CasLoop!vars)
             PROVE  [Abstract!Next]_(Abstract!vars)
  OBVIOUS
<1>1. CASE UNCHANGED CasLoop!vars
  <2>1. phase' = phase
    BY <1>1 DEF CasLoop!vars, phase, Phase
  <2> QED BY <1>1, <2>1 DEF CasLoop!vars, Abstract!vars, phase
<1>2. ASSUME NEW t \in Threads, CasLoop!Begin(t) PROVE Abstract!Begin(t)
  <2>1. phase[t] = "idle"
    BY <1>2 DEF CasLoop!Begin, phase, Phase
  <2>2. phase' = [phase EXCEPT ![t] = "called"]
    <3>1. PICK l \in {"read", "access"} : pc' = [pc EXCEPT ![t] = l]
      BY <1>2 DEF CasLoop!Begin
    <3> QED BY <3>1, PhaseStep DEF CasInv
  <2> QED BY <1>2, <2>1, <2>2 DEF CasLoop!Begin, Abstract!Begin, phase
<1>3. ASSUME NEW t \in Threads,
             pc[t] \in {"access", "cas"},
             word' = CasLoop!Updated(call[t], word),
             ret' = [ret EXCEPT ![t] = CasLoop!Returned(call[t], word)],
             pc' = [pc EXCEPT ![t] = "return"],
             UNCHANGED call
      PROVE  Abstract!Execute(t)
  <2>1. phase[t] = "called"
    BY <1>3 DEF phase, Phase
  <2>2. phase' = [phase EXCEPT ![t] = "done"]
    BY <1>3, PhaseStep DEF CasInv
  <2> QED BY <1>3, <2>1, <2>2, SameVocabulary, CasVocabulary DEF Abstract!Execute, phase
<1>4. ASSUME NEW t \in Threads, CasLoop!Access(t) PROVE Abstract!Execute(t)
  BY <1>3, <1>4 DEF CasLoop!Access
<1>5. ASSUME NEW t \in Threads, CasLoop!CasStores(t) PROVE Abstract!Execute(t)
  <2>1. CasLoop!Returned(call[t], word) = prev[t] /\ prev[t] = word
    BY <1>5, LoopedReturnsPrevious DEF CasLoop!CasStores, CasInv
  <2> QED BY <1>3, <1>5, <2>1 DEF CasLoop!CasStores
<1>6. ASSUME NEW t \in Threads, CasLoop!ReadPrev(t) \/ CasLoop!CasFails(t)
      PROVE  UNCHANGED Abstract!vars
  <2>1. phase[t] = "called" /\ phase' = [phase EXCEPT ![t] = "called"]
    BY <1>6, PhaseStep DEF CasInv, CasLoop!ReadPrev, CasLoop!CasFails, phase, Phase
  <2>2. phase' = phase
    BY <2>1 DEF phase
  <2> QED BY <1>6, <2>2 DEF CasLoop!ReadPrev, CasLoop!CasFails, Abstract!vars, phase
<1>7. ASSUME NEW t \in Threads, CasLoop!Return(t) PROVE Abstract!Return(t)
  <2>1. phase[t] = "done" /\ phase' = [phase EXCEPT ![t] = "idle"]
    BY <1>7, PhaseStep DEF CasInv, CasLoop!Return, phase, Phase
  <2> QED BY <1>7, <2>1, SameVocabulary, CasVocabulary DEF CasLoop!Return, Abstract!Return, phase
<1> QED
  BY <1>1, <1>2, <1>4, <1>5, <1>6, <1>7 DEF CasLoop!Next, CasLoop!Step, Abstract!Next
LEMMA CasInvariance == CasLoop!Spec => []CasInv
BY CasInvInit, CasInvStep, PTL DEF CasLoop!Spec

\* The x86 and ARM64 operations implement the atomic word that atomic.h
\* promises, with "lock; xaddl" for the sum or with a loop for it.
THEOREM CasLoopImplementsAtomic == CasLoop!Spec => Linearizable
BY CasRefinesInit, CasRefinesStep, CasInvariance, PTL
DEF CasLoop!Spec, Linearizable, Abstract!Spec
-----------------------------------------------------------------------------
(* Every build.                                                            *)

BuildInv ==
  \/ build = "llsc" /\ Inv
  \/ build = ISA /\ CasInv

LEMMA BuildInvInit == BuildInit => BuildInv
<1>1. Init => CasLoop!Init
  BY DEF Init, CasLoop!Init, NoCall, CasLoop!NoCall
<1> QED BY <1>1, InvInit, CasInvInit DEF BuildInit, BuildInv

\* A build runs one of the two programs.
LEMMA BuildStep ==
  ASSUME [BuildNext]_buildVars
  PROVE  /\ build' = build
         /\ build = "llsc" => [Next]_vars
         /\ build = ISA => [CasLoop!Next]_(CasLoop!vars)
<1>1. CASE UNCHANGED buildVars
  BY <1>1 DEF buildVars, vars, CasLoop!vars
<1>2. CASE BuildNext
  BY <1>2, ISAAssumption
  DEF BuildNext, LinkedStep, CasStep, Next, CasLoop!Next, CasLoop!Step
<1> QED BY <1>1, <1>2

LEMMA BuildInvStep == BuildInv /\ [BuildNext]_buildVars => BuildInv'
BY BuildStep, InvStep, CasInvStep DEF BuildInv

\* Whichever header atomic-inline.h includes, every operation takes effect at
\* one instant between its call and its return, with the result that atomic.h
\* promises.
THEOREM EveryBuildImplementsAtomic == BuildSpec => Linearizable
<1>1. BuildInit => Abstract!Init
  BY RefinesInit DEF BuildInit
<1>2. BuildInv /\ [BuildNext]_buildVars => [Abstract!Next]_(Abstract!vars)
  BY BuildStep, RefinesStep, CasRefinesStep DEF BuildInv
<1> QED
  BY <1>1, <1>2, BuildInvInit, BuildInvStep, PTL DEF BuildSpec, Linearizable, Abstract!Spec
-----------------------------------------------------------------------------
(* Programs as tuples of instructions.                                     *)

LEMMA JoinIs ==
  ASSUME NEW S, NEW s \in Seq(S), NEW t \in Seq(S), NEW u \in Seq(S),
         Len(u) = Len(s) + Len(t),
         \A i \in 1 .. Len(s) + Len(t) : u[i] = IF i <= Len(s) THEN s[i] ELSE t[i - Len(s)]
  PROVE  s \o t = u
BY ConcatProperties, SeqEqual

\* The tuples that the operations are put together from.
LEMMA Joined ==
  /\ \A a : <<a>> \o <<>> = <<a>>
  /\ \A a : <<>> \o <<a>> = <<a>>
  /\ \A a, b : <<a>> \o <<b>> = <<a, b>>
  /\ \A a, b, c : <<a>> \o <<b, c>> = <<a, b, c>>
  /\ \A a, b, c, d : <<a>> \o <<b, c, d>> = <<a, b, c, d>>
  /\ \A a, b, c : <<a, b>> \o <<c>> = <<a, b, c>>
  /\ \A a, b, c, d : <<a, b>> \o <<c, d>> = <<a, b, c, d>>
  /\ \A a, b, c, d : <<a, b, c>> \o <<d>> = <<a, b, c, d>>
  /\ \A a, b, c, d, e : <<a, b, c>> \o <<d, e>> = <<a, b, c, d, e>>
  /\ \A a, b, c, d, e : <<a, b, c, d>> \o <<e>> = <<a, b, c, d, e>>
  /\ \A a, b, c, d, e, f : <<a, b, c, d>> \o <<e, f>> = <<a, b, c, d, e, f>>
<1> DEFINE Join(S, s, t, u) ==
             /\ s \in Seq(S) /\ t \in Seq(S) /\ u \in Seq(S)
             /\ Len(u) = Len(s) + Len(t)
             /\ \A i \in 1 .. Len(s) + Len(t) :
                  u[i] = IF i <= Len(s) THEN s[i] ELSE t[i - Len(s)]
<1>1. ASSUME NEW S, NEW s, NEW t, NEW u, Join(S, s, t, u)
      PROVE  s \o t = u
  BY <1>1, JoinIs
<1>2. ASSUME NEW a
      PROVE  <<a>> \o <<>> = <<a>>
  <2>1. Join({a}, <<a>>, <<>>, <<a>>)
    OBVIOUS
  <2> HIDE DEF Join
  <2> QED BY <1>1, <2>1
<1>3. ASSUME NEW a
      PROVE  <<>> \o <<a>> = <<a>>
  <2>1. Join({a}, <<>>, <<a>>, <<a>>)
    OBVIOUS
  <2> HIDE DEF Join
  <2> QED BY <1>1, <2>1
<1>4. ASSUME NEW a, NEW b
      PROVE  <<a>> \o <<b>> = <<a, b>>
  <2>1. Join({a, b}, <<a>>, <<b>>, <<a, b>>)
    OBVIOUS
  <2> HIDE DEF Join
  <2> QED BY <1>1, <2>1
<1>5. ASSUME NEW a, NEW b, NEW c
      PROVE  <<a>> \o <<b, c>> = <<a, b, c>>
  <2>1. Join({a, b, c}, <<a>>, <<b, c>>, <<a, b, c>>)
    OBVIOUS
  <2> HIDE DEF Join
  <2> QED BY <1>1, <2>1
<1>6. ASSUME NEW a, NEW b, NEW c, NEW d
      PROVE  <<a>> \o <<b, c, d>> = <<a, b, c, d>>
  <2>1. Join({a, b, c, d}, <<a>>, <<b, c, d>>, <<a, b, c, d>>)
    OBVIOUS
  <2> HIDE DEF Join
  <2> QED BY <1>1, <2>1
<1>7. ASSUME NEW a, NEW b, NEW c
      PROVE  <<a, b>> \o <<c>> = <<a, b, c>>
  <2>1. Join({a, b, c}, <<a, b>>, <<c>>, <<a, b, c>>)
    OBVIOUS
  <2> HIDE DEF Join
  <2> QED BY <1>1, <2>1
<1>8. ASSUME NEW a, NEW b, NEW c, NEW d
      PROVE  <<a, b>> \o <<c, d>> = <<a, b, c, d>>
  <2>1. Join({a, b, c, d}, <<a, b>>, <<c, d>>, <<a, b, c, d>>)
    OBVIOUS
  <2> HIDE DEF Join
  <2> QED BY <1>1, <2>1
<1>9. ASSUME NEW a, NEW b, NEW c, NEW d
      PROVE  <<a, b, c>> \o <<d>> = <<a, b, c, d>>
  <2>1. Join({a, b, c, d}, <<a, b, c>>, <<d>>, <<a, b, c, d>>)
    OBVIOUS
  <2> HIDE DEF Join
  <2> QED BY <1>1, <2>1
<1>10. ASSUME NEW a, NEW b, NEW c, NEW d, NEW e
      PROVE  <<a, b, c>> \o <<d, e>> = <<a, b, c, d, e>>
  <2>1. Join({a, b, c, d, e}, <<a, b, c>>, <<d, e>>, <<a, b, c, d, e>>)
    OBVIOUS
  <2> HIDE DEF Join
  <2> QED BY <1>1, <2>1
<1>11. ASSUME NEW a, NEW b, NEW c, NEW d, NEW e
      PROVE  <<a, b, c, d>> \o <<e>> = <<a, b, c, d, e>>
  <2>1. Join({a, b, c, d, e}, <<a, b, c, d>>, <<e>>, <<a, b, c, d, e>>)
    OBVIOUS
  <2> HIDE DEF Join
  <2> QED BY <1>1, <2>1
<1>12. ASSUME NEW a, NEW b, NEW c, NEW d, NEW e, NEW f
      PROVE  <<a, b, c, d>> \o <<e, f>> = <<a, b, c, d, e, f>>
  <2>1. Join({a, b, c, d, e, f}, <<a, b, c, d>>, <<e, f>>, <<a, b, c, d, e, f>>)
    OBVIOUS
  <2> HIDE DEF Join
  <2> QED BY <1>1, <2>1
<1> QED BY <1>2, <1>3, <1>4, <1>5, <1>6, <1>7, <1>8, <1>9, <1>10, <1>11, <1>12

\* The barriers of a target, each one instruction.
CompilerBarrier == [kind |-> "compiler barrier"]
Barrier == android_memory_barrier(target)[1]
LightBarrier == LoadStoreBarrier(target)[1]

LEMMA BarrierInstructions ==
  /\ android_compiler_barrier = <<CompilerBarrier>>
  /\ android_memory_barrier(target) = <<Barrier>>
  /\ LoadStoreBarrier(target) = <<LightBarrier>>
  /\ UpdateBarrier(target) = IF IsX86(target) THEN <<>> ELSE <<Barrier>>
BY DEF android_compiler_barrier, android_memory_barrier, LoadStoreBarrier, UpdateBarrier,
       CompilerBarrier, Barrier, LightBarrier

LEMMA BarriersAreNoAccesses ==
  ~IsAccess(CompilerBarrier) /\ ~IsAccess(Barrier) /\ ~IsAccess(LightBarrier)
BY DEF android_compiler_barrier, android_memory_barrier, LoadStoreBarrier,
       CompilerBarrier, Barrier, LightBarrier, IsAccess

LEMMA Loads ==
  ASSUME NEW l, NEW r
  PROVE  /\ Load(l, r).kind = "load" /\ Load(l, r).loc = l /\ Load(l, r).reg = r
         /\ Volatile(Load(l, r)).kind = "load" /\ Volatile(Load(l, r)).loc = l
         /\ Volatile(Load(l, r)).reg = r
BY DEF Load, Volatile

LEMMA Stores ==
  ASSUME NEW l, NEW r, NEW n
  PROVE  /\ Store(l, r, n).kind = "store" /\ Store(l, r, n).loc = l
         /\ Store(l, r, n).reg = r /\ Store(l, r, n).num = n
         /\ Volatile(Store(l, r, n)).kind = "store" /\ Volatile(Store(l, r, n)).loc = l
         /\ Volatile(Store(l, r, n)).reg = r /\ Volatile(Store(l, r, n)).num = n
BY DEF Store, Volatile

-----------------------------------------------------------------------------
(* What the barriers keep in order.                                        *)

\* An access that may not be passed has been performed.
LEMMA Performed ==
  ASSUME NEW t, NEW i, MayPerform(t, i), NEW j \in 1 .. i - 1,
         IsAccess(Code(t)[j]), ~MayPass(Code(t), j, i)
  PROVE  j \in done[t]
BY DEF MayPerform

\* Nothing passes the memory barrier: where the header leaves it out there
\* is one processor, and the compiler stops.
LEMMA BarrierOrders ==
  ASSUME target \in Targets, NEW code, NEW j \in Int, NEW i \in Int, NEW k \in j .. i,
         code[k] = Barrier
  PROVE  ~MayPass(code, j, i)
<1>1. CASE Barrier.kind = "fence"
  BY <1>1 DEF MayPass, IsFence, IsCompilerBarrier
<1>2. CASE Barrier.kind = "compiler barrier" /\ ~target.smp
  BY <1>2 DEF MayPass, ProcessorMaySwap, IsCompilerBarrier
<1> QED BY <1>1, <1>2 DEF Barrier, android_memory_barrier, android_compiler_barrier

\* The lighter one of x86 lets loads pass stores, and nothing else.
LEMMA LightBarrierOrders ==
  ASSUME target \in Targets, NEW code, NEW j \in Int, NEW i \in Int, NEW k \in j .. i,
         code[k] = LightBarrier,
         ~(code[j].kind = "store" /\ code[i].kind = "load")
  PROVE  ~MayPass(code, j, i)
<1>1. CASE IsX86(target)
  <2>1. LightBarrier.kind = "compiler barrier"
    BY <1>1 DEF LightBarrier, LoadStoreBarrier, android_compiler_barrier
  <2> QED BY <1>1, <2>1 DEF MayPass, ProcessorMaySwap, IsCompilerBarrier
<1>2. CASE ~IsX86(target)
  <2>1. LightBarrier = Barrier
    BY <1>2 DEF LightBarrier, Barrier, LoadStoreBarrier
  <2> QED BY <2>1, BarrierOrders
<1> QED BY <1>1, <1>2

\* On x86 the bare compiler barrier does as much.
LEMMA CompilerBarrierOrders ==
  ASSUME IsX86(target), NEW code, NEW j \in Int, NEW i \in Int, NEW k \in j .. i,
         code[k] = CompilerBarrier,
         ~(code[j].kind = "store" /\ code[i].kind = "load")
  PROVE  ~MayPass(code, j, i)
<1>1. CompilerBarrier.kind = "compiler barrier"
  BY DEF CompilerBarrier
<1> QED BY <1>1 DEF MayPass, ProcessorMaySwap, IsCompilerBarrier

\* A read-modify-write with a lock prefix, or the builtin of ARM64, is
\* itself a barrier.
LEMMA UpdateOrders ==
  ASSUME NEW code, NEW j \in Int, NEW i \in Int, NEW k \in j .. i,
         code[k].kind \in {"cas", "add"}, code[k].full
  PROVE  ~MayPass(code, j, i)
BY DEF MayPass, IsFence, IsCompilerBarrier

LEMMA SameLocationOrders ==
  ASSUME NEW code, NEW j, NEW i, code[j].loc = code[i].loc
  PROVE  ~MayPass(code, j, i)
BY DEF MayPass
-----------------------------------------------------------------------------
(* Steps.                                                                  *)

LEMMA Effects ==
  ASSUME NEW t, NEW i, Perform(t, i)
  PROVE  LET c == Code(t)[i]
         IN  /\ MayPerform(t, i)
             /\ c.kind = "load" =>
                  /\ reg' = [reg EXCEPT ![t][c.reg] = mem[c.loc]]
                  /\ mem' = mem
             /\ c.kind = "store" =>
                  /\ mem' = [mem EXCEPT ![c.loc] = reg[t][c.reg] + c.num]
                  /\ reg' = reg
             /\ c.kind = "cas" =>
                  /\ mem[c.loc] = c.old
                  /\ mem' = [mem EXCEPT ![c.loc] = c.num]
                  /\ reg' = reg
             /\ c.kind = "add" =>
                  /\ reg' = [reg EXCEPT ![t][c.reg] = mem[c.loc]]
                  /\ mem' = [mem EXCEPT ![c.loc] = mem[c.loc] + c.num]
             /\ i \notin done[t]
             /\ IsAccess(c)
             /\ done' = [done EXCEPT ![t] = done[t] \cup {i}]
             /\ target' = target /\ test' = test
BY DEF Perform, MayPerform

\* A step performs an instruction, or changes nothing.
LEMMA OrderingSteps ==
  ASSUME [OrderingNext]_orderingVars
  PROVE  \/ UNCHANGED orderingVars
         \/ \E t \in Thread : \E i \in 1 .. Len(Code(t)) : Perform(t, i)
BY DEF OrderingNext, Terminated

Typed ==
  /\ target \in Targets
  /\ mem \in [Locations -> Int]
  /\ reg \in [Thread -> [Registers -> Int]]
  /\ done \in [Thread -> SUBSET Nat]

-----------------------------------------------------------------------------
(* The lock.                                                               *)

\* Where the program reads the data, writes it, and frees the lock.
ReadAt == IF IsX86(target) THEN 2 ELSE 3
WriteAt == IF IsX86(target) THEN 3 ELSE 4
FreeAt == IF IsX86(target) THEN IF test = "lock" THEN 5 ELSE 4 ELSE 6

Locking == test \in {"lock", "cas unlock"}

LEMMA LockCode ==
  ASSUME NEW t \in Thread, Locking
  PROVE  /\ Len(Code(t)) = FreeAt
         /\ Code(t)[1] = Cas(lock, 0, 1, SelfOrdering(target))
         /\ Code(t)[ReadAt] = Load(data, Value(1))
         /\ Code(t)[WriteAt] = Store(data, Value(1), 1)
         /\ ~IsX86(target) => Code(t)[2] = Barrier
         /\ test = "lock" =>
              /\ Code(t)[FreeAt - 1] = LightBarrier
              /\ Code(t)[FreeAt] = Volatile(Store(lock, zero, 0))
         /\ test = "cas unlock" =>
              /\ Code(t)[FreeAt] = Cas(lock, 1, 0, SelfOrdering(target))
              /\ ~IsX86(target) => Code(t)[5] = Barrier
<1> DEFINE take == Cas(lock, 0, 1, SelfOrdering(target))
           read == Load(data, Value(1))
           write == Store(data, Value(1), 1)
           free == Volatile(Store(lock, zero, 0))
           casFree == Cas(lock, 1, 0, SelfOrdering(target))
<1> USE DEF ReadAt, WriteAt, FreeAt
<1>1. CASE test = "lock"
  <2>1. Code(t) = (<<take>> \o UpdateBarrier(target)) \o <<read, write>>
                    \o (LoadStoreBarrier(target) \o <<free>>)
    BY <1>1 DEF Code, Program, LockProgram, android_atomic_acquire_cas,
                android_atomic_release_store
  <2> HIDE DEF take, read, write, free
  <2>2. LoadStoreBarrier(target) \o <<free>> = <<LightBarrier, free>>
    BY BarrierInstructions, Joined
  <2>3. CASE IsX86(target)
    <3>1. UpdateBarrier(target) = <<>>
      BY <2>3, BarrierInstructions
    <3>2. /\ <<take>> \o <<>> = <<take>>
          /\ <<take>> \o <<read, write>> = <<take, read, write>>
          /\ <<take, read, write>> \o <<LightBarrier, free>> = <<take, read, write, LightBarrier, free>>
      BY Joined
    <3>3. Code(t) = <<take, read, write, LightBarrier, free>>
      BY <2>1, <2>2, <3>1, <3>2
    <3> QED BY <1>1, <2>3, <3>3 DEF take, read, write, free
  <2>4. CASE ~IsX86(target)
    <3>1. UpdateBarrier(target) = <<Barrier>>
      BY <2>4, BarrierInstructions
    <3>2. /\ <<take>> \o <<Barrier>> = <<take, Barrier>>
          /\ <<take, Barrier>> \o <<read, write>> = <<take, Barrier, read, write>>
          /\ <<take, Barrier, read, write>> \o <<LightBarrier, free>>
               = <<take, Barrier, read, write, LightBarrier, free>>
      BY Joined
    <3>3. Code(t) = <<take, Barrier, read, write, LightBarrier, free>>
      BY <2>1, <2>2, <3>1, <3>2
    <3> QED BY <1>1, <2>4, <3>3 DEF take, read, write, free
  <2> QED BY <2>3, <2>4
<1>2. CASE test = "cas unlock"
  <2>1. Code(t) = (<<take>> \o UpdateBarrier(target)) \o <<read, write>>
                    \o (UpdateBarrier(target) \o <<casFree>>)
    BY <1>2 DEF Code, Program, CasUnlockProgram, android_atomic_acquire_cas,
                android_atomic_release_cas
  <2> HIDE DEF take, read, write, casFree
  <2>2. CASE IsX86(target)
    <3>1. UpdateBarrier(target) = <<>>
      BY <2>2, BarrierInstructions
    <3>2. /\ <<take>> \o <<>> = <<take>>
          /\ <<take>> \o <<read, write>> = <<take, read, write>>
          /\ <<>> \o <<casFree>> = <<casFree>>
          /\ <<take, read, write>> \o <<casFree>> = <<take, read, write, casFree>>
      BY Joined
    <3>3. Code(t) = <<take, read, write, casFree>>
      BY <2>1, <3>1, <3>2
    <3>4. ReadAt = 2 /\ WriteAt = 3 /\ FreeAt = 4 /\ test # "lock"
      BY <1>2, <2>2
    <3> HIDE DEF ReadAt, WriteAt, FreeAt
    <3> QED BY <2>2, <3>3, <3>4 DEF take, read, write, casFree
  <2>3. CASE ~IsX86(target)
    <3>1. UpdateBarrier(target) = <<Barrier>>
      BY <2>3, BarrierInstructions
    <3>2. /\ <<take>> \o <<Barrier>> = <<take, Barrier>>
          /\ <<take, Barrier>> \o <<read, write>> = <<take, Barrier, read, write>>
          /\ <<Barrier>> \o <<casFree>> = <<Barrier, casFree>>
          /\ <<take, Barrier, read, write>> \o <<Barrier, casFree>>
               = <<take, Barrier, read, write, Barrier, casFree>>
      BY Joined
    <3>3. Code(t) = <<take, Barrier, read, write, Barrier, casFree>>
      BY <2>1, <3>1, <3>2
    <3>4. ReadAt = 3 /\ WriteAt = 4 /\ FreeAt = 6 /\ test # "lock"
      BY <1>2, <2>3
    <3> HIDE DEF ReadAt, WriteAt, FreeAt
    <3> QED BY <2>3, <3>3, <3>4 DEF take, read, write, casFree
  <2> QED BY <2>2, <2>3
<1> QED BY <1>1, <1>2 DEF Locking

\* The steps of the lock: the barriers make each wait for the one before.
LEMMA LockSteps ==
  ASSUME target \in Targets, Locking, NEW t \in Thread, NEW i \in 1 .. Len(Code(t)),
         Perform(t, i)
  PROVE  \/ /\ i = 1
            /\ mem[lock] = 0
            /\ mem' = [mem EXCEPT ![lock] = 1]
            /\ reg' = reg
         \/ /\ i = ReadAt /\ 1 \in done[t]
            /\ reg' = [reg EXCEPT ![t][Value(1)] = mem[data]]
            /\ mem' = mem
         \/ /\ i = WriteAt /\ ReadAt \in done[t]
            /\ mem' = [mem EXCEPT ![data] = reg[t][Value(1)] + 1]
            /\ reg' = reg
         \/ /\ i = FreeAt /\ WriteAt \in done[t]
            /\ mem' = [mem EXCEPT ![lock] = 0] \/ mem' = [mem EXCEPT ![lock] = reg[t][zero] + 0]
            /\ reg' = reg
<1> DEFINE c == Code(t)
<1>1. /\ Len(c) = FreeAt
      /\ c[1].kind = "cas" /\ c[1].loc = lock /\ c[1].old = 0 /\ c[1].num = 1
      /\ c[1].full = SelfOrdering(target)
      /\ c[ReadAt].kind = "load" /\ c[ReadAt].loc = data /\ c[ReadAt].reg = Value(1)
      /\ c[WriteAt].kind = "store" /\ c[WriteAt].loc = data /\ c[WriteAt].reg = Value(1)
      /\ c[WriteAt].num = 1
  <2>1. /\ Len(c) = FreeAt
        /\ c[1] = Cas(lock, 0, 1, SelfOrdering(target))
        /\ c[ReadAt] = Load(data, Value(1))
        /\ c[WriteAt] = Store(data, Value(1), 1)
    BY LockCode
  <2> HIDE DEF c
  <2> QED BY <2>1 DEF Cas, Load, Store
<1>2. ~IsX86(target) => c[2] = Barrier
  BY LockCode
<1>3. test = "lock" =>
        /\ c[FreeAt - 1] = LightBarrier
        /\ c[FreeAt].kind = "store" /\ c[FreeAt].loc = lock
        /\ c[FreeAt].reg = zero /\ c[FreeAt].num = 0
  BY LockCode, Stores
<1>4. test # "lock" =>
        /\ c[FreeAt].kind = "cas" /\ c[FreeAt].loc = lock /\ c[FreeAt].num = 0
        /\ c[FreeAt].full = SelfOrdering(target)
        /\ ~IsX86(target) => c[5] = Barrier
  <2>1. test # "lock" =>
          /\ c[FreeAt] = Cas(lock, 1, 0, SelfOrdering(target))
          /\ ~IsX86(target) => c[5] = Barrier
    BY LockCode DEF Locking
  <2> HIDE DEF c
  <2> QED BY <2>1 DEF Cas
<1>5. /\ IsAccess(c[1]) /\ IsAccess(c[ReadAt]) /\ IsAccess(c[WriteAt])
      /\ IsX86(target) => SelfOrdering(target)
  BY <1>1 DEF IsAccess, SelfOrdering
<1> HIDE DEF c
<1>6. \A j \in 1 .. i - 1 : IsAccess(c[j]) /\ ~MayPass(c, j, i) => j \in done[t]
  BY Performed, Effects DEF c
<1>7. IsAccess(c[i])
  BY Effects DEF c
<1>8. /\ c[i].kind = "load" =>
           reg' = [reg EXCEPT ![t][c[i].reg] = mem[c[i].loc]] /\ mem' = mem
      /\ c[i].kind = "store" =>
           mem' = [mem EXCEPT ![c[i].loc] = reg[t][c[i].reg] + c[i].num] /\ reg' = reg
      /\ c[i].kind = "cas" =>
           mem[c[i].loc] = c[i].old /\ mem' = [mem EXCEPT ![c[i].loc] = c[i].num] /\ reg' = reg
  BY Effects DEF c
<1>9. i \in {1, ReadAt, WriteAt, FreeAt}
  <2>1. i \in 1 .. FreeAt
    BY <1>1 DEF c
  <2>2. \/ i \in {1, ReadAt, WriteAt, FreeAt}
        \/ ~IsX86(target) /\ i \in {2, 5}
        \/ test = "lock" /\ i = FreeAt - 1
    BY <2>1 DEF ReadAt, WriteAt, FreeAt
  <2>3. i = 5 /\ ~IsX86(target) /\ test = "lock" => i = FreeAt - 1
    BY DEF FreeAt
  <2> QED BY <2>2, <2>3, <1>2, <1>3, <1>4, <1>7, BarriersAreNoAccesses
<1>10. CASE i = 1
  BY <1>1, <1>8, <1>10
<1>11. CASE i = ReadAt
  <2>1. 1 \in Int /\ i \in Int /\ (~IsX86(target) => 2 \in 1 .. i)
    BY <1>11 DEF ReadAt
  <2>2. ~MayPass(c, 1, i)
    <3>1. CASE IsX86(target)
      <4>1. 1 \in 1 .. i /\ 1 \in Int /\ i \in Int
        BY <1>11 DEF ReadAt
      <4> QED BY <1>1, <1>5, <3>1, <4>1, UpdateOrders
    <3>2. CASE ~IsX86(target)
      BY <1>2, <2>1, <3>2, BarrierOrders
    <3> QED BY <3>1, <3>2
  <2>3. 1 \in 1 .. i - 1
    BY <1>11 DEF ReadAt
  <2>4. 1 \in done[t]
    BY <1>5, <1>6, <2>2, <2>3
  <2> QED BY <1>1, <1>8, <1>11, <2>4
<1>12. CASE i = WriteAt
  <2>1. ~MayPass(c, ReadAt, i)
    BY <1>1, <1>12, SameLocationOrders
  <2>2. ReadAt \in 1 .. i - 1
    BY <1>12 DEF ReadAt, WriteAt
  <2>3. ReadAt \in done[t]
    BY <1>5, <1>6, <2>1, <2>2
  <2> QED BY <1>1, <1>8, <1>12, <2>3
<1>13. CASE i = FreeAt
  <2>1. /\ WriteAt \in Int /\ i \in Int /\ WriteAt \in 1 .. i - 1
        /\ test = "lock" => FreeAt - 1 \in WriteAt .. i
        /\ i \in WriteAt .. i
        /\ test # "lock" /\ ~IsX86(target) => 5 \in WriteAt .. i
    BY <1>13 DEF WriteAt, FreeAt
  <2>2. ~MayPass(c, WriteAt, i)
    <3>1. CASE test = "lock"
      BY <1>1, <1>3, <1>13, <2>1, <3>1, LightBarrierOrders
    <3>2. CASE test # "lock" /\ IsX86(target)
      BY <1>4, <1>5, <1>13, <2>1, <3>2, UpdateOrders
    <3>3. CASE test # "lock" /\ ~IsX86(target)
      BY <1>4, <2>1, <3>3, BarrierOrders
    <3> QED BY <3>1, <3>2, <3>3
  <2>3. WriteAt \in done[t]
    BY <1>5, <1>6, <2>1, <2>2
  <2> QED BY <1>3, <1>4, <1>8, <1>13, <2>3
<1> QED BY <1>9, <1>10, <1>11, <1>12, <1>13

\* The data has been written as often as threads have passed the write, and
\* who holds the lock and has read the data has read it as it is.
Holding(t) == 1 \in done[t] /\ FreeAt \notin done[t]
Written == {t \in Thread : WriteAt \in done[t]}

LockInv ==
  /\ Typed
  /\ \A t \in Thread :
       /\ ReadAt \in done[t] => 1 \in done[t]
       /\ WriteAt \in done[t] => ReadAt \in done[t]
       /\ FreeAt \in done[t] => WriteAt \in done[t]
       /\ reg[t][zero] = 0
  /\ \A t \in Thread : Holding(t) => mem[lock] = 1
  /\ \A t, u \in Thread : Holding(t) /\ Holding(u) => t = u
  /\ \A t \in Thread :
       ReadAt \in done[t] /\ WriteAt \notin done[t] => reg[t][Value(1)] = mem[data]
  /\ mem[data] = Cardinality(Written)

LEMMA ThreadsCounted == IsFiniteSet(Thread) /\ Cardinality(Thread) = N
BY SeveralThreads, FS_Interval DEF Thread

LEMMA Places ==
  /\ lock \in Locations /\ data \in Locations /\ count \in Locations
  /\ init \in Locations /\ section \in Locations
  /\ \A t \in Thread : Flag(t) \in Locations /\ Part(t) \in Locations
  /\ zero \in Registers /\ result \in Registers
  /\ \A t \in Thread : Value(t) \in Registers
  /\ 1 \in Thread /\ N \in Thread
BY SeveralThreads DEF Locations, Registers, Thread

LEMMA PlacesDiffer ==
  /\ lock # data /\ init # section
  /\ zero # result
  /\ \A t \in Thread : Value(t) # zero /\ Value(t) # result
  /\ \A t \in Thread : Flag(t) # data /\ Part(t) # count
  /\ \A t, u \in Thread : t # u => Flag(t) # Flag(u) /\ Part(t) # Part(u) /\ Value(t) # Value(u)
BY DEF lock, data, init, section, count, zero, result, Value, Flag, Part

LEMMA InitTyped == OrderingInit => Typed
BY SeveralThreads DEF OrderingInit, Typed

LEMMA LockInit == OrderingInit => LockInv
<1> SUFFICES ASSUME OrderingInit PROVE LockInv
  OBVIOUS
<1>1. /\ \A t \in Thread : done[t] = {} /\ reg[t][zero] = 0
      /\ mem[data] = 0
  BY Places DEF OrderingInit, data, count
<1>2. Written = {} /\ Cardinality(Written) = 0
  BY <1>1, FS_EmptySet DEF Written
<1> QED BY <1>1, <1>2, InitTyped DEF LockInv, Holding

\* One step of the lock.
LEMMA LockKept ==
  ASSUME LockInv, Locking, NEW t \in Thread, NEW i \in 1 .. Len(Code(t)), Perform(t, i)
  PROVE  LockInv'
<1> USE DEF LockInv, Typed
<1>1. /\ i \notin done[t]
      /\ done' = [done EXCEPT ![t] = done[t] \cup {i}]
      /\ target' = target /\ test' = test
  BY Effects
<1>2. FreeAt' = FreeAt /\ WriteAt' = WriteAt /\ ReadAt' = ReadAt
  BY <1>1 DEF FreeAt, WriteAt, ReadAt, IsX86
<1>3. /\ ReadAt \in Nat /\ WriteAt \in Nat /\ FreeAt \in Nat
      /\ 1 # ReadAt /\ 1 # WriteAt /\ 1 # FreeAt
      /\ ReadAt # WriteAt /\ ReadAt # FreeAt /\ WriteAt # FreeAt
  BY DEF FreeAt, WriteAt, ReadAt
<1>4. /\ i \in Nat
      /\ done'[t] = done[t] \cup {i}
      /\ \A u \in Thread : u # t => done'[u] = done[u]
      /\ done' \in [Thread -> SUBSET Nat]
  BY <1>1
<1>5. CASE i = 1 /\ mem[lock] = 0 /\ mem' = [mem EXCEPT ![lock] = 1] /\ reg' = reg
  <2>1. /\ mem'[lock] = 1 /\ mem'[data] = mem[data]
        /\ mem' \in [Locations -> Int]
    BY <1>5, Places, PlacesDiffer
  <2>2. Written' = Written
    BY <1>2, <1>3, <1>4, <1>5 DEF Written
  <2>3. \A u \in Thread : ~Holding(u)
    BY <1>5
  <2>4. \A u \in Thread : Holding(u)' => u = t
    BY <1>2, <1>4, <2>3 DEF Holding
  <2>5. \A u \in Thread :
          ReadAt \in done'[u] /\ WriteAt \notin done'[u] => reg[u][Value(1)] = mem[data]
    BY <1>3, <1>4, <1>5
  <2> QED BY <1>1, <1>2, <1>3, <1>4, <1>5, <2>1, <2>2, <2>4, <2>5
<1>6. CASE /\ i = ReadAt /\ 1 \in done[t]
           /\ reg' = [reg EXCEPT ![t][Value(1)] = mem[data]]
           /\ mem' = mem
  <2>1. /\ reg' \in [Thread -> [Registers -> Int]]
        /\ reg'[t][Value(1)] = mem[data]
        /\ \A u \in Thread : u # t => reg'[u] = reg[u]
        /\ \A u \in Thread : reg'[u][zero] = 0
    BY <1>6, Places, PlacesDiffer
  <2>2. Written' = Written
    BY <1>2, <1>3, <1>4, <1>6 DEF Written
  <2>3. \A u \in Thread : Holding(u)' <=> Holding(u)
    BY <1>2, <1>3, <1>4, <1>6 DEF Holding
  <2> QED BY <1>1, <1>2, <1>3, <1>4, <1>6, <2>1, <2>2, <2>3
<1>7. CASE /\ i = WriteAt /\ ReadAt \in done[t]
           /\ mem' = [mem EXCEPT ![data] = reg[t][Value(1)] + 1]
           /\ reg' = reg
  <2>1. mem[data] = reg[t][Value(1)] /\ mem[data] = Cardinality(Written)
    BY <1>1, <1>7
  <2>2. /\ mem'[lock] = mem[lock] /\ mem'[data] = mem[data] + 1
        /\ mem' \in [Locations -> Int]
    <3>1. mem' = [mem EXCEPT ![data] = mem[data] + 1]
      BY <1>7, <2>1, Zenon
    <3>2. mem[data] + 1 \in Int
      <4>1. mem \in [Locations -> Int] /\ data \in Locations
        BY Places
      <4>2. mem[data] \in Int
        BY <4>1, Zenon
      <4> QED BY <4>2
    <3> QED BY <3>1, <3>2, Places, PlacesDiffer
  <2>3. Written' = Written \cup {t} /\ t \notin Written
    BY <1>1, <1>2, <1>4, <1>7 DEF Written
  <2>4. Cardinality(Written') = Cardinality(Written) + 1
    <3>1. IsFiniteSet(Written)
      BY ThreadsCounted, FS_Subset DEF Written
    <3> QED BY <2>3, <3>1, FS_AddElement
  <2>5. \A u \in Thread : Holding(u)' <=> Holding(u)
    BY <1>2, <1>3, <1>4, <1>7 DEF Holding
  <2>6. Holding(t)
    BY <1>1, <1>7 DEF Holding
  <2>7. \A u \in Thread : ReadAt \in done'[u] /\ WriteAt \notin done'[u] => FALSE
    BY <1>1, <1>4, <1>7, <2>6 DEF Holding
  <2> QED BY <1>1, <1>2, <1>3, <1>4, <1>7, <2>1, <2>2, <2>4, <2>5, <2>7
<1>8. CASE /\ i = FreeAt /\ WriteAt \in done[t]
           /\ mem' = [mem EXCEPT ![lock] = 0] \/ mem' = [mem EXCEPT ![lock] = reg[t][zero] + 0]
           /\ reg' = reg
  <2>1. /\ mem'[lock] = 0 /\ mem'[data] = mem[data]
        /\ mem' \in [Locations -> Int]
    <3>1. mem' = [mem EXCEPT ![lock] = 0]
      BY <1>8
    <3> QED BY <3>1, Places, PlacesDiffer
  <2>2. Written' = Written
    BY <1>2, <1>3, <1>4, <1>8 DEF Written
  <2>3. Holding(t)
    BY <1>1, <1>8 DEF Holding
  <2>4. \A u \in Thread : ~Holding(u)'
    BY <1>2, <1>4, <1>8, <2>3 DEF Holding
  <2>5. \A u \in Thread :
          ReadAt \in done'[u] /\ WriteAt \notin done'[u] => reg[u][Value(1)] = mem[data]
    BY <1>3, <1>4, <1>8
  <2> QED BY <1>1, <1>2, <1>3, <1>4, <1>8, <2>1, <2>2, <2>4, <2>5
<1> QED
  <2> HIDE DEF LockInv
  <2> QED BY <1>5, <1>6, <1>7, <1>8, LockSteps DEF LockInv, Typed

\* Work done under the lock of atomic.h is never lost, by any number of
\* threads, on every target and with either way to free the lock.
THEOREM NeverLosesUpdates == OrderingSpec => []NoLostUpdate
<1>1. OrderingInit => (Locking => LockInv)
  BY LockInit
<1>2. (Locking => LockInv) /\ [OrderingNext]_orderingVars => (Locking => LockInv)'
  <2> SUFFICES ASSUME Locking => LockInv, [OrderingNext]_orderingVars, Locking'
               PROVE  LockInv'
    OBVIOUS
  <2>1. CASE UNCHANGED orderingVars
    BY <2>1 DEF orderingVars, Locking, LockInv, Typed, Holding, Written, ReadAt, WriteAt, FreeAt, IsX86
  <2>2. ASSUME NEW t \in Thread, NEW i \in 1 .. Len(Code(t)), Perform(t, i)
        PROVE  LockInv'
    <3>1. Locking
      BY <2>2, Effects DEF Locking
    <3> QED BY <2>2, <3>1, LockKept
  <2> QED BY <2>1, <2>2, OrderingSteps
<1>3. (Locking => LockInv) => NoLostUpdate
  <2> SUFFICES ASSUME LockInv, Locking, AllFinished PROVE mem[data] = N
    BY DEF Locking, NoLostUpdate
  <2>1. ASSUME NEW t \in Thread PROVE WriteAt \in done[t]
    <3>1. Len(Code(t)) = FreeAt /\ Code(t)[WriteAt] = Store(data, Value(1), 1)
      BY LockCode
    <3>2. WriteAt \in 1 .. Len(Code(t))
      BY <3>1 DEF WriteAt, FreeAt
    <3>3. IsAccess(Code(t)[WriteAt])
      BY <3>1, Stores DEF IsAccess
    <3> QED BY <3>2, <3>3 DEF AllFinished, Finished
  <2>2. Written = Thread
    BY <2>1 DEF Written
  <2> QED BY <2>2, ThreadsCounted DEF LockInv
<1> QED BY <1>1, <1>2, <1>3, PTL DEF OrderingSpec

-----------------------------------------------------------------------------
(* Publication.                                                            *)

Publishing == test = "publish"

LEMMA PublishCode ==
  ASSUME NEW t \in Thread, Publishing
  PROVE  /\ t = 1 =>
              /\ Len(Code(t)) = 3
              /\ Code(t)[1] = Store(data, zero, 1)
              /\ Code(t)[2] = LightBarrier
              /\ Code(t)[3] = Volatile(Store(Flag(1), zero, 1))
         /\ t \in 2 .. N - 1 =>
              /\ Len(Code(t)) = 4
              /\ Code(t)[1] = Volatile(Load(Flag(t - 1), result))
              /\ Code(t)[2] = LightBarrier /\ Code(t)[3] = LightBarrier
              /\ Code(t)[4] = Volatile(Store(Flag(t), result, 0))
         /\ t = N =>
              /\ Len(Code(t)) = 3
              /\ Code(t)[1] = Volatile(Load(Flag(N - 1), result))
              /\ Code(t)[2] = LightBarrier
              /\ Code(t)[3] = Load(data, Value(1))
<1> DEFINE write == Store(data, zero, 1)
           raise == Volatile(Store(Flag(1), zero, 1))
           look == Volatile(Load(Flag(t - 1), result))
           pass == Volatile(Store(Flag(t), result, 0))
           lookLast == Volatile(Load(Flag(N - 1), result))
           read == Load(data, Value(1))
<1>1. Code(t) = PublishProgram(target, t)
  BY DEF Publishing, Code, Program
<1>2. LoadStoreBarrier(target) = <<LightBarrier>>
  BY BarrierInstructions
<1>3. CASE t = 1
  <2>1. Code(t) = <<write>> \o (<<LightBarrier>> \o <<raise>>)
    BY <1>1, <1>2, <1>3, SeveralThreads DEF PublishProgram, android_atomic_release_store
  <2> HIDE DEF write, raise
  <2>2. Code(t) = <<write, LightBarrier, raise>>
    <3>1. /\ <<LightBarrier>> \o <<raise>> = <<LightBarrier, raise>>
          /\ <<write>> \o <<LightBarrier, raise>> = <<write, LightBarrier, raise>>
      BY Joined
    <3> QED BY <2>1, <3>1
  <2>3. ~(t \in 2 .. N - 1) /\ t # N
    BY <1>3, SeveralThreads
  <2> QED BY <2>2, <2>3 DEF write, raise
<1>4. CASE t \in 2 .. N - 1
  <2>1. Code(t) = (<<look>> \o <<LightBarrier>>) \o (<<LightBarrier>> \o <<pass>>)
    BY <1>1, <1>2, <1>4, SeveralThreads
    DEF PublishProgram, android_atomic_release_store, android_atomic_acquire_load
  <2> HIDE DEF look, pass
  <2>2. Code(t) = <<look, LightBarrier, LightBarrier, pass>>
    <3>1. /\ <<look>> \o <<LightBarrier>> = <<look, LightBarrier>>
          /\ <<LightBarrier>> \o <<pass>> = <<LightBarrier, pass>>
          /\ <<look, LightBarrier>> \o <<LightBarrier, pass>>
               = <<look, LightBarrier, LightBarrier, pass>>
      BY Joined
    <3> QED BY <2>1, <3>1
  <2>3. t # 1 /\ t # N
    BY <1>4, SeveralThreads
  <2> QED BY <2>2, <2>3 DEF look, pass
<1>5. CASE t = N
  <2>1. Code(t) = (<<lookLast>> \o <<LightBarrier>>) \o <<read>>
    BY <1>1, <1>2, <1>5, SeveralThreads DEF PublishProgram, android_atomic_acquire_load
  <2> HIDE DEF lookLast, read
  <2>2. Code(t) = <<lookLast, LightBarrier, read>>
    <3>1. /\ <<lookLast>> \o <<LightBarrier>> = <<lookLast, LightBarrier>>
          /\ <<lookLast, LightBarrier>> \o <<read>> = <<lookLast, LightBarrier, read>>
      BY Joined
    <3> QED BY <2>1, <3>1
  <2>3. ~(t \in 2 .. N - 1) /\ t # 1
    BY <1>5, SeveralThreads
  <2> QED BY <2>2, <2>3 DEF lookLast, read
<1> QED BY <1>3, <1>4, <1>5, SeveralThreads DEF Thread

\* The steps of publication: the first thread raises its flag after the
\* write, and the last reads the data after it has looked at the flag.
LEMMA PublishSteps ==
  ASSUME target \in Targets, Publishing, NEW t \in Thread, NEW i \in 1 .. Len(Code(t)),
         Perform(t, i)
  PROVE  \/ /\ t = 1 /\ i = 1
            /\ mem' = [mem EXCEPT ![data] = reg[t][zero] + 1]
            /\ reg' = reg
         \/ /\ t = 1 /\ i = 3 /\ 1 \in done[1]
            /\ mem' = [mem EXCEPT ![Flag(t)] = reg[t][zero] + 1]
            /\ reg' = reg
         \/ /\ t \in 2 .. N /\ i = 1
            /\ reg' = [reg EXCEPT ![t][result] = mem[Flag(t - 1)]]
            /\ mem' = mem
         \/ /\ t \in 2 .. N - 1 /\ i = 4
            /\ mem' = [mem EXCEPT ![Flag(t)] = reg[t][result] + 0]
            /\ reg' = reg
         \/ /\ t = N /\ i = 3 /\ 1 \in done[N]
            /\ reg' = [reg EXCEPT ![t][Value(1)] = mem[data]]
            /\ mem' = mem
<1> DEFINE c == Code(t)
<1>1. /\ t = 1 =>
           /\ Len(c) = 3
           /\ c[1].kind = "store" /\ c[1].loc = data /\ c[1].reg = zero /\ c[1].num = 1
           /\ c[2] = LightBarrier
           /\ c[3].kind = "store" /\ c[3].loc = Flag(1) /\ c[3].reg = zero /\ c[3].num = 1
      /\ t \in 2 .. N - 1 =>
           /\ Len(c) = 4
           /\ c[1].kind = "load" /\ c[1].loc = Flag(t - 1) /\ c[1].reg = result
           /\ c[2] = LightBarrier /\ c[3] = LightBarrier
           /\ c[4].kind = "store" /\ c[4].loc = Flag(t) /\ c[4].reg = result /\ c[4].num = 0
      /\ t = N =>
           /\ Len(c) = 3
           /\ c[1].kind = "load" /\ c[1].loc = Flag(N - 1) /\ c[1].reg = result
           /\ c[2] = LightBarrier
           /\ c[3].kind = "load" /\ c[3].loc = data /\ c[3].reg = Value(1)
  BY PublishCode, Loads, Stores
<1>2. IsAccess(c[1])
  BY <1>1, SeveralThreads DEF IsAccess, Thread
<1>3. i \in 1 .. Len(c)
  OBVIOUS
<1> HIDE DEF c
<1>4. \A j \in 1 .. i - 1 : IsAccess(c[j]) /\ ~MayPass(c, j, i) => j \in done[t]
  BY Performed, Effects DEF c
<1>5. IsAccess(c[i])
  BY Effects DEF c
<1>6. /\ c[i].kind = "load" =>
           reg' = [reg EXCEPT ![t][c[i].reg] = mem[c[i].loc]] /\ mem' = mem
      /\ c[i].kind = "store" =>
           mem' = [mem EXCEPT ![c[i].loc] = reg[t][c[i].reg] + c[i].num] /\ reg' = reg
  BY Effects DEF c
<1>7. CASE t = 1
  <2>1. i \in {1, 3}
    <3>1. ~IsAccess(c[2])
      BY <1>1, <1>7, BarriersAreNoAccesses
    <3>2. i \in 1 .. 3
      BY <1>1, <1>3, <1>7
    <3> QED BY <1>5, <3>1, <3>2
  <2>2. CASE i = 1
    BY <1>1, <1>6, <1>7, <2>2
  <2>3. CASE i = 3
    <3>1. ~MayPass(c, 1, i)
      <4>1. 1 \in Int /\ i \in Int /\ 2 \in 1 .. i
        BY <2>3
      <4> QED BY <1>1, <1>7, <2>3, <4>1, LightBarrierOrders
    <3>2. 1 \in done[t]
      BY <1>2, <1>4, <2>3, <3>1
    <3> QED BY <1>1, <1>6, <1>7, <2>3, <3>2
  <2> QED BY <2>1, <2>2, <2>3
<1>8. CASE t \in 2 .. N - 1
  <2>1. i \in {1, 4}
    <3>1. ~IsAccess(c[2]) /\ ~IsAccess(c[3])
      BY <1>1, <1>8, BarriersAreNoAccesses
    <3>2. i \in 1 .. 4
      BY <1>1, <1>3, <1>8
    <3> QED BY <1>5, <3>1, <3>2
  <2>2. t \in 2 .. N
    BY <1>8, SeveralThreads
  <2> QED BY <1>1, <1>6, <1>8, <2>1, <2>2
<1>9. CASE t = N
  <2>1. i \in {1, 3}
    <3>1. ~IsAccess(c[2])
      BY <1>1, <1>9, BarriersAreNoAccesses
    <3>2. i \in 1 .. 3
      BY <1>1, <1>3, <1>9
    <3> QED BY <1>5, <3>1, <3>2
  <2>2. CASE i = 1
    BY <1>1, <1>6, <1>9, <2>2, SeveralThreads
  <2>3. CASE i = 3
    <3>1. ~MayPass(c, 1, i)
      <4>1. 1 \in Int /\ i \in Int /\ 2 \in 1 .. i
        BY <2>3
      <4> QED BY <1>1, <1>9, <2>3, <4>1, LightBarrierOrders
    <3>2. 1 \in done[t]
      BY <1>2, <1>4, <2>3, <3>1
    <3> QED BY <1>1, <1>6, <1>9, <2>3, <3>2
  <2> QED BY <2>1, <2>2, <2>3
<1> QED BY <1>7, <1>8, <1>9, SeveralThreads DEF Thread

\* Where a flag is up, in memory or in a register, the data is there.
PublishInv ==
  /\ Typed
  /\ \A t \in Thread : reg[t][zero] = 0
  /\ 1 \in done[1] => mem[data] = 1
  /\ \A t \in Thread : mem[Flag(t)] = 1 => mem[data] = 1
  /\ \A t \in Thread : reg[t][result] = 1 => mem[data] = 1
  /\ 3 \in done[N] => 1 \in done[N] /\ (reg[N][result] = 1 => reg[N][Value(1)] = 1)

LEMMA PublishInit == OrderingInit => PublishInv
<1> SUFFICES ASSUME OrderingInit PROVE PublishInv
  OBVIOUS
<1>1. \A t \in Thread : done[t] = {} /\ reg[t][zero] = 0 /\ reg[t][result] = 0
  BY Places DEF OrderingInit
<1>2. \A t \in Thread : Flag(t) # count
  BY DEF Flag, count
<1>3. \A t \in Thread : mem[Flag(t)] = 0
  BY <1>2, Places DEF OrderingInit
<1> QED BY <1>1, <1>3, InitTyped, Places DEF PublishInv

\* One step of publication.
LEMMA PublishKept ==
  ASSUME PublishInv, Publishing, NEW t \in Thread, NEW i \in 1 .. Len(Code(t)), Perform(t, i)
  PROVE  PublishInv'
<1> USE DEF PublishInv, Typed
<1>1. /\ i \notin done[t] /\ i \in Nat
      /\ done' = [done EXCEPT ![t] = done[t] \cup {i}]
      /\ target' = target /\ test' = test
  BY Effects
<1>2. /\ done' \in [Thread -> SUBSET Nat]
      /\ done'[t] = done[t] \cup {i}
      /\ \A u \in Thread : u # t => done'[u] = done[u]
  BY <1>1
<1>3. CASE t = 1 /\ i = 1 /\ mem' = [mem EXCEPT ![data] = reg[t][zero] + 1] /\ reg' = reg
  <2>1. /\ mem'[data] = 1
        /\ mem' \in [Locations -> Int]
        /\ \A u \in Thread : mem'[Flag(u)] = mem[Flag(u)]
    <3>1. reg[t][zero] + 1 = 1
      OBVIOUS
    <3>2. mem' = [mem EXCEPT ![data] = 1]
      BY <1>3, <3>1, Zenon
    <3>3. /\ data \in Locations
          /\ \A u \in Thread : Flag(u) \in Locations /\ Flag(u) # data
      BY Places, PlacesDiffer
    <3> QED BY <3>2, <3>3
  <2>2. t # N
    BY <1>3, SeveralThreads
  <2> QED BY <1>1, <1>2, <1>3, <2>1, <2>2, Places
<1>4. CASE /\ t = 1 /\ i = 3 /\ 1 \in done[1]
           /\ mem' = [mem EXCEPT ![Flag(t)] = reg[t][zero] + 1]
           /\ reg' = reg
  <2>1. /\ mem'[data] = mem[data]
        /\ mem' \in [Locations -> Int]
    <3>1. reg[t][zero] + 1 = 1
      OBVIOUS
    <3>2. mem' = [mem EXCEPT ![Flag(t)] = 1]
      BY <1>4, <3>1, Zenon
    <3> QED BY <3>2, Places, PlacesDiffer
  <2>2. mem[data] = 1
    BY <1>4
  <2>3. t # N
    BY <1>4, SeveralThreads
  <2> QED BY <1>1, <1>2, <1>4, <2>1, <2>2, <2>3, Places
<1>5. CASE /\ t \in 2 .. N /\ i = 1
           /\ reg' = [reg EXCEPT ![t][result] = mem[Flag(t - 1)]]
           /\ mem' = mem
  <2>1. t - 1 \in Thread
    BY <1>5, SeveralThreads DEF Thread
  <2>2. /\ reg' \in [Thread -> [Registers -> Int]]
        /\ reg'[t][result] = mem[Flag(t - 1)]
        /\ \A u \in Thread : u # t => reg'[u] = reg[u]
        /\ \A u \in Thread : reg'[u][zero] = 0
    BY <1>5, <2>1, Places, PlacesDiffer
  <2>3. \A u \in Thread : reg'[u][result] = 1 => mem[data] = 1
    BY <2>1, <2>2
  <2>4. t = N => 3 \notin done[N] /\ 3 \notin done'[N]
    BY <1>1, <1>2, <1>5
  <2>5. t # 1 /\ 1 \in Thread /\ N \in Thread
    BY <1>5, Places
  <2> QED BY <1>1, <1>2, <1>5, <2>2, <2>3, <2>4, <2>5
<1>6. CASE /\ t \in 2 .. N - 1 /\ i = 4
           /\ mem' = [mem EXCEPT ![Flag(t)] = reg[t][result] + 0]
           /\ reg' = reg
  <2>1. reg[t][result] \in Int
    BY Places
  <2>2. mem' = [mem EXCEPT ![Flag(t)] = reg[t][result]]
    <3>1. reg[t][result] + 0 = reg[t][result]
      BY <2>1
    <3> QED BY <1>6, <3>1, Zenon
  <2>3. /\ mem'[data] = mem[data]
        /\ mem' \in [Locations -> Int]
        /\ mem'[Flag(t)] = reg[t][result]
        /\ \A u \in Thread : u # t => mem'[Flag(u)] = mem[Flag(u)]
    BY <2>1, <2>2, Places, PlacesDiffer
  <2>4. t # 1 /\ t # N
    BY <1>6, SeveralThreads
  <2> QED BY <1>1, <1>2, <1>6, <2>3, <2>4, Places
<1>7. CASE /\ t = N /\ i = 3 /\ 1 \in done[N]
           /\ reg' = [reg EXCEPT ![t][Value(1)] = mem[data]]
           /\ mem' = mem
  <2>1. /\ reg' \in [Thread -> [Registers -> Int]]
        /\ reg'[t][Value(1)] = mem[data]
        /\ \A u \in Thread : reg'[u][zero] = 0 /\ reg'[u][result] = reg[u][result]
    BY <1>7, Places, PlacesDiffer
  <2>2. t # 1 /\ 1 \in Thread /\ N \in Thread
    BY <1>7, SeveralThreads, Places
  <2> QED BY <1>1, <1>2, <1>7, <2>1, <2>2
<1> QED
  <2> HIDE DEF PublishInv
  <2> QED BY <1>3, <1>4, <1>5, <1>6, <1>7, PublishSteps DEF PublishInv, Typed

\* Whoever acquires a flag sees what was written before the flag was
\* released, through a chain of any number of threads, on every target.
THEOREM FlagsPublish == OrderingSpec => []PublicationSeen
<1>1. OrderingInit => (Publishing => PublishInv)
  BY PublishInit
<1>2. (Publishing => PublishInv) /\ [OrderingNext]_orderingVars => (Publishing => PublishInv)'
  <2> SUFFICES ASSUME Publishing => PublishInv, [OrderingNext]_orderingVars, Publishing'
               PROVE  PublishInv'
    OBVIOUS
  <2>1. CASE UNCHANGED orderingVars
    BY <2>1 DEF orderingVars, Publishing, PublishInv, Typed
  <2>2. ASSUME NEW t \in Thread, NEW i \in 1 .. Len(Code(t)), Perform(t, i)
        PROVE  PublishInv'
    <3>1. Publishing
      BY <2>2, Effects DEF Publishing
    <3> QED BY <2>2, <3>1, PublishKept
  <2> QED BY <2>1, <2>2, OrderingSteps
<1>3. (Publishing => PublishInv) => PublicationSeen
  <2> SUFFICES ASSUME PublishInv, Publishing, Finished(N), reg[N][result] = 1
               PROVE  reg[N][Value(1)] = 1
    BY DEF Publishing, PublicationSeen
  <2>1. Len(Code(N)) = 3 /\ IsAccess(Code(N)[3])
    BY PublishCode, Places, Loads DEF IsAccess
  <2>2. 3 \in done[N]
    BY <2>1 DEF Finished
  <2> QED BY <2>2 DEF PublishInv
<1> QED BY <1>1, <1>2, <1>3, PTL DEF OrderingSpec

-----------------------------------------------------------------------------
(* Store, then load.                                                       *)

Announcing == test = "dekker"

Following(t) == IF t = N THEN 1 ELSE t + 1

LEMMA FollowingThread == \A t \in Thread : Following(t) \in Thread
BY SeveralThreads DEF Following, Thread

LEMMA DekkerCode ==
  ASSUME NEW t \in Thread, Announcing
  PROVE  /\ Len(Code(t)) = 4
         /\ Code(t)[1] = Volatile(Store(Part(t), zero, 1))
         /\ Code(t)[2] = Barrier /\ Code(t)[3] = Barrier
         /\ Code(t)[4] = Volatile(Load(Part(Following(t)), Value(Following(t))))
<1> DEFINE announce == Volatile(Store(Part(t), zero, 1))
           look == Volatile(Load(Part(Following(t)), Value(Following(t))))
<1>1. Code(t) = (<<announce>> \o android_memory_barrier(target))
                  \o (android_memory_barrier(target) \o <<look>>)
  BY DEF Announcing, Code, Program, DekkerProgram, Following, android_atomic_acquire_store,
         android_atomic_release_load
<1> HIDE DEF announce, look
<1>2. android_memory_barrier(target) = <<Barrier>>
  BY BarrierInstructions
<1>3. /\ <<announce>> \o <<Barrier>> = <<announce, Barrier>>
      /\ <<Barrier>> \o <<look>> = <<Barrier, look>>
      /\ <<announce, Barrier>> \o <<Barrier, look>> = <<announce, Barrier, Barrier, look>>
  BY Joined
<1>4. Code(t) = <<announce, Barrier, Barrier, look>>
  BY <1>1, <1>2, <1>3
<1> QED BY <1>4 DEF announce, look

\* The load waits for the store, on every target.
LEMMA DekkerSteps ==
  ASSUME target \in Targets, Announcing, NEW t \in Thread, NEW i \in 1 .. Len(Code(t)),
         Perform(t, i)
  PROVE  \/ /\ i = 1
            /\ mem' = [mem EXCEPT ![Part(t)] = reg[t][zero] + 1]
            /\ reg' = reg
         \/ /\ i = 4 /\ 1 \in done[t]
            /\ reg' = [reg EXCEPT ![t][Value(Following(t))] = mem[Part(Following(t))]]
            /\ mem' = mem
<1> DEFINE c == Code(t)
<1>1. /\ Len(c) = 4
      /\ c[1].kind = "store" /\ c[1].loc = Part(t) /\ c[1].reg = zero /\ c[1].num = 1
      /\ c[2] = Barrier /\ c[3] = Barrier
      /\ c[4].kind = "load" /\ c[4].loc = Part(Following(t)) /\ c[4].reg = Value(Following(t))
  BY DekkerCode, Loads, Stores
<1>2. i \in {1, 4}
  <2>1. ~IsAccess(c[2]) /\ ~IsAccess(c[3])
    BY <1>1, BarriersAreNoAccesses
  <2>2. i \in 1 .. 4 /\ IsAccess(c[i])
    BY <1>1, Effects
  <2> HIDE DEF c
  <2> QED BY <2>1, <2>2
<1>3. CASE i = 1
  BY <1>1, <1>3, Effects
<1>4. CASE i = 4
  <2>1. ~MayPass(c, 1, i)
    <3>1. 1 \in Int /\ i \in Int /\ 2 \in 1 .. i
      BY <1>4
    <3> HIDE DEF c
    <3> QED BY <1>1, <3>1, BarrierOrders
  <2>2. IsAccess(c[1]) /\ 1 \in 1 .. i - 1
    BY <1>1, <1>4 DEF IsAccess
  <2>3. 1 \in done[t]
    BY <2>1, <2>2, Performed, Effects
  <2> QED BY <1>1, <1>4, <2>3, Effects
<1> QED BY <1>2, <1>3, <1>4

\* A thread that has stored has been seen to store; when all have stored,
\* one has yet to look, or has seen the next.
Looked(t) == 4 \in done[t]

DekkerInv ==
  /\ Typed
  /\ \A t \in Thread :
       /\ reg[t][zero] = 0
       /\ 1 \in done[t] => mem[Part(t)] = 1
       /\ Looked(t) => 1 \in done[t]
  /\ (\A t \in Thread : 1 \in done[t])
       => \E t \in Thread : ~Looked(t) \/ reg[t][Value(Following(t))] = 1

LEMMA DekkerInit == OrderingInit => DekkerInv
<1> SUFFICES ASSUME OrderingInit PROVE DekkerInv
  OBVIOUS
<1>1. \A t \in Thread : done[t] = {} /\ reg[t][zero] = 0
  BY Places DEF OrderingInit
<1> QED BY <1>1, InitTyped, Places DEF DekkerInv, Looked

\* One step of the announcements.
LEMMA DekkerKept ==
  ASSUME DekkerInv, Announcing, NEW t \in Thread, NEW i \in 1 .. Len(Code(t)), Perform(t, i)
  PROVE  DekkerInv'
<1> USE DEF DekkerInv, Typed
<1>1. /\ i \notin done[t] /\ i \in Nat
      /\ done' = [done EXCEPT ![t] = done[t] \cup {i}]
      /\ target' = target /\ test' = test
  BY Effects
<1>2. /\ done' \in [Thread -> SUBSET Nat]
      /\ done'[t] = done[t] \cup {i}
      /\ \A u \in Thread : u # t => done'[u] = done[u]
  BY <1>1
<1>3. CASE i = 1 /\ mem' = [mem EXCEPT ![Part(t)] = reg[t][zero] + 1] /\ reg' = reg
  <2>1. reg[t][zero] + 1 = 1
    OBVIOUS
  <2>2. mem' = [mem EXCEPT ![Part(t)] = 1]
    BY <1>3, <2>1, Zenon
  <2>3. /\ mem' \in [Locations -> Int]
        /\ mem'[Part(t)] = 1
        /\ \A u \in Thread : u # t => mem'[Part(u)] = mem[Part(u)]
    <3>1. \A u \in Thread : Part(u) \in Locations /\ (u # t => Part(u) # Part(t))
      BY Places, PlacesDiffer
    <3> QED BY <2>2, <3>1
  <2>4. ~Looked(t)' /\ \A u \in Thread : Looked(u)' <=> Looked(u)
    BY <1>1, <1>2, <1>3 DEF Looked
  <2>5. \A u \in Thread :
          /\ 1 \in done'[u] => mem'[Part(u)] = 1
          /\ Looked(u)' => 1 \in done'[u]
    BY <1>2, <2>3, <2>4
  <2> QED BY <1>1, <1>2, <1>3, <2>3, <2>4, <2>5
<1>4. CASE /\ i = 4 /\ 1 \in done[t]
           /\ reg' = [reg EXCEPT ![t][Value(Following(t))] = mem[Part(Following(t))]]
           /\ mem' = mem
  <2>1. Following(t) \in Thread
    BY FollowingThread
  <2> DEFINE n == Following(t)
  <2> HIDE DEF n
  <2>2. n \in Thread /\ reg' = [reg EXCEPT ![t][Value(n)] = mem[Part(n)]]
    BY <1>4, <2>1 DEF n
  <2>3. /\ reg' \in [Thread -> [Registers -> Int]]
        /\ reg'[t][Value(n)] = mem[Part(n)]
        /\ \A u \in Thread : reg'[u][zero] = 0
    BY <2>2, Places, PlacesDiffer
  <2>4. \A u \in Thread : 1 \in done'[u] <=> 1 \in done[u]
    BY <1>2, <1>4
  <2>5. \A u \in Thread : Looked(u)' => 1 \in done'[u]
    BY <1>2, <1>4, <2>4 DEF Looked
  <2>6. (\A u \in Thread : 1 \in done'[u]) => reg'[t][Value(Following(t))] = 1
    BY <2>2, <2>3, <2>4 DEF n
  <2> QED BY <1>1, <1>2, <1>4, <2>3, <2>4, <2>5, <2>6
<1> QED
  <2> HIDE DEF DekkerInv
  <2> QED BY <1>3, <1>4, DekkerSteps DEF DekkerInv, Typed

\* acquire_store followed by release_load: the store is visible before the
\* load is performed, so the threads of a ring, however many, cannot all
\* miss the next one.
THEOREM NotAllMiss == OrderingSpec => []SomeoneSeesTheOther
<1>1. OrderingInit => (Announcing => DekkerInv)
  BY DekkerInit
<1>2. (Announcing => DekkerInv) /\ [OrderingNext]_orderingVars => (Announcing => DekkerInv)'
  <2> SUFFICES ASSUME Announcing => DekkerInv, [OrderingNext]_orderingVars, Announcing'
               PROVE  DekkerInv'
    OBVIOUS
  <2>1. CASE UNCHANGED orderingVars
    BY <2>1 DEF orderingVars, Announcing, DekkerInv, Typed, Looked
  <2>2. ASSUME NEW t \in Thread, NEW i \in 1 .. Len(Code(t)), Perform(t, i)
        PROVE  DekkerInv'
    <3>1. Announcing
      BY <2>2, Effects DEF Announcing
    <3> QED BY <2>2, <3>1, DekkerKept
  <2> QED BY <2>1, <2>2, OrderingSteps
<1>3. (Announcing => DekkerInv) => SomeoneSeesTheOther
  <2> SUFFICES ASSUME DekkerInv, Announcing, AllFinished
               PROVE  \E t, u \in Thread : reg[t][Value(u)] = 1
    BY DEF Announcing, SomeoneSeesTheOther
  <2>1. ASSUME NEW t \in Thread PROVE 1 \in done[t] /\ Looked(t)
    <3>1. Len(Code(t)) = 4 /\ IsAccess(Code(t)[1]) /\ IsAccess(Code(t)[4])
      BY DekkerCode, Loads, Stores DEF IsAccess
    <3>2. 1 \in 1 .. Len(Code(t)) /\ 4 \in 1 .. Len(Code(t))
      BY <3>1
    <3> QED BY <3>1, <3>2 DEF AllFinished, Finished, Looked
  <2>2. \E t \in Thread : reg[t][Value(Following(t))] = 1
    BY <2>1 DEF DekkerInv
  <2> QED BY <2>2, FollowingThread
<1> QED BY <1>1, <1>2, <1>3, PTL DEF OrderingSpec

-----------------------------------------------------------------------------
(* The first lock of a Windows mutex.                                      *)

FirstLock == test = "mutex" /\ IsX86(target)

LEMMA MutexCode ==
  ASSUME NEW t \in Thread, FirstLock
  PROVE  /\ t = 1 =>
              /\ Len(Code(t)) = 5
              /\ Code(t)[1] = Store(init, zero, 1)
              /\ Code(t)[2] = CompilerBarrier
              /\ Code(t)[3] = Store(section, zero, 1)
              /\ Code(t)[4] = CompilerBarrier
              /\ Code(t)[5] = Store(init, zero, 2)
         /\ t # 1 =>
              /\ Len(Code(t)) = 4
              /\ Code(t)[1] = Load(init, result)
              /\ Code(t)[2] = CompilerBarrier
              /\ Code(t)[3] = Load(section, Value(1))
              /\ Code(t)[4] = CompilerBarrier
<1> DEFINE begun == Store(init, zero, 1)
           make == Store(section, zero, 1)
           ready == Store(init, zero, 2)
           look == Load(init, result)
           enter == Load(section, Value(1))
           B == CompilerBarrier
<1>1. android_compiler_barrier = <<B>>
  BY BarrierInstructions
<1>2. CASE t = 1
  <2>1. Code(t) = (<<begun>> \o ((<<B>> \o <<make>>) \o <<B>>)) \o <<ready>>
    BY <1>1, <1>2 DEF FirstLock, Code, Program, FirstMutexLock, External
  <2> HIDE DEF begun, make, ready, B
  <2>2. /\ <<B>> \o <<make>> = <<B, make>>
        /\ <<B, make>> \o <<B>> = <<B, make, B>>
        /\ <<begun>> \o <<B, make, B>> = <<begun, B, make, B>>
        /\ <<begun, B, make, B>> \o <<ready>> = <<begun, B, make, B, ready>>
    BY Joined
  <2>3. Code(t) = <<begun, B, make, B, ready>>
    BY <2>1, <2>2
  <2> QED BY <1>2, <2>3 DEF begun, make, ready, B
<1>3. CASE t # 1
  <2>1. Code(t) = <<look>> \o ((<<B>> \o <<enter>>) \o <<B>>)
    BY <1>1, <1>3 DEF FirstLock, Code, Program, LaterMutexLock, External
  <2> HIDE DEF look, enter, B
  <2>2. /\ <<B>> \o <<enter>> = <<B, enter>>
        /\ <<B, enter>> \o <<B>> = <<B, enter, B>>
        /\ <<look>> \o <<B, enter, B>> = <<look, B, enter, B>>
    BY Joined
  <2>3. Code(t) = <<look, B, enter, B>>
    BY <2>1, <2>2
  <2> QED BY <1>3, <2>3 DEF look, enter, B
<1> QED BY <1>2, <1>3

\* On x86 the plain stores of the first thread, and the plain loads of the
\* others, are performed in the order of the code.
LEMMA MutexSteps ==
  ASSUME FirstLock, NEW t \in Thread, NEW i \in 1 .. Len(Code(t)), Perform(t, i)
  PROVE  \/ /\ t = 1 /\ i = 1
            /\ mem' = [mem EXCEPT ![init] = reg[t][zero] + 1]
            /\ reg' = reg
         \/ /\ t = 1 /\ i = 3
            /\ mem' = [mem EXCEPT ![section] = reg[t][zero] + 1]
            /\ reg' = reg
         \/ /\ t = 1 /\ i = 5 /\ 3 \in done[1]
            /\ mem' = [mem EXCEPT ![init] = reg[t][zero] + 2]
            /\ reg' = reg
         \/ /\ t # 1 /\ i = 1
            /\ reg' = [reg EXCEPT ![t][result] = mem[init]]
            /\ mem' = mem
         \/ /\ t # 1 /\ i = 3 /\ 1 \in done[t]
            /\ reg' = [reg EXCEPT ![t][Value(1)] = mem[section]]
            /\ mem' = mem
<1> DEFINE c == Code(t)
<1>1. /\ t = 1 =>
           /\ Len(c) = 5
           /\ c[1].kind = "store" /\ c[1].loc = init /\ c[1].reg = zero /\ c[1].num = 1
           /\ c[2] = CompilerBarrier
           /\ c[3].kind = "store" /\ c[3].loc = section /\ c[3].reg = zero /\ c[3].num = 1
           /\ c[4] = CompilerBarrier
           /\ c[5].kind = "store" /\ c[5].loc = init /\ c[5].reg = zero /\ c[5].num = 2
      /\ t # 1 =>
           /\ Len(c) = 4
           /\ c[1].kind = "load" /\ c[1].loc = init /\ c[1].reg = result
           /\ c[2] = CompilerBarrier
           /\ c[3].kind = "load" /\ c[3].loc = section /\ c[3].reg = Value(1)
           /\ c[4] = CompilerBarrier
  BY MutexCode, Loads, Stores
<1>2. /\ i \in 1 .. Len(c) /\ IsAccess(c[i])
      /\ ~IsAccess(c[2]) /\ ~IsAccess(c[4])
      /\ IsAccess(c[1]) /\ IsAccess(c[3])
  BY <1>1, Effects, BarriersAreNoAccesses DEF IsAccess
<1> HIDE DEF c
<1>3. \A j \in 1 .. i - 1 : IsAccess(c[j]) /\ ~MayPass(c, j, i) => j \in done[t]
  BY Performed, Effects DEF c
<1>4. /\ c[i].kind = "load" =>
           reg' = [reg EXCEPT ![t][c[i].reg] = mem[c[i].loc]] /\ mem' = mem
      /\ c[i].kind = "store" =>
           mem' = [mem EXCEPT ![c[i].loc] = reg[t][c[i].reg] + c[i].num] /\ reg' = reg
  BY Effects DEF c
<1>5. CASE t = 1
  <2>1. i \in {1, 3, 5}
    <3>1. i \in 1 .. 5
      BY <1>1, <1>2, <1>5
    <3> QED BY <1>2, <3>1
  <2>2. CASE i \in {1, 3}
    BY <1>1, <1>4, <1>5, <2>2
  <2>3. CASE i = 5
    <3>1. 3 \in Int /\ i \in Int /\ 4 \in 3 .. i /\ 3 \in 1 .. i - 1
      BY <2>3
    <3>2. ~MayPass(c, 3, i)
      BY <1>1, <1>5, <2>3, <3>1, CompilerBarrierOrders DEF FirstLock
    <3>3. 3 \in done[t]
      BY <1>2, <1>3, <3>1, <3>2
    <3> QED BY <1>1, <1>4, <1>5, <2>3, <3>3
  <2> QED BY <2>1, <2>2, <2>3
<1>6. CASE t # 1
  <2>1. i \in {1, 3}
    <3>1. i \in 1 .. 4
      BY <1>1, <1>2, <1>6
    <3> QED BY <1>2, <3>1
  <2>2. CASE i = 1
    BY <1>1, <1>4, <1>6, <2>2
  <2>3. CASE i = 3
    <3>1. 1 \in Int /\ i \in Int /\ 2 \in 1 .. i /\ 1 \in 1 .. i - 1
      BY <2>3
    <3>2. ~MayPass(c, 1, i)
      BY <1>1, <1>6, <2>3, <3>1, CompilerBarrierOrders DEF FirstLock
    <3>3. 1 \in done[t]
      BY <1>2, <1>3, <3>1, <3>2
    <3> QED BY <1>1, <1>4, <1>6, <2>3, <3>3
  <2> QED BY <2>1, <2>2, <2>3
<1> QED BY <1>5, <1>6

\* Where init = 2 is known, in memory or in a register, the section is made.
MutexInv ==
  /\ Typed
  /\ \A t \in Thread : reg[t][zero] = 0
  /\ 3 \in done[1] => mem[section] = 1
  /\ mem[init] = 2 => mem[section] = 1
  /\ \A t \in Thread : reg[t][result] = 2 => mem[section] = 1
  /\ \A t \in Thread \ {1} :
       3 \in done[t] => 1 \in done[t] /\ (reg[t][result] = 2 => reg[t][Value(1)] = 1)

LEMMA MutexInit == OrderingInit => MutexInv
<1> SUFFICES ASSUME OrderingInit PROVE MutexInv
  OBVIOUS
<1>1. \A t \in Thread : done[t] = {} /\ reg[t][zero] = 0 /\ reg[t][result] = 0
  BY Places DEF OrderingInit
<1>2. mem[init] = 0
  BY Places DEF OrderingInit, init, count
<1> QED BY <1>1, <1>2, InitTyped, Places DEF MutexInv

\* One step of the threads at the mutex.
LEMMA MutexKept ==
  ASSUME MutexInv, FirstLock, NEW t \in Thread, NEW i \in 1 .. Len(Code(t)), Perform(t, i)
  PROVE  MutexInv'
<1> USE DEF MutexInv, Typed
<1>1. /\ i \notin done[t] /\ i \in Nat
      /\ done' = [done EXCEPT ![t] = done[t] \cup {i}]
      /\ target' = target /\ test' = test
  BY Effects
<1>2. /\ done' \in [Thread -> SUBSET Nat]
      /\ done'[t] = done[t] \cup {i}
      /\ \A u \in Thread : u # t => done'[u] = done[u]
  BY <1>1
<1>3. /\ reg[t][zero] + 1 = 1 /\ reg[t][zero] + 2 = 2
      /\ init \in Locations /\ section \in Locations
  <2>1. reg[t][zero] = 0
    OBVIOUS
  <2> QED BY <2>1, Places
<1>4. init # section
  BY PlacesDiffer
<1>5. CASE t = 1 /\ i = 1 /\ mem' = [mem EXCEPT ![init] = reg[t][zero] + 1] /\ reg' = reg
  <2>1. mem' = [mem EXCEPT ![init] = 1]
    BY <1>3, <1>5, Zenon
  <2>2. mem'[init] = 1 /\ mem'[section] = mem[section] /\ mem' \in [Locations -> Int]
    BY <1>3, <1>4, <2>1
  <2> QED BY <1>1, <1>2, <1>5, <2>2
<1>6. CASE t = 1 /\ i = 3 /\ mem' = [mem EXCEPT ![section] = reg[t][zero] + 1] /\ reg' = reg
  <2>1. mem' = [mem EXCEPT ![section] = 1]
    BY <1>3, <1>6, Zenon
  <2>2. mem'[section] = 1 /\ mem'[init] = mem[init] /\ mem' \in [Locations -> Int]
    BY <1>3, <1>4, <2>1
  <2> QED BY <1>1, <1>2, <1>6, <2>2
<1>7. CASE /\ t = 1 /\ i = 5 /\ 3 \in done[1]
           /\ mem' = [mem EXCEPT ![init] = reg[t][zero] + 2]
           /\ reg' = reg
  <2>1. mem' = [mem EXCEPT ![init] = 2]
    BY <1>3, <1>7, Zenon
  <2>2. mem'[section] = mem[section] /\ mem' \in [Locations -> Int]
    BY <1>3, <1>4, <2>1
  <2> QED BY <1>1, <1>2, <1>7, <2>2
<1>8. CASE t # 1 /\ i = 1 /\ reg' = [reg EXCEPT ![t][result] = mem[init]] /\ mem' = mem
  <2>1. /\ reg' \in [Thread -> [Registers -> Int]]
        /\ reg'[t][result] = mem[init]
        /\ \A u \in Thread : u # t => reg'[u] = reg[u]
        /\ \A u \in Thread : reg'[u][zero] = 0
    BY <1>3, <1>8, Places, PlacesDiffer
  <2>2. 3 \notin done'[t]
    BY <1>1, <1>2, <1>8
  <2>3. \A u \in Thread : reg'[u][result] = 2 => mem[section] = 1
    BY <2>1
  <2>4. 1 \in Thread
    BY Places
  <2> QED BY <1>1, <1>2, <1>8, <2>1, <2>2, <2>3, <2>4
<1>9. CASE /\ t # 1 /\ i = 3 /\ 1 \in done[t]
           /\ reg' = [reg EXCEPT ![t][Value(1)] = mem[section]]
           /\ mem' = mem
  <2>1. /\ reg' \in [Thread -> [Registers -> Int]]
        /\ reg'[t][Value(1)] = mem[section]
        /\ \A u \in Thread : u # t => reg'[u] = reg[u]
        /\ \A u \in Thread : reg'[u][zero] = 0 /\ reg'[u][result] = reg[u][result]
    BY <1>3, <1>9, Places, PlacesDiffer
  <2>2. 1 \in Thread
    BY Places
  <2> QED BY <1>1, <1>2, <1>9, <2>1, <2>2
<1> QED
  <2> HIDE DEF MutexInv
  <2> QED BY <1>5, <1>6, <1>7, <1>8, <1>9, MutexSteps

\* Whoever finds init = 2 in a Windows mutex enters a critical section that
\* was made, on x86 and for any number of threads.
THEOREM SectionPublished == OrderingSpec => []SectionMadeBeforeUse
<1>1. OrderingInit => (FirstLock => MutexInv)
  BY MutexInit
<1>2. (FirstLock => MutexInv) /\ [OrderingNext]_orderingVars => (FirstLock => MutexInv)'
  <2> SUFFICES ASSUME FirstLock => MutexInv, [OrderingNext]_orderingVars, FirstLock'
               PROVE  MutexInv'
    OBVIOUS
  <2>1. CASE UNCHANGED orderingVars
    BY <2>1 DEF orderingVars, FirstLock, IsX86, MutexInv, Typed
  <2>2. ASSUME NEW t \in Thread, NEW i \in 1 .. Len(Code(t)), Perform(t, i)
        PROVE  MutexInv'
    <3>1. FirstLock
      BY <2>2, Effects DEF FirstLock, IsX86
    <3> QED BY <2>2, <3>1, MutexKept
  <2> QED BY <2>1, <2>2, OrderingSteps
<1>3. (FirstLock => MutexInv) => SectionMadeBeforeUse
  <2> SUFFICES ASSUME MutexInv, FirstLock, NEW t \in Thread \ {1}, Finished(t),
                      reg[t][result] = 2
               PROVE  reg[t][Value(1)] = 1
    BY DEF FirstLock, SectionMadeBeforeUse
  <2>1. Len(Code(t)) = 4 /\ IsAccess(Code(t)[3]) /\ 3 \in 1 .. Len(Code(t))
    BY MutexCode, Loads DEF IsAccess
  <2>2. 3 \in done[t]
    BY <2>1 DEF Finished
  <2> QED BY <2>2 DEF MutexInv
<1> QED BY <1>1, <1>2, <1>3, PTL DEF OrderingSpec

-----------------------------------------------------------------------------
(* The last put.                                                           *)

Putting == test = "last put"

\* Where the program drops its reference; the reads follow.
DropAt == IF IsX86(target) THEN 2 ELSE 3

LEMMA OtherThreads ==
  ASSUME NEW t \in Thread
  PROVE  /\ \A k \in 1 .. N - 1 : Other(t, k) \in Thread \ {t}
         /\ \A k, l \in 1 .. N - 1 : Other(t, k) = Other(t, l) => k = l
         /\ \A u \in Thread \ {t} : \E k \in 1 .. N - 1 : Other(t, k) = u
<1>1. N \in Nat /\ t \in 1 .. N
  BY SeveralThreads DEF Thread
<1>2. \A k \in 1 .. N - 1 : Other(t, k) \in Thread \ {t}
  BY <1>1 DEF Other, Thread
<1>3. \A k, l \in 1 .. N - 1 : Other(t, k) = Other(t, l) => k = l
  BY <1>1 DEF Other
<1>4. ASSUME NEW u \in Thread \ {t}
      PROVE  \E k \in 1 .. N - 1 : Other(t, k) = u
  <2>1. CASE u < t
    <3>1. u \in 1 .. N - 1 /\ Other(t, u) = u
      BY <1>1, <2>1 DEF Other, Thread
    <3> QED BY <3>1
  <2>2. CASE u > t
    <3>1. u - 1 \in 1 .. N - 1 /\ Other(t, u - 1) = u
      BY <1>1, <2>2 DEF Other, Thread
    <3> QED BY <3>1
  <2>3. u # t /\ u \in Int
    BY DEF Thread
  <2> QED BY <1>1, <2>1, <2>2, <2>3
<1> QED BY <1>2, <1>3, <1>4

ReadOther(t, k) == Load(Part(Other(t, k)), Value(Other(t, k)))

LEMMA LastPutCode ==
  ASSUME NEW t \in Thread, Putting
  PROVE  /\ Len(Code(t)) = DropAt + N - 1
         /\ Code(t)[1] = Store(Part(t), zero, 1)
         /\ ~IsX86(target) => Code(t)[2] = Barrier
         /\ Code(t)[DropAt] = Add(count, result, -1, SelfOrdering(target))
         /\ \A k \in 1 .. N - 1 : Code(t)[DropAt + k] = ReadOther(t, k)
<1> DEFINE write == Store(Part(t), zero, 1)
           drop == Add(count, result, -1, SelfOrdering(target))
           reads == [k \in 1 .. N - 1 |-> ReadOther(t, k)]
           put == IF IsX86(target) THEN <<write, drop>> ELSE <<write, Barrier, drop>>
           S == {write, Barrier, drop} \cup {ReadOther(t, k) : k \in 1 .. N - 1}
<1>1. Code(t) = (<<write>> \o (UpdateBarrier(target) \o <<drop>>)) \o reads
  BY DEF Putting, Code, Program, LastPutProgram, android_atomic_add, ReadOther
<1>2. <<write>> \o (UpdateBarrier(target) \o <<drop>>) = put
  <2> HIDE DEF write, drop
  <2>1. CASE IsX86(target)
    <3>1. UpdateBarrier(target) = <<>>
      BY <2>1, BarrierInstructions
    <3>2. /\ <<>> \o <<drop>> = <<drop>>
          /\ <<write>> \o <<drop>> = <<write, drop>>
      BY Joined
    <3> QED BY <2>1, <3>1, <3>2
  <2>2. CASE ~IsX86(target)
    <3>1. UpdateBarrier(target) = <<Barrier>>
      BY <2>2, BarrierInstructions
    <3>2. /\ <<Barrier>> \o <<drop>> = <<Barrier, drop>>
          /\ <<write>> \o <<Barrier, drop>> = <<write, Barrier, drop>>
      BY Joined
    <3> QED BY <2>2, <3>1, <3>2
  <2> QED BY <2>1, <2>2
<1>3. put \in Seq(S) /\ Len(put) = DropAt
  <2>1. write \in S /\ Barrier \in S /\ drop \in S
    OBVIOUS
  <2> HIDE DEF write, drop, S
  <2> QED BY <2>1 DEF DropAt
<1>4. reads \in Seq(S) /\ Len(reads) = N - 1
  <2>1. N - 1 \in Nat /\ reads \in [1 .. N - 1 -> S]
    BY SeveralThreads
  <2> HIDE DEF reads, S
  <2> QED BY <2>1
<1>5. /\ Len(put \o reads) = DropAt + N - 1
      /\ \A i \in 1 .. DropAt : (put \o reads)[i] = put[i]
      /\ \A k \in 1 .. N - 1 : (put \o reads)[DropAt + k] = reads[k]
  <2>1. DropAt \in Nat /\ N - 1 \in Nat
    BY SeveralThreads DEF DropAt
  <2> HIDE DEF put, reads, S
  <2>2. /\ Len(put \o reads) = DropAt + (N - 1)
        /\ \A i \in 1 .. DropAt + (N - 1) :
             (put \o reads)[i] = IF i <= DropAt THEN put[i] ELSE reads[i - DropAt]
    <3>1. /\ Len(put \o reads) = Len(put) + Len(reads)
          /\ \A i \in 1 .. Len(put) + Len(reads) :
               (put \o reads)[i] = IF i <= Len(put) THEN put[i] ELSE reads[i - Len(put)]
      BY <1>3, <1>4, ConcatProperties
    <3> QED BY <1>3, <1>4, <3>1
  <2>3. ASSUME NEW k \in 1 .. N - 1
        PROVE  (put \o reads)[DropAt + k] = reads[k]
    <3>1. /\ DropAt + k \in 1 .. DropAt + (N - 1) /\ ~(DropAt + k <= DropAt)
          /\ (DropAt + k) - DropAt = k
      BY <2>1
    <3> QED BY <2>2, <3>1
  <2>4. \A i \in 1 .. DropAt : (put \o reads)[i] = put[i]
    BY <2>1, <2>2
  <2> QED BY <2>1, <2>2, <2>3, <2>4, SeveralThreads
<1>6. Code(t) = put \o reads
  BY <1>1, <1>2
<1>7. /\ put[1] = write /\ put[DropAt] = drop
      /\ ~IsX86(target) => put[2] = Barrier
      /\ 1 \in 1 .. DropAt /\ DropAt \in 1 .. DropAt
      /\ ~IsX86(target) => 2 \in 1 .. DropAt
  <2> HIDE DEF write, drop
  <2> QED BY DEF DropAt
<1> HIDE DEF put, write, drop
<1>8. \A k \in 1 .. N - 1 : reads[k] = ReadOther(t, k)
  OBVIOUS
<1> HIDE DEF reads
<1> QED BY <1>5, <1>6, <1>7, <1>8 DEF write, drop

\* The writes of a thread are performed before its decrement; its reads
\* after it, where the update itself is a barrier.
LEMMA LastPutSteps ==
  ASSUME target \in Targets, Putting, NEW t \in Thread, NEW i \in 1 .. Len(Code(t)),
         Perform(t, i)
  PROVE  \/ /\ i = 1
            /\ mem' = [mem EXCEPT ![Part(t)] = reg[t][zero] + 1]
            /\ reg' = reg
         \/ /\ i = DropAt /\ 1 \in done[t]
            /\ reg' = [reg EXCEPT ![t][result] = mem[count]]
            /\ mem' = [mem EXCEPT ![count] = mem[count] + (-1)]
         \/ \E k \in 1 .. N - 1 :
              /\ i = DropAt + k
              /\ SelfOrdering(target) => DropAt \in done[t]
              /\ reg' = [reg EXCEPT ![t][Value(Other(t, k))] = mem[Part(Other(t, k))]]
              /\ mem' = mem
<1> DEFINE c == Code(t)
<1>1. /\ Len(c) = DropAt + N - 1
      /\ c[1].kind = "store" /\ c[1].loc = Part(t) /\ c[1].reg = zero /\ c[1].num = 1
      /\ ~IsX86(target) => c[2] = Barrier
      /\ c[DropAt].kind = "add" /\ c[DropAt].loc = count /\ c[DropAt].reg = result
      /\ c[DropAt].num = -1 /\ c[DropAt].full = SelfOrdering(target)
      /\ \A k \in 1 .. N - 1 :
           /\ c[DropAt + k].kind = "load"
           /\ c[DropAt + k].loc = Part(Other(t, k))
           /\ c[DropAt + k].reg = Value(Other(t, k))
  <2>1. /\ Len(c) = DropAt + N - 1
        /\ c[1] = Store(Part(t), zero, 1)
        /\ ~IsX86(target) => c[2] = Barrier
        /\ c[DropAt] = Add(count, result, -1, SelfOrdering(target))
        /\ \A k \in 1 .. N - 1 : c[DropAt + k] = ReadOther(t, k)
    BY LastPutCode
  <2> HIDE DEF c
  <2>2. \A k \in 1 .. N - 1 :
          /\ ReadOther(t, k).kind = "load"
          /\ ReadOther(t, k).loc = Part(Other(t, k))
          /\ ReadOther(t, k).reg = Value(Other(t, k))
    BY Loads DEF ReadOther
  <2> QED BY <2>1, <2>2 DEF Add, Store
<1>2. /\ i \in 1 .. Len(c) /\ IsAccess(c[i]) /\ IsAccess(c[1]) /\ IsAccess(c[DropAt])
      /\ ~IsX86(target) => ~IsAccess(c[2])
  BY <1>1, Effects, BarriersAreNoAccesses DEF IsAccess
<1> HIDE DEF c
<1>3. \A j \in 1 .. i - 1 : IsAccess(c[j]) /\ ~MayPass(c, j, i) => j \in done[t]
  BY Performed, Effects DEF c
<1>4. /\ c[i].kind = "load" =>
           reg' = [reg EXCEPT ![t][c[i].reg] = mem[c[i].loc]] /\ mem' = mem
      /\ c[i].kind = "store" =>
           mem' = [mem EXCEPT ![c[i].loc] = reg[t][c[i].reg] + c[i].num] /\ reg' = reg
      /\ c[i].kind = "add" =>
           /\ reg' = [reg EXCEPT ![t][c[i].reg] = mem[c[i].loc]]
           /\ mem' = [mem EXCEPT ![c[i].loc] = mem[c[i].loc] + c[i].num]
  BY Effects DEF c
<1>5. \/ i = 1 \/ i = DropAt \/ \E k \in 1 .. N - 1 : i = DropAt + k
  <2>1. i \in 1 .. DropAt + N - 1
    BY <1>1, <1>2
  <2>2. CASE i <= DropAt
    BY <1>2, <2>1, <2>2 DEF DropAt
  <2>3. CASE i > DropAt
    <3>1. i - DropAt \in 1 .. N - 1 /\ i = DropAt + (i - DropAt)
      BY <2>1, <2>3, SeveralThreads DEF DropAt
    <3> QED BY <3>1
  <2> QED BY <2>1, <2>2, <2>3 DEF DropAt
<1>6. CASE i = 1
  BY <1>1, <1>4, <1>6
<1>7. CASE i = DropAt
  <2>1. 1 \in Int /\ i \in Int /\ i \in 1 .. i /\ 1 \in 1 .. i - 1 /\ (~IsX86(target) => 2 \in 1 .. i)
    BY <1>7 DEF DropAt
  <2>2. ~MayPass(c, 1, i)
    <3>1. CASE IsX86(target)
      <4>1. c[i].kind \in {"cas", "add"} /\ c[i].full
        BY <1>1, <1>7, <3>1 DEF SelfOrdering
      <4> QED BY <2>1, <4>1, UpdateOrders
    <3>2. CASE ~IsX86(target)
      BY <1>1, <2>1, <3>2, BarrierOrders
    <3> QED BY <3>1, <3>2
  <2>3. 1 \in done[t]
    BY <1>2, <1>3, <2>1, <2>2
  <2> QED BY <1>1, <1>4, <1>7, <2>3
<1>8. ASSUME NEW k \in 1 .. N - 1, i = DropAt + k
      PROVE  /\ SelfOrdering(target) => DropAt \in done[t]
             /\ reg' = [reg EXCEPT ![t][Value(Other(t, k))] = mem[Part(Other(t, k))]]
             /\ mem' = mem
  <2>1. DropAt \in Int /\ i \in Int /\ DropAt \in DropAt .. i /\ DropAt \in 1 .. i - 1
    BY <1>8, SeveralThreads DEF DropAt
  <2>2. SelfOrdering(target) => ~MayPass(c, DropAt, i)
    BY <1>1, <2>1, UpdateOrders
  <2>3. SelfOrdering(target) => DropAt \in done[t]
    BY <1>2, <1>3, <2>1, <2>2
  <2> QED BY <1>1, <1>4, <1>8, <2>3
<1> QED BY <1>5, <1>6, <1>7, <1>8

\* The count is what is left of the N references, so whoever finds it at 1
\* is the last to drop one; and what it reads afterwards has been written.
Dropped == {t \in Thread : DropAt \in done[t]}

LastPutInv ==
  /\ Typed
  /\ \A t \in Thread :
       /\ reg[t][zero] = 0
       /\ 1 \in done[t] => mem[Part(t)] = 1
       /\ DropAt \in done[t] => 1 \in done[t]
       /\ reg[t][result] # 0 => DropAt \in done[t]
       /\ reg[t][result] = 1 => Dropped = Thread
  /\ mem[count] = N - Cardinality(Dropped)
  /\ SelfOrdering(target) =>
       \A t \in Thread : \A k \in 1 .. N - 1 :
         DropAt + k \in done[t] =>
           /\ DropAt \in done[t]
           /\ reg[t][result] = 1 => reg[t][Value(Other(t, k))] = 1

LEMMA LastPutInit == OrderingInit => LastPutInv
<1> SUFFICES ASSUME OrderingInit PROVE LastPutInv
  OBVIOUS
<1>1. \A t \in Thread : done[t] = {} /\ reg[t][zero] = 0 /\ reg[t][result] = 0
  BY Places DEF OrderingInit
<1>2. mem[count] = N
  BY Places DEF OrderingInit
<1>3. Dropped = {} /\ Cardinality(Dropped) = 0
  BY <1>1, FS_EmptySet DEF Dropped
<1>4. N - 0 = N
  BY SeveralThreads
<1> QED BY <1>1, <1>2, <1>3, <1>4, InitTyped DEF LastPutInv

\* One step of the threads that drop their references.
LEMMA LastPutKept ==
  ASSUME LastPutInv, Putting, NEW t \in Thread, NEW i \in 1 .. Len(Code(t)), Perform(t, i)
  PROVE  LastPutInv'
<1> USE DEF LastPutInv, Typed
<1>1. /\ i \notin done[t] /\ i \in Nat
      /\ done' = [done EXCEPT ![t] = done[t] \cup {i}]
      /\ target' = target /\ test' = test
  BY Effects
<1>2. /\ done' \in [Thread -> SUBSET Nat]
      /\ done'[t] = done[t] \cup {i}
      /\ \A u \in Thread : u # t => done'[u] = done[u]
      /\ \A u \in Thread : \A j \in Nat : j # i => (j \in done'[u] <=> j \in done[u])
  BY <1>1
<1>3. /\ DropAt \in Nat /\ DropAt > 1
      /\ DropAt' = DropAt /\ (SelfOrdering(target)' <=> SelfOrdering(target))
      /\ DropAt # 1
      /\ \A k \in 1 .. N - 1 : DropAt + k \in Nat /\ DropAt + k # DropAt /\ DropAt + k # 1
      /\ \A k, l \in 1 .. N - 1 : l # k => DropAt + l # DropAt + k
  <2>1. DropAt \in Nat /\ DropAt > 1
    BY DEF DropAt
  <2>2. DropAt' = DropAt /\ (SelfOrdering(target)' <=> SelfOrdering(target))
    BY <1>1 DEF DropAt, IsX86, SelfOrdering
  <2>3. N \in Nat
    BY SeveralThreads
  <2> HIDE DEF LastPutInv
  <2> QED BY <2>1, <2>2, <2>3
<1>4. IsFiniteSet(Dropped) /\ Cardinality(Dropped) \in Nat /\ N \in Nat
  BY ThreadsCounted, FS_Subset, FS_CardinalityType, SeveralThreads DEF Dropped
<1>5. CASE i = 1 /\ mem' = [mem EXCEPT ![Part(t)] = reg[t][zero] + 1] /\ reg' = reg
  <2>1. reg[t][zero] + 1 = 1
    OBVIOUS
  <2>2. mem' = [mem EXCEPT ![Part(t)] = 1]
    BY <1>5, <2>1, Zenon
  <2>3. /\ mem' \in [Locations -> Int]
        /\ mem'[Part(t)] = 1 /\ mem'[count] = mem[count]
        /\ \A u \in Thread : u # t => mem'[Part(u)] = mem[Part(u)]
    <3>1. /\ \A u \in Thread : Part(u) \in Locations /\ (u # t => Part(u) # Part(t))
          /\ count \in Locations /\ count # Part(t)
      BY Places, PlacesDiffer
    <3> QED BY <2>2, <3>1
  <2>4. \A u \in Thread : DropAt \in done'[u] <=> DropAt \in done[u]
    <3> HIDE DEF LastPutInv
    <3> QED BY <1>2, <1>3, <1>5
  <2>5. Dropped' = Dropped
    BY <1>3, <2>4 DEF Dropped
  <2>6. \A u \in Thread : \A k \in 1 .. N - 1 : DropAt + k \in done'[u] <=> DropAt + k \in done[u]
    <3> HIDE DEF LastPutInv
    <3> QED BY <1>2, <1>3, <1>5
  <2>7. \A u \in Thread :
          /\ 1 \in done'[u] => mem'[Part(u)] = 1
          /\ DropAt \in done'[u] => 1 \in done'[u]
    BY <1>2, <1>5, <2>3, <2>4
  <2> QED BY <1>1, <1>2, <1>3, <1>5, <2>3, <2>4, <2>5, <2>6, <2>7
<1>6. CASE /\ i = DropAt /\ 1 \in done[t]
           /\ reg' = [reg EXCEPT ![t][result] = mem[count]]
           /\ mem' = [mem EXCEPT ![count] = mem[count] + (-1)]
  <2>1. mem[count] \in Int /\ mem[count] + (-1) = mem[count] - 1
    <3>1. mem \in [Locations -> Int] /\ count \in Locations
      BY Places
    <3>2. mem[count] \in Int
      BY <3>1, Zenon
    <3> QED BY <3>2
  <2>2. /\ mem' \in [Locations -> Int]
        /\ mem'[count] = mem[count] - 1
        /\ \A u \in Thread : mem'[Part(u)] = mem[Part(u)]
    <3>1. /\ count \in Locations
          /\ \A u \in Thread : Part(u) \in Locations /\ Part(u) # count
      BY Places, PlacesDiffer
    <3> QED BY <1>6, <2>1, <3>1
  <2>3. /\ reg' \in [Thread -> [Registers -> Int]]
        /\ reg'[t][result] = mem[count]
        /\ \A u \in Thread : u # t => reg'[u] = reg[u]
        /\ \A u \in Thread : reg'[u][zero] = 0
    BY <1>6, <2>1, Places, PlacesDiffer
  <2>4. Dropped' = Dropped \cup {t} /\ t \notin Dropped
    BY <1>1, <1>2, <1>3, <1>6 DEF Dropped
  <2>5. Cardinality(Dropped') = Cardinality(Dropped) + 1
    BY <1>4, <2>4, FS_AddElement
  <2>6. mem[count] = 1 => Dropped' = Thread
    <3>1. Dropped' \subseteq Thread
      BY <2>4 DEF Dropped
    <3>2. mem[count] = 1 => Cardinality(Dropped') = Cardinality(Thread)
      BY <1>4, <2>5, ThreadsCounted
    <3> QED BY <3>1, <3>2, ThreadsCounted, FS_Subset
  <2>7. \A u \in Thread : u # t => ~(reg[u][result] = 1)
    BY <2>4
  <2>8. \A u \in Thread : \A k \in 1 .. N - 1 : DropAt + k \in done'[u] <=> DropAt + k \in done[u]
    <3> HIDE DEF LastPutInv
    <3> QED BY <1>2, <1>3, <1>6
  <2>9. SelfOrdering(target) => \A k \in 1 .. N - 1 : DropAt + k \notin done'[t]
    BY <1>1, <1>6, <2>8
  <2>10. \A u \in Thread :
           /\ 1 \in done'[u] <=> 1 \in done[u]
           /\ DropAt \in done'[u] => 1 \in done'[u]
           /\ reg'[u][result] # 0 => DropAt \in done'[u]
           /\ reg'[u][result] = 1 => Dropped' = Thread
    BY <1>2, <1>3, <1>6, <2>3, <2>6, <2>7
  <2>11. mem'[count] = N - Cardinality(Dropped')
    BY <1>4, <2>2, <2>5
  <2>12. SelfOrdering(target) =>
           \A u \in Thread : \A k \in 1 .. N - 1 :
             DropAt + k \in done'[u] =>
               /\ DropAt \in done'[u]
               /\ reg'[u][result] = 1 => reg'[u][Value(Other(u, k))] = 1
    <3> SUFFICES ASSUME SelfOrdering(target), NEW u \in Thread, NEW k \in 1 .. N - 1,
                        DropAt + k \in done'[u]
                 PROVE  /\ DropAt \in done'[u]
                        /\ reg'[u][result] = 1 => reg'[u][Value(Other(u, k))] = 1
      OBVIOUS
    <3>1. u # t /\ DropAt + k \in done[u]
      BY <2>8, <2>9
    <3>2. /\ DropAt \in done[u]
          /\ reg[u][result] = 1 => reg[u][Value(Other(u, k))] = 1
      BY <3>1
    <3> QED BY <1>2, <2>3, <3>1, <3>2
  <2> QED BY <1>1, <1>2, <1>3, <2>2, <2>3, <2>10, <2>11, <2>12
<1>7. ASSUME NEW k \in 1 .. N - 1, i = DropAt + k,
             SelfOrdering(target) => DropAt \in done[t],
             reg' = [reg EXCEPT ![t][Value(Other(t, k))] = mem[Part(Other(t, k))]],
             mem' = mem
      PROVE  LastPutInv'
  <2> DEFINE o == Other(t, k)
  <2>1. o \in Thread
    BY OtherThreads
  <2>2. \A l \in 1 .. N - 1 : l # k => Other(t, l) # o /\ Other(t, l) \in Thread
    BY OtherThreads
  <2>3. reg' = [reg EXCEPT ![t][Value(o)] = mem[Part(o)]]
    BY <1>7
  <2> HIDE DEF o
  <2>4. /\ reg' \in [Thread -> [Registers -> Int]]
        /\ reg'[t][Value(o)] = mem[Part(o)]
        /\ \A u \in Thread : u # t => reg'[u] = reg[u]
        /\ \A u \in Thread : reg'[u][zero] = 0 /\ reg'[u][result] = reg[u][result]
        /\ \A l \in 1 .. N - 1 : l # k => reg'[t][Value(Other(t, l))] = reg[t][Value(Other(t, l))]
    <3>1. /\ Value(o) \in Registers /\ Value(o) # zero /\ Value(o) # result
          /\ zero \in Registers /\ result \in Registers
          /\ \A l \in 1 .. N - 1 :
               l # k => Value(Other(t, l)) # Value(o) /\ Value(Other(t, l)) \in Registers
      BY <2>1, <2>2, Places, PlacesDiffer
    <3>2. mem[Part(o)] \in Int
      BY <2>1, Places
    <3> QED BY <2>3, <3>1, <3>2
  <2>5. \A u \in Thread :
          /\ DropAt \in done'[u] <=> DropAt \in done[u]
          /\ 1 \in done'[u] <=> 1 \in done[u]
    <3> HIDE DEF LastPutInv
    <3> QED BY <1>2, <1>3, <1>7
  <2>6. Dropped' = Dropped
    BY <1>3, <2>5 DEF Dropped
  <2>7. \A l \in 1 .. N - 1 : l # k => (DropAt + l \in done'[t] <=> DropAt + l \in done[t])
    BY <1>2, <1>3, <1>7
  <2>8. reg[t][result] = 1 => reg'[t][Value(o)] = 1
    <3>1. reg[t][result] = 1 => 1 \in done[o]
      BY <2>1 DEF Dropped
    <3> QED BY <2>1, <2>4, <3>1
  <2>9. SelfOrdering(target) =>
          \A u \in Thread : \A l \in 1 .. N - 1 :
            DropAt + l \in done'[u] =>
              /\ DropAt \in done'[u]
              /\ reg'[u][result] = 1 => reg'[u][Value(Other(u, l))] = 1
    <3> SUFFICES ASSUME SelfOrdering(target), NEW u \in Thread, NEW l \in 1 .. N - 1,
                        DropAt + l \in done'[u]
                 PROVE  /\ DropAt \in done'[u]
                        /\ reg'[u][result] = 1 => reg'[u][Value(Other(u, l))] = 1
      OBVIOUS
    <3>1. CASE u # t
      BY <1>2, <2>4, <3>1
    <3>2. CASE u = t /\ l # k
      BY <2>4, <2>5, <2>7, <3>2
    <3>3. CASE u = t /\ l = k
      BY <1>7, <2>4, <2>5, <2>8, <3>3 DEF o
    <3> QED BY <3>1, <3>2, <3>3
  <2> QED BY <1>1, <1>2, <1>3, <1>7, <2>4, <2>5, <2>6, <2>9
<1> QED
  <2>1. target \in Targets
    OBVIOUS
  <2> HIDE DEF LastPutInv, Typed
  <2> QED BY <1>5, <1>6, <1>7, <2>1, LastPutSteps

\* The threads drop their references in that way.
LEMMA LastPutHolds == OrderingSpec => [](Putting => LastPutInv)
<1>1. OrderingInit => (Putting => LastPutInv)
  BY LastPutInit
<1>2. (Putting => LastPutInv) /\ [OrderingNext]_orderingVars => (Putting => LastPutInv)'
  <2> SUFFICES ASSUME Putting => LastPutInv, [OrderingNext]_orderingVars, Putting'
               PROVE  LastPutInv'
    OBVIOUS
  <2>1. CASE UNCHANGED orderingVars
    BY <2>1 DEF orderingVars, Putting, LastPutInv, Typed, Dropped, DropAt, IsX86, SelfOrdering
  <2>2. ASSUME NEW t \in Thread, NEW i \in 1 .. Len(Code(t)), Perform(t, i)
        PROVE  LastPutInv'
    <3>1. Putting
      BY <2>2, Effects DEF Putting
    <3> QED BY <2>2, <3>1, LastPutKept
  <2> QED BY <2>1, <2>2, OrderingSteps
<1> QED BY <1>1, <1>2, PTL DEF OrderingSpec

\* The writes made before a reference was dropped, by any of any number of
\* threads, are there before the count is, on every target.
THEOREM PutFollowsWrites == OrderingSpec => []WritesPrecedePut
<1>1. (Putting => LastPutInv) => WritesPrecedePut
  BY DEF Putting, LastPutInv, WritesPrecedePut
<1> QED BY <1>1, LastPutHolds, PTL

\* The release callback sees all writes to the object, by any number of
\* threads, where the update is itself a barrier: on x86 and on ARM64.
THEOREM CallbackSeesWrites == OrderingSpec => []LastPutSeesWrites
<1>1. (Putting => LastPutInv) => LastPutSeesWrites
  <2> SUFFICES ASSUME LastPutInv, Putting, target.isa \in {"x86", "x86_64", "arm64"},
                      NEW t \in Thread, Finished(t), reg[t][result] = 1,
                      NEW u \in Thread \ {t}
               PROVE  reg[t][Value(u)] = 1
    BY DEF Putting, LastPutSeesWrites
  <2>1. PICK k \in 1 .. N - 1 : Other(t, k) = u
    BY OtherThreads
  <2>2. /\ Len(Code(t)) = DropAt + N - 1
        /\ Code(t)[DropAt + k] = ReadOther(t, k)
    BY LastPutCode
  <2>3. DropAt + k \in 1 .. Len(Code(t))
    BY <2>2, SeveralThreads DEF DropAt
  <2>4. IsAccess(Code(t)[DropAt + k])
    BY <2>2, Loads DEF ReadOther, IsAccess
  <2>5. DropAt + k \in done[t]
    BY <2>3, <2>4 DEF Finished
  <2>6. SelfOrdering(target)
    BY DEF SelfOrdering, IsX86
  <2> QED BY <2>1, <2>5, <2>6 DEF LastPutInv
<1> QED BY <1>1, LastPutHolds, PTL
==============================================================================

----------------------------- MODULE Aref_proofs -----------------------------
(***************************************************************************)
(* The object of aref.h is released once, and not while somebody holds a   *)
(* reference, for every set of threads and every number of references that *)
(* the count can represent.                                                *)
(*                                                                         *)
(* The inductive invariant adds to the type invariant that the count is    *)
(* the number of references that are held (Counted), and that only the     *)
(* death of the last of them starts a release (OnceDead).                  *)
(***************************************************************************)
EXTENDS Aref, FiniteSetTheorems, TLAPS

Counted == count = Cardinality(Live)

OnceDead ==
  /\ Live # {} => releasing = {} /\ released = 0
  /\ Live = {} => \/ released = 1 /\ releasing = {}
                  \/ released = 0 /\ \E t \in Threads : releasing = {t}

IInv == TypeOK /\ Counted /\ OnceDead /\ SoleOwner

\* The count can represent every set of references.
LEMMA LiveFits ==
  /\ IsFiniteSet(Live)
  /\ Cardinality(Live) \in 0 .. WordSize - 1
  /\ Cardinality(Live) = 0 <=> Live = {}
<1>1. IsFiniteSet(Refs) /\ Live \subseteq Refs
  BY ArefAssumption DEF Live
<1>2. /\ IsFiniteSet(Live)
      /\ Cardinality(Live) <= Cardinality(Refs)
      /\ Cardinality(Live) \in Nat
      /\ Cardinality(Refs) \in Nat
  BY <1>1, FS_Subset, FS_CardinalityType
<1> QED BY <1>2, FS_EmptySet, ArefAssumption

\* Taking a reference adds one to the count of the live ones.
LEMMA LiveGrows ==
  ASSUME TypeOK, NEW t \in Threads, NEW r \in Refs \ Live,
         holder' = [holder EXCEPT ![r] = t]
  PROVE  /\ Live' = Live \cup {r}
         /\ Cardinality(Live') = Cardinality(Live) + 1
         /\ Cardinality(Live) + 1 < WordSize
<1>1. Live' = Live \cup {r}
  BY NobodyAssumption DEF TypeOK, Live
<1>2. Cardinality(Live \cup {r}) = Cardinality(Live) + 1
  BY LiveFits, FS_AddElement
<1>3. IsFiniteSet(Refs) /\ Live \cup {r} \subseteq Refs
  BY ArefAssumption DEF Live
<1>4. Cardinality(Live \cup {r}) <= Cardinality(Refs)
  BY <1>3, FS_Subset
<1>5. Cardinality(Refs) \in Nat /\ Cardinality(Live) \in Nat
  BY <1>3, LiveFits, FS_CardinalityType
<1> QED BY <1>1, <1>2, <1>4, <1>5, ArefAssumption

\* Dropping one takes one away.
LEMMA LiveShrinks ==
  ASSUME TypeOK, NEW t \in Threads, NEW r \in Refs, holder[r] = t,
         holder' = [holder EXCEPT ![r] = Nobody]
  PROVE  /\ r \in Live
         /\ Live' = Live \ {r}
         /\ Cardinality(Live') = Cardinality(Live) - 1
<1>1. r \in Live /\ Live' = Live \ {r}
  BY NobodyAssumption DEF TypeOK, Live
<1>2. Cardinality(Live \ {r}) = Cardinality(Live) - 1
  BY <1>1, LiveFits, FS_RemoveElement
<1> QED BY <1>1, <1>2

\* Initially one thread holds one reference, and the count is 1.
LEMMA IInvInit == Init => IInv
<1> SUFFICES ASSUME Init PROVE IInv
  OBVIOUS
<1> PICK r \in Refs, t \in Threads :
      holder = [q \in Refs |-> IF q = r THEN t ELSE Nobody]
  BY DEF Init
<1>1. Live = {r}
  BY NobodyAssumption DEF Live
<1>2. Cardinality(Live) = 1
  BY <1>1, FS_Singleton
<1>3. 1 \in 0 .. WordSize - 1 /\ 1 % WordSize = 1 /\ 0 \in 0 .. WordSize - 1
  BY <1>2, LiveFits, ArefAssumption
<1>4. TypeOK
  BY <1>3 DEF Init, TypeOK
<1> QED
  BY <1>1, <1>2, <1>3, <1>4 DEF Init, IInv, Counted, OnceDead, SoleOwner

LEMMA GetStep ==
  ASSUME IInv, NEW t \in Threads, aref_get(t)
  PROVE  IInv'
<1> PICK r \in Refs \ Live : holder' = [holder EXCEPT ![r] = t]
  BY DEF aref_get
<1>1. /\ Live' = Live \cup {r}
      /\ Cardinality(Live') = Cardinality(Live) + 1
      /\ Cardinality(Live) + 1 < WordSize
  BY LiveGrows DEF IInv
<1>2. count' = Cardinality(Live) + 1 /\ count' \in 0 .. WordSize - 1
  BY <1>1, LiveFits, ArefAssumption DEF aref_get, IInv, Counted
<1>3. TypeOK'
  <2>1. 0 \in 0 .. WordSize - 1
    BY ArefAssumption DEF IInv, TypeOK
  <2>2. holder' \in [Refs -> Threads \cup {Nobody}]
    BY DEF IInv, TypeOK, Live
  <2> QED BY <1>2, <2>1, <2>2 DEF aref_get, IInv, TypeOK
<1>4. Live # {}
  BY NobodyAssumption DEF aref_get, Holds, Live
<1>5. SoleOwner'
  <2> SUFFICES ASSUME NEW u \in Threads, seen'[u] = 1, NEW q \in Live'
               PROVE  holder'[q] = u
    BY DEF SoleOwner
  <2>1. u # t /\ seen[u] = 1
    BY DEF aref_get, IInv, TypeOK
  <2>2. PICK p \in Refs : holder[p] = t
    BY DEF aref_get, Holds
  <2>3. p \in Live
    BY <2>2, NobodyAssumption DEF Live
  <2>4. FALSE
    BY <2>1, <2>2, <2>3 DEF IInv, SoleOwner
  <2> QED BY <2>4
<1> QED BY <1>1, <1>2, <1>3, <1>4, <1>5 DEF aref_get, IInv, Counted, OnceDead

LEMMA PutStep ==
  ASSUME IInv, NEW t \in Threads, aref_put(t)
  PROVE  IInv'
<1> PICK r \in Refs : holder[r] = t /\ holder' = [holder EXCEPT ![r] = Nobody]
  BY DEF aref_put
<1>1. /\ r \in Live
      /\ Live' = Live \ {r}
      /\ Cardinality(Live') = Cardinality(Live) - 1
  BY LiveShrinks DEF IInv
<1>2. count = Cardinality(Live) /\ count \in 1 .. WordSize - 1
  BY <1>1, LiveFits DEF IInv, Counted
<1>3. count' = count - 1 /\ count' \in 0 .. WordSize - 1
  BY <1>2, ArefAssumption DEF aref_put
<1>4. TypeOK'
  <2>1. 0 \in 0 .. WordSize - 1
    BY ArefAssumption DEF IInv, TypeOK
  <2>2. holder' \in [Refs -> Threads \cup {Nobody}]
    BY DEF IInv, TypeOK
  <2>3. releasing' \subseteq Threads
    BY DEF aref_put, IInv, TypeOK
  <2> QED BY <1>3, <2>1, <2>2, <2>3 DEF aref_put, IInv, TypeOK
<1>5. count = 1 <=> Live' = {}
  <2>1. IsFiniteSet(Live')
    BY <1>1, LiveFits, FS_Subset
  <2>2. Cardinality(Live') = 0 <=> Live' = {}
    BY <2>1, FS_EmptySet
  <2> QED BY <1>1, <1>2, <2>2
<1>6. OnceDead'
  BY <1>1, <1>5 DEF aref_put, IInv, OnceDead
<1>7. SoleOwner'
  <2> SUFFICES ASSUME NEW u \in Threads, seen'[u] = 1, NEW q \in Live'
               PROVE  holder'[q] = u
    BY DEF SoleOwner
  <2>1. u # t /\ seen[u] = 1
    BY DEF aref_put, IInv, TypeOK
  <2> QED BY <2>1, <1>1 DEF IInv, SoleOwner
<1> QED BY <1>1, <1>2, <1>3, <1>4, <1>6, <1>7 DEF IInv, Counted

LEMMA IInvStep == IInv /\ [Next]_vars => IInv'
<1> SUFFICES ASSUME IInv, [Next]_vars PROVE IInv'
  OBVIOUS
<1>1. CASE UNCHANGED vars
  BY <1>1 DEF vars, IInv, TypeOK, Counted, OnceDead, SoleOwner, Live
<1>2. ASSUME NEW t \in Threads, release(t) PROVE IInv'
  <2>1. Live' = Live
    BY <1>2 DEF release, Live
  <2>2. Live = {} /\ released = 0 /\ releasing = {t}
    BY <1>2 DEF release, IInv, OnceDead
  <2> QED
    BY <1>2, <2>1, <2>2 DEF release, IInv, TypeOK, Counted, OnceDead, SoleOwner
<1>3. ASSUME NEW t \in Threads, aref_count(t) PROVE IInv'
  <2>1. Live' = Live
    BY <1>3 DEF aref_count, Live
  <2>2. TypeOK' /\ Counted' /\ OnceDead'
    BY <1>3, <2>1 DEF aref_count, IInv, TypeOK, Counted, OnceDead
  <2>3. SoleOwner'
    <3> SUFFICES ASSUME NEW u \in Threads, seen'[u] = 1, NEW q \in Live
                 PROVE  holder[q] = u
      BY <1>3, <2>1 DEF SoleOwner, aref_count
    <3>1. CASE u # t
      BY <1>3, <3>1 DEF aref_count, IInv, TypeOK, SoleOwner
    <3>2. CASE u = t
      <4>1. PICK p \in Refs : holder[p] = t
        BY <1>3 DEF aref_count, Holds
      <4>2. p \in Live
        BY <4>1, NobodyAssumption DEF Live
      <4>3. Cardinality(Live) = 1
        BY <1>3, <3>2 DEF aref_count, IInv, TypeOK, Counted
      <4>4. PICK x : Live = {x}
        BY <4>3, LiveFits, FS_Singleton
      <4> QED BY <3>2, <4>1, <4>2, <4>4
    <3> QED BY <3>1, <3>2
  <2> QED BY <2>2, <2>3 DEF IInv
<1>4. ASSUME NEW t \in Threads, HandOver(t) PROVE IInv'
  <2> PICK r \in Refs, u \in Threads \ {t} :
        holder[r] = t /\ holder' = [holder EXCEPT ![r] = u]
    BY <1>4 DEF HandOver
  <2>1. r \in Live /\ Live' = Live
    BY NobodyAssumption DEF IInv, TypeOK, Live
  <2>2. 0 \in 0 .. WordSize - 1
    BY ArefAssumption DEF IInv, TypeOK
  <2>3. TypeOK' /\ Counted' /\ OnceDead'
    <3>1. TypeOK'
      BY <1>4, <2>2 DEF HandOver, IInv, TypeOK
    <3> QED BY <1>4, <2>1, <3>1 DEF HandOver, IInv, Counted, OnceDead
  <2>4. SoleOwner'
    <3> SUFFICES ASSUME NEW v \in Threads, seen'[v] = 1, NEW q \in Live
                 PROVE  holder'[q] = v
      BY <2>1 DEF SoleOwner
    <3>1. v # t /\ seen[v] = 1
      BY <1>4 DEF HandOver, IInv, TypeOK
    <3>2. FALSE
      BY <2>1, <3>1 DEF IInv, SoleOwner
    <3> QED BY <3>2
  <2> QED BY <2>3, <2>4 DEF IInv
<1> QED
  BY <1>1, <1>2, <1>3, <1>4, GetStep, PutStep DEF Next

LEMMA Invariance == Spec => []IInv
BY IInvInit, IInvStep, PTL DEF Spec

\* The variables of aref.h keep their types: the count stays a word.
THEOREM TypeCorrect == Spec => []TypeOK
<1>1. IInv => TypeOK
  BY DEF IInv
<1> QED BY Invariance, <1>1, PTL

\* aref_put does not release an object that somebody holds.
THEOREM NeverReleasedEarly == Spec => []NoEarlyRelease
<1>1. IInv => NoEarlyRelease
  BY DEF IInv, OnceDead, NoEarlyRelease
<1> QED BY Invariance, <1>1, PTL

\* aref_put releases an object at most once, whoever drops references.
THEOREM NeverReleasedTwice == Spec => []ReleasedOnce
<1>1. IInv => ReleasedOnce
  <2> SUFFICES ASSUME IInv PROVE ReleasedOnce
    OBVIOUS
  <2>1. Cardinality({}) = 0 /\ \A t \in Threads : Cardinality({t}) = 1
    BY FS_EmptySet, FS_Singleton
  <2> QED BY <2>1 DEF IInv, OnceDead, ReleasedOnce
<1> QED BY Invariance, <1>1, PTL

\* A holder that reads a count of 1 from aref_count is the only holder.
THEOREM OneMeansAlone == Spec => []SoleOwner
<1>1. IInv => SoleOwner
  BY DEF IInv
<1> QED BY Invariance, <1>1, PTL
=============================================================================

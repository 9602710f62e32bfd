-------------------------- MODULE LinkedList_proofs --------------------------
(***************************************************************************)
(* The rings of list.h, for every set of lists and items, whatever the     *)
(* callers add and remove and whatever loops are running.                  *)
(*                                                                         *)
(* WellLinked is inductive together with the types of the pointers: the    *)
(* stale pointers of a removed node are harmless because no linked node    *)
(* points to it and list_add_* overwrites both of them.  But it would hold *)
(* of pointers that lead round in small circles, too.  What the loops and  *)
(* the contents of the lists need is the second invariant, LoopsInRings:   *)
(* there are sequences of items that the pointers go through one by one,   *)
(* and the loop has its place in the one of its list.                      *)
(***************************************************************************)
EXTENDS LinkedList, NaturalFacts, SequenceTheorems

Pointers ==
  /\ next \in [Nodes -> Nodes]
  /\ prev \in [Nodes -> Nodes]
  /\ owner \in [Items -> Lists \cup {NoList}]

IInv == Pointers /\ WellLinked

\* A list head is no item; the neighbours of a linked node are nodes.
LEMMA NodeFacts ==
  ASSUME Pointers
  PROVE  /\ \A l \in Lists : l \in Nodes /\ l \in Linked /\ ListOf(l) = l
         /\ \A x \in Items : /\ x \in Nodes /\ x \notin Lists
                             /\ x \in Linked <=> owner[x] # NoList
                             /\ ListOf(x) = owner[x]
         /\ Linked \subseteq Nodes
         /\ Nodes = Lists \cup Items
BY DisjointAssumption DEF Nodes, Linked, ListOf

LEMMA IInvInit == Init => IInv
<1> SUFFICES ASSUME Init PROVE IInv
  OBVIOUS
<1>1. Pointers
  BY DEF Init, Pointers, Nodes
<1>2. Linked = Lists
  BY DEF Init, Linked
<1> QED BY <1>1, <1>2 DEF Init, IInv, WellLinked, Nodes, ListOf

\* Insertion between two linked neighbours a and b, where a new node goes
\* into the list of a.
LEMMA Insertion ==
  ASSUME IInv, NEW l \in Lists, NEW item \in Items, owner[item] = NoList,
         NEW a \in Linked, ListOf(a) = l, NEW b \in Linked, next[a] = b,
         next' = [next EXCEPT ![item] = b, ![a] = item],
         prev' = [prev EXCEPT ![item] = a, ![b] = item],
         owner' = [owner EXCEPT ![item] = l]
  PROVE  IInv'
<1>1. /\ a \in Nodes /\ b \in Nodes /\ item \in Nodes /\ item \notin Lists
      /\ a # item /\ b # item /\ prev[b] = a /\ ListOf(b) = l
  BY NodeFacts DEF IInv, WellLinked
<1>2. Pointers'
  BY <1>1 DEF IInv, Pointers
<1>3. Linked' = Linked \cup {item}
  BY NoneAssumption DEF IInv, Pointers, Linked
<1>4. ListOf(item)' = l /\ \A x \in Linked : ListOf(x)' = ListOf(x)
  BY <1>1, NodeFacts DEF IInv, Pointers, ListOf
<1>5. /\ next'[item] = b /\ next'[a] = item
      /\ prev'[item] = a /\ prev'[b] = item
      /\ \A x \in Nodes \ {item, a} : next'[x] = next[x]
      /\ \A x \in Nodes \ {item, b} : prev'[x] = prev[x]
  BY <1>1 DEF IInv, Pointers
<1>6. \A x \in Linked \ Lists : owner'[x] = owner[x]
  BY <1>1, NodeFacts DEF IInv, Pointers
<1>7. WellLinked'
  <2> SUFFICES ASSUME NEW x \in Linked'
      PROVE /\ next'[x] \in Linked' /\ ListOf(next[x])' = ListOf(x)' /\ prev'[next'[x]] = x
            /\ prev'[x] \in Linked' /\ ListOf(prev[x])' = ListOf(x)' /\ next'[prev'[x]] = x
    BY DEF WellLinked
  <2>1. CASE x = item
    BY <1>1, <1>3, <1>4, <1>5, <2>1
  <2>2. CASE x \in Linked
    <3>1. /\ x # item /\ x \in Nodes /\ next[x] \in Linked /\ prev[x] \in Linked
          /\ prev[next[x]] = x /\ next[prev[x]] = x
      BY <2>2, NodeFacts DEF IInv, WellLinked
    <3>2. /\ next[x] # item /\ prev[x] # item
          /\ next[x] \in Nodes /\ prev[x] \in Nodes
      BY <3>1, NodeFacts DEF IInv
    <3>3. next'[x] \in Linked' /\ ListOf(next[x])' = ListOf(x)' /\ prev'[next'[x]] = x
      <4>1. CASE x = a
        BY <4>1, <1>1, <1>3, <1>4, <1>5
      <4>2. CASE x # a
        <5>1. next'[x] = next[x] /\ next[x] # b
          BY <4>2, <3>1, <1>1, <1>5, <2>2 DEF IInv, WellLinked
        <5>2. ListOf(next[x])' = ListOf(x)'
          BY <5>1, <3>1, <2>2, <1>4, <1>6 DEF IInv, WellLinked, ListOf
        <5>3. next'[x] \in Linked'
          BY <5>1, <3>1, <1>3
        <5>4. next[x] \in Nodes \ {item, b}
          BY <5>1, <3>2
        <5>5. prev'[next'[x]] = x
          BY <5>1, <5>4, <3>1, <1>5
        <5> QED BY <5>2, <5>3, <5>5
      <4> QED BY <4>1, <4>2
    <3>4. prev'[x] \in Linked' /\ ListOf(prev[x])' = ListOf(x)' /\ next'[prev'[x]] = x
      <4>1. CASE x = b
        BY <4>1, <1>1, <1>3, <1>4, <1>5
      <4>2. CASE x # b
        <5>1. prev'[x] = prev[x] /\ prev[x] # a
          BY <4>2, <3>1, <1>1, <1>5, <2>2 DEF IInv, WellLinked
        <5>2. ListOf(prev[x])' = ListOf(x)'
          BY <5>1, <3>1, <2>2, <1>4, <1>6 DEF IInv, WellLinked, ListOf
        <5>3. prev'[x] \in Linked'
          BY <5>1, <3>1, <1>3
        <5>4. prev[x] \in Nodes \ {item, a}
          BY <5>1, <3>2
        <5>5. next'[prev'[x]] = x
          BY <5>1, <5>4, <3>1, <1>5
        <5> QED BY <5>2, <5>3, <5>5
      <4> QED BY <4>1, <4>2
    <3> QED BY <3>3, <3>4
  <2> QED BY <1>3, <2>1, <2>2
<1> QED BY <1>2, <1>7 DEF IInv

LEMMA AddTailStep ==
  ASSUME IInv, NEW l \in Lists, NEW item \in Items, list_add_tail(l, item)
  PROVE  IInv'
<1>1. /\ l \in Linked /\ ListOf(l) = l
      /\ prev[l] \in Linked /\ ListOf(prev[l]) = l /\ next[prev[l]] = l
  BY NodeFacts DEF IInv, WellLinked
<1> QED BY <1>1, Insertion DEF list_add_tail, MayAdd

LEMMA AddHeadStep ==
  ASSUME IInv, NEW l \in Lists, NEW item \in Items, list_add_head(l, item)
  PROVE  IInv'
<1>1. l \in Linked /\ ListOf(l) = l /\ next[l] \in Linked
  BY NodeFacts DEF IInv, WellLinked
<1> QED BY <1>1, Insertion DEF list_add_head, MayAdd

LEMMA RemoveStep ==
  ASSUME IInv, NEW item \in Nodes, list_remove(item), item \in Items
  PROVE  IInv'
<1> DEFINE a == prev[item]
           b == next[item]
<1>1. /\ item \in Linked /\ item \in Nodes /\ item \notin Lists
      /\ a \in Linked /\ b \in Linked /\ a \in Nodes /\ b \in Nodes
      /\ ListOf(a) = owner[item] /\ ListOf(b) = owner[item]
      /\ next[a] = item /\ prev[b] = item
  BY NodeFacts DEF IInv, WellLinked, list_remove, MayRemove
<1>2. Pointers'
  BY <1>1 DEF IInv, Pointers, list_remove, Unlink
<1>3. Linked' = Linked \ {item}
  BY <1>1 DEF IInv, Pointers, Linked, list_remove
<1>4. \A x \in Linked \ {item} : ListOf(x)' = ListOf(x)
  BY <1>1, NodeFacts DEF IInv, Pointers, ListOf, list_remove
<1>5. /\ next'[a] = b /\ prev'[b] = a
      /\ \A x \in Nodes \ {a} : next'[x] = next[x]
      /\ \A x \in Nodes \ {b} : prev'[x] = prev[x]
  BY <1>1 DEF IInv, Pointers, list_remove, Unlink
<1>6. \A x \in (Linked \ {item}) \ Lists : owner'[x] = owner[x]
  BY <1>1, NodeFacts DEF IInv, Pointers, list_remove
<1>7. WellLinked'
  <2> SUFFICES ASSUME NEW x \in Linked \ {item}
      PROVE /\ next'[x] \in Linked' /\ ListOf(next[x])' = ListOf(x)' /\ prev'[next'[x]] = x
            /\ prev'[x] \in Linked' /\ ListOf(prev[x])' = ListOf(x)' /\ next'[prev'[x]] = x
    BY <1>3 DEF WellLinked
  <2>1. /\ x # item /\ x \in Nodes /\ x \in Linked
        /\ next[x] \in Linked /\ prev[x] \in Linked
        /\ next[x] \in Nodes /\ prev[x] \in Nodes
        /\ next[prev[x]] = x /\ prev[next[x]] = x
        /\ ListOf(next[x]) = ListOf(x) /\ ListOf(prev[x]) = ListOf(x)
    BY NodeFacts DEF IInv, WellLinked
  <2>2. next'[x] \in Linked' /\ ListOf(next[x])' = ListOf(x)' /\ prev'[next'[x]] = x
    <3>1. CASE x = a
      <4>1. next'[x] = b /\ b # item
        BY <3>1, <2>1, <1>1, <1>5
      <4>2. ListOf(next[x])' = ListOf(x)'
        BY <4>1, <3>1, <2>1, <1>1, <1>6 DEF ListOf
      <4> QED BY <4>1, <4>2, <3>1, <1>1, <1>3, <1>5
    <3>2. CASE x # a
      <4>1. next'[x] = next[x] /\ next[x] # b /\ next[x] # item
        BY <3>2, <2>1, <1>1, <1>5
      <4>2. ListOf(next[x])' = ListOf(x)'
        BY <4>1, <2>1, <1>6 DEF ListOf
      <4> QED BY <4>1, <4>2, <2>1, <1>3, <1>5
    <3> QED BY <3>1, <3>2
  <2>3. prev'[x] \in Linked' /\ ListOf(prev[x])' = ListOf(x)' /\ next'[prev'[x]] = x
    <3>1. CASE x = b
      <4>1. prev'[x] = a /\ a # item
        BY <3>1, <2>1, <1>1, <1>5
      <4>2. ListOf(prev[x])' = ListOf(x)'
        BY <4>1, <3>1, <2>1, <1>1, <1>6 DEF ListOf
      <4> QED BY <4>1, <4>2, <3>1, <1>1, <1>3, <1>5
    <3>2. CASE x # b
      <4>1. prev'[x] = prev[x] /\ prev[x] # a /\ prev[x] # item
        BY <3>2, <2>1, <1>1, <1>5
      <4>2. ListOf(prev[x])' = ListOf(x)'
        BY <4>1, <2>1, <1>6 DEF ListOf
      <4> QED BY <4>1, <4>2, <2>1, <1>3, <1>5
    <3> QED BY <3>1, <3>2
  <2> QED BY <2>2, <2>3
<1> QED BY <1>2, <1>7 DEF IInv

\* A step of a loop touches no pointer.
LEMMA LoopStep ==
  ASSUME IInv, UNCHANGED <<next, prev, owner>>
  PROVE  IInv'
BY DEF IInv, Pointers, WellLinked, Linked, ListOf

LEMMA IInvStep == IInv /\ [Next]_vars => IInv'
<1> SUFFICES ASSUME IInv, [Next]_vars PROVE IInv'
  OBVIOUS
<1>1. CASE UNCHANGED vars
  BY <1>1, LoopStep DEF vars
<1>2. ASSUME NEW l \in Lists, Pop(l) PROVE IInv'
  <2>1. PICK x \in {list_head(l), list_tail(l)} : list_remove(x)
    BY <1>2 DEF Pop
  <2>2. /\ next[l] # l /\ l \in Linked /\ l \in Nodes
        /\ next[l] \in Linked /\ ListOf(next[l]) = l /\ prev[next[l]] = l
        /\ prev[l] \in Linked /\ ListOf(prev[l]) = l /\ next[prev[l]] = l
    BY <1>2, NodeFacts DEF Pop, list_empty, IInv, WellLinked
  <2>3. next[l] \in Items /\ prev[l] \in Items
    BY <2>2, NodeFacts DEF IInv, Linked, ListOf
  <2> QED BY <2>1, <2>3, RemoveStep, NodeFacts DEF list_head, list_tail, IInv
<1>3. ASSUME NEW l \in Lists, NEW kind, Start(kind, l) PROVE IInv'
  BY <1>3, LoopStep DEF Start
<1>4. ASSUME Advance \/ Leave PROVE IInv'
  BY <1>4, LoopStep
  DEF Advance, Leave, list_for_each, list_for_each_reverse, list_for_each_safe
<1>5. ASSUME NEW x \in Items, list_remove(x) PROVE IInv'
  BY <1>5, RemoveStep, NodeFacts DEF IInv
<1> QED
  BY <1>1, <1>2, <1>3, <1>4, <1>5, AddTailStep, AddHeadStep DEF Next

\* The two pointers of linked nodes stay inverse to each other, inside one
\* list: what list_add_tail, list_add_head and list_remove rely on when they
\* write through a neighbour, and what makes every loop find its way.
THEOREM WellLinkedHolds == Spec => []WellLinked
<1>1. IInv => WellLinked
  BY DEF IInv
<1> QED BY IInvInit, IInvStep, <1>1, PTL DEF Spec
-----------------------------------------------------------------------------
(* The rings.  Where WellLinked is about neighbours, this is about the way *)
(* round a list: the sequences of items that the pointers represent.       *)

\* The nodes of the ring of list l with items s, from the head on.
At(l, s, k) == IF k \in 1 .. Len(s) THEN s[k] ELSE l

\* s are the items of list l, each of them once, and the pointers lead from
\* each node of its ring to the next one and back.
Ring(l, s) ==
  /\ s \in Seq(Items)
  /\ \A i, j \in 1 .. Len(s) : s[i] = s[j] => i = j
  /\ Members(l) = {s[k] : k \in 1 .. Len(s)}
  /\ \A k \in 0 .. Len(s) :
       next[At(l, s, k)] = At(l, s, k + 1) /\ prev[At(l, s, k + 1)] = At(l, s, k)

Rings(c) == c \in [Lists -> Seq(Items)] /\ \A l \in Lists : Ring(l, c[l])

LEMMA RingFacts ==
  ASSUME NEW l \in Lists, NEW s, Ring(l, s)
  PROVE  /\ Len(s) \in Nat /\ l \notin Items
         /\ \A k \in 1 .. Len(s) : s[k] \in Items /\ owner[s[k]] = l
         /\ \A x \in Items : owner[x] = l => \E k \in 1 .. Len(s) : s[k] = x
         /\ At(l, s, 0) = l /\ At(l, s, Len(s) + 1) = l
         /\ \A k \in 1 .. Len(s) : At(l, s, k) = s[k]
         /\ \A i, j \in 0 .. Len(s) : At(l, s, i) = At(l, s, j) => i = j
         /\ \A i, j \in 1 .. Len(s) + 1 : At(l, s, i) = At(l, s, j) => i = j
<1>1. Len(s) \in Nat /\ l \notin Items
  BY LenProperties, DisjointAssumption DEF Ring
<1>2. \A k \in 1 .. Len(s) : s[k] \in Items
  BY ElementOfSeq DEF Ring
<1>3. /\ \A k \in 1 .. Len(s) : owner[s[k]] = l
      /\ \A x \in Items : owner[x] = l => \E k \in 1 .. Len(s) : s[k] = x
  BY DEF Ring, Members
<1>4. /\ At(l, s, 0) = l /\ At(l, s, Len(s) + 1) = l
      /\ \A k \in 1 .. Len(s) : At(l, s, k) = s[k]
  BY <1>1 DEF At
<1>5. \A k \in 1 .. Len(s) : At(l, s, k) # l
  BY <1>1, <1>2, <1>4
<1>6. \A i, j \in 1 .. Len(s) : At(l, s, i) = At(l, s, j) => i = j
  BY <1>4 DEF Ring
<1>7. \A i \in 0 .. Len(s) : i = 0 \/ i \in 1 .. Len(s)
  BY <1>1
<1>8. \A i \in 1 .. Len(s) + 1 : i = Len(s) + 1 \/ i \in 1 .. Len(s)
  BY <1>1
<1>9. \A i, j \in 0 .. Len(s) : At(l, s, i) = At(l, s, j) => i = j
  BY <1>4, <1>5, <1>6, <1>7
<1>10. \A i, j \in 1 .. Len(s) + 1 : At(l, s, i) = At(l, s, j) => i = j
  BY <1>4, <1>5, <1>6, <1>8
<1> QED BY <1>1, <1>2, <1>3, <1>4, <1>9, <1>10

LEMMA RingsInit == Init => Rings([l \in Lists |-> <<>>])
<1> SUFFICES ASSUME Init, NEW l \in Lists PROVE Ring(l, <<>>)
  BY EmptySeq DEF Rings
<1>1. <<>> \in Seq(Items) /\ Len(<<>>) = 0
  BY EmptySeq
<1>2. Members(l) = {}
  BY NoneAssumption DEF Init, Members
<1>3. l \in Nodes /\ \A k \in 0 .. 1 : At(l, <<>>, k) = l
  BY <1>1 DEF At, Nodes
<1> QED BY <1>1, <1>2, <1>3 DEF Init, Ring

\* The items of a list are as many as the ring has.
LEMMA RingLength ==
  ASSUME NEW l \in Lists, NEW s, Ring(l, s)
  PROVE  Len(s) \in Nat /\ Cardinality(Items) \in Nat /\ Len(s) <= Cardinality(Items)
<1>1. Len(s) \in Nat /\ \A k \in 1 .. Len(s) : s[k] \in Items
  BY RingFacts
<1>2. Cardinality(Items) \in Nat
  BY FiniteAssumption, FS_CardinalityType
<1>3. IsFiniteSet(1 .. Len(s)) /\ Cardinality(1 .. Len(s)) = Len(s)
  BY <1>1, FS_Interval
<1> DEFINE f == [k \in 1 .. Len(s) |-> s[k]]
<1>4. f \in Injection(1 .. Len(s), Items)
  BY <1>1 DEF Injection, IsInjective, Ring
<1>5. Cardinality(1 .. Len(s)) <= Cardinality(Items)
  <2> HIDE DEF f
  <2> QED BY <1>3, <1>4, FiniteAssumption, FS_Injection
<1> QED BY <1>1, <1>2, <1>3, <1>5

\* A ring none of whose pointers changes stays one.
LEMMA RingFrame ==
  ASSUME NEW l \in Lists, NEW s, Ring(l, s), Members(l)' = Members(l),
         next'[l] = next[l], prev'[l] = prev[l],
         \A x \in Members(l) : next'[x] = next[x] /\ prev'[x] = prev[x]
  PROVE  Ring(l, s)'
<1>1. \A k : At(l, s, k) = l \/ At(l, s, k) \in Members(l)
  BY DEF At, Ring
<1>2. \A k : next'[At(l, s, k)] = next[At(l, s, k)] /\ prev'[At(l, s, k)] = prev[At(l, s, k)]
  BY <1>1
<1> QED BY <1>2 DEF Ring, At

\* t is s with x behind its first g elements.
Inserted(s, g, x, t) ==
  /\ t \in Seq(Items) /\ Len(t) = Len(s) + 1 /\ t[g + 1] = x
  /\ \A k \in 1 .. g : t[k] = s[k]
  /\ \A k \in g + 1 .. Len(s) : t[k + 1] = s[k]

\* t is s without its element at j.
Deleted(s, j, t) ==
  /\ t \in Seq(Items) /\ Len(t) = Len(s) - 1
  /\ \A k \in 1 .. j - 1 : t[k] = s[k]
  /\ \A k \in j .. Len(s) - 1 : t[k] = s[k + 1]

\* Insertion between two neighbours of a ring, with the assignments of
\* list_add_tail and list_add_head.
LEMMA RingInsertion ==
  ASSUME Pointers, NEW l \in Lists, NEW s, Ring(l, s),
         NEW x \in Items, owner[x] = NoList, NEW g \in 0 .. Len(s), NEW t, Inserted(s, g, x, t),
         next' = [next EXCEPT ![x] = At(l, s, g + 1), ![At(l, s, g)] = x],
         prev' = [prev EXCEPT ![x] = At(l, s, g), ![At(l, s, g + 1)] = x],
         owner' = [owner EXCEPT ![x] = l]
  PROVE  Ring(l, t)'
<1> DEFINE n == Len(s)
           a == At(l, s, g)
           b == At(l, s, g + 1)
<1>1. /\ n \in Nat /\ g \in 0 .. n /\ g + 1 \in 1 .. n + 1 /\ Len(t) = n + 1 /\ l \notin Items
  BY RingFacts DEF Inserted
<1>2. \A k \in 1 .. n : s[k] \in Items /\ s[k] # x /\ At(l, s, k) = s[k]
  BY RingFacts, NoneAssumption
<1>3. At(l, s, 0) = l /\ At(l, s, n + 1) = l
  BY RingFacts
<1>4. \A k \in 0 .. n + 1 : At(l, s, k) \in Nodes /\ At(l, s, k) # x
  <2>1. \A k \in 0 .. n + 1 : k = 0 \/ k = n + 1 \/ k \in 1 .. n
    BY <1>1
  <2> QED BY <1>1, <1>2, <1>3, <2>1 DEF Nodes
<1>5. a \in Nodes /\ b \in Nodes /\ a # x /\ b # x /\ x \in Nodes
  <2>1. g \in 0 .. n + 1 /\ g + 1 \in 0 .. n + 1
    BY <1>1
  <2> QED BY <1>4, <2>1 DEF Nodes
<1>6. /\ next'[x] = b /\ next'[a] = x /\ prev'[x] = a /\ prev'[b] = x
      /\ \A y \in Nodes : y # x /\ y # a => next'[y] = next[y]
      /\ \A y \in Nodes : y # x /\ y # b => prev'[y] = prev[y]
  BY <1>5 DEF Pointers
<1>7. /\ \A k \in 0 .. g : At(l, t, k) = At(l, s, k)
      /\ At(l, t, g + 1) = x
      /\ \A k \in g + 1 .. n + 1 : At(l, t, k + 1) = At(l, s, k)
  <2>1. ASSUME NEW k \in 0 .. g PROVE At(l, t, k) = At(l, s, k)
    <3>1. CASE k = 0
      BY <1>1, <3>1 DEF At
    <3>2. CASE k # 0
      <4>1. k \in 1 .. g /\ k \in 1 .. n /\ k \in 1 .. n + 1
        BY <1>1, <3>2
      <4> QED BY <1>1, <4>1 DEF At, Inserted
    <3> QED BY <3>1, <3>2
  <2>2. At(l, t, g + 1) = x
    BY <1>1 DEF At, Inserted
  <2>3. ASSUME NEW k \in g + 1 .. n + 1 PROVE At(l, t, k + 1) = At(l, s, k)
    <3>1. CASE k = n + 1
      <4>1. k + 1 \notin 1 .. n + 1
        BY <1>1, <3>1
      <4> QED BY <1>1, <1>3, <3>1, <4>1 DEF At
    <3>2. CASE k # n + 1
      <4>1. k \in g + 1 .. n /\ k \in 1 .. n /\ k + 1 \in 1 .. n + 1
        BY <1>1, <3>2
      <4> QED BY <1>1, <4>1 DEF At, Inserted
    <3> QED BY <3>1, <3>2
  <2> QED BY <2>1, <2>2, <2>3
<1>8. \A i, j \in 1 .. n + 1 : t[i] = t[j] => i = j
  <2> DEFINE from(i) == IF i <= g THEN i ELSE i - 1
  <2>1. \A i \in 1 .. n + 1 : i # g + 1 => from(i) \in 1 .. n /\ t[i] = s[from(i)]
    <3> SUFFICES ASSUME NEW i \in 1 .. n + 1, i # g + 1
                 PROVE  from(i) \in 1 .. n /\ t[i] = s[from(i)]
      OBVIOUS
    <3>1. CASE i <= g
      <4>1. i \in 1 .. g /\ i \in 1 .. n
        BY <1>1, <3>1
      <4> QED BY <3>1, <4>1 DEF Inserted
    <3>2. CASE ~(i <= g)
      <4>1. i - 1 \in g + 1 .. n /\ i - 1 \in 1 .. n /\ (i - 1) + 1 = i
        BY <1>1, <3>2
      <4> QED BY <3>2, <4>1 DEF Inserted
    <3> QED BY <3>1, <3>2
  <2>2. \A i, j \in 1 .. n + 1 : i # g + 1 /\ j # g + 1 /\ from(i) = from(j) => i = j
    BY <1>1
  <2>3. t[g + 1] = x
    BY DEF Inserted
  <2>4. \A i, j \in 1 .. n : s[i] = s[j] => i = j
    BY DEF Ring
  <2>5. \A i \in 1 .. n + 1 : i # g + 1 => t[i] # x
    BY <1>2, <2>1
  <2> HIDE DEF from, n
  <2> QED BY <2>1, <2>2, <2>3, <2>4, <2>5
<1>9. Members(l)' = {t[k] : k \in 1 .. n + 1}
  <2>1. Members(l)' = Members(l) \cup {x}
    BY NoneAssumption DEF Members, Pointers
  <2>2. ASSUME NEW k \in 1 .. n PROVE \E i \in 1 .. n + 1 : t[i] = s[k]
    <3>1. CASE k <= g
      <4>1. k \in 1 .. g /\ k \in 1 .. n + 1
        BY <1>1, <3>1
      <4> QED BY <4>1 DEF Inserted
    <3>2. CASE ~(k <= g)
      <4>1. k \in g + 1 .. n /\ k + 1 \in 1 .. n + 1
        BY <1>1, <3>2
      <4> QED BY <4>1 DEF Inserted
    <3> QED BY <3>1, <3>2
  <2>3. ASSUME NEW i \in 1 .. n + 1 PROVE t[i] = x \/ \E k \in 1 .. n : t[i] = s[k]
    <3>1. CASE i = g + 1
      BY <3>1 DEF Inserted
    <3>2. CASE i <= g
      <4>1. i \in 1 .. g /\ i \in 1 .. n
        BY <1>1, <3>2
      <4> QED BY <4>1 DEF Inserted
    <3>3. CASE i > g + 1
      <4>1. i - 1 \in g + 1 .. n /\ i - 1 \in 1 .. n /\ (i - 1) + 1 = i
        BY <1>1, <3>3
      <4> QED BY <4>1 DEF Inserted
    <3> QED BY <1>1, <3>1, <3>2, <3>3
  <2>4. g + 1 \in 1 .. n + 1 /\ t[g + 1] = x
    BY <1>1 DEF Inserted
  <2>5. Members(l) = {s[k] : k \in 1 .. n}
    BY DEF Ring
  <2> HIDE DEF n
  <2> QED BY <2>1, <2>2, <2>3, <2>4, <2>5
<1>10. ASSUME NEW k \in 0 .. n + 1
       PROVE  next'[At(l, t, k)] = At(l, t, k + 1) /\ prev'[At(l, t, k + 1)] = At(l, t, k)
  <2>1. CASE k < g
    <3>1. k \in 0 .. n /\ k \in 0 .. n + 1 /\ k + 1 \in 0 .. n + 1
          /\ k \in 0 .. g /\ k + 1 \in 0 .. g /\ k + 1 \in 1 .. n + 1 /\ k # g /\ k + 1 # g + 1
      BY <1>1, <2>1
    <3>2. next[At(l, s, k)] = At(l, s, k + 1) /\ prev[At(l, s, k + 1)] = At(l, s, k)
      BY <3>1 DEF Ring
    <3>3. At(l, s, k) # a /\ At(l, s, k + 1) # b
      BY <1>1, <3>1, RingFacts
    <3> HIDE DEF a, b, n
    <3> QED BY <1>4, <1>6, <1>7, <3>1, <3>2, <3>3
  <2>2. CASE k = g
    <3>1. g \in 0 .. g
      BY <1>1
    <3> QED BY <1>6, <1>7, <2>2, <3>1
  <2>3. CASE k = g + 1
    <3>1. g + 1 \in g + 1 .. n + 1
      BY <1>1
    <3> QED BY <1>6, <1>7, <2>3, <3>1
  <2>4. CASE k > g + 1
    <3> DEFINE i == k - 1
    <3>1. /\ i \in 0 .. n /\ i \in 0 .. n + 1 /\ i + 1 \in 0 .. n + 1 /\ i + 1 = k
          /\ i \in g + 1 .. n + 1 /\ i + 1 \in g + 1 .. n + 1
          /\ i # g /\ i + 1 # g + 1 /\ i + 1 \in 1 .. n + 1
      BY <1>1, <2>4
    <3> HIDE DEF i
    <3>2. next[At(l, s, i)] = At(l, s, i + 1) /\ prev[At(l, s, i + 1)] = At(l, s, i)
      BY <3>1 DEF Ring
    <3>3. At(l, s, i) # a /\ At(l, s, i + 1) # b
      BY <1>1, <3>1, RingFacts
    <3>4. At(l, t, k) = At(l, s, i) /\ At(l, t, k + 1) = At(l, s, i + 1)
      <4> HIDE DEF n
      <4> QED BY <1>7, <3>1
    <3> HIDE DEF a, b, n
    <3> QED BY <1>4, <1>6, <3>1, <3>2, <3>3, <3>4
  <2> QED BY <1>1, <2>1, <2>2, <2>3, <2>4
<1> HIDE DEF n
<1> QED BY <1>1, <1>8, <1>9, <1>10 DEF Ring, At, Inserted

\* Unlinking the item at j, with the assignments of list_remove.
LEMMA RingRemoval ==
  ASSUME Pointers, NEW l \in Lists, NEW s, Ring(l, s),
         NEW j \in 1 .. Len(s), NEW t, Deleted(s, j, t),
         next' = [next EXCEPT ![prev[s[j]]] = next[s[j]]],
         prev' = [prev EXCEPT ![next[s[j]]] = prev[s[j]]],
         owner' = [owner EXCEPT ![s[j]] = NoList]
  PROVE  Ring(l, t)'
<1> DEFINE n == Len(s)
           x == s[j]
           a == At(l, s, j - 1)
           b == At(l, s, j + 1)
<1>1. /\ n \in Nat /\ j \in 1 .. n /\ Len(t) = n - 1 /\ l \notin Items /\ x \in Items
      /\ j - 1 \in 0 .. n /\ (j - 1) + 1 = j /\ j \in 0 .. n /\ j + 1 \in 1 .. n + 1
  BY RingFacts DEF Deleted
<1>2. \A k \in 1 .. n : s[k] \in Items /\ owner[s[k]] = l /\ At(l, s, k) = s[k]
  BY RingFacts
<1>3. At(l, s, 0) = l /\ At(l, s, n + 1) = l
  BY RingFacts
<1>4. \A k \in 0 .. n + 1 : At(l, s, k) \in Nodes
  <2>1. \A k \in 0 .. n + 1 : k = 0 \/ k = n + 1 \/ k \in 1 .. n
    BY <1>1
  <2> QED BY <1>1, <1>2, <1>3, <2>1 DEF Nodes
<1>5. a \in Nodes /\ b \in Nodes /\ prev[x] = a /\ next[x] = b
  <2>1. next[At(l, s, j)] = b /\ prev[At(l, s, (j - 1) + 1)] = a
    BY <1>1 DEF Ring
  <2>2. j - 1 \in 0 .. n + 1 /\ j + 1 \in 0 .. n + 1
    BY <1>1
  <2> QED BY <1>1, <1>2, <1>4, <2>1, <2>2
<1>6. /\ next'[a] = b /\ prev'[b] = a
      /\ \A y \in Nodes : y # a => next'[y] = next[y]
      /\ \A y \in Nodes : y # b => prev'[y] = prev[y]
  <2> HIDE DEF a, b
  <2> QED BY <1>5 DEF Pointers
<1>7. /\ \A k \in 0 .. j - 1 : At(l, t, k) = At(l, s, k)
      /\ \A k \in j .. n : At(l, t, k) = At(l, s, k + 1)
  <2>1. ASSUME NEW k \in 0 .. j - 1 PROVE At(l, t, k) = At(l, s, k)
    <3>1. CASE k = 0
      BY <1>1, <3>1 DEF At
    <3>2. CASE k # 0
      <4>1. k \in 1 .. j - 1 /\ k \in 1 .. n - 1 /\ k \in 1 .. n
        BY <1>1, <3>2
      <4> QED BY <1>1, <4>1 DEF At, Deleted
    <3> QED BY <3>1, <3>2
  <2>2. ASSUME NEW k \in j .. n PROVE At(l, t, k) = At(l, s, k + 1)
    <3>1. CASE k = n
      <4>1. k \notin 1 .. n - 1
        BY <1>1, <3>1
      <4> QED BY <1>1, <1>3, <3>1, <4>1 DEF At
    <3>2. CASE k # n
      <4>1. k \in j .. n - 1 /\ k \in 1 .. n - 1 /\ k + 1 \in 1 .. n
        BY <1>1, <3>2
      <4> QED BY <1>1, <4>1 DEF At, Deleted
    <3> QED BY <3>1, <3>2
  <2> QED BY <2>1, <2>2
<1>8. /\ \A i \in 1 .. n - 1 :
           \E k \in 1 .. n : k # j /\ k = (IF i < j THEN i ELSE i + 1) /\ t[i] = s[k]
      /\ \A k \in 1 .. n : k # j => \E i \in 1 .. n - 1 : t[i] = s[k]
  <2>1. ASSUME NEW i \in 1 .. n - 1
        PROVE  \E k \in 1 .. n : k # j /\ k = (IF i < j THEN i ELSE i + 1) /\ t[i] = s[k]
    <3>1. CASE i < j
      <4>1. i \in 1 .. j - 1 /\ i \in 1 .. n /\ i # j
        BY <1>1, <3>1
      <4> QED BY <3>1, <4>1 DEF Deleted
    <3>2. CASE ~(i < j)
      <4>1. i \in j .. n - 1 /\ i + 1 \in 1 .. n /\ i + 1 # j
        BY <1>1, <3>2
      <4> QED BY <3>2, <4>1 DEF Deleted
    <3> QED BY <3>1, <3>2
  <2>2. ASSUME NEW k \in 1 .. n, k # j PROVE \E i \in 1 .. n - 1 : t[i] = s[k]
    <3>1. CASE k < j
      <4>1. k \in 1 .. j - 1 /\ k \in 1 .. n - 1
        BY <1>1, <3>1
      <4> QED BY <4>1 DEF Deleted
    <3>2. CASE ~(k < j)
      <4>1. k - 1 \in j .. n - 1 /\ k - 1 \in 1 .. n - 1 /\ (k - 1) + 1 = k
        BY <1>1, <2>2, <3>2
      <4> QED BY <4>1 DEF Deleted
    <3> QED BY <3>1, <3>2
  <2> QED BY <2>1, <2>2
<1>9. \A i, m \in 1 .. n - 1 : t[i] = t[m] => i = m
  <2> SUFFICES ASSUME NEW i \in 1 .. n - 1, NEW m \in 1 .. n - 1, t[i] = t[m]
               PROVE  i = m
    OBVIOUS
  <2>1. PICK k \in 1 .. n : k = (IF i < j THEN i ELSE i + 1) /\ t[i] = s[k]
    BY <1>8
  <2>2. PICK o \in 1 .. n : o = (IF m < j THEN m ELSE m + 1) /\ t[m] = s[o]
    BY <1>8
  <2>3. k = o
    BY <2>1, <2>2 DEF Ring
  <2> HIDE DEF n
  <2> QED BY <1>1, <2>1, <2>2, <2>3
<1>10. Members(l)' = {t[k] : k \in 1 .. n - 1}
  <2>1. Members(l)' = Members(l) \ {x}
    <3>1. owner'[x] = NoList /\ NoList # l /\ \A y \in Items : y # x => owner'[y] = owner[y]
      <4> HIDE DEF x
      <4> QED BY <1>1, NoneAssumption DEF Pointers, x
    <3> HIDE DEF x
    <3> QED BY <3>1 DEF Members
  <2>2. Members(l) = {s[k] : k \in 1 .. n}
    BY DEF Ring
  <2>3. \A k \in 1 .. n : s[k] = x <=> k = j
    BY <1>1 DEF Ring
  <2> HIDE DEF n, x
  <2>4. \A i \in 1 .. n - 1 : t[i] \in Members(l) \ {x}
    BY <1>8, <2>2, <2>3
  <2>5. ASSUME NEW y \in Members(l) \ {x} PROVE \E i \in 1 .. n - 1 : t[i] = y
    <3>1. PICK k \in 1 .. n : y = s[k]
      BY <2>2
    <3> QED BY <1>8, <2>3, <3>1
  <2> QED BY <2>1, <2>4, <2>5
<1>11. ASSUME NEW k \in 0 .. n - 1
       PROVE  next'[At(l, t, k)] = At(l, t, k + 1) /\ prev'[At(l, t, k + 1)] = At(l, t, k)
  <2>1. CASE k < j - 1
    <3>1. k \in 0 .. n /\ k \in 0 .. n + 1 /\ k + 1 \in 0 .. n + 1 /\ k + 1 \in 1 .. n + 1
          /\ k \in 0 .. j - 1 /\ k + 1 \in 0 .. j - 1 /\ k # j - 1 /\ k + 1 # j + 1
      BY <1>1, <2>1
    <3>2. next[At(l, s, k)] = At(l, s, k + 1) /\ prev[At(l, s, k + 1)] = At(l, s, k)
      BY <3>1 DEF Ring
    <3>3. At(l, s, k) # a /\ At(l, s, k + 1) # b
      <4>1. /\ \A i, m \in 0 .. n : At(l, s, i) = At(l, s, m) => i = m
            /\ \A i, m \in 1 .. n + 1 : At(l, s, i) = At(l, s, m) => i = m
        BY RingFacts
      <4>2. j - 1 \in 0 .. n /\ j + 1 \in 1 .. n + 1
        BY <1>1
      <4> HIDE DEF n
      <4> QED BY <3>1, <4>1, <4>2
    <3> HIDE DEF a, b, n
    <3> QED BY <1>4, <1>6, <1>7, <3>1, <3>2, <3>3
  <2>2. CASE k = j - 1
    <3>1. j - 1 \in 0 .. j - 1 /\ j \in j .. n
      BY <1>1
    <3>2. At(l, t, k) = a /\ At(l, t, k + 1) = b
      BY <1>1, <1>7, <2>2, <3>1
    <3> QED BY <1>6, <3>2
  <2>3. CASE k >= j
    <3>1. /\ k \in j .. n /\ k + 1 \in j .. n /\ k + 1 \in 0 .. n /\ k + 1 \in 0 .. n + 1
          /\ (k + 1) + 1 \in 0 .. n + 1 /\ (k + 1) + 1 \in 1 .. n + 1
          /\ k + 1 # j - 1 /\ (k + 1) + 1 # j + 1
      BY <1>1, <2>3
    <3>2. next[At(l, s, k + 1)] = At(l, s, (k + 1) + 1)
          /\ prev[At(l, s, (k + 1) + 1)] = At(l, s, k + 1)
      BY <3>1 DEF Ring
    <3>3. At(l, s, k + 1) # a /\ At(l, s, (k + 1) + 1) # b
      <4>1. /\ \A i, m \in 0 .. n : At(l, s, i) = At(l, s, m) => i = m
            /\ \A i, m \in 1 .. n + 1 : At(l, s, i) = At(l, s, m) => i = m
        BY RingFacts
      <4>2. j - 1 \in 0 .. n /\ j + 1 \in 1 .. n + 1
        BY <1>1
      <4> HIDE DEF n
      <4> QED BY <3>1, <4>1, <4>2
    <3> HIDE DEF a, b, n
    <3> QED BY <1>4, <1>6, <1>7, <3>1, <3>2, <3>3
  <2> QED BY <1>1, <2>1, <2>2, <2>3
<1> HIDE DEF n
<1> QED BY <1>1, <1>9, <1>10, <1>11 DEF Ring, At, Deleted
-----------------------------------------------------------------------------
(* The loops.                                                              *)

Loops ==
  [kind : {"none", "forward", "reverse", "safe"},
   list : Lists \cup {NoList}, node : Nodes \cup {NoNode}, n : Nodes \cup {NoNode},
   visited : SUBSET Nodes, twice : SUBSET Nodes, stayed : SUBSET Items]

LoopType == iter \in Loops

\* Of the items from i to j in a ring, those that were there when the loop
\* began have been visited; none has.
Covered(s, i, j) == \A k \in i .. j : s[k] \in iter.stayed => s[k] \in iter.visited
Untouched(s, i, j) == \A k \in i .. j : s[k] \notin iter.visited

\* A loop in its body has covered the items on one side of it and has not
\* come to the ones on the other; the node of a safe loop may be gone, but n
\* is where it was going.
LoopPlace(s) ==
  \/ /\ iter.kind = "forward"
     /\ \E k \in 1 .. Len(s) : /\ iter.node = s[k]
                               /\ Covered(s, 1, k) /\ Untouched(s, k + 1, Len(s))
  \/ /\ iter.kind = "reverse"
     /\ \E k \in 1 .. Len(s) : /\ iter.node = s[k]
                               /\ Covered(s, k, Len(s)) /\ Untouched(s, 1, k - 1)
  \/ /\ iter.kind = "safe"
     /\ \E k \in 1 .. Len(s) + 1 : /\ iter.n = At(iter.list, s, k)
                                   /\ Covered(s, 1, k - 1) /\ Untouched(s, k, Len(s))

LoopInv(c) ==
  /\ iter.twice = {}
  /\ iter.kind # "none" =>
       /\ iter.list \in Lists
       /\ iter.visited \subseteq Items
       /\ iter.stayed \subseteq Members(iter.list)
       /\ IF iter.node = iter.list THEN iter.stayed \subseteq iter.visited
          ELSE iter.node \in iter.visited /\ LoopPlace(c[iter.list])

\* The place of a loop when its body inserts an item it has not visited.
LEMMA PlaceInserted ==
  ASSUME NEW s, Len(s) \in Nat, NEW g \in 0 .. Len(s), NEW x, NEW t, Inserted(s, g, x, t),
         x \notin iter.visited, x \notin iter.stayed, LoopPlace(s)
  PROVE  LoopPlace(t)
<1> DEFINE n == Len(s)
           to(k) == IF k <= g THEN k ELSE k + 1
<1>1. n \in Nat /\ g \in 0 .. n /\ Len(t) = n + 1 /\ t[g + 1] = x
  BY DEF Inserted
<1>2. \A k \in 1 .. n : to(k) \in 1 .. n + 1 /\ t[to(k)] = s[k]
  <2> SUFFICES ASSUME NEW k \in 1 .. n PROVE to(k) \in 1 .. n + 1 /\ t[to(k)] = s[k]
    OBVIOUS
  <2>1. CASE k <= g
    <3>1. k \in 1 .. g /\ k \in 1 .. n + 1
      BY <1>1, <2>1
    <3> QED BY <2>1, <3>1 DEF Inserted
  <2>2. CASE ~(k <= g)
    <3>1. k \in g + 1 .. n /\ k + 1 \in 1 .. n + 1
      BY <1>1, <2>2
    <3> QED BY <2>2, <3>1 DEF Inserted
  <2> QED BY <2>1, <2>2
<1>3. \A i \in 1 .. n + 1 : i = g + 1 \/ \E k \in 1 .. n : i = to(k)
  <2> SUFFICES ASSUME NEW i \in 1 .. n + 1, i # g + 1 PROVE \E k \in 1 .. n : i = to(k)
    OBVIOUS
  <2>1. CASE i <= g
    <3>1. i \in 1 .. n /\ to(i) = i
      BY <1>1, <2>1
    <3> QED BY <3>1
  <2>2. CASE i > g + 1
    <3>1. i - 1 \in 1 .. n /\ to(i - 1) = i
      BY <1>1, <2>2
    <3> QED BY <3>1
  <2> QED BY <1>1, <2>1, <2>2
<1>4. \A i, k \in 1 .. n + 1 : i < k <=> to(i) < to(k)
  BY <1>1
<1>5. \A k \in 1 .. n + 1 : to(k) \in 1 .. n + 2 /\ (k = n + 1 => to(k) = n + 2)
  BY <1>1
<1>6. \A l : \A k \in 1 .. n + 1 : At(l, s, k) = At(l, t, to(k))
  <2> SUFFICES ASSUME NEW l, NEW k \in 1 .. n + 1 PROVE At(l, s, k) = At(l, t, to(k))
    OBVIOUS
  <2>1. CASE k = n + 1
    <3>1. k \notin 1 .. n /\ to(k) \notin 1 .. n + 1
      BY <1>1, <1>5, <2>1
    <3> QED BY <1>1, <3>1 DEF At
  <2>2. CASE k # n + 1
    <3>1. k \in 1 .. n
      BY <1>1, <2>2
    <3> HIDE DEF to
    <3> QED BY <1>1, <1>2, <3>1 DEF At
  <2> QED BY <2>1, <2>2
<1> HIDE DEF to
\* What holds of the items between two places holds between where they went.
<1>7. ASSUME NEW i \in Int, NEW j \in Int,
             \A k \in 1 .. n : to(k) \in i .. j => (s[k] \in iter.stayed => s[k] \in iter.visited)
      PROVE  \A m \in i .. j : m \in 1 .. n + 1 => (t[m] \in iter.stayed => t[m] \in iter.visited)
  BY <1>1, <1>2, <1>3, <1>7
<1>8. ASSUME NEW i \in Int, NEW j \in Int,
             \A k \in 1 .. n : to(k) \in i .. j => s[k] \notin iter.visited
      PROVE  \A m \in i .. j : m \in 1 .. n + 1 => t[m] \notin iter.visited
  BY <1>1, <1>2, <1>3, <1>8
<1>9. \A k \in 1 .. n : k \in 1 .. n + 1
  BY <1>1
<1>10. \A k \in 1 .. n + 1 : to(k) \in Int
  BY <1>5
<1>11. CASE iter.kind = "forward"
  <2>1. PICK k \in 1 .. n : /\ iter.node = s[k]
                            /\ Covered(s, 1, k) /\ Untouched(s, k + 1, n)
    BY <1>11 DEF LoopPlace
  <2>2. \A m \in 1 .. n : to(m) \in 1 .. to(k) => m \in 1 .. k
    BY <1>1, <1>4, <1>9, <1>10
  <2>3. \A m \in 1 .. n : to(m) \in to(k) + 1 .. n + 1 => m \in k + 1 .. n
    BY <1>1, <1>4, <1>9, <1>10
  <2>4. Covered(t, 1, to(k))
    <3>1. 1 \in Int /\ to(k) \in Int /\ \A m \in 1 .. to(k) : m \in 1 .. n + 1
      BY <1>1, <1>2
    <3> HIDE DEF n
    <3>2. \A m \in 1 .. n : to(m) \in 1 .. to(k) => (s[m] \in iter.stayed => s[m] \in iter.visited)
      BY <2>1, <2>2 DEF Covered
    <3> QED BY <1>7, <3>1, <3>2 DEF Covered
  <2>5. Untouched(t, to(k) + 1, n + 1)
    <3>1. to(k) + 1 \in Int /\ n + 1 \in Int /\ \A m \in to(k) + 1 .. n + 1 : m \in 1 .. n + 1
      BY <1>1, <1>2
    <3> HIDE DEF n
    <3> QED BY <1>8, <2>1, <2>3, <3>1 DEF Untouched
  <2> HIDE DEF n
  <2> QED BY <1>1, <1>2, <1>11, <2>1, <2>4, <2>5 DEF LoopPlace
<1>12. CASE iter.kind = "reverse"
  <2>1. PICK k \in 1 .. n : /\ iter.node = s[k]
                            /\ Covered(s, k, n) /\ Untouched(s, 1, k - 1)
    BY <1>12 DEF LoopPlace
  <2>2. \A m \in 1 .. n : to(m) \in to(k) .. n + 1 => m \in k .. n
    BY <1>1, <1>4, <1>9, <1>10
  <2>3. \A m \in 1 .. n : to(m) \in 1 .. to(k) - 1 => m \in 1 .. k - 1
    BY <1>1, <1>4, <1>9, <1>10
  <2>4. Covered(t, to(k), n + 1)
    <3>1. n + 1 \in Int /\ to(k) \in Int /\ \A m \in to(k) .. n + 1 : m \in 1 .. n + 1
      BY <1>1, <1>2
    <3> HIDE DEF n
    <3> QED BY <1>7, <2>1, <2>2, <3>1 DEF Covered
  <2>5. Untouched(t, 1, to(k) - 1)
    <3>1. to(k) - 1 \in Int /\ \A m \in 1 .. to(k) - 1 : m \in 1 .. n + 1
      BY <1>1, <1>2
    <3> HIDE DEF n
    <3> QED BY <1>8, <2>1, <2>3, <3>1 DEF Untouched
  <2> HIDE DEF n
  <2> QED BY <1>1, <1>2, <1>12, <2>1, <2>4, <2>5 DEF LoopPlace
<1>13. CASE iter.kind = "safe"
  <2>1. PICK k \in 1 .. n + 1 : /\ iter.n = At(iter.list, s, k)
                                /\ Covered(s, 1, k - 1) /\ Untouched(s, k, n)
    BY <1>13 DEF LoopPlace
  <2>2. \A m \in 1 .. n : to(m) \in 1 .. to(k) - 1 => m \in 1 .. k - 1
    BY <1>1, <1>4, <1>9, <1>10
  <2>3. \A m \in 1 .. n : to(m) \in to(k) .. n + 1 => m \in k .. n
    BY <1>1, <1>4, <1>9, <1>10
  <2>4. Covered(t, 1, to(k) - 1)
    <3>1. to(k) - 1 \in Int /\ \A m \in 1 .. to(k) - 1 : m \in 1 .. n + 1
      BY <1>1, <1>5
    <3> HIDE DEF n
    <3> QED BY <1>7, <2>1, <2>2, <3>1 DEF Covered
  <2>5. Untouched(t, to(k), n + 1)
    <3>1. n + 1 \in Int /\ to(k) \in Int /\ \A m \in to(k) .. n + 1 : m \in 1 .. n + 1
      BY <1>1, <1>5
    <3> HIDE DEF n
    <3> QED BY <1>8, <2>1, <2>3, <3>1 DEF Untouched
  <2>6. to(k) \in 1 .. (n + 1) + 1
    BY <1>1, <1>5
  <2> HIDE DEF n
  <2> QED BY <1>1, <1>6, <1>13, <2>1, <2>4, <2>5, <2>6 DEF LoopPlace
<1> QED BY <1>11, <1>12, <1>13 DEF LoopPlace

\* The place of a safe loop when its body removes the current node.
LEMMA PlaceDeleted ==
  ASSUME NEW s, Len(s) \in Nat, NEW j \in 1 .. Len(s), NEW t, Deleted(s, j, t),
         LoopType, iter.kind = "safe", iter.node = s[j], iter.node \in iter.visited,
         LoopPlace(s), iter' = [iter EXCEPT !.stayed = @ \ {s[j]}]
  PROVE  LoopPlace(t)'
<1> DEFINE n == Len(s)
<1>1. n \in Nat /\ j \in 1 .. n /\ Len(t) = n - 1
  BY DEF Deleted
<1>2. PICK k \in 1 .. n + 1 : /\ iter.n = At(iter.list, s, k)
                              /\ Covered(s, 1, k - 1) /\ Untouched(s, k, n)
  BY DEF LoopPlace
<1>3. j < k
  <2> SUFFICES ASSUME j \in k .. n PROVE FALSE
    BY <1>1
  <2> QED BY <1>2 DEF Untouched
<1>4. iter'.kind = "safe" /\ iter'.n = iter.n /\ iter'.list = iter.list
      /\ iter'.visited = iter.visited /\ iter'.stayed \subseteq iter.stayed
  BY DEF LoopType, Loops
<1>5. \A m \in 1 .. n - 1 : t[m] = IF m < j THEN s[m] ELSE s[m + 1]
  <2> SUFFICES ASSUME NEW m \in 1 .. n - 1 PROVE t[m] = IF m < j THEN s[m] ELSE s[m + 1]
    OBVIOUS
  <2>1. CASE m < j
    <3>1. m \in 1 .. j - 1
      BY <1>1, <2>1
    <3> QED BY <2>1, <3>1 DEF Deleted
  <2>2. CASE ~(m < j)
    <3>1. m \in j .. n - 1
      BY <1>1, <2>2
    <3> QED BY <2>2, <3>1 DEF Deleted
  <2> QED BY <2>1, <2>2
<1>6. At(iter.list, t, k - 1) = At(iter.list, s, k)
  <2>1. CASE k = n + 1
    <3>1. k \notin 1 .. n /\ k - 1 \notin 1 .. n - 1
      BY <1>1, <2>1
    <3> QED BY <1>1, <3>1 DEF At
  <2>2. CASE k # n + 1
    <3>1. k \in 1 .. n /\ k - 1 \in 1 .. n - 1 /\ ~(k - 1 < j) /\ (k - 1) + 1 = k
      BY <1>1, <1>3, <2>2
    <3> QED BY <1>1, <1>5, <3>1 DEF At
  <2> QED BY <2>1, <2>2
<1>7. \A m \in 1 .. (k - 1) - 1 : t[m] \in iter.stayed => t[m] \in iter.visited
  <2>1. ASSUME NEW m \in 1 .. (k - 1) - 1
        PROVE  m \in 1 .. n - 1 /\ m \in 1 .. k - 1 /\ m + 1 \in 1 .. k - 1
    BY <1>1
  <2> HIDE DEF n
  <2> QED BY <1>2, <1>5, <2>1 DEF Covered
<1>8. \A m \in k - 1 .. n - 1 : t[m] \notin iter.visited
  <2>1. ASSUME NEW m \in k - 1 .. n - 1
        PROVE  m \in 1 .. n - 1 /\ ~(m < j) /\ m + 1 \in k .. n
    BY <1>1, <1>3
  <2> HIDE DEF n
  <2> QED BY <1>2, <1>5, <2>1 DEF Untouched
<1>9. k - 1 \in 1 .. (n - 1) + 1
  BY <1>1, <1>3
<1>10. Covered(t, 1, (k - 1) - 1)' /\ Untouched(t, k - 1, n - 1)'
  <2> HIDE DEF n
  <2> QED BY <1>4, <1>7, <1>8 DEF Covered, Untouched
<1> HIDE DEF n
<1>11. \E i \in 1 .. Len(t) + 1 : /\ iter'.n = At(iter'.list, t, i)
                                  /\ Covered(t, 1, i - 1)' /\ Untouched(t, i, Len(t))'
  BY <1>1, <1>2, <1>4, <1>6, <1>9, <1>10
<1> QED BY <1>4, <1>11 DEF LoopPlace, At

LEMMA ArriveFacts ==
  ASSUME NEW it \in Loops, NEW x \in Nodes, NEW after \in Nodes \cup {NoNode}
  PROVE  /\ Arrive(it, x, after) \in Loops
         /\ Arrive(it, x, after).kind = it.kind /\ Arrive(it, x, after).list = it.list
         /\ Arrive(it, x, after).node = x /\ Arrive(it, x, after).n = after
         /\ Arrive(it, x, after).stayed = it.stayed
         /\ Arrive(it, x, after).twice = it.twice \cup ({x} \cap it.visited)
         /\ Arrive(it, x, after).visited = it.visited \cup ({x} \ {it.list})
BY DEF Arrive, Loops

\* A loop that comes to position k of its ring, having covered the items on
\* one side of it and none on the other.
LEMMA ArriveStep ==
  ASSUME NEW c, Rings(c), NEW it \in Loops, NEW l \in Lists, it.list = l,
         it.twice = {}, it.visited \subseteq Items, it.stayed \subseteq Members(l),
         NEW k \in 0 .. Len(c[l]) + 1, NEW after \in Nodes \cup {NoNode},
         iter' = Arrive(it, At(l, c[l], k), after), UNCHANGED <<next, prev, owner>>,
         \/ /\ it.kind \in {"forward", "safe"} /\ k # 0
            /\ it.kind = "safe" => after = next[At(l, c[l], k)]
            /\ \A m \in 1 .. k - 1 : c[l][m] \in it.stayed => c[l][m] \in it.visited
            /\ \A m \in k .. Len(c[l]) : c[l][m] \notin it.visited
         \/ /\ it.kind = "reverse" /\ k # Len(c[l]) + 1
            /\ \A m \in k + 1 .. Len(c[l]) : c[l][m] \in it.stayed => c[l][m] \in it.visited
            /\ \A m \in 1 .. k : c[l][m] \notin it.visited
  PROVE  /\ LoopType' /\ LoopInv(c)'
         /\ iter'.node \in Linked' /\ (ListOf(iter.node) = iter.list)'
<1> DEFINE s == c[l]
           n == Len(s)
           x == At(l, s, k)
<1>1. /\ Ring(l, s) /\ n \in Nat /\ l \notin Items
      /\ \A m \in 1 .. n : s[m] \in Items /\ owner[s[m]] = l /\ At(l, s, m) = s[m]
      /\ At(l, s, 0) = l /\ At(l, s, n + 1) = l
  <2>1. Ring(l, s)
    BY DEF Rings
  <2> QED BY <2>1, RingFacts
<1>2. \A i, m \in 1 .. n : s[i] = s[m] => i = m
  BY <1>1 DEF Ring
<1>3. k \in 1 .. n \/ x = l
  BY <1>1 DEF At
<1>4. (k \in 1 .. n => x = s[k]) /\ x \in Nodes
  BY <1>1, <1>3 DEF Nodes
<1>5. /\ iter' \in Loops /\ iter'.kind = it.kind /\ iter'.list = l /\ iter'.node = x
      /\ iter'.n = after /\ iter'.stayed = it.stayed
      /\ iter'.twice = it.twice \cup ({x} \cap it.visited)
      /\ iter'.visited = it.visited \cup ({x} \ {l})
  <2>1. iter' = Arrive(it, x, after)
    OBVIOUS
  <2> HIDE DEF x
  <2> QED BY <1>4, <2>1, ArriveFacts
<1>6. k \in 1 .. n => s[k] \notin it.visited
  <2> SUFFICES ASSUME k \in 1 .. n PROVE s[k] \notin it.visited
    OBVIOUS
  <2>1. k \in 1 .. k /\ k \in k .. n
    BY <1>1
  <2> QED BY <2>1
<1>7. iter'.twice = {}
  BY <1>1, <1>3, <1>4, <1>5, <1>6
<1>8. iter'.visited \subseteq Items /\ Members(l)' = Members(l)
  BY <1>1, <1>3, <1>4, <1>5 DEF Members
<1>9. CASE x = l
  <2>1. k \notin 1 .. n
    BY <1>1, <1>4, <1>9
  <2>2. ASSUME NEW y \in it.stayed PROVE y \in it.visited
    <3>1. PICK m \in 1 .. n : s[m] = y
      BY <1>1 DEF Ring
    <3>2. it.kind = "reverse" => m \in k + 1 .. n
      BY <1>1, <2>1
    <3>3. k # 0 => m \in 1 .. k - 1
      BY <1>1, <2>1
    <3> QED BY <2>2, <3>1, <3>2, <3>3
  <2>3. l \in Linked' /\ ListOf(l)' = l
    BY DEF Linked, ListOf
  <2> HIDE DEF x
  <2> QED BY <1>5, <1>7, <1>8, <1>9, <2>2, <2>3 DEF LoopInv, LoopType
<1>10. CASE k \in 1 .. n
  <2>1. /\ x = s[k] /\ x \in Items /\ x # l /\ x \in iter'.visited
        /\ iter'.visited = it.visited \cup {x}
    BY <1>1, <1>4, <1>5, <1>10
  <2>2. owner[x] = l
    BY <1>1, <1>10, <2>1
  <2>3. x \in Linked' /\ ListOf(x)' = l
    BY <1>1, <2>1, <2>2, NoneAssumption, DisjointAssumption DEF Linked, ListOf
  <2>4. \A m \in 1 .. n : m # k => s[m] # x
    BY <1>2, <1>10, <2>1
  <2>5. CASE it.kind \in {"forward", "safe"}
    <3>1. Covered(s, 1, k)'
      <4>1. \A m \in 1 .. k : m = k \/ m \in 1 .. k - 1
        BY <1>10
      <4> HIDE DEF x, s
      <4> QED BY <1>5, <2>1, <2>5, <4>1 DEF Covered, s
    <3>2. Untouched(s, k + 1, n)'
      <4>1. \A m \in k + 1 .. n : m \in k .. n /\ m \in 1 .. n /\ m # k
        BY <1>10
      <4> HIDE DEF x
      <4> QED BY <2>1, <2>4, <2>5, <4>1 DEF Untouched
    <3>3. it.kind = "safe" => iter'.n = At(l, s, k + 1)
      <4>1. k \in 0 .. n
        BY <1>1, <1>10
      <4> QED BY <1>1, <1>5, <4>1 DEF Ring
    <3>4. k + 1 \in 1 .. n + 1 /\ (k + 1) - 1 = k
      BY <1>1, <1>10
    <3>5. LoopPlace(s)'
      <4> HIDE DEF x, n, s
      <4> QED BY <1>5, <1>10, <2>1, <2>5, <3>1, <3>2, <3>3, <3>4 DEF LoopPlace, At, n
    <3> HIDE DEF x, n
    <3> QED BY <1>5, <1>7, <1>8, <2>1, <2>3, <3>5 DEF LoopInv, LoopType
  <2>6. CASE it.kind = "reverse"
    <3>1. Covered(s, k, n)'
      <4>1. \A m \in k .. n : m = k \/ m \in k + 1 .. n
        BY <1>10
      <4> HIDE DEF x, s
      <4> QED BY <1>5, <2>1, <2>6, <4>1 DEF Covered, s
    <3>2. Untouched(s, 1, k - 1)'
      <4>1. \A m \in 1 .. k - 1 : m \in 1 .. k /\ m \in 1 .. n /\ m # k
        BY <1>1, <1>10
      <4> HIDE DEF x
      <4> QED BY <2>1, <2>4, <2>6, <4>1 DEF Untouched
    <3>3. LoopPlace(s)'
      <4> HIDE DEF x, n, s
      <4> QED BY <1>5, <1>10, <2>1, <2>6, <3>1, <3>2 DEF LoopPlace, n
    <3> HIDE DEF x, n
    <3> QED BY <1>5, <1>7, <1>8, <2>1, <2>3, <3>3 DEF LoopInv, LoopType
  <2> QED BY <2>5, <2>6
<1> QED BY <1>3, <1>9, <1>10

LEMMA StartStep ==
  ASSUME Pointers, NEW c, Rings(c), NEW l \in Lists,
         NEW kind \in {"forward", "reverse", "safe"}, Start(kind, l)
  PROVE  /\ LoopType' /\ LoopInv(c)'
         /\ iter'.node \in Linked' /\ (ListOf(iter.node) = iter.list)'
<1> DEFINE n == Len(c[l])
           it == [NoIteration EXCEPT !.kind = kind, !.list = l, !.stayed = Members(l)]
           x == First(kind, l)
           after == IF kind = "safe" THEN next[x] ELSE NoNode
<1>1. /\ Ring(l, c[l]) /\ n \in Nat /\ At(l, c[l], 0) = l /\ At(l, c[l], n + 1) = l
  <2>1. Ring(l, c[l])
    BY DEF Rings
  <2> QED BY <2>1, RingFacts
<1>2. /\ it \in Loops /\ it.kind = kind /\ it.list = l /\ it.stayed = Members(l)
      /\ it.twice = {} /\ it.visited = {}
  BY DEF NoIteration, Loops, Members
<1>3. next[l] = At(l, c[l], 1) /\ prev[l] = At(l, c[l], n)
  <2>1. 0 \in 0 .. n /\ n \in 0 .. n /\ 0 + 1 = 1
    BY <1>1
  <2>2. next[At(l, c[l], 0)] = At(l, c[l], 0 + 1) /\ prev[At(l, c[l], n + 1)] = At(l, c[l], n)
    BY <1>1, <2>1 DEF Ring
  <2> QED BY <1>1, <2>1, <2>2
<1>4. x \in Nodes /\ after \in Nodes \cup {NoNode}
  BY DEF First, Pointers, Nodes
<1>5. iter' = Arrive(it, x, after) /\ UNCHANGED <<next, prev, owner>>
  BY DEF Start
<1> HIDE DEF it, after
<1>6. CASE kind = "reverse"
  <2>1. x = At(l, c[l], n) /\ n \in 0 .. n + 1 /\ n # n + 1 /\ (\A m \in n + 1 .. n : FALSE)
    BY <1>1, <1>3, <1>6 DEF First
  <2> HIDE DEF x
  <2> QED BY <1>2, <1>4, <1>5, <1>6, <2>1, ArriveStep
<1>7. CASE kind # "reverse"
  <2>1. x = At(l, c[l], 1) /\ 1 \in 0 .. n + 1 /\ 1 # 0 /\ (\A m \in 1 .. 1 - 1 : FALSE)
    BY <1>1, <1>3, <1>7 DEF First
  <2>2. kind = "safe" => after = next[x]
    BY DEF after
  <2> HIDE DEF x
  <2> DEFINE k == 1
  <2>3. k \in 0 .. n + 1 /\ iter' = Arrive(it, At(l, c[l], k), after)
        /\ it.visited \subseteq Items /\ it.stayed \subseteq Members(l)
    BY <1>2, <1>5, <2>1
  <2>4. /\ it.kind \in {"forward", "safe"} /\ k # 0
        /\ it.kind = "safe" => after = next[At(l, c[l], k)]
        /\ \A m \in 1 .. k - 1 : c[l][m] \in it.stayed => c[l][m] \in it.visited
        /\ \A m \in k .. n : c[l][m] \notin it.visited
    BY <1>2, <1>7, <2>1, <2>2
  <2> HIDE DEF k
  <2> QED BY <1>2, <1>4, <1>5, <2>3, <2>4, ArriveStep
<1> QED BY <1>6, <1>7

LEMMA AdvanceStep ==
  ASSUME Pointers, NEW c, Rings(c), LoopType, LoopInv(c),
         list_for_each \/ list_for_each_reverse \/ list_for_each_safe
  PROVE  /\ LoopType' /\ LoopInv(c)'
         /\ iter'.node \in Linked' /\ (ListOf(iter.node) = iter.list)'
<1> DEFINE l == iter.list
           s == c[l]
           n == Len(s)
<1>1. /\ iter \in Loops /\ iter.kind # "none" /\ iter.node # l /\ l \in Lists
      /\ iter.twice = {} /\ iter.visited \subseteq Items /\ iter.stayed \subseteq Members(l)
      /\ iter.node \in Nodes /\ LoopPlace(s)
      /\ UNCHANGED <<next, prev, owner>>
  BY DEF list_for_each, list_for_each_reverse, list_for_each_safe, InBody, LoopInv, LoopType, Nodes
<1>2. Ring(l, s) /\ n \in Nat /\ \A k \in 1 .. n : At(l, s, k) = s[k]
  <2>1. Ring(l, s)
    BY <1>1 DEF Rings
  <2> QED BY <1>1, <2>1, RingFacts
<1>3. CASE list_for_each
  <2>1. PICK k \in 1 .. n : /\ iter.node = s[k]
                            /\ Covered(s, 1, k) /\ Untouched(s, k + 1, n)
    BY <1>1, <1>3 DEF list_for_each, LoopPlace
  <2>2. k \in 0 .. n /\ k + 1 \in 0 .. n + 1 /\ k + 1 # 0 /\ (k + 1) - 1 = k
    BY <1>2
  <2>3. next[iter.node] = At(l, s, k + 1)
    BY <1>2, <2>1, <2>2 DEF Ring
  <2>4. iter' = Arrive(iter, At(l, s, k + 1), NoNode) /\ iter.kind = "forward"
    BY <1>3, <2>3 DEF list_for_each
  <2>5. /\ \A m \in 1 .. (k + 1) - 1 : s[m] \in iter.stayed => s[m] \in iter.visited
        /\ \A m \in k + 1 .. n : s[m] \notin iter.visited
    BY <2>1, <2>2 DEF Covered, Untouched
  <2> QED BY <1>1, <2>2, <2>4, <2>5, ArriveStep
<1>4. CASE list_for_each_reverse
  <2>1. PICK k \in 1 .. n : /\ iter.node = s[k]
                            /\ Covered(s, k, n) /\ Untouched(s, 1, k - 1)
    BY <1>1, <1>4 DEF list_for_each_reverse, LoopPlace
  <2>2. k - 1 \in 0 .. n /\ k - 1 \in 0 .. n + 1 /\ k - 1 # n + 1 /\ (k - 1) + 1 = k
    BY <1>2
  <2>3. prev[iter.node] = At(l, s, k - 1)
    <3>1. prev[At(l, s, (k - 1) + 1)] = At(l, s, k - 1)
      BY <1>2, <2>2 DEF Ring
    <3> QED BY <1>2, <2>1, <2>2, <3>1
  <2>4. iter' = Arrive(iter, At(l, s, k - 1), NoNode) /\ iter.kind = "reverse"
    BY <1>4, <2>3 DEF list_for_each_reverse
  <2>5. /\ \A m \in (k - 1) + 1 .. n : s[m] \in iter.stayed => s[m] \in iter.visited
        /\ \A m \in 1 .. k - 1 : s[m] \notin iter.visited
    BY <2>1, <2>2 DEF Covered, Untouched
  <2> QED BY <1>1, <2>2, <2>4, <2>5, ArriveStep
<1>5. CASE list_for_each_safe
  <2>1. PICK k \in 1 .. n + 1 : /\ iter.n = At(l, s, k)
                                /\ Covered(s, 1, k - 1) /\ Untouched(s, k, n)
    BY <1>1, <1>5 DEF list_for_each_safe, LoopPlace
  <2>2. k \in 0 .. n + 1 /\ k # 0
    BY <1>2
  <2>3. iter' = Arrive(iter, At(l, s, k), next[iter.n]) /\ iter.kind = "safe"
    BY <1>5, <2>1 DEF list_for_each_safe
  <2>4. next[iter.n] \in Nodes \cup {NoNode}
    <3>1. iter.n \in Nodes
      <4>1. l \in Nodes /\ \A m \in 1 .. n : s[m] \in Nodes
        BY <1>1, <1>2, RingFacts DEF Nodes
      <4> QED BY <2>1, <4>1 DEF At
    <3> QED BY <3>1 DEF Pointers
  <2>5. /\ \A m \in 1 .. k - 1 : s[m] \in iter.stayed => s[m] \in iter.visited
        /\ \A m \in k .. n : s[m] \notin iter.visited
    BY <2>1 DEF Covered, Untouched
  <2> QED BY <1>1, <2>1, <2>2, <2>3, <2>4, <2>5, ArriveStep
<1> QED BY <1>3, <1>4, <1>5

\* A loop ends or is left.
LEMMA LeaveStep ==
  ASSUME NEW c, Leave
  PROVE  LoopType' /\ LoopInv(c)'
BY DEF Leave, NoIteration, Loops, LoopType, LoopInv

\* Pointer operations that change one ring: the others keep theirs.
LEMMA OtherRings ==
  ASSUME NEW c, Rings(c), NEW l \in Lists, NEW t \in Seq(Items), Ring(l, t)',
         \A m \in Lists \ {l} : Ring(m, c[m])'
  PROVE  Rings([c EXCEPT ![l] = t])'
<1> DEFINE d == [c EXCEPT ![l] = t]
<1>1. d \in [Lists -> Seq(Items)] /\ d[l] = t /\ \A m \in Lists \ {l} : d[m] = c[m]
  BY DEF Rings
<1> HIDE DEF d
<1>2. Rings(d)'
  BY <1>1 DEF Rings
<1> QED BY <1>2 DEF d

LEMMA InsertStep ==
  ASSUME Pointers, NEW c, Rings(c), LoopType, LoopInv(c),
         NEW l \in Lists, NEW x \in Items, MayAdd(l, x),
         NEW g \in 0 .. Len(c[l]), NEW t, Inserted(c[l], g, x, t),
         next' = [next EXCEPT ![x] = At(l, c[l], g + 1), ![At(l, c[l], g)] = x],
         prev' = [prev EXCEPT ![x] = At(l, c[l], g), ![At(l, c[l], g + 1)] = x],
         owner' = [owner EXCEPT ![x] = l], UNCHANGED iter
  PROVE  Rings([c EXCEPT ![l] = t])' /\ LoopType' /\ LoopInv([c EXCEPT ![l] = t])'
<1> DEFINE s == c[l]
           d == [c EXCEPT ![l] = t]
<1>1. Ring(l, s) /\ Len(s) \in Nat /\ owner[x] = NoList /\ t \in Seq(Items)
  <2>1. Ring(l, s)
    BY DEF Rings
  <2> QED BY <2>1, RingFacts DEF MayAdd, Inserted
<1>2. Ring(l, t)'
  BY <1>1, RingInsertion
<1>3. /\ \A y \in Items : y # x => owner'[y] = owner[y]
      /\ owner'[x] = l
  BY DEF Pointers
<1>4. ASSUME NEW m \in Lists \ {l} PROVE Ring(m, c[m])' /\ Members(m)' = Members(m)
  <2>1. Ring(m, c[m]) /\ m # l /\ m \notin Items /\ l \notin Items
    BY DisjointAssumption DEF Rings
  <2>2. Members(m)' = Members(m)
    BY <1>1, <1>3, <2>1, NoneAssumption DEF Members
  <2>3. \A k : At(l, s, k) = l \/ owner[At(l, s, k)] = l
    BY <1>1, RingFacts DEF At
  <2>4. \A y \in Items : owner[y] = m => y # x /\ (\A k : y # At(l, s, k))
    BY <1>1, <2>1, <2>3, NoneAssumption
  <2>5. m # x /\ (\A k : m # At(l, s, k))
    BY <1>1, <2>1, RingFacts DEF At
  <2>6. next'[m] = next[m] /\ prev'[m] = prev[m]
    BY <2>5 DEF Pointers, Nodes
  <2>7. \A y \in Members(m) : next'[y] = next[y] /\ prev'[y] = prev[y]
    BY <2>4 DEF Members, Pointers, Nodes
  <2> QED BY <2>1, <2>2, <2>6, <2>7, RingFrame
<1>5. Rings(d)'
  <2> HIDE DEF d
  <2> QED BY <1>1, <1>2, <1>4, OtherRings DEF d
<1>6. LoopInv(d)'
  <2>1. iter' = iter
    OBVIOUS
  <2> SUFFICES ASSUME iter.kind # "none"
               PROVE  /\ iter.list \in Lists
                      /\ iter.visited \subseteq Items
                      /\ iter.stayed \subseteq Members(iter.list)'
                      /\ IF iter.node = iter.list THEN iter.stayed \subseteq iter.visited
                         ELSE iter.node \in iter.visited /\ LoopPlace(d[iter.list])
    BY <2>1 DEF LoopInv, LoopPlace, Covered, Untouched
  <2>2. /\ iter.list \in Lists /\ iter.visited \subseteq Items
        /\ iter.stayed \subseteq Members(iter.list)
        /\ IF iter.node = iter.list THEN iter.stayed \subseteq iter.visited
           ELSE iter.node \in iter.visited /\ LoopPlace(c[iter.list])
    BY DEF LoopInv
  <2>3. Members(iter.list) \subseteq Members(iter.list)'
    BY <1>1, <1>3, <2>2, NoneAssumption DEF Members
  <2>4. CASE iter.list = l
    <3>1. x \notin iter.visited /\ x \notin iter.stayed
      BY <1>1, <2>2, <2>4, NoneAssumption DEF MayAdd, Members
    <3>2. d[iter.list] = t
      BY <2>4 DEF Rings
    <3>3. LoopPlace(s) => LoopPlace(t)
      BY <1>1, <3>1, PlaceInserted
    <3> HIDE DEF d
    <3> QED BY <2>2, <2>3, <2>4, <3>2, <3>3
  <2>5. CASE iter.list # l
    <3>1. d[iter.list] = c[iter.list]
      BY <2>2, <2>5 DEF Rings
    <3> HIDE DEF d
    <3> QED BY <2>2, <2>3, <3>1
  <2> QED BY <2>4, <2>5
<1>7. LoopType'
  BY DEF LoopType, Loops, Nodes
<1> QED BY <1>5, <1>6, <1>7

LEMMA DeleteStep ==
  ASSUME Pointers, NEW c, Rings(c), LoopType, LoopInv(c),
         NEW l \in Lists, NEW j \in 1 .. Len(c[l]), list_remove(c[l][j]),
         NEW t, Deleted(c[l], j, t)
  PROVE  Rings([c EXCEPT ![l] = t])' /\ LoopType' /\ LoopInv([c EXCEPT ![l] = t])'
<1> DEFINE s == c[l]
           x == s[j]
           d == [c EXCEPT ![l] = t]
<1>1. /\ Ring(l, s) /\ Len(s) \in Nat /\ x \in Items /\ owner[x] = l /\ t \in Seq(Items)
      /\ At(l, s, j) = x
  <2>1. Ring(l, s)
    BY DEF Rings
  <2> QED BY <2>1, RingFacts DEF Deleted
<1>2. /\ next' = [next EXCEPT ![prev[x]] = next[x]]
      /\ prev' = [prev EXCEPT ![next[x]] = prev[x]]
      /\ owner' = [owner EXCEPT ![x] = NoList]
      /\ iter' = [iter EXCEPT !.stayed = @ \ {x}]
      /\ owner[x] = iter.list => iter.kind = "safe" /\ x = iter.node
  BY DEF list_remove, Unlink, MayRemove
<1>3. Ring(l, t)'
  BY <1>1, <1>2, RingRemoval
<1>4. /\ \A y \in Items : y # x => owner'[y] = owner[y]
      /\ owner'[x] = NoList
  BY <1>1, <1>2 DEF Pointers
<1>5. \E k, m \in 0 .. Len(s) + 1 : prev[x] = At(l, s, k) /\ next[x] = At(l, s, m)
  <2>1. /\ j - 1 \in 0 .. Len(s) /\ (j - 1) + 1 = j /\ j \in 0 .. Len(s)
        /\ j - 1 \in 0 .. Len(s) + 1 /\ j + 1 \in 0 .. Len(s) + 1
    BY <1>1
  <2>2. next[At(l, s, j)] = At(l, s, j + 1) /\ prev[At(l, s, (j - 1) + 1)] = At(l, s, j - 1)
    BY <1>1, <2>1 DEF Ring
  <2> QED BY <1>1, <2>1, <2>2
<1>6. ASSUME NEW m \in Lists \ {l} PROVE Ring(m, c[m])' /\ Members(m)' = Members(m)
  <2>1. Ring(m, c[m]) /\ m # l /\ m \notin Items /\ l \notin Items
    BY DisjointAssumption DEF Rings
  <2>2. Members(m)' = Members(m)
    BY <1>1, <1>4, <2>1, NoneAssumption DEF Members
  <2>3. \A k : At(l, s, k) = l \/ owner[At(l, s, k)] = l
    BY <1>1, RingFacts DEF At
  <2>4. \A y \in Items : owner[y] = m => y # prev[x] /\ y # next[x]
    BY <1>5, <2>1, <2>3
  <2>5. m # prev[x] /\ m # next[x]
    <3>1. \A k : m # At(l, s, k)
      BY <1>1, <2>1, RingFacts DEF At
    <3> QED BY <1>5, <3>1
  <2>6. next'[m] = next[m] /\ prev'[m] = prev[m]
    BY <1>2, <2>5 DEF Pointers, Nodes
  <2>7. \A y \in Members(m) : next'[y] = next[y] /\ prev'[y] = prev[y]
    BY <1>2, <2>4 DEF Members, Pointers, Nodes
  <2> QED BY <2>1, <2>2, <2>6, <2>7, RingFrame
<1>7. Rings(d)'
  <2> HIDE DEF d
  <2> QED BY <1>1, <1>3, <1>6, OtherRings DEF d
<1>8. /\ iter' \in Loops
      /\ iter'.kind = iter.kind /\ iter'.list = iter.list /\ iter'.node = iter.node
      /\ iter'.n = iter.n /\ iter'.visited = iter.visited /\ iter'.twice = iter.twice
      /\ iter'.stayed = iter.stayed \ {x}
  BY <1>2 DEF LoopType, Loops
<1>9. LoopInv(d)'
  <2> SUFFICES ASSUME iter.kind # "none"
               PROVE  /\ iter.list \in Lists
                      /\ iter.visited \subseteq Items
                      /\ iter'.stayed \subseteq Members(iter.list)'
                      /\ IF iter.node = iter.list THEN iter'.stayed \subseteq iter.visited
                         ELSE iter.node \in iter.visited /\ LoopPlace(d[iter.list])'
    BY <1>8 DEF LoopInv, Members
  <2>1. /\ iter.list \in Lists /\ iter.visited \subseteq Items
        /\ iter.stayed \subseteq Members(iter.list)
        /\ IF iter.node = iter.list THEN iter.stayed \subseteq iter.visited
           ELSE iter.node \in iter.visited /\ LoopPlace(c[iter.list])
    BY DEF LoopInv
  <2>2. iter'.stayed \subseteq Members(iter.list)'
    BY <1>4, <1>8, <2>1 DEF Members
  <2>3. CASE iter.list = l
    <3>1. iter.kind = "safe" /\ iter.node = x /\ x # l
      BY <1>1, <1>2, <2>3, DisjointAssumption
    <3>2. d[iter.list] = t
      BY <2>3 DEF Rings
    <3>3. LoopPlace(s) /\ iter.node \in iter.visited
      BY <2>1, <2>3, <3>1
    <3>4. LoopPlace(t)'
      BY <1>1, <1>2, <3>1, <3>3, PlaceDeleted
    <3> HIDE DEF d
    <3> QED BY <1>8, <2>1, <2>2, <2>3, <3>1, <3>2, <3>3, <3>4
  <2>4. CASE iter.list # l
    <3>1. d[iter.list] = c[iter.list]
      BY <2>1, <2>4 DEF Rings
    <3>2. iter'.stayed \subseteq iter.stayed
      BY <1>8
    <3>3. LoopPlace(c[iter.list]) => LoopPlace(c[iter.list])'
      BY <1>8, <3>2 DEF LoopPlace, Covered, Untouched
    <3> HIDE DEF d
    <3> QED BY <1>8, <2>1, <2>2, <3>1, <3>2, <3>3
  <2> QED BY <2>3, <2>4
<1> QED BY <1>7, <1>8, <1>9 DEF LoopType
-----------------------------------------------------------------------------
(* The operations on pointers are the operations on sequences.             *)

LEMMA AtTheEnd ==
  ASSUME NEW s \in Seq(Items), NEW x \in Items
  PROVE  Len(s) \in Nat /\ Inserted(s, Len(s), x, Append(s, x))
<1>1. Len(s) \in Nat
  BY LenProperties
<1>2. \A k \in Len(s) + 1 .. Len(s) : FALSE
  BY <1>1
<1> QED BY <1>1, <1>2, AppendProperties DEF Inserted

LEMMA AtTheFront ==
  ASSUME NEW s \in Seq(Items), NEW x \in Items
  PROVE  Len(s) \in Nat /\ Inserted(s, 0, x, <<x>> \o s)
<1>1. Len(s) \in Nat /\ <<x>> \in Seq(Items) /\ Len(<<x>>) = 1 /\ <<x>>[1] = x
  BY LenProperties
<1> DEFINE t == <<x>> \o s
<1>2. /\ t \in Seq(Items) /\ Len(t) = 1 + Len(s)
      /\ \A i \in 1 .. 1 + Len(s) : t[i] = IF i <= 1 THEN <<x>>[i] ELSE s[i - 1]
  BY <1>1, ConcatProperties
<1> HIDE DEF t
<1>3. t[1] = x
  BY <1>1, <1>2
<1>4. ASSUME NEW k \in 1 .. Len(s) PROVE t[k + 1] = s[k]
  <2>1. k + 1 \in 1 .. 1 + Len(s) /\ ~(k + 1 <= 1) /\ (k + 1) - 1 = k
    BY <1>1
  <2> QED BY <1>2, <2>1
<1>5. Inserted(s, 0, x, t)
  BY <1>1, <1>2, <1>3, <1>4 DEF Inserted
<1> QED BY <1>1, <1>5 DEF t

LEMMA WithoutOne ==
  ASSUME NEW s \in Seq(Items), NEW j \in 1 .. Len(s)
  PROVE  Deleted(s, j, Abstract!RemoveAt(s, j))
<1>1. Len(s) \in Nat /\ j \in Nat /\ \A i \in 1 .. Len(s) : s[i] \in Items
  BY LenProperties, ElementOfSeq
<1> DEFINE a == SubSeq(s, 1, j - 1)
           b == SubSeq(s, j + 1, Len(s))
           t == a \o b
<1>2. /\ a \in Seq(Items) /\ Len(a) = j - 1
      /\ \A i \in 1 .. j - 1 : a[i] = s[i]
  <2>1. /\ 1 \in Int /\ j - 1 \in Int
        /\ \A i \in 1 .. j - 1 : s[i] \in Items
        /\ (j - 1) - 1 + 1 = j - 1
    BY <1>1
  <2>2. \A i \in 1 .. j - 1 : 1 + i - 1 = i
    BY <1>1
  <2>3. (IF 1 <= j - 1 THEN (j - 1) - 1 + 1 ELSE 0) = j - 1
    BY <1>1
  <2> HIDE DEF a
  <2>4. /\ a \in Seq(Items) /\ Len(a) = (IF 1 <= j - 1 THEN (j - 1) - 1 + 1 ELSE 0)
        /\ \A i \in 1 .. (j - 1) - 1 + 1 : a[i] = s[1 + i - 1]
    BY <2>1, SubSeqProperties DEF a
  <2> QED BY <2>1, <2>2, <2>3, <2>4
<1>3. /\ b \in Seq(Items) /\ Len(b) = Len(s) - j
      /\ \A i \in 1 .. Len(s) - j : b[i] = s[i + j]
  <2>1. /\ Len(s) \in Int /\ j + 1 \in Int
        /\ \A i \in j + 1 .. Len(s) : s[i] \in Items
        /\ Len(s) - (j + 1) + 1 = Len(s) - j
    BY <1>1
  <2>2. (IF j + 1 <= Len(s) THEN Len(s) - (j + 1) + 1 ELSE 0) = Len(s) - j
    BY <1>1
  <2> HIDE DEF b
  <2>3. /\ b \in Seq(Items)
        /\ Len(b) = (IF j + 1 <= Len(s) THEN Len(s) - (j + 1) + 1 ELSE 0)
        /\ \A i \in 1 .. Len(s) - (j + 1) + 1 : b[i] = s[(j + 1) + i - 1]
    BY <2>1, SubSeqProperties DEF b
  <2>4. ASSUME NEW i \in 1 .. Len(s) - j PROVE b[i] = s[i + j]
    <3>1. i \in 1 .. Len(s) - (j + 1) + 1 /\ (j + 1) + i - 1 = i + j
      BY <1>1
    <3>2. b[i] = s[(j + 1) + i - 1]
      BY <2>3, <3>1
    <3> QED BY <3>1, <3>2
  <2>5. Len(b) = Len(s) - j
    BY <2>2, <2>3
  <2> QED BY <2>3, <2>4, <2>5
<1> HIDE DEF a, b
<1>4. /\ t \in Seq(Items) /\ Len(t) = Len(a) + Len(b)
      /\ \A i \in 1 .. Len(a) + Len(b) : t[i] = IF i <= Len(a) THEN a[i] ELSE b[i - Len(a)]
  BY <1>2, <1>3, ConcatProperties
<1> HIDE DEF t
<1>5. Len(t) = Len(s) - 1 /\ Len(a) + Len(b) = Len(s) - 1
  BY <1>1, <1>2, <1>3, <1>4
<1>6. ASSUME NEW k \in 1 .. j - 1 PROVE t[k] = s[k]
  <2>1. k \in 1 .. Len(s) - 1 /\ k <= j - 1
    BY <1>1
  <2> QED BY <1>2, <1>4, <1>5, <2>1
<1>7. ASSUME NEW k \in j .. Len(s) - 1 PROVE t[k] = s[k + 1]
  <2>1. /\ k \in 1 .. Len(s) - 1 /\ ~(k <= j - 1)
        /\ k - (j - 1) \in 1 .. Len(s) - j /\ (k - (j - 1)) + j = k + 1
    BY <1>1
  <2> QED BY <1>2, <1>3, <1>4, <1>5, <2>1
<1>8. Deleted(s, j, t)
  BY <1>4, <1>5, <1>6, <1>7 DEF Deleted
<1> QED BY <1>8 DEF t, a, b, Abstract!RemoveAt

LEMMA FreeItem ==
  ASSUME NEW c, Rings(c), NEW x \in Items, owner[x] = NoList
  PROVE  x \in {y \in Items : \A l \in Lists : y \notin Abstract!Range(c[l])}
<1> SUFFICES ASSUME NEW l \in Lists PROVE x \notin Abstract!Range(c[l])
  OBVIOUS
<1>1. Ring(l, c[l]) /\ c[l] \in Seq(Items)
  BY DEF Rings
<1>2. DOMAIN c[l] = 1 .. Len(c[l]) /\ \A k \in 1 .. Len(c[l]) : owner[c[l][k]] = l
  BY <1>1, RingFacts, LenProperties
<1> QED BY <1>2, NoneAssumption DEF Abstract!Range

LEMMA AddTailResult ==
  ASSUME NEW c, Rings(c), NEW l \in Lists, NEW x \in Items, owner[x] = NoList
  PROVE  [c EXCEPT ![l] = Append(c[l], x)] \in Abstract!Results(c)
<1>1. Abstract!AddTail(c, l, x) = [c EXCEPT ![l] = Append(c[l], x)]
  BY DEF Abstract!AddTail, Rings
<1>2. x \in {y \in Items : \A m \in Lists : y \notin Abstract!Range(c[m])}
  BY FreeItem
<1> QED BY <1>1, <1>2 DEF Abstract!Results

LEMMA AddHeadResult ==
  ASSUME NEW c, Rings(c), NEW l \in Lists, NEW x \in Items, owner[x] = NoList
  PROVE  [c EXCEPT ![l] = <<x>> \o c[l]] \in Abstract!Results(c)
<1>1. Abstract!AddHead(c, l, x) = [c EXCEPT ![l] = <<x>> \o c[l]]
  BY DEF Abstract!AddHead, Rings
<1>2. x \in {y \in Items : \A m \in Lists : y \notin Abstract!Range(c[m])}
  BY FreeItem
<1> QED BY <1>1, <1>2 DEF Abstract!Results

LEMMA DeleteResult ==
  ASSUME NEW c, Rings(c), NEW l \in Lists, NEW j \in 1 .. Len(c[l])
  PROVE  [c EXCEPT ![l] = Abstract!RemoveAt(c[l], j)] \in Abstract!Results(c)
<1>1. Abstract!Delete(c, l, j) = [c EXCEPT ![l] = Abstract!RemoveAt(c[l], j)]
  BY DEF Abstract!Delete, Rings
<1>2. Abstract!Delete(c, l, j) \in UNION {{Abstract!Delete(c, m, k) : k \in 1 .. Len(c[m])} : m \in Lists}
  OBVIOUS
<1> QED BY <1>1, <1>2 DEF Abstract!Results

\* A step of a loop changes no ring.
LEMMA SameRings ==
  ASSUME NEW c, Rings(c), UNCHANGED <<next, prev, owner>>
  PROVE  Rings(c)'
BY DEF Rings, Ring, Members, At

\* Whatever is done, the pointers represent lists again, and these are the
\* same or what one operation on sequences makes of them.
LEMMA OperationStep ==
  ASSUME Pointers, NEW c, Rings(c), LoopType, LoopInv(c), [Next]_vars
  PROVE  \E d : /\ Rings(d)' /\ LoopType' /\ LoopInv(d)'
                /\ d = c \/ d \in Abstract!Results(c)
<1> DEFINE Goal == \E d : /\ Rings(d)' /\ LoopType' /\ LoopInv(d)'
                          /\ d = c \/ d \in Abstract!Results(c)
<1>1. \A l \in Lists : Ring(l, c[l]) /\ c[l] \in Seq(Items)
  BY DEF Rings
<1>2. ASSUME NEW l \in Lists, NEW x \in Items, list_add_tail(l, x) PROVE Goal
  <2> DEFINE s == c[l]
             n == Len(s)
  <2>1. n \in Nat /\ n \in 0 .. n /\ Inserted(s, n, x, Append(s, x))
    BY <1>1, AtTheEnd
  <2>2. At(l, s, n + 1) = l /\ At(l, s, 0) = l
    BY <1>1, RingFacts
  <2>3. prev[l] = At(l, s, n)
    BY <1>1, <2>1, <2>2 DEF Ring
  <2>4. /\ MayAdd(l, x) /\ owner[x] = NoList /\ UNCHANGED iter
        /\ next' = [next EXCEPT ![x] = At(l, s, n + 1), ![At(l, s, n)] = x]
        /\ prev' = [prev EXCEPT ![x] = At(l, s, n), ![At(l, s, n + 1)] = x]
        /\ owner' = [owner EXCEPT ![x] = l]
    BY <1>2, <2>2, <2>3 DEF list_add_tail, MayAdd
  <2> DEFINE d == [c EXCEPT ![l] = Append(s, x)]
  <2>5. Rings(d)' /\ LoopType' /\ LoopInv(d)'
    BY <2>1, <2>4, InsertStep
  <2>6. d \in Abstract!Results(c)
    BY <2>4, AddTailResult
  <2> HIDE DEF d
  <2> QED BY <2>5, <2>6
<1>3. ASSUME NEW l \in Lists, NEW x \in Items, list_add_head(l, x) PROVE Goal
  <2> DEFINE s == c[l]
             n == Len(s)
  <2>1. n \in Nat /\ 0 \in 0 .. n /\ Inserted(s, 0, x, <<x>> \o s)
    BY <1>1, AtTheFront
  <2>2. At(l, s, 0) = l
    BY <1>1, RingFacts
  <2>3. next[l] = At(l, s, 0 + 1)
    BY <1>1, <2>1, <2>2 DEF Ring
  <2>4. /\ MayAdd(l, x) /\ owner[x] = NoList /\ UNCHANGED iter
        /\ next' = [next EXCEPT ![x] = At(l, s, 0 + 1), ![At(l, s, 0)] = x]
        /\ prev' = [prev EXCEPT ![x] = At(l, s, 0), ![At(l, s, 0 + 1)] = x]
        /\ owner' = [owner EXCEPT ![x] = l]
    BY <1>3, <2>2, <2>3 DEF list_add_head, MayAdd
  <2> DEFINE d == [c EXCEPT ![l] = <<x>> \o s]
  <2>5. Rings(d)' /\ LoopType' /\ LoopInv(d)'
    BY <2>1, <2>4, InsertStep
  <2>6. d \in Abstract!Results(c)
    BY <2>4, AddHeadResult
  <2> HIDE DEF d
  <2> QED BY <2>5, <2>6
<1>4. ASSUME NEW x, list_remove(x) PROVE Goal
  <2>1. x \in Items /\ owner[x] \in Lists
    BY <1>4 DEF list_remove, MayRemove, Pointers
  <2>2. PICK l \in Lists : l = owner[x]
    BY <2>1
  <2>3. PICK s : s = c[l]
    OBVIOUS
  <2>4. PICK j \in 1 .. Len(s) : s[j] = x
    BY <1>1, <2>1, <2>2, <2>3, RingFacts
  <2>5. PICK t : t = Abstract!RemoveAt(s, j)
    OBVIOUS
  <2> DEFINE d == [c EXCEPT ![l] = t]
  <2>6. Deleted(s, j, t)
    BY <1>1, <2>3, <2>5, WithoutOne
  <2>7. d \in Abstract!Results(c)
    BY <2>3, <2>5, DeleteResult
  <2>8. Rings(d)' /\ LoopType' /\ LoopInv(d)'
    BY <1>4, <2>3, <2>4, <2>6, DeleteStep
  <2> HIDE DEF d
  <2> QED BY <2>7, <2>8
<1>5. ASSUME NEW l \in Lists, NEW kind \in {"forward", "reverse", "safe"}, Start(kind, l)
      PROVE  Goal
  <2>1. Rings(c)'
    BY <1>5, SameRings DEF Start
  <2>2. LoopType' /\ LoopInv(c)'
    BY <1>5, StartStep
  <2> QED BY <2>1, <2>2
<1>6. ASSUME list_for_each \/ list_for_each_reverse \/ list_for_each_safe PROVE Goal
  <2>1. Rings(c)'
    BY <1>6, SameRings DEF list_for_each, list_for_each_reverse, list_for_each_safe
  <2>2. LoopType' /\ LoopInv(c)'
    BY <1>6, AdvanceStep
  <2> QED BY <2>1, <2>2
<1>7. ASSUME Leave PROVE Goal
  <2>1. Rings(c)'
    BY <1>7, SameRings DEF Leave
  <2>2. LoopType' /\ LoopInv(c)'
    BY <1>7, LeaveStep
  <2> QED BY <2>1, <2>2
<1>8. ASSUME UNCHANGED vars PROVE Goal
  <2>1. Rings(c)'
    BY <1>8, SameRings DEF vars
  <2>2. LoopType' /\ LoopInv(c)'
    BY <1>8 DEF vars, LoopType, LoopInv, LoopPlace, Covered, Untouched, Members
  <2> QED BY <2>1, <2>2
<1> HIDE DEF Goal
<1>9. Goal
  BY <1>2, <1>3, <1>4, <1>5, <1>6, <1>7, <1>8 DEF Next, Advance, Pop
<1> QED BY <1>9 DEF Goal

\* The invariant: the pointers represent lists, and the loop has its place in
\* the one it goes through.
LoopsInRings ==
  /\ IInv
  /\ LoopType
  /\ \E c : Rings(c) /\ LoopInv(c)

LEMMA LoopsInRingsInit == Init => LoopsInRings
<1> SUFFICES ASSUME Init PROVE LoopsInRings
  OBVIOUS
<1>1. LoopType /\ \A c : LoopInv(c)
  BY DEF Init, NoIteration, LoopType, Loops, LoopInv
<1> QED BY <1>1, IInvInit, RingsInit DEF LoopsInRings

LEMMA LoopsInRingsStep == LoopsInRings /\ [Next]_vars => LoopsInRings'
<1> SUFFICES ASSUME LoopsInRings, [Next]_vars PROVE LoopsInRings'
  OBVIOUS
<1>1. PICK c : Rings(c) /\ LoopInv(c)
  BY DEF LoopsInRings
<1>2. PICK d : Rings(d)' /\ LoopType' /\ LoopInv(d)'
  BY <1>1, OperationStep DEF LoopsInRings, IInv
<1>3. IInv'
  BY IInvStep DEF LoopsInRings
<1> QED BY <1>2, <1>3 DEF LoopsInRings

\* A loop comes to no node twice, and at its end it has come to every item
\* that was in the list all the time: what list_for_each_safe, its n read
\* before the body runs, promises in spite of the removal of the current node
\* and of insertions at both ends of the list.
THEOREM LoopCoversAllHolds == Spec => []LoopCoversAll
<1>1. LoopsInRings => LoopCoversAll
  BY DEF LoopsInRings, LoopInv, LoopCoversAll
<1> QED BY LoopsInRingsInit, LoopsInRingsStep, <1>1, PTL DEF Spec

\* A loop only comes to nodes of its own list, never to a removed item by a
\* stale pointer or to an item that has moved to another list.
THEOREM LoopStaysInListHolds == Spec => LoopStaysInList
<1> DEFINE Stays ==
      iter'.kind # "none" /\ iter'.visited # iter.visited
        => iter'.node \in Linked' /\ (ListOf(iter.node) = iter.list)'
<1>1. LoopsInRings /\ [Next]_vars => Stays
  <2> SUFFICES ASSUME LoopsInRings, [Next]_vars,
                      iter'.kind # "none", iter'.visited # iter.visited
               PROVE  iter'.node \in Linked' /\ (ListOf(iter.node) = iter.list)'
    OBVIOUS
  <2>1. PICK c : Rings(c) /\ LoopInv(c) /\ LoopType /\ Pointers
    BY DEF LoopsInRings, IInv
  <2>2. ~UNCHANGED iter /\ ~Leave
    BY DEF Leave, NoIteration
  <2>3. \A x : ~list_remove(x)
    <3> SUFFICES ASSUME NEW x, list_remove(x) PROVE iter'.visited = iter.visited
      OBVIOUS
    <3> QED BY <2>1 DEF list_remove, LoopType, Loops
  <2>4. CASE \E l \in Lists : \E kind \in {"forward", "reverse", "safe"} : Start(kind, l)
    BY <2>1, <2>4, StartStep
  <2>5. CASE list_for_each \/ list_for_each_reverse \/ list_for_each_safe
    BY <2>1, <2>5, AdvanceStep
  <2> QED
    BY <2>2, <2>3, <2>4, <2>5
    DEF Next, Advance, Pop, vars, list_add_tail, list_add_head
<1>2. Spec => [][Stays]_vars
  <2> HIDE DEF Stays
  <2> QED BY LoopsInRingsInit, LoopsInRingsStep, <1>1, PTL DEF Spec
<1> QED BY <1>2 DEF LoopStaysInList

-----------------------------------------------------------------------------
(* The refinement: the contents that ListSpec is about are the ones that   *)
(* the rings represent.                                                    *)

LEMMA WalkFacts ==
  ASSUME Pointers, NEW l \in Lists
  PROVE  /\ Walk(l)[0] = l
         /\ \A k \in 1 .. Cardinality(Items) + 1 : Walk(l)[k] = next[Walk(l)[k - 1]]
<1> DEFINE N == Cardinality(Items) + 1
           step == [n \in Nat |-> next]
<1>1. N \in Nat
  BY FiniteAssumption, FS_CardinalityType
<1>2. step \in Steps(Nodes) /\ l \in Nodes
  BY DEF Steps, Pointers, Nodes
<1>3. PICK f : IteratesTo(f, N, Nodes, l, step)
  <2> HIDE DEF step, N
  <2> QED BY <1>1, <1>2, RecursionTo
<1>4. \A k \in 0 .. N : k # 0 => step[k - 1] = next
  BY <1>1
<1>5. f = [k \in 0 .. N |-> IF k = 0 THEN l ELSE next[f[k - 1]]]
  <2> HIDE DEF step, N
  <2> QED BY <1>3, <1>4 DEF IteratesTo
<1>6. Walk(l) = [k \in 0 .. N |-> IF k = 0 THEN l ELSE next[Walk(l)[k - 1]]]
  BY <1>5 DEF Walk
<1>7. 0 \in 0 .. N /\ \A k \in 1 .. N : k \in 0 .. N /\ k # 0
  BY <1>1
<1> QED BY <1>6, <1>7

\* The way from the head of a list leads through its items, back to the head.
LEMMA WalkOfRing ==
  ASSUME Pointers, NEW l \in Lists, NEW s, Ring(l, s)
  PROVE  \A k \in 0 .. Len(s) + 1 : Walk(l)[k] = At(l, s, k)
<1>1. Len(s) \in Nat /\ Cardinality(Items) \in Nat /\ Len(s) <= Cardinality(Items)
  BY RingLength
<1> DEFINE same == {k \in Nat : k <= Len(s) + 1 => Walk(l)[k] = At(l, s, k)}
<1>2. 0 \in same
  BY WalkFacts, RingFacts
<1>3. ASSUME NEW k \in Nat, k \in same PROVE k + 1 \in same
  <2> SUFFICES ASSUME k + 1 <= Len(s) + 1 PROVE Walk(l)[k + 1] = At(l, s, k + 1)
    OBVIOUS
  <2>1. k + 1 \in 1 .. Cardinality(Items) + 1 /\ (k + 1) - 1 = k /\ k \in 0 .. Len(s)
    BY <1>1
  <2>2. Walk(l)[k] = At(l, s, k)
    BY <1>1, <1>3
  <2>3. Walk(l)[k + 1] = next[Walk(l)[k]]
    BY <2>1, WalkFacts
  <2> QED BY <2>1, <2>2, <2>3 DEF Ring
<1>4. Nat \subseteq same
  <2> HIDE DEF same
  <2> QED BY <1>2, <1>3, NatSetInduction
<1>5. \A k \in 0 .. Len(s) + 1 : k \in Nat /\ k <= Len(s) + 1
  BY <1>1
<1> QED BY <1>4, <1>5

LEMMA ContentsOfRing ==
  ASSUME Pointers, NEW l \in Lists, NEW s, Ring(l, s)
  PROVE  Contents(l) = s
<1> DEFINE n == Len(s)
           ends == {k \in 0 .. Cardinality(Items) :
                      Walk(l)[k + 1] = l /\ \A j \in 1 .. k : Walk(l)[j] # l}
<1>1. n \in Nat /\ Cardinality(Items) \in Nat /\ n <= Cardinality(Items)
  BY RingLength
<1>2. /\ Walk(l)[n + 1] = l
      /\ \A k \in 1 .. n : Walk(l)[k] = s[k] /\ s[k] # l
  <2>1. n + 1 \in 0 .. n + 1 /\ \A k \in 1 .. n : k \in 0 .. n + 1
    BY <1>1
  <2>2. /\ \A k \in 0 .. n + 1 : Walk(l)[k] = At(l, s, k)
        /\ At(l, s, n + 1) = l
        /\ \A k \in 1 .. n : At(l, s, k) = s[k] /\ s[k] # l
    BY WalkOfRing, RingFacts
  <2> QED BY <2>1, <2>2
<1>3. n \in ends
  BY <1>1, <1>2
<1>4. ASSUME NEW k \in ends PROVE k = n
  <2>1. k \in Nat /\ Walk(l)[k + 1] = l /\ \A j \in 1 .. k : Walk(l)[j] # l
    BY <1>1
  <2>2. k < n => k + 1 \in 1 .. n
    BY <1>1, <2>1
  <2>3. k > n => n + 1 \in 1 .. k
    BY <1>1, <2>1
  <2>4. ~(k < n) /\ ~(k > n)
    BY <1>2, <2>1, <2>2, <2>3
  <2> QED BY <1>1, <2>1, <2>4
<1>5. Contents(l) = [k \in 1 .. (CHOOSE k \in ends : TRUE) |-> Walk(l)[k]]
  BY <1>3 DEF Contents
<1>6. (CHOOSE k \in ends : TRUE) = n
  <2> HIDE DEF ends
  <2> QED BY <1>3, <1>4
<1>7. Contents(l) = [k \in 1 .. n |-> s[k]]
  <2> HIDE DEF ends
  <2> QED BY <1>2, <1>5, <1>6
<1>8. s = [k \in 1 .. n |-> s[k]]
  <2>1. s \in Seq(Items)
    BY DEF Ring
  <2>2. s \in [1 .. n -> Items]
    BY <2>1, LenProperties
  <2> HIDE DEF n
  <2> QED BY <2>2
<1> QED BY <1>7, <1>8

Whole == [l \in Lists |-> Contents(l)]

WholeIsRings == \A c : Pointers /\ Rings(c) => Whole = c

LEMMA ContentsOfRings == WholeIsRings
<1> SUFFICES ASSUME NEW c, Pointers, Rings(c) PROVE Whole = c
  BY DEF WholeIsRings
<1>1. \A l \in Lists : Contents(l) = c[l]
  BY ContentsOfRing DEF Rings
<1>2. c = [l \in Lists |-> c[l]]
  BY DEF Rings
<1> QED BY <1>1, <1>2 DEF Whole

LEMMA InitialContents == Init => Abstract!Init
<1> SUFFICES ASSUME Init PROVE Abstract!Init
  OBVIOUS
<1>1. Pointers /\ Rings([l \in Lists |-> <<>>])
  BY IInvInit, RingsInit DEF IInv
<1>2. Whole = [l \in Lists |-> <<>>]
  BY <1>1, ContentsOfRings DEF WholeIsRings
<1> QED BY <1>2 DEF Abstract!Init, Whole

LEMMA ContentsStep ==
  ASSUME LoopsInRings, [Next]_vars
  PROVE  [Abstract!Next]_Whole
<1>1. PICK c : Rings(c) /\ LoopInv(c)
  BY DEF LoopsInRings
<1>2. PICK d : Rings(d)' /\ (d = c \/ d \in Abstract!Results(c))
  BY <1>1, OperationStep DEF LoopsInRings, IInv
<1>3. Pointers /\ Pointers'
  BY LoopsInRingsStep DEF LoopsInRings, IInv
<1>4. Whole = c
  BY <1>1, <1>3, ContentsOfRings DEF WholeIsRings
<1>5. Whole' = d
  <2>1. WholeIsRings'
    BY ContentsOfRings, PTL
  <2> QED BY <1>2, <1>3, <2>1 DEF WholeIsRings
<1>6. CASE d = c
  BY <1>4, <1>5, <1>6
<1>7. CASE d \in Abstract!Results(c)
  <2>1. \E before \in {Whole}, after \in {Whole'} : after \in Abstract!Results(before)
    BY <1>4, <1>5, <1>7
  <2> QED BY <2>1 DEF Abstract!Next, Whole
<1> QED BY <1>2, <1>6, <1>7

\* list.h implements lists of items: the assignments of list_add_tail,
\* list_add_head and list_remove, the iterations between them and the stale
\* pointers behind them make of the pointers what insertion at the ends and
\* removal from anywhere make of sequences, with no limit on their lengths.
THEOREM ImplementsSequencesHolds == Spec => ImplementsSequences
<1>1. LoopsInRings /\ [Next]_vars => [Abstract!Next]_Whole
  BY ContentsStep
<1>2. LoopsInRings /\ [Next]_vars => [Abstract!Next]_([l \in Lists |-> Contents(l)])
  BY <1>1 DEF Whole
<1> QED
  BY LoopsInRingsInit, LoopsInRingsStep, InitialContents, <1>2, PTL
  DEF Spec, ImplementsSequences, Abstract!Spec
=============================================================================

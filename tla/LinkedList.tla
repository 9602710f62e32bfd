------------------------------ MODULE LinkedList ------------------------------
(***************************************************************************)
(* cutils/list.h: circular doubly linked lists whose nodes are embedded in *)
(* the items, with the list head as one node of the ring.  list_remove     *)
(* leaves the pointers of the removed node as they were, and the iteration *)
(* macros hold pointers across the loop body: an iteration is therefore    *)
(* part of the state, and the body's own list operations are interleaved   *)
(* with its steps.                                                         *)
(*                                                                         *)
(* The callers' side, which is outside the header: an item is added only   *)
(* while it is in no list and removed only while it is in one (the headers *)
(* check neither), the body of list_for_each and list_for_each_reverse     *)
(* removes nothing, and the body of list_for_each_safe removes at most the *)
(* current node and does not put it back into the list it iterates over.   *)
(***************************************************************************)
EXTENDS Naturals, FiniteSets

CONSTANTS Lists,   \* list heads
          Items    \* nodes embedded in items

ASSUME DisjointAssumption == Lists \cap Items = {} /\ Lists # {}
ASSUME FiniteAssumption == IsFiniteSet(Items)

Nodes == Lists \cup Items
NoList == "no list"
NoNode == "no node"

ASSUME NoneAssumption == NoList \notin Lists /\ NoNode \notin Nodes

VARIABLES next, prev,   \* the two pointers of every node
          owner,        \* the list each item is in, as the callers know it
          iter          \* the iteration in progress

vars == <<next, prev, owner, iter>>

\* The iteration variables: node and n of the macros, the list, and what the
\* loop has done so far: the items visited, those visited twice, and those
\* that have been in the list ever since the loop began.
NoIteration ==
  [kind |-> "none", list |-> NoList, node |-> NoNode, n |-> NoNode,
   visited |-> {}, twice |-> {}, stayed |-> {}]

Members(l) == {x \in Items : owner[x] = l}
ListOf(x) == IF x \in Lists THEN x ELSE owner[x]

\* list_init on every head, or list_declare; list_init on every item, too.
Init ==
  /\ next = [x \in Nodes |-> x]
  /\ prev = [x \in Nodes |-> x]
  /\ owner = [x \in Items |-> NoList]
  /\ iter = NoIteration
-----------------------------------------------------------------------------
list_empty(l) == l = next[l]
list_head(l) == next[l]
list_tail(l) == prev[l]

\* The body of a loop does not put a node back into the list of the loop.
MayAdd(l, x) ==
  /\ owner[x] = NoList
  /\ iter.list = l => x \notin iter.visited

\* Mutated form of list_add_tail: head->prev = item comes before
\* head->prev->next = item.
AddTailHeadFirst(head, item) ==
  /\ MayAdd(head, item)
  /\ next' = [next EXCEPT ![item] = item]
  /\ prev' = [prev EXCEPT ![item] = prev[head], ![head] = item]
  /\ owner' = [owner EXCEPT ![item] = head]
  /\ UNCHANGED iter

list_add_tail(head, item) ==
  /\ MayAdd(head, item)
  /\ next' = [next EXCEPT ![item] = head, ![prev[head]] = item]
  /\ prev' = [prev EXCEPT ![item] = prev[head], ![head] = item]
  /\ owner' = [owner EXCEPT ![item] = head]
  /\ UNCHANGED iter

\* Mutated form of list_add_head: head->next = item comes before
\* item->next = head->next.
AddHeadHeadFirst(head, item) ==
  /\ MayAdd(head, item)
  /\ next' = [next EXCEPT ![head] = item, ![item] = item]
  /\ prev' = [prev EXCEPT ![item] = item]
  /\ owner' = [owner EXCEPT ![item] = head]
  /\ UNCHANGED iter

list_add_head(head, item) ==
  /\ MayAdd(head, item)
  /\ next' = [next EXCEPT ![item] = next[head], ![head] = item]
  /\ prev' = [prev EXCEPT ![item] = head, ![next[head]] = item]
  /\ owner' = [owner EXCEPT ![item] = head]
  /\ UNCHANGED iter

\* Mutated form of Unlink: only the forward pointer is repaired.
UnlinkForward(item) ==
  /\ next' = [next EXCEPT ![prev[item]] = next[item]]
  /\ UNCHANGED prev

\* The two assignments of list_remove; item keeps its own pointers.
Unlink(item) ==
  /\ prev' = [prev EXCEPT ![next[item]] = prev[item]]
  /\ next' = [next EXCEPT ![prev[item]] = next[item]]

\* What a caller may remove from the list of a running loop: the current
\* node, and only in the loop that is "safe" against it.
MayRemove(x) ==
  /\ x \in Items /\ owner[x] # NoList
  /\ owner[x] = iter.list => iter.kind = "safe" /\ x = iter.node

list_remove(item) ==
  /\ MayRemove(item)
  /\ Unlink(item)
  /\ owner' = [owner EXCEPT ![item] = NoList]
  /\ iter' = [iter EXCEPT !.stayed = @ \ {item}]

\* A caller takes the first or the last item off a list it found not empty.
Pop(l) ==
  /\ ~list_empty(l)
  /\ \E x \in {list_head(l), list_tail(l)} : list_remove(x)
-----------------------------------------------------------------------------
(* The loops.                                                              *)

\* Control comes to the loop condition with the loop variables x and after.
Arrive(it, x, after) ==
  [it EXCEPT
    !.node = x, !.n = after,
    !.twice = @ \cup ({x} \cap it.visited),
    !.visited = @ \cup ({x} \ {it.list})]

\* Mutated form of First: the loop starts behind the first node.
FirstSkipped(kind, l) ==
  IF kind = "reverse" THEN prev[l] ELSE next[next[l]]

First(kind, l) == IF kind = "reverse" THEN prev[l] ELSE next[l]

Start(kind, l) ==
  /\ iter.kind = "none"
  /\ LET x == First(kind, l)
     IN  iter' = Arrive([NoIteration EXCEPT !.kind = kind, !.list = l,
                                            !.stayed = Members(l)],
                        x, IF kind = "safe" THEN next[x] ELSE NoNode)
  /\ UNCHANGED <<next, prev, owner>>

InBody == iter.kind # "none" /\ iter.node # iter.list

\* node = node->next
list_for_each ==
  /\ InBody /\ iter.kind = "forward"
  /\ iter' = Arrive(iter, next[iter.node], NoNode)
  /\ UNCHANGED <<next, prev, owner>>

\* node = node->prev
list_for_each_reverse ==
  /\ InBody /\ iter.kind = "reverse"
  /\ iter' = Arrive(iter, prev[iter.node], NoNode)
  /\ UNCHANGED <<next, prev, owner>>

\* Mutated form of list_for_each_safe: node = node->next, as in the plain
\* loop.
SafeLoopRereads ==
  /\ InBody /\ iter.kind = "safe"
  /\ iter' = Arrive(iter, next[iter.node], next[next[iter.node]])
  /\ UNCHANGED <<next, prev, owner>>

\* node = n, n = node->next
list_for_each_safe ==
  /\ InBody /\ iter.kind = "safe"
  /\ iter' = Arrive(iter, iter.n, next[iter.n])
  /\ UNCHANGED <<next, prev, owner>>

\* The loop condition fails, or the body breaks out.
Leave ==
  /\ iter.kind # "none"
  /\ iter' = NoIteration
  /\ UNCHANGED <<next, prev, owner>>

Advance ==
  \/ list_for_each
  \/ list_for_each_reverse
  \/ list_for_each_safe
  \/ iter.node = iter.list /\ Leave

Next ==
  \/ \E l \in Lists : \E x \in Items : list_add_tail(l, x) \/ list_add_head(l, x)
  \/ \E x \in Items : list_remove(x)
  \/ \E l \in Lists : Pop(l)
  \/ \E l \in Lists : \E kind \in {"forward", "reverse", "safe"} : Start(kind, l)
  \/ Advance
  \/ Leave

Spec == Init /\ [][Next]_vars

\* Loop bodies end.
FairSpec == Spec /\ WF_vars(Advance)
-----------------------------------------------------------------------------
TypeOK ==
  /\ next \in [Nodes -> Nodes]
  /\ prev \in [Nodes -> Nodes]
  /\ owner \in [Items -> Lists \cup {NoList}]
  /\ iter.kind \in {"none", "forward", "reverse", "safe"}
  /\ iter.kind # "none" => iter.list \in Lists /\ iter.node \in Nodes
  /\ iter.visited \subseteq Nodes /\ iter.stayed \subseteq Items

Linked == Lists \cup {x \in Items : owner[x] # NoList}

\* In spite of the stale pointers of removed nodes: the two pointers of the
\* nodes that are in lists are inverse to each other and never lead from
\* one list into another or to a removed node.
WellLinked ==
  \A x \in Linked :
    /\ next[x] \in Linked /\ ListOf(next[x]) = ListOf(x) /\ prev[next[x]] = x
    /\ prev[x] \in Linked /\ ListOf(prev[x]) = ListOf(x) /\ next[prev[x]] = x

\* The nodes met on the way from list head l, as far as it can take to come
\* back to l.
Walk(l) ==
  LET at[k \in 0 .. Cardinality(Items) + 1] == IF k = 0 THEN l ELSE next[at[k - 1]]
  IN  at

\* The items before the way comes back to l, in order; too many of them when
\* it does not.
Contents(l) ==
  LET ends == {k \in 0 .. Cardinality(Items) :
                 Walk(l)[k + 1] = l /\ \A j \in 1 .. k : Walk(l)[j] # l}
      last == IF ends = {} THEN Cardinality(Items) + 1 ELSE CHOOSE k \in ends : TRUE
  IN  [k \in 1 .. last |-> Walk(l)[k]]

Abstract == INSTANCE ListSpec WITH contents <- [l \in Lists |-> Contents(l)]

\* The pointer operations are the operations on sequences: insertion at the
\* ends and removal from anywhere, nothing else moved, lost or doubled.
ImplementsSequences == Abstract!Spec

\* A loop never visits a node twice, and when it has run to its end it has
\* visited every item that was in the list from its beginning to its end.
LoopCoversAll ==
  /\ iter.twice = {}
  /\ iter.kind # "none" /\ iter.node = iter.list => iter.stayed \subseteq iter.visited

\* Every node a loop comes to is then a node of its list, whatever the body
\* did to the current node, moving it to another list included.
LoopStaysInList ==
  [][iter'.kind # "none" /\ iter'.visited # iter.visited
       => iter'.node \in Linked' /\ (ListOf(iter.node) = iter.list)']_vars

\* A loop whose body puts nothing back comes to its end.
LoopEnds == (iter.kind # "none") ~> (iter.kind = "none")
=============================================================================

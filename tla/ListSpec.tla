------------------------------- MODULE ListSpec -------------------------------
(***************************************************************************)
(* What cutils/list.h provides: lists of items with insertion at both ends *)
(* and removal from anywhere, an item being in one list at most.           *)
(***************************************************************************)
EXTENDS Sequences, SequencesExt, Naturals

CONSTANTS Lists, Items

VARIABLE contents   \* the items of each list, in order

Init == contents = [l \in Lists |-> <<>>]

\* What each operation makes of the contents c of the lists.
AddTail(c, l, x) == [c EXCEPT ![l] = Append(@, x)]
AddHead(c, l, x) == [c EXCEPT ![l] = <<x>> \o @]
Delete(c, l, k) == [c EXCEPT ![l] = RemoveAt(@, k)]

Results(c) ==
  LET free == {x \in Items : \A l \in Lists : x \notin Range(c[l])}
  IN  {AddTail(c, l, x) : l \in Lists, x \in free}
        \cup {AddHead(c, l, x) : l \in Lists, x \in free}
        \cup UNION {{Delete(c, l, k) : k \in 1 .. Len(c[l])} : l \in Lists}

Next ==
  \E before \in {contents}, after \in {contents'} : after \in Results(before)

Spec == Init /\ [][Next]_contents
===============================================================================

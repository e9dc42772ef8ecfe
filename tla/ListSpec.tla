------------------------------ MODULE ListSpec ------------------------------
(***************************************************************************)
(* What inc/list.h promises: every head has a sequence of items, and no    *)
(* item is twice in them.                                                  *)
(***************************************************************************)
EXTENDS Naturals, Sequences

CONSTANTS Heads, Items

VARIABLE lists

Held == UNION {{lists[h][k] : k \in DOMAIN lists[h]} : h \in Heads}
Without(n) == [h \in Heads |-> SelectSeq(lists[h], LAMBDA m : m # n)]

Init == lists = [h \in Heads |-> << >>]

Add(n, h) == n \notin Held /\ lists' = [lists EXCEPT ![h] = <<n>> \o @]
AddTail(n, h) == n \notin Held /\ lists' = [lists EXCEPT ![h] = Append(@, n)]
Del(n) == n \in Held /\ lists' = Without(n)
Move(n, h) == n \in Held /\ lists' = [Without(n) EXCEPT ![h] = <<n>> \o @]
MoveTail(n, h) == n \in Held /\ lists' = [Without(n) EXCEPT ![h] = Append(@, n)]
RotateLeft(h) == lists[h] # << >> /\ lists' = [lists EXCEPT ![h] = Append(Tail(@), Head(@))]

(* new takes the place of old. *)
Replace(old, new) ==
  /\ old \in Held /\ new \notin Held
  /\ lists' = [h \in Heads |-> [k \in DOMAIN lists[h] |-> IF lists[h][k] = old THEN new ELSE lists[h][k]]]

(* The first n items of h become the list l. *)
Cut(l, h, n) ==
  /\ l # h /\ lists[l] = << >> /\ n \in 0..Len(lists[h])
  /\ lists' = [lists EXCEPT ![l] = SubSeq(lists[h], 1, n), ![h] = SubSeq(@, n + 1, Len(@))]

Splice(l, h) == l # h /\ lists' = [lists EXCEPT ![h] = lists[l] \o @, ![l] = << >>]
SpliceTail(l, h) == l # h /\ lists' = [lists EXCEPT ![h] = @ \o lists[l], ![l] = << >>]

(* A call that changes no list is a stutter. *)
Next ==
  /\ lists' # lists
  /\ \/ \E n \in Items, h \in Heads : Add(n, h) \/ AddTail(n, h) \/ Move(n, h) \/ MoveTail(n, h)
     \/ \E n \in Items : Del(n)
     \/ \E old, new \in Items : Replace(old, new)
     \/ \E h \in Heads : RotateLeft(h)
     \/ \E l, h \in Heads : Splice(l, h) \/ SpliceTail(l, h) \/ \E n \in 0..Len(lists[h]) : Cut(l, h, n)

Spec == Init /\ [][Next]_lists
=============================================================================

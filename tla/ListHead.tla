------------------------------ MODULE ListHead ------------------------------
(***************************************************************************)
(* The lists of inc/list.h, on which every queue, pool and table of the    *)
(* program is built: a ring of next and prev pointers through a head and   *)
(* its items.  The operators have the names and the assignments of the     *)
(* functions, on a memory m of pointers; the steps call them as the header *)
(* allows: an item is added when it is on no list, and taken from a list   *)
(* when it is on one.                                                      *)
(***************************************************************************)
EXTENDS Naturals, Sequences, FiniteSets

CONSTANTS
  Heads, Items,
  NULL

Nodes == Heads \cup Items

ASSUME NodesAssumption == NULL \notin Nodes /\ Heads \cap Items = {}

VARIABLE mem   (* [next, prev]: the pointers of every node *)

INIT_LIST_HEAD(m, list) ==
  [next |-> [m.next EXCEPT ![list] = list], prev |-> [m.prev EXCEPT ![list] = list]]

(* __list_add: between prev and next. *)
AddBetween(m, new, prev, next) ==
  [next |-> [m.next EXCEPT ![new] = next, ![prev] = new],
   prev |-> [m.prev EXCEPT ![next] = new, ![new] = prev]]

list_add(m, new, head) == AddBetween(m, new, head, m.next[head])
list_add_tail(m, new, head) == AddBetween(m, new, m.prev[head], head)

(* __list_del: prev and next become neighbours. *)
Unlink(m, prev, next) ==
  [next |-> [m.next EXCEPT ![prev] = next], prev |-> [m.prev EXCEPT ![next] = prev]]

DelEntry(m, entry) == Unlink(m, m.prev[entry], m.next[entry])

list_del(m, entry) ==
  LET d == DelEntry(m, entry)
  IN  [next |-> [d.next EXCEPT ![entry] = NULL], prev |-> [d.prev EXCEPT ![entry] = NULL]]

list_del_init(m, entry) == INIT_LIST_HEAD(DelEntry(m, entry), entry)
list_move(m, list, head) == list_add(DelEntry(m, list), list, head)

(* mutant: the place at the tail is looked up before the item is unlinked *)
MoveTailStale(m, list, head) == AddBetween(DelEntry(m, list), list, m.prev[head], head)

list_move_tail(m, list, head) == list_add_tail(DelEntry(m, list), list, head)

list_replace(m, old, new) ==
  LET relinked == [m.prev EXCEPT ![m.next[old]] = new]
      prev == [relinked EXCEPT ![new] = relinked[old]]
  IN  [next |-> [m.next EXCEPT ![new] = m.next[old], ![prev[new]] = new], prev |-> prev]

list_replace_init(m, old, new) == INIT_LIST_HEAD(list_replace(m, old, new), old)

list_empty(m, head) == m.next[head] = head
list_is_singular(m, head) == ~list_empty(m, head) /\ m.next[head] = m.prev[head]
list_is_last(m, list, head) == m.next[list] = head
list_rotate_left(m, head) == IF list_empty(m, head) THEN m ELSE list_move_tail(m, m.next[head], head)

(* mutant: the first node left on head keeps its old prev *)
CutLeavesPrev(m, list, head, entry) ==
  LET new_first == m.next[entry]
  IN  [next |-> [m.next EXCEPT ![list] = m.next[head], ![entry] = list, ![head] = new_first],
       prev |-> [m.prev EXCEPT ![m.next[head]] = list, ![list] = entry]]

(* __list_cut_position: everything from head to entry moves to list. *)
CutAt(m, list, head, entry) ==
  LET new_first == m.next[entry]
  IN  [next |-> [m.next EXCEPT ![list] = m.next[head], ![entry] = list, ![head] = new_first],
       prev |-> [m.prev EXCEPT ![m.next[head]] = list, ![list] = entry, ![new_first] = head]]

list_cut_position(m, list, head, entry) ==
  CASE list_empty(m, head) -> m
    [] list_is_singular(m, head) /\ m.next[head] # entry /\ head # entry -> m
    [] ~list_empty(m, head) /\ entry = head -> INIT_LIST_HEAD(m, list)
    [] OTHER -> CutAt(m, list, head, entry)

(* __list_splice: what hangs on list goes between prev and next. *)
SpliceBetween(m, list, prev, next) ==
  LET first == m.next[list]
      last == m.prev[list]
  IN  [next |-> [m.next EXCEPT ![prev] = first, ![last] = next],
       prev |-> [m.prev EXCEPT ![first] = prev, ![next] = last]]

list_splice_init(m, list, head) ==
  IF list_empty(m, list) THEN m
  ELSE INIT_LIST_HEAD(SpliceBetween(m, list, head, m.next[head]), list)

list_splice_tail_init(m, list, head) ==
  IF list_empty(m, list) THEN m
  ELSE INIT_LIST_HEAD(SpliceBetween(m, list, m.prev[head], head), list)

-----------------------------------------------------------------------------
(* Iteration: the nodes seen from head along a pointer, up to the head. *)

Walk(ptr, head) ==
  LET seen[k \in 0..Cardinality(Nodes)] ==
        IF k = 0 THEN << >>
        ELSE LET s == seen[k - 1]
                 pos == ptr[IF s = << >> THEN head ELSE s[Len(s)]]
             IN  IF pos \in {head, NULL} THEN s ELSE Append(s, pos)
  IN  seen[Cardinality(Nodes)]

list_for_each(m, head) == Walk(m.next, head)
list_for_each_prev(m, head) == Walk(m.prev, head)

-----------------------------------------------------------------------------
(* The callers.  An item that was never added or was deleted points to       *)
(* itself or to NULL.                                                        *)

Unlinked(n) == mem.next[n] \in {n, NULL}
Linked(n) == ~Unlinked(n)

ListInit == mem = [next |-> [n \in Nodes |-> n], prev |-> [n \in Nodes |-> n]]

Prepare(n) == Unlinked(n) /\ mem' = INIT_LIST_HEAD(mem, n)
Add(n, h) == Unlinked(n) /\ mem' = list_add(mem, n, h)
AddTail(n, h) == Unlinked(n) /\ mem' = list_add_tail(mem, n, h)
Del(n) == Linked(n) /\ mem' = list_del(mem, n)
DelInit(n) == Linked(n) /\ mem' = list_del_init(mem, n)
Move(n, h) == Linked(n) /\ mem' = list_move(mem, n, h)
MoveTail(n, h) == Linked(n) /\ mem' = list_move_tail(mem, n, h)
ReplaceInit(old, new) == Linked(old) /\ Unlinked(new) /\ mem' = list_replace_init(mem, old, new)
RotateLeft(h) == mem' = list_rotate_left(mem, h)

OnList(h, n) == Linked(n) /\ \E k \in DOMAIN list_for_each(mem, h) : list_for_each(mem, h)[k] = n

Cut(l, h, entry) ==
  /\ l # h /\ list_empty(mem, l)
  /\ entry = h \/ OnList(h, entry)
  /\ mem' = list_cut_position(mem, l, h, entry)

(* Two heads of different lists. *)
Apart(l, h) == l # h /\ mem.next[h] # l /\ mem.prev[h] # l

SpliceInit(l, h) == Apart(l, h) /\ mem' = list_splice_init(mem, l, h)
SpliceTailInit(l, h) == Apart(l, h) /\ mem' = list_splice_tail_init(mem, l, h)

ListNext ==
  \/ \E n \in Items : Prepare(n) \/ Del(n) \/ DelInit(n)
  \/ \E n \in Items, h \in Heads : Add(n, h) \/ AddTail(n, h) \/ Move(n, h) \/ MoveTail(n, h)
  \/ \E old, new \in Items : ReplaceInit(old, new)
  \/ \E h \in Heads : RotateLeft(h)
  \/ \E l, h \in Heads : SpliceInit(l, h) \/ SpliceTailInit(l, h)
  \/ \E l, h \in Heads : \E entry \in Items \cup {h} : Cut(l, h, entry)

ListHeadSpec == ListInit /\ [][ListNext]_mem

-----------------------------------------------------------------------------
(* Properties *)

(* The two pointers of every node mirror each other, and only a deleted item *)
(* has none: so that any caller can unlink any item from whatever list it is *)
(* on without knowing the list (list_del and __list_del_entry, used by every *)
(* module of the program).                                                   *)
Mirrored(m, n) ==
  /\ m.next[n] \in Nodes /\ m.prev[m.next[n]] = n
  /\ m.prev[n] \in Nodes /\ m.next[m.prev[n]] = n

WellLinked ==
  \A n \in Nodes : Mirrored(mem, n) \/ (n \in Items /\ mem.next[n] = NULL /\ mem.prev[n] = NULL)

Promise == INSTANCE ListSpec WITH lists <- [h \in Heads |-> list_for_each(mem, h)]

(* Walked forwards the rings are sequences that change as the header's       *)
(* comments say: nothing is lost, doubled or reordered by a cut, a splice,   *)
(* a move or a rotation, whatever is on the lists.                           *)
RingsAreSequences == Promise!Spec
=============================================================================

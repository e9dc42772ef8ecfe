------------------------------ MODULE JsonTree ------------------------------
(***************************************************************************)
(* utils/cJSON.c: trees built and changed in memory.  The children of an   *)
(* array or object are a chain of cells that ends in NULL both ways, child *)
(* points to its first.  A reference is a copy of a cell that shares the   *)
(* chain of the original.  What an item says, and whether its name is a    *)
(* constant string, does not matter here.                                  *)
(*                                                                         *)
(* The user adds what is not in a tree yet, deletes what is not in a tree, *)
(* neither changes nor deletes an item that a reference shares, and makes  *)
(* no item part of itself.                                                 *)
(***************************************************************************)
EXTENDS Naturals, Sequences, SequencesExt, FiniteSets

CONSTANTS
  Cells,       (* the memory malloc gives                                  *)
  NULL,        (* none of them                                             *)
  ItemNames,   (* names given to members                                   *)
  lower,       (* tolower: [names -> names]                                *)
  MaxNumbers   (* bound: the numbers in an array created of numbers        *)

VARIABLES
  cells,       (* the allocated cells: [a set of Cells -> cell]            *)
  held,        (* those the user holds: none is in a tree                  *)
  kids         (* history: the children of each, as they should be         *)

vars == <<cells, held, kids>>

NoName == "no name"

(* cJSON_New_Item and what creates items of one type or another. *)
NewItem == [next |-> NULL, prev |-> NULL, child |-> NULL, string |-> NoName, IsReference |-> FALSE]

Free == Cells \ DOMAIN cells
malloc == CHOOSE n \in Free : TRUE

With(m, n, cell) == [k \in DOMAIN m \cup {n} |-> IF k = n THEN cell ELSE m[k]]
Without(m, gone) == [k \in DOMAIN m \ gone |-> m[k]]

(* The cells of a chain, from the first on. *)
RECURSIVE chain(_, _)
chain(m, first) == IF first = NULL THEN << >> ELSE <<first>> \o chain(m, m[first].next)

Children(m, array) == chain(m, m[array].child)
ArraySize(m, array) == Len(Children(m, array))

(* cJSON_GetArrayItem; an item number past the end gives none. *)
GetItem(m, array, which) ==
  IF which < ArraySize(m, array) THEN Children(m, array)[which + 1] ELSE NULL

(* The number of the first member with the name, or that of none. *)
Find(m, object, string) ==
  LET named == {i \in DOMAIN Children(m, object) :
                  LET s == m[Children(m, object)[i]].string
                  IN  s # NoName /\ lower[s] = lower[string]}
  IN  IF named = {} THEN ArraySize(m, object) ELSE (CHOOSE i \in named : \A j \in named : i <= j) - 1

(* The cells cJSON_Delete frees: c, those after it and those below them, but *)
(* not those a reference shares.                                             *)
RECURSIVE Deleted(_, _)
Deleted(m, c) ==
  IF c = NULL THEN {}
  ELSE {c} \cup Deleted(m, m[c].next) \cup (IF m[c].IsReference THEN {} ELSE Deleted(m, m[c].child))

cJSON_Delete(m, c) == Without(m, Deleted(m, c))

cJSON_AddItemToArray(m, array, item) ==
  IF m[array].child = NULL THEN [m EXCEPT ![array].child = item]
  ELSE LET end == Last(Children(m, array))
       IN  [m EXCEPT ![end].next = item, ![item].prev = end]

(* The chain closes behind c, which is taken out of it. *)
cJSON_DetachItem(m, array, c) ==
  LET before == m[c].prev
      after == m[c].next
  IN  [n \in DOMAIN m |->
         CASE n = c -> [m[n] EXCEPT !.prev = NULL, !.next = NULL]
           [] n = before -> [m[n] EXCEPT !.next = after]
           [] n = after -> [m[n] EXCEPT !.prev = before]
           [] n = array /\ m[array].child = c -> [m[n] EXCEPT !.child = after]
           [] OTHER -> m[n]]

(* An item goes before c. *)
cJSON_InsertItem(m, array, c, item) ==
  LET before == m[c].prev IN
  [n \in DOMAIN m |->
     CASE n = item -> [m[n] EXCEPT !.next = c, !.prev = before]
       [] n = c -> [m[n] EXCEPT !.prev = item]
       [] n = before -> [m[n] EXCEPT !.next = item]
       [] n = array /\ m[array].child = c -> [m[n] EXCEPT !.child = item]
       [] OTHER -> m[n]]

(* An item takes the place of c, which is deleted. *)
cJSON_ReplaceItem(m, array, c, item) ==
  LET before == m[c].prev
      after == m[c].next
      linked == [n \in DOMAIN m |->
        CASE n = item -> [m[n] EXCEPT !.next = after, !.prev = before]
          [] n = c -> [m[n] EXCEPT !.next = NULL, !.prev = NULL]
          [] n = before -> [m[n] EXCEPT !.next = item]
          [] n = after -> [m[n] EXCEPT !.prev = item]
          [] n = array /\ m[array].child = c -> [m[n] EXCEPT !.child = item]
          [] OTHER -> m[n]]
  IN  cJSON_Delete(linked, c)

(* cJSON_Duplicate: the copy of item at n, without and with its children.    *)
(* The copies of a reference's children are its own.                         *)
Copy(m, n, item) == With(m, n, [NewItem EXCEPT !.string = m[item].string])

RECURSIVE Duplicate(_, _, _)
Duplicate(m, n, item) ==
  LET Add(acc, kid) ==
        LET k == CHOOSE x \in Cells : x \notin DOMAIN acc
        IN  cJSON_AddItemToArray(Duplicate(acc, k, kid), n, k)
  IN  FoldLeft(Add, Copy(m, n, item), Children(m, item))

RECURSIVE Copies(_, _)
Copies(m, item) == FoldLeft(LAMBDA s, kid : s + Copies(m, kid), 1, Children(m, item))

-----------------------------------------------------------------------------
(* What the user may call *)

Below(n) == Deleted([cells EXCEPT ![n].next = NULL], n)
RECURSIVE Reached(_)
Reached(n) == {n} \cup UNION {Reached(k) : k \in ToSet(Children(cells, n))}
Shared(n) == \E r \in DOMAIN cells \ {n} : /\ cells[r].IsReference
                                            /\ cells[r].child # NULL /\ cells[r].child = cells[n].child
(* Items whose children may change, and sets of cells that may be deleted.   *)
MayChange(n) == ~cells[n].IsReference /\ ~Shared(n)
MayDelete(gone) ==
  \A r \in DOMAIN cells \ gone : cells[r].IsReference => cells[r].child \notin gone

Kids(array, items) == kids' = [kids EXCEPT ![array] = items]

Create ==
  /\ Free # {}
  /\ cells' = With(cells, malloc, NewItem)
  /\ held' = held \cup {malloc}
  /\ kids' = With(kids, malloc, << >>)

(* cJSON_CreateIntArray and its like: an array of n new items. *)
CreateArray(n) ==
  LET array == malloc
      Add(m, i) == LET k == CHOOSE x \in Cells : x \notin DOMAIN m
                   IN  cJSON_AddItemToArray(With(m, k, NewItem), array, k)
      made == FoldLeft(Add, With(cells, array, NewItem), [i \in 1 .. n |-> i])
  IN  /\ Cardinality(Free) > n
      /\ cells' = made
      /\ held' = held \cup {array}
      /\ kids' = [k \in DOMAIN made |-> IF k \in DOMAIN cells THEN kids[k] ELSE Children(made, k)]

(* An item that is not in a tree, and an array it may come into. *)
Fits(array, item) ==
  /\ item \in held /\ array \in DOMAIN cells
  /\ array \notin Reached(item) /\ MayChange(array)

AddItemToArray(array, item) ==
  /\ Fits(array, item)
  /\ cells' = cJSON_AddItemToArray(cells, array, item)
  /\ held' = held \ {item}
  /\ Kids(array, Append(kids[array], item))

AddItemToObject(object, string, item) ==
  /\ Fits(object, item)
  /\ cells' = cJSON_AddItemToArray([cells EXCEPT ![item].string = string], object, item)
  /\ held' = held \ {item}
  /\ Kids(object, Append(kids[object], item))

(* create_reference takes what the item is, but not its name. *)
AddItemReferenceToArray(array, item) ==
  LET ref == [NewItem EXCEPT !.child = cells[item].child, !.IsReference = TRUE] IN
  /\ Free # {} /\ MayChange(array) /\ array \notin Reached(item)
  /\ cells' = cJSON_AddItemToArray(With(cells, malloc, ref), array, malloc)
  /\ kids' = With([kids EXCEPT ![array] = Append(@, malloc)], malloc, kids[item])
  /\ UNCHANGED held

Detach(array, which) ==
  LET c == GetItem(cells, array, which) IN
  /\ MayChange(array) /\ c # NULL
  /\ cells' = cJSON_DetachItem(cells, array, c)
  /\ held' = held \cup {c}
  /\ Kids(array, RemoveAt(kids[array], which + 1))

DeleteItem(array, which) ==
  LET c == GetItem(cells, array, which) IN
  /\ MayChange(array) /\ c # NULL /\ MayDelete(Below(c))
  /\ cells' = cJSON_Delete(cJSON_DetachItem(cells, array, c), c)
  /\ kids' = Without([kids EXCEPT ![array] = RemoveAt(@, which + 1)], Below(c))
  /\ UNCHANGED held

(* Past the end of the array the item is added to it. *)
InsertItemInArray(array, which, item) ==
  LET c == GetItem(cells, array, which) IN
  /\ Fits(array, item)
  /\ cells' = IF c = NULL THEN cJSON_AddItemToArray(cells, array, item)
              ELSE cJSON_InsertItem(cells, array, c, item)
  /\ held' = held \ {item}
  /\ Kids(array, IF c = NULL THEN Append(kids[array], item)
                 ELSE InsertAt(kids[array], which + 1, item))

Replace(array, which, item, string) ==
  LET c == GetItem(cells, array, which) IN
  /\ Fits(array, item) /\ c # NULL /\ MayDelete(Below(c))
  /\ cells' = cJSON_ReplaceItem([cells EXCEPT ![item].string = string], array, c, item)
  /\ held' = held \ {item}
  /\ kids' = Without([kids EXCEPT ![array][which + 1] = item], Below(c))

Delete(item) ==
  /\ item \in held /\ MayDelete(Below(item))
  /\ cells' = cJSON_Delete(cells, item)
  /\ held' = held \ {item}
  /\ kids' = Without(kids, Below(item))

(* Without memory for all of it there is no copy. *)
DuplicateItem(item, recurse) ==
  LET copy == IF recurse THEN Duplicate(cells, malloc, item) ELSE Copy(cells, malloc, item)
      made == DOMAIN copy \ DOMAIN cells
  IN  /\ Cardinality(Free) >= IF recurse THEN Copies(cells, item) ELSE 1
      /\ cells' = copy
      /\ held' = held \cup {malloc}
      /\ kids' = [n \in DOMAIN copy |-> IF n \in made THEN Children(copy, n) ELSE kids[n]]

Init == cells = << >> /\ held = {} /\ kids = << >>

Next ==
  \/ Create
  \/ \E n \in 1 .. MaxNumbers : CreateArray(n)
  \/ \E item \in DOMAIN cells :
       \/ Delete(item)
       \/ \E recurse \in BOOLEAN : DuplicateItem(item, recurse)
       \/ \E array \in DOMAIN cells :
            \/ AddItemToArray(array, item)
            \/ \E string \in ItemNames : AddItemToObject(array, string, item)
            \/ AddItemReferenceToArray(array, item)
            \/ \E which \in 0 .. ArraySize(cells, array) : InsertItemInArray(array, which, item)
            \/ \E which \in 0 .. ArraySize(cells, array) :
                 Replace(array, which, item, cells[item].string)
            \/ \E string \in ItemNames :
                 Replace(array, Find(cells, array, string), item, string)
  \/ \E array \in DOMAIN cells :
       \/ \E which \in 0 .. ArraySize(cells, array) : Detach(array, which) \/ DeleteItem(array, which)
       \/ \E string \in ItemNames :
            LET which == Find(cells, array, string) IN Detach(array, which) \/ DeleteItem(array, which)

-----------------------------------------------------------------------------
(* Properties *)

(* Every chain holds the children it should, linked the same both ways.      *)
ChainsAreLists ==
  \A n \in DOMAIN cells :
    LET list == Children(cells, n) IN
    /\ list = kids[n]
    /\ \A i \in DOMAIN list : cells[list[i]].prev = IF i = 1 THEN NULL ELSE list[i - 1]

(* Every allocated cell is in the user's hands or below an item that is, and *)
(* in one place only: none leaks, none is freed twice or used afterwards,    *)
(* references included.                                                      *)
EveryCellHasOneOwner ==
  /\ UNION {Below(h) : h \in held} = DOMAIN cells
  /\ \A h, g \in held : h # g => Below(h) \cap Below(g) = {}
  /\ \A h \in held : cells[h].next = NULL /\ cells[h].prev = NULL

(* However a tree is built, changed, copied and taken apart, its items are   *)
(* the ones put there, in their order, and memory is neither lost nor freed  *)
(* twice (cJSON.c 80-94, 660-733).                                           *)
TreesAreAsBuilt == ChainsAreLists /\ EveryCellHasOneOwner
=============================================================================

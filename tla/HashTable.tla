----------------------------- MODULE HashTable -----------------------------
(***************************************************************************)
(* utils/bhash.c: a table of elements the callers own, each linked into    *)
(* the bucket its key hashes to.  It is to behave as a map from keys to    *)
(* elements.                                                               *)
(***************************************************************************)
EXTENDS Naturals, Sequences, SequencesExt, FiniteSets, Bitwise

CONSTANTS
  Keys,         (* sequences of bytes, all of key_size; short: no overflow *)
  Elements,
  key,          (* [Elements -> Keys]: the key in the element              *)
  numBuckets,
  NULL

Buckets == 0 .. (numBuckets - 1)

VARIABLES
  buckets,      (* [Buckets -> Seq(Elements)]                              *)
  call          (* the last call: its function, argument and result        *)

vars == <<buckets, call>>

djb_hash(k) == FoldLeft(LAMBDA h, byte : (33 * h) ^^ byte, 0, k)

ndx(k) == djb_hash(k) % numBuckets

Matches(k) == SelectSeq(buckets[ndx(k)], LAMBDA e : key[e] = k)

bhash_lookup(k) == IF Matches(k) = << >> THEN NULL ELSE Head(Matches(k))

Done(op, arg, ret) == call' = [op |-> op, arg |-> arg, ret |-> ret]

Init ==
  /\ buckets = [b \in Buckets |-> << >>]
  /\ call = [op |-> "init", arg |-> NULL, ret |-> NULL]

(* mutant: the new element is linked without a look at the keys there *)
AddAlways(e) ==
  /\ buckets' = [buckets EXCEPT ![ndx(key[e])] = Append(@, e)]
  /\ Done("add", e, 1)

bhash_add(e) ==
  \/ /\ bhash_lookup(key[e]) # NULL
     /\ Done("add", e, 0)
     /\ UNCHANGED buckets
  \/ /\ bhash_lookup(key[e]) = NULL
     /\ buckets' = [buckets EXCEPT ![ndx(key[e])] = Append(@, e)]
     /\ Done("add", e, 1)

(* The first element with the key is unlinked. *)
bhash_del(k) ==
  \/ /\ bhash_lookup(k) = NULL
     /\ Done("del", k, 0)
     /\ UNCHANGED buckets
  \/ /\ bhash_lookup(k) # NULL
     /\ buckets' = [buckets EXCEPT ![ndx(k)] = SelectSeq(@, LAMBDA e : e # bhash_lookup(k))]
     /\ Done("del", k, 1)

Lookup(k) == Done("lookup", k, bhash_lookup(k)) /\ UNCHANGED buckets

Next ==
  \/ \E e \in Elements : bhash_add(e)
  \/ \E k \in Keys : bhash_del(k) \/ Lookup(k)

-----------------------------------------------------------------------------
(* The map the table stands for: for each key, the elements with that key in *)
(* whatever bucket they are.                                                 *)
Stored(k) == {e \in Elements : key[e] = k /\ \E b \in Buckets : Contains(buckets[b], e)}

(* What a call does to the map: an element is put under a free key and       *)
(* refused under a taken one, a key deleted is gone, a lookup finds the one  *)
(* element stored; keys of the same bucket do not disturb each other, and no *)
(* key has two elements (bhash.c 112-194).                                   *)
MapStep ==
  LET k == IF call'.op = "add" THEN key[call'.arg] ELSE call'.arg
      after == CASE call'.op = "add" /\ Stored(k) = {} -> {call'.arg}
                 [] call'.op = "del" -> {}
                 [] OTHER -> Stored(k)
      ret == CASE call'.op = "add" -> IF Stored(k) = {} THEN 1 ELSE 0
               [] call'.op = "del" -> IF Stored(k) = {} THEN 0 ELSE 1
               [] OTHER -> IF Stored(k) = {} THEN NULL ELSE CHOOSE e \in Stored(k) : TRUE
  IN  /\ call'.ret = ret
      /\ \A x \in Keys : Stored(x)' = (IF x = k THEN after ELSE Stored(x))
      /\ Cardinality(after) <= 1

HashIsMap == [][MapStep]_vars
=============================================================================

----------------------------- MODULE ByteQueue -----------------------------
(***************************************************************************)
(* What circ_buffer.c promises: a bounded first-in first-out queue of      *)
(* bytes whose operations take the whole request or nothing.  The last     *)
(* call's return value and the bytes it copied out are observable.         *)
(***************************************************************************)
EXTENDS Integers, Sequences

CONSTANTS
  Byte,       (* the bytes                              *)
  Capacity,   (* how many the queue holds               *)
  MaxLen      (* the longest request a caller makes     *)

VARIABLES
  queue,      (* the bytes held, oldest first                     *)
  out         (* <<return value, bytes copied>> of the last call  *)

vars == <<queue, out>>

Ok(bytes) == <<0, bytes>>
Error == <<-1, << >>>>

Requests == 0 .. MaxLen
Data == UNION {[1 .. n -> Byte] : n \in Requests}

Init == queue = << >> /\ out = Ok(<< >>)

Put(data) ==
  IF Len(queue) + Len(data) <= Capacity
  THEN queue' = queue \o data /\ out' = Ok(<< >>)
  ELSE out' = Error /\ UNCHANGED queue

First(n) == SubSeq(queue, 1, n)
Rest(n) == SubSeq(queue, n + 1, Len(queue))

(* Remove n bytes and return those in copied. *)
Remove(n, copied) ==
  IF n <= Len(queue)
  THEN queue' = Rest(n) /\ out' = Ok(copied)
  ELSE out' = Error /\ UNCHANGED queue

Get(n) == Remove(n, First(n))
Advance(n) == Remove(n, << >>)

Peek(n) ==
  /\ out' = IF n <= Len(queue) THEN Ok(First(n)) ELSE Error
  /\ UNCHANGED queue

Reset == queue' = << >> /\ out' = Ok(<< >>)

Next ==
  \/ \E data \in Data : Put(data)
  \/ \E n \in Requests : Get(n) \/ Advance(n) \/ Peek(n)
  \/ Reset

Spec == Init /\ [][Next]_vars
=============================================================================

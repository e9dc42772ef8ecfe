--------------------------- MODULE CircBufferSpec ---------------------------
(***************************************************************************)
(* One circular buffer under any sequence of calls, checked against the    *)
(* byte queue it stands for.                                               *)
(***************************************************************************)
EXTENDS CircBuffer

CONSTANTS
  Size,      (* the size given to circ_buffer_init        *)
  Byte,      (* the bytes stored                          *)
  MaxLen     (* bound: the longest request a caller makes *)

ASSUME SizeAssumption == Size \in Nat \ {0}
ASSUME MaxLenAssumption == MaxLen \in Nat

VARIABLES
  cb,        (* the circ_buffer_t                                        *)
  out        (* <<return value, bytes copied out>> of the last call      *)

vars == <<cb, out>>

Ok(bytes) == <<0, bytes>>
Error == <<-1, << >>>>

Requests == 0 .. MaxLen
Data == UNION {[1 .. n -> Byte] : n \in Requests}

Init ==
  /\ \E cells \in [0 .. (Size - 1) -> Byte] : cb = CBInit(Size, cells)
  /\ out = Ok(<< >>)

CallPut(data) ==
  /\ cb' = Put(cb, data)
  /\ out' = IF Fits(cb, Len(data)) THEN Ok(<< >>) ELSE Error

CallGet(n) ==
  /\ cb' = Advance(cb, n)
  /\ out' = IF Has(cb, n) THEN Ok(Peeked(cb, n)) ELSE Error

CallPeek(n) ==
  /\ out' = IF Has(cb, n) THEN Ok(Peeked(cb, n)) ELSE Error
  /\ UNCHANGED cb

CallAdvance(n) ==
  /\ cb' = Advance(cb, n)
  /\ out' = IF Has(cb, n) THEN Ok(<< >>) ELSE Error

CallReset ==
  /\ cb' = Reset(cb)
  /\ out' = Ok(<< >>)

Next ==
  \/ \E data \in Data : CallPut(data)
  \/ \E n \in Requests : CallGet(n) \/ CallPeek(n) \/ CallAdvance(n)
  \/ CallReset

Spec == Init /\ [][Next]_vars

-----------------------------------------------------------------------------
(* Properties *)

(* begin, end and data_size stay consistent: the indices never leave the    *)
(* array and data_size is the distance between them, also when the buffer   *)
(* is full or empty and the two indices are equal (circ_buffer.c 62-80,     *)
(* 97-115, 132-138).                                                        *)
IndicesOK == cb \in CircBufferType(Size, Byte) /\ ConsistentIndices(cb)

(* Through any sequence of puts, gets, peeks, advances and resets, wrapped   *)
(* or not, the buffer behaves as a bounded FIFO queue that takes a request   *)
(* whole or not at all (the comments at circ_buffer.c 49-58, 84-93).         *)
Queue == INSTANCE ByteQueue WITH queue <- Contents(cb), Capacity <- Size
RingIsByteQueue == Queue!Spec
=============================================================================

----------------------------- MODULE CircBuffer -----------------------------
(***************************************************************************)
(* utils/circ_buffer.c as operators on a record: the circular byte buffer  *)
(* behind every stream's transmit queue.  An operator returns the buffer   *)
(* after the call; whether the call returned 0 or -1 is the matching       *)
(* "Fits"/"Has" predicate, and what it copied out is Peeked.               *)
(***************************************************************************)
EXTENDS Integers, Sequences

(* A buffer of n bytes; malloc leaves the cells with whatever bytes they hold. *)
CBInit(n, cells) ==
  [size |-> n, cells |-> cells, begin |-> 0, end |-> 0, data_size |-> 0]

IsEmpty(cb) == cb.data_size = 0

(* circ_buffer_put returns 0 exactly when the whole data fits. *)
Fits(cb, n) == cb.data_size + n <= cb.size

(* circ_buffer_get, _peek and _advance return 0 exactly when n bytes are there. *)
Has(cb, n) == cb.data_size - n >= 0

(* The cells after put's one memcpy, or two when the data wraps. *)
Stored(cb, data) ==
  LET begin_len == cb.size - cb.end IN
  [i \in 0 .. (cb.size - 1) |->
     IF cb.end <= i /\ i < cb.end + Len(data) THEN data[i - cb.end + 1]
     ELSE IF i < Len(data) - begin_len THEN data[i + begin_len + 1]
     ELSE cb.cells[i]]

Put(cb, data) ==
  IF Fits(cb, Len(data))
  THEN [cb EXCEPT !.cells = Stored(cb, data),
                  !.end = (@ + Len(data)) % cb.size,
                  !.data_size = @ + Len(data)]
  ELSE cb

(* mutant: one byte too few is taken from the end of the cells *)
PeekedShort(cb, n) ==
  [j \in 1 .. n |->
     IF cb.begin + j < cb.size THEN cb.cells[cb.begin + j - 1]
     ELSE cb.cells[(cb.begin + j) % cb.size]]

(* The n bytes that get and peek copy out, in one memcpy or two. *)
Peeked(cb, n) ==
  [j \in 1 .. n |->
     IF cb.begin + j <= cb.size THEN cb.cells[cb.begin + j - 1]
     ELSE cb.cells[cb.begin + j - 1 - cb.size]]

(* circ_buffer_advance, and the removal at the end of circ_buffer_get. *)
Advance(cb, n) ==
  IF Has(cb, n)
  THEN [cb EXCEPT !.begin = (@ + n) % cb.size, !.data_size = @ - n]
  ELSE cb

(* circ_buffer_reset empties the buffer and leaves size and cells as they are. *)
Reset(cb) == CBInit(cb.size, cb.cells)

(* What the buffer holds, oldest byte first. *)
Contents(cb) == [j \in 1 .. cb.data_size |-> cb.cells[(cb.begin + j - 1) % cb.size]]

(* The indices are inside the array and data_size is their distance. *)
ConsistentIndices(cb) ==
  /\ cb.begin \in 0 .. (cb.size - 1)
  /\ cb.end \in 0 .. (cb.size - 1)
  /\ cb.data_size \in 0 .. cb.size
  /\ cb.end = (cb.begin + cb.data_size) % cb.size

CircBufferType(n, B) ==
  [size : {n}, cells : [0 .. (n - 1) -> B], begin : Int, end : Int, data_size : Int]
=============================================================================

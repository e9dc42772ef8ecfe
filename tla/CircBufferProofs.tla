-------------------------- MODULE CircBufferProofs --------------------------
(***************************************************************************)
(* For every size, byte alphabet and sequence of calls, the indices of a   *)
(* circular buffer stay inside its array and consistent with data_size,    *)
(* and the buffer is the byte queue it stands for.  IndicesOK is inductive *)
(* as it stands.  What the provers cannot do is reason with % and a        *)
(* symbolic size: two lemmas replace it by a subtraction, because no index *)
(* ever exceeds twice the size.  The lemmas about Put, Advance and Peeked  *)
(* are about any record with good indices; Stream's proofs use them too.   *)
(***************************************************************************)
EXTENDS CircBufferSpec, SequenceTheorems, TLAPS

LEMMA ModSmall == ASSUME NEW s \in Nat \ {0}, NEW a \in Nat, a < s PROVE a % s = a
  BY SMT

LEMMA ModWrap == ASSUME NEW s \in Nat \ {0}, NEW a \in Nat, s <= a, a < 2 * s PROVE a % s = a - s
  BY SMTT(30)

(* An index advanced by at most the size, as put and advance do. *)
Wrapped(i, n, s) == IF i + n < s THEN i + n ELSE i + n - s

LEMMA ModIsWrapped ==
  ASSUME NEW s \in Nat \ {0}, NEW i \in 0 .. (s - 1), NEW n \in 0 .. s
  PROVE  (i + n) % s = Wrapped(i, n, s)
<1>1. CASE i + n < s
  BY <1>1, ModSmall DEF Wrapped
<1>2. CASE ~(i + n < s)
  <2> DEFINE a == i + n
  <2>1. a \in Nat /\ s <= a /\ a < 2 * s
    BY <1>2
  <2> HIDE DEF a
  <2>2. a % s = a - s
    BY <2>1, ModWrap
  <2> QED
    BY <1>2, <2>2 DEF a, Wrapped
<1> QED
  BY <1>1, <1>2

(* Two advances that together stay within the size make one. *)
LEMMA WrappedTwice ==
  ASSUME NEW s \in Nat \ {0}, NEW b \in 0 .. (s - 1), NEW d \in 0 .. s, NEW n \in Nat, d + n <= s
  PROVE  Wrapped(Wrapped(b, d, s), n, s) = Wrapped(b, d + n, s)
<1>1. CASE b + d < s
  BY <1>1 DEF Wrapped
<1>2. CASE ~(b + d < s)
  BY <1>2 DEF Wrapped
<1> QED
  BY <1>1, <1>2

(* What an update of the indices leaves of the record's type. *)
Buffers(C) == [size : {Size}, cells : C, begin : Int, end : Int, data_size : Int]

LEMMA AdvancedRecord ==
  ASSUME NEW C, NEW r \in Buffers(C), NEW b \in Int, NEW d \in Int
  PROVE  LET new == [r EXCEPT !.begin = b, !.data_size = d]
         IN  new \in Buffers(C) /\ new.begin = b /\ new.end = r.end /\ new.data_size = d
  BY DEF Buffers

(* IndicesOK, with the modulo of the last index gone. *)
Indices(b) ==
  /\ b \in CircBufferType(Size, Byte)
  /\ b.begin \in 0 .. (Size - 1)
  /\ b.data_size \in 0 .. Size
  /\ b.end = Wrapped(b.begin, b.data_size, Size)

LEMMA IndicesEquivalent == IndicesOK <=> Indices(cb)
<1> USE SizeAssumption
<1>1. ASSUME cb.begin \in 0 .. (Size - 1), cb.data_size \in 0 .. Size
      PROVE  /\ (cb.begin + cb.data_size) % Size = Wrapped(cb.begin, cb.data_size, Size)
             /\ Wrapped(cb.begin, cb.data_size, Size) \in 0 .. (Size - 1)
  <2>1. (cb.begin + cb.data_size) % Size = Wrapped(cb.begin, cb.data_size, Size)
    BY <1>1, ModIsWrapped
  <2>2. Wrapped(cb.begin, cb.data_size, Size) \in 0 .. (Size - 1)
    BY <1>1 DEF Wrapped
  <2> QED
    BY <2>1, <2>2
<1>2. cb \in CircBufferType(Size, Byte) => cb.size = Size
  BY DEF CircBufferType
<1> QED
  BY <1>1, <1>2 DEF IndicesOK, ConsistentIndices, Indices

LEMMA DataIsSeq == Data \subseteq Seq(Byte)
<1>1. Requests \subseteq Nat
  BY MaxLenAssumption DEF Requests
<1> QED
  BY <1>1, SeqDef DEF Data

LEMMA PutIndices == ASSUME NEW b, Indices(b), NEW data \in Seq(Byte) PROVE Indices(Put(b, data))
<1> USE SizeAssumption
<1>1. PICK n \in Nat : data \in [1 .. n -> Byte] /\ Len(data) = n
  BY LenProperties
<1>2. CASE ~Fits(b, Len(data))
  BY <1>2 DEF Put
<1>3. CASE Fits(b, Len(data))
  <2>1. b.size = Size /\ b.cells \in [0 .. (Size - 1) -> Byte] /\ b.data_size + n <= Size
        /\ b.begin \in 0 .. (Size - 1) /\ b.data_size \in 0 .. Size
    BY <1>1, <1>3 DEF Indices, CircBufferType, Fits
  <2>2. b.end \in 0 .. (Size - 1)
    BY <2>1 DEF Indices, Wrapped
  <2>3. Stored(b, data) \in [0 .. (Size - 1) -> Byte]
    <3>1. ASSUME NEW i \in 0 .. (Size - 1), b.end <= i, i < b.end + n
          PROVE  data[i - b.end + 1] \in Byte
      BY <1>1, <2>2, <3>1
    <3>2. ASSUME NEW i \in 0 .. (Size - 1), i < n - (Size - b.end)
          PROVE  data[i + (Size - b.end) + 1] \in Byte
      <4>1. i + (Size - b.end) + 1 \in 1 .. n
        BY <2>2, <3>2
      <4> QED
        BY <1>1, <4>1
    <3> QED
      BY <1>1, <2>1, <3>1, <3>2 DEF Stored
  <2>4. (b.end + n) % Size = Wrapped(b.end, n, Size)
    <3>1. n \in 0 .. Size
      BY <2>1
    <3> QED
      BY <2>2, <3>1, ModIsWrapped
  <2>5. Wrapped(b.end, n, Size) = Wrapped(b.begin, b.data_size + n, Size)
    <3>1. b.end = Wrapped(b.begin, b.data_size, Size)
      BY DEF Indices
    <3> QED
      BY <2>1, <3>1, WrappedTwice
  <2>6. Wrapped(b.end, n, Size) \in Int
    BY <2>2 DEF Wrapped
  <2>7. b \in [size : {Size}, cells : [0 .. (Size - 1) -> Byte], begin : Int, end : Int, data_size : Int]
    BY DEF Indices, CircBufferType
  <2> DEFINE cells == Stored(b, data)
             end == (b.end + n) % Size
             len == b.data_size + n
             new == [b EXCEPT !.cells = cells, !.end = end, !.data_size = len]
  <2>8. Put(b, data) = new
    BY <1>1, <1>3, <2>1, <2>7 DEF Put
  <2>9. cells \in [0 .. (Size - 1) -> Byte] /\ end \in Int /\ len \in Int
    BY <2>1, <2>3, <2>4, <2>6
  <2> HIDE DEF cells, end, len
  <2>10. /\ new \in CircBufferType(Size, Byte)
         /\ new.begin = b.begin /\ new.end = end /\ new.data_size = len
    BY <2>7, <2>9 DEF CircBufferType
  <2> HIDE DEF new
  <2> QED
    BY <2>1, <2>4, <2>5, <2>8, <2>10 DEF Indices, end, len
<1> QED
  BY <1>2, <1>3

LEMMA AdvanceIndices == ASSUME NEW b, Indices(b), NEW n \in Nat PROVE Indices(Advance(b, n))
<1> USE SizeAssumption
<1>1. CASE ~Has(b, n)
  BY <1>1 DEF Advance
<1>2. CASE Has(b, n)
  <2>1. b.size = Size /\ b.begin \in 0 .. (Size - 1) /\ b.data_size \in 0 .. Size
        /\ n \in 0 .. Size /\ n <= b.data_size
    BY <1>2 DEF Indices, CircBufferType, Has
  <2>2. (b.begin + n) % Size = Wrapped(b.begin, n, Size)
    BY <2>1, ModIsWrapped
  <2>3. Wrapped(b.begin, n, Size) \in 0 .. (Size - 1)
    BY <2>1 DEF Wrapped
  <2>4. b.end = Wrapped(Wrapped(b.begin, n, Size), b.data_size - n, Size)
    BY <2>1 DEF Indices, Wrapped
  <2>5. b \in [size : {Size}, cells : [0 .. (Size - 1) -> Byte], begin : Int, end : Int, data_size : Int]
    BY DEF Indices, CircBufferType
  <2> DEFINE begin == (b.begin + n) % Size
             len == b.data_size - n
             new == [b EXCEPT !.begin = begin, !.data_size = len]
  <2>6. Advance(b, n) = new
    BY <1>2, <2>1, <2>5 DEF Advance
  <2>7. begin \in 0 .. (Size - 1) /\ len \in Int
    BY <2>1, <2>2, <2>3
  <2> HIDE DEF begin, len
  <2>8. /\ new \in CircBufferType(Size, Byte)
        /\ new.begin = begin /\ new.end = b.end /\ new.data_size = len
    <3>1. b \in Buffers([0 .. (Size - 1) -> Byte])
      BY <2>5 DEF Buffers
    <3>2. begin \in Int /\ len \in Int
      BY <2>7
    <3> QED
      BY <3>1, <3>2, AdvancedRecord DEF CircBufferType, Buffers
  <2> HIDE DEF new
  <2> QED
    BY <2>1, <2>2, <2>4, <2>6, <2>7, <2>8 DEF Indices, begin, len
<1> QED
  BY <1>1, <1>2

LEMMA ResetIndices == ASSUME NEW b, Indices(b) PROVE Indices(Reset(b))
  BY SizeAssumption DEF Indices, Reset, CBInit, CircBufferType, Wrapped

LEMMA IndicesInit == Init => Indices(cb)
  BY SizeAssumption DEF Init, CBInit, Indices, CircBufferType, Wrapped

LEMMA IndicesStep == Indices(cb) /\ [Next]_vars => Indices(cb)'
<1> SUFFICES ASSUME Indices(cb), [Next]_vars PROVE Indices(cb')
  BY DEF Indices, CircBufferType, Wrapped
<1>1. ASSUME NEW data \in Data, CallPut(data) PROVE Indices(cb')
  BY <1>1, PutIndices, DataIsSeq DEF CallPut
<1>2. ASSUME NEW n \in Requests, CallGet(n) \/ CallAdvance(n) PROVE Indices(cb')
  BY <1>2, AdvanceIndices, MaxLenAssumption DEF CallGet, CallAdvance, Requests
<1>3. ASSUME NEW n \in Requests, CallPeek(n) PROVE Indices(cb')
  BY <1>3 DEF CallPeek
<1>4. CASE CallReset
  BY <1>4, ResetIndices DEF CallReset
<1>5. CASE UNCHANGED vars
  BY <1>5 DEF vars
<1> QED
  BY <1>1, <1>2, <1>3, <1>4, <1>5 DEF Next

(* The indices of circ_buffer.c are consistent after any sequence of calls. *)
THEOREM IndicesAlwaysOK == Spec => []IndicesOK
<1>1. Spec => []Indices(cb)
  BY IndicesInit, IndicesStep, PTL DEF Spec
<1> QED
  BY <1>1, IndicesEquivalent, PTL
-----------------------------------------------------------------------------
(* What the calls do to the bytes held.                                      *)

(* The j-th byte held. *)
Cell(b, j) == b.cells[Wrapped(b.begin, j - 1, Size)]

LEMMA IndicesFacts ==
  ASSUME NEW b, Indices(b)
  PROVE  /\ b.size = Size
         /\ b.cells \in [0 .. (Size - 1) -> Byte]
         /\ b.begin \in 0 .. (Size - 1)
         /\ b.end \in 0 .. (Size - 1)
         /\ b.data_size \in 0 .. Size
         /\ b.end = Wrapped(b.begin, b.data_size, Size)
  BY SizeAssumption DEF Indices, CircBufferType, Wrapped

LEMMA ContentsUnwrapped ==
  ASSUME NEW b, Indices(b)
  PROVE  /\ Contents(b) = [j \in 1 .. b.data_size |-> Cell(b, j)]
         /\ Contents(b) \in Seq(Byte)
         /\ Len(Contents(b)) = b.data_size
<1> USE SizeAssumption, IndicesFacts
<1>1. ASSUME NEW j \in 1 .. b.data_size
      PROVE  b.cells[(b.begin + j - 1) % b.size] = Cell(b, j) /\ Cell(b, j) \in Byte
  <2>1. j - 1 \in 0 .. Size /\ j - 1 < Size
    OBVIOUS
  <2>2. (b.begin + (j - 1)) % Size = Wrapped(b.begin, j - 1, Size)
    BY <2>1, ModIsWrapped
  <2>3. Wrapped(b.begin, j - 1, Size) \in 0 .. (Size - 1)
    BY <2>1 DEF Wrapped
  <2>4. b.begin + j - 1 = b.begin + (j - 1)
    OBVIOUS
  <2> QED
    BY <2>2, <2>3, <2>4 DEF Cell
<1>2. Contents(b) = [j \in 1 .. b.data_size |-> Cell(b, j)]
  BY <1>1 DEF Contents
<1>3. Contents(b) \in [1 .. b.data_size -> Byte]
  BY <1>1, <1>2
<1>4. Contents(b) \in Seq(Byte) /\ Len(Contents(b)) = b.data_size
  <2>1. b.data_size \in Nat
    OBVIOUS
  <2> QED
    BY <1>3, <2>1, SeqDef
<1> QED
  BY <1>2, <1>4

(* Where the j-th byte of the result lies, i, when n bytes are put behind d:  *)
(* outside both memcpy's when it was there before, else inside one of them.  *)
Landing(begin, d, n, end, i, j) ==
  /\ j <= d => ~(end <= i /\ i < end + n) /\ ~(i < n - (Size - end))
  /\ ~(j <= d) =>
       \/ end <= i /\ i < end + n /\ i - end + 1 = j - d
       \/ i < end /\ i < n - (Size - end) /\ i + (Size - end) + 1 = j - d

LEMMA WhereBytesLand ==
  ASSUME NEW begin \in 0 .. (Size - 1), NEW d \in 0 .. Size, NEW n \in Nat, d + n <= Size,
         NEW j \in 1 .. (d + n)
  PROVE  Landing(begin, d, n, Wrapped(begin, d, Size), Wrapped(begin, j - 1, Size), j)
<1> USE SizeAssumption DEF Landing, Wrapped
<1>1. CASE begin + d < Size /\ begin + (j - 1) < Size
  BY <1>1
<1>2. CASE begin + d < Size /\ ~(begin + (j - 1) < Size)
  BY <1>2
<1>3. CASE ~(begin + d < Size) /\ begin + (j - 1) < Size
  BY <1>3
<1>4. CASE ~(begin + d < Size) /\ ~(begin + (j - 1) < Size)
  BY <1>4
<1> QED
  BY <1>1, <1>2, <1>3, <1>4

(* circ_buffer_put appends the data when it fits, also when it wraps. *)
LEMMA PutContents ==
  ASSUME NEW b, Indices(b), NEW data \in Seq(Byte), Fits(b, Len(data))
  PROVE  Contents(Put(b, data)) = Contents(b) \o data
<1> USE SizeAssumption
<1> DEFINE n == Len(data)
           d == b.data_size
           new == Put(b, data)
<1>1. /\ b.size = Size /\ b.begin \in 0 .. (Size - 1) /\ b.end \in 0 .. (Size - 1)
      /\ d \in 0 .. Size /\ n \in Nat /\ d + n <= Size
      /\ b.end = Wrapped(b.begin, d, Size)
  BY IndicesFacts, LenProperties DEF Fits
<1>2. /\ new.begin = b.begin
      /\ new.data_size = d + n
      /\ new.cells = Stored(b, data)
  <2> b \in [size : {Size}, cells : [0 .. (Size - 1) -> Byte], begin : Int, end : Int, data_size : Int]
    BY DEF Indices, CircBufferType
  <2> QED
    BY DEF Put
<1>3. Indices(new)
  BY PutIndices
<1> HIDE DEF new
<1>4. ASSUME NEW j \in 1 .. (d + n)
      PROVE  Cell(new, j) = IF j <= d THEN Cell(b, j) ELSE data[j - d]
  <2> DEFINE i == Wrapped(b.begin, j - 1, Size)
  <2>1. i \in 0 .. (Size - 1)
    BY <1>1 DEF Wrapped
  <2>2. Cell(new, j) = IF b.end <= i /\ i < b.end + n THEN data[i - b.end + 1]
                       ELSE IF i < n - (Size - b.end) THEN data[i + (Size - b.end) + 1]
                       ELSE b.cells[i]
    BY <1>1, <1>2, <2>1 DEF Cell, Stored
  <2>3. Cell(b, j) = b.cells[i]
    BY DEF Cell
  <2>4. Landing(b.begin, d, n, b.end, i, j)
    BY <1>1, WhereBytesLand
  <2> HIDE DEF i
  <2>5. CASE j <= d
    BY <2>2, <2>3, <2>4, <2>5 DEF Landing
  <2>6. CASE ~(j <= d)
    <3>1. CASE b.end <= i /\ i < b.end + n /\ i - b.end + 1 = j - d
      BY <2>2, <2>6, <3>1
    <3>2. CASE i < b.end /\ i < n - (Size - b.end) /\ i + (Size - b.end) + 1 = j - d
      <4>1. ~(b.end <= i)
        BY <1>1, <2>1, <3>2
      <4>2. Cell(new, j) = data[i + (Size - b.end) + 1]
        BY <2>2, <3>2, <4>1
      <4> QED
        BY <2>6, <3>2, <4>2
    <3> QED
      BY <2>4, <2>6, <3>1, <3>2 DEF Landing
  <2> QED
    BY <2>5, <2>6
<1>5. /\ Contents(new) \in Seq(Byte) /\ Len(Contents(new)) = d + n
      /\ \A j \in 1 .. (d + n) : Contents(new)[j] = Cell(new, j)
  BY <1>2, <1>3, ContentsUnwrapped
<1>6. /\ Contents(b) \in Seq(Byte) /\ Len(Contents(b)) = d
      /\ \A j \in 1 .. d : Contents(b)[j] = Cell(b, j)
  BY ContentsUnwrapped
<1>7. /\ Contents(b) \o data \in Seq(Byte)
      /\ Len(Contents(b) \o data) = d + n
      /\ \A j \in 1 .. (d + n) : (Contents(b) \o data)[j] = IF j <= d THEN Cell(b, j) ELSE data[j - d]
  <2>1. /\ Contents(b) \o data \in Seq(Byte)
        /\ Len(Contents(b) \o data) = Len(Contents(b)) + Len(data)
        /\ \A j \in 1 .. Len(Contents(b)) + Len(data) :
             (Contents(b) \o data)[j] = IF j <= Len(Contents(b)) THEN Contents(b)[j]
                                        ELSE data[j - Len(Contents(b))]
    BY <1>6, ConcatProperties
  <2>2. ASSUME NEW j \in 1 .. (d + n), j <= d PROVE Contents(b)[j] = Cell(b, j)
    BY <1>1, <1>6, <2>2
  <2> QED
    BY <1>6, <2>1, <2>2
<1>8. \A j \in 1 .. Len(Contents(new)) : Contents(new)[j] = (Contents(b) \o data)[j]
  BY <1>4, <1>5, <1>7
<1> QED
  BY <1>5, <1>7, <1>8, SeqEqual DEF new

(* circ_buffer_get and _peek copy out the oldest bytes, in order. *)
LEMMA PeekedContents ==
  ASSUME NEW b, Indices(b), NEW n \in Nat, Has(b, n)
  PROVE  Peeked(b, n) = SubSeq(Contents(b), 1, n)
<1> USE SizeAssumption
<1>1. /\ b.size = Size /\ b.begin \in 0 .. (Size - 1) /\ b.data_size \in 0 .. Size /\ n <= b.data_size
  BY IndicesFacts DEF Has
<1>2. \A j \in 1 .. n : Contents(b)[j] = Cell(b, j) /\ Contents(b)[j] \in Byte
  BY <1>1, ContentsUnwrapped, ElementOfSeq
<1>3. ASSUME NEW j \in 1 .. n
      PROVE  Peeked(b, n)[j] = Cell(b, j)
  <2>1. CASE b.begin + j <= Size
    <3>1. Wrapped(b.begin, j - 1, Size) = b.begin + j - 1
      BY <1>1, <2>1 DEF Wrapped
    <3> QED
      BY <1>1, <2>1, <3>1 DEF Peeked, Cell
  <2>2. CASE ~(b.begin + j <= Size)
    <3>1. Wrapped(b.begin, j - 1, Size) = b.begin + j - 1 - Size
      BY <1>1, <2>2 DEF Wrapped
    <3> QED
      BY <1>1, <2>2, <3>1 DEF Peeked, Cell
  <2> QED
    BY <2>1, <2>2
<1>4. /\ SubSeq(Contents(b), 1, n) \in Seq(Byte)
      /\ Len(SubSeq(Contents(b), 1, n)) = n
      /\ \A j \in 1 .. n : SubSeq(Contents(b), 1, n)[j] = Contents(b)[j]
  BY <1>2, SubSeqProperties
<1>5. Peeked(b, n) \in Seq(Byte) /\ Len(Peeked(b, n)) = n
  <2>1. Peeked(b, n) \in [1 .. n -> Byte]
    BY <1>2, <1>3 DEF Peeked
  <2> QED
    BY <2>1, SeqDef
<1> QED
  BY <1>2, <1>3, <1>4, <1>5, SeqEqual

(* circ_buffer_advance, and the end of circ_buffer_get, drop the oldest bytes. *)
LEMMA AdvanceContents ==
  ASSUME NEW b, Indices(b), NEW n \in Nat, Has(b, n)
  PROVE  Contents(Advance(b, n)) = SubSeq(Contents(b), n + 1, Len(Contents(b)))
<1> USE SizeAssumption
<1> DEFINE d == b.data_size
           new == Advance(b, n)
<1>1. b.size = Size /\ b.begin \in 0 .. (Size - 1) /\ d \in 0 .. Size /\ n <= d
  BY IndicesFacts DEF Has
<1>2. new.begin = Wrapped(b.begin, n, Size) /\ new.data_size = d - n /\ new.cells = b.cells
  <2>1. (b.begin + n) % Size = Wrapped(b.begin, n, Size)
    <3>1. n \in 0 .. Size
      BY <1>1
    <3> QED
      BY <1>1, <3>1, ModIsWrapped
  <2> b \in [size : {Size}, cells : [0 .. (Size - 1) -> Byte], begin : Int, end : Int, data_size : Int]
    BY DEF Indices, CircBufferType
  <2> QED
    BY <1>1, <2>1 DEF Advance
<1>3. Indices(new)
  BY AdvanceIndices
<1> HIDE DEF new
<1>4. ASSUME NEW j \in 1 .. (d - n) PROVE Cell(new, j) = Cell(b, n + j)
  <2>1. Wrapped(Wrapped(b.begin, n, Size), j - 1, Size) = Wrapped(b.begin, n + (j - 1), Size)
    BY <1>1, WrappedTwice
  <2>2. n + (j - 1) = (n + j) - 1
    OBVIOUS
  <2> QED
    BY <1>2, <2>1, <2>2 DEF Cell
<1>5. /\ Contents(new) \in Seq(Byte) /\ Len(Contents(new)) = d - n
      /\ \A j \in 1 .. (d - n) : Contents(new)[j] = Cell(new, j)
  BY <1>2, <1>3, ContentsUnwrapped
<1>6. /\ Contents(b) \in Seq(Byte) /\ Len(Contents(b)) = d
      /\ \A j \in 1 .. d : Contents(b)[j] = Cell(b, j)
  BY ContentsUnwrapped
<1>7. /\ SubSeq(Contents(b), n + 1, d) \in Seq(Byte)
      /\ Len(SubSeq(Contents(b), n + 1, d)) = d - n
      /\ \A j \in 1 .. (d - n) : SubSeq(Contents(b), n + 1, d)[j] = Contents(b)[n + j]
  <2>1. \A i \in (n + 1) .. d : Contents(b)[i] \in Byte
    BY <1>1, <1>6, ElementOfSeq
  <2>2. n + 1 \in Int /\ d \in Int
    BY <1>1
  <2> HIDE DEF d
  <2>3. /\ SubSeq(Contents(b), n + 1, d) \in Seq(Byte)
        /\ Len(SubSeq(Contents(b), n + 1, d)) = IF n + 1 <= d THEN d - (n + 1) + 1 ELSE 0
        /\ \A j \in 1 .. (d - (n + 1) + 1) : SubSeq(Contents(b), n + 1, d)[j] = Contents(b)[(n + 1) + j - 1]
    BY <2>1, <2>2, SubSeqProperties
  <2> QED
    BY <1>1, <2>3
<1>8. \A j \in 1 .. Len(Contents(new)) : Contents(new)[j] = SubSeq(Contents(b), n + 1, d)[j]
  <2> SUFFICES ASSUME NEW j \in 1 .. (d - n)
               PROVE  Contents(new)[j] = SubSeq(Contents(b), n + 1, d)[j]
    BY <1>5
  <2>1. n + j \in 1 .. d
    BY <1>1
  <2> QED
    BY <1>4, <1>5, <1>6, <1>7, <2>1
<1> QED
  BY <1>5, <1>6, <1>7, <1>8, SeqEqual DEF new

LEMMA EmptyContents ==
  ASSUME NEW b, b.data_size = 0
  PROVE  Contents(b) = << >>
  BY DEF Contents

-----------------------------------------------------------------------------
(* The refinement of ByteQueue *)

LEMMA QueueInit == Init => Queue!Init
<1> SUFFICES ASSUME Init PROVE Queue!Init
  OBVIOUS
<1>1. cb.data_size = 0
  BY DEF Init, CBInit
<1>2. Contents(cb) = << >>
  BY <1>1, EmptyContents
<1> QED
  BY <1>2 DEF Init, Queue!Init, Ok, Queue!Ok

LEMMA QueueNow ==
  ASSUME Indices(cb)
  PROVE  /\ Contents(cb) \in Seq(Byte)
         /\ Len(Contents(cb)) = cb.data_size
         /\ cb.data_size \in Nat
         /\ \A n \in Nat : Has(cb, n) <=> n <= Len(Contents(cb))
         /\ \A n \in Nat : Fits(cb, n) <=> Len(Contents(cb)) + n <= Size
  BY ContentsUnwrapped, IndicesFacts, SizeAssumption DEF Has, Fits

(* get, advance and peek take n bytes off the queue, or none. *)
LEMMA QueueRemove ==
  ASSUME Indices(cb), NEW n \in Requests, cb' = Advance(cb, n)
  PROVE  Contents(cb)' = IF Has(cb, n) THEN Queue!Rest(n) ELSE Contents(cb)
<1>1. n \in Nat
  BY MaxLenAssumption DEF Requests
<1>2. CASE Has(cb, n)
  BY <1>1, <1>2, AdvanceContents DEF Queue!Rest
<1>3. CASE ~Has(cb, n)
  BY <1>3 DEF Advance
<1> QED
  BY <1>2, <1>3

LEMMA QueueStep == Indices(cb) /\ [Next]_vars => [Queue!Next]_(Queue!vars)
<1> SUFFICES ASSUME Indices(cb), [Next]_vars PROVE [Queue!Next]_(Queue!vars)
  OBVIOUS
<1> USE DEF Ok, Error, Queue!Ok, Queue!Error
<1>1. ASSUME NEW data \in Data, CallPut(data) PROVE Queue!Put(data)
  <2>1. data \in Seq(Byte) /\ Len(data) \in Nat
    BY DataIsSeq, LenProperties
  <2>2. CASE Fits(cb, Len(data))
    <3>1. Contents(cb)' = Contents(cb) \o data /\ out' = Ok(<< >>)
      BY <1>1, <2>1, <2>2, PutContents DEF CallPut
    <3>2. Len(Contents(cb)) + Len(data) <= Size
      BY <2>1, <2>2, QueueNow
    <3> QED
      BY <3>1, <3>2 DEF Queue!Put
  <2>3. CASE ~Fits(cb, Len(data))
    <3>1. Contents(cb)' = Contents(cb) /\ out' = Error
      BY <1>1, <2>3 DEF CallPut, Put
    <3>2. ~(Len(Contents(cb)) + Len(data) <= Size)
      BY <2>1, <2>3, QueueNow
    <3> QED
      BY <3>1, <3>2 DEF Queue!Put
  <2> QED
    BY <2>2, <2>3
<1>2. ASSUME NEW n \in Requests
      PROVE  /\ n \in Nat /\ (Has(cb, n) <=> n <= Len(Contents(cb)))
             /\ Has(cb, n) => Peeked(cb, n) = Queue!First(n)
  BY QueueNow, PeekedContents, MaxLenAssumption DEF Requests, Queue!First
<1>3. ASSUME NEW n \in Requests, CallGet(n) PROVE Queue!Get(n)
  BY <1>2, <1>3, QueueRemove DEF CallGet, Queue!Get, Queue!Remove
<1>4. ASSUME NEW n \in Requests, CallAdvance(n) PROVE Queue!Advance(n)
  BY <1>2, <1>4, QueueRemove DEF CallAdvance, Queue!Advance, Queue!Remove
<1>5. ASSUME NEW n \in Requests, CallPeek(n) PROVE Queue!Peek(n)
  BY <1>2, <1>5 DEF CallPeek, Queue!Peek
<1>6. ASSUME CallReset PROVE Queue!Reset
  <2>1. cb'.data_size = 0
    BY <1>6 DEF CallReset, Reset, CBInit
  <2>2. Contents(cb)' = << >>
    BY <2>1, EmptyContents
  <2> QED
    BY <1>6, <2>2 DEF CallReset, Queue!Reset
<1>7. CASE UNCHANGED vars
  <2>1. Contents(cb)' = Contents(cb)
    BY <1>7 DEF vars
  <2> QED
    BY <1>7, <2>1 DEF vars, Queue!vars
<1>8. CASE Next
  <2>1. CASE \E data \in Data : CallPut(data)
    <3> QED
      BY <1>1, <2>1 DEF Queue!Next, Queue!Data, Queue!Requests, Data, Requests
  <2>2. CASE \E n \in Requests : CallGet(n) \/ CallPeek(n) \/ CallAdvance(n)
    BY <1>3, <1>4, <1>5, <2>2 DEF Queue!Next, Queue!Requests, Requests
  <2>3. CASE CallReset
    BY <1>6, <2>3 DEF Queue!Next
  <2> QED
    BY <1>8, <2>1, <2>2, <2>3 DEF Next
<1> QED
  BY <1>7, <1>8

(* Whatever the size, the bytes and the sequence of calls, wrapped or not,   *)
(* circ_buffer.c is a bounded first-in first-out queue that takes a request  *)
(* whole or not at all, and its return values and bytes are the queue's.     *)
THEOREM RingImplementsByteQueue == Spec => RingIsByteQueue
<1>1. Spec => []Indices(cb)
  BY IndicesInit, IndicesStep, PTL DEF Spec
<1> QED
  BY <1>1, QueueInit, QueueStep, PTL DEF Spec, RingIsByteQueue, Queue!Spec
=============================================================================

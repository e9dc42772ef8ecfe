---------------------------- MODULE BufferProofs ----------------------------
(***************************************************************************)
(* Proofs about what holds bytes: streams, lists and the pool of the log.  *)
(*                                                                         *)
(* For every size of the stream's buffer, of the peek and of the kernel's  *)
(* socket buffer, and any length of run: the bytes stream_write takes      *)
(* reach the peer in order, and what is freed or stopped is not called     *)
(* back.  WireOrder is not inductive alone: it needs the consistent        *)
(* indices of the circular buffer (CircBufferProofs), and the history      *)
(* received inside the bytes taken.  That a freed stream is silent rests   *)
(* on watcher.c: its flags agree with the loop, and ev_io_stop withdraws   *)
(* what is pending.                                                        *)
(*                                                                         *)
(* The pointers of inc/list.h mirror each other, for any number of heads   *)
(* and items and any order of calls (second part).  An operation that      *)
(* takes an item out leaves it isolated: nothing points to it any more,    *)
(* whatever it points to itself; what sets its own pointers then restores  *)
(* the rings.                                                              *)
(*                                                                         *)
(* Every buffer of the item pool is in one place (third part).             *)
(***************************************************************************)
EXTENDS MCStream, ListHead, ItemPool, SequenceTheorems, FiniteSetTheorems, TLAPS

-----------------------------------------------------------------------------
(* One watcher's record *)

(* The ev_io on the loop are those the flags ask for, and no other is pending. *)
Good(r) == r \in WatcherType /\ ActiveMatchesFlags(r) /\ PendingIsActive(r)

Silent(r) == r.active = {} /\ r.pending = {}

LEMMA WithGood ==
  ASSUME NEW dirs \in SUBSET Dirs
  PROVE  /\ Good(WatcherInit) /\ WatcherInit.flags = {}
         /\ Good(WatcherWith(dirs)) /\ WatcherWith(dirs).flags = dirs
  BY DEF Good, WatcherInit, WatcherWith, WatcherType, ActiveMatchesFlags, PendingIsActive,
         Watched, Flags, Dirs

LEMMA WatchGood ==
  ASSUME NEW r, Good(r), NEW d \in Dirs
  PROVE  Good(Watch(r, d)) /\ Watch(r, d).flags = r.flags \cup {d}
  BY DEF Good, Watch, IoStart, WatcherType, ActiveMatchesFlags, PendingIsActive,
         Watched, Flags, Dirs

LEMMA NoWatchGood ==
  ASSUME NEW r, Good(r), NEW d \in Dirs
  PROVE  Good(NoWatch(r, d)) /\ NoWatch(r, d).flags = r.flags \ {d}
  BY DEF Good, NoWatch, IoStop, WatcherType, ActiveMatchesFlags, PendingIsActive,
         Watched, Flags, Dirs

LEMMA StartGood ==
  ASSUME NEW r, Good(r)
  PROVE  Good(Start(r)) /\ Start(r).flags = r.flags \cup {"STARTED"}
  BY DEF Good, Start, IoStart, WatcherType, ActiveMatchesFlags, PendingIsActive,
         Watched, Flags, Dirs

LEMMA StopGood ==
  ASSUME NEW r, Good(r)
  PROVE  Good(Stop(r)) /\ Stop(r).flags = r.flags \ {"STARTED"}
  BY DEF Good, Stop, IoStop, WatcherType, ActiveMatchesFlags, PendingIsActive,
         Watched, Flags, Dirs

LEMMA DeliverGood ==
  ASSUME NEW r, Good(r), NEW d \in Dirs
  PROVE  Good(Deliver(r, d)) /\ Deliver(r, d).flags = r.flags
  BY DEF Good, Deliver, WatcherType, ActiveMatchesFlags, PendingIsActive, Watched, Flags, Dirs

LEMMA FeedGood ==
  ASSUME NEW r, Good(r), NEW ready \in SUBSET Dirs
  PROVE  Good(Feed(r, ready)) /\ Feed(r, ready).flags = r.flags
  BY DEF Good, Feed, WatcherType, ActiveMatchesFlags, PendingIsActive, Watched, Flags, Dirs

(* Nothing of a stopped watcher is on the loop. *)
LEMMA StoppedSilent ==
  ASSUME NEW r, Good(r), "STARTED" \notin r.flags
  PROVE  Silent(r)
  BY DEF Good, Silent, WatcherType, ActiveMatchesFlags, PendingIsActive, Watched

-----------------------------------------------------------------------------
(* The bytes on their way: all that was taken, t, is what was read, its      *)
(* first r bytes, then the socket's s, then the queue's q.  Cat keeps the    *)
(* provers from looking inside a concatenation that is only reassociated.    *)
Cat(a, b) == a \o b

OnTheWay(t, r, s, q) ==
  /\ t \in Seq(Nat) /\ s \in Seq(Nat) /\ q \in Seq(Nat)
  /\ r \in 0 .. Len(t)
  /\ t = Cat(Cat(SubSeq(t, 1, r), s), q)

LEMMA CatFacts ==
  ASSUME NEW a \in Seq(Nat), NEW b \in Seq(Nat)
  PROVE  /\ Cat(a, b) \in Seq(Nat) /\ Len(Cat(a, b)) = Len(a) + Len(b)
         /\ Cat(a, << >>) = a
  BY ConcatProperties, ConcatEmptySeq DEF Cat

LEMMA CatAssociative ==
  ASSUME NEW a \in Seq(Nat), NEW b \in Seq(Nat), NEW c \in Seq(Nat)
  PROVE  Cat(Cat(a, b), c) = Cat(a, Cat(b, c))
<1>1. (a \o b) \o c = a \o (b \o c)
  OBVIOUS
<1> QED
  BY <1>1 DEF Cat

LEMMA PrefixFacts ==
  ASSUME NEW t \in Seq(Nat), NEW r \in 0 .. Len(t)
  PROVE  SubSeq(t, 1, r) \in Seq(Nat) /\ Len(SubSeq(t, 1, r)) = r
<1>1. Len(t) \in Nat /\ \A i \in 1 .. Len(t) : t[i] \in Nat
  BY LenProperties, ElementOfSeq
<1>2. r \in Int /\ \A i \in 1 .. r : t[i] \in Nat
  BY <1>1
<1> QED
  BY <1>1, <1>2, SubSeqProperties

(* What is taken behind leaves the part already read alone. *)
LEMMA SamePrefix ==
  ASSUME NEW t \in Seq(Nat), NEW x \in Seq(Nat), NEW r \in 0 .. Len(t)
  PROVE  SubSeq(Cat(t, x), 1, r) = SubSeq(t, 1, r)
<1> USE DEF Cat
<1>1. Len(t) \in Nat
  BY LenProperties
<1>2. CASE r = 0
  BY <1>2, SubSeqEmpty
<1>3. CASE r # 0
  <2>1. 1 \in 1 .. Len(t) /\ r \in 1 .. Len(t)
    BY <1>1, <1>3
  <2> QED
    BY <2>1, SubSeqOfConcat1
<1> QED
  BY <1>2, <1>3

LEMMA CatFour ==
  ASSUME NEW a \in Seq(Nat), NEW b \in Seq(Nat), NEW c \in Seq(Nat), NEW d \in Seq(Nat)
  PROVE  /\ Cat(Cat(Cat(a, b), c), d) = Cat(Cat(a, b), Cat(c, d))
         /\ Cat(Cat(a, b), Cat(c, d)) = Cat(Cat(a, Cat(b, c)), d)
<1>1. Cat(a, b) \in Seq(Nat)
  BY CatFacts
<1>2. Cat(Cat(a, b), c) = Cat(a, Cat(b, c))
  BY CatAssociative
<1>3. Cat(Cat(Cat(a, b), c), d) = Cat(Cat(a, b), Cat(c, d))
  BY <1>1, CatAssociative
<1> QED
  BY <1>2, <1>3

(* Bytes taken and queued behind the others. *)
LEMMA TakenBehind ==
  ASSUME NEW t, NEW r, NEW s, NEW q, OnTheWay(t, r, s, q), NEW x \in Seq(Nat)
  PROVE  OnTheWay(Cat(t, x), r, s, Cat(q, x))
<1> DEFINE p == SubSeq(t, 1, r)
<1>1. /\ t \in Seq(Nat) /\ s \in Seq(Nat) /\ q \in Seq(Nat) /\ r \in 0 .. Len(t)
      /\ p \in Seq(Nat) /\ t = Cat(Cat(p, s), q)
  BY PrefixFacts DEF OnTheWay
<1>2. /\ Cat(t, x) \in Seq(Nat) /\ Cat(q, x) \in Seq(Nat) /\ Len(Cat(t, x)) = Len(t) + Len(x)
  BY <1>1, CatFacts
<1>3. r \in 0 .. Len(Cat(t, x))
  BY <1>1, <1>2, LenProperties
<1>4. SubSeq(Cat(t, x), 1, r) = p
  BY <1>1, SamePrefix
<1> HIDE DEF p
<1>5. Cat(t, x) = Cat(Cat(p, s), Cat(q, x))
  BY <1>1, CatFour
<1> QED
  BY <1>1, <1>2, <1>3, <1>4, <1>5 DEF OnTheWay

(* Nothing queued: bytes taken, x into the socket and y into the queue. *)
LEMMA TakenThrough ==
  ASSUME NEW t, NEW r, NEW s, OnTheWay(t, r, s, << >>), NEW x \in Seq(Nat), NEW y \in Seq(Nat)
  PROVE  OnTheWay(Cat(t, Cat(x, y)), r, Cat(s, x), y)
<1> DEFINE p == SubSeq(t, 1, r)
<1>1. t \in Seq(Nat) /\ s \in Seq(Nat) /\ r \in 0 .. Len(t) /\ p \in Seq(Nat)
  BY PrefixFacts DEF OnTheWay
<1>2. t = Cat(p, s)
  BY <1>1, CatFacts DEF OnTheWay
<1>3. /\ Cat(x, y) \in Seq(Nat) /\ Cat(s, x) \in Seq(Nat)
      /\ Cat(t, Cat(x, y)) \in Seq(Nat) /\ Len(Cat(t, Cat(x, y))) = Len(t) + Len(Cat(x, y))
  BY <1>1, CatFacts
<1>4. r \in 0 .. Len(Cat(t, Cat(x, y)))
  BY <1>1, <1>3, LenProperties
<1>5. SubSeq(Cat(t, Cat(x, y)), 1, r) = p
  BY <1>1, <1>3, SamePrefix
<1> HIDE DEF p
<1>6. Cat(t, Cat(x, y)) = Cat(Cat(p, Cat(s, x)), y)
  BY <1>1, <1>2, CatFour
<1> QED
  BY <1>1, <1>3, <1>4, <1>5, <1>6 DEF OnTheWay

(* A sequence cut after n bytes, as a write that took n of them leaves it. *)
LEMMA CutInTwo ==
  ASSUME NEW q \in Seq(Nat), NEW n \in 0 .. Len(q)
  PROVE  /\ SubSeq(q, 1, n) \in Seq(Nat)
         /\ SubSeq(q, n + 1, Len(q)) \in Seq(Nat)
         /\ q = Cat(SubSeq(q, 1, n), SubSeq(q, n + 1, Len(q)))
<1>1. Len(q) \in Nat /\ \A i \in 1 .. Len(q) : q[i] \in Nat
  BY LenProperties, ElementOfSeq
<1>2. SubSeq(q, 1, n) \in Seq(Nat)
  BY PrefixFacts
<1>3. SubSeq(q, n + 1, Len(q)) \in Seq(Nat)
  <2>1. n + 1 \in Int /\ Len(q) \in Int /\ \A i \in n + 1 .. Len(q) : q[i] \in Nat
    BY <1>1
  <2> QED
    BY <2>1, SubSeqProperties
<1>4. q = Cat(SubSeq(q, 1, n), SubSeq(q, n + 1, Len(q)))
  <2>1. /\ 1 \in 1 .. Len(q) + 1 /\ n \in 1 - 1 .. Len(q) /\ Len(q) \in n .. Len(q)
    BY <1>1
  <2>2. SubSeq(q, 1, n) \o SubSeq(q, n + 1, Len(q)) = SubSeq(q, 1, Len(q))
    BY <2>1, ConcatAdjacentSubSeq
  <2>3. SubSeq(q, 1, Len(q)) = q
    BY SubSeqFull
  <2> QED
    BY <2>2, <2>3 DEF Cat
<1> QED
  BY <1>2, <1>3, <1>4

(* The socket takes the n oldest bytes of the queue. *)
LEMMA SentOn ==
  ASSUME NEW t, NEW r, NEW s, NEW q, OnTheWay(t, r, s, q), NEW n \in 0 .. Len(q)
  PROVE  OnTheWay(t, r, Cat(s, SubSeq(q, 1, n)), SubSeq(q, n + 1, Len(q)))
<1> DEFINE p == SubSeq(t, 1, r)
           x == SubSeq(q, 1, n)
           y == SubSeq(q, n + 1, Len(q))
<1>1. /\ t \in Seq(Nat) /\ s \in Seq(Nat) /\ q \in Seq(Nat) /\ r \in 0 .. Len(t)
      /\ p \in Seq(Nat) /\ t = Cat(Cat(p, s), q)
  BY PrefixFacts DEF OnTheWay
<1>2. x \in Seq(Nat) /\ y \in Seq(Nat) /\ q = Cat(x, y)
  BY <1>1, CutInTwo
<1> HIDE DEF p, x, y
<1>3. t = Cat(Cat(p, Cat(s, x)), y)
  BY <1>1, <1>2, CatFour
<1>4. Cat(s, x) \in Seq(Nat)
  BY <1>1, <1>2, CatFacts
<1> QED
  BY <1>1, <1>2, <1>3, <1>4 DEF OnTheWay, p, x, y

(* The peer reads all the socket holds. *)
LEMMA ReadOff ==
  ASSUME NEW t, NEW r, NEW s, NEW q, OnTheWay(t, r, s, q)
  PROVE  OnTheWay(t, r + Len(s), << >>, q)
<1> DEFINE p == SubSeq(t, 1, r)
           u == Cat(p, s)
<1>1. /\ t \in Seq(Nat) /\ s \in Seq(Nat) /\ q \in Seq(Nat) /\ r \in 0 .. Len(t)
      /\ p \in Seq(Nat) /\ Len(p) = r /\ t = Cat(u, q)
  BY PrefixFacts DEF OnTheWay
<1> HIDE DEF p
<1>2. u \in Seq(Nat) /\ Len(u) = r + Len(s)
  BY <1>1, CatFacts
<1> HIDE DEF u
<1>3. Len(t) = Len(u) + Len(q)
  BY <1>1, <1>2, CatFacts
<1>4. Len(u) \in Nat /\ Len(q) \in Nat
  BY <1>1, <1>2, LenProperties
<1>5. Len(u) \in 0 .. Len(t) /\ Len(u) \in 0 .. Len(u)
  BY <1>3, <1>4
<1>6. SubSeq(t, 1, Len(u)) = u
  <2>1. SubSeq(Cat(u, q), 1, Len(u)) = SubSeq(u, 1, Len(u))
    BY <1>1, <1>2, <1>5, SamePrefix
  <2>2. SubSeq(u, 1, Len(u)) = u
    BY <1>2, SubSeqFull
  <2> QED
    BY <1>1, <2>1, <2>2
<1>7. Cat(u, << >>) = u
  BY <1>2, CatFacts
<1>8. << >> \in Seq(Nat)
  BY EmptySeq
<1> QED
  BY <1>1, <1>2, <1>5, <1>6, <1>7, <1>8 DEF OnTheWay

-----------------------------------------------------------------------------
(* The stream's circular buffer *)

Ring == INSTANCE CircBufferProofs
          WITH Size <- TxSize, Byte <- Nat, MaxLen <- MaxWrite, cb <- tx, out <- sock

Sound(b) == Ring!Indices(b)

LEMMA Sizes == TxSize \in Nat \ {0} /\ Chunk \in Nat \ {0} /\ MaxWrite \in Nat
  BY SizesAssumption, BoundsAssumption

LEMMA RingOperators ==
  ASSUME NEW b, NEW x
  PROVE  /\ Ring!Contents(b) = Contents(b)
         /\ Ring!Put(b, x) = Put(b, x)
         /\ Ring!Advance(b, x) = Advance(b, x)
         /\ Ring!Peeked(b, x) = Peeked(b, x)
         /\ Ring!Fits(b, x) <=> Fits(b, x)
         /\ Ring!Has(b, x) <=> Has(b, x)
  BY DEF Ring!Contents, Contents, Ring!Put, Put, Ring!Stored, Stored, Ring!Fits, Fits,
         Ring!Advance, Advance, Ring!Has, Has, Ring!Peeked, Peeked

LEMMA RingHolds ==
  ASSUME NEW b, Sound(b)
  PROVE  /\ b.data_size \in Nat
         /\ Contents(b) \in Seq(Nat) /\ Len(Contents(b)) = b.data_size
         /\ IsEmpty(b) => Contents(b) = << >>
<1>1. Contents(b) = Ring!Contents(b)
  BY RingOperators
<1>2. Ring!Contents(b) \in Seq(Nat) /\ Len(Ring!Contents(b)) = b.data_size
  BY Sizes, Ring!ContentsUnwrapped DEF Sound
<1>3. b.data_size \in Nat
  BY Sizes, Ring!IndicesFacts DEF Sound
<1>4. IsEmpty(b) => Ring!Contents(b) = << >>
  BY Sizes, Ring!EmptyContents DEF IsEmpty
<1> QED
  BY <1>1, <1>2, <1>3, <1>4

LEMMA RingPut ==
  ASSUME NEW b, Sound(b), NEW data \in Seq(Nat)
  PROVE  /\ Sound(Put(b, data))
         /\ Fits(b, Len(data)) => Contents(Put(b, data)) = Cat(Contents(b), data)
         /\ ~Fits(b, Len(data)) => Put(b, data) = b
<1>1. /\ Ring!Put(b, data) = Put(b, data)
      /\ Ring!Contents(b) = Contents(b)
      /\ Ring!Contents(Put(b, data)) = Contents(Put(b, data))
      /\ Ring!Fits(b, Len(data)) <=> Fits(b, Len(data))
  BY RingOperators
<1>2. Ring!Indices(Ring!Put(b, data))
  BY Sizes, Ring!PutIndices DEF Sound
<1>3. Ring!Fits(b, Len(data)) => Ring!Contents(Ring!Put(b, data)) = Ring!Contents(b) \o data
  BY Sizes, Ring!PutContents DEF Sound
<1>4. ~Fits(b, Len(data)) => Put(b, data) = b
  BY DEF Put
<1> QED
  BY <1>1, <1>2, <1>3, <1>4 DEF Sound, Cat

LEMMA RingAdvance ==
  ASSUME NEW b, Sound(b), NEW n \in 0 .. b.data_size
  PROVE  /\ Sound(Advance(b, n))
         /\ Contents(Advance(b, n)) = SubSeq(Contents(b), n + 1, Len(Contents(b)))
         /\ Peeked(b, n) = SubSeq(Contents(b), 1, n)
<1>1. /\ Ring!Advance(b, n) = Advance(b, n)
      /\ Ring!Contents(b) = Contents(b)
      /\ Ring!Contents(Advance(b, n)) = Contents(Advance(b, n))
      /\ Ring!Peeked(b, n) = Peeked(b, n)
      /\ Ring!Has(b, n) <=> Has(b, n)
  BY RingOperators
<1>2. n \in Nat /\ Has(b, n)
  BY RingHolds DEF Has
<1>3. Ring!Indices(Ring!Advance(b, n))
  BY <1>2, Sizes, Ring!AdvanceIndices DEF Sound
<1>4. Ring!Contents(Ring!Advance(b, n)) = SubSeq(Ring!Contents(b), n + 1, Len(Ring!Contents(b)))
  BY <1>1, <1>2, Sizes, Ring!AdvanceContents DEF Sound
<1>5. Ring!Peeked(b, n) = SubSeq(Ring!Contents(b), 1, n)
  BY <1>1, <1>2, Sizes, Ring!PeekedContents DEF Sound
<1> QED
  BY <1>1, <1>3, <1>4, <1>5 DEF Sound

-----------------------------------------------------------------------------
(* The stream *)

StreamInv ==
  /\ Sound(tx)
  /\ Good(w)
  /\ used \in Nat
  /\ life = "freed" => "STARTED" \notin w.flags
  /\ peer # "reset" => OnTheWay(taken, received, sock, Contents(tx))

LEMMA StreamInvImplies == StreamInv => WireOrder /\ FreedIsSilent
<1>1. StreamInv => WireOrder
  BY DEF StreamInv, WireOrder, OnTheWay, Cat
<1>2. StreamInv => FreedIsSilent
  BY StoppedSilent DEF StreamInv, FreedIsSilent, Silent
<1> QED
  BY <1>1, <1>2

LEMMA StreamInit == Init => StreamInv
<1> SUFFICES ASSUME Init PROVE StreamInv
  OBVIOUS
<1>1. Sound(tx)
  BY Sizes DEF Init, CBInit, Sound, Ring!Indices, Ring!CircBufferType, Ring!Wrapped
<1>2. Good(w)
  BY WithGood, WatchGood, StartGood DEF Init, Dirs
<1>3. Contents(tx) = << >>
  BY <1>1, RingHolds DEF Init, CBInit, IsEmpty
<1>4. OnTheWay(<< >>, 0, << >>, << >>)
  <2>1. << >> \in Seq(Nat) /\ Len(<< >>) = 0 /\ SubSeq(<< >>, 1, 0) = << >>
    BY EmptySeq, SubSeqEmpty
  <2>2. Cat(<< >>, << >>) = << >>
    BY <2>1, CatFacts
  <2>3. 0 \in 0 .. Len(<< >>)
    BY <2>1
  <2> HIDE DEF Cat
  <2> QED
    BY <2>1, <2>2, <2>3 DEF OnTheWay
<1> QED
  BY <1>1, <1>2, <1>3, <1>4 DEF Init, StreamInv

(* A step that leaves the bytes alone needs only to keep the watcher sound. *)
LEMMA OnlyWatcher ==
  ASSUME StreamInv, UNCHANGED <<tx, sock, received, used, taken>>,
         Good(w'), life' = "freed" => "STARTED" \notin w'.flags,
         peer' # "reset" => peer # "reset"
  PROVE  StreamInv'
  BY DEF StreamInv

LEMMA WriteData ==
  ASSUME NEW n \in 1 .. MaxWrite, used \in Nat
  PROVE  /\ [i \in 1 .. n |-> used + i] \in Seq(Nat)
         /\ Len([i \in 1 .. n |-> used + i]) = n
<1>1. n \in Nat /\ [i \in 1 .. n |-> used + i] \in [1 .. n -> Nat]
  BY Sizes
<1> QED
  BY <1>1, SeqDef

LEMMA BehindKeeps ==
  ASSUME StreamInv, NEW data \in Seq(Nat), WriteBehind(data), UNCHANGED <<life, peer, received>>,
         used' \in Nat
  PROVE  StreamInv'
<1>1. Sound(tx') /\ Good(w') /\ (life' = "freed" => "STARTED" \notin w'.flags)
  BY RingPut DEF StreamInv, WriteBehind
<1>2. ASSUME peer # "reset" PROVE OnTheWay(taken', received, sock, Contents(tx'))
  <2>1. Sound(tx) /\ OnTheWay(taken, received, sock, Contents(tx))
    BY <1>2 DEF StreamInv
  <2>2. CASE Fits(tx, Len(data))
    <3>1. Contents(tx') = Cat(Contents(tx), data) /\ taken' = Cat(taken, data)
      BY <2>1, <2>2, RingPut DEF WriteBehind, Cat
    <3> QED
      BY <2>1, <3>1, TakenBehind
  <2>3. CASE ~Fits(tx, Len(data))
    BY <2>1, <2>3, RingPut DEF WriteBehind
  <2> QED
    BY <2>2, <2>3
<1> QED
  BY <1>1, <1>2 DEF StreamInv, WriteBehind

(* What write(2) may return to a connection that was not reset. *)
LEMMA WriteReturns ==
  ASSUME peer # "reset", sock \in Seq(Nat), NEW n \in Nat, NEW ret \in WriteResults(n)
  PROVE  ret # Error /\ (ret = WouldBlock \/ ret \in 1 .. n)
<1>1. Space \in Int
  <2>1. Len(sock) \in Nat /\ SockSize \in Nat
    BY SizesAssumption, LenProperties
  <2> QED
    BY <2>1 DEF Space
<1>2. CASE Space = 0
  BY <1>2 DEF WriteResults, Error, WouldBlock
<1>3. CASE Space # 0
  <2>1. ret \in 1 .. (IF n < Space THEN n ELSE Space)
    BY <1>3 DEF WriteResults
  <2> HIDE DEF Space
  <2> QED
    BY <1>1, <2>1 DEF Error, WouldBlock
<1> QED
  BY <1>2, <1>3

LEMMA ThroughKeeps ==
  ASSUME StreamInv, NEW data \in Seq(Nat), WriteThrough(data), UNCHANGED <<life, peer, received>>,
         used' \in Nat, life = "open"
  PROVE  StreamInv'
<1>1. PICK ret \in WriteResults(Len(data)) :
        IF ret = Error \/ ret = Len(data)
        THEN /\ sock' = IF ret = Error THEN sock ELSE sock \o data
             /\ taken' = IF ret = Error THEN taken ELSE taken \o data
             /\ UNCHANGED <<tx, w>>
        ELSE LET n == IF ret = WouldBlock THEN 0 ELSE ret
                 rest == SubSeq(data, n + 1, Len(data))
             IN  /\ sock' = sock \o SubSeq(data, 1, n)
                 /\ tx' = Put(tx, rest)
                 /\ taken' = taken \o (IF Fits(tx, Len(rest)) THEN data ELSE SubSeq(data, 1, n))
                 /\ w' = IF Fits(tx, Len(rest)) THEN w ELSE Watch(w, "TX")
  BY DEF WriteThrough
<1> DEFINE n == IF ret = WouldBlock THEN 0 ELSE ret
           x == SubSeq(data, 1, n)
           rest == SubSeq(data, n + 1, Len(data))
<1>2. Len(data) \in Nat /\ Sound(tx) /\ Contents(tx) = << >>
  BY LenProperties, RingHolds DEF StreamInv, WriteThrough
<1>3. CASE peer = "reset"
  <2>1. ret = Error
    BY <1>3 DEF WriteResults
  <2> QED
    BY <1>1, <1>3, <2>1 DEF StreamInv
<1>4. CASE peer # "reset" /\ (ret = Error \/ ret = Len(data))
  <2>1. OnTheWay(taken, received, sock, << >>)
    BY <1>2, <1>4 DEF StreamInv
  <2>2. ret = Len(data) /\ ret # Error
    BY <1>2, <1>4, <2>1, WriteReturns DEF OnTheWay
  <2>3. /\ sock' = Cat(sock, data) /\ taken' = Cat(taken, data) /\ UNCHANGED <<tx, w>>
    BY <1>1, <2>2 DEF Cat
  <2>4. OnTheWay(Cat(taken, Cat(data, << >>)), received, Cat(sock, data), << >>)
    BY <2>1, TakenThrough, EmptySeq
  <2>5. Cat(data, << >>) = data
    BY CatFacts
  <2> QED
    BY <1>2, <2>3, <2>4, <2>5 DEF StreamInv
<1>5. CASE peer # "reset" /\ ret # Error /\ ret # Len(data)
  <2>1. OnTheWay(taken, received, sock, << >>)
    BY <1>2, <1>5 DEF StreamInv
  <2>2. n \in 0 .. Len(data)
    BY <1>2, <1>5, <2>1, WriteReturns DEF OnTheWay
  <2>3. x \in Seq(Nat) /\ rest \in Seq(Nat) /\ data = Cat(x, rest)
    BY <2>2, CutInTwo
  <2>4. /\ sock' = Cat(sock, x)
        /\ tx' = Put(tx, rest)
        /\ taken' = Cat(taken, IF Fits(tx, Len(rest)) THEN data ELSE x)
        /\ w' = IF Fits(tx, Len(rest)) THEN w ELSE Watch(w, "TX")
    BY <1>1, <1>5 DEF Cat
  <2> HIDE DEF x, rest, n
  <2>5. Good(w')
    BY <2>4, WatchGood DEF StreamInv, Dirs
  <2>6. Sound(tx')
    BY <1>2, <2>3, <2>4, RingPut
  <2>7. CASE Fits(tx, Len(rest))
    <3>1. Contents(tx') = Cat(<< >>, rest)
      BY <1>2, <2>3, <2>4, <2>7, RingPut
    <3>2. Cat(<< >>, rest) = rest
      BY <2>3, ConcatEmptySeq DEF Cat
    <3>3. OnTheWay(Cat(taken, Cat(x, rest)), received, Cat(sock, x), rest)
      BY <2>1, <2>3, TakenThrough
    <3> QED
      BY <2>3, <2>4, <2>5, <2>6, <2>7, <3>1, <3>2, <3>3 DEF StreamInv
  <2>8. CASE ~Fits(tx, Len(rest))
    <3>1. Contents(tx') = << >>
      BY <1>2, <2>3, <2>4, <2>8, RingPut
    <3>2. OnTheWay(Cat(taken, Cat(x, << >>)), received, Cat(sock, x), << >>)
      BY <2>1, <2>3, TakenThrough, EmptySeq
    <3>3. Cat(x, << >>) = x
      BY <2>3, CatFacts
    <3> QED
      BY <2>4, <2>5, <2>6, <2>8, <3>1, <3>2, <3>3 DEF StreamInv
  <2> QED
    BY <2>7, <2>8
<1> QED
  BY <1>3, <1>4, <1>5

LEMMA StreamWriteKeeps == ASSUME StreamInv, StreamWrite PROVE StreamInv'
<1>1. PICK n \in 1 .. MaxWrite :
        LET data == [i \in 1 .. n |-> used + i]
        IN  used' = used + n /\ (WriteBehind(data) \/ WriteThrough(data))
  BY DEF StreamWrite
<1> DEFINE data == [i \in 1 .. n |-> used + i]
<1>2. data \in Seq(Nat)
  BY WriteData DEF StreamInv
<1>3. used' \in Nat /\ UNCHANGED <<life, peer, received>> /\ life = "open"
  BY <1>1 DEF StreamInv, StreamWrite
<1>4. WriteBehind(data) \/ WriteThrough(data)
  BY <1>1
<1> HIDE DEF data
<1> QED
  BY <1>2, <1>3, <1>4, BehindKeeps, ThroughKeeps


LEMMA Delivered ==
  ASSUME StreamInv, NEW d \in Dirs
  PROVE  /\ Good(Deliver(w, d)) /\ Deliver(w, d).flags = w.flags
         /\ Good(NoWatch(Deliver(w, d), d))
         /\ Good(Stop(Deliver(w, d))) /\ "STARTED" \notin Stop(Deliver(w, d)).flags
         /\ Good(Stop(w)) /\ "STARTED" \notin Stop(w).flags
  BY DeliverGood, NoWatchGood, StopGood DEF StreamInv

LEMMA PrefixOfPrefix ==
  ASSUME NEW q \in Seq(Nat), NEW m \in 0 .. Len(q), NEW n \in 1 .. m
  PROVE  SubSeq(SubSeq(q, 1, m), 1, n) = SubSeq(q, 1, n)
<1>1. Len(q) \in Nat /\ \A i \in 1 .. Len(q) : q[i] \in Nat
  BY LenProperties, ElementOfSeq
<1>2. 1 \in 1 .. Len(q) /\ m \in 1 .. Len(q) /\ 1 \in 1 .. m - 1 + 1 /\ n \in 1 .. m - 1 + 1
  BY <1>1
<1>3. SubSeq(SubSeq(q, 1, m), 1, n) = SubSeq(q, 1 + 1 - 1, 1 + n - 1)
  BY <1>2, SubSeqOfSubSeq
<1>4. 1 + 1 - 1 = 1 /\ 1 + n - 1 = n
  BY <1>1
<1> QED
  BY <1>3, <1>4

LEMMA TxSendKeeps == ASSUME StreamInv, TxSend PROVE StreamInv'
<1>1. PICK ret \in WriteResults(TxLen) :
        /\ ret > 0
        /\ sock' = sock \o SubSeq(Peeked(tx, TxLen), 1, ret)
        /\ tx' = Advance(tx, ret)
        /\ w' = LET v == Deliver(w, "TX") IN IF IsEmpty(tx') THEN NoWatch(v, "TX") ELSE v
  BY DEF TxSend
<1>2. UNCHANGED <<life, peer, received, used, taken>> /\ life = "open"
  BY DEF TxSend, Pending
<1>3. Good(w')
  BY <1>1, Delivered DEF Dirs
<1>4. peer # "reset"
  BY <1>1 DEF WriteResults, Error
<1>5. Sound(tx) /\ OnTheWay(taken, received, sock, Contents(tx))
  BY <1>4 DEF StreamInv
<1> DEFINE q == Contents(tx)
<1>6. q \in Seq(Nat) /\ Len(q) = tx.data_size /\ tx.data_size \in Nat
  BY <1>5, RingHolds
<1>7. TxLen \in 0 .. Len(q)
  BY <1>6, Sizes DEF TxLen
<1>8. ret \in 1 .. TxLen
  <2>1. TxLen \in Nat
    BY <1>6, <1>7
  <2> HIDE DEF TxLen
  <2> QED
    BY <1>1, <1>4, <1>5, <2>1, WriteReturns DEF OnTheWay, WouldBlock
<1>9. ret \in 0 .. tx.data_size /\ ret \in 0 .. Len(q)
  BY <1>6, <1>7, <1>8
<1>10. Peeked(tx, TxLen) = SubSeq(q, 1, TxLen)
  BY <1>5, <1>6, <1>7, RingAdvance
<1>11. Sound(tx') /\ Contents(tx') = SubSeq(q, ret + 1, Len(q))
  BY <1>1, <1>5, <1>9, RingAdvance
<1> HIDE DEF q
<1>12. SubSeq(Peeked(tx, TxLen), 1, ret) = SubSeq(q, 1, ret)
  BY <1>6, <1>7, <1>8, <1>10, PrefixOfPrefix
<1>13. sock' = Cat(sock, SubSeq(q, 1, ret))
  BY <1>1, <1>12 DEF Cat
<1>14. OnTheWay(taken, received, sock', SubSeq(q, ret + 1, Len(q)))
  BY <1>5, <1>9, <1>13, SentOn DEF q
<1> QED
  BY <1>2, <1>3, <1>11, <1>14 DEF StreamInv

LEMMA StreamStep == StreamInv /\ [Next]_vars => StreamInv'
<1> SUFFICES ASSUME StreamInv, [Next]_vars PROVE StreamInv'
  OBVIOUS
<1>1. CASE StreamWrite
  BY <1>1, StreamWriteKeeps
<1>2. CASE TxSend
  BY <1>2, TxSendKeeps
<1>3. CASE TxNothing
  BY <1>3, Delivered, OnlyWatcher DEF TxNothing, Pending, Dirs
<1>4. CASE TxCrash
  BY <1>4, Delivered, OnlyWatcher DEF TxCrash, Pending, Dirs
<1>5. CASE RxData
  BY <1>5, Delivered, OnlyWatcher DEF RxData, Pending, Dirs
<1>6. CASE RxEnd
  BY <1>6, Delivered, OnlyWatcher DEF RxEnd, Free, Pending, Dirs
<1>7. CASE ErrorEvent
  BY <1>7, Delivered, OnlyWatcher DEF ErrorEvent, Free, Pending, Dirs
<1>8. CASE UserFree
  BY <1>8, Delivered, OnlyWatcher DEF UserFree, Free, Dirs
<1>9. CASE Poll
  <2>1. PICK ready \in SUBSET Dirs : w' = Feed(w, ready)
    BY <1>9 DEF Poll, Readiness
  <2>2. Good(w') /\ life' = "open" /\ UNCHANGED <<tx, sock, received, used, taken, peer>>
    BY <1>9, <2>1, FeedGood DEF Poll, StreamInv
  <2> QED
    BY <2>2, OnlyWatcher
<1>10. CASE PeerReads
  <2>1. UNCHANGED <<tx, w, life, peer, used>> /\ received' = received + Len(sock)
        /\ sock' = << >> /\ taken' = taken
    BY <1>10 DEF PeerReads
  <2>2. peer # "reset" => OnTheWay(taken, received + Len(sock), << >>, Contents(tx))
    BY ReadOff DEF StreamInv
  <2> QED
    BY <2>1, <2>2 DEF StreamInv
<1>11. CASE PeerCloses
  <2>1. Good(w') /\ (life' = "freed" => "STARTED" \notin w'.flags)
    BY <1>11 DEF PeerCloses, StreamInv
  <2> QED
    BY <1>11, <2>1, OnlyWatcher DEF PeerCloses
<1>12. CASE PeerReset
  BY <1>12 DEF PeerReset, StreamInv
<1>13. CASE UNCHANGED vars
  BY <1>13 DEF vars, StreamInv
<1> QED
  BY <1>1, <1>2, <1>3, <1>4, <1>5, <1>6, <1>7, <1>8, <1>9, <1>10, <1>11, <1>12, <1>13
     DEF Next, Callback

(* For every size of the buffers and any writes, however the socket takes    *)
(* them, the bytes stream_write took reach the peer in order: none is lost,  *)
(* repeated or overtaken.                                                    *)
THEOREM BytesKeepOrder == Spec => []WireOrder
  BY StreamInit, StreamStep, StreamInvImplies, PTL DEF Spec

-----------------------------------------------------------------------------
(* The datagram socket *)

LEMMA UdpWatcher ==
  ASSUME NEW r, NEW x
  PROVE  /\ Udp!WatcherInit = WatcherInit /\ Udp!WatcherWith(x) = WatcherWith(x)
         /\ Udp!Watch(r, x) = Watch(r, x) /\ Udp!NoWatch(r, x) = NoWatch(r, x)
         /\ Udp!Start(r) = Start(r) /\ Udp!Stop(r) = Stop(r)
         /\ Udp!Deliver(r, x) = Deliver(r, x) /\ Udp!Feed(r, x) = Feed(r, x)
         /\ Udp!Dirs = Dirs
  BY DEF Udp!WatcherInit, WatcherInit, Udp!WatcherWith, WatcherWith, Udp!Watch, Watch,
         Udp!NoWatch, NoWatch, Udp!Start, Start, Udp!Stop, Stop, Udp!Deliver, Deliver,
         Udp!Feed, Feed, Udp!IoStart, IoStart, Udp!IoStop, IoStop, Udp!Dirs, Dirs

UdpInv == Good(dgram_w) /\ (dgram_life # "started" => "STARTED" \notin dgram_w.flags)

LEMMA UdpInvImplies == UdpInv => Udp!StoppedIsSilent
  BY StoppedSilent DEF UdpInv, Udp!StoppedIsSilent, Silent

LEMMA UdpInit == Udp!UdpInit => UdpInv
  BY UdpWatcher, WithGood DEF Udp!UdpInit, UdpInv, Dirs

LEMMA UdpStep == UdpInv /\ [Udp!UdpNext]_udpVars => UdpInv'
<1> SUFFICES ASSUME UdpInv, [Udp!UdpNext]_udpVars PROVE UdpInv'
  OBVIOUS
<1> USE UdpWatcher
<1>1. Good(dgram_w)
  BY DEF UdpInv
<1>2. CASE Udp!Ipv4Init \/ Udp!UnixDomainInit
  <2>1. dgram_w' = WatcherWith({"RX", "TX", "ER"})
    BY <1>2 DEF Udp!Ipv4Init, Udp!UnixDomainInit, Udp!InitSocket
  <2> QED
    BY <2>1, WithGood DEF UdpInv, Dirs
<1>3. CASE Udp!StartSocket
  <2>1. dgram_w' = Start(dgram_w) /\ dgram_life' = "started"
    BY <1>3 DEF Udp!StartSocket
  <2> QED
    BY <1>1, <2>1, StartGood DEF UdpInv
<1>4. CASE Udp!StopSocket \/ Udp!Deinit
  <2>1. dgram_w' = Stop(dgram_w)
    BY <1>4 DEF Udp!StopSocket, Udp!Deinit
  <2> QED
    BY <1>1, <2>1, StopGood DEF UdpInv
<1>5. ASSUME NEW len \in {0, 1}, Udp!Send(len) PROVE UdpInv'
  <2>1. (dgram_w' = Watch(dgram_w, "TX") \/ dgram_w' = dgram_w) /\ dgram_life' = dgram_life
    BY <1>5 DEF Udp!Send
  <2> QED
    BY <1>1, <2>1, WatchGood DEF UdpInv, Dirs
<1>6. CASE Udp!DgramCallback
  <2>1. /\ dgram_life' = dgram_life
        /\ \E d \in Dirs : \/ dgram_w' = Deliver(dgram_w, d)
                           \/ dgram_w' = NoWatch(Deliver(dgram_w, d), d)
    BY <1>6 DEF Udp!DgramCallback, Udp!RxEvent, Udp!TxEvent, Udp!ErrEvent, Dirs
  <2> QED
    BY <1>1, <2>1, DeliverGood, NoWatchGood DEF UdpInv
<1>7. CASE Udp!PollSocket
  <2>1. dgram_life' = dgram_life /\ \E ready \in SUBSET Dirs : dgram_w' = Feed(dgram_w, ready)
    BY <1>7 DEF Udp!PollSocket
  <2> QED
    BY <1>1, <2>1, FeedGood DEF UdpInv
<1>8. CASE Udp!KernelSends \/ Udp!Arrives \/ UNCHANGED udpVars
  BY <1>8 DEF Udp!KernelSends, Udp!Arrives, udpVars, UdpInv
<1> QED
  BY <1>2, <1>3, <1>4, <1>5, <1>6, <1>7, <1>8 DEF Udp!UdpNext

-----------------------------------------------------------------------------
(* The two servers of the demo *)

LEMMA ServerWatcher ==
  ASSUME NEW r, NEW x
  PROVE  /\ Server!WatcherInit = WatcherInit /\ Server!WatcherWith(x) = WatcherWith(x)
         /\ Server!Start(r) = Start(r) /\ Server!Stop(r) = Stop(r)
         /\ Server!Deliver(r, x) = Deliver(r, x) /\ Server!Feed(r, x) = Feed(r, x)
  BY DEF Server!WatcherInit, WatcherInit, Server!WatcherWith, WatcherWith,
         Server!Start, Start, Server!Stop, Stop, Server!Deliver, Deliver,
         Server!Feed, Feed, Server!IoStart, IoStart, Server!IoStop, IoStop,
         Server!Dirs, Dirs

ServerType == [sd : {"0", "-1", "ipv4", "unix"}, is_listening : BOOLEAN, w : WatcherType]

(* One server, with the sockets open: is_listening agrees with its watcher,  *)
(* and a server whose sd is not a listening socket watches nothing.          *)
Agrees(srv, open) ==
  /\ srv \in ServerType
  /\ Good(srv.w)
  /\ srv.is_listening <=> "STARTED" \in srv.w.flags
  /\ srv.sd \notin open => srv.w.flags \subseteq {"STARTED"}

ServerInv ==
  /\ server \in [Server!Servers -> ServerType]
  /\ \A s \in Server!Servers : Agrees(server[s], listening)
  /\ _test_timer = "off" => \A s \in Server!Servers : server[s] = Server!Unused

LEMMA ServerInvImplies == ServerInv => Server!StoppedTakesNone
<1> SUFFICES ASSUME ServerInv, NEW s \in Server!Servers
             PROVE  /\ ~server[s].is_listening => server[s].w.active = {} /\ server[s].w.pending = {}
                    /\ server[s].is_listening <=> "STARTED" \in server[s].w.flags
                    /\ server[s].w.active # {} => server[s].sd \in listening
  BY DEF Server!StoppedTakesNone
<1>1. Agrees(server[s], listening)
  BY DEF ServerInv
<1>2. ~server[s].is_listening => Silent(server[s].w)
  BY <1>1, StoppedSilent DEF Agrees
<1>3. server[s].w.flags \subseteq {"STARTED"} => server[s].w.active = {}
  BY <1>1 DEF Agrees, Good, WatcherType, ActiveMatchesFlags, Watched, Dirs
<1> QED
  BY <1>1, <1>2, <1>3 DEF Agrees, Silent

LEMMA UnusedAgrees == ASSUME NEW open PROVE Agrees(Server!Unused, open)
<1>1. Server!Unused = [sd |-> "0", is_listening |-> FALSE, w |-> WatcherInit]
  BY ServerWatcher DEF Server!Unused
<1>2. Good(WatcherInit) /\ WatcherInit.flags = {} /\ WatcherInit \in WatcherType
  BY WithGood DEF Good
<1> DEFINE srv == [sd |-> "0", is_listening |-> FALSE, w |-> WatcherInit]
<1>3. /\ srv \in ServerType
      /\ srv.is_listening = FALSE /\ srv.w = WatcherInit
  BY <1>2 DEF ServerType
<1> HIDE DEF srv
<1>4. Agrees(srv, open)
  BY <1>2, <1>3 DEF Agrees
<1> QED
  BY <1>1, <1>4 DEF srv

LEMMA ServerInitial == Server!ServerInit => ServerInv
<1> SUFFICES ASSUME Server!ServerInit PROVE ServerInv
  OBVIOUS
<1>1. server = [s \in Server!Servers |-> Server!Unused]
  BY DEF Server!ServerInit
<1> QED
  BY <1>1, UnusedAgrees DEF ServerInv, Agrees

LEMMA StartAgrees ==
  ASSUME NEW srv, NEW open, Agrees(srv, open)
  PROVE  Agrees(Server!ServerStart(srv), open) /\ Agrees(Server!ServerStop(srv), open)
<1>1. /\ Good(srv.w) /\ srv \in ServerType
      /\ Good(Start(srv.w)) /\ Start(srv.w).flags = srv.w.flags \cup {"STARTED"}
      /\ Good(Stop(srv.w)) /\ Stop(srv.w).flags = srv.w.flags \ {"STARTED"}
  BY StartGood, StopGood DEF Agrees
<1>2. Start(srv.w) \in WatcherType /\ Stop(srv.w) \in WatcherType
  BY <1>1 DEF Good
<1> DEFINE started == [srv EXCEPT !.is_listening = TRUE, !.w = Start(srv.w)]
           stopped == [srv EXCEPT !.is_listening = FALSE, !.w = Stop(srv.w)]
<1>3. /\ started \in ServerType /\ started.sd = srv.sd
      /\ started.is_listening = TRUE /\ started.w = Start(srv.w)
  BY <1>1, <1>2 DEF ServerType
<1>4. /\ stopped \in ServerType /\ stopped.sd = srv.sd
      /\ stopped.is_listening = FALSE /\ stopped.w = Stop(srv.w)
  BY <1>1, <1>2 DEF ServerType
<1>5. /\ Server!ServerStart(srv) = IF srv.is_listening THEN srv ELSE started
      /\ Server!ServerStop(srv) = IF ~srv.is_listening THEN srv ELSE stopped
  BY ServerWatcher DEF Server!ServerStart, Server!ServerStop
<1> HIDE DEF started, stopped
<1>6. Agrees(started, open) /\ Agrees(stopped, open)
  BY <1>1, <1>3, <1>4 DEF Agrees
<1> QED
  BY <1>5, <1>6

(* An event fed to or delivered from a server's watcher. *)
LEMMA EventAgrees ==
  ASSUME NEW srv, NEW open, Agrees(srv, open), NEW new, Good(new), new.flags = srv.w.flags
  PROVE  Agrees([srv EXCEPT !.w = new], open)
<1>1. srv \in ServerType /\ new \in WatcherType
  BY DEF Agrees, Good
<1> DEFINE srv2 == [srv EXCEPT !.w = new]
<1>2. /\ srv2 \in ServerType /\ srv2.sd = srv.sd
      /\ srv2.is_listening = srv.is_listening /\ srv2.w = new
  BY <1>1 DEF ServerType
<1> HIDE DEF srv2
<1>3. Agrees(srv2, open)
  BY <1>2 DEF Agrees
<1> QED
  BY <1>3 DEF srv2

LEMMA ListensAgrees ==
  ASSUME NEW s \in Server!Servers
  PROVE  LET srv == Server!Listens(s)
         IN  /\ srv \in ServerType /\ srv.sd = s /\ srv.is_listening = FALSE
             /\ Good(srv.w) /\ srv.w.flags = {"RX"}
<1>1. Server!Listens(s) = [sd |-> s, is_listening |-> FALSE, w |-> WatcherWith({"RX"})]
  BY ServerWatcher DEF Server!Listens
<1>2. /\ Good(WatcherWith({"RX"})) /\ WatcherWith({"RX"}).flags = {"RX"}
      /\ WatcherWith({"RX"}) \in WatcherType
  BY WithGood DEF Good, Dirs
<1>3. s \in {"ipv4", "unix"}
  BY DEF Server!Servers
<1> QED
  BY <1>1, <1>2, <1>3 DEF ServerType

(* The Unix domain server fails to listen, the other may. *)
LEMMA TaskStartKeeps == ASSUME ServerInv, Server!TaskStart PROVE ServerInv'
<1>1. PICK ipv4 \in Server!Ipv4Init(server["ipv4"]), unix \in Server!UnixDomainInit(server["unix"]) :
        /\ server' = [ipv4 |-> Server!ServerStart(ipv4), unix |-> Server!ServerStart(unix)]
        /\ listening' = {ipv4.sd, unix.sd} \ {Server!NoSd}
  BY DEF Server!TaskStart
<1>2. _test_timer' = "running"
  BY DEF Server!TaskStart
<1> DEFINE failed == [Server!Unused EXCEPT !.sd = Server!NoSd]
<1>3. server["ipv4"] = Server!Unused /\ server["unix"] = Server!Unused
  BY DEF ServerInv, Server!TaskStart, Server!Servers
<1>4. (ipv4 = Server!Listens("ipv4") \/ ipv4 = failed) /\ unix = failed
  BY <1>3 DEF Server!Ipv4Init, Server!UnixDomainInit, Server!InitFailed
<1>5. /\ failed \in ServerType /\ failed.sd = Server!NoSd
      /\ failed.is_listening = FALSE /\ failed.w = WatcherInit
  <2>1. Server!Unused = [sd |-> "0", is_listening |-> FALSE, w |-> WatcherInit]
    BY ServerWatcher DEF Server!Unused
  <2>2. WatcherInit \in WatcherType
    BY WithGood DEF Good
  <2> QED
    BY <2>1, <2>2 DEF Server!NoSd, ServerType
<1> HIDE DEF failed
<1>6. Good(WatcherInit) /\ WatcherInit.flags = {}
  BY WithGood
<1>7. Agrees(failed, listening')
  BY <1>5, <1>6 DEF Agrees
<1>8. Agrees(ipv4, listening')
  <2>1. CASE ipv4 = failed
    BY <1>7, <2>1
  <2>2. CASE ipv4 = Server!Listens("ipv4")
    <3>1. /\ ipv4 \in ServerType /\ ipv4.sd = "ipv4" /\ ipv4.is_listening = FALSE
          /\ Good(ipv4.w) /\ ipv4.w.flags = {"RX"}
      BY <2>2, ListensAgrees DEF Server!Servers
    <3>2. "ipv4" \in listening'
      BY <1>1, <3>1 DEF Server!NoSd
    <3> QED
      BY <3>1, <3>2 DEF Agrees
  <2> QED
    BY <1>4, <2>1, <2>2
<1>9. /\ Agrees(Server!ServerStart(ipv4), listening')
      /\ Agrees(Server!ServerStart(unix), listening')
  BY <1>4, <1>7, <1>8, StartAgrees
<1>10. /\ server' \in [Server!Servers -> ServerType]
       /\ \A s \in Server!Servers : Agrees(server'[s], listening')
  <2>1. /\ Server!ServerStart(ipv4) \in ServerType
        /\ Server!ServerStart(unix) \in ServerType
    BY <1>9 DEF Agrees
  <2> DEFINE started == [ipv4 |-> Server!ServerStart(ipv4), unix |-> Server!ServerStart(unix)]
  <2>2. /\ started \in [Server!Servers -> ServerType]
        /\ started["ipv4"] = Server!ServerStart(ipv4)
        /\ started["unix"] = Server!ServerStart(unix)
    BY <2>1 DEF Server!Servers
  <2> HIDE DEF started
  <2>3. server' = started
    BY <1>1 DEF started
  <2> QED
    BY <1>9, <2>2, <2>3 DEF Server!Servers
<1> QED
  BY <1>2, <1>10 DEF ServerInv

(* A step that replaces servers by ones that agree keeps the invariant. *)
LEMMA ServersReplaced ==
  ASSUME ServerInv, NEW f, server' = [s \in Server!Servers |-> f[s]],
         \A s \in Server!Servers : Agrees(f[s], listening),
         listening' = listening, _test_timer' # "off"
  PROVE  ServerInv'
  BY DEF ServerInv, Agrees

LEMMA ServerStep == ServerInv /\ [Server!ServerNext]_serverVars => ServerInv'
<1> SUFFICES ASSUME ServerInv, [Server!ServerNext]_serverVars PROVE ServerInv'
  OBVIOUS
<1>1. ASSUME NEW s \in Server!Servers
      PROVE  Agrees(server[s], listening) /\ Good(server[s].w)
  BY DEF ServerInv, Agrees
<1>2. CASE Server!TaskStart
  BY <1>2, TaskStartKeeps
<1>3. CASE Server!NewClient \/ (\E s \in Server!Servers : Server!ClientConnects(s) \/ Server!ClientLeaves(s))
           \/ UNCHANGED serverVars
  <2>1. UNCHANGED <<server, listening, _test_timer>>
    BY <1>3 DEF Server!NewClient, Server!ClientConnects, Server!ClientLeaves, serverVars
  <2> QED
    BY <2>1 DEF ServerInv
<1>4. CASE Server!TestTimerExpired
  <2> DEFINE f == [s \in Server!Servers |-> IF _server_stopped THEN Server!ServerStart(server[s])
                                            ELSE Server!ServerStop(server[s])]
  <2>1. \A s \in Server!Servers : Agrees(f[s], listening)
    BY <1>1, StartAgrees
  <2>2. server' = [s \in Server!Servers |-> f[s]] /\ listening' = listening /\ _test_timer' # "off"
    BY <1>4 DEF Server!TestTimerExpired
  <2> HIDE DEF f
  <2> QED
    BY <2>1, <2>2, ServersReplaced
<1>5. ASSUME NEW s \in Server!Servers, Server!RxEvent(s) PROVE ServerInv'
  <2> DEFINE new == [server[s] EXCEPT !.w = Deliver(server[s].w, "RX")]
             f == [server EXCEPT ![s] = new]
  <2>1. server' = f
    BY <1>1, <1>5, ServerWatcher DEF Server!RxEvent, ServerInv, ServerType
  <2>2. Agrees(new, listening)
    BY <1>1, DeliverGood, EventAgrees DEF Dirs
  <2> HIDE DEF new
  <2>3. /\ f = [x \in Server!Servers |-> f[x]]
        /\ \A x \in Server!Servers : Agrees(f[x], listening)
    BY <1>1, <2>2 DEF ServerInv
  <2>4. server[s] # Server!Unused
    <3>1. server[s].w.pending # {}
      BY <1>5 DEF Server!RxEvent
    <3>2. Server!Unused.w = WatcherInit
      BY ServerWatcher DEF Server!Unused
    <3>3. WatcherInit.pending = {}
      BY DEF WatcherInit
    <3> QED
      BY <3>1, <3>2, <3>3
  <2>5. _test_timer' # "off" /\ listening' = listening
    BY <1>5, <2>4 DEF Server!RxEvent, ServerInv
  <2> HIDE DEF f
  <2> QED
    BY <2>1, <2>3, <2>5, ServersReplaced
<1>6. ASSUME NEW due \in BOOLEAN, Server!PollServers(due) PROVE ServerInv'
  <2> DEFINE f == [s \in Server!Servers |->
                     IF Server!Ready(s) THEN [server[s] EXCEPT !.w = Feed(server[s].w, {"RX"})]
                     ELSE server[s]]
  <2>1. server' = [s \in Server!Servers |-> f[s]]
    BY <1>6, ServerWatcher DEF Server!PollServers
  <2>2. \A s \in Server!Servers : Agrees(f[s], listening)
    <3> SUFFICES ASSUME NEW s \in Server!Servers
                 PROVE  Agrees([server[s] EXCEPT !.w = Feed(server[s].w, {"RX"})], listening)
      BY <1>1
    <3>1. Good(Feed(server[s].w, {"RX"})) /\ Feed(server[s].w, {"RX"}).flags = server[s].w.flags
      BY <1>1, FeedGood DEF Dirs
    <3> QED
      BY <1>1, <3>1, EventAgrees
  <2>3. listening' = listening /\ _test_timer' # "off"
    BY <1>6 DEF Server!PollServers, Server!Quiet
  <2> HIDE DEF f
  <2> QED
    BY <2>1, <2>2, <2>3, ServersReplaced
<1> QED
  BY <1>2, <1>3, <1>4, <1>5, <1>6 DEF Server!ServerNext, Server!ServerCallback

-----------------------------------------------------------------------------
(* The three together *)

SocketsInv == StreamInv /\ UdpInv /\ ServerInv

LEMMA SocketsStep == SocketsInv /\ [NextSockets]_<<use, vars, udpVars, serverVars>> => SocketsInv'
<1> SUFFICES ASSUME SocketsInv, [NextSockets]_<<use, vars, udpVars, serverVars>>
             PROVE  SocketsInv'
  OBVIOUS
<1>1. [Next]_vars /\ [Udp!UdpNext]_udpVars /\ [Server!ServerNext]_serverVars
  BY DEF NextSockets
<1> QED
  BY <1>1, StreamStep, UdpStep, ServerStep DEF SocketsInv

LEMMA SocketsAlways == SpecSockets => []SocketsInv
<1>1. InitSockets => SocketsInv
  BY StreamInit, UdpInit, ServerInitial DEF InitSockets, SocketsInv
<1> QED
  BY <1>1, SocketsStep, PTL DEF SpecSockets

(* After stream_deinit, udp_socket_stop or _deinit and tcp_server_stop no    *)
(* callback of the stream, the socket or the server can run, whatever was    *)
(* pending when it was called.                                               *)
THEOREM FreedIsNeverCalled == SpecSockets => []NoCallbackAfterFree
<1>1. SocketsInv => NoCallbackAfterFree
  BY StreamInvImplies, UdpInvImplies, ServerInvImplies DEF SocketsInv, NoCallbackAfterFree
<1> QED
  BY <1>1, SocketsAlways, PTL

-----------------------------------------------------------------------------
(* The lists of inc/list.h *)

USE NodesAssumption

Pointers == [next : [Nodes -> Nodes \cup {NULL}], prev : [Nodes -> Nodes \cup {NULL}]]
Gone(m, n) == n \in Items /\ m.next[n] = NULL /\ m.prev[n] = NULL
Coherent(m, n) == Mirrored(m, n) \/ Gone(m, n)

Well(m) == m \in Pointers /\ \A n \in Nodes : Coherent(m, n)

Isolated(m, e) ==
  /\ m \in Pointers
  /\ \A n \in Nodes \ {e} : Coherent(m, n) /\ m.next[n] # e /\ m.prev[n] # e

LEMMA UnlinkedIsIsolated ==
  ASSUME NEW m, Well(m), NEW e \in Nodes, m.next[e] \in {e, NULL}
  PROVE  Isolated(m, e)
  BY SMTT(30) DEF Well, Isolated, Coherent, Gone, Mirrored, Pointers

LEMMA DelIsolates ==
  ASSUME NEW m, Well(m), NEW e \in Nodes, m.next[e] \notin {e, NULL}
  PROVE  Isolated(DelEntry(m, e), e)
  BY SMTT(60) DEF Well, Isolated, Coherent, Gone, Mirrored, Pointers, DelEntry, Unlink

LEMMA InitRestores ==
  ASSUME NEW m, NEW e \in Nodes, Isolated(m, e)
  PROVE  Well(INIT_LIST_HEAD(m, e))
  BY SMTT(60) DEF Well, Isolated, Coherent, Gone, Mirrored, Pointers, INIT_LIST_HEAD

LEMMA NullRestores ==
  ASSUME NEW m, Well(m), NEW e \in Items, m.next[e] \notin {e, NULL}
  PROVE  Well(list_del(m, e))
<1> DEFINE d == DelEntry(m, e)
<1>1. e \in Nodes
  BY DEF Nodes
<1>2. Isolated(d, e)
  BY <1>1, DelIsolates
<1> HIDE DEF d
<1>3. Well([next |-> [d.next EXCEPT ![e] = NULL], prev |-> [d.prev EXCEPT ![e] = NULL]])
  BY <1>1, <1>2, SMTT(60) DEF Well, Isolated, Coherent, Gone, Mirrored, Pointers
<1> QED
  BY <1>3 DEF d, list_del

LEMMA AddRestores ==
  ASSUME NEW m, NEW new \in Nodes, Isolated(m, new),
         NEW p \in Nodes \ {new}, NEW n \in Nodes \ {new}, m.next[p] = n, m.prev[n] = p
  PROVE  Well(AddBetween(m, new, p, n))
  BY SMTT(60) DEF Well, Isolated, Coherent, Gone, Mirrored, Pointers, AddBetween

(* A head is on the ring of its own list and never isolated with an item. *)
LEMMA AddAtHead ==
  ASSUME NEW m, NEW new \in Nodes, Isolated(m, new), NEW h \in Heads, h # new
  PROVE  Well(list_add(m, new, h)) /\ Well(list_add_tail(m, new, h))
<1>1. new \in Nodes /\ h \in Nodes \ {new}
  BY DEF Nodes
<1>2. Mirrored(m, h) /\ m.next[h] # new /\ m.prev[h] # new
  BY <1>1 DEF Isolated, Coherent, Gone
<1>3. m.next[h] \in Nodes \ {new} /\ m.prev[h] \in Nodes \ {new}
  BY <1>2 DEF Mirrored
<1>4. Well(AddBetween(m, new, h, m.next[h]))
  BY <1>1, <1>2, <1>3, AddRestores DEF Mirrored
<1>5. Well(AddBetween(m, new, m.prev[h], h))
  BY <1>1, <1>2, <1>3, AddRestores DEF Mirrored
<1> QED
  BY <1>4, <1>5 DEF list_add, list_add_tail

LEMMA MoveRestores ==
  ASSUME NEW m, Well(m), NEW n \in Nodes, m.next[n] \notin {n, NULL}, NEW h \in Heads, h # n
  PROVE  Well(list_move(m, n, h)) /\ Well(list_move_tail(m, n, h))
  BY DelIsolates, AddAtHead DEF list_move, list_move_tail, Nodes

LEMMA ReplaceIsolates ==
  ASSUME NEW m, Well(m), NEW old \in Items, m.next[old] \notin {old, NULL},
         NEW new \in Items, m.next[new] \in {new, NULL}
  PROVE  Isolated(list_replace(m, old, new), old)
<1>1. old \in Nodes /\ new \in Nodes /\ old # new
  BY DEF Nodes
<1>2. Isolated(m, new)
  BY <1>1, UnlinkedIsIsolated
<1>3. Mirrored(m, old) /\ m.next[old] # new /\ m.prev[old] # new
  BY <1>1, <1>2 DEF Isolated, Coherent, Gone
<1>4. m.next[old] # old /\ m.prev[old] \in Nodes
  BY <1>1, <1>3 DEF Well, Pointers, Mirrored
<1>5. list_replace(m, old, new) =
        [next |-> [m.next EXCEPT ![new] = m.next[old], ![m.prev[old]] = new],
         prev |-> [m.prev EXCEPT ![m.next[old]] = new, ![new] = m.prev[old]]]
  BY <1>1, <1>4 DEF list_replace, Well, Pointers
<1> QED
  BY <1>1, <1>2, <1>3, <1>4, <1>5, SMTT(60) DEF Well, Isolated, Coherent, Gone, Mirrored, Pointers

LEMMA CutRestores ==
  ASSUME NEW m, Well(m), NEW l \in Heads, NEW h \in Heads, l # h, list_empty(m, l),
         NEW entry \in Items \cup {h}, entry # h => m.next[entry] \notin {entry, NULL}
  PROVE  Well(list_cut_position(m, l, h, entry))
<1>1. l \in Nodes /\ h \in Nodes /\ entry \in Nodes /\ entry # l
  BY DEF Nodes
<1>2. Isolated(m, l)
  BY <1>1, UnlinkedIsIsolated DEF list_empty
<1>3. CASE entry = h /\ ~list_empty(m, h)
  BY <1>1, <1>2, <1>3, InitRestores DEF list_cut_position, list_is_singular
<1>4. CASE entry # h /\ ~list_empty(m, h) /\ ~(list_is_singular(m, h) /\ m.next[h] # entry)
  <2>1. Mirrored(m, h) /\ Mirrored(m, entry)
    BY <1>1, <1>4 DEF Well, Coherent, Gone
  <2>2. list_cut_position(m, l, h, entry) = CutAt(m, l, h, entry)
    BY <1>4 DEF list_cut_position
  <2>3. Well(CutAt(m, l, h, entry))
    BY <1>1, <1>2, <1>4, <2>1, SMTT(60) DEF Well, Isolated, Coherent, Gone, Mirrored, Pointers, CutAt
  <2> QED
    BY <2>2, <2>3
<1>5. CASE list_empty(m, h) \/ (entry # h /\ list_is_singular(m, h) /\ m.next[h] # entry)
  BY <1>5 DEF list_cut_position
<1> QED
  BY <1>3, <1>4, <1>5

LEMMA SpliceIsolates ==
  ASSUME NEW m, Well(m), NEW l \in Heads, ~list_empty(m, l),
         NEW p \in Nodes \ {l}, NEW n \in Nodes \ {l}, m.next[p] = n, m.prev[n] = p
  PROVE  Isolated(SpliceBetween(m, l, p, n), l)
<1>1. l \in Nodes /\ Mirrored(m, l)
  BY DEF Nodes, Well, Coherent, Gone
<1> QED
  BY <1>1, SMTT(60) DEF Well, Isolated, Coherent, Gone, Mirrored, Pointers, SpliceBetween, list_empty

LEMMA SpliceRestores ==
  ASSUME NEW m, Well(m), NEW l \in Heads, NEW h \in Heads, l # h,
         m.next[h] # l, m.prev[h] # l
  PROVE  Well(list_splice_init(m, l, h)) /\ Well(list_splice_tail_init(m, l, h))
<1>1. l \in Nodes /\ h \in Nodes \ {l}
  BY DEF Nodes
<1>2. Mirrored(m, h) /\ Mirrored(m, l)
  BY <1>1 DEF Well, Coherent, Gone
<1>3. CASE list_empty(m, l)
  BY <1>3 DEF list_splice_init, list_splice_tail_init
<1>4. CASE ~list_empty(m, l)
  <2>1. m.next[h] \in Nodes \ {l} /\ m.prev[h] \in Nodes \ {l}
    BY <1>2 DEF Mirrored
  <2>2. Isolated(SpliceBetween(m, l, h, m.next[h]), l)
    BY <1>1, <1>2, <1>4, <2>1, SpliceIsolates DEF Mirrored
  <2>3. Isolated(SpliceBetween(m, l, m.prev[h], h), l)
    BY <1>1, <1>2, <1>4, <2>1, SpliceIsolates DEF Mirrored
  <2> QED
    BY <1>1, <1>4, <2>2, <2>3, InitRestores DEF list_splice_init, list_splice_tail_init
<1> QED
  BY <1>3, <1>4

LEMMA RotateRestores ==
  ASSUME NEW m, Well(m), NEW h \in Heads
  PROVE  Well(list_rotate_left(m, h))
<1>1. CASE list_empty(m, h)
  BY <1>1 DEF list_rotate_left
<1>2. CASE ~list_empty(m, h)
  <2>1. h \in Nodes /\ Mirrored(m, h) /\ m.next[h] \in Nodes \ {h}
    BY <1>2 DEF Nodes, Well, Coherent, Gone, Mirrored, list_empty
  <2>2. m.next[m.next[h]] \notin {m.next[h], NULL}
    BY <2>1, <1>2 DEF Nodes, Well, Coherent, Gone, Mirrored, list_empty
  <2> QED
    BY <1>2, <2>1, <2>2, MoveRestores DEF list_rotate_left
<1> QED
  BY <1>1, <1>2

-----------------------------------------------------------------------------
LEMMA StepRestores == ASSUME Well(mem), [ListNext]_mem PROVE Well(mem')
<1> USE DEF Unlinked, Linked
<1>a. \A n \in Items : n \in Nodes /\ n \notin Heads
  BY DEF Nodes
<1>1. ASSUME NEW n \in Items, Prepare(n) PROVE Well(mem')
  BY <1>a, <1>1, UnlinkedIsIsolated, InitRestores DEF Prepare
<1>2. ASSUME NEW n \in Items, Del(n) PROVE Well(mem')
  BY <1>2, NullRestores DEF Del
<1>3. ASSUME NEW n \in Items, DelInit(n) PROVE Well(mem')
  BY <1>a, <1>3, DelIsolates, InitRestores DEF DelInit, list_del_init
<1>4. ASSUME NEW n \in Items, NEW h \in Heads, Add(n, h) \/ AddTail(n, h) PROVE Well(mem')
  BY <1>a, <1>4, UnlinkedIsIsolated, AddAtHead DEF Add, AddTail
<1>5. ASSUME NEW n \in Items, NEW h \in Heads, Move(n, h) \/ MoveTail(n, h) PROVE Well(mem')
  BY <1>a, <1>5, MoveRestores DEF Move, MoveTail
<1>6. ASSUME NEW old \in Items, NEW new \in Items, ReplaceInit(old, new) PROVE Well(mem')
  BY <1>a, <1>6, ReplaceIsolates, InitRestores DEF ReplaceInit, list_replace_init
<1>7. ASSUME NEW h \in Heads, RotateLeft(h) PROVE Well(mem')
  BY <1>7, RotateRestores DEF RotateLeft
<1>8. ASSUME NEW l \in Heads, NEW h \in Heads, SpliceInit(l, h) \/ SpliceTailInit(l, h) PROVE Well(mem')
  BY <1>8, SpliceRestores DEF SpliceInit, SpliceTailInit, Apart
<1>9. ASSUME NEW l \in Heads, NEW h \in Heads, NEW entry \in Items \cup {h}, Cut(l, h, entry) PROVE Well(mem')
  BY <1>9, CutRestores DEF Cut, OnList
<1>10. CASE UNCHANGED mem
  BY <1>10 DEF Well, Coherent, Gone, Mirrored
<1> QED
  BY <1>1, <1>2, <1>3, <1>4, <1>5, <1>6, <1>7, <1>8, <1>9, <1>10 DEF ListNext

(* Every ring stays a ring: whatever is added, deleted, moved, cut or        *)
(* spliced, in any order, next and prev of every node mirror each other.     *)
THEOREM RingsStayRings == ListHeadSpec => []WellLinked
<1> DEFINE Inv == Well(mem)
<1>1. ListInit => Inv
  BY DEF ListInit, Well, Coherent, Mirrored, Pointers
<1>2. Inv /\ [ListNext]_mem => Inv'
  BY StepRestores
<1>3. Inv => WellLinked
  BY DEF Well, Coherent, Gone, WellLinked
<1> HIDE DEF Inv
<1> QED
  BY <1>1, <1>2, <1>3, PTL DEF ListHeadSpec

-----------------------------------------------------------------------------
(***************************************************************************)
(* Proof that every buffer is in one place, for any number of writers and  *)
(* buffers.  The inductive invariant says where: at one index of the free  *)
(* list, in the hands of one thread, at one index of the mailbox, or       *)
(* leaked; the mutex keeps the head that a thread has picked where it is.  *)
(***************************************************************************)
HIDE NodesAssumption
PoolTyped ==
  /\ pc \in [Threads -> PCs]
  /\ buf \in [Threads -> Buffers \cup {NoBuf}]
  /\ lock \in Threads \cup {NoThread}
  /\ free \in Seq(Buffers)
  /\ box \in [{Logger} -> Seq(Buffers)]
  /\ leaked \subseteq Buffers

(* What a thread does under the mutex, and with a buffer. *)
Locked == \A t \in Threads : pc[t] \in GetPCs \cup PutPCs => lock = t
InHand ==
  \A t \in Threads :
    /\ pc[t] \in {"get_unlink", "format", "notify", "put_lock", "put_link"} => buf[t] \in Buffers
    /\ pc[t] \in {"idle", "get_lock", "get_first", "put_unlock"} => buf[t] = NoBuf
Picked == \A t \in Threads : pc[t] = "get_unlink" => free # << >> /\ buf[t] = free[1]
LoggerPuts == pc[Logger] \in {"idle", "put_lock"} \cup PutPCs

Indices(s, b) == {i \in DOMAIN s : s[i] = b}

InFree(b) == Indices(free, b)
Holders(b) == {t \in Threads : Holds(t, b)}
InBox(b) == Indices(box[Logger], b)

AtOne(f, h, m, l) ==
  \/ (\E i : f = {i}) /\ h = {} /\ m = {} /\ ~l
  \/ f = {} /\ (\E t : h = {t}) /\ m = {} /\ ~l
  \/ f = {} /\ h = {} /\ (\E i : m = {i}) /\ ~l
  \/ f = {} /\ h = {} /\ m = {} /\ l

InOnePlace == \A b \in Buffers : AtOne(InFree(b), Holders(b), InBox(b), b \in leaked)

PoolInv == PoolTyped /\ Locked /\ InHand /\ Picked /\ LoggerPuts /\ InOnePlace

LEMMA PlacesOfOne ==
  ASSUME NEW b \in Buffers, AtOne(InFree(b), Holders(b), InBox(b), b \in leaked)
  PROVE  Places(b) = 1
<1>1. Cardinality({}) = 0
  BY FS_EmptySet
<1>2. \A x : Cardinality({x}) = 1
  BY FS_Singleton
<1>3. Places(b) = Cardinality(InFree(b)) + Cardinality(Holders(b)) + Cardinality(InBox(b))
                    + (IF b \in leaked THEN 1 ELSE 0)
  BY DEF Places, InFree, Holders, InBox, Indices
<1> HIDE DEF InFree, Holders, InBox, Places
<1>4. CASE b \in leaked
  <2> InFree(b) = {} /\ Holders(b) = {} /\ InBox(b) = {}
    BY <1>4 DEF AtOne
  <2> QED
    BY <1>1, <1>3, <1>4
<1>5. CASE b \notin leaked
  <2>1. CASE \E i : InFree(b) = {i}
    <3>1. Holders(b) = {} /\ InBox(b) = {}
      BY <2>1, <1>5 DEF AtOne
    <3>2. Cardinality(InFree(b)) = 1
      BY <2>1, <1>2
    <3> QED
      BY <3>1, <3>2, <1>1, <1>3, <1>5
  <2>2. CASE \E t : Holders(b) = {t}
    BY <2>2, <1>1, <1>2, <1>3, <1>5 DEF AtOne
  <2>3. CASE \E i : InBox(b) = {i}
    <3>1. InFree(b) = {} /\ Holders(b) = {}
      BY <2>3, <1>5 DEF AtOne
    <3>2. Cardinality(InBox(b)) = 1
      BY <2>3, <1>2
    <3> QED
      BY <3>1, <3>2, <1>1, <1>3, <1>5
  <2> QED
    BY <2>1, <2>2, <2>3, <1>5 DEF AtOne
<1> QED
  BY <1>4, <1>5

LEMMA PoolInvImplies == PoolInv => EachBufferOnce
  BY PlacesOfOne DEF PoolInv, InOnePlace, InHand, EachBufferOnce

(* SetToSeq enumerates a finite set. *)
LEMMA AllFree ==
  ASSUME NEW S, IsFiniteSet(S)
  PROVE  LET s == SetToSeq(S) IN
         /\ s \in Seq(S)
         /\ \A b \in S : \E i : Indices(s, b) = {i}
<1> DEFINE n == Cardinality(S)
           s == SetToSeq(S)
<1>1. n \in Nat /\ ExistsBijection(1 .. n, S)
  BY FS_CardinalityType
<1>2. \E f \in [1 .. n -> S] : IsInjective(f)
  BY <1>1 DEF ExistsBijection, Bijection, Injection
<1>3. s \in [1 .. n -> S] /\ IsInjective(s)
  BY <1>2 DEF SetToSeq
<1> HIDE DEF s
<1>4. IsFiniteSet(1 .. n) /\ Cardinality(1 .. n) = n
  BY <1>1, FS_Interval
<1> DEFINE T == 1 .. n
<1>5. s \in Injection(T, S) /\ Cardinality(T) = Cardinality(S)
  BY <1>3, <1>4 DEF Injection
<1> HIDE DEF T
<1>6. s \in Surjection(T, S)
  BY <1>5, FS_Injection
<1> USE DEF T
<1>7. \A b \in S : \E i \in 1 .. n : s[i] = b
  BY <1>6 DEF Surjection
<1>8. s \in Seq(S)
  BY <1>1, <1>3
<1>9. DOMAIN s = 1 .. n
  BY <1>3
<1>10. \A b \in S : \E i : Indices(s, b) = {i}
  <2> SUFFICES ASSUME NEW b \in S PROVE \E i : Indices(s, b) = {i}
    OBVIOUS
  <2>1. PICK i \in 1 .. n : s[i] = b
    BY <1>7
  <2>2. \A j \in DOMAIN s : s[j] = b => j = i
    BY <2>1, <1>3, <1>9 DEF IsInjective
  <2>3. Indices(s, b) = {i}
    BY <2>1, <2>2, <1>9 DEF Indices
  <2> QED
    BY <2>3
<1> QED
  BY <1>8, <1>10 DEF s

LEMMA TailIndices ==
  ASSUME NEW S, NEW s \in Seq(S), s # << >>, NEW b
  PROVE  /\ Indices(s, b) = {} => Indices(Tail(s), b) = {}
         /\ s[1] # b => \A k : Indices(s, b) = {k} => Indices(Tail(s), b) = {k - 1}
         /\ s[1] = b => \A k : Indices(s, b) = {k} => Indices(Tail(s), b) = {}
<1>1. DOMAIN Tail(s) = 1 .. (Len(s) - 1) /\ \A i \in 1 .. (Len(s) - 1) : Tail(s)[i] = s[i + 1]
  OBVIOUS
<1>2. DOMAIN s = 1 .. Len(s) /\ Len(s) \in Nat \ {0}
  OBVIOUS
<1>3. \A i \in 1 .. (Len(s) - 1) : i \in Indices(Tail(s), b) <=> i + 1 \in Indices(s, b)
  BY <1>1, <1>2 DEF Indices
<1>4. Indices(Tail(s), b) \subseteq 1 .. (Len(s) - 1) /\ Indices(s, b) \subseteq 1 .. Len(s)
  BY <1>1, <1>2 DEF Indices
<1>5. 1 \in Indices(s, b) <=> s[1] = b
  BY <1>2 DEF Indices
<1> HIDE DEF Indices
<1>6. Indices(s, b) = {} => Indices(Tail(s), b) = {}
  BY <1>3, <1>4, <1>2
<1>7. ASSUME s[1] # b, NEW k, Indices(s, b) = {k} PROVE Indices(Tail(s), b) = {k - 1}
  <2>1. k \in 1 .. Len(s) /\ k # 1
    BY <1>7, <1>4, <1>5
  <2>2. \A i \in 1 .. (Len(s) - 1) : i \in Indices(Tail(s), b) <=> i = k - 1
    BY <2>1, <1>3, <1>7, <1>2
  <2>3. k - 1 \in 1 .. (Len(s) - 1)
    BY <2>1, <1>2
  <2> QED
    BY <2>2, <2>3, <1>4
<1>8. ASSUME s[1] = b, NEW k, Indices(s, b) = {k} PROVE Indices(Tail(s), b) = {}
  <2>1. k = 1
    BY <1>8, <1>5
  <2> QED
    BY <2>1, <1>3, <1>4, <1>8, <1>2
<1> QED
  BY <1>6, <1>7, <1>8

LEMMA AppendIndices ==
  ASSUME NEW S, NEW s \in Seq(S), NEW e \in S, NEW b
  PROVE  /\ b # e => Indices(Append(s, e), b) = Indices(s, b)
         /\ b = e /\ Indices(s, b) = {} => Indices(Append(s, e), b) = {Len(s) + 1}
<1>1. DOMAIN Append(s, e) = 1 .. (Len(s) + 1)
  OBVIOUS
<1>2. DOMAIN s = 1 .. Len(s) /\ Len(s) \in Nat
  OBVIOUS
<1>3. \A i \in 1 .. Len(s) : Append(s, e)[i] = s[i]
  OBVIOUS
<1>4. Append(s, e)[Len(s) + 1] = e
  OBVIOUS
<1> QED
  BY <1>1, <1>2, <1>3, <1>4 DEF Indices

(* What is picked and unlinked is the head of the list. *)
LEMMA WithoutHead ==
  ASSUME NEW S, NEW s \in Seq(S), s # << >>, NEW k, Indices(s, s[1]) = {k}
  PROVE  Without(s, s[1]) = Tail(s)
<1>1. 1 \in DOMAIN s /\ DOMAIN s = 1 .. Len(s) /\ Len(s) \in Nat
  OBVIOUS
<1>2. s[1] \in Range(s)
  BY <1>1 DEF Range
<1>3. (CHOOSE i \in DOMAIN s : s[i] = s[1]) = 1
  BY <1>1 DEF Indices
<1>4. RemoveAt(s, 1) = Tail(s)
  <2>1. RemoveAt(s, 1) = SubSeq(s, 1, 0) \o SubSeq(s, 2, Len(s))
    BY DEF RemoveAt
  <2>2. SubSeq(s, 1, 0) = << >>
    OBVIOUS
  <2>3. SubSeq(s, 2, Len(s)) = Tail(s) /\ Tail(s) \in Seq(S)
    OBVIOUS
  <2> QED
    BY <2>1, <2>2, <2>3
<1> QED
  BY <1>2, <1>3, <1>4 DEF Without

USE PoolAssumption

LEMMA InitIsOnePlace == PoolInit => PoolInv
<1> SUFFICES ASSUME PoolInit PROVE PoolInv
  OBVIOUS
<1>1. free \in Seq(Buffers) /\ \A b \in Buffers : \E i : Indices(free, b) = {i}
  BY AllFree DEF PoolInit
<1>2. box = [t \in {Logger} |-> << >>]
  BY DEF PoolInit, Mail!Init
<1>3. \A b \in Buffers : InBox(b) = {}
  BY <1>2 DEF InBox, Indices
<1>4. \A b \in Buffers : Holders(b) = {}
  BY DEF PoolInit, Holders, Holds
<1>5. InOnePlace
  BY <1>1, <1>3, <1>4 DEF InOnePlace, AtOne, InFree, PoolInit
<1>6. PoolTyped
  BY <1>1, <1>2 DEF PoolTyped, PoolInit, PCs, Threads
<1> QED
  BY <1>5, <1>6 DEF PoolInv, Locked, InHand, Picked, LoggerPuts, PoolInit, GetPCs, PutPCs, Threads

(* A step that moves no buffer. *)
LEMMA NothingMoves ==
  ASSUME InOnePlace, UNCHANGED <<free, mailVars, leaked>>,
         \A b \in Buffers, t \in Threads : Holds(t, b)' <=> Holds(t, b)
  PROVE  InOnePlace'
<1>1. \A b \in Buffers : Holders(b)' = Holders(b)
  BY DEF Holders
<1>2. \A b \in Buffers : InFree(b)' = InFree(b) /\ InBox(b)' = InBox(b)
  BY DEF InFree, InBox, mailVars
<1> QED
  BY <1>1, <1>2 DEF InOnePlace, mailVars

(* A buffer that thread t holds leaves its hands, no other one does. *)
LEMMA HandsOver ==
  ASSUME PoolInv, NEW t \in Threads, NEW x \in Buffers, buf[t] = x, pc[t] # "get_unlink",
         buf' = [buf EXCEPT ![t] = NoBuf], NEW to \in PCs \ {"get_unlink"}, Goto(t, pc[t], to)
  PROVE  /\ \A b \in Buffers \ {x} : Holders(b)' = Holders(b)
         /\ Holders(x)' = {}
         /\ InFree(x) = {} /\ InBox(x) = {} /\ x \notin leaked
<1>1. t \in Holders(x)
  BY DEF Holders, Holds
<1>2. InFree(x) = {} /\ InBox(x) = {} /\ x \notin leaked /\ Holders(x) = {t}
  BY <1>1 DEF PoolInv, InOnePlace, AtOne
<1>3. \A u \in Threads \ {t} : buf'[u] = buf[u] /\ pc'[u] = pc[u]
  BY DEF PoolInv, PoolTyped, Goto
<1>4. buf'[t] = NoBuf /\ NoBuf \notin Buffers
  BY DEF PoolInv, PoolTyped
<1>5. \A b \in Buffers \ {x} : Holders(b)' = Holders(b)
  BY <1>3, <1>4 DEF Holders, Holds
<1>6. Holders(x)' = {}
  BY <1>2, <1>3, <1>4 DEF Holders, Holds
<1> QED
  BY <1>2, <1>5, <1>6

(* Thread t takes a buffer in its hands. *)
LEMMA TakesUp ==
  ASSUME PoolTyped, NEW t \in Threads, NEW x \in Buffers, Holders(x) = {},
         \A u \in Threads \ {t} : buf'[u] = buf[u] /\ pc'[u] = pc[u],
         pc'[t] # "get_unlink", buf'[t] = x,
         pc[t] = "get_unlink" \/ buf[t] = NoBuf
  PROVE  /\ \A b \in Buffers \ {x} : Holders(b)' = Holders(b)
         /\ Holders(x)' = {t}
  BY DEF Holders, Holds

LEMMA PoolTypes == ASSUME PoolInv, [PoolNext]_poolVars PROVE PoolTyped'
<1> USE DEF PoolInv, PoolTyped, Goto, PCs, GetPCs, PutPCs
<1>1. ASSUME NEW t \in Threads, LogWrite(t) \/ GetLock(t) \/ GetUnlock(t) \/ Format(t) \/ PutLock(t) PROVE PoolTyped'
  BY <1>1 DEF LogWrite, GetLock, GetUnlock, Format, PutLock, mailVars
<1>2. ASSUME NEW t \in Threads, GetFirst(t) PROVE PoolTyped'
  BY <1>2 DEF GetFirst, mailVars
<1>3. ASSUME NEW t \in Threads, GetUnlink(t) PROVE PoolTyped'
  <2>1. free # << >> /\ buf[t] = free[1] /\ buf[t] \in Buffers
    BY <1>3 DEF GetUnlink, Picked, InHand
  <2>2. \E k : Indices(free, free[1]) = {k}
    <3>1. 1 \in InFree(free[1])
      BY <2>1 DEF InFree, Indices
    <3> QED
      BY <2>1, <3>1 DEF InOnePlace, AtOne, InFree
  <2>3. free' = Tail(free)
    BY <1>3, <2>1, <2>2, WithoutHead DEF GetUnlink
  <2> QED
    <3>1. free' \in Seq(Buffers)
      BY <2>1, <2>3
    <3>2. pc' = [pc EXCEPT ![t] = "get_unlock"] /\ UNCHANGED <<buf, lock, box, leaked>>
      BY <1>3 DEF GetUnlink, mailVars
    <3> QED
      BY <3>1, <3>2
<1>4. ASSUME NEW t \in Threads, Notify(t) \/ NotifyRefused(t) PROVE PoolTyped'
  <2>1. buf[t] \in Buffers
    BY <1>4 DEF Notify, NotifyRefused, InHand
  <2>2. CASE Notify(t)
    <3>1. Append(box[Logger], buf[t]) \in Seq(Buffers)
      BY <2>1
    <3> QED
      BY <2>2, <3>1 DEF Notify, Mail!Post
  <2> QED
    BY <1>4, <2>1, <2>2 DEF NotifyRefused, mailVars
<1>5. ASSUME NEW t \in Threads, PutLink(t) PROVE PoolTyped'
  <2> buf[t] \in Buffers
    BY <1>5 DEF PutLink, InHand
  <2> QED
    BY <1>5 DEF PutLink, mailVars
<1>6. ASSUME NEW t \in Threads, PutUnlock(t) PROVE PoolTyped'
  BY <1>6 DEF PutUnlock, Mail!Return, mailVars
<1>7. CASE Consume
  <2>1. Logger \in Threads
    BY DEF Threads
  <2>2. box[Logger] \in Seq(Buffers) /\ box[Logger] # << >>
    BY <1>7 DEF Consume, Mail!Take
  <2>3. Head(box[Logger]) \in Buffers /\ Tail(box[Logger]) \in Seq(Buffers)
    BY <2>2
  <2> QED
    BY <1>7, <2>1, <2>3 DEF Consume, Mail!Take
<1>8. CASE UNCHANGED poolVars
  BY <1>8 DEF poolVars
<1> QED
  BY <1>1, <1>2, <1>3, <1>4, <1>5, <1>6, <1>7, <1>8 DEF PoolNext, WriterStep, PutBack, Threads

(* The mutex, what is in hand, and the head that was picked. *)
Control == Locked /\ InHand /\ Picked /\ LoggerPuts

LEMMA PoolControl == ASSUME PoolInv, [PoolNext]_poolVars PROVE Control'
<1> USE DEF PoolInv, PoolTyped, Control, Locked, InHand, Picked, LoggerPuts, Goto, PCs, GetPCs, PutPCs
<1>1. ASSUME NEW t \in Writers, LogWrite(t) \/ GetLock(t) PROVE Control'
  BY <1>1 DEF LogWrite, GetLock, mailVars, Threads
<1>2. ASSUME NEW t \in Writers, GetFirst(t) PROVE Control'
  <2>1. CASE free = << >>
    BY <1>2, <2>1 DEF GetFirst, mailVars, Threads
  <2>2. CASE free # << >>
    <3>1. Head(free) = free[1] /\ free[1] \in Buffers
      BY <2>2
    <3> QED
      BY <1>2, <2>2, <3>1 DEF GetFirst, mailVars, Threads
  <2> QED
    BY <2>1, <2>2
<1>3. ASSUME NEW t \in Writers, GetUnlink(t) PROVE Control'
  <2>1. \A u \in Threads \ {t} : pc[u] # "get_unlink"
    BY <1>3 DEF GetUnlink, Threads
  <2> QED
    BY <1>3, <2>1 DEF GetUnlink, mailVars, Threads
<1>4. ASSUME NEW t \in Writers, GetUnlock(t) \/ Format(t) PROVE Control'
  BY <1>4 DEF GetUnlock, Format, mailVars, Threads
<1>5. ASSUME NEW t \in Writers, Notify(t) \/ NotifyRefused(t) PROVE Control'
  BY <1>5 DEF Notify, NotifyRefused, mailVars, Threads
<1>6. ASSUME NEW t \in Threads, PutLock(t) PROVE Control'
  BY <1>6 DEF PutLock, mailVars, Threads
<1>7. ASSUME NEW t \in Threads, PutLink(t) PROVE Control'
  <2>1. \A u \in Threads \ {t} : pc[u] # "get_unlink"
    BY <1>7 DEF PutLink, Threads
  <2> QED
    BY <1>7, <2>1 DEF PutLink, mailVars, Threads
<1>8. ASSUME NEW t \in Threads, PutUnlock(t) PROVE Control'
  BY <1>8 DEF PutUnlock, mailVars, Threads
<1>9. CASE Consume
  <2>1. box[Logger] \in Seq(Buffers) /\ box[Logger] # << >>
    BY <1>9 DEF Consume, Mail!Take
  <2>2. Head(box[Logger]) \in Buffers
    BY <2>1
  <2> QED
    BY <1>9, <2>2 DEF Consume, Threads
<1>10. CASE UNCHANGED poolVars
  BY <1>10 DEF poolVars
<1> QED
  BY <1>1, <1>2, <1>3, <1>4, <1>5, <1>6, <1>7, <1>8, <1>9, <1>10 DEF PoolNext, WriterStep, PutBack, Threads

LEMMA PoolPlaces == ASSUME PoolInv, [PoolNext]_poolVars PROVE InOnePlace'
<1>0. InOnePlace /\ PoolTyped
  BY DEF PoolInv
<1>1. ASSUME NEW t \in Writers, LogWrite(t) \/ GetLock(t) \/ GetUnlock(t) \/ Format(t) PROVE InOnePlace'
  <2>1. \A b \in Buffers, u \in Threads : Holds(u, b)' <=> Holds(u, b)
    BY <1>1 DEF LogWrite, GetLock, GetUnlock, Format, Holds, PoolInv, PoolTyped, Goto
  <2> QED
    BY <1>1, <2>1, <1>0, NothingMoves DEF LogWrite, GetLock, GetUnlock, Format, mailVars
<1>2. ASSUME NEW t \in Writers, GetFirst(t) PROVE InOnePlace'
  <2>1. buf[t] = NoBuf
    BY <1>2 DEF GetFirst, Goto, PoolInv, InHand, Threads
  <2>2. \A b \in Buffers, u \in Threads : Holds(u, b)' <=> Holds(u, b)
    BY <1>2, <2>1 DEF GetFirst, Holds, PoolInv, PoolTyped, Goto, Threads
  <2> QED
    BY <1>2, <2>2, <1>0, NothingMoves DEF GetFirst, mailVars
<1>3. ASSUME NEW t \in Writers, GetUnlink(t) PROVE InOnePlace'
  <2> DEFINE x == buf[t]
  <2>1. PICK y \in Buffers : y = buf[t] /\ free # << >> /\ y = free[1] /\ free \in Seq(Buffers)
    BY <1>3 DEF GetUnlink, Goto, PoolInv, PoolTyped, InHand, Picked, Threads
  <2>2. 1 \in InFree(y)
    BY <2>1 DEF InFree, Indices
  <2>3. PICK k : Indices(free, y) = {k} /\ Holders(y) = {} /\ InBox(y) = {} /\ y \notin leaked
    BY <2>2, <1>0 DEF InOnePlace, AtOne, InFree
  <2>4. free' = Tail(free)
    BY <1>3, <2>1, <2>3, WithoutHead DEF GetUnlink
  <2>5. Holders(y)' = {t} /\ \A b \in Buffers \ {y} : Holders(b)' = Holders(b)
    BY <1>3, <1>0, <2>1, <2>3, TakesUp DEF GetUnlink, Goto, PoolTyped, Threads
  <2>6. InFree(y)' = {}
    BY <2>1, <2>3, <2>4, TailIndices DEF InFree
  <2>7. \A b \in Buffers \ {y} : (InFree(b) = {} => InFree(b)' = {})
                              /\ (\A i : InFree(b) = {i} => InFree(b)' = {i - 1})
    BY <2>1, <2>4, TailIndices DEF InFree
  <2>8. \A b \in Buffers : InBox(b)' = InBox(b) /\ leaked' = leaked
    BY <1>3 DEF GetUnlink, mailVars, InBox
  <2>9. AtOne(InFree(y), Holders(y), InBox(y), y \in leaked)'
    BY <2>3, <2>5, <2>6, <2>8 DEF AtOne
  <2>10. \A b \in Buffers \ {y} : AtOne(InFree(b), Holders(b), InBox(b), b \in leaked)'
    <3> SUFFICES ASSUME NEW b \in Buffers \ {y} PROVE AtOne(InFree(b), Holders(b), InBox(b), b \in leaked)'
      OBVIOUS
    <3>1. AtOne(InFree(b), Holders(b), InBox(b), b \in leaked)
      BY <1>0 DEF InOnePlace
    <3>2. InFree(b) = {} => InFree(b)' = {}
      BY <2>7
    <3>3. (\E i : InFree(b) = {i}) => (\E i : InFree(b)' = {i})
      BY <2>7
    <3>4. InBox(b)' = InBox(b) /\ leaked' = leaked /\ Holders(b)' = Holders(b)
      BY <2>5, <2>8
    <3> QED
      BY <3>1, <3>2, <3>3, <3>4 DEF AtOne
  <2> QED
    BY <2>9, <2>10 DEF InOnePlace
<1>4. ASSUME NEW t \in Writers, Notify(t) PROVE InOnePlace'
  <2>1. PICK y \in Buffers : y = buf[t] /\ box[Logger] \in Seq(Buffers)
    BY <1>4 DEF Notify, Goto, PoolInv, PoolTyped, InHand, Threads
  <2>2. InFree(y) = {} /\ InBox(y) = {} /\ y \notin leaked /\ Holders(y)' = {}
        /\ \A b \in Buffers \ {y} : Holders(b)' = Holders(b)
    BY <1>4, <2>1, HandsOver DEF Notify, Goto, PCs, Threads
  <2>3. box'[Logger] = Append(box[Logger], y)
    BY <1>4, <2>1, <1>0 DEF Notify, Mail!Post, PoolTyped
  <2>4. InBox(y)' = {Len(box[Logger]) + 1} /\ \A b \in Buffers \ {y} : InBox(b)' = InBox(b)
    BY <2>1, <2>2, <2>3, AppendIndices DEF InBox
  <2>5. \A b \in Buffers : InFree(b)' = InFree(b) /\ leaked' = leaked
    BY <1>4 DEF Notify, InFree
  <2>6. AtOne(InFree(y), Holders(y), InBox(y), y \in leaked)'
    BY <2>2, <2>4, <2>5 DEF AtOne
  <2>7. \A b \in Buffers \ {y} : AtOne(InFree(b), Holders(b), InBox(b), b \in leaked)'
    BY <1>0, <2>2, <2>4, <2>5 DEF InOnePlace
  <2> QED
    BY <2>6, <2>7 DEF InOnePlace
<1>5. ASSUME NEW t \in Writers, NotifyRefused(t) PROVE InOnePlace'
  <2>1. PICK y \in Buffers : y = buf[t]
    BY <1>5 DEF NotifyRefused, Goto, PoolInv, InHand, Threads
  <2>2. InFree(y) = {} /\ InBox(y) = {} /\ Holders(y)' = {}
        /\ \A b \in Buffers \ {y} : Holders(b)' = Holders(b)
    BY <1>5, <2>1, HandsOver DEF NotifyRefused, Goto, PCs, Threads
  <2>3. \A b \in Buffers : InFree(b)' = InFree(b) /\ InBox(b)' = InBox(b)
    BY <1>5 DEF NotifyRefused, mailVars, InFree, InBox
  <2>4. leaked' = leaked \cup {y}
    BY <1>5, <2>1 DEF NotifyRefused
  <2>5. AtOne(InFree(y), Holders(y), InBox(y), y \in leaked)'
    BY <2>2, <2>3, <2>4 DEF AtOne
  <2>6. \A b \in Buffers \ {y} : AtOne(InFree(b), Holders(b), InBox(b), b \in leaked)'
    BY <1>0, <2>2, <2>3, <2>4 DEF InOnePlace
  <2> QED
    BY <2>5, <2>6 DEF InOnePlace
<1>6. ASSUME NEW t \in Threads, PutLock(t) \/ PutUnlock(t) PROVE InOnePlace'
  <2>1. \A b \in Buffers, u \in Threads : Holds(u, b)' <=> Holds(u, b)
    BY <1>6 DEF PutLock, PutUnlock, Holds, PoolInv, PoolTyped, Goto
  <2>2. UNCHANGED <<free, box, leaked>>
    BY <1>6 DEF PutLock, PutUnlock, mailVars, Mail!Return
  <2>3. \A b \in Buffers : Holders(b)' = Holders(b) /\ InFree(b)' = InFree(b) /\ InBox(b)' = InBox(b)
    BY <2>1, <2>2 DEF Holders, InFree, InBox
  <2> QED
    BY <2>2, <2>3, <1>0 DEF InOnePlace
<1>7. ASSUME NEW t \in Threads, PutLink(t) PROVE InOnePlace'
  <2>1. PICK y \in Buffers : y = buf[t] /\ free \in Seq(Buffers)
    BY <1>7 DEF PutLink, Goto, PoolInv, PoolTyped, InHand
  <2>2. InFree(y) = {} /\ InBox(y) = {} /\ y \notin leaked /\ Holders(y)' = {}
        /\ \A b \in Buffers \ {y} : Holders(b)' = Holders(b)
    BY <1>7, <2>1, HandsOver DEF PutLink, Goto, PCs, PutPCs
  <2>3. InFree(y)' = {Len(free) + 1} /\ \A b \in Buffers \ {y} : InFree(b)' = InFree(b)
    BY <1>7, <2>1, <2>2, AppendIndices DEF PutLink, InFree
  <2>4. \A b \in Buffers : InBox(b)' = InBox(b) /\ leaked' = leaked
    BY <1>7 DEF PutLink, mailVars, InBox
  <2>5. AtOne(InFree(y), Holders(y), InBox(y), y \in leaked)'
    BY <2>2, <2>3, <2>4 DEF AtOne
  <2>6. \A b \in Buffers \ {y} : AtOne(InFree(b), Holders(b), InBox(b), b \in leaked)'
    BY <1>0, <2>2, <2>3, <2>4 DEF InOnePlace
  <2> QED
    BY <2>5, <2>6 DEF InOnePlace
<1>8. CASE Consume
  <2>1. PICK y \in Buffers : /\ box[Logger] \in Seq(Buffers) /\ box[Logger] # << >>
                             /\ y = Head(box[Logger]) /\ y = box[Logger][1]
    BY <1>8, <1>0 DEF Consume, Mail!Take, PoolTyped
  <2>2. 1 \in InBox(y)
    BY <2>1 DEF InBox, Indices
  <2>3. PICK k : InBox(y) = {k} /\ Holders(y) = {} /\ InFree(y) = {} /\ y \notin leaked
    BY <2>2, <1>0 DEF InOnePlace, AtOne
  <2>4. box'[Logger] = Tail(box[Logger])
    BY <1>8, <1>0 DEF Consume, Mail!Take, PoolTyped
  <2>5. Holders(y)' = {Logger} /\ \A b \in Buffers \ {y} : Holders(b)' = Holders(b)
    <3>1. buf[Logger] = NoBuf /\ Logger \in Threads
      BY <1>8 DEF Consume, Goto, PoolInv, InHand, Threads
    <3>2. pc'[Logger] = "put_lock" /\ buf'[Logger] = y
          /\ \A u \in Threads \ {Logger} : buf'[u] = buf[u] /\ pc'[u] = pc[u]
      BY <1>8, <1>0, <2>1, <3>1 DEF Consume, Goto, PoolTyped
    <3> QED
      BY <3>1, <3>2, <2>3, <1>0, TakesUp
  <2>6. InBox(y)' = {} /\ \A b \in Buffers \ {y} : (InBox(b) = {} => InBox(b)' = {})
                              /\ (\A i : InBox(b) = {i} => InBox(b)' = {i - 1})
    <3>1. PICK m \in Seq(Buffers) : m = box[Logger]
      BY <2>1
    <3>2. \A b : InBox(b) = Indices(m, b) /\ InBox(b)' = Indices(Tail(m), b)
      BY <3>1, <2>4 DEF InBox
    <3>3. m # << >> /\ m[1] = y
      BY <2>1, <3>1
    <3> QED
      BY <2>3, <3>2, <3>3, TailIndices
  <2>7. \A b \in Buffers : InFree(b)' = InFree(b) /\ leaked' = leaked
    BY <1>8 DEF Consume, InFree
  <2>8. AtOne(InFree(y), Holders(y), InBox(y), y \in leaked)'
    BY <2>3, <2>5, <2>6, <2>7 DEF AtOne
  <2>9. \A b \in Buffers \ {y} : AtOne(InFree(b), Holders(b), InBox(b), b \in leaked)'
    <3> SUFFICES ASSUME NEW b \in Buffers \ {y} PROVE AtOne(InFree(b), Holders(b), InBox(b), b \in leaked)'
      OBVIOUS
    <3>1. AtOne(InFree(b), Holders(b), InBox(b), b \in leaked)
      BY <1>0 DEF InOnePlace
    <3>2. InBox(b) = {} => InBox(b)' = {}
      BY <2>6
    <3>3. (\E i : InBox(b) = {i}) => (\E i : InBox(b)' = {i})
      BY <2>6
    <3>4. InFree(b)' = InFree(b) /\ leaked' = leaked /\ Holders(b)' = Holders(b)
      BY <2>5, <2>7
    <3> QED
      BY <3>1, <3>2, <3>3, <3>4 DEF AtOne
  <2> QED
    BY <2>8, <2>9 DEF InOnePlace
<1>9. CASE UNCHANGED poolVars
  BY <1>9, <1>0, NothingMoves DEF poolVars, Holds, mailVars
<1> QED
  BY <1>1, <1>2, <1>3, <1>4, <1>5, <1>6, <1>7, <1>8, <1>9 DEF PoolNext, WriterStep, PutBack, Threads

(* For any number of threads that log and of buffers: no two threads write   *)
(* into one buffer, none writes into one the logger has yet to print, and    *)
(* none is lost but by a refused task_notify.                                *)
THEOREM BuffersNeverShared == PoolSpec => []EachBufferOnce
<1>1. PoolInit => PoolInv
  BY InitIsOnePlace
<1>2. PoolInv /\ [PoolNext]_poolVars => PoolInv'
  BY PoolTypes, PoolControl, PoolPlaces DEF PoolInv, Control
<1>3. PoolInv => EachBufferOnce
  BY PoolInvImplies
<1> QED
  BY <1>1, <1>2, <1>3, PTL DEF PoolSpec
=============================================================================

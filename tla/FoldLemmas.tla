----------------------------- MODULE FoldLemmas -----------------------------
(***************************************************************************)
(* Induction over numbers, stated on sets, and what it says of the folds   *)
(* of the community modules.  A fold over a sequence runs through states   *)
(* r[0], r[1], ... , each from the one before it by one application of its *)
(* operator.  To use it for FoldLeft(op, base, seq): op on S and T is the  *)
(* function G; FoldExists gives a g that satisfies the definition of the   *)
(* fold, so the one that CHOOSE takes there satisfies it too, and FoldRuns *)
(* gives r.                                                                *)
(***************************************************************************)
EXTENDS Integers, SequencesExt, SequenceTheorems, FiniteSetTheorems, WellFoundedInduction, TLAPS

(* A set that has 0, and n + 1 with each n, has every number. *)
LEMMA NatSetInduction ==
  ASSUME NEW S, 0 \in S, \A n \in Nat : n \in S => n + 1 \in S
  PROVE  Nat \subseteq S
<1> DEFINE R == {p \in Nat \X Nat : p[1] < p[2]}
           T == Nat \ S
<1>1. IsWellFoundedOn(OpToRel(<, Nat), Nat)
  BY NatLessThanWellFounded
<1>2. OpToRel(<, Nat) = R
  BY DEF OpToRel
<1>3. SUFFICES ASSUME T # {} PROVE FALSE
  OBVIOUS
<1>4. IsWellFoundedOn(R, Nat)
  BY <1>1, <1>2
<1> HIDE DEF R
<1>5. \E x \in T : \A y \in T : ~ (<<y, x>> \in R)
  <2>1. T \subseteq Nat
    OBVIOUS
  <2> HIDE DEF T
  <2> QED
    BY <1>4, <1>3, <2>1, WFMin
<1>6. PICK x \in T : \A y \in T : ~ (<<y, x>> \in R)
  BY <1>5
<1>7. x # 0 /\ x - 1 \in Nat
  OBVIOUS
<1>8. <<x - 1, x>> \in R
  BY <1>7 DEF R
<1> QED
  BY <1>6, <1>7, <1>8

(* The same up to a bound. *)
LEMMA Upto ==
  ASSUME NEW m \in Nat, NEW J, 0 \in J, \A i \in 1 .. m : i - 1 \in J => i \in J
  PROVE  \A i \in 0 .. m : i \in J
<1> DEFINE K == {n \in Nat : n <= m => n \in J}
<1>1. 0 \in K
  OBVIOUS
<1>2. ASSUME NEW n \in Nat, n \in K PROVE n + 1 \in K
  <2>1. CASE n + 1 <= m
    <3>1. n + 1 \in 1 .. m /\ (n + 1) - 1 = n
      BY <2>1
    <3> QED
      BY <3>1, <1>2, <2>1
  <2> QED
    BY <2>1
<1> HIDE DEF K
<1>3. Nat \subseteq K
  BY <1>1, <1>2, NatSetInduction
<1> QED
  BY <1>3 DEF K

(* Down from a bound. *)
LEMMA Downto ==
  ASSUME NEW m \in Nat, NEW J, m \in J, \A i \in 1 .. m : i \in J => i - 1 \in J
  PROVE  \A i \in 0 .. m : i \in J
<1> DEFINE K == {i \in 0 .. m : m - i \in J}
<1>1. 0 \in K
  OBVIOUS
<1>2. ASSUME NEW i \in 1 .. m, i - 1 \in K PROVE i \in K
  <2>1. m - (i - 1) \in 1 .. m /\ (m - (i - 1)) - 1 = m - i
    OBVIOUS
  <2>2. m - (i - 1) \in J
    BY <1>2
  <2>3. m - i \in J
    BY <2>1, <2>2
  <2> QED
    BY <2>3
<1> HIDE DEF K
<1>3. \A i \in 0 .. m : i \in K
  BY <1>1, <1>2, Upto
<1>4. ASSUME NEW i \in 0 .. m PROVE i \in J
  <2>1. m - i \in 0 .. m
    OBVIOUS
  <2>2. m - i \in K
    BY <2>1, <1>3
  <2>3. m - (m - i) \in J
    BY <2>2 DEF K
  <2> QED
    BY <2>3
<1> QED
  BY <1>4

-----------------------------------------------------------------------------
(* Folds *)

LEMMA MaxUpto ==
  ASSUME NEW i \in Nat, NEW s \in SUBSET (1 .. i), i \in s
  PROVE  Max(s) = i
<1>1. \A y \in s : i >= y
  OBVIOUS
<1>2. \A z \in s : (\A y \in s : z >= y) => z = i
  OBVIOUS
<1> QED
  BY <1>1, <1>2 DEF Max

LEMMA MaxOfUpto == \A n \in Nat : n > 0 => Max(1 .. n) = n /\ (1 .. n) \ {n} = 1 .. n - 1
<1> TAKE n \in Nat
<1> HAVE n > 0
<1>1. Max(1 .. n) = n
  BY MaxUpto
<1> QED
  BY <1>1

(* it maps each set s of places to the fold of G over the places of s. *)
TableUpto(G, base, seq, n, it) ==
  \A s \in SUBSET (1 .. n) :
    IF s = {} THEN it[s] = base
    ELSE Max(s) \in s /\ it[s] = G[<<it[s \ {Max(s)}], seq[Max(s)]>>]

LEMMA FoldTable ==
  ASSUME NEW S, NEW T, NEW G \in [S \X T -> S], NEW base \in S, NEW seq \in Seq(T)
  PROVE  \E it \in [SUBSET (1 .. Len(seq)) -> S] : TableUpto(G, base, seq, Len(seq), it)
<1> DEFINE J == {n \in 0 .. Len(seq) : \E it \in [SUBSET (1 .. n) -> S] : TableUpto(G, base, seq, n, it)}
<1>1. 0 \in J
  <2> DEFINE it == [s \in SUBSET (1 .. 0) |-> base]
  <2>1. it \in [SUBSET (1 .. 0) -> S]
    OBVIOUS
  <2>2. \A s \in SUBSET (1 .. 0) : s = {}
    OBVIOUS
  <2>3. TableUpto(G, base, seq, 0, it)
    BY <2>2 DEF TableUpto
  <2>4. 0 \in 0 .. Len(seq)
    BY LenProperties
  <2> HIDE DEF it
  <2> QED
    BY <2>1, <2>3, <2>4
<1>2. ASSUME NEW i \in 1 .. Len(seq), i - 1 \in J PROVE i \in J
  <2>1. PICK r \in [SUBSET (1 .. i - 1) -> S] : TableUpto(G, base, seq, i - 1, r)
    BY <1>2
  <2> DEFINE q == [s \in SUBSET (1 .. i) |-> IF i \in s THEN G[<<r[s \ {i}], seq[i]>>] ELSE r[s]]
  <2>2. i \in Nat /\ i \in 1 .. i /\ i \in 0 .. Len(seq)
    OBVIOUS
  <2>3. ASSUME NEW s \in SUBSET (1 .. i) PROVE s \ {i} \in SUBSET (1 .. i - 1)
    BY <2>2
  <2>4. seq[i] \in T
    OBVIOUS
  <2>5. ASSUME NEW s \in SUBSET (1 .. i)
        PROVE  /\ q[s] \in S
               /\ IF s = {} THEN q[s] = base
                  ELSE Max(s) \in s /\ q[s] = G[<<q[s \ {Max(s)}], seq[Max(s)]>>]
    <3>1. CASE i \in s
      <4>1. Max(s) = i
        BY <2>2, <3>1, MaxUpto
      <4>2. q[s] = G[<<r[s \ {i}], seq[i]>>]
        BY <3>1
      <4>3. s \ {i} \in SUBSET (1 .. i) /\ i \notin s \ {i}
        OBVIOUS
      <4>4. q[s \ {i}] = r[s \ {i}]
        BY <4>3
      <4>5. r[s \ {i}] \in S
        BY <2>3
      <4>6. G[<<r[s \ {i}], seq[i]>>] \in S
        BY <4>5, <2>4
      <4>7. s # {}
        BY <3>1
      <4> QED
        BY <3>1, <4>1, <4>2, <4>4, <4>6, <4>7
    <3>2. CASE i \notin s
      <4>1. s \in SUBSET (1 .. i - 1)
        BY <2>2, <3>2
      <4>2. q[s] = r[s]
        BY <3>2
      <4>3. IF s = {} THEN r[s] = base
            ELSE Max(s) \in s /\ r[s] = G[<<r[s \ {Max(s)}], seq[Max(s)]>>]
        BY <4>1, <2>1 DEF TableUpto
      <4>4. s \ {Max(s)} \in SUBSET (1 .. i) /\ i \notin s \ {Max(s)}
        BY <3>2
      <4>5. q[s \ {Max(s)}] = r[s \ {Max(s)}]
        BY <4>4
      <4>6. r[s] \in S
        BY <4>1
      <4> QED
        BY <4>2, <4>3, <4>5, <4>6
    <3> QED
      BY <3>1, <3>2
  <2>6. q \in [SUBSET (1 .. i) -> S]
    BY <2>5
  <2>7. TableUpto(G, base, seq, i, q)
    BY <2>5 DEF TableUpto
  <2> HIDE DEF q
  <2> QED
    BY <2>2, <2>6, <2>7
<1> HIDE DEF J
<1>3. Len(seq) \in Nat
  BY LenProperties
<1>4. \A n \in 0 .. Len(seq) : n \in J
  BY <1>1, <1>2, <1>3, Upto
<1>5. Len(seq) \in J
  BY <1>3, <1>4
<1> QED
  BY <1>5 DEF J

(* The fold of G over seq runs from base through r[1], r[2], ... to last. *)
Runs(S, G, base, seq, r, last) ==
  /\ r \in [0 .. Len(seq) -> S]
  /\ r[0] = base
  /\ \A n \in 1 .. Len(seq) : r[n] = G[<<r[n - 1], seq[n]>>]
  /\ last = r[Len(seq)]

(* g satisfies the definition of the fold of G. *)
IsFold(S, T, G, base, seq, g) ==
  /\ g \in [SUBSET DOMAIN seq -> S] /\ g[{}] = base
  /\ \A s \in SUBSET DOMAIN seq :
       s # {} => /\ g[s \ {Max(s)}] \in S /\ seq[Max(s)] \in T
                 /\ g[s] = G[<<g[s \ {Max(s)}], seq[Max(s)]>>]

LEMMA FoldExists ==
  ASSUME NEW S, NEW T, NEW G \in [S \X T -> S], NEW base \in S, NEW seq \in Seq(T)
  PROVE  \E g : IsFold(S, T, G, base, seq, g)
<1>1. DOMAIN seq = 1 .. Len(seq)
  BY LenProperties
<1>2. PICK g \in [SUBSET (1 .. Len(seq)) -> S] : TableUpto(G, base, seq, Len(seq), g)
  BY FoldTable
<1>3. g[{}] = base
  BY <1>2 DEF TableUpto
<1>4. ASSUME NEW s \in SUBSET (1 .. Len(seq)), s # {}
      PROVE  /\ g[s \ {Max(s)}] \in S /\ seq[Max(s)] \in T
             /\ g[s] = G[<<g[s \ {Max(s)}], seq[Max(s)]>>]
  <2>1. Max(s) \in s /\ g[s] = G[<<g[s \ {Max(s)}], seq[Max(s)]>>]
    BY <1>2, <1>4 DEF TableUpto
  <2>2. seq[Max(s)] \in T
    BY <2>1, ElementOfSeq
  <2> QED
    BY <2>1, <2>2
<1> QED
  BY <1>1, <1>2, <1>3, <1>4 DEF IsFold

(* it satisfies that definition as far as its entries are in S, where G is   *)
(* defined.                                                                  *)
Follows(S, T, G, base, seq, it) ==
  /\ it[{}] = base
  /\ \A s \in SUBSET DOMAIN seq :
       s # {} /\ it[s \ {Max(s)}] \in S /\ seq[Max(s)] \in T => it[s] = G[<<it[s \ {Max(s)}], seq[Max(s)]>>]

LEMMA FoldRuns ==
  ASSUME NEW S, NEW T, NEW G \in [S \X T -> S], NEW base \in S, NEW seq \in Seq(T), NEW it,
         Follows(S, T, G, base, seq, it)
  PROVE  \E r : Runs(S, G, base, seq, r, it[DOMAIN seq])
<1> USE DEF Follows
<1> DEFINE r == [n \in 0 .. Len(seq) |-> it[1 .. n]]
           J == {n \in 0 .. Len(seq) : r[n] \in S}
<1>0. Len(seq) \in Nat /\ DOMAIN seq = 1 .. Len(seq)
  BY LenProperties
<1>1. r[0] = base
  <2>1. 1 .. 0 = {}
    OBVIOUS
  <2> QED
    BY <2>1, <1>0
<1>2. ASSUME NEW n \in 1 .. Len(seq), r[n - 1] \in S
      PROVE  r[n] \in S /\ r[n] = G[<<r[n - 1], seq[n]>>]
  <2>1. n \in Nat /\ n > 0 /\ n \in 0 .. Len(seq) /\ n - 1 \in 0 .. Len(seq)
    BY <1>0
  <2>6. 1 .. n \in SUBSET (1 .. Len(seq)) /\ 1 .. n # {}
    <3>1. n \in 1 .. n
      BY <2>1
    <3>2. \A j \in 1 .. n : j \in 1 .. Len(seq)
      BY <1>0, <2>1
    <3> QED
      BY <3>1, <3>2
  <2>2. Max(1 .. n) = n /\ (1 .. n) \ {n} = 1 .. n - 1
    BY <2>1, MaxOfUpto
  <2>3. r[n] = it[1 .. n] /\ r[n - 1] = it[1 .. n - 1]
    BY <2>1
  <2>5. seq[n] \in T
    OBVIOUS
  <2>4. it[1 .. n] = G[<<it[1 .. n - 1], seq[n]>>]
    BY <1>0, <2>2, <2>3, <2>5, <2>6, <1>2
  <2> HIDE DEF r
  <2> QED
    BY <2>3, <2>4, <2>5, <1>2
<1>3. \A n \in 0 .. Len(seq) : n \in J
  <2>1. 0 \in J
    BY <1>0, <1>1
  <2>2. ASSUME NEW n \in 1 .. Len(seq), n - 1 \in J PROVE n \in J
    <3>1. n \in 0 .. Len(seq)
      BY <1>0
    <3> QED
      BY <1>2, <2>2, <3>1
  <2> HIDE DEF J
  <2> QED
    BY <1>0, <2>1, <2>2, Upto
<1>4. r \in [0 .. Len(seq) -> S]
  BY <1>3
<1>5. \A n \in 1 .. Len(seq) : n - 1 \in 0 .. Len(seq)
  BY <1>0
<1>6. it[DOMAIN seq] = r[Len(seq)]
  BY <1>0
<1>7. Runs(S, G, base, seq, r, it[DOMAIN seq])
  <2> HIDE DEF r
  <2> QED
    BY <1>1, <1>2, <1>4, <1>5, <1>6 DEF Runs
<1> QED
  BY <1>7

(* The elements of T are done one by one: G brings s into D[t] for its own t *)
(* and leaves it there for the others.                                       *)
DoneBy(S, T, G, Met) ==
  \A s \in S, t \in T : G[<<s, t>>] \in Met[t] /\ \A u \in T : s \in Met[t] => G[<<s, u>>] \in Met[t]

(* In the end all are done. *)
LEMMA FoldDone ==
  ASSUME NEW S, NEW T, NEW G, NEW base, NEW seq \in Seq(T), NEW r, NEW last, Runs(S, G, base, seq, r, last),
         NEW Met, DoneBy(S, T, G, Met)
  PROVE  last \in S /\ \A n \in 1 .. Len(seq) : last \in Met[seq[n]]
<1> DEFINE J == {n \in 0 .. Len(seq) : \A o \in 1 .. n : r[n] \in Met[seq[o]]}
<1>1. Len(seq) \in Nat
  BY LenProperties
<1>2. 0 \in J
  BY <1>1
<1>3. ASSUME NEW n \in 1 .. Len(seq), n - 1 \in J PROVE n \in J
  <2>1. n \in 0 .. Len(seq) /\ n - 1 \in 0 .. Len(seq) /\ r[n] = G[<<r[n - 1], seq[n]>>] /\ r[n - 1] \in S
    BY <1>1 DEF Runs
  <2>2. \A o \in 1 .. n : seq[o] \in T
    BY <1>1, ElementOfSeq
  <2>3. ASSUME NEW o \in 1 .. n PROVE r[n] \in Met[seq[o]]
    <3>1. CASE o = n
      BY <2>1, <2>2, <3>1 DEF DoneBy
    <3>2. CASE o # n
      <4>1. o \in 1 .. n - 1 /\ n \in 1 .. n
        BY <1>1, <3>2
      <4>2. r[n - 1] \in Met[seq[o]]
        BY <1>3, <4>1
      <4> QED
        BY <2>1, <2>2, <4>1, <4>2 DEF DoneBy
    <3> QED
      BY <3>1, <3>2
  <2> QED
    BY <2>1, <2>3
<1> HIDE DEF J
<1>4. Len(seq) \in J
  <2>1. \A n \in 0 .. Len(seq) : n \in J
    BY <1>1, <1>2, <1>3, Upto
  <2> QED
    BY <1>1, <2>1
<1> QED
  BY <1>1, <1>4 DEF J, Runs

(* A fold over a longer sequence runs through the same states. *)
LEMMA RunsGrow ==
  ASSUME NEW S, NEW T, NEW G, NEW base, NEW seq \in Seq(T), NEW x \in T,
         NEW q, NEW last, Runs(S, G, base, seq, q, last),
         NEW r, NEW end, Runs(S, G, base, Append(seq, x), r, end)
  PROVE  last \in S /\ end = G[<<last, x>>]
<1> DEFINE J == {n \in 0 .. Len(seq) : q[n] = r[n]}
           longer == Append(seq, x)
<1>1. /\ Len(seq) \in Nat /\ Len(longer) = Len(seq) + 1 /\ longer[Len(seq) + 1] = x
      /\ \A i \in 1 .. Len(seq) : longer[i] = seq[i]
  BY AppendProperties, LenProperties
<1>2. /\ q \in [0 .. Len(seq) -> S] /\ q[0] = base /\ last = q[Len(seq)]
      /\ \A n \in 1 .. Len(seq) : q[n] = G[<<q[n - 1], seq[n]>>]
      /\ r[0] = base /\ end = r[Len(longer)]
      /\ \A n \in 1 .. Len(longer) : r[n] = G[<<r[n - 1], longer[n]>>]
  BY DEF Runs
<1> HIDE DEF longer
<1>3. 0 \in J
  BY <1>1, <1>2
<1>4. ASSUME NEW n \in 1 .. Len(seq), n - 1 \in J PROVE n \in J
  <2>1. n \in 1 .. Len(longer) /\ n \in 0 .. Len(seq)
    BY <1>1
  <2>2. q[n] = G[<<q[n - 1], seq[n]>>] /\ r[n] = G[<<r[n - 1], longer[n]>>]
    BY <1>2, <2>1
  <2> QED
    BY <1>1, <1>4, <2>1, <2>2
<1>5. Len(seq) \in J
  <2> HIDE DEF J
  <2>1. \A n \in 0 .. Len(seq) : n \in J
    BY <1>1, <1>3, <1>4, Upto
  <2> QED
    BY <1>1, <2>1
<1>6. Len(seq) + 1 \in 1 .. Len(longer) /\ (Len(seq) + 1) - 1 = Len(seq)
  BY <1>1
<1>7. r[Len(seq) + 1] = G[<<r[Len(seq)], x>>]
  BY <1>1, <1>2, <1>6
<1>8. Len(seq) \in 0 .. Len(seq)
  BY <1>1
<1> QED
  BY <1>1, <1>2, <1>5, <1>7, <1>8

(* Concatenation, as an operator of its own: of it, only these facts are    *)
(* known to the provers.                                                     *)
Cat(a, b) == a \o b

LEMMA CatFacts ==
  ASSUME NEW V, NEW a \in Seq(V), NEW b \in Seq(V)
  PROVE  /\ Cat(a, b) \in Seq(V) /\ Len(Cat(a, b)) = Len(a) + Len(b)
         /\ Cat(a, << >>) = a /\ Cat(<< >>, a) = a
  BY ConcatProperties, ConcatEmptySeq DEF Cat

LEMMA CatAssociative ==
  ASSUME NEW V, NEW a \in Seq(V), NEW b \in Seq(V), NEW c \in Seq(V)
  PROVE  Cat(Cat(a, b), c) = Cat(a, Cat(b, c))
<1>1. (a \o b) \o c = a \o (b \o c)
  OBVIOUS
<1> QED
  BY <1>1 DEF Cat

LEMMA CatCancels ==
  ASSUME NEW V, NEW a \in Seq(V), NEW b \in Seq(V), NEW c \in Seq(V), Cat(a, b) = Cat(a, c)
  PROVE  b = c
<1>1. a \o b = a \o c
  BY DEF Cat
<1> QED
  BY <1>1

LEMMA CatAppend ==
  ASSUME NEW V, NEW a \in Seq(V), NEW x \in V
  PROVE  Append(a, x) = Cat(a, <<x>>) /\ <<x>> \in Seq(V)
<1>1. Append(a, x) = a \o <<x>>
  BY AppendIsConcat
<1>2. <<x>> \in Seq(V)
  OBVIOUS
<1> QED
  BY <1>1, <1>2 DEF Cat

(* F puts what H makes of the elements of a sequence one behind the other. *)
Gluing(T, V, H, F) ==
  /\ H \in [T -> Seq(V)] /\ F \in [Seq(T) -> Seq(V)]
  /\ F[<< >>] = << >>
  /\ \A s \in Seq(T), x \in T : F[Append(s, x)] = Cat(F[s], H[x])

LEMMA GluingSplits ==
  ASSUME NEW T, NEW V, NEW H, NEW F, Gluing(T, V, H, F), NEW s \in Seq(T), NEW t \in Seq(T)
  PROVE  F[Cat(s, t)] = Cat(F[s], F[t])
<1> DEFINE front(n) == SubSeq(t, 1, n)
           J == {n \in 0 .. Len(t) : F[Cat(s, front(n))] = Cat(F[s], F[front(n)])}
<1>1. Len(t) \in Nat /\ front(0) = << >> /\ front(Len(t)) = t
  BY LenProperties, SubSeqEmpty, SubSeqFull
<1>2. \A n \in 0 .. Len(t) : front(n) \in Seq(T)
  <2> SUFFICES ASSUME NEW n \in 0 .. Len(t) PROVE front(n) \in Seq(T)
    OBVIOUS
  <2>1. \A i \in 1 .. n : t[i] \in T
    BY <1>1, ElementOfSeq
  <2> QED
    BY <1>1, <2>1, SubSeqProperties
<1>3. \A n \in 1 .. Len(t) : t[n] \in T /\ n - 1 \in 0 .. Len(t) /\ front(n) = Append(front(n - 1), t[n])
  <2> SUFFICES ASSUME NEW n \in 1 .. Len(t)
               PROVE  t[n] \in T /\ n - 1 \in 0 .. Len(t) /\ front(n) = Append(front(n - 1), t[n])
    OBVIOUS
  <2>1. t[n] \in T /\ n - 1 \in 0 .. Len(t) /\ n \in Nat
    BY <1>1, ElementOfSeq
  <2>2. \A i \in 1 .. n : t[i] \in T
    BY <1>1, ElementOfSeq
  <2>3. front(n) \in Seq(T) /\ Len(front(n)) = n /\ \A i \in 1 .. n : front(n)[i] = t[i]
    <3>1. 1 <= n /\ n - 1 + 1 = n /\ \A i \in 1 .. n : 1 + i - 1 = i
      BY <2>1
    <3>2. /\ front(n) \in Seq(T) /\ Len(front(n)) = IF 1 <= n THEN n - 1 + 1 ELSE 0
          /\ \A i \in 1 .. n - 1 + 1 : front(n)[i] = t[1 + i - 1]
      BY <2>1, <2>2, SubSeqProperties
    <3> HIDE DEF front
    <3> QED
      BY <3>1, <3>2
  <2>4. front(n - 1) \in Seq(T) /\ Len(front(n - 1)) = n - 1 /\ \A i \in 1 .. n - 1 : front(n - 1)[i] = t[i]
    <3>0. PICK m \in Nat : m = n - 1
      BY <2>1
    <3>1. \A i \in 1 .. m : t[i] \in T
      BY <2>1, <2>2, <3>0
    <3>2. /\ front(m) \in Seq(T) /\ Len(front(m)) = IF 1 <= m THEN m - 1 + 1 ELSE 0
          /\ \A i \in 1 .. m - 1 + 1 : front(m)[i] = t[1 + i - 1]
      BY <3>1, SubSeqProperties
    <3>3. (IF 1 <= m THEN m - 1 + 1 ELSE 0) = m /\ m - 1 + 1 = m /\ \A i \in 1 .. m : 1 + i - 1 = i
      OBVIOUS
    <3> HIDE DEF front
    <3> QED
      BY <3>0, <3>2, <3>3
  <2> HIDE DEF front
  <2>5. /\ Append(front(n - 1), t[n]) \in Seq(T) /\ Len(Append(front(n - 1), t[n])) = n
        /\ \A i \in 1 .. n : Append(front(n - 1), t[n])[i] = t[i]
    <3>1. /\ Append(front(n - 1), t[n]) \in Seq(T) /\ Len(Append(front(n - 1), t[n])) = n - 1 + 1
          /\ \A i \in 1 .. n - 1 : Append(front(n - 1), t[n])[i] = t[i]
          /\ Append(front(n - 1), t[n])[n - 1 + 1] = t[n]
      BY <2>1, <2>4, AppendProperties
    <3>2. n - 1 + 1 = n /\ \A i \in 1 .. n : i \in 1 .. n - 1 \/ i = n
      BY <2>1
    <3> QED
      BY <3>1, <3>2
  <2> QED
    BY <2>1, <2>3, <2>5, SeqEqual
<1> HIDE DEF front
<1>4. 0 \in J
  <2>1. Cat(s, << >>) = s /\ F[s] \in Seq(V)
    BY CatFacts DEF Gluing
  <2>2. Cat(F[s], << >>) = F[s]
    BY <2>1, CatFacts
  <2>3. F[Cat(s, front(0))] = Cat(F[s], F[front(0)])
    <3>1. F[front(0)] = << >>
      BY <1>1 DEF Gluing
    <3> QED
      BY <1>1, <2>1, <2>2, <3>1
  <2>4. 0 \in 0 .. Len(t)
    BY <1>1
  <2> QED
    BY <2>3, <2>4, Zenon
<1>5. ASSUME NEW n \in 1 .. Len(t), n - 1 \in J PROVE n \in J
  <2> DEFINE u == front(n - 1)
             x == t[n]
  <2>1. u \in Seq(T) /\ x \in T /\ front(n) = Append(u, x) /\ n \in 0 .. Len(t)
    BY <1>1, <1>2, <1>3
  <2>2. F[Cat(s, u)] = Cat(F[s], F[u])
    BY <1>5
  <2> HIDE DEF u, x
  <2>3. Cat(s, u) \in Seq(T) /\ Cat(s, Append(u, x)) = Append(Cat(s, u), x)
    <3>1. Cat(s, u) \in Seq(T)
      BY <2>1, CatFacts
    <3>2. PICK e \in Seq(T) : e = <<x>>
      BY <2>1, CatAppend
    <3>3. Append(u, x) = Cat(u, e) /\ Append(Cat(s, u), x) = Cat(Cat(s, u), e)
      BY <2>1, <3>1, <3>2, CatAppend
    <3>4. Cat(Cat(s, u), e) = Cat(s, Cat(u, e))
      <4> HIDE <3>2
      <4> QED
        BY <2>1, CatAssociative
    <3> QED
      BY <3>1, <3>3, <3>4
  <2>4. F[Append(Cat(s, u), x)] = Cat(F[Cat(s, u)], H[x]) /\ F[Append(u, x)] = Cat(F[u], H[x])
    BY <2>1, <2>3 DEF Gluing
  <2>5. F[s] \in Seq(V) /\ F[u] \in Seq(V) /\ H[x] \in Seq(V)
    BY <2>1 DEF Gluing
  <2>6. Cat(Cat(F[s], F[u]), H[x]) = Cat(F[s], Cat(F[u], H[x]))
    BY <2>5, CatAssociative
  <2> QED
    BY <2>1, <2>2, <2>3, <2>4, <2>6
<1> HIDE DEF J
<1>6. Len(t) \in J
  <2>1. \A n \in 0 .. Len(t) : n \in J
    BY <1>1, <1>4, <1>5, Upto
  <2> QED
    BY <1>1, <2>1
<1> QED
  BY <1>1, <1>6 DEF J

-----------------------------------------------------------------------------
(* Sequences without repetition *)

LEMMA RemoveOnly ==
  ASSUME NEW T, NEW seq \in Seq(T), IsInjective(seq), NEW e \in Range(seq)
  PROVE  LET rest == RemoveFirst(seq, e)
         IN  /\ rest \in Seq(T) /\ IsInjective(rest) /\ Range(rest) = Range(seq) \ {e}
             /\ Len(rest) = Len(seq) - 1
<1> DEFINE rest == RemoveFirst(seq, e)
           len == Len(seq)
<1>1. PICK p \in 1 .. len : seq[p] = e
  BY DEF Range
<1>2. len \in Nat /\ DOMAIN seq = 1 .. len
  BY LenProperties
<1>3. {n \in 1 .. len : seq[n] = e} = {p}
  BY <1>1, <1>2 DEF IsInjective
<1>4. Min({p}) = p
  BY <1>1 DEF Min
<1>5. SelectInSeq(seq, LAMBDA v : v = e) = p
  BY <1>3, <1>4 DEF SelectInSeq
<1>6. rest = SubSeq(seq, 1, p - 1) \o SubSeq(seq, p + 1, len)
  BY <1>1, <1>5 DEF RemoveFirst, RemoveAt
<1>7. /\ rest \in Seq(T) /\ Len(rest) = len - 1
      /\ \A n \in 1 .. len - 1 : rest[n] = IF n < p THEN seq[n] ELSE seq[n + 1]
  <2> DEFINE before == SubSeq(seq, 1, p - 1)
             after == SubSeq(seq, p + 1, len)
  <2>1. before \in Seq(T) /\ Len(before) = p - 1 /\ \A n \in 1 .. p - 1 : before[n] = seq[n]
    <3>1. \A n \in 1 .. p - 1 : seq[n] \in T
      BY <1>1, <1>2
    <3>2. p - 1 \in Int /\ 1 \in Int
      BY <1>1, <1>2
    <3> HIDE DEF len
    <3> QED
      BY <1>1, <1>2, <3>1, <3>2, SubSeqProperties
  <2>2. after \in Seq(T) /\ Len(after) = len - p /\ \A n \in 1 .. len - p : after[n] = seq[n + p]
    <3>1. \A n \in p + 1 .. len : seq[n] \in T
      BY <1>1, <1>2
    <3>2. p + 1 \in Int /\ len \in Int
      BY <1>1, <1>2
    <3>3. /\ after \in Seq(T) /\ Len(after) = IF p + 1 <= len THEN len - (p + 1) + 1 ELSE 0
          /\ \A n \in 1 .. len - (p + 1) + 1 : after[n] = seq[p + 1 + n - 1]
      <4> HIDE DEF len
      <4> QED
        BY <3>1, <3>2, SubSeqProperties
    <3>4. \A n \in 1 .. len - p : n \in 1 .. len - (p + 1) + 1 /\ p + 1 + n - 1 = n + p
      BY <1>1, <1>2
    <3>5. Len(after) = len - p
      <4> HIDE DEF after
      <4>1. CASE p + 1 <= len
        BY <1>2, <3>3, <4>1
      <4>2. CASE ~(p + 1 <= len)
        <5>1. p = len
          <6> HIDE DEF len
          <6>1. p <= len /\ len \in Nat /\ p \in Nat
            BY <1>2
          <6> QED
            BY <4>2, <6>1
        <5> QED
          BY <1>2, <3>3, <4>2, <5>1
      <4> QED
        BY <4>1, <4>2
    <3> HIDE DEF after
    <3> QED
      BY <3>3, <3>4, <3>5
  <2> HIDE DEF before, after
  <2>3. rest = before \o after
    BY <1>6 DEF before, after
  <2> HIDE DEF rest
  <2>4. rest \in Seq(T) /\ Len(rest) = len - 1
    <3>1. before \o after \in Seq(T) /\ Len(before \o after) = Len(before) + Len(after)
      BY <2>1, <2>2, ConcatProperties
    <3> QED
      BY <1>1, <1>2, <2>1, <2>2, <2>3, <3>1
  <2>5. ASSUME NEW n \in 1 .. len - 1 PROVE rest[n] = IF n < p THEN seq[n] ELSE seq[n + 1]
    <3>1. n \in 1 .. Len(before) + Len(after) /\ Len(before) = p - 1
      BY <1>1, <1>2, <2>1, <2>2
    <3>2. rest[n] = IF n <= Len(before) THEN before[n] ELSE after[n - Len(before)]
      BY <2>1, <2>2, <2>3, <3>1, ConcatProperties
    <3>3. CASE n < p
      BY <1>1, <1>2, <2>1, <3>1, <3>2, <3>3
    <3>4. CASE ~(n < p)
      <4>1. n - (p - 1) \in 1 .. len - p /\ (n - (p - 1)) + p = n + 1
        BY <1>1, <1>2, <3>4
      <4>2. rest[n] = after[n - (p - 1)]
        BY <1>1, <1>2, <3>1, <3>2, <3>4
      <4> QED
        BY <2>2, <3>4, <4>1, <4>2
    <3> QED
      BY <3>3, <3>4
  <2> QED
    BY <2>4, <2>5
<1>8. DOMAIN rest = 1 .. len - 1
  BY <1>7
<1>9. ASSUME NEW n \in 1 .. len, n # p PROVE \E o \in 1 .. len - 1 : rest[o] = seq[n]
  <2>1. CASE n < p
    <3>1. n \in 1 .. len - 1
      BY <1>1, <1>2, <2>1
    <3> QED
      BY <3>1, <2>1, <1>7
  <2>2. CASE n > p
    <3>1. n - 1 \in 1 .. len - 1 /\ ~(n - 1 < p) /\ (n - 1) + 1 = n
      BY <1>1, <1>2, <2>2
    <3> QED
      BY <3>1, <1>7
  <2> QED
    BY <1>9, <2>1, <2>2, <1>2
<1>10. ASSUME NEW o \in 1 .. len - 1 PROVE \E n \in 1 .. len : n # p /\ rest[o] = seq[n]
  BY <1>1, <1>2, <1>7
<1>11. IsInjective(rest)
  <2> SUFFICES ASSUME NEW a \in 1 .. len - 1, NEW b \in 1 .. len - 1, rest[a] = rest[b] PROVE a = b
    BY <1>8 DEF IsInjective
  <2> DEFINE At2(n) == IF n < p THEN n ELSE n + 1
  <2>1. seq[At2(a)] = seq[At2(b)]
    BY <1>7
  <2>2. At2(a) \in 1 .. len /\ At2(b) \in 1 .. len
    BY <1>1, <1>2
  <2>3. At2(a) = At2(b)
    <3> HIDE DEF At2
    <3> QED
      BY <2>1, <2>2, <1>2 DEF IsInjective
  <2> QED
    BY <2>3
<1>12. Range(rest) = Range(seq) \ {e}
  <2>1. ASSUME NEW y \in Range(rest) PROVE y \in Range(seq) \ {e}
    BY <1>1, <1>2, <1>3, <1>8, <1>10 DEF Range
  <2>2. ASSUME NEW y \in Range(seq) \ {e} PROVE y \in Range(rest)
    BY <1>1, <1>2, <1>8, <1>9 DEF Range
  <2> QED
    BY <2>1, <2>2
<1> QED
  BY <1>7, <1>11, <1>12

LEMMA PrependOnly ==
  ASSUME NEW T, NEW seq \in Seq(T), IsInjective(seq), NEW e \in T, e \notin Range(seq)
  PROVE  LET longer == <<e>> \o seq
         IN  longer \in Seq(T) /\ IsInjective(longer) /\ Range(longer) = Range(seq) \cup {e}
<1> DEFINE longer == <<e>> \o seq
<1>1. Len(seq) \in Nat /\ DOMAIN seq = 1 .. Len(seq)
  BY LenProperties
<1>2. /\ longer \in Seq(T) /\ Len(longer) = Len(seq) + 1
      /\ \A n \in 1 .. Len(seq) + 1 : longer[n] = IF n = 1 THEN e ELSE seq[n - 1]
  BY <1>1
<1>3. DOMAIN longer = 1 .. Len(seq) + 1
  BY <1>2
<1> HIDE DEF longer
<1>4. Range(longer) = Range(seq) \cup {e}
  <2>1. \A n \in 1 .. Len(seq) + 1 : n # 1 => n - 1 \in 1 .. Len(seq)
    BY <1>1
  <2>2. \A n \in 1 .. Len(seq) : n + 1 \in 1 .. Len(seq) + 1 /\ n + 1 # 1 /\ (n + 1) - 1 = n
    BY <1>1
  <2>3. 1 \in 1 .. Len(seq) + 1
    BY <1>1
  <2>4. ASSUME NEW y \in Range(longer) PROVE y \in Range(seq) \cup {e}
    BY <1>1, <1>2, <1>3, <2>1 DEF Range
  <2>5. ASSUME NEW n \in 1 .. Len(seq) PROVE seq[n] \in Range(longer)
    <3>1. longer[n + 1] = seq[n] /\ n + 1 \in DOMAIN longer
      BY <1>2, <1>3, <2>2
    <3> QED
      BY <3>1 DEF Range
  <2>6. e \in Range(longer)
    BY <1>2, <1>3, <2>3 DEF Range
  <2> QED
    BY <1>1, <2>4, <2>5, <2>6 DEF Range
<1>5. IsInjective(longer)
  <2> SUFFICES ASSUME NEW a \in 1 .. Len(seq) + 1, NEW b \in 1 .. Len(seq) + 1, longer[a] = longer[b] PROVE a = b
    BY <1>3 DEF IsInjective
  <2>1. \A n \in 1 .. Len(seq) : seq[n] # e
    BY <1>1 DEF Range
  <2>2. a # 1 => a - 1 \in 1 .. Len(seq)
    BY <1>1
  <2>3. b # 1 => b - 1 \in 1 .. Len(seq)
    BY <1>1
  <2>4. longer[a] = (IF a = 1 THEN e ELSE seq[a - 1]) /\ longer[b] = (IF b = 1 THEN e ELSE seq[b - 1])
    BY <1>2
  <2>5. a # 1 /\ b # 1 => a - 1 = b - 1
    BY <1>1, <2>2, <2>3, <2>4 DEF IsInjective
  <2>6. a = 1 <=> b = 1
    BY <2>1, <2>2, <2>3, <2>4
  <2> QED
    BY <1>1, <2>5, <2>6
<1> QED
  BY <1>2, <1>4, <1>5 DEF longer
=============================================================================

-------------------------- MODULE TableLevel_proofs --------------------------
(***************************************************************************)
(* What the functions of ummu_mapt.c do at one level of the table, proved  *)
(* from what they are assumed to do at the level below, for every number   *)
(* of nodes, levels and blocks.  TableInv has the invariant and the        *)
(* contracts.                                                              *)
(***************************************************************************)
EXTENDS TableLevel, TableInv, FiniteSetTheorems, TLAPS

----------------------------------------
(* Arithmetic. *)

\* Multiplication keeps the order.
LEMMA Multiples ==
    ASSUME NEW p \in Nat, NEW a \in Nat, NEW b \in Nat, a <= b
    PROVE  a * p <= b * p
<1>1. PICK c \in Nat : b = a + c
  <2>1. b - a \in Nat  OBVIOUS
  <2> QED BY <2>1
<1>2. b * p = a * p + c * p /\ c * p >= 0  BY <1>1
<1> QED BY <1>2

\* A number is its quotient and its remainder.
LEMMA Remainder ==
    ASSUME NEW p \in Nat, p > 0, NEW a \in Nat
    PROVE  a = p * (a \div p) + (a % p)
  OBVIOUS

\* Quotient and remainder, with their bounds.
LEMMA Division ==
    ASSUME NEW p \in Nat \ {0}, NEW a \in Nat
    PROVE  /\ a \div p \in Nat /\ a % p \in 0 .. p - 1
           /\ (a \div p) * p <= a /\ a < (a \div p) * p + p
           /\ a = (a \div p) * p + (a % p)
<1>1. a \div p \in Nat  OBVIOUS
<1>2. a % p \in 0 .. p - 1  OBVIOUS
<1>3. a = p * (a \div p) + (a % p)  BY Remainder
<1>4. p * (a \div p) <= a /\ a < p * (a \div p) + p  OBVIOUS
<1>5. p * (a \div p) = (a \div p) * p  BY <1>1
<1> QED BY <1>1, <1>2, <1>3, <1>4, <1>5

\* The quotient is the number of whole spans below.
LEMMA Quotient ==
    ASSUME NEW p \in Nat \ {0}, NEW a \in Nat, NEW q \in Nat,
           q * p <= a, a < q * p + p
    PROVE  a \div p = q
<1> DEFINE d == a \div p
<1>1. d \in Nat /\ d * p <= a /\ a < d * p + p  BY Division
<1> HIDE DEF d
<1>2. d * p \in Nat /\ q * p \in Nat  BY <1>1
<1>3. ~(d < q)
  <2> SUFFICES ASSUME d < q PROVE FALSE  OBVIOUS
  <2>1. (d + 1) * p <= q * p  BY <1>1, Multiples
  <2>2. (d + 1) * p = d * p + p  BY <1>1
  <2> QED BY <1>1, <1>2, <2>1, <2>2
<1>4. ~(q < d)
  <2> SUFFICES ASSUME q < d PROVE FALSE  OBVIOUS
  <2>1. (q + 1) * p <= d * p  BY <1>1, Multiples
  <2>2. (q + 1) * p = q * p + p  OBVIOUS
  <2> QED BY <1>1, <1>2, <2>1, <2>2
<1> QED BY <1>1, <1>3, <1>4 DEF d

\* Division keeps the order.
LEMMA QuotientMonotone ==
    ASSUME NEW p \in Nat \ {0}, NEW a \in Nat, NEW b \in Nat, a <= b
    PROVE  a \div p <= b \div p
<1> DEFINE d == a \div p
           e == b \div p
<1>1. d \in Nat /\ e \in Nat /\ d * p <= a /\ b < e * p + p  BY Division
<1> HIDE DEF d, e
<1>2. ASSUME e < d PROVE FALSE
  <2>1. (e + 1) * p <= d * p  BY <1>1, <1>2, Multiples
  <2>2. (e + 1) * p = e * p + p  BY <1>1
  <2>3. e * p \in Nat /\ d * p \in Nat  BY <1>1
  <2> QED BY <1>1, <2>1, <2>2, <2>3
<1> QED BY <1>1, <1>2 DEF d, e

\* Dividing by a product is dividing twice.
LEMMA QuotientTwice ==
    ASSUME NEW p \in Nat \ {0}, NEW f \in Nat \ {0}, NEW a \in Nat
    PROVE  a \div (f * p) = (a \div p) \div f
<1> DEFINE d == a \div p
           e == d \div f
<1>1. d \in Nat /\ d * p <= a /\ a < d * p + p  BY Division
<1>2. e \in Nat /\ e * f <= d /\ d < e * f + f  BY <1>1, Division
<1> HIDE DEF d, e
<1>3. e * f \in Nat /\ f * p \in Nat \ {0} /\ e * (f * p) \in Nat  BY <1>2
<1>4. (e * f) * p <= d * p  BY <1>1, <1>2, <1>3, Multiples
<1>5. (d + 1) * p <= (e * f + f) * p  BY <1>1, <1>2, <1>3, Multiples
<1>6. (e * f) * p = e * (f * p) /\ (e * f + f) * p = e * (f * p) + f * p  BY <1>2
<1>7. (d + 1) * p = d * p + p /\ d * p \in Nat  BY <1>1
<1>8. e * (f * p) <= a /\ a < e * (f * p) + f * p  BY <1>1, <1>3, <1>4, <1>5, <1>6, <1>7
<1> QED BY <1>3, <1>8, <1>2, Quotient DEF d, e

----------------------------------------
(* Spans and cells. *)

\* A span is Fan spans of the level below (GET_LEVEL_RANGE_MASK).
LEMMA SpanFacts ==
    /\ \A l \in Levels : Span(l) \in Nat \ {0}
    /\ \A l \in Levels : l < LastLevel => Span(l) = Fan * Span(l + 1)
    /\ LastAddr \in Nat
<1> USE FanAssumption, PageAssumption
<1>0. Fan * Page \in Nat \ {0} /\ Fan * (Fan * Page) \in Nat \ {0}
      /\ Fan * (Fan * (Fan * Page)) \in Nat \ {0}
  OBVIOUS
<1>1. /\ Span(LastLevel) = Page
      /\ Span(LastLevel - 1) = Fan * Page
      /\ Span(LastLevel - 2) = Fan * (Fan * Page)
      /\ Span(LastLevel - 3) = Fan * (Fan * (Fan * Page))
  BY DEF Span
<1>2. \A l \in Levels : l \in {LastLevel, LastLevel - 1, LastLevel - 2, LastLevel - 3}
  BY DEF Levels
<1>3. \A l \in Levels : Span(l) \in Nat \ {0}  BY <1>0, <1>1, <1>2
<1>4. ASSUME NEW l \in Levels, l < LastLevel PROVE Span(l) = Fan * Span(l + 1)
  <2>1. CASE l = LastLevel - 1
    <3>1. l + 1 = LastLevel  BY <2>1
    <3> QED BY <1>1, <2>1, <3>1
  <2>2. CASE l = LastLevel - 2
    <3>1. l + 1 = LastLevel - 1  BY <2>2
    <3> QED BY <1>1, <2>2, <3>1
  <2>3. CASE l = LastLevel - 3
    <3>1. l + 1 = LastLevel - 2  BY <2>3
    <3> QED BY <1>1, <2>3, <3>1
  <2> QED BY <1>2, <1>4, <2>1, <2>2, <2>3 DEF Levels
<1>5. LastAddr \in Nat
  <2>1. 0 \in Levels  BY DEF Levels
  <2>2. Fan * Span(0) \in Nat \ {0}  BY <1>3, <2>1
  <2> QED BY <2>2 DEF LastAddr
<1> QED BY <1>3, <1>4, <1>5

\* The levels are numbers, the first and the last one among them.
LEMMA LevelNat == Levels \subseteq Nat /\ 0 \in Levels /\ LastLevel \in Levels /\ Fan \in Nat \ {0, 1}
  BY FanAssumption DEF Levels

\* A level is a natural number.
LEMMA LevelInt == \A l \in Levels : l \in Nat /\ l <= l
<1> SUFFICES ASSUME NEW l \in Levels PROVE l \in Nat /\ l <= l  OBVIOUS
<1>1. l \in Nat  BY LevelNat
<1> QED BY <1>1

\* A cell number is a natural number.
LEMMA CellNat ==
    ASSUME NEW l \in Levels, NEW a \in Nat
    PROVE  Cell(l, a) \in Nat
  BY SpanFacts, Division DEF Cell

\* Cells are numbered in the order of their addresses.
LEMMA CellMonotone ==
    ASSUME NEW l \in Levels, NEW a \in Nat, NEW b \in Nat, a <= b
    PROVE  Cell(l, a) <= Cell(l, b)
  BY SpanFacts, QuotientMonotone DEF Cell

\* Fan cells of a level make up one of the level above.
LEMMA CellUp ==
    ASSUME NEW l \in Levels, l < LastLevel, NEW a \in Nat
    PROVE  Cell(l, a) = Cell(l + 1, a) \div Fan
<1>1. l + 1 \in Levels /\ Fan \in Nat \ {0}  BY FanAssumption DEF Levels
<1>2. Span(l) = Fan * Span(l + 1) /\ Span(l + 1) \in Nat \ {0}  BY <1>1, SpanFacts
<1> QED BY <1>1, <1>2, QuotientTwice DEF Cell

\* Addresses in one cell are in one cell of every level above.
LEMMA CellNested ==
    ASSUME NEW k \in Levels, NEW l \in Levels, l <= k, NEW a \in Nat, NEW b \in Nat,
           Cell(k, a) = Cell(k, b)
    PROVE  Cell(l, a) = Cell(l, b)
<1>1. ASSUME NEW m \in Levels, m < LastLevel, Cell(m + 1, a) = Cell(m + 1, b)
      PROVE  Cell(m, a) = Cell(m, b)
  BY <1>1, CellUp
<1>2. LastLevel \in 0 .. 3 /\ k \in 0 .. 3 /\ l \in 0 .. 3 /\ k <= LastLevel
  BY FanAssumption DEF Levels
<1>3. \A m \in 0 .. 2 : m < k /\ Cell(m + 1, a) = Cell(m + 1, b) => Cell(m, a) = Cell(m, b)
  BY <1>1, <1>2 DEF Levels
<1>4. CASE k = l  BY <1>4
<1>5. CASE k = l + 1  BY <1>2, <1>3, <1>5
<1>6. CASE k = l + 2
  <2>1. Cell(l + 1, a) = Cell(l + 1, b)
    <3>1. l + 1 \in 0 .. 2 /\ l + 1 < k /\ (l + 1) + 1 = k  BY <1>2, <1>6
    <3> QED BY <1>3, <3>1
  <2> QED BY <1>2, <1>3, <1>6, <2>1
<1>7. CASE k = l + 3
  <2>0. l = 0 /\ k = 3  BY <1>2, <1>7
  <2>1. Cell(2, a) = Cell(2, b)  BY <1>3, <2>0
  <2>2. Cell(1, a) = Cell(1, b)  BY <1>3, <2>0, <2>1
  <2> QED BY <1>3, <2>0, <2>2
<1> QED BY <1>2, <1>4, <1>5, <1>6, <1>7

\* The root level has a node for every address.
LEMMA CellTop ==
    ASSUME NEW a \in Addr
    PROVE  Cell(0, a) \in Index /\ a \in Nat
<1>1. 0 \in Levels /\ Span(0) \in Nat \ {0} /\ Fan \in Nat \ {0} /\ LastAddr = Fan * Span(0) - 1
      /\ a \in Nat /\ a <= LastAddr
  BY SpanFacts, LevelNat DEF LastAddr, Addr
<1> DEFINE d == Cell(0, a)
<1>2. d \in Nat /\ d * Span(0) <= a  BY <1>1, Division DEF Cell
<1> HIDE DEF d
<1>3. ASSUME Fan <= d PROVE FALSE
  <2>1. Fan * Span(0) <= d * Span(0)  BY <1>1, <1>2, <1>3, Multiples
  <2>2. Fan * Span(0) \in Nat /\ d * Span(0) \in Nat  BY <1>1, <1>2
  <2> QED BY <1>1, <1>2, <2>1, <2>2
<1> QED BY <1>1, <1>2, <1>3 DEF Index, d

\* An index and the number of the block make up the number of a node.
LEMMA NodeNumber ==
    ASSUME NEW q \in Nat, NEW i \in Index
    PROVE  q * Fan + i \in Nat /\ (q * Fan + i) \div Fan = q /\ (q * Fan + i) % Fan = i
<1> DEFINE a == q * Fan + i
<1>1. Fan \in Nat \ {0} /\ q * Fan \in Nat /\ i \in Nat /\ i < Fan  BY LevelNat DEF Index
<1>2. a \in Nat /\ q * Fan <= a /\ a < q * Fan + Fan /\ a = q * Fan + i  BY <1>1
<1> HIDE DEF a
<1>3. a \div Fan = q  BY <1>1, <1>2, Quotient
<1>4. a = (a \div Fan) * Fan + (a % Fan) /\ a % Fan \in 0 .. Fan - 1  BY <1>1, <1>2, Division
<1>5. a = q * Fan + (a % Fan)  BY <1>3, <1>4
<1>6. a % Fan = i  BY <1>1, <1>2, <1>4, <1>5
<1> QED BY <1>2, <1>3, <1>6 DEF a

\* A node number is the number of a block and an index.
LEMMA NumberOfNode ==
    ASSUME NEW c \in Nat
    PROVE  c \div Fan \in Nat /\ c % Fan \in Index /\ c = (c \div Fan) * Fan + (c % Fan)
  BY LevelNat, Division DEF Index

\* An offset below the span stays in the cell.
LEMMA InCell ==
    ASSUME NEW l \in Levels, NEW c \in Nat, NEW o \in Nat, o < Span(l)
    PROVE  c * Span(l) + o \in Nat /\ Cell(l, c * Span(l) + o) = c
<1> DEFINE p == Span(l)
           a == c * p + o
<1>1. p \in Nat \ {0}  BY SpanFacts
<1> HIDE DEF p
<1>2. c * p \in Nat /\ o < p  BY <1>1 DEF p
<1>3. a \in Nat /\ c * p <= a /\ a < c * p + p  BY <1>1, <1>2
<1> HIDE DEF a
<1>4. a \div p = c  BY <1>1, <1>3, Quotient
<1> QED BY <1>3, <1>4 DEF Cell, a, p

\* Where an address is in its cell.
LEMMA CellOffset ==
    ASSUME NEW l \in Levels, NEW a \in Nat
    PROVE  /\ a % Span(l) \in Nat /\ a % Span(l) < Span(l)
           /\ a = Cell(l, a) * Span(l) + (a % Span(l))
<1> DEFINE p == Span(l)
<1>1. p \in Nat \ {0}  BY SpanFacts
<1> HIDE DEF p
<1>2. a % p \in 0 .. p - 1 /\ a = (a \div p) * p + (a % p)  BY <1>1, Division
<1> QED BY <1>1, <1>2 DEF Cell, p

\* Where the i-th node of a block begins.
LEMMA ChildStart ==
    ASSUME NEW l \in Levels, l < LastLevel, NEW c \in Nat, NEW i \in Index
    PROVE  /\ (c * Fan + i) * Span(l + 1) = c * Span(l) + i * Span(l + 1)
           /\ i * Span(l + 1) \in Nat /\ c * Span(l) \in Nat
           /\ i * Span(l + 1) + Span(l + 1) <= Span(l)
<1> DEFINE p == Span(l + 1)
<1>0. l + 1 \in Levels  BY LevelNat DEF Levels
<1>1. p \in Nat \ {0} /\ Span(l) = Fan * p  BY <1>0, SpanFacts
<1>2. Fan \in Nat /\ i \in Nat /\ i + 1 <= Fan  BY LevelNat DEF Index
<1> HIDE DEF p
<1>3. (c * Fan + i) * p = c * (Fan * p) + i * p  BY <1>1, <1>2
<1>4. (i + 1) * p <= Fan * p  BY <1>1, <1>2, Multiples
<1>5. (i + 1) * p = i * p + p /\ i * p \in Nat /\ c * (Fan * p) \in Nat  BY <1>1, <1>2
<1> QED BY <1>1, <1>3, <1>4, <1>5 DEF p

----------------------------------------
(* Bitmaps. *)

\* What FiniteSetsExt!Min chooses.
LEMMA Least ==
    ASSUME NEW S \in SUBSET Nat, S # {}
    PROVE  Min(S) \in S /\ \A k \in S : Min(S) <= k
<1> DEFINE T == {k \in Nat : \A j \in S : k <= j}
<1>1. 0 \in T  OBVIOUS
<1>2. ~(Nat \subseteq T)
  <2>1. PICK j \in S : TRUE  OBVIOUS
  <2>2. j + 1 \in Nat /\ j + 1 \notin T  BY <2>1
  <2> QED BY <2>2
<1>3. PICK k \in Nat : k \in T /\ k + 1 \notin T  BY <1>1, <1>2, Visit!NatSetInduction
<1>4. PICK j \in S : ~(k + 1 <= j)  BY <1>3
<1>5. j = k  BY <1>3, <1>4
<1>6. k \in S /\ \A i \in S : k <= i  BY <1>3, <1>4, <1>5
<1> HIDE DEF T
<1> QED BY <1>6 DEF Min

\* The word and the bit of a position.
LEMMA BitPosition ==
    ASSUME NEW w \in Nat, NEW b \in BitsOfWord
    PROVE  /\ w * BITS_PER_LONG + b \in Nat
           /\ WordOf(w * BITS_PER_LONG + b) = w /\ BitOf(w * BITS_PER_LONG + b) = b
<1> DEFINE p == BITS_PER_LONG
           a == w * p + b
<1>1. p \in Nat \ {0} /\ b \in Nat /\ b < p  BY BitmapAssumption DEF BitsOfWord
<1> HIDE DEF p
<1>2. w * p \in Nat  BY <1>1
<1>3. a \in Nat /\ w * p <= a /\ a < w * p + p /\ a = w * p + b  BY <1>1, <1>2
<1> HIDE DEF a
<1>4. a \div p = w  BY <1>1, <1>3, Quotient
<1>5. a = (a \div p) * p + (a % p) /\ a % p \in 0 .. p - 1  BY <1>1, <1>3, Division
<1>6. a = w * p + (a % p)  BY <1>4, <1>5
<1>7. a % p = b  BY <1>1, <1>2, <1>3, <1>5, <1>6
<1> QED BY <1>3, <1>4, <1>7 DEF WordOf, BitOf, a, p

\* A position is the bit of a word, and a word of the bitmap if it is in it.
LEMMA WordAndBit ==
    ASSUME NEW nr \in Nat
    PROVE  /\ WordOf(nr) \in Nat /\ BitOf(nr) \in BitsOfWord
           /\ nr = WordOf(nr) * BITS_PER_LONG + BitOf(nr)
           /\ \A size \in Nat : nr < size => WordOf(nr) \in Words(size)
<1> DEFINE p == BITS_PER_LONG
<1>1. p \in Nat \ {0}  BY BitmapAssumption
<1>2. nr \div p \in Nat /\ nr % p \in 0 .. p - 1 /\ nr = (nr \div p) * p + (nr % p)
  BY <1>1, Division
<1>3. ASSUME NEW size \in Nat, nr < size
      PROVE  nr \div p <= BITS_TO_LONGS(size) - 1 /\ BITS_TO_LONGS(size) \in Nat
  <2> DEFINE d == nr \div p
             c == size + p - 1
  <2>1. d \in Nat /\ d * p <= nr /\ nr < d * p + p  BY <1>1, Division
  <2>2. c \in Nat /\ nr + p <= c  BY <1>1, <1>3
  <2>3. nr + p \in Nat /\ (nr + p) \div p <= c \div p /\ c \div p \in Nat
    BY <1>1, <2>2, QuotientMonotone, Division
  <2>4. (nr + p) \div p = d + 1
    <3> HIDE DEF d
    <3>0. d \in Nat /\ p \in Nat /\ d * p \in Nat  BY <1>1, <2>1
    <3> HIDE DEF p
    <3>1. (d + 1) * p = d * p + p  BY <3>0
    <3>2. d + 1 \in Nat /\ nr + p \in Nat /\ (d + 1) * p <= nr + p /\ nr + p < (d + 1) * p + p
      BY <2>1, <3>0, <3>1
    <3>3. p \in Nat \ {0}  BY <1>1
    <3> QED BY <3>2, <3>3, Quotient
  <2> QED BY <2>1, <2>3, <2>4 DEF BITS_TO_LONGS
<1>4. ASSUME NEW size \in Nat, nr < size PROVE nr \div p \in 0 .. BITS_TO_LONGS(size) - 1
  BY <1>2, <1>3, <1>4
<1> QED BY <1>2, <1>4 DEF WordOf, BitOf, BitsOfWord, Words

\* ummu_set_bit adds the position.
LEMMA SetBit ==
    ASSUME NEW size \in Nat, NEW a, IsBitmap(a, size), NEW nr \in 0 .. size - 1
    PROVE  /\ IsBitmap(ummu_set_bit(nr, a), size)
           /\ Ones(ummu_set_bit(nr, a), size) = Ones(a, size) \cup {nr}
<1>1. \A m \in 0 .. size - 1 : /\ m \in Nat /\ WordOf(m) \in Words(size) /\ BitOf(m) \in BitsOfWord
                              /\ m = WordOf(m) * BITS_PER_LONG + BitOf(m)
  BY WordAndBit
<1>2. \A m \in 0 .. size - 1 : WordOf(m) = WordOf(nr) /\ BitOf(m) = BitOf(nr) => m = nr  BY <1>1
<1> QED BY <1>1, <1>2 DEF ummu_set_bit, Ones, IsBitmap

\* ummu_clear_bit removes the position.
LEMMA ClearBit ==
    ASSUME NEW size \in Nat, NEW a, IsBitmap(a, size), NEW nr \in 0 .. size - 1
    PROVE  /\ IsBitmap(ummu_clear_bit(nr, a), size)
           /\ Ones(ummu_clear_bit(nr, a), size) = Ones(a, size) \ {nr}
<1>1. \A m \in 0 .. size - 1 : /\ m \in Nat /\ WordOf(m) \in Words(size) /\ BitOf(m) \in BitsOfWord
                              /\ m = WordOf(m) * BITS_PER_LONG + BitOf(m)
  BY WordAndBit
<1>2. \A m \in 0 .. size - 1 : WordOf(m) = WordOf(nr) /\ BitOf(m) = BitOf(nr) => m = nr  BY <1>1
<1> QED BY <1>1, <1>2 DEF ummu_clear_bit, Ones, IsBitmap

\* The scan over the words finds the least position from word k on.
LEMMA FirstFromCorrect ==
    ASSUME NEW size \in Nat, NEW a, IsBitmap(a, size), NEW k \in Nat
    PROVE  LeastFrom(FirstFrom(a, size, k), Ones(a, size), k * BITS_PER_LONG, size)
<1> DEFINE p == BITS_PER_LONG
           found == {i \in k .. BITS_TO_LONGS(size) - 1 : a[i] # {}}
           i == Min(found)
           v == FirstFrom(a, size, k)
<1>0. p \in Nat \ {0}  BY BitmapAssumption
<1>1. \A m \in 0 .. size - 1 : /\ m \in Nat /\ WordOf(m) \in Words(size) /\ BitOf(m) \in BitsOfWord
                              /\ m = WordOf(m) * p + BitOf(m)
  BY WordAndBit
<1>2. \A w \in Ones(a, size) : k * p <= w => WordOf(w) \in found
  <2> SUFFICES ASSUME NEW w \in Ones(a, size), k * p <= w PROVE WordOf(w) \in found  OBVIOUS
  <2>1. w \in 0 .. size - 1 /\ BitOf(w) \in a[WordOf(w)]  BY DEF Ones
  <2>2. k * p \in Nat  BY <1>0
  <2>3. k <= WordOf(w)
    <3>1. (k * p) \div p = k  BY <1>0, <2>2, Quotient
    <3>2. (k * p) \div p <= w \div p  BY <1>0, <2>1, <2>2, QuotientMonotone
    <3> QED BY <3>1, <3>2 DEF WordOf
  <2> QED BY <1>1, <2>1, <2>3 DEF Words
<1>3. CASE found = {}
  <2>1. v = size  BY <1>3 DEF FirstFrom
  <2> QED BY <1>2, <1>3, <2>1 DEF LeastFrom
<1>4. CASE found # {}
  <2>1. found \in SUBSET Nat  OBVIOUS
  <2>2. i \in found /\ \A j \in found : i <= j
    <3> HIDE DEF found
    <3> QED BY <1>4, <2>1, Least
  <2>3. i \in Words(size) /\ k <= i /\ i \in Nat /\ a[i] # {} /\ a[i] \subseteq BitsOfWord
    <3> HIDE DEF i
    <3> QED BY <2>2 DEF Words, IsBitmap
  <2>4. Complement(Complement(a[i])) = a[i]  BY <2>3 DEF Complement
  <2> DEFINE b == Min(a[i])
  <2>5. b \in a[i] /\ \A c \in a[i] : b <= c
    <3> HIDE DEF i
    <3>1. a[i] \in SUBSET Nat  BY <2>3 DEF BitsOfWord
    <3> QED BY <2>3, <3>1, Least
  <2>6. v = i * p + b  BY <1>4, <2>4 DEF FirstFrom, ffz
  <2>7. v \in Nat /\ WordOf(v) = i /\ BitOf(v) = b
    <3> HIDE DEF b, i, v, p
    <3>1. b \in BitsOfWord  BY <2>3, <2>5
    <3> QED BY <2>3, <2>6, <3>1, BitPosition DEF p
  <2>8. v < size => v \in Ones(a, size)
    <3> HIDE DEF b, i, v
    <3> QED BY <2>5, <2>7 DEF Ones
  <2>9. k * p <= v
    <3> HIDE DEF b, i, v
    <3>1. k * p <= i * p  BY <1>0, <2>3, Multiples
    <3>2. b \in Nat /\ i * p \in Nat /\ k * p \in Nat  BY <1>0, <2>3, <2>5 DEF BitsOfWord
    <3> QED BY <2>6, <3>1, <3>2
  <2>10. ASSUME NEW w \in Ones(a, size), k * p <= w PROVE v <= w
    <3>1. w \in 0 .. size - 1 /\ BitOf(w) \in a[WordOf(w)]  BY DEF Ones
    <3>2. WordOf(w) \in found  BY <1>2, <2>10
    <3>3. i <= WordOf(w) /\ WordOf(w) \in Nat /\ BitOf(w) \in BitsOfWord /\ w = WordOf(w) * p + BitOf(w)
      BY <1>1, <2>2, <3>1, <3>2
    <3> HIDE DEF b, i, v, found
    <3>4. CASE i = WordOf(w)
      <4>1. b <= BitOf(w) /\ b \in Nat /\ BitOf(w) \in Nat /\ i * p \in Nat
        BY <1>0, <2>3, <2>5, <3>1, <3>3, <3>4 DEF BitsOfWord
      <4> QED BY <2>6, <3>3, <3>4, <4>1
    <3>5. CASE i < WordOf(w)
      <4>1. (i + 1) * p <= WordOf(w) * p  BY <1>0, <2>3, <3>3, <3>5, Multiples
      <4>2. (i + 1) * p = i * p + p /\ i * p \in Nat /\ WordOf(w) * p \in Nat
        BY <1>0, <2>3, <3>3
      <4>3. b < p /\ b \in Nat /\ BitOf(w) \in Nat  BY <1>0, <2>3, <2>5, <3>3 DEF BitsOfWord
      <4> QED BY <1>0, <2>6, <3>3, <4>1, <4>2, <4>3
    <3> QED BY <2>3, <3>3, <3>4, <3>5
  <2> QED BY <2>7, <2>8, <2>9, <2>10 DEF LeastFrom
<1> QED BY <1>3, <1>4

\* find_first_zero_bit returns the least id that is not in use, and something
\* not below size when all are.
THEOREM FirstZeroBit ==
    ASSUME NEW size \in Nat, NEW a, IsBitmap(a, size)
    PROVE  LeastFrom(find_first_zero_bit(a, size), (0 .. size - 1) \ Ones(a, size), 0, size)
<1> DEFINE c == [i \in DOMAIN a |-> Complement(a[i])]
<1>1. IsBitmap(c, size)  BY DEF IsBitmap, Complement
<1>2. Ones(c, size) = (0 .. size - 1) \ Ones(a, size)
  <2>1. \A m \in 0 .. size - 1 : WordOf(m) \in Words(size) /\ BitOf(m) \in BitsOfWord
    BY WordAndBit
  <2> QED BY <2>1 DEF Ones, IsBitmap, Complement
<1> HIDE DEF c
<1>3. LeastFrom(FirstFrom(c, size, 0), Ones(c, size), 0 * BITS_PER_LONG, size)
  BY <1>1, FirstFromCorrect
<1>4. 0 * BITS_PER_LONG = 0  BY BitmapAssumption
<1> QED BY <1>2, <1>3, <1>4 DEF find_first_zero_bit, c

\* find_next_bit finds the least position from o on.
LEMMA NextBit ==
    ASSUME NEW size \in Nat, NEW a, IsBitmap(a, size), NEW o \in Nat
    PROVE  LeastFrom(find_next_bit(a, size, o), Ones(a, size), o, size)
<1> DEFINE p == BITS_PER_LONG
           i == WordOf(o)
           tmp == {b \in a[i] : b >= BitOf(o)}
           v == find_next_bit(a, size, o)
<1>0. p \in Nat \ {0}  BY BitmapAssumption
<1>1. CASE o >= size
  <2>1. v = size  BY <1>1 DEF find_next_bit
  <2>2. \A w \in Ones(a, size) : w < o  BY <1>1 DEF Ones
  <2> QED BY <2>1, <2>2 DEF LeastFrom, Ones
<1>2. CASE o < size
  <2>1. i \in Words(size) /\ i \in Nat /\ BitOf(o) \in BitsOfWord /\ o = i * p + BitOf(o)
    BY <1>2, WordAndBit
  <2>2. a[i] \subseteq BitsOfWord /\ i * p \in Nat /\ BitOf(o) \in Nat /\ BitOf(o) < p
    BY <1>0, <2>1 DEF IsBitmap, BitsOfWord
  <2>3. \A m \in 0 .. size - 1 : /\ m \in Nat /\ WordOf(m) \in Nat /\ BitOf(m) \in BitsOfWord
                                /\ m = WordOf(m) * p + BitOf(m)
    BY WordAndBit
  <2>4. ASSUME NEW w \in Ones(a, size), o <= w
        PROVE  (WordOf(w) = i /\ BitOf(w) \in tmp) \/ (i + 1) * p <= w
    <3>1. w \in 0 .. size - 1 /\ BitOf(w) \in a[WordOf(w)]  BY DEF Ones
    <3>2. WordOf(w) \in Nat /\ BitOf(w) \in Nat /\ w = WordOf(w) * p + BitOf(w)
      BY <2>3, <3>1 DEF BitsOfWord
    <3>3. i <= WordOf(w)  BY <1>0, <2>4, <3>1, QuotientMonotone DEF WordOf
    <3>4. CASE i = WordOf(w)
      <4>1. BitOf(w) >= BitOf(o)
        <5> HIDE DEF i
        <5> QED BY <2>1, <2>2, <2>4, <3>1, <3>2, <3>4
      <4> QED BY <3>1, <3>4, <4>1
    <3>5. CASE i + 1 <= WordOf(w)
      <4> HIDE DEF i
      <4>1. (i + 1) * p <= WordOf(w) * p  BY <1>0, <2>1, <3>2, <3>5, Multiples
      <4>2. (i + 1) * p \in Nat /\ WordOf(w) * p \in Nat  BY <1>0, <2>1, <3>2
      <4> QED BY <3>2, <4>1, <4>2
    <3> QED BY <2>1, <3>2, <3>3, <3>4, <3>5
  <2>5. CASE tmp # {}
    <3> DEFINE b == Min(tmp)
    <3>1. tmp \in SUBSET Nat /\ tmp \subseteq BitsOfWord  BY <2>2 DEF BitsOfWord
    <3>2. b \in tmp /\ \A c \in tmp : b <= c
      <4> HIDE DEF tmp
      <4> QED BY <2>5, <3>1, Least
    <3>3. b \in BitsOfWord /\ b \in Nat /\ b < p /\ b \in a[i] /\ b >= BitOf(o)
      BY <1>0, <3>1, <3>2 DEF BitsOfWord
    <3>4. v = i * p + b
      <4>1. Complement(Complement(tmp)) = tmp
        <5> HIDE DEF tmp
        <5> QED BY <3>1 DEF Complement
      <4>2. v = i * p + ffz(Complement(tmp))  BY <1>2, <2>5 DEF find_next_bit
      <4>3. ffz(Complement(tmp)) = b
        <5> HIDE DEF tmp
        <5> QED BY <4>1 DEF ffz
      <4> QED BY <4>2, <4>3
    <3> HIDE DEF b, tmp, v
    <3>5. v \in Nat /\ WordOf(v) = i /\ BitOf(v) = b
      <4> HIDE DEF i
      <4> QED BY <2>1, <3>3, <3>4, BitPosition
    <3>6. v < size => v \in Ones(a, size)  BY <3>3, <3>5 DEF Ones
    <3>7. o <= v
      <4> HIDE DEF i
      <4> QED BY <2>1, <2>2, <3>3, <3>4
    <3>8. ASSUME NEW w \in Ones(a, size), o <= w PROVE v <= w
      <4>1. w \in 0 .. size - 1 /\ w \in Nat  BY DEF Ones
      <4>2. CASE WordOf(w) = i /\ BitOf(w) \in tmp
        <5>1. w = i * p + BitOf(w) /\ b <= BitOf(w) /\ BitOf(w) \in Nat
          BY <2>3, <3>1, <3>2, <4>1, <4>2
        <5> HIDE DEF i
        <5> QED BY <2>2, <3>3, <3>4, <4>1, <5>1
      <4>3. CASE (i + 1) * p <= w
        <5> HIDE DEF i
        <5>1. (i + 1) * p = i * p + p  BY <1>0, <2>1
        <5> QED BY <1>0, <2>2, <3>3, <3>4, <4>1, <4>3, <5>1
      <4> QED BY <2>4, <3>8, <4>2, <4>3
    <3> QED BY <3>5, <3>6, <3>7, <3>8 DEF LeastFrom, v
  <2>6. CASE tmp = {}
    <3>1. v = FirstFrom(a, size, i + 1)  BY <1>2, <2>6 DEF find_next_bit
    <3> HIDE DEF tmp, v, i
    <3>2. LeastFrom(v, Ones(a, size), (i + 1) * p, size)  BY <2>1, <3>1, FirstFromCorrect
    <3>3. (i + 1) * p = i * p + p  BY <1>0, <2>1
    <3>4. o <= (i + 1) * p /\ (i + 1) * p \in Nat  BY <1>0, <2>1, <2>2, <3>3
    <3>5. \A w \in Ones(a, size) : o <= w => (i + 1) * p <= w  BY <2>4, <2>6
    <3> QED BY <3>2, <3>4, <3>5 DEF LeastFrom, v
  <2> QED BY <2>5, <2>6
<1> QED BY <1>1, <1>2

\* The loop over the bits visits exactly the bits that are set.
THEOREM EveryBitVisited ==
    ASSUME NEW size \in Nat, NEW a, IsBitmap(a, size)
    PROVE  FOR_EACH_SET_BIT(a, size) = Ones(a, size)
<1> DEFINE c == [array |-> a, size |-> size]
           y == [bit |-> find_first_bit(a, size), seen |-> {}]
           it(k) == Visit!Iterate(y, c, k)
           Good(r, k) == /\ r.bit \in Nat
                         /\ r.bit < size => r.bit \in Ones(a, size) /\ k <= r.bit
                         /\ r.seen = {w \in Ones(a, size) : w < r.bit}
           T == {k \in Nat : Good(it(k), k)}
<1>0. Ones(a, size) \subseteq 0 .. size - 1  BY DEF Ones
<1>1. 0 \in T
  <2>1. it(0) = y  BY Visit!IterateStep
  <2>2. LeastFrom(find_first_bit(a, size), Ones(a, size), 0, size)
    <3>1. 0 * BITS_PER_LONG = 0  BY BitmapAssumption
    <3> QED BY <3>1, FirstFromCorrect DEF find_first_bit
  <2>3. Good(y, 0)  BY <1>0, <2>2 DEF LeastFrom
  <2> HIDE DEF y, c
  <2> QED BY <2>1, <2>3
<1>2. ASSUME NEW k \in Nat, Good(it(k), k) PROVE Good(it(k + 1), k + 1)
  <2> DEFINE r == it(k)
             v == find_next_bit(a, size, r.bit + 1)
  <2>1. \A n \in Nat : it(n + 1) = VisitBit(it(n), c, n + 1)  BY Visit!IterateStep
  <2>2. it(k + 1) = VisitBit(r, c, k + 1)  BY <2>1
  <2>3. VisitBit(r, c, k + 1) = IF r.bit >= size THEN r
                                ELSE [bit |-> v, seen |-> r.seen \cup {r.bit}]
    BY DEF VisitBit
  <2>4. Good(r, k)  BY <1>2
  <2> HIDE DEF it, c, y, r
  <2>5. CASE r.bit >= size  BY <2>2, <2>3, <2>4, <2>5
  <2>6. CASE r.bit < size
    <3>1. it(k + 1) = [bit |-> v, seen |-> r.seen \cup {r.bit}]  BY <2>2, <2>3, <2>4, <2>6
    <3>2. r.bit \in Ones(a, size) /\ r.bit \in Nat /\ k <= r.bit /\ r.seen = {w \in Ones(a, size) : w < r.bit}
      BY <2>4, <2>6
    <3>3. LeastFrom(v, Ones(a, size), r.bit + 1, size)  BY <3>2, NextBit
    <3> HIDE DEF v
    <3>4. it(k + 1).bit = v /\ it(k + 1).seen = r.seen \cup {r.bit}  BY <3>1
    <3>5. \A w \in Ones(a, size) : w < v <=> (w < r.bit \/ w = r.bit)
      BY <1>0, <3>2, <3>3 DEF LeastFrom
    <3> QED BY <1>0, <3>2, <3>3, <3>4, <3>5 DEF LeastFrom
  <2> QED BY <2>4, <2>5, <2>6
<1>3. Nat \subseteq T
  <2> HIDE DEF Good, it
  <2>1. \A k \in Nat : k \in T => k + 1 \in T  BY <1>2
  <2> HIDE DEF T
  <2> QED BY <1>1, <2>1, Visit!NatSetInduction
<1>4. Good(it(size), size)  BY <1>3
<1>5. FOR_EACH_SET_BIT(a, size) = it(size).seen  BY DEF FOR_EACH_SET_BIT
<1> HIDE DEF it
<1> QED BY <1>0, <1>4, <1>5

----------------------------------------
(* Level blocks and mapt blocks. *)

\* The level block ids.
LEMMA IdFacts ==
    /\ MAX_LEVEL_ID_SIZE \in Nat \ {0} /\ 0 \in Ids /\ Ids \subseteq Nat
    /\ IsFiniteSet(Ids) /\ IsFiniteSet(Index)
<1>1. MAX_LEVEL_ID_SIZE \in Nat \ {0}  BY BlockAssumption DEF MAX_LEVEL_ID_SIZE
<1>2. IsFiniteSet(0 .. MAX_LEVEL_ID_SIZE - 1)  BY <1>1, FS_Interval
<1>3. IsFiniteSet(0 .. Fan - 1)  BY LevelNat, FS_Interval
<1> QED BY <1>1, <1>2, <1>3 DEF Ids, Index

\* A level block id is a mapt block and a slot in it.
LEMMA BlockOfFacts ==
    ASSUME NEW id \in Ids
    PROVE  /\ BlockOf(id) \in 0 .. Blocks - 1 /\ id % Per \in 0 .. Per - 1
           /\ id = BlockOf(id) * Per + (id % Per)
<1> USE BlockAssumption
<1>1. id \in Nat /\ id < Per * Blocks  BY IdFacts DEF Ids, MAX_LEVEL_ID_SIZE
<1> DEFINE b == id \div Per
<1>2. b \in Nat /\ b * Per <= id /\ id % Per \in 0 .. Per - 1 /\ id = b * Per + (id % Per)
  BY <1>1, Division
<1> HIDE DEF b
<1>3. b < Blocks
  <2> SUFFICES ASSUME Blocks <= b PROVE FALSE  BY <1>2
  <2>1. Blocks * Per <= b * Per  BY <1>2, Multiples
  <2>2. Blocks * Per = Per * Blocks /\ b * Per \in Nat /\ Per * Blocks \in Nat  BY <1>2
  <2> QED BY <1>1, <1>2, <2>1, <2>2
<1> QED BY <1>2, <1>3 DEF BlockOf, b

\* The level block in slot k of a mapt block.
LEMMA IdOfBlock ==
    ASSUME NEW b \in 0 .. Blocks - 1, NEW k \in 0 .. Per - 1
    PROVE  Per * b + k \in Ids /\ BlockOf(Per * b + k) = b /\ (Per * b + k) % Per = k
<1> USE BlockAssumption
<1> DEFINE a == Per * b + k
<1>1. b \in Nat /\ k \in Nat /\ k < Per /\ Per * b \in Nat /\ b * Per = Per * b  OBVIOUS
<1>2. a \in Nat /\ b * Per <= a /\ a < b * Per + Per /\ a = b * Per + k  BY <1>1
<1> HIDE DEF a
<1>3. a \div Per = b  BY <1>1, <1>2, Quotient
<1>4. a = (a \div Per) * Per + (a % Per) /\ a % Per \in 0 .. Per - 1  BY <1>2, Division
<1>5. a = b * Per + (a % Per)  BY <1>3, <1>4
<1>6. a % Per = k  BY <1>1, <1>2, <1>4, <1>5
<1>7. a < Per * Blocks
  <2>1. (b + 1) * Per <= Blocks * Per  BY <1>1, Multiples
  <2>2. (b + 1) * Per = b * Per + Per /\ Blocks * Per = Per * Blocks /\ Per * Blocks \in Nat
    BY <1>1
  <2> QED BY <1>1, <1>2, <2>1, <2>2
<1> QED BY <1>2, <1>3, <1>6, <1>7 DEF BlockOf, Ids, MAX_LEVEL_ID_SIZE, a

\* A slot of a mapt block has one level block id.
LEMMA SameSlot ==
    ASSUME NEW i \in Ids, NEW j \in Ids, BlockOf(i) = BlockOf(j), i % Per = j % Per
    PROVE  i = j
<1>1. i = BlockOf(i) * Per + (i % Per)  BY BlockOfFacts
<1>2. j = BlockOf(j) * Per + (j % Per)  BY BlockOfFacts
<1> QED BY <1>1, <1>2

\* The nodes of a mapt block are those of its level blocks.
LEMMA NodesOfBlock ==
    ASSUME NEW b \in 0 .. Blocks - 1
    PROVE  NodesOf(b) = {id \in Ids : BlockOf(id) = b} \X Index
<1>1. \A id \in Per * b .. Per * b + Per - 1 : id \in Ids /\ BlockOf(id) = b
  <2> TAKE id \in Per * b .. Per * b + Per - 1
  <2> DEFINE k == id - Per * b
  <2>1. Per * b \in Nat  BY BlockAssumption
  <2>2. k \in 0 .. Per - 1 /\ id = Per * b + k  BY <2>1, BlockAssumption
  <2> HIDE DEF k
  <2> QED BY <2>2, IdOfBlock
<1>2. \A id \in Ids : BlockOf(id) = b => id \in Per * b .. Per * b + Per - 1
  <2> SUFFICES ASSUME NEW id \in Ids, BlockOf(id) = b
               PROVE  id \in Per * b .. Per * b + Per - 1
    OBVIOUS
  <2>1. id % Per \in 0 .. Per - 1 /\ id = b * Per + (id % Per)  BY BlockOfFacts
  <2>2. b * Per = Per * b /\ Per * b \in Nat /\ Per \in Nat  BY BlockAssumption
  <2> QED BY <2>1, <2>2
<1>3. Per * b .. Per * b + Per - 1 = {id \in Ids : BlockOf(id) = b}  BY <1>1, <1>2
<1> QED BY <1>3 DEF NodesOf, Index

----------------------------------------
(* Nodes of the level blocks in use. *)

\* A node of a level block in use is there and has its fields.
LEMMA UsedNode ==
    ASSUME NEW x, Shape(x), Counted(x), NEW n \in UsedIds(x) \X Index
    PROVE  /\ n[1] \in Ids /\ n[1] \in UsedIds(x) /\ n[2] \in Index /\ n = <<n[1], n[2]>>
           /\ n[1] \in Mapped(x) /\ n \in DOMAIN x.node /\ n # Root
           /\ IsNode(x.node[n])
<1>1. n[1] \in UsedIds(x) /\ n[2] \in Index /\ n = <<n[1], n[2]>>  OBVIOUS
<1>2. n[1] \in Ids  BY <1>1 DEF UsedIds, Ones, Ids
<1>3. n[1] \in Mapped(x)  BY <1>1, <1>2 DEF Counted, Mapped
<1>4. n # Root  BY <1>1, <1>2, IdFacts DEF Root
<1>5. n \in DOMAIN x.node  BY <1>1, <1>3 DEF Shape
<1> QED BY <1>1, <1>2, <1>3, <1>4, <1>5 DEF Shape

\* The level blocks in use are ids of mapped blocks, the root level one of them.
LEMMA UsedFacts ==
    ASSUME NEW x, Counted(x)
    PROVE  UsedIds(x) \subseteq Ids /\ 0 \in UsedIds(x) /\ UsedIds(x) \subseteq Mapped(x)
  BY DEF Counted, UsedIds, Ones, Ids, Mapped

\* Where a node is.
LEMMA NodePlace ==
    ASSUME NEW x, NEW g, Shape(x), Counted(x), Placed(x, g), NEW n \in UsedIds(x) \X Index
    PROVE  /\ Level(g, n) \in Levels /\ g.lev[n[1]] \in Levels /\ g.num[n[1]] \in Nat
           /\ Num(g, n) \in Nat /\ Num(g, n) \div Fan = g.num[n[1]] /\ Num(g, n) % Fan = n[2]
<1>1. n[1] \in UsedIds(x) /\ n[1] \in Ids /\ n[2] \in Index  BY UsedNode
<1>2. g.lev[n[1]] \in Levels /\ g.num[n[1]] \in Nat  BY <1>1 DEF Placed
<1> QED BY <1>1, <1>2, NodeNumber DEF Level, Num

\* No two nodes have the same place.
LEMMA SamePlace ==
    ASSUME NEW x, NEW g, Shape(x), Counted(x), Placed(x, g),
           NEW n \in UsedIds(x) \X Index, NEW m \in UsedIds(x) \X Index,
           Level(g, n) = Level(g, m), Num(g, n) = Num(g, m)
    PROVE  n = m
<1>1. n[1] \in UsedIds(x) /\ n = <<n[1], n[2]>> /\ m[1] \in UsedIds(x) /\ m = <<m[1], m[2]>>
  BY UsedNode
<1>2. g.num[n[1]] = g.num[m[1]] /\ n[2] = m[2] /\ g.lev[n[1]] = g.lev[m[1]]
  BY NodePlace DEF Level
<1>3. n[1] = m[1]  BY <1>1, <1>2 DEF Placed
<1> QED BY <1>1, <1>2, <1>3

\* What a node holds lies in its cell, in one segment.
LEMMA NodeContent ==
    ASSUME NEW x, NEW g, NEW j, NEW T, Shape(x), Counted(x), Placed(x, g), Segments(T),
           Content(x, g, j, T), NEW n \in Valid(x) \ {j}
    PROVE  /\ Lo(x, g, n) \in Addr /\ Hi(x, g, n) \in Addr /\ Lo(x, g, n) <= Hi(x, g, n)
           /\ \A a \in Nat : Holds(x, g, n, a) => a \in Addr /\ Cell(Level(g, n), a) = Num(g, n)
           /\ Holds(x, g, n, Lo(x, g, n)) /\ Holds(x, g, n, Hi(x, g, n))
           /\ \E s \in T : /\ s.left <= Lo(x, g, n) /\ Hi(x, g, n) <= s.right
                           /\ Piece(s, Lo(x, g, n), Hi(x, g, n))
<1> DEFINE l == Level(g, n)
           c == Num(g, n)
           b == x.node[n].base
           e == x.node[n].limit
<1>1. n \in UsedIds(x) \X Index  BY DEF Valid
<1>2. l \in Levels /\ c \in Nat  BY <1>1, NodePlace
<1>3. b \in Nat /\ e \in Nat  BY <1>1, UsedNode DEF IsNode
<1>4. b <= e /\ e < Span(l)  BY DEF Content
<1>5. PICK s \in T : /\ s.left <= Lo(x, g, n) /\ Hi(x, g, n) <= s.right
                     /\ Piece(s, Lo(x, g, n), Hi(x, g, n))
  BY DEF Content
<1>6. s.left \in Addr /\ s.right \in Addr  BY <1>5 DEF Segments
<1> HIDE DEF l, c, b, e
<1>7. Lo(x, g, n) = c * Span(l) + b /\ Hi(x, g, n) = c * Span(l) + e  BY DEF Lo, Hi, l, c, b, e
<1>8. Span(l) \in Nat /\ c * Span(l) \in Nat  BY <1>2, SpanFacts
<1>9. Lo(x, g, n) \in Nat /\ Hi(x, g, n) \in Nat /\ Lo(x, g, n) <= Hi(x, g, n)
  BY <1>3, <1>4, <1>7, <1>8
<1>10. Lo(x, g, n) \in Addr /\ Hi(x, g, n) \in Addr  BY <1>5, <1>6, <1>9, SpanFacts DEF Addr
<1>11. ASSUME NEW a \in Nat, Holds(x, g, n, a) PROVE a \in Addr /\ Cell(l, a) = c
  <2> DEFINE o == a - c * Span(l)
  <2>1. Lo(x, g, n) <= a /\ a <= Hi(x, g, n)  BY <1>11 DEF Holds
  <2>2. o \in Nat /\ o < Span(l) /\ a = c * Span(l) + o  BY <1>3, <1>4, <1>7, <1>8, <2>1
  <2>3. a \in Addr  BY <1>10, <2>1, SpanFacts DEF Addr
  <2> HIDE DEF o
  <2> QED BY <1>2, <2>2, <2>3, InCell
<1> QED BY <1>5, <1>9, <1>10, <1>11 DEF Holds, l, c

\* The segment of an address is the only one.
LEMMA SameSegment ==
    ASSUME NEW T, Segments(T), NEW s \in T, NEW t \in T, NEW a \in s.left .. s.right,
           a \in t.left .. t.right
    PROVE  s = t
  BY DEF Segments

\* A node is on the way to the addresses of its cell.
LEMMA NodeInBlock ==
    ASSUME NEW x, NEW g, Shape(x), Counted(x), Placed(x, g), NEW n \in UsedIds(x) \X Index,
           NEW a, Cell(Level(g, n), a) = Num(g, n)
    PROVE  InBlock(g, n[1], a)
  BY NodePlace DEF InBlock, Level

\* Above a level block is a node one level up with the same addresses.
LEMMA UpStep ==
    ASSUME NEW x, NEW g, Shape(x), Counted(x), Placed(x, g), Linked(x, g),
           NEW id \in UsedIds(x), g.lev[id] # 0, NEW a \in Nat, InBlock(g, id, a)
    PROVE  \E p \in Valid(x) : /\ x.node[p].type = 0 /\ x.node[p].next = id
                               /\ Level(g, p) = g.lev[id] - 1 /\ Num(g, p) = Cell(Level(g, p), a)
                               /\ InBlock(g, p[1], a)
<1>1. id # 0  BY DEF Placed
<1>2. PICK p \in Valid(x) : x.node[p].type = 0 /\ x.node[p].next = id  BY <1>1 DEF Linked
<1>3. g.lev[id] = Level(g, p) + 1 /\ g.num[id] = Num(g, p)  BY <1>2 DEF Linked
<1>4. p \in UsedIds(x) \X Index  BY DEF Valid
<1>5. Level(g, p) \in Levels /\ g.lev[id] \in Levels  BY <1>4, NodePlace DEF Placed
<1>6. Level(g, p) \in Nat /\ Level(g, p) + 1 \in Levels /\ Level(g, p) < LastLevel
      /\ Level(g, p) = g.lev[id] - 1
  BY <1>3, <1>5, LevelNat DEF Levels
<1>7. Cell(Level(g, p), a) = Cell(Level(g, p) + 1, a) \div Fan  BY <1>5, <1>6, CellUp
<1>8. Num(g, p) = Cell(Level(g, p), a)  BY <1>3, <1>7 DEF InBlock
<1>9. InBlock(g, p[1], a)  BY <1>4, <1>8, NodeInBlock
<1> QED BY <1>2, <1>6, <1>8, <1>9

\* Above a level block is a node of every lower level.
LEMMA Up ==
    ASSUME NEW x, NEW g, Shape(x), Counted(x), Placed(x, g), Linked(x, g),
           NEW id \in UsedIds(x), NEW a \in Nat, InBlock(g, id, a),
           NEW k \in Levels, k < g.lev[id]
    PROVE  \E p \in Valid(x) : /\ x.node[p].type = 0
                               /\ Level(g, p) = k /\ Num(g, p) = Cell(k, a)
<1> DEFINE P(m) == \A i \in UsedIds(x) : g.lev[i] = m /\ InBlock(g, i, a) =>
                       \A j \in Levels : j < m =>
                           \E p \in Valid(x) : /\ x.node[p].type = 0
                                               /\ Level(g, p) = j /\ Num(g, p) = Cell(j, a)
<1>1. P(0)  BY LevelNat
<1>2. ASSUME NEW m \in Nat, P(m) PROVE P(m + 1)
  <2> SUFFICES ASSUME NEW i \in UsedIds(x), g.lev[i] = m + 1, InBlock(g, i, a),
                      NEW j \in Levels, j < m + 1
               PROVE  \E p \in Valid(x) : /\ x.node[p].type = 0
                                          /\ Level(g, p) = j /\ Num(g, p) = Cell(j, a)
    OBVIOUS
  <2>1. PICK p \in Valid(x) : /\ x.node[p].type = 0
                              /\ Level(g, p) = g.lev[i] - 1 /\ Num(g, p) = Cell(Level(g, p), a)
                              /\ InBlock(g, p[1], a)
    BY UpStep
  <2>2. Level(g, p) = m  BY <2>1
  <2>3. CASE j = m  BY <2>1, <2>2, <2>3
  <2>4. CASE j < m
    <3>1. p[1] \in UsedIds(x) /\ g.lev[p[1]] = m  BY <2>2 DEF Valid, Level
    <3> QED BY <1>2, <2>1, <2>4, <3>1
  <2> QED BY <2>3, <2>4, LevelNat
<1> HIDE DEF P
<1>3. P(1) /\ P(2) /\ P(3)  BY <1>1, <1>2
<1>4. g.lev[id] \in 0 .. 3  BY FanAssumption DEF Placed, Levels
<1>5. P(g.lev[id])  BY <1>1, <1>3, <1>4
<1> QED BY <1>5 DEF P

\* The node of a level on the way to a node: it is valid and has a next level.
LEMMA NodeAbove ==
    ASSUME NEW x, NEW g, Shape(x), Counted(x), Placed(x, g), Linked(x, g),
           NEW q \in Valid(x), NEW a \in Nat, Cell(Level(g, q), a) = Num(g, q),
           NEW n \in UsedIds(x) \X Index, Level(g, n) < Level(g, q),
           Cell(Level(g, n), a) = Num(g, n)
    PROVE  n \in Valid(x) /\ x.node[n].type = 0
<1>1. q \in UsedIds(x) \X Index  BY DEF Valid
<1>2. InBlock(g, q[1], a)  BY <1>1, NodeInBlock
<1>3. Level(g, n) \in Levels /\ q[1] \in UsedIds(x)  BY <1>1, NodePlace
<1>4. PICK p \in Valid(x) : /\ x.node[p].type = 0
                            /\ Level(g, p) = Level(g, n) /\ Num(g, p) = Cell(Level(g, n), a)
  BY <1>2, <1>3, Up DEF Level
<1>5. p = n  BY <1>4, SamePlace DEF Valid
<1> QED BY <1>4, <1>5

----------------------------------------
(* Taking a level block. *)

\* What the allocator does: nothing, or it takes an unused level block.
LEMMA AllocEffect ==
    ASSUME NEW x, Shape(x), Counted(x), x.ret = "ok", NEW n \in UsedIds(x) \X Index,
           x.node[n].next_block = 0
    PROVE  LET z == ummu_alloc_level_block(x, n, BlockOf(n[1]))
           IN  \/ /\ z.ret # "ok" /\ DOMAIN z = TableFields
                  /\ z.bitmap = x.bitmap /\ z.block = x.block
                  /\ DOMAIN z.node = DOMAIN x.node /\ \A m \in DOMAIN x.node : z.node[m] = x.node[m]
               \/ \E id : Alloced(x, z, n, id)
<1> DEFINE size == MAX_LEVEL_ID_SIZE
           id   == find_first_zero_bit(x.bitmap, size)
           b    == BlockOf(id)
           new  == b \notin DOMAIN x.block
           y    == [x EXCEPT !.node[n].next_block = 0]
           z0   == IF new THEN ummu_alloc_new_mapt_block(y, b) ELSE y
           z    == ummu_alloc_level_block(x, n, BlockOf(n[1]))
<1>0. /\ n \in DOMAIN x.node /\ IsNode(x.node[n]) /\ BlockOf(n[1]) \in DOMAIN x.block
      /\ n[1] \in Ids
  BY UsedNode DEF Mapped
<1>1. size \in Nat /\ IsBitmap(x.bitmap, size)  BY IdFacts DEF Shape, IsBitmap, Words
<1>2. LeastFrom(id, (0 .. size - 1) \ Ones(x.bitmap, size), 0, size)  BY <1>1, FirstZeroBit
<1>3. id \in Nat /\ (id < size => id \in Ids \ UsedIds(x))
  BY <1>1, <1>2 DEF LeastFrom, Ids, UsedIds
<1>4. z = IF id >= size THEN Fail(x)
          ELSE IF z0.ret # "ok" THEN z0
          ELSE [z0 EXCEPT !.node[n].next = id,
                          !.node[n].next_block = NextBlock(new, BlockOf(n[1]), b),
                          !.bitmap = ummu_set_bit(id, z0.bitmap),
                          !.block[b].level_cnt = @ + 1]
  BY DEF ummu_alloc_level_block
<1>5. /\ DOMAIN y = TableFields /\ y.bitmap = x.bitmap /\ y.block = x.block /\ y.ret = "ok"
      /\ DOMAIN y.node = DOMAIN x.node /\ \A m \in DOMAIN x.node : y.node[m] = x.node[m]
  <2>1. DOMAIN x = TableFields  BY DEF Shape
  <2>2. [x.node[n] EXCEPT !.next_block = 0] = x.node[n]  BY <1>0 DEF IsNode, NodeFields
  <2> QED BY <1>0, <2>1, <2>2 DEF TableFields
<1> HIDE DEF z, id, size, y
<1> SUFFICES \/ /\ z.ret # "ok" /\ DOMAIN z = TableFields
                /\ z.bitmap = x.bitmap /\ z.block = x.block
                /\ DOMAIN z.node = DOMAIN x.node /\ \A m \in DOMAIN x.node : z.node[m] = x.node[m]
             \/ \E i : Alloced(x, z, n, i)
  BY DEF z
<1>6. CASE id >= size  BY <1>4, <1>6 DEF Fail, Shape, TableFields
<1>7. CASE ~(id >= size) /\ z0.ret # "ok"
  <2>1. new /\ z0 = Fail(y)  BY <1>5, <1>7 DEF ummu_alloc_new_mapt_block, TableFields
  <2>2. z = Fail(y)  BY <1>4, <1>7, <2>1
  <2> QED BY <1>5, <2>2 DEF Fail, TableFields
<1>8. CASE ~(id >= size) /\ z0.ret = "ok"
  <2>1. id \in Ids \ UsedIds(x) /\ b \in 0 .. Blocks - 1  BY <1>1, <1>3, <1>8, BlockOfFacts
  <2>2. /\ DOMAIN z0 = TableFields /\ z0.bitmap = x.bitmap /\ z0.ret = "ok"
        /\ DOMAIN z0.block = DOMAIN x.block \cup {b} /\ IsBlock(z0.block[b])
        /\ \A c \in DOMAIN x.block : z0.block[c] = x.block[c]
        /\ new => z0.block[b].level_cnt = 0 /\ \A k \in 0 .. Per - 1 : z0.block[b].entry_cnt[k] = 0
        /\ DOMAIN z0.node = DOMAIN x.node \cup NodesOf(b)
        /\ \A m \in DOMAIN x.node : z0.node[m] = x.node[m]
        /\ \A m \in DOMAIN z0.node \ DOMAIN x.node : z0.node[m] = ZeroNode
    <3>1. CASE new
      <4> DEFINE e == [level_cnt |-> 0, entry_cnt |-> [k \in 0 .. Per - 1 |-> 0]]
      <4>1. z0 = [y EXCEPT !.mem = @ - 1, !.node = With(@, NodesOf(b), ZeroNode),
                           !.block = With(@, {b}, e)]
        BY <1>5, <1>8, <3>1 DEF ummu_alloc_new_mapt_block, Fail, TableFields
      <4>2. IsBlock(e) /\ e.level_cnt = 0 /\ \A k \in 0 .. Per - 1 : e.entry_cnt[k] = 0
        BY DEF IsBlock
      <4> HIDE DEF e, z0
      <4>3. /\ DOMAIN z0 = TableFields /\ z0.bitmap = x.bitmap /\ z0.ret = "ok"
            /\ z0.node = With(y.node, NodesOf(b), ZeroNode)
            /\ z0.block = With(x.block, {b}, e)
        BY <1>5, <4>1 DEF TableFields
      <4>4. /\ DOMAIN z0.block = DOMAIN x.block \cup {b} /\ z0.block[b] = e
            /\ \A c \in DOMAIN x.block : z0.block[c] = x.block[c]
        BY <3>1, <4>3 DEF With
      <4>5. /\ DOMAIN z0.node = DOMAIN x.node \cup NodesOf(b)
            /\ \A m \in DOMAIN x.node : z0.node[m] = x.node[m]
            /\ \A m \in DOMAIN z0.node \ DOMAIN x.node : z0.node[m] = ZeroNode
        BY <1>5, <4>3 DEF With
      <4> QED BY <4>2, <4>3, <4>4, <4>5
    <3>2. CASE ~new
      <4>1. z0 = y  BY <3>2
      <4>2. NodesOf(b) \subseteq DOMAIN x.node  BY <2>1, <3>2, NodesOfBlock DEF Shape, Mapped
      <4>3. IsBlock(x.block[b])  BY <3>2 DEF Shape
      <4> HIDE DEF z0
      <4> QED BY <1>5, <3>2, <4>1, <4>2, <4>3
    <3> QED BY <3>1, <3>2
  <2>3. z = [z0 EXCEPT !.node[n].next = id,
                       !.node[n].next_block = NextBlock(new, BlockOf(n[1]), b),
                       !.bitmap = ummu_set_bit(id, z0.bitmap), !.block[b].level_cnt = @ + 1]
    BY <1>4, <1>8
  <2>4. NextBlock(new, BlockOf(n[1]), b) = IF b = BlockOf(n[1]) THEN 0 ELSE 1
    BY <1>0 DEF NextBlock
  <2>5. /\ IsBitmap(ummu_set_bit(id, x.bitmap), size)
        /\ Ones(ummu_set_bit(id, x.bitmap), size) = Ones(x.bitmap, size) \cup {id}
    <3>1. id \in 0 .. size - 1  BY <2>1 DEF Ids, size
    <3> QED BY <1>1, <3>1, SetBit
  <2> HIDE DEF z0, new
  <2>6. /\ DOMAIN z = TableFields /\ z.ret = "ok" /\ z.bitmap = ummu_set_bit(id, x.bitmap)
        /\ DOMAIN z.block = DOMAIN z0.block /\ \A c \in DOMAIN z0.block \ {b} : z.block[c] = z0.block[c]
        /\ z.block[b] = [z0.block[b] EXCEPT !.level_cnt = @ + 1]
        /\ DOMAIN z.node = DOMAIN z0.node /\ \A m \in DOMAIN z0.node \ {n} : z.node[m] = z0.node[m]
        /\ z.node[n] = [z0.node[n] EXCEPT !.next = id, !.next_block =
                            NextBlock(new, BlockOf(n[1]), b)]
    BY <1>0, <2>2, <2>3 DEF TableFields
  <2>7. IsBlock(z.block[b]) /\ z.block[b].level_cnt = z0.block[b].level_cnt + 1
        /\ z.block[b].entry_cnt = z0.block[b].entry_cnt
    BY <2>2, <2>6 DEF IsBlock
  <2>8. UsedIds(z) = UsedIds(x) \cup {id}  BY <2>5, <2>6 DEF UsedIds, size
  <2>9. z.bitmap \in [0 .. BITS_TO_LONGS(MAX_LEVEL_ID_SIZE) - 1 -> SUBSET BitsOfWord]
    BY <2>5, <2>6 DEF IsBitmap, Words, size
  <2>10. z.node[n] = [x.node[n] EXCEPT !.next = id, !.next_block =
                         IF BlockOf(id) = BlockOf(n[1]) THEN 0 ELSE 1]
    BY <1>0, <2>2, <2>4, <2>6
  <2>11. Alloced(x, z, n, id)
    BY <1>0, <2>1, <2>2, <2>6, <2>7, <2>8, <2>9, <2>10 DEF Alloced, new
  <2> QED BY <2>11
<1> QED BY <1>6, <1>7, <1>8

\* A leaf that gets a level block of its own: the block is one level down, at
\* the place of the leaf, and empty.
LEMMA AllocSound ==
    ASSUME NEW x, NEW g, Sound(x, g, 0), NEW n \in Valid(x), x.node[n].type = 1,
           Level(g, n) < LastLevel, NEW z, NEW id, Alloced(x, z, n, id),
           NEW w, w = HasNext(z, n), NEW h, h = Below(g, n, id)
    PROVE  /\ Sound(w, h, id) /\ w.ret = "ok"
           /\ UsedIds(w) = UsedIds(x) \cup {id} /\ Valid(w) = Valid(x)
           /\ w.node[n].type = 0 /\ w.node[n].next = id
           /\ h.lev[id] = Level(g, n) + 1 /\ h.num[id] = Num(g, n)
           /\ SameContent(x.node[n], w.node[n])
           /\ \A m \in Nodes(x) \ {n} : w.node[m] = x.node[m]
           /\ \A i \in UsedIds(x) : h.lev[i] = g.lev[i] /\ h.num[i] = g.num[i]
<1> DEFINE b == BlockOf(id)
<1>0. Shape(x) /\ Counted(x) /\ Flagged(x) /\ Placed(x, g) /\ Linked(x, g) /\ Filled(x, 0)
  BY DEF Sound
<1>1. /\ n \in UsedIds(x) \X Index /\ n \in DOMAIN x.node /\ n # Root /\ IsNode(x.node[n])
      /\ n[1] \in UsedIds(x) /\ n[1] \in Ids /\ x.node[n].valid = 1
      /\ BlockOf(n[1]) \in DOMAIN x.block
  <2>1. n \in UsedIds(x) \X Index /\ x.node[n].valid = 1  BY DEF Valid
  <2> QED BY <1>0, <2>1, UsedNode DEF Mapped
<1>2. /\ id \in Ids /\ id \notin UsedIds(x) /\ id # 0 /\ b \in 0 .. Blocks - 1
      /\ UsedIds(z) = UsedIds(x) \cup {id}
  BY <1>0, UsedFacts, BlockOfFacts DEF Alloced
<1>3. NodesOf(b) = {i \in Ids : BlockOf(i) = b} \X Index  BY <1>2, NodesOfBlock
<1>4. /\ DOMAIN w = TableFields /\ w.bitmap = z.bitmap /\ w.block = z.block /\ w.ret = "ok"
      /\ DOMAIN w.node = DOMAIN z.node
      /\ \A m \in DOMAIN z.node \ {n} : w.node[m] = z.node[m]
      /\ w.node[n] = [z.node[n] EXCEPT !.type = 0]
  BY <1>1 DEF Alloced, TableFields, HasNext
<1>5. /\ IsNode(w.node[n]) /\ SameContent(x.node[n], w.node[n])
      /\ w.node[n].type = 0 /\ w.node[n].next = id /\ w.node[n].valid = 1
      /\ w.node[n].next_block = IF b = BlockOf(n[1]) THEN 0 ELSE 1
  <2>1. w.node[n] = [[x.node[n] EXCEPT !.next = id, !.next_block =
                        IF b = BlockOf(n[1]) THEN 0 ELSE 1] EXCEPT !.type = 0]
    BY <1>4 DEF Alloced
  <2> HIDE DEF b
  <2> QED BY <1>1, <1>2, <2>1 DEF IsNode, SameContent, NodeFields
<1>6. UsedIds(w) = UsedIds(x) \cup {id}  BY <1>2, <1>4 DEF UsedIds
<1>7. /\ DOMAIN w.block = DOMAIN x.block \cup {b} /\ IsBlock(w.block[b])
      /\ \A c \in DOMAIN x.block \ {b} : w.block[c] = x.block[c]
      /\ b \in DOMAIN x.block => /\ w.block[b].level_cnt = x.block[b].level_cnt + 1
                                 /\ w.block[b].entry_cnt = x.block[b].entry_cnt
      /\ b \notin DOMAIN x.block => /\ w.block[b].level_cnt = 1
                                    /\ \A k \in 0 .. Per - 1 : w.block[b].entry_cnt[k] = 0
  BY <1>4 DEF Alloced
<1>8. /\ DOMAIN w.node = DOMAIN x.node \cup NodesOf(b)
      /\ \A m \in DOMAIN x.node \ {n} : w.node[m] = x.node[m]
      /\ \A m \in DOMAIN w.node \ DOMAIN x.node : w.node[m] = ZeroNode
  BY <1>1, <1>4 DEF Alloced
<1> HIDE DEF b
<1>9. Mapped(w) = Mapped(x) \cup {i \in Ids : BlockOf(i) = b}  BY <1>7 DEF Mapped
<1>10. Shape(w)
  <2>1. IsNode(ZeroNode)  BY IdFacts DEF IsNode, ZeroNode, NodeFields
  <2>2. DOMAIN w.node = {Root} \cup (Mapped(w) \X Index)  BY <1>0, <1>3, <1>8, <1>9 DEF Shape
  <2>3. \A m \in DOMAIN w.node : IsNode(w.node[m])  BY <1>0, <1>5, <1>8, <2>1 DEF Shape
  <2>4. \A c \in DOMAIN w.block : IsBlock(w.block[c])  BY <1>0, <1>7 DEF Shape
  <2>5. w.node[Root].next = 0 /\ w.node[Root].valid = 0  BY <1>0, <1>1, <1>8 DEF Shape
  <2>6. w.bitmap \in [0 .. BITS_TO_LONGS(MAX_LEVEL_ID_SIZE) - 1 -> SUBSET BitsOfWord]
    BY <1>4 DEF Alloced
  <2> QED BY <1>4, <2>2, <2>3, <2>4, <2>5, <2>6 DEF Shape
<1>11. \A i \in Mapped(x) : ValidAt(w, i) = ValidAt(x, i)
  <2> SUFFICES ASSUME NEW i \in Mapped(x), NEW j \in Index
               PROVE  w.node[<<i, j>>].valid = x.node[<<i, j>>].valid
    BY DEF ValidAt
  <2>1. <<i, j>> \in DOMAIN x.node  BY <1>0 DEF Shape
  <2> QED BY <1>1, <1>5, <1>8, <2>1
<1>12. \A i \in Mapped(w) \ Mapped(x) : ValidAt(w, i) = {}
  <2> SUFFICES ASSUME NEW i \in Mapped(w) \ Mapped(x), NEW j \in Index
               PROVE  w.node[<<i, j>>].valid = 0
    BY DEF ValidAt
  <2>1. <<i, j>> \in DOMAIN w.node  BY <1>10 DEF Shape
  <2>2. <<i, j>> \notin DOMAIN x.node  BY <1>0, <1>2, IdFacts DEF Shape, Root, Mapped
  <2> QED BY <1>8, <2>1, <2>2 DEF ZeroNode
<1>13. ValidAt(w, id) = {}  BY <1>0, <1>2, <1>9, <1>11, <1>12 DEF Counted, b
<1>14. Valid(w) = Valid(x)
  <2>1. \A i \in UsedIds(x) : i \in Mapped(x)  BY <1>0, UsedFacts
  <2> QED BY <1>6, <1>11, <1>13, <2>1 DEF Valid, ValidAt
<1>15. Counted(w)
  <2>1. 0 \in UsedIds(w)  BY <1>0, <1>6 DEF Counted
  <2>2. DOMAIN w.block = {BlockOf(i) : i \in UsedIds(w)}  BY <1>0, <1>6, <1>7 DEF Counted, b
  <2>3. ASSUME NEW c \in DOMAIN w.block
        PROVE  w.block[c].level_cnt = Cardinality(InMapt(UsedIds(w), c))
    <3> DEFINE S == InMapt(UsedIds(x), c)
    <3>1. IsFiniteSet(S)  BY <1>0, UsedFacts, IdFacts, FS_Subset DEF InMapt
    <3>2. CASE c # b
      <4>1. InMapt(UsedIds(w), c) = S /\ c \in DOMAIN x.block  BY <1>6, <1>7, <3>2 DEF b, InMapt
      <4> QED BY <1>0, <1>7, <3>2, <4>1 DEF Counted
    <3>3. CASE c = b
      <4>1. InMapt(UsedIds(w), c) = S \cup {id} /\ id \notin S
        BY <1>2, <1>6, <3>3 DEF b, InMapt
      <4>2. Cardinality(S \cup {id}) = Cardinality(S) + 1  BY <3>1, <4>1, FS_AddElement
      <4>3. CASE b \in DOMAIN x.block
        <5>1. x.block[c].level_cnt = Cardinality(S)  BY <1>0, <3>3, <4>3 DEF Counted
        <5> QED BY <1>7, <3>3, <4>1, <4>2, <4>3, <5>1
      <4>4. CASE b \notin DOMAIN x.block
        <5>1. S = {}  BY <1>0, <3>3, <4>4 DEF Counted, InMapt
        <5>2. Cardinality(S) = 0  BY <5>1, FS_EmptySet
        <5>3. Cardinality(InMapt(UsedIds(w), c)) = 1  BY <4>1, <4>2, <5>2
        <5> QED BY <1>7, <3>3, <4>4, <5>3
      <4> QED BY <4>3, <4>4
    <3> QED BY <3>2, <3>3
  <2>4. ASSUME NEW i \in Mapped(w)
        PROVE  /\ w.block[BlockOf(i)].entry_cnt[i % Per] = Cardinality(ValidAt(w, i))
               /\ i \notin UsedIds(w) => ValidAt(w, i) = {}
    <3>1. i \in Ids /\ i % Per \in 0 .. Per - 1  BY BlockOfFacts DEF Mapped
    <3>2. CASE i \in Mapped(x)
      <4>1. w.block[BlockOf(i)].entry_cnt = x.block[BlockOf(i)].entry_cnt
        BY <1>7, <3>2 DEF Mapped
      <4> QED BY <1>0, <1>6, <1>11, <3>2, <4>1 DEF Counted
    <3>3. CASE i \notin Mapped(x)
      <4>1. BlockOf(i) = b /\ b \notin DOMAIN x.block /\ ValidAt(w, i) = {}
        BY <1>7, <1>12, <3>1, <3>3 DEF Mapped
      <4> QED BY <1>7, <3>1, <4>1, FS_EmptySet
    <3> QED BY <3>2, <3>3
  <2> QED BY <2>1, <2>2, <2>3, <2>4 DEF Counted
<1>16. Flagged(w)
  <2> SUFFICES ASSUME NEW m \in DOMAIN w.node \ {Root}
               PROVE  w.node[m].next_block =
                          IF w.node[m].valid = 1 /\ w.node[m].type = 0
                             /\ BlockOf(w.node[m].next) # BlockOf(m[1])
                          THEN 1 ELSE 0
    BY DEF Flagged
  <2>1. CASE m = n  BY <1>5, <2>1 DEF b
  <2>2. CASE m \in DOMAIN x.node \ {n}  BY <1>0, <1>8, <2>2 DEF Flagged
  <2>3. CASE m \notin DOMAIN x.node  BY <1>8, <2>3 DEF ZeroNode
  <2> QED BY <2>1, <2>2, <2>3
<1>17. Level(g, n) \in Levels /\ Num(g, n) \in Nat /\ Level(g, n) + 1 \in Levels
       /\ Level(g, n) + 1 # 0
  <2>1. Level(g, n) \in Levels /\ Num(g, n) \in Nat  BY <1>0, <1>1, NodePlace
  <2> QED BY <2>1, LevelNat DEF Levels
<1>18. /\ h \in [lev : [Ids -> Nat], num : [Ids -> Nat]]
       /\ h.lev[id] = Level(g, n) + 1 /\ h.num[id] = Num(g, n)
       /\ \A i \in Ids \ {id} : h.lev[i] = g.lev[i] /\ h.num[i] = g.num[i]
  <2>1. g \in [lev : [Ids -> Nat], num : [Ids -> Nat]]  BY <1>0 DEF Placed
  <2>2. Level(g, n) + 1 \in Nat  BY <1>17, LevelNat
  <2> QED BY <1>2, <1>17, <2>1, <2>2 DEF Below
<1>19. \A i \in UsedIds(x) : i \in Ids /\ i # id /\ h.lev[i] = g.lev[i] /\ h.num[i] = g.num[i]
  BY <1>0, <1>2, <1>18, UsedFacts
<1>20. \A m \in UsedIds(x) \X Index : Level(h, m) = Level(g, m) /\ Num(h, m) = Num(g, m)
  BY <1>19 DEF Level, Num
<1>21. \A i \in UsedIds(x) : ~(g.lev[i] = Level(g, n) + 1 /\ g.num[i] = Num(g, n))
  <2> SUFFICES ASSUME NEW i \in UsedIds(x), g.lev[i] = Level(g, n) + 1, g.num[i] = Num(g, n)
               PROVE  FALSE
    OBVIOUS
  <2>1. i # 0  BY <1>0, <1>17 DEF Placed
  <2>2. PICK p \in Valid(x) : x.node[p].type = 0 /\ x.node[p].next = i  BY <1>0, <2>1 DEF Linked
  <2>3. g.lev[i] = Level(g, p) + 1 /\ g.num[i] = Num(g, p) /\ p \in UsedIds(x) \X Index
    BY <1>0, <2>2 DEF Linked, Valid
  <2>4. Level(g, p) \in Levels  BY <1>0, <2>3, NodePlace
  <2>5. Level(g, p) = Level(g, n)  BY <1>17, <2>3, <2>4, LevelNat DEF Levels
  <2>6. p = n  BY <1>0, <1>1, <2>3, <2>5, SamePlace
  <2> QED BY <2>2, <2>6
<1>22. Placed(w, h)
  <2>1. h.lev[0] = 0 /\ h.num[0] = 0  BY <1>0, <1>2, <1>18, IdFacts DEF Placed
  <2>2. \A i \in UsedIds(w) : h.lev[i] \in Levels /\ (h.lev[i] = 0 => i = 0)
    BY <1>0, <1>6, <1>17, <1>18, <1>19 DEF Placed
  <2>3. \A i, j \in UsedIds(w) : h.lev[i] = h.lev[j] /\ h.num[i] = h.num[j] => i = j
    BY <1>0, <1>6, <1>18, <1>19, <1>21 DEF Placed
  <2> QED BY <1>18, <2>1, <2>2, <2>3 DEF Placed
<1>23. Linked(w, h)
  <2>1. ASSUME NEW m \in Valid(w), w.node[m].type = 0
        PROVE  /\ w.node[m].next \in UsedIds(w)
               /\ h.lev[w.node[m].next] = Level(h, m) + 1
               /\ h.num[w.node[m].next] = Num(h, m)
    <3>1. m \in Valid(x) /\ m \in UsedIds(x) \X Index /\ m \in DOMAIN x.node
      BY <1>0, <1>14, UsedNode DEF Valid
    <3>2. CASE m = n  BY <1>1, <1>5, <1>6, <1>18, <1>20, <3>2
    <3>3. CASE m # n
      <4>1. w.node[m] = x.node[m]  BY <1>8, <3>1, <3>3
      <4>2. /\ x.node[m].next \in UsedIds(x)
            /\ g.lev[x.node[m].next] = Level(g, m) + 1
            /\ g.num[x.node[m].next] = Num(g, m)
        BY <1>0, <2>1, <3>1, <4>1 DEF Linked
      <4> QED BY <1>6, <1>19, <1>20, <3>1, <4>1, <4>2
    <3> QED BY <3>2, <3>3
  <2>2. ASSUME NEW i \in UsedIds(w) \ {0}
        PROVE  \E m \in Valid(w) : w.node[m].type = 0 /\ w.node[m].next = i
    <3>1. CASE i = id  BY <1>5, <1>14, <3>1
    <3>2. CASE i # id
      <4>1. PICK m \in Valid(x) : x.node[m].type = 0 /\ x.node[m].next = i
        BY <1>0, <1>6, <2>2, <3>2 DEF Linked
      <4>2. m # n /\ m \in DOMAIN x.node  BY <1>0, <4>1, UsedNode DEF Valid
      <4> QED BY <1>8, <1>14, <4>1, <4>2
    <3> QED BY <3>1, <3>2
  <2> QED BY <2>1, <2>2 DEF Linked
<1>24. Filled(w, id)
  <2> SUFFICES ASSUME NEW i \in UsedIds(w) \ {0, id} PROVE ValidAt(w, i) # {}  BY DEF Filled
  <2>1. i \in UsedIds(x) /\ i \in Mapped(x)  BY <1>0, <1>6, UsedFacts
  <2> QED BY <1>0, <1>11, <2>1 DEF Filled
<1>25. Sound(w, h, id)  BY <1>10, <1>15, <1>16, <1>22, <1>23, <1>24 DEF Sound
<1>26. \A m \in Nodes(x) \ {n} : w.node[m] = x.node[m]
  <2>1. \A m \in Nodes(x) : m \in DOMAIN x.node  BY <1>0, UsedNode DEF Nodes, Shape
  <2> QED BY <1>8, <2>1
<1> QED BY <1>4, <1>5, <1>6, <1>14, <1>18, <1>19, <1>25, <1>26

----------------------------------------
(* Filling and dropping a node. *)

\* The entry counter of one level block changes.
LEMMA CountEffect ==
    ASSUME NEW x, Shape(x), NEW id \in Mapped(x), NEW cnt \in Int,
           x.block[BlockOf(id)].entry_cnt[id % Per] + cnt \in Nat
    PROVE  LET y == ummu_modify_entry_cnt(x, id, cnt)
           IN  /\ DOMAIN y = TableFields /\ y.node = x.node /\ y.bitmap = x.bitmap
               /\ y.ret = x.ret /\ DOMAIN y.block = DOMAIN x.block
               /\ \A b \in DOMAIN x.block : /\ IsBlock(y.block[b])
                                            /\ y.block[b].level_cnt = x.block[b].level_cnt
               /\ y.block[BlockOf(id)].entry_cnt[id % Per] =
                      x.block[BlockOf(id)].entry_cnt[id % Per] + cnt
               /\ \A i \in Mapped(x) \ {id} :
                      y.block[BlockOf(i)].entry_cnt[i % Per] = x.block[BlockOf(i)].entry_cnt[i % Per]
<1> DEFINE y == ummu_modify_entry_cnt(x, id, cnt)
           b  == BlockOf(id)
           k  == id % Per
<1>1. DOMAIN x = TableFields /\ \A c \in DOMAIN x.block : IsBlock(x.block[c])  BY DEF Shape
<1>2. b \in DOMAIN x.block /\ id \in Ids /\ k \in 0 .. Per - 1  BY BlockOfFacts DEF Mapped
<1>3. y = [x EXCEPT !.block[b].entry_cnt[k] = @ + cnt]  BY DEF ummu_modify_entry_cnt
<1>4. ASSUME NEW i \in Mapped(x) \ {id} PROVE BlockOf(i) # b \/ i % Per # k
  <2>1. i \in Ids  BY DEF Mapped
  <2> QED BY <1>2, <2>1, <1>4, SameSlot
<1> HIDE DEF b, k, y
<1>5. /\ DOMAIN y = TableFields /\ y.node = x.node /\ y.bitmap = x.bitmap
      /\ y.ret = x.ret /\ DOMAIN y.block = DOMAIN x.block
      /\ \A c \in DOMAIN x.block \ {b} : y.block[c] = x.block[c]
      /\ y.block[b] = [x.block[b] EXCEPT !.entry_cnt[k] = @ + cnt]
  BY <1>1, <1>2, <1>3 DEF TableFields
<1>6. IsBlock(x.block[b]) /\ x.block[b].entry_cnt[k] + cnt \in Nat  BY <1>1, <1>2 DEF b, k
<1>7. /\ IsBlock(y.block[b]) /\ y.block[b].level_cnt = x.block[b].level_cnt
      /\ y.block[b].entry_cnt[k] = x.block[b].entry_cnt[k] + cnt
      /\ \A j \in (0 .. Per - 1) \ {k} : y.block[b].entry_cnt[j] = x.block[b].entry_cnt[j]
  <2> DEFINE f == x.block[b].entry_cnt
             h == [f EXCEPT ![k] = f[k] + cnt]
  <2>1. f \in [0 .. Per - 1 -> Nat] /\ f[k] + cnt \in Nat /\ k \in 0 .. Per - 1
    BY <1>2, <1>6 DEF IsBlock
  <2>2. /\ h \in [0 .. Per - 1 -> Nat] /\ h[k] = f[k] + cnt
        /\ \A j \in (0 .. Per - 1) \ {k} : h[j] = f[j]
    <3> HIDE DEF f
    <3> QED BY <2>1
  <2>3. y.block[b] = [x.block[b] EXCEPT !.entry_cnt = h]  BY <1>5
  <2> HIDE DEF h
  <2>4. /\ DOMAIN y.block[b] = {"level_cnt", "entry_cnt"}
        /\ y.block[b].level_cnt = x.block[b].level_cnt /\ y.block[b].entry_cnt = h
    BY <1>6, <2>3 DEF IsBlock
  <2> QED BY <1>6, <2>2, <2>4 DEF IsBlock
<1>8. ASSUME NEW i \in Mapped(x) \ {id}
      PROVE  y.block[BlockOf(i)].entry_cnt[i % Per] = x.block[BlockOf(i)].entry_cnt[i % Per]
  <2>1. i % Per \in 0 .. Per - 1 /\ BlockOf(i) \in DOMAIN x.block  BY BlockOfFacts DEF Mapped
  <2> QED BY <1>4, <1>5, <1>7, <2>1
<1> QED BY <1>1, <1>5, <1>7, <1>8 DEF b, k, y

\* The valid nodes of a level block can be counted.
LEMMA ValidAtFacts ==
    ASSUME NEW x, NEW id
    PROVE  /\ IsFiniteSet(ValidAt(x, id)) /\ Cardinality(ValidAt(x, id)) \in Nat
           /\ Cardinality(ValidAt(x, id)) = 0 <=> ValidAt(x, id) = {}
<1>1. IsFiniteSet(ValidAt(x, id))  BY IdFacts, FS_Subset DEF ValidAt
<1> QED BY <1>1, FS_EmptySet, FS_CardinalityType

\* An invalid node of a level block in use becomes a leaf.
LEMMA PutSound ==
    ASSUME NEW x, NEW g, NEW n \in UsedIds(x) \X Index, Sound(x, g, n[1]),
           x.node[n].valid = 0, NEW z, Rewritten(x, z, n), IsNode(z.node[n]),
           z.node[n].valid = 1, z.node[n].type = 1, z.node[n].next_block = 0,
           NEW y, y = ummu_modify_entry_cnt(z, n[1], 1)
    PROVE  /\ Sound(y, g, 0) /\ y.ret = x.ret
           /\ UsedIds(y) = UsedIds(x) /\ Valid(y) = Valid(x) \cup {n}
           /\ y.node = z.node
<1>0. Shape(x) /\ Counted(x) /\ Flagged(x) /\ Placed(x, g) /\ Linked(x, g) /\ Filled(x, n[1])
  BY DEF Sound
<1>1. /\ n[1] \in UsedIds(x) /\ n[1] \in Ids /\ n[2] \in Index /\ n = <<n[1], n[2]>>
      /\ n[1] \in Mapped(x) /\ n \in DOMAIN x.node /\ n # Root
  BY <1>0, UsedNode
<1>2. Shape(z) /\ Mapped(z) = Mapped(x) /\ UsedIds(z) = UsedIds(x)
  <2>1. Mapped(z) = Mapped(x) /\ UsedIds(z) = UsedIds(x)  BY DEF Rewritten, Mapped, UsedIds
  <2> QED BY <1>0, <1>1, <2>1 DEF Rewritten, Shape
<1>3. z.block[BlockOf(n[1])].entry_cnt[n[1] % Per] = Cardinality(ValidAt(x, n[1]))
  BY <1>0, <1>1 DEF Rewritten, Counted
<1>4. z.block[BlockOf(n[1])].entry_cnt[n[1] % Per] + 1 \in Nat  BY <1>3, ValidAtFacts
<1>5. /\ DOMAIN y = TableFields /\ y.node = z.node /\ y.bitmap = z.bitmap
      /\ y.ret = z.ret /\ DOMAIN y.block = DOMAIN z.block
      /\ \A b \in DOMAIN z.block : /\ IsBlock(y.block[b])
                                   /\ y.block[b].level_cnt = z.block[b].level_cnt
      /\ y.block[BlockOf(n[1])].entry_cnt[n[1] % Per] =
             z.block[BlockOf(n[1])].entry_cnt[n[1] % Per] + 1
      /\ \A i \in Mapped(z) \ {n[1]} :
             y.block[BlockOf(i)].entry_cnt[i % Per] = z.block[BlockOf(i)].entry_cnt[i % Per]
  BY <1>1, <1>2, <1>4, CountEffect
<1>6. /\ Mapped(y) = Mapped(x) /\ UsedIds(y) = UsedIds(x)
      /\ DOMAIN y.block = DOMAIN x.block /\ y.ret = x.ret
  BY <1>2, <1>5 DEF Mapped, UsedIds, Rewritten
<1>7. Shape(y)  BY <1>2, <1>5, <1>6 DEF Shape
<1>8. /\ DOMAIN y.node = DOMAIN x.node
      /\ \A m \in DOMAIN x.node \ {n} : y.node[m] = x.node[m]
      /\ y.node[n].valid = 1 /\ y.node[n].type = 1 /\ y.node[n].next_block = 0
  BY <1>5 DEF Rewritten
<1>9. \A i \in Mapped(x) \ {n[1]} : ValidAt(y, i) = ValidAt(x, i)
  <2> SUFFICES ASSUME NEW i \in Mapped(x) \ {n[1]}, NEW j \in Index
               PROVE  y.node[<<i, j>>] = x.node[<<i, j>>]
    BY DEF ValidAt
  <2>1. <<i, j>> \in DOMAIN x.node /\ <<i, j>> # n  BY <1>0, <1>1 DEF Shape
  <2> QED BY <1>8, <2>1
<1>10. ValidAt(y, n[1]) = ValidAt(x, n[1]) \cup {n[2]} /\ n[2] \notin ValidAt(x, n[1])
  <2>1. \A j \in Index : <<n[1], j>> \in DOMAIN x.node  BY <1>0, <1>1 DEF Shape
  <2>2. \A j \in Index : j # n[2] => <<n[1], j>> # n  BY <1>1
  <2> QED BY <1>1, <1>8, <2>1, <2>2 DEF ValidAt
<1>11. Valid(y) = Valid(x) \cup {n}
  <2>1. \A m \in UsedIds(x) \X Index : m \in DOMAIN x.node  BY <1>0, UsedNode
  <2> QED BY <1>1, <1>6, <1>8, <2>1 DEF Valid
<1>12. Counted(y)
  <2>1. \A b \in DOMAIN y.block : y.block[b].level_cnt = x.block[b].level_cnt
    BY <1>5, <1>6 DEF Rewritten
  <2>2. ASSUME NEW i \in Mapped(y)
        PROVE  y.block[BlockOf(i)].entry_cnt[i % Per] = Cardinality(ValidAt(y, i))
    <3>1. CASE i = n[1]
      <4>1. Cardinality(ValidAt(y, n[1])) = Cardinality(ValidAt(x, n[1])) + 1
        <5> DEFINE S == ValidAt(x, n[1])
        <5>1. IsFiniteSet(S) /\ n[2] \notin S  BY <1>10, ValidAtFacts
        <5> HIDE DEF S
        <5>2. Cardinality(S \cup {n[2]}) = Cardinality(S) + 1  BY <5>1, FS_AddElement
        <5> QED BY <1>10, <5>2 DEF S
      <4> QED BY <1>3, <1>5, <3>1, <4>1
    <3>2. CASE i # n[1]
      <4>1. y.block[BlockOf(i)].entry_cnt[i % Per] = z.block[BlockOf(i)].entry_cnt[i % Per]
        BY <1>2, <1>5, <1>6, <3>2
      <4>2. z.block[BlockOf(i)].entry_cnt[i % Per] = Cardinality(ValidAt(x, i))
        BY <1>0, <1>6 DEF Rewritten, Counted
      <4> QED BY <1>6, <1>9, <3>2, <4>1, <4>2
    <3> QED BY <3>1, <3>2
  <2>3. \A i \in Mapped(y) : i \notin UsedIds(y) => ValidAt(y, i) = {}
    BY <1>0, <1>1, <1>6, <1>9 DEF Counted
  <2> QED BY <1>0, <1>6, <2>1, <2>2, <2>3 DEF Counted
<1>13. Flagged(y)  BY <1>0, <1>8 DEF Flagged
<1>14. Placed(y, g)  BY <1>0, <1>6 DEF Placed
<1>15. Linked(y, g)
  <2>1. \A m \in Valid(x) : m # n /\ m \in DOMAIN x.node  BY <1>0, UsedNode DEF Valid
  <2>2. \A m \in Valid(y) : y.node[m].type = 0 => m \in Valid(x) /\ y.node[m] = x.node[m]
    BY <1>8, <1>11, <2>1
  <2>3. \A m \in Valid(x) : m \in Valid(y) /\ y.node[m] = x.node[m]  BY <1>8, <1>11, <2>1
  <2> QED BY <1>0, <1>6, <2>2, <2>3 DEF Linked
<1>16. Filled(y, 0)
  <2> SUFFICES ASSUME NEW i \in UsedIds(y) \ {0} PROVE ValidAt(y, i) # {}  BY DEF Filled
  <2>1. i \in Mapped(x) /\ i \in UsedIds(x)  BY <1>0, <1>6, UsedFacts
  <2> QED BY <1>0, <1>9, <1>10, <2>1 DEF Filled
<1>17. Sound(y, g, 0)  BY <1>7, <1>12, <1>13, <1>14, <1>15, <1>16 DEF Sound
<1> QED BY <1>5, <1>6, <1>11, <1>17

\* A level block is given back, with its mapt block if that is now empty.
LEMMA FreeEffect ==
    ASSUME NEW v, Shape(v), 0 \in UsedIds(v),
           DOMAIN v.block = {BlockOf(i) : i \in UsedIds(v)},
           \A b \in DOMAIN v.block :
               v.block[b].level_cnt = Cardinality(InMapt(UsedIds(v), b)),
           NEW pre \in DOMAIN v.node, v.node[pre].next \in UsedIds(v) \ {0}
    PROVE  LET y  == ummu_free_level_block(v, pre)
               id == v.node[pre].next
           IN  /\ DOMAIN y = TableFields /\ y.ret = v.ret
               /\ y.bitmap \in [0 .. BITS_TO_LONGS(MAX_LEVEL_ID_SIZE) - 1 -> SUBSET BitsOfWord]
               /\ UsedIds(y) = UsedIds(v) \ {id}
               /\ DOMAIN y.block = {BlockOf(i) : i \in UsedIds(y)}
               /\ \A b \in DOMAIN y.block :
                    /\ b \in DOMAIN v.block /\ IsBlock(y.block[b])
                    /\ y.block[b].entry_cnt = v.block[b].entry_cnt
                    /\ y.block[b].level_cnt = Cardinality(InMapt(UsedIds(y), b))
               /\ DOMAIN y.node = {Root} \cup (Mapped(y) \X Index)
               /\ \A m \in DOMAIN y.node : m \in DOMAIN v.node /\ y.node[m] = v.node[m]
<1> DEFINE id == v.node[pre].next
           c  == BlockOf(id)
           w  == [v EXCEPT !.block[c].level_cnt = @ - 1, !.bitmap = ummu_clear_bit(id, @)]
           y  == ummu_free_level_block(v, pre)
           U  == UsedIds(v) \ {id}
           In(b) == InMapt(UsedIds(v), b)
<1>0. y = IF w.block[c].level_cnt = 0 /\ Cardinality(DOMAIN w.block) > 1
          THEN [w EXCEPT !.block = Without(@, {c}), !.node = Without(@, NodesOf(c))]
          ELSE w
  BY DEF ummu_free_level_block
<1>1. UsedIds(v) \subseteq Ids /\ IsFiniteSet(UsedIds(v))
  <2>1. UsedIds(v) \subseteq Ids  BY DEF UsedIds, Ones, Ids
  <2> QED BY <2>1, IdFacts, FS_Subset
<1>2. /\ id \in UsedIds(v) /\ id # 0 /\ id \in Ids /\ c \in 0 .. Blocks - 1
      /\ c \in DOMAIN v.block
  BY <1>1, BlockOfFacts
<1>3. \A b : IsFiniteSet(In(b)) /\ Cardinality(In(b)) \in Nat
  <2> TAKE b
  <2>1. In(b) \subseteq UsedIds(v)  BY DEF InMapt
  <2> QED BY <1>1, <2>1, FS_Subset, FS_CardinalityType
<1>4. /\ IsBitmap(v.bitmap, MAX_LEVEL_ID_SIZE) /\ MAX_LEVEL_ID_SIZE \in Nat
      /\ id \in 0 .. MAX_LEVEL_ID_SIZE - 1
  BY <1>2, IdFacts DEF Shape, IsBitmap, Words, Ids
<1>5. /\ IsBitmap(ummu_clear_bit(id, v.bitmap), MAX_LEVEL_ID_SIZE)
      /\ Ones(ummu_clear_bit(id, v.bitmap), MAX_LEVEL_ID_SIZE) = U
  BY <1>4, ClearBit DEF UsedIds
<1>6. v.block[c].level_cnt = Cardinality(In(c)) /\ id \in In(c)  BY <1>2 DEF InMapt
<1>7. \A b \in DOMAIN v.block : InMapt(U, b) = IF b = c THEN In(c) \ {id} ELSE In(b)
  BY <1>2 DEF InMapt
<1>8. Cardinality(In(c) \ {id}) = Cardinality(In(c)) - 1 /\ Cardinality(In(c) \ {id}) \in Nat
  <2> DEFINE S == In(c)
  <2>1. IsFiniteSet(S) /\ id \in S  BY <1>3, <1>6
  <2> HIDE DEF S
  <2>2. Cardinality(S \ {id}) = Cardinality(S) - 1  BY <2>1, FS_RemoveElement
  <2>3. Cardinality(S \ {id}) \in Nat
    <3>1. IsFiniteSet(S \ {id})  BY <2>1, FS_Subset
    <3> QED BY <3>1, FS_CardinalityType
  <2> QED BY <2>2, <2>3 DEF S
<1> HIDE DEF id, c, w, y
<1>9. /\ DOMAIN w = TableFields /\ w.ret = v.ret /\ w.node = v.node
      /\ w.bitmap = ummu_clear_bit(id, v.bitmap) /\ DOMAIN w.block = DOMAIN v.block
      /\ \A b \in DOMAIN v.block \ {c} : w.block[b] = v.block[b]
      /\ w.block[c] = [v.block[c] EXCEPT !.level_cnt = @ - 1]
  BY <1>2 DEF Shape, TableFields, w
<1>10. /\ w.block[c].level_cnt = Cardinality(In(c) \ {id})
       /\ \A b \in DOMAIN v.block :
            /\ IsBlock(w.block[b]) /\ w.block[b].entry_cnt = v.block[b].entry_cnt
            /\ w.block[b].level_cnt = Cardinality(InMapt(U, b))
  <2>1. IsBlock(v.block[c])  BY <1>2 DEF Shape
  <2>2. w.block[c].level_cnt = Cardinality(In(c)) - 1 /\ w.block[c].entry_cnt = v.block[c].entry_cnt
        /\ DOMAIN w.block[c] = {"level_cnt", "entry_cnt"}
    BY <1>6, <1>9, <2>1 DEF IsBlock
  <2>3. IsBlock(w.block[c]) /\ w.block[c].level_cnt = Cardinality(In(c) \ {id})
    BY <1>8, <2>1, <2>2 DEF IsBlock
  <2>4. ASSUME NEW b \in DOMAIN v.block \ {c}
        PROVE  /\ IsBlock(w.block[b]) /\ w.block[b].entry_cnt = v.block[b].entry_cnt
               /\ w.block[b].level_cnt = Cardinality(InMapt(U, b))
    <3>1. w.block[b] = v.block[b] /\ IsBlock(v.block[b]) /\ v.block[b].level_cnt = Cardinality(In(b))
      BY <1>9 DEF Shape
    <3>2. InMapt(U, b) = In(b)  BY <1>7
    <3> QED BY <3>1, <3>2
  <2>5. InMapt(U, c) = In(c) \ {id}  BY <1>2, <1>7
  <2> QED BY <2>2, <2>3, <2>4, <2>5
<1>11. CASE w.block[c].level_cnt = 0
  <2>1. In(c) \ {id} = {}
    <3> DEFINE S == In(c)
    <3>1. IsFiniteSet(S)  BY <1>3
    <3> HIDE DEF S
    <3>2. IsFiniteSet(S \ {id})  BY <3>1, FS_Subset
    <3>3. Cardinality(S \ {id}) = 0  BY <1>10, <1>11 DEF S
    <3>4. S \ {id} = {}  BY <3>2, <3>3, FS_EmptySet
    <3> QED BY <3>4 DEF S
  <2>2. BlockOf(0) # c /\ BlockOf(0) \in DOMAIN v.block  BY <1>2, <2>1 DEF InMapt
  <2>3. Cardinality(DOMAIN w.block) > 1
    <3> DEFINE D == DOMAIN v.block
    <3>1. IsFiniteSet(D)
      <4>1. D \subseteq 0 .. Blocks - 1  BY <1>1, BlockOfFacts
      <4>2. IsFiniteSet(0 .. Blocks - 1)  BY BlockAssumption, FS_Interval
      <4> QED BY <4>1, <4>2, FS_Subset
    <3>2. IsFiniteSet(D \ {c}) /\ D \ {c} # {} /\ c \in D  BY <1>2, <2>2, <3>1, FS_Subset
    <3> HIDE DEF D
    <3>3. Cardinality(D \ {c}) = Cardinality(D) - 1 /\ Cardinality(D) \in Nat
      BY <3>1, <3>2, FS_RemoveElement, FS_CardinalityType
    <3>4. Cardinality(D \ {c}) # 0 /\ Cardinality(D \ {c}) \in Nat
      BY <3>2, FS_EmptySet, FS_CardinalityType
    <3> QED BY <1>9, <3>3, <3>4 DEF D
  <2>4. y = [w EXCEPT !.block = Without(@, {c}), !.node = Without(@, NodesOf(c))]
    BY <1>0, <1>11, <2>3
  <2>5. /\ DOMAIN y = TableFields /\ y.ret = v.ret /\ y.bitmap = w.bitmap
        /\ y.block = Without(w.block, {c}) /\ y.node = Without(v.node, NodesOf(c))
    BY <1>9, <2>4 DEF TableFields
  <2>6. /\ DOMAIN y.block = DOMAIN v.block \ {c}
        /\ \A b \in DOMAIN y.block : y.block[b] = w.block[b]
        /\ DOMAIN y.node = DOMAIN v.node \ NodesOf(c)
        /\ \A m \in DOMAIN y.node : y.node[m] = v.node[m]
    BY <1>9, <2>5 DEF Without
  <2>7. UsedIds(y) = U  BY <1>5, <1>9, <2>5 DEF UsedIds
  <2>8. DOMAIN y.block = {BlockOf(i) : i \in U}  BY <2>1, <2>6 DEF c, InMapt
  <2>9. DOMAIN y.node = {Root} \cup (Mapped(y) \X Index)
    <3>1. NodesOf(c) = {i \in Ids : BlockOf(i) = c} \X Index  BY <1>2, NodesOfBlock
    <3>2. Mapped(y) = Mapped(v) \ {i \in Ids : BlockOf(i) = c}  BY <2>6 DEF Mapped
    <3>3. Root \notin NodesOf(c)  BY <3>1, IdFacts DEF Root
    <3> QED BY <2>6, <3>1, <3>2, <3>3 DEF Shape
  <2> QED BY <1>5, <1>9, <1>10, <2>5, <2>6, <2>7, <2>8, <2>9 DEF id, y, IsBitmap, Words
<1>12. CASE w.block[c].level_cnt # 0
  <2>1. y = w  BY <1>0, <1>12
  <2>2. UsedIds(y) = U  BY <1>5, <1>9, <2>1 DEF UsedIds
  <2>3. In(c) \ {id} # {}  BY <1>10, <1>12, FS_EmptySet
  <2>4. DOMAIN y.block = {BlockOf(i) : i \in U}  BY <1>9, <2>1, <2>3 DEF c, InMapt
  <2>5. DOMAIN y.node = {Root} \cup (Mapped(y) \X Index)  BY <1>9, <2>1 DEF Shape, Mapped
  <2> QED BY <1>5, <1>9, <1>10, <2>1, <2>2, <2>4, <2>5 DEF id, y, IsBitmap, Words
<1> QED BY <1>11, <1>12

\* A leaf becomes invalid and is no longer counted.
LEMMA UncountSound ==
    ASSUME NEW x, NEW g, Sound(x, g, 0), NEW n \in Valid(x), x.node[n].type = 1,
           NEW z, Rewritten(x, z, n), IsNode(z.node[n]),
           z.node[n].valid = 0, z.node[n].next_block = 0,
           NEW y, y = ummu_modify_entry_cnt(z, n[1], -1)
    PROVE  /\ Sound(y, g, n[1]) /\ y.ret = x.ret
           /\ UsedIds(y) = UsedIds(x) /\ Valid(y) = Valid(x) \ {n}
           /\ y.node = z.node
           /\ y.block[BlockOf(n[1])].entry_cnt[n[1] % Per] = Cardinality(ValidAt(y, n[1]))
<1>0. Shape(x) /\ Counted(x) /\ Flagged(x) /\ Placed(x, g) /\ Linked(x, g) /\ Filled(x, 0)
  BY DEF Sound
<1>1. /\ n[1] \in UsedIds(x) /\ n[1] \in Ids /\ n[2] \in Index /\ n = <<n[1], n[2]>>
      /\ n[1] \in Mapped(x) /\ n \in DOMAIN x.node /\ n # Root /\ x.node[n].valid = 1
      /\ n \in UsedIds(x) \X Index
  <2>1. n \in UsedIds(x) \X Index /\ x.node[n].valid = 1  BY DEF Valid
  <2> QED BY <1>0, <2>1, UsedNode
<1>2. Shape(z) /\ Mapped(z) = Mapped(x) /\ UsedIds(z) = UsedIds(x)
  <2>1. Mapped(z) = Mapped(x) /\ UsedIds(z) = UsedIds(x)  BY DEF Rewritten, Mapped, UsedIds
  <2> QED BY <1>0, <1>1, <2>1 DEF Rewritten, Shape
<1>3. z.block[BlockOf(n[1])].entry_cnt[n[1] % Per] = Cardinality(ValidAt(x, n[1]))
  BY <1>0, <1>1 DEF Rewritten, Counted
<1>4. z.block[BlockOf(n[1])].entry_cnt[n[1] % Per] + (-1) \in Nat
  <2>1. n[2] \in ValidAt(x, n[1])  BY <1>1 DEF ValidAt
  <2>2. Cardinality(ValidAt(x, n[1])) # 0 /\ Cardinality(ValidAt(x, n[1])) \in Nat
    BY <2>1, ValidAtFacts
  <2> QED BY <1>3, <2>2
<1>5. /\ DOMAIN y = TableFields /\ y.node = z.node /\ y.bitmap = z.bitmap
      /\ y.ret = z.ret /\ DOMAIN y.block = DOMAIN z.block
      /\ \A b \in DOMAIN z.block : /\ IsBlock(y.block[b])
                                   /\ y.block[b].level_cnt = z.block[b].level_cnt
      /\ y.block[BlockOf(n[1])].entry_cnt[n[1] % Per] =
             z.block[BlockOf(n[1])].entry_cnt[n[1] % Per] + (-1)
      /\ \A i \in Mapped(z) \ {n[1]} :
             y.block[BlockOf(i)].entry_cnt[i % Per] = z.block[BlockOf(i)].entry_cnt[i % Per]
  BY <1>1, <1>2, <1>4, CountEffect
<1>6. /\ Mapped(y) = Mapped(x) /\ UsedIds(y) = UsedIds(x)
      /\ DOMAIN y.block = DOMAIN x.block /\ y.ret = x.ret
  BY <1>2, <1>5 DEF Mapped, UsedIds, Rewritten
<1>7. Shape(y)  BY <1>2, <1>5, <1>6 DEF Shape
<1>8. /\ DOMAIN y.node = DOMAIN x.node
      /\ \A m \in DOMAIN x.node \ {n} : y.node[m] = x.node[m]
      /\ y.node[n].valid = 0 /\ y.node[n].next_block = 0
  BY <1>5 DEF Rewritten
<1>9. \A i \in Mapped(x) \ {n[1]} : ValidAt(y, i) = ValidAt(x, i)
  <2> SUFFICES ASSUME NEW i \in Mapped(x) \ {n[1]}, NEW j \in Index
               PROVE  y.node[<<i, j>>] = x.node[<<i, j>>]
    BY DEF ValidAt
  <2>1. <<i, j>> \in DOMAIN x.node /\ <<i, j>> # n  BY <1>0, <1>1 DEF Shape
  <2> QED BY <1>8, <2>1
<1>10. ValidAt(y, n[1]) = ValidAt(x, n[1]) \ {n[2]} /\ n[2] \in ValidAt(x, n[1])
  <2>1. \A j \in Index : <<n[1], j>> \in DOMAIN x.node  BY <1>0, <1>1 DEF Shape
  <2>2. \A j \in Index : j # n[2] => <<n[1], j>> # n  BY <1>1
  <2> QED BY <1>1, <1>8, <2>1, <2>2 DEF ValidAt
<1>11. Valid(y) = Valid(x) \ {n}
  <2>1. \A m \in UsedIds(x) \X Index : m \in DOMAIN x.node  BY <1>0, UsedNode
  <2> QED BY <1>1, <1>6, <1>8, <2>1 DEF Valid
<1>12. Cardinality(ValidAt(y, n[1])) = Cardinality(ValidAt(x, n[1])) - 1
  <2> DEFINE S == ValidAt(x, n[1])
  <2>1. IsFiniteSet(S) /\ n[2] \in S  BY <1>10, ValidAtFacts
  <2> HIDE DEF S
  <2>2. Cardinality(S \ {n[2]}) = Cardinality(S) - 1  BY <2>1, FS_RemoveElement
  <2> QED BY <1>10, <2>2 DEF S
<1>13. y.block[BlockOf(n[1])].entry_cnt[n[1] % Per] = Cardinality(ValidAt(y, n[1]))
  BY <1>3, <1>5, <1>12, ValidAtFacts
<1>14. Counted(y)
  <2>1. \A b \in DOMAIN y.block : y.block[b].level_cnt = x.block[b].level_cnt
    BY <1>5, <1>6 DEF Rewritten
  <2>2. ASSUME NEW i \in Mapped(y)
        PROVE  y.block[BlockOf(i)].entry_cnt[i % Per] = Cardinality(ValidAt(y, i))
    <3>1. CASE i = n[1]  BY <1>13, <3>1
    <3>2. CASE i # n[1]
      <4>1. y.block[BlockOf(i)].entry_cnt[i % Per] = z.block[BlockOf(i)].entry_cnt[i % Per]
        BY <1>2, <1>5, <1>6, <3>2
      <4>2. z.block[BlockOf(i)].entry_cnt[i % Per] = Cardinality(ValidAt(x, i))
        BY <1>0, <1>6 DEF Rewritten, Counted
      <4> QED BY <1>6, <1>9, <3>2, <4>1, <4>2
    <3> QED BY <3>1, <3>2
  <2>3. \A i \in Mapped(y) : i \notin UsedIds(y) => ValidAt(y, i) = {}
    BY <1>0, <1>1, <1>6, <1>9 DEF Counted
  <2> QED BY <1>0, <1>6, <2>1, <2>2, <2>3 DEF Counted
<1>15. Flagged(y)  BY <1>0, <1>8 DEF Flagged
<1>16. Placed(y, g)  BY <1>0, <1>6 DEF Placed
<1>17. Linked(y, g)
  <2>1. \A m \in Valid(x) : m \in DOMAIN x.node  BY <1>0, UsedNode DEF Valid
  <2>2. \A m \in Valid(y) : m \in Valid(x) /\ y.node[m] = x.node[m]  BY <1>8, <1>11, <2>1
  <2>3. \A m \in Valid(x) : x.node[m].type = 0 => m \in Valid(y) /\ y.node[m] = x.node[m]
    BY <1>8, <1>11, <2>1
  <2> QED BY <1>0, <1>6, <2>2, <2>3 DEF Linked
<1>18. Filled(y, n[1])
  <2> SUFFICES ASSUME NEW i \in UsedIds(y) \ {0, n[1]} PROVE ValidAt(y, i) # {}  BY DEF Filled
  <2>1. i \in Mapped(x) /\ i \in UsedIds(x)  BY <1>0, <1>6, UsedFacts
  <2> QED BY <1>0, <1>9, <2>1 DEF Filled
<1>19. Sound(y, g, n[1])  BY <1>7, <1>14, <1>15, <1>16, <1>17, <1>18 DEF Sound
<1> QED BY <1>5, <1>6, <1>10, <1>11, <1>13, <1>19

\* An empty level block is given back and the node that led to it is a leaf.
LEMMA DetachSound ==
    ASSUME NEW x, NEW g, NEW id, Sound(x, g, id), NEW pre \in Valid(x),
           x.node[pre].type = 0, x.node[pre].next = id, ValidAt(x, id) = {},
           NEW y, y = Detach(x, pre)
    PROVE  /\ Sound(y, g, 0) /\ y.ret = x.ret
           /\ UsedIds(y) = UsedIds(x) \ {id} /\ Valid(y) = Valid(x)
           /\ y.node[pre].type = 1 /\ SameContent(x.node[pre], y.node[pre])
           /\ \A m \in Nodes(y) \ {pre} : y.node[m] = x.node[m]
<1> DEFINE f == ummu_free_level_block(x, pre)
<1>y. y = [f EXCEPT !.node[pre].type = 1, !.node[pre].next_block = 0, !.node[pre].next = 0]
  BY DEF Detach
<1>0. Shape(x) /\ Counted(x) /\ Flagged(x) /\ Placed(x, g) /\ Linked(x, g) /\ Filled(x, id)
  BY DEF Sound
<1>1. /\ pre \in UsedIds(x) \X Index /\ pre[1] \in UsedIds(x) /\ pre \in DOMAIN x.node
      /\ pre # Root /\ IsNode(x.node[pre]) /\ x.node[pre].valid = 1
  <2>1. pre \in UsedIds(x) \X Index /\ x.node[pre].valid = 1  BY DEF Valid
  <2> QED BY <1>0, <2>1, UsedNode
<1>2. /\ id \in UsedIds(x) /\ g.lev[id] = Level(g, pre) + 1 /\ g.num[id] = Num(g, pre)
      /\ id # 0 /\ pre[1] # id
  <2>1. id \in UsedIds(x) /\ g.lev[id] = Level(g, pre) + 1 /\ g.num[id] = Num(g, pre)
    BY <1>0 DEF Linked
  <2>2. Level(g, pre) \in Nat  BY <1>0, <1>1, NodePlace, LevelNat
  <2> QED BY <1>0, <2>1, <2>2 DEF Placed, Level
<1>3. /\ DOMAIN f = TableFields /\ f.ret = x.ret
      /\ f.bitmap \in [0 .. BITS_TO_LONGS(MAX_LEVEL_ID_SIZE) - 1 -> SUBSET BitsOfWord]
      /\ UsedIds(f) = UsedIds(x) \ {id}
      /\ DOMAIN f.block = {BlockOf(i) : i \in UsedIds(f)}
      /\ \A b \in DOMAIN f.block :
           /\ b \in DOMAIN x.block /\ IsBlock(f.block[b])
           /\ f.block[b].entry_cnt = x.block[b].entry_cnt
           /\ f.block[b].level_cnt = Cardinality(InMapt(UsedIds(f), b))
      /\ DOMAIN f.node = {Root} \cup (Mapped(f) \X Index)
      /\ \A m \in DOMAIN f.node : m \in DOMAIN x.node /\ f.node[m] = x.node[m]
  <2>1. /\ 0 \in UsedIds(x) /\ DOMAIN x.block = {BlockOf(i) : i \in UsedIds(x)}
        /\ \A b \in DOMAIN x.block :
               x.block[b].level_cnt = Cardinality(InMapt(UsedIds(x), b))
    BY <1>0 DEF Counted
  <2>2. x.node[pre].next \in UsedIds(x) \ {0}  BY <1>2
  <2>3. /\ DOMAIN f = TableFields /\ f.ret = x.ret
        /\ f.bitmap \in [0 .. BITS_TO_LONGS(MAX_LEVEL_ID_SIZE) - 1 -> SUBSET BitsOfWord]
        /\ UsedIds(f) = UsedIds(x) \ {x.node[pre].next}
        /\ DOMAIN f.block = {BlockOf(i) : i \in UsedIds(f)}
        /\ \A b \in DOMAIN f.block :
             /\ b \in DOMAIN x.block /\ IsBlock(f.block[b])
             /\ f.block[b].entry_cnt = x.block[b].entry_cnt
             /\ f.block[b].level_cnt = Cardinality(InMapt(UsedIds(f), b))
        /\ DOMAIN f.node = {Root} \cup (Mapped(f) \X Index)
        /\ \A m \in DOMAIN f.node : m \in DOMAIN x.node /\ f.node[m] = x.node[m]
    BY <1>0, <1>1, <2>1, <2>2, FreeEffect
  <2> HIDE DEF f
  <2> QED BY <2>3
<1>4. UsedIds(f) \subseteq Mapped(f) /\ Mapped(f) \subseteq Mapped(x) /\ Mapped(f) \subseteq Ids
  <2>1. UsedIds(f) \subseteq Ids  BY <1>0, <1>3, UsedFacts
  <2> QED BY <1>3, <2>1 DEF Mapped
<1>5. pre \in DOMAIN f.node /\ f.node[pre] = x.node[pre]
  <2>1. pre[1] \in UsedIds(f)  BY <1>1, <1>2, <1>3
  <2> QED BY <1>1, <1>3, <1>4, <2>1
<1>6. /\ DOMAIN y = TableFields /\ y.ret = x.ret /\ y.bitmap = f.bitmap /\ y.block = f.block
      /\ DOMAIN y.node = DOMAIN f.node
      /\ \A m \in DOMAIN f.node \ {pre} : y.node[m] = x.node[m]
      /\ y.node[pre] = [x.node[pre] EXCEPT !.type = 1, !.next_block = 0, !.next = 0]
  <2> HIDE DEF f
  <2> QED BY <1>y, <1>3, <1>5 DEF TableFields
<1>7. UsedIds(y) = UsedIds(x) \ {id} /\ UsedIds(y) = UsedIds(f) /\ Mapped(y) = Mapped(f)
  BY <1>3, <1>6 DEF UsedIds, Mapped
<1> HIDE DEF f
<1>8. /\ IsNode(y.node[pre]) /\ y.node[pre].type = 1 /\ y.node[pre].next_block = 0
      /\ y.node[pre].valid = 1 /\ SameContent(x.node[pre], y.node[pre])
  BY <1>1, <1>6, IdFacts DEF IsNode, NodeFields, SameContent
<1>9. \A m \in DOMAIN y.node : /\ m \in DOMAIN x.node /\ y.node[m].valid = x.node[m].valid
                               /\ m # pre => y.node[m] = x.node[m]
  BY <1>1, <1>3, <1>6, <1>8
<1>10. Shape(y)
  <2>1. \A m \in DOMAIN y.node : IsNode(y.node[m])  BY <1>0, <1>8, <1>9 DEF Shape
  <2>2. y.node[Root].next = 0 /\ y.node[Root].valid = 0  BY <1>0, <1>1, <1>3, <1>6 DEF Shape
  <2> QED BY <1>3, <1>6, <1>7, <2>1, <2>2 DEF Shape
<1>11. \A i \in Mapped(y) : ValidAt(y, i) = ValidAt(x, i)
  <2> SUFFICES ASSUME NEW i \in Mapped(y), NEW j \in Index
               PROVE  y.node[<<i, j>>].valid = x.node[<<i, j>>].valid
    BY DEF ValidAt
  <2>1. <<i, j>> \in DOMAIN y.node  BY <1>10 DEF Shape
  <2> QED BY <1>9, <2>1
<1>12. Counted(y)
  <2>1. 0 \in UsedIds(y) /\ DOMAIN y.block = {BlockOf(i) : i \in UsedIds(y)}
    BY <1>0, <1>2, <1>3, <1>6, <1>7 DEF Counted
  <2>2. \A b \in DOMAIN y.block :
            y.block[b].level_cnt = Cardinality(InMapt(UsedIds(y), b))
    BY <1>3, <1>6, <1>7
  <2>3. ASSUME NEW i \in Mapped(y)
        PROVE  /\ y.block[BlockOf(i)].entry_cnt[i % Per] = Cardinality(ValidAt(y, i))
               /\ i \notin UsedIds(y) => ValidAt(y, i) = {}
    <3>1. i \in Mapped(x) /\ BlockOf(i) \in DOMAIN f.block  BY <1>4, <1>7 DEF Mapped
    <3>2. y.block[BlockOf(i)].entry_cnt = x.block[BlockOf(i)].entry_cnt  BY <1>3, <1>6, <3>1
    <3>3. /\ x.block[BlockOf(i)].entry_cnt[i % Per] = Cardinality(ValidAt(x, i))
          /\ i \notin UsedIds(x) => ValidAt(x, i) = {}
      BY <1>0, <3>1 DEF Counted
    <3> QED BY <1>7, <1>11, <3>2, <3>3
  <2> QED BY <2>1, <2>2, <2>3 DEF Counted
<1>13. Valid(y) = Valid(x)
  <2>1. \A i \in UsedIds(y) : ValidAt(y, i) = ValidAt(x, i)  BY <1>4, <1>7, <1>11
  <2> QED BY <1>7, <2>1 DEF Valid, ValidAt
<1>14. Flagged(y)  BY <1>0, <1>8, <1>9 DEF Flagged
<1>15. Placed(y, g)  BY <1>0, <1>7 DEF Placed
<1>16. Linked(y, g)
  <2>1. \A m \in Valid(y) : m \in DOMAIN y.node /\ m \in UsedIds(x) \X Index
    BY <1>7, <1>10, <1>12, <1>13, UsedNode DEF Valid
  <2>2. ASSUME NEW m \in Valid(y), y.node[m].type = 0
        PROVE  /\ y.node[m].next \in UsedIds(y)
               /\ g.lev[y.node[m].next] = Level(g, m) + 1
               /\ g.num[y.node[m].next] = Num(g, m)
    <3>1. m # pre /\ y.node[m] = x.node[m] /\ m \in Valid(x)  BY <1>8, <1>9, <1>13, <2>1, <2>2
    <3>2. /\ x.node[m].next \in UsedIds(x)
          /\ g.lev[x.node[m].next] = Level(g, m) + 1
          /\ g.num[x.node[m].next] = Num(g, m)
      BY <1>0, <2>2, <3>1 DEF Linked
    <3>3. x.node[m].next # id
      <4> SUFFICES ASSUME x.node[m].next = id PROVE FALSE  OBVIOUS
      <4>1. Level(g, m) = Level(g, pre) /\ Num(g, m) = Num(g, pre)
        <5>1. Level(g, m) \in Nat /\ Level(g, pre) \in Nat
          BY <1>0, <1>1, <2>1, NodePlace, LevelNat
        <5> QED BY <1>2, <3>2, <5>1
      <4>2. m = pre  BY <1>0, <1>1, <2>1, <4>1, SamePlace
      <4> QED BY <3>1, <4>2
    <3> QED BY <1>7, <3>1, <3>2, <3>3
  <2>3. ASSUME NEW i \in UsedIds(y) \ {0}
        PROVE  \E m \in Valid(y) : y.node[m].type = 0 /\ y.node[m].next = i
    <3>1. i \in UsedIds(x) /\ i # id  BY <1>7
    <3>2. PICK m \in Valid(x) : x.node[m].type = 0 /\ x.node[m].next = i
      BY <1>0, <2>3, <3>1 DEF Linked
    <3>3. m # pre /\ m \in Valid(y)  BY <1>13, <3>1, <3>2
    <3>4. y.node[m] = x.node[m]  BY <1>9, <2>1, <3>3
    <3> QED BY <3>2, <3>3, <3>4
  <2> QED BY <2>2, <2>3 DEF Linked
<1>17. Filled(y, 0)
  <2> SUFFICES ASSUME NEW i \in UsedIds(y) \ {0} PROVE ValidAt(y, i) # {}  BY DEF Filled
  <2>1. i \in UsedIds(x) /\ i # id /\ i \in Mapped(y)  BY <1>4, <1>7
  <2> QED BY <1>0, <1>11, <2>1 DEF Filled
<1>18. \A m \in Nodes(y) \ {pre} : y.node[m] = x.node[m]
  <2>1. \A m \in Nodes(y) : m \in DOMAIN y.node  BY <1>10, <1>12, UsedNode DEF Nodes, Shape
  <2> QED BY <1>9, <2>1
<1>19. Sound(y, g, 0)  BY <1>10, <1>12, <1>14, <1>15, <1>16, <1>17 DEF Sound
<1> QED BY <1>6, <1>7, <1>8, <1>13, <1>18, <1>19 DEF f

\* A leaf goes: it is no longer counted, and a level block that is then empty
\* is given back, the root level excepted.
LEMMA DropSound ==
    ASSUME NEW x, NEW g, Sound(x, g, 0), NEW n \in Valid(x), x.node[n].type = 1,
           NEW z, Rewritten(x, z, n), IsNode(z.node[n]),
           z.node[n].valid = 0, z.node[n].next_block = 0,
           NEW pre, LeadsTo(x, pre, n[1]),
           NEW y, y = DropEntry(z, n[1], pre)
    PROVE  Sound(y, g, 0) /\ Dropped(x, y, n, pre)
<1> DEFINE v == ummu_modify_entry_cnt(z, n[1], -1)
           id == n[1]
<1>0. Shape(x) /\ Counted(x)  BY DEF Sound
<1>1. /\ Sound(v, g, id) /\ v.ret = x.ret
      /\ UsedIds(v) = UsedIds(x) /\ Valid(v) = Valid(x) \ {n}
      /\ ValidAt(v, id) = ValidAt(x, id) \ {n[2]} /\ v.node = z.node
      /\ v.block[BlockOf(id)].entry_cnt[id % Per] = Cardinality(ValidAt(v, id))
  <2>1. /\ Sound(v, g, id) /\ v.ret = x.ret
        /\ UsedIds(v) = UsedIds(x) /\ Valid(v) = Valid(x) \ {n} /\ v.node = z.node
        /\ v.block[BlockOf(id)].entry_cnt[id % Per] = Cardinality(ValidAt(v, id))
    BY UncountSound
  <2>2. n \in UsedIds(x) \X Index  BY DEF Valid
  <2> HIDE DEF v
  <2>3. ValidAt(v, id) = {k \in Index : <<id, k>> \in Valid(v)}
    BY <2>1, <2>2 DEF Valid, ValidAt
  <2>4. ValidAt(x, id) = {k \in Index : <<id, k>> \in Valid(x)}  BY <2>2 DEF Valid, ValidAt
  <2>5. \A k \in Index : <<id, k>> = n <=> k = n[2]  BY <2>2
  <2>6. ValidAt(v, id) = ValidAt(x, id) \ {n[2]}  BY <2>1, <2>3, <2>4, <2>5
  <2> QED BY <2>1, <2>6
<1>2. /\ n \in UsedIds(x) \X Index /\ id \in UsedIds(x) /\ n[2] \in ValidAt(x, id)
      /\ n \in DOMAIN x.node /\ n # Root /\ n = <<n[1], n[2]>>
  <2>1. n \in UsedIds(x) \X Index /\ x.node[n].valid = 1  BY DEF Valid
  <2> QED BY <1>0, <2>1, UsedNode DEF ValidAt
<1>3. y = IF v.block[BlockOf(id)].entry_cnt[id % Per] # 0 THEN v
          ELSE Detach(v, pre)
  BY DEF DropEntry, Detach
<1> HIDE DEF v
<1>4. DOMAIN v.node = DOMAIN x.node /\ \A m \in DOMAIN x.node \ {n} : v.node[m] = x.node[m]
  BY <1>1 DEF Rewritten
<1>5. pre \in DOMAIN x.node /\ pre # n /\ x.node[pre].next = id
  <2>1. CASE pre = Root  BY <1>0, <1>2, <2>1 DEF LeadsTo, Shape
  <2>2. CASE pre # Root
    <3>1. pre \in Valid(x) /\ x.node[pre].type = 0 /\ x.node[pre].next = id  BY <2>2 DEF LeadsTo
    <3> QED BY <1>0, <3>1, UsedNode DEF Valid
  <2> QED BY <2>1, <2>2
<1>6. v.node[pre] = x.node[pre]  BY <1>4, <1>5
<1>7. \A m \in Nodes(x) : m \in DOMAIN x.node  BY <1>0, UsedNode DEF Nodes, Shape
<1>8. CASE ValidAt(v, id) # {}
  <2>1. y = v  BY <1>1, <1>3, <1>8, ValidAtFacts
  <2>2. Filled(v, 0)  BY <1>1, <1>8 DEF Sound, Filled
  <2>3. Sound(y, g, 0)  BY <1>1, <2>1, <2>2 DEF Sound
  <2>4. Nodes(y) = Nodes(x)  BY <1>1, <2>1 DEF Nodes
  <2> QED BY <1>1, <1>4, <1>6, <1>7, <2>1, <2>3, <2>4 DEF Dropped
<1>9. CASE ValidAt(v, id) = {}
  <2>1. y = Detach(v, pre)  BY <1>1, <1>3, <1>9, ValidAtFacts
  <2>2. ValidAt(x, id) = {n[2]}  BY <1>1, <1>2, <1>9
  <2>a. Alone(x, n)
    <3> SUFFICES ASSUME NEW m \in Valid(x), m[1] = n[1] PROVE m = n  BY DEF Alone
    <3>1. m \in UsedIds(x) \X Index /\ x.node[m].valid = 1  BY DEF Valid
    <3>2. m = <<n[1], m[2]>> /\ m[2] \in Index  BY <3>1
    <3>3. m[2] \in ValidAt(x, id)  BY <3>1, <3>2 DEF ValidAt
    <3> QED BY <1>2, <2>2, <3>2, <3>3
  <2>3. CASE pre # Root
    <3>1. pre \in Valid(v) /\ v.node[pre].type = 0 /\ v.node[pre].next = id
      BY <1>1, <1>5, <1>6, <2>3 DEF LeadsTo
    <3>2. /\ Sound(y, g, 0) /\ y.ret = v.ret
          /\ UsedIds(y) = UsedIds(v) \ {id} /\ Valid(y) = Valid(v)
          /\ y.node[pre].type = 1 /\ SameContent(v.node[pre], y.node[pre])
          /\ \A m \in Nodes(y) \ {pre} : y.node[m] = v.node[m]
      <4> HIDE DEF id
      <4> QED BY <1>1, <1>9, <2>1, <3>1, DetachSound
    <3>3. id # 0
      <4>1. Linked(v, g) /\ Shape(v) /\ Counted(v) /\ Placed(v, g)  BY <1>1 DEF Sound
      <4>2. Level(g, pre) \in Levels  BY <3>1, <4>1, NodePlace DEF Valid
      <4>3. g.lev[id] = Level(g, pre) + 1  BY <3>1, <4>1 DEF Linked
      <4>4. g.lev[0] = 0  BY <4>1 DEF Placed
      <4>5. Level(g, pre) \in Nat  BY <4>2, LevelNat
      <4> QED BY <4>3, <4>4, <4>5
    <3>4. \A m \in Nodes(y) \ {n, pre} : y.node[m] = x.node[m]
      <4>1. Nodes(y) \subseteq Nodes(x)  BY <1>1, <3>2 DEF Nodes
      <4> QED BY <1>4, <1>7, <3>2, <4>1
    <3> QED BY <1>1, <1>6, <2>a, <2>3, <3>2, <3>3, <3>4 DEF Dropped
  <2>4. CASE pre = Root
    <3> DEFINE f == ummu_free_level_block(v, pre)
    <3>1. id = 0 /\ v.node[Root].next = 0  BY <1>0, <1>5, <1>6, <2>4 DEF Shape
    <3>2. 0 \in UsedIds(v) /\ BlockOf(0) \in DOMAIN v.block /\ v.block[BlockOf(0)].level_cnt # 0
      <4>1. /\ 0 \in UsedIds(v) /\ DOMAIN v.block = {BlockOf(i) : i \in UsedIds(v)}
            /\ \A b \in DOMAIN v.block :
                 v.block[b].level_cnt = Cardinality(InMapt(UsedIds(v), b))
        BY <1>1 DEF Sound, Counted
      <4> DEFINE S == InMapt(UsedIds(v), BlockOf(0))
      <4>2. IsFiniteSet(S) /\ S # {}
        <5>1. S \subseteq Ids /\ 0 \in S  BY <4>1 DEF UsedIds, Ones, Ids, InMapt
        <5> QED BY <5>1, IdFacts, FS_Subset
      <4>3. v.block[BlockOf(0)].level_cnt = Cardinality(S)  BY <4>1
      <4> HIDE DEF S
      <4>4. Cardinality(S) # 0  BY <4>2, FS_EmptySet
      <4> QED BY <4>1, <4>3, <4>4
    <3>3. f = v  BY <2>4, <3>1, <3>2 DEF ummu_free_level_block
    <3>4. y = [v EXCEPT !.node[Root].type = 1, !.node[Root].next_block = 0, !.node[Root].next = 0]
      BY <2>1, <2>4, <3>3 DEF Detach
    <3> HIDE DEF f
    <3>5. /\ Shape(v) /\ Counted(v) /\ Flagged(v) /\ Placed(v, g) /\ Linked(v, g) /\ Filled(v, 0)
      BY <1>1, <3>1 DEF Sound
    <3>6. Root \in DOMAIN v.node /\ IsNode(v.node[Root]) /\ DOMAIN v = TableFields
      BY <3>5 DEF Shape
    <3>7. /\ DOMAIN y = TableFields /\ y.ret = v.ret /\ y.bitmap = v.bitmap /\ y.block = v.block
          /\ DOMAIN y.node = DOMAIN v.node
          /\ \A m \in DOMAIN v.node \ {Root} : y.node[m] = v.node[m]
          /\ y.node[Root] = [v.node[Root] EXCEPT !.type = 1, !.next_block = 0, !.next = 0]
      BY <3>4, <3>6 DEF TableFields
    <3>8. /\ IsNode(y.node[Root]) /\ y.node[Root].type = 1 /\ y.node[Root].next = 0
          /\ y.node[Root].valid = 0
      <4>1. v.node[Root].valid = 0  BY <3>5 DEF Shape
      <4> QED BY <3>6, <3>7, <4>1, IdFacts DEF IsNode, NodeFields
    <3>9. UsedIds(y) = UsedIds(v) /\ Mapped(y) = Mapped(v)  BY <3>7 DEF UsedIds, Mapped
    <3>10. \A m \in Mapped(v) \X Index : m \in DOMAIN v.node /\ m # Root /\ y.node[m] = v.node[m]
      <4>1. \A m \in Mapped(v) \X Index : m \in DOMAIN v.node /\ m # Root
        BY <3>5, IdFacts DEF Shape, Mapped, Root
      <4> QED BY <3>7, <4>1
    <3>11. Shape(y)  BY <3>5, <3>7, <3>8, <3>9 DEF Shape
    <3>12. \A i \in Mapped(v) : ValidAt(y, i) = ValidAt(v, i)  BY <3>10 DEF ValidAt
    <3>13. UsedIds(v) \subseteq Mapped(v)  BY <3>5, UsedFacts
    <3>14. Valid(y) = Valid(v) /\ \A m \in Valid(v) : y.node[m] = v.node[m]
      BY <3>9, <3>10, <3>13 DEF Valid
    <3>15. Counted(y)
      <4>1. \A i \in Mapped(y) : ValidAt(y, i) = ValidAt(v, i)  BY <3>9, <3>12
      <4> QED BY <3>5, <3>7, <3>9, <4>1 DEF Counted
    <3>16. Flagged(y)  BY <3>5, <3>7 DEF Flagged
    <3>17. Placed(y, g)  BY <3>5, <3>9 DEF Placed
    <3>18. Linked(y, g)  BY <3>5, <3>9, <3>14 DEF Linked
    <3>19. Filled(y, 0)  BY <3>5, <3>9, <3>12, <3>13 DEF Filled
    <3>20. Sound(y, g, 0)  BY <3>11, <3>15, <3>16, <3>17, <3>18, <3>19 DEF Sound
    <3>21. \A m \in Nodes(y) \ {n, pre} : y.node[m] = x.node[m]
      <4>1. Nodes(y) = Nodes(x)  BY <1>1, <3>9 DEF Nodes
      <4> QED BY <1>4, <1>7, <2>4, <3>7, <4>1
    <3> QED BY <1>1, <2>a, <2>4, <3>1, <3>7, <3>8, <3>9, <3>14, <3>20, <3>21 DEF Dropped
  <2> QED BY <2>3, <2>4
<1> QED BY <1>8, <1>9

----------------------------------------
(* What the nodes hold. *)

\* Nodes that are left alone, or lose or get a next level, hold what they held.
LEMMA Shrinks ==
    ASSUME NEW x, NEW y, NEW g, NEW j, NEW k, NEW T, Holding(x, g, j, T),
           Keeps(x, y, j, k)
    PROVE  Holding(y, g, k, T) /\ SameRange(x, y, g, k)
<1>1. \A m \in Valid(y) : m # k =>
         /\ m \in Valid(x) \ {j}
         /\ y.node[m].base = x.node[m].base /\ y.node[m].limit = x.node[m].limit
         /\ \A s : Agrees(s, x.node[m]) => Agrees(s, y.node[m])
  BY DEF Keeps, SameContent, NodeFields, Agrees
<1>2. \A m \in Valid(y) : m # k => Lo(y, g, m) = Lo(x, g, m) /\ Hi(y, g, m) = Hi(x, g, m)
  BY <1>1 DEF Lo, Hi
<1>3. Content(y, g, k, T)
  <2> SUFFICES ASSUME NEW n \in Valid(y) \ {k}
               PROVE  /\ y.node[n].base <= y.node[n].limit /\ y.node[n].limit < Span(Level(g, n))
                      /\ \E s \in T : /\ s.left <= Lo(y, g, n) /\ Hi(y, g, n) <= s.right
                                      /\ Piece(s, Lo(y, g, n), Hi(y, g, n))
    BY DEF Content
  <2>1. n \in Valid(x) \ {j} /\ Lo(y, g, n) = Lo(x, g, n) /\ Hi(y, g, n) = Hi(x, g, n)
    BY <1>1, <1>2
  <2>2. /\ x.node[n].base <= x.node[n].limit /\ x.node[n].limit < Span(Level(g, n))
        /\ \E s \in T : /\ s.left <= Lo(x, g, n) /\ Hi(x, g, n) <= s.right
                        /\ Piece(s, Lo(x, g, n), Hi(x, g, n))
    BY <2>1 DEF Holding, Content
  <2> QED BY <1>1, <2>1, <2>2
<1>4. Disjoint(y, g, k)  BY <1>1, <1>2 DEF Holding, Disjoint
<1>5. First(y, g, k, T)  BY <1>1, <1>2 DEF Holding, First
<1>6. Paid(y, g, k, T)  BY <1>1, <1>2 DEF Holding, Paid
<1> QED BY <1>2, <1>3, <1>4, <1>5, <1>6 DEF Holding, SameRange

\* A new leaf with a part of a segment that no node holds.
LEMMA PutHolding ==
    ASSUME NEW x, NEW y, NEW g, NEW T, Holding(x, g, Root, T), NEW n, Level(g, n) \in Nat,
           Keeps(x, y, Root, n),
           y.node[n].base <= y.node[n].limit, y.node[n].limit < Span(Level(g, n)),
           NEW s \in T, Agrees(s, y.node[n]), s.left <= Lo(y, g, n), Hi(y, g, n) <= s.right,
           Lo(y, g, n) \in Nat, Hi(y, g, n) \in Nat, Lo(y, g, n) <= Hi(y, g, n),
           Piece(s, Lo(y, g, n), Hi(y, g, n)),
           \A m \in Valid(x) : /\ Lo(x, g, m) \in Nat /\ Hi(x, g, m) \in Nat /\ Lo(x, g, m) <= Hi(x, g, m)
                               /\ \/ Hi(x, g, m) < Lo(y, g, n)
                                  \/ Hi(y, g, n) < Lo(x, g, m),
           \A m \in Valid(x) : Level(g, n) < Level(g, m) => Cell(Level(g, n), Lo(x, g, m)) # Num(g, n),
           \A m \in Valid(x) : /\ Level(g, m) < Level(g, n)
                               /\ Cell(Level(g, m), Lo(y, g, n)) = Num(g, m)
                               => Lo(x, g, m) \notin s.left .. s.right
    PROVE  /\ Holding(y, g, Root, T)
           /\ SameRange(x, y, g, n)
<1>0. Segments(T) /\ Holding(y, g, n, T)
      /\ \A m \in Valid(y) : m # n => Lo(y, g, m) = Lo(x, g, m) /\ Hi(y, g, m) = Hi(x, g, m)
  <2>1. Holding(y, g, n, T) /\ SameRange(x, y, g, n)  BY Shrinks
  <2> QED BY <2>1 DEF Holding, SameRange
<1>k. \A m \in Valid(y) : m # n => m \in Valid(x)  BY DEF Keeps
<1>1. Root \notin Valid(y)  BY IdFacts DEF Valid, UsedIds, Ones, Ids, Root
<1>2. Content(y, g, Root, T)  BY <1>0 DEF Content, Holding
<1>3. Disjoint(y, g, Root)
  <2> SUFFICES ASSUME NEW a \in Valid(y), NEW b \in Valid(y), a # b
               PROVE  Hi(y, g, a) < Lo(y, g, b) \/ Hi(y, g, b) < Lo(y, g, a)
    BY DEF Disjoint
  <2>1. CASE a = n  BY <1>0, <1>k, <2>1
  <2>2. CASE b = n  BY <1>0, <1>k, <2>2
  <2>3. CASE a # n /\ b # n  BY <1>0, <2>3 DEF Holding, Disjoint
  <2> QED BY <2>1, <2>2, <2>3
<1>4. \A t \in T : Lo(y, g, n) \in t.left .. t.right => t = s
  <2>1. s.left \in Nat /\ s.right \in Nat  BY <1>0, SpanFacts DEF Segments, Addr
  <2>2. Lo(y, g, n) \in s.left .. s.right  BY <2>1
  <2> QED BY <1>0, <2>2, SameSegment
<1>5. First(y, g, Root, T)
  <2> SUFFICES ASSUME NEW t \in T, NEW a \in Valid(y), NEW b \in Valid(y),
                      Level(g, a) < Level(g, b), Cell(Level(g, a), Lo(y, g, b)) = Num(g, a),
                      Lo(y, g, a) \in t.left .. t.right, Lo(y, g, b) \in t.left .. t.right
               PROVE  Lo(y, g, a) < Lo(y, g, b)
    BY DEF First
  <2>1. CASE a = n
    <3>1. CASE b = n  BY <2>1, <3>1
    <3>2. CASE b # n  BY <1>0, <1>k, <2>1, <3>2
    <3> QED BY <3>1, <3>2
  <2>2. CASE b = n /\ a # n  BY <1>0, <1>k, <1>4, <2>2
  <2>3. CASE a # n /\ b # n  BY <1>0, <2>3 DEF Holding, First
  <2> QED BY <2>1, <2>2, <2>3
<1>6. Paid(y, g, Root, T)  BY <1>0, <1>4 DEF Holding, Paid
<1> QED BY <1>0, <1>2, <1>3, <1>5, <1>6 DEF Holding, SameRange

\* The root is not a node of a level block.
LEMMA RootNotValid == ASSUME NEW x PROVE Root \notin Valid(x)
  BY IdFacts DEF Valid, UsedIds, Ones, Ids, Root

\* A node in use is in the table.
LEMMA InNodes ==
    ASSUME NEW x, Shape(x), Counted(x)
    PROVE  /\ \A m \in Valid(x) : m \in Nodes(x) /\ m # Root /\ m \in UsedIds(x) \X Index /\ x.node[m].valid = 1
           /\ \A m \in Nodes(x) : m \in DOMAIN x.node
           /\ \A m \in Nodes(x) : m # Root => m \in UsedIds(x) \X Index
  BY UsedNode, RootNotValid DEF Nodes, Shape, Valid

\* A node gets another content.
LEMMA RewriteSound ==
    ASSUME NEW x, NEW g, NEW e, Sound(x, g, e), NEW n \in UsedIds(x) \X Index,
           NEW z, Rewritten(x, z, n), IsNode(z.node[n]), z.node[n].valid = x.node[n].valid,
           z.node[n].type = x.node[n].type, z.node[n].next = x.node[n].next,
           z.node[n].next_block = x.node[n].next_block
    PROVE  /\ Sound(z, g, e) /\ Valid(z) = Valid(x) /\ UsedIds(z) = UsedIds(x)
           /\ Nodes(z) = Nodes(x)
<1>0. Shape(x) /\ Counted(x) /\ Flagged(x) /\ Placed(x, g) /\ Linked(x, g) /\ Filled(x, e)
  BY DEF Sound
<1>1. n \in DOMAIN x.node /\ n # Root  BY <1>0, UsedNode
<1>2. UsedIds(z) = UsedIds(x) /\ Mapped(z) = Mapped(x) /\ Nodes(z) = Nodes(x)
  BY DEF Rewritten, UsedIds, Mapped, Nodes
<1>3. DOMAIN z.node = DOMAIN x.node /\ \A m \in DOMAIN x.node :
          /\ z.node[m].valid = x.node[m].valid /\ z.node[m].type = x.node[m].type
          /\ z.node[m].next = x.node[m].next /\ z.node[m].next_block = x.node[m].next_block
          /\ IsNode(z.node[m])
  BY <1>0, <1>1 DEF Rewritten, Shape
<1>4. \A m \in UsedIds(x) \X Index : m \in DOMAIN x.node  BY <1>0, UsedNode
<1>5. Valid(z) = Valid(x)  BY <1>2, <1>3, <1>4 DEF Valid
<1>6. Shape(z)
  <2>1. Root \in DOMAIN x.node  BY <1>0 DEF Shape
  <2> QED BY <1>0, <1>2, <1>3, <2>1 DEF Shape, Rewritten
<1>7. \A i \in Mapped(x) : ValidAt(z, i) = ValidAt(x, i)
  <2> SUFFICES ASSUME NEW i \in Mapped(x), NEW k \in Index
               PROVE  z.node[<<i, k>>].valid = x.node[<<i, k>>].valid
    BY DEF ValidAt
  <2> QED BY <1>0, <1>3 DEF Shape
<1>8. Counted(z)
  <2>1. \A i \in Mapped(z) : ValidAt(z, i) = ValidAt(x, i)  BY <1>2, <1>7
  <2>2. z.block = x.block  BY DEF Rewritten
  <2> QED BY <1>0, <1>2, <2>1, <2>2 DEF Counted
<1>9. Flagged(z)  BY <1>0, <1>3 DEF Flagged
<1>10. Placed(z, g)  BY <1>0, <1>2 DEF Placed
<1>11. Linked(z, g)
  <2>1. \A m \in Valid(x) : m \in DOMAIN x.node  BY <1>4 DEF Valid
  <2> QED BY <1>0, <1>2, <1>3, <1>5, <2>1 DEF Linked
<1>12. Filled(z, e)
  <2>1. \A i \in UsedIds(x) : ValidAt(z, i) = ValidAt(x, i)  BY <1>0, <1>7, UsedFacts
  <2> QED BY <1>0, <1>2, <2>1 DEF Filled
<1> QED BY <1>2, <1>5, <1>6, <1>8, <1>9, <1>10, <1>11, <1>12 DEF Sound

\* The same nodes hold the same.
LEMMA KeepsCov ==
    ASSUME NEW x, NEW y, NEW g, NEW j, NEW k, Keeps(x, y, j, k), SameRange(x, y, g, k),
           \A m \in Valid(x) : m # j => m \in Valid(y) /\ m # k
    PROVE  SameCov(x, y, g, j, k)
<1> SUFFICES ASSUME NEW a \in Addr PROVE Cov(y, g, k, a) <=> Cov(x, g, j, a)  BY DEF SameCov
<1>1. \A m \in Valid(y) : m # k => m \in Valid(x) /\ m # j /\ (Holds(y, g, m, a) <=> Holds(x, g, m, a))
  BY DEF Keeps, SameRange, Holds
<1> QED BY <1>1 DEF Cov

\* The next level of a node is one level down, and its nodes are numbered on
\* from there.
LEMMA NextLevel ==
    ASSUME NEW x, NEW g, NEW e, Sound(x, g, e), NEW n \in Valid(x), x.node[n].type = 0
    PROVE  /\ x.node[n].next \in UsedIds(x) /\ x.node[n].next # 0 /\ n[1] # x.node[n].next
           /\ g.lev[x.node[n].next] = Level(g, n) + 1 /\ g.num[x.node[n].next] = Num(g, n)
           /\ Level(g, n) \in Levels /\ Level(g, n) < LastLevel /\ Level(g, n) + 1 \in Levels
           /\ Level(g, n) \in Nat /\ Num(g, n) \in Nat
           /\ BlockOf(x.node[n].next) \in DOMAIN x.block
<1> DEFINE id == x.node[n].next
<1>0. Shape(x) /\ Counted(x) /\ Placed(x, g) /\ Linked(x, g)  BY DEF Sound
<1>1. n \in UsedIds(x) \X Index  BY DEF Valid
<1>2. id \in UsedIds(x) /\ g.lev[id] = Level(g, n) + 1 /\ g.num[id] = Num(g, n)
  BY <1>0 DEF Linked
<1>3. Level(g, n) \in Levels /\ Num(g, n) \in Nat /\ g.lev[id] \in Levels
  BY <1>0, <1>1, <1>2, NodePlace DEF Placed
<1>4. Level(g, n) \in Nat /\ Level(g, n) < LastLevel /\ Level(g, n) + 1 # 0
  BY <1>2, <1>3, LevelNat DEF Levels
<1>5. id # 0 /\ n[1] # id  BY <1>0, <1>2, <1>4 DEF Placed, Level
<1>6. BlockOf(id) \in DOMAIN x.block  BY <1>0, <1>2 DEF Counted
<1> QED BY <1>2, <1>3, <1>4, <1>5, <1>6

\* The content of the first valid node of the next level moves up.
LEMMA SwapInfo ==
    ASSUME NEW x, NEW g, NEW n, NEW T, NEW l, SwapPre(x, g, n, T, l), NEW k \in Valid(x),
           k[1] = x.node[n].next, \A i \in ValidAt(x, k[1]) : k[2] <= i,
           NEW z, z = Swapped(x, n, k, l)
    PROVE  /\ Inv(z, g, k, 0, T) /\ SameCov(x, z, g, n, k) /\ Valid(z) = Valid(x)
           /\ UsedIds(z) = UsedIds(x) /\ Nodes(z) = Nodes(x) /\ Rewritten(x, z, n)
           /\ z.node[n].type = 0 /\ z.node[n].next = k[1]
           /\ Level(g, k) = l + 1 /\ k # n
<1> DEFINE id == k[1]
<1>0. /\ Sound(x, g, 0) /\ Holding(x, g, n, T) /\ n \in Valid(x) /\ x.node[n].type = 0
      /\ Level(g, n) = l
  BY DEF SwapPre, Inv
<1>s. Shape(x) /\ Counted(x) /\ Placed(x, g) /\ Linked(x, g)  BY <1>0 DEF Sound
<1>h. Segments(T) /\ Content(x, g, n, T) /\ Disjoint(x, g, n) /\ First(x, g, n, T) /\ Paid(x, g, n, T)
  BY <1>0 DEF Holding
<1>1. /\ id \in UsedIds(x) /\ n[1] # id /\ g.lev[id] = l + 1 /\ g.num[id] = Num(g, n)
      /\ l \in Levels /\ l < LastLevel /\ l + 1 \in Levels /\ l \in Nat /\ Num(g, n) \in Nat
  BY <1>0, NextLevel
<1>2. /\ n \in UsedIds(x) \X Index /\ n \in DOMAIN x.node /\ IsNode(x.node[n]) /\ x.node[n].valid = 1
      /\ k \in UsedIds(x) \X Index /\ k \in DOMAIN x.node /\ IsNode(x.node[k])
      /\ k[2] \in Index /\ k # n /\ k = <<id, k[2]>>
  <2>1. n \in UsedIds(x) \X Index /\ k \in UsedIds(x) \X Index /\ x.node[n].valid = 1
    BY <1>0 DEF Valid
  <2> QED BY <1>s, <1>1, <2>1, UsedNode
<1>3. Level(g, k) = l + 1 /\ Num(g, k) = Num(g, n) * Fan + k[2]  BY <1>1 DEF Level, Num
<1> DEFINE d == k[2] * Span(l + 1)
<1>4. /\ d \in Nat /\ Num(g, n) * Span(l) \in Nat
      /\ Num(g, k) * Span(l + 1) = Num(g, n) * Span(l) + d
      /\ d + Span(l + 1) <= Span(l)
  BY <1>1, <1>2, <1>3, ChildStart
<1>5. /\ DOMAIN x = TableFields /\ Rewritten(x, z, n)
      /\ z.node[n] = ummu_swap_node_info(x.node[n], x.node[k], k[2], l)
  <2>1. DOMAIN x = TableFields  BY <1>s DEF Shape
  <2> QED BY <1>2, <2>1 DEF Swapped, Rewritten, TableFields
<1> HIDE DEF d
<1>6. /\ IsNode(z.node[n])
      /\ z.node[n].base = x.node[k].base + d /\ z.node[n].limit = x.node[k].limit + d
      /\ z.node[n].valid = x.node[n].valid /\ z.node[n].type = x.node[n].type
      /\ z.node[n].next = x.node[n].next /\ z.node[n].next_block = x.node[n].next_block
      /\ \A s : Agrees(s, x.node[k]) => Agrees(s, z.node[n])
  <2> DEFINE r == x.node[n]
             q == x.node[k]
             b == q.base + d
             e == q.limit + d
  <2>1. z.node[n] = [q EXCEPT !.base = b, !.limit = e, !.valid = r.valid, !.type = r.type,
                              !.next = r.next, !.next_block = r.next_block]
    BY <1>2, <1>5 DEF ummu_swap_node_info, d, IsNode, NodeFields
  <2>2. IsNode(r) /\ IsNode(q) /\ b \in Nat /\ e \in Nat  BY <1>2, <1>4 DEF IsNode
  <2> HIDE DEF r, q, b, e
  <2>3. /\ IsNode(z.node[n]) /\ z.node[n].base = b /\ z.node[n].limit = e
        /\ z.node[n].valid = r.valid /\ z.node[n].type = r.type
        /\ z.node[n].next = r.next /\ z.node[n].next_block = r.next_block
    BY <2>1, <2>2 DEF IsNode, NodeFields
  <2>4. \A s : Agrees(s, q) => Agrees(s, z.node[n])
    BY <2>1, <2>2 DEF IsNode, NodeFields, Agrees
  <2> QED BY <2>3, <2>4 DEF r, q, b, e
<1>7. /\ Sound(z, g, 0) /\ Valid(z) = Valid(x) /\ UsedIds(z) = UsedIds(x)
      /\ Nodes(z) = Nodes(x)
  BY <1>0, <1>2, <1>5, <1>6, RewriteSound
<1>8. \A m \in Valid(x) : m # n => z.node[m] = x.node[m]  BY <1>s, <1>5, InNodes DEF Rewritten
<1>9. /\ Lo(z, g, n) = Lo(x, g, k) /\ Hi(z, g, n) = Hi(x, g, k)
      /\ \A m \in Valid(x) : m # n => Lo(z, g, m) = Lo(x, g, m) /\ Hi(z, g, m) = Hi(x, g, m)
  <2>1. /\ x.node[k].base \in Nat /\ x.node[k].limit \in Nat  BY <1>2 DEF IsNode
  <2>2. Lo(z, g, n) = Num(g, n) * Span(l) + (x.node[k].base + d)
        /\ Hi(z, g, n) = Num(g, n) * Span(l) + (x.node[k].limit + d)
    BY <1>0, <1>6 DEF Lo, Hi
  <2>3. Lo(x, g, k) = (Num(g, n) * Span(l) + d) + x.node[k].base
        /\ Hi(x, g, k) = (Num(g, n) * Span(l) + d) + x.node[k].limit
    BY <1>3, <1>4 DEF Lo, Hi
  <2>4. Lo(z, g, n) = Lo(x, g, k) /\ Hi(z, g, n) = Hi(x, g, k)  BY <1>4, <2>1, <2>2, <2>3
  <2> QED BY <1>8, <2>4 DEF Lo, Hi
\* Where the content of a node of z was in x.
<1> DEFINE Old(m) == IF m = n THEN k ELSE m
<1>10. \A m \in Valid(z) : m # k =>
          /\ Old(m) \in Valid(x) /\ Old(m) # n
          /\ Lo(z, g, m) = Lo(x, g, Old(m)) /\ Hi(z, g, m) = Hi(x, g, Old(m))
          /\ \A s : Agrees(s, x.node[Old(m)]) => Agrees(s, z.node[m])
  BY <1>2, <1>6, <1>7, <1>8, <1>9
<1>11. \A m, q \in Valid(z) : m # k /\ q # k /\ m # q => Old(m) # Old(q)  OBVIOUS
<1> HIDE DEF Old
<1>12. Content(z, g, k, T)
  <2> SUFFICES ASSUME NEW m \in Valid(z), m # k
               PROVE  /\ z.node[m].base <= z.node[m].limit /\ z.node[m].limit < Span(Level(g, m))
                      /\ \E s \in T : /\ s.left <= Lo(z, g, m) /\ Hi(z, g, m) <= s.right
                                      /\ Piece(s, Lo(z, g, m), Hi(z, g, m))
    BY DEF Content
  <2>1. /\ x.node[Old(m)].base <= x.node[Old(m)].limit
        /\ x.node[Old(m)].limit < Span(Level(g, Old(m)))
        /\ \E s \in T : /\ s.left <= Lo(x, g, Old(m)) /\ Hi(x, g, Old(m)) <= s.right
                        /\ Piece(s, Lo(x, g, Old(m)), Hi(x, g, Old(m)))
    BY <1>h, <1>10 DEF Content
  <2>2. z.node[m].base <= z.node[m].limit /\ z.node[m].limit < Span(Level(g, m))
    <3>1. CASE m = n
      <4>1. Old(m) = k  BY <3>1 DEF Old
      <4>2. x.node[k].base \in Nat /\ x.node[k].limit \in Nat /\ Span(l) \in Nat /\ Span(l + 1) \in Nat
        BY <1>1, <1>2, SpanFacts DEF IsNode
      <4> QED BY <1>0, <1>3, <1>4, <1>6, <2>1, <3>1, <4>1, <4>2
    <3>2. CASE m # n  BY <1>7, <1>8, <2>1, <3>2 DEF Old
    <3> QED BY <3>1, <3>2
  <2> QED BY <1>10, <2>1, <2>2
<1>13. Disjoint(z, g, k)  BY <1>h, <1>10, <1>11 DEF Disjoint
<1>14. ASSUME NEW b \in Valid(x), b # n, b # k, l < Level(g, b), Cell(l, Lo(x, g, b)) = Num(g, n),
              NEW s \in T, Lo(x, g, k) \in s.left .. s.right, Lo(x, g, b) \in s.left .. s.right
       PROVE  Lo(x, g, k) < Lo(x, g, b)
  <2> DEFINE a == Lo(x, g, b)
             c == Cell(l + 1, a)
             i == c % Fan
             q == <<id, i>>
  <2>1. /\ a \in Addr /\ Holds(x, g, b, a) /\ Lo(x, g, k) \in Addr /\ Holds(x, g, k, Lo(x, g, k))
        /\ Cell(Level(g, b), a) = Num(g, b) /\ Cell(l + 1, Lo(x, g, k)) = Num(g, k)
    BY <1>s, <1>h, <1>2, <1>3, <1>14, NodeContent, SpanFacts DEF Addr
  <2>2. a \in Nat /\ Lo(x, g, k) \in Nat  BY <2>1, SpanFacts DEF Addr
  <2>3. c \in Nat /\ c \div Fan = Num(g, n) /\ i \in Index /\ c = Num(g, n) * Fan + i
    <3>1. c \in Nat  BY <1>1, <2>2, CellNat
    <3>2. c \div Fan = Num(g, n)  BY <1>1, <1>14, <2>2, CellUp
    <3> QED BY <3>1, <3>2, NumberOfNode
  <2>4. q \in UsedIds(x) \X Index /\ Level(g, q) = l + 1 /\ Num(g, q) = c
    BY <1>1, <2>3 DEF Level, Num
  <2>5. b \in UsedIds(x) \X Index /\ Level(g, b) \in Nat  BY <1>s, InNodes, NodePlace, LevelNat
  <2>6. q \in Valid(x) /\ (Level(g, b) = l + 1 => b = q)
    <3>1. CASE Level(g, b) = l + 1
      <4>1. b = q  BY <1>s, <2>1, <2>4, <2>5, <3>1, SamePlace
      <4> QED BY <4>1
    <3>2. CASE Level(g, b) # l + 1
      <4>1. l + 1 < Level(g, b)  BY <1>1, <1>14, <2>5, <3>2
      <4>2. q \in Valid(x)  BY <1>s, <2>1, <2>2, <2>4, <4>1, NodeAbove
      <4> QED BY <3>2, <4>2
    <3> QED BY <3>1, <3>2
  <2> HIDE DEF a, c, i
  <2>7. k[2] <= i  BY <2>3, <2>6 DEF Valid, ValidAt
  <2>8. CASE k[2] = i
    <3>1. q = k /\ Level(g, b) # l + 1  BY <1>2, <1>14, <2>6, <2>8
    <3>2. Level(g, k) < Level(g, b)  BY <1>1, <1>3, <1>14, <2>5, <3>1
    <3>3. Cell(Level(g, k), a) = Num(g, k)  BY <1>3, <2>4, <3>1 DEF c
    <3> QED BY <1>h, <1>2, <1>14, <3>2, <3>3 DEF First, a
  <2>9. CASE k[2] < i
    <3>1. Num(g, k) < c  BY <1>1, <1>2, <1>3, <2>3, <2>9, LevelNat DEF Index
    <3>2. CASE a <= Lo(x, g, k)
      <4>1. c <= Num(g, k)  BY <1>1, <2>1, <2>2, <3>2, CellMonotone DEF c
      <4>2. Num(g, k) \in Nat  BY <1>s, <1>2, NodePlace
      <4> QED BY <2>3, <3>1, <4>1, <4>2
    <3> QED BY <2>2, <3>2 DEF a
  <2> QED BY <1>2, <2>3, <2>7, <2>8, <2>9, LevelNat DEF Index
<1>15. First(z, g, k, T)
  <2> SUFFICES ASSUME NEW s \in T, NEW a \in Valid(z), NEW b \in Valid(z), a # k, b # k,
                      Level(g, a) < Level(g, b), Cell(Level(g, a), Lo(z, g, b)) = Num(g, a),
                      Lo(z, g, a) \in s.left .. s.right, Lo(z, g, b) \in s.left .. s.right
               PROVE  Lo(z, g, a) < Lo(z, g, b)
    BY DEF First
  <2>1. CASE a = n
    <3>1. b # n  BY <1>0, <1>1, <2>1
    <3> QED BY <1>0, <1>7, <1>9, <1>14, <2>1, <3>1
  <2>2. CASE b = n /\ a # n
    <3>1. Level(g, a) \in Nat  BY <1>s, <1>7, InNodes, NodePlace, LevelNat
    <3>2. Level(g, a) < Level(g, k)  BY <1>0, <1>1, <1>3, <2>2, <3>1
    <3> QED BY <1>h, <1>2, <1>7, <1>9, <2>2, <3>2 DEF First
  <2>3. CASE a # n /\ b # n  BY <1>h, <1>7, <1>9, <2>3 DEF First
  <2> QED BY <2>1, <2>2, <2>3
<1>16. Paid(z, g, k, T)  BY <1>h, <1>10 DEF Paid
<1>17. SameCov(x, z, g, n, k)
  <2> SUFFICES ASSUME NEW a \in Addr PROVE Cov(z, g, k, a) <=> Cov(x, g, n, a)  BY DEF SameCov
  <2>1. \A m \in Valid(z) : m # k => (Holds(z, g, m, a) <=> Holds(x, g, Old(m), a))
    BY <1>10 DEF Holds
  <2>2. \A q \in Valid(x) : q # n => \E m \in Valid(z) : m # k /\ Old(m) = q
    <3> SUFFICES ASSUME NEW q \in Valid(x), q # n PROVE \E m \in Valid(z) : m # k /\ Old(m) = q
      OBVIOUS
    <3>1. CASE q = k  BY <1>0, <1>2, <1>7, <3>1 DEF Old
    <3>2. CASE q # k  BY <1>7, <3>2 DEF Old
    <3> QED BY <3>1, <3>2
  <2> QED BY <1>10, <2>1, <2>2 DEF Cov
<1>18. Inv(z, g, k, 0, T)  BY <1>h, <1>7, <1>12, <1>13, <1>15, <1>16 DEF Inv, Holding
<1> QED BY <1>0, <1>2, <1>3, <1>5, <1>6, <1>7, <1>17, <1>18

\* SameContent is reflexive.
LEMMA SameContentSelf == ASSUME NEW r PROVE SameContent(r, r)
  BY DEF SameContent

\* What a child holds is in the cell of its parent.
LEMMA ChildCell ==
    ASSUME NEW x, NEW g, NEW e, Sound(x, g, e), NEW n \in Valid(x), x.node[n].type = 0,
           NEW k \in Valid(x), k[1] = x.node[n].next, NEW a \in Nat,
           Cell(Level(g, k), a) = Num(g, k)
    PROVE  Cell(Level(g, n), a) = Num(g, n)
<1> DEFINE l == Level(g, n)
<1>0. Shape(x) /\ Counted(x) /\ Placed(x, g) /\ k \in UsedIds(x) \X Index  BY DEF Sound, Valid
<1>1. /\ l \in Levels /\ l < LastLevel /\ g.lev[k[1]] = l + 1 /\ g.num[k[1]] = Num(g, n)
  BY NextLevel
<1>2. InBlock(g, k[1], a)  BY <1>0, NodeInBlock
<1> HIDE DEF l
<1>3. Cell(l, a) = Cell(l + 1, a) \div Fan  BY <1>1, CellUp
<1> QED BY <1>1, <1>2, <1>3 DEF InBlock, l

\* Dropping an entry leaves lvl alone.
LEMMA DropLevel ==
    ASSUME NEW x, DOMAIN x = TableFields, NEW id, NEW pre
    PROVE  DropEntry(x, id, pre).lvl = x.lvl
<1> DEFINE y == ummu_modify_entry_cnt(x, id, -1)
           z == ummu_free_level_block(y, pre)
<1>1. DOMAIN y = TableFields /\ y.lvl = x.lvl  BY DEF ummu_modify_entry_cnt, TableFields
<1> HIDE DEF y
<1>2. DOMAIN z = TableFields /\ z.lvl = y.lvl
  <2> DEFINE u == IF y.node[pre].next = 0 THEN y
                  ELSE [y EXCEPT !.block[BlockOf(y.node[pre].next)].level_cnt = @ - 1,
                                 !.bitmap = ummu_clear_bit(y.node[pre].next, @)]
             b == BlockOf(y.node[pre].next)
  <2>1. DOMAIN u = TableFields /\ u.lvl = y.lvl  BY <1>1 DEF TableFields
  <2>2. z = IF u.block[b].level_cnt = 0 /\ Cardinality(DOMAIN u.block) > 1
            THEN [u EXCEPT !.block = Without(@, {b}), !.node = Without(@, NodesOf(b))]
            ELSE u
    BY Zenon DEF ummu_free_level_block
  <2> HIDE DEF u, z
  <2> QED BY <2>1, <2>2 DEF TableFields
<1> HIDE DEF z
<1>3. DropEntry(x, id, pre) = IF y.block[BlockOf(id)].entry_cnt[id % Per] # 0 THEN y
          ELSE [z EXCEPT !.node[pre].type = 1, !.node[pre].next_block = 0, !.node[pre].next = 0]
  BY Zenon DEF DropEntry, y, z
<1> QED BY <1>1, <1>2, <1>3 DEF TableFields

\* What the function promises one level down.
SwapBelowOK == \A x, g, n, T : SwapPre(x, g, n, T, level + 1) =>
                   SwapPost(x, SwapBelow(x, n), g, n, T, level + 1)

\* ummu_swap_next_level_node keeps its promise if the level below does: the
\* content of the first node below moves up, level by level, and the leaf that
\* ends the chain goes, with its level block if it was the only node there.
THEOREM SwapCorrect ==
    ASSUME SwapBelowOK, level \in Nat, NEW x, NEW g, NEW n, NEW T, SwapPre(x, g, n, T, level)
    PROVE  SwapPost(x, ummu_swap_next_level_node(x, n), g, n, T, level)
<1> DEFINE y    == ummu_swap_next_level_node(x, n)
           id   == x.node[n].next
           kids == {i \in 0 .. Fan - 1 : x.node[<<id, i>>].valid = 1}
           k    == <<id, Min(kids)>>
           z    == Swapped(x, n, k, level)
           w    == [z EXCEPT !.node[k].valid = 0, !.node[k].nonce = 0]
<1>0. /\ Sound(x, g, 0) /\ n \in Valid(x) /\ x.node[n].type = 0 /\ Level(g, n) = level
  BY DEF SwapPre, Inv
<1>s. Shape(x) /\ Counted(x) /\ Placed(x, g) /\ Linked(x, g) /\ Filled(x, 0)  BY <1>0 DEF Sound
<1>1. /\ id \in UsedIds(x) /\ id # 0 /\ n[1] # id /\ level < LastLevel
      /\ BlockOf(id) \in DOMAIN x.block
  BY <1>0, NextLevel
<1>2. kids = ValidAt(x, id) /\ kids # {} /\ kids \subseteq Index
  BY <1>s, <1>1 DEF ValidAt, Index, Filled
<1>3. Min(kids) \in kids /\ \A i \in kids : Min(kids) <= i
  <2>1. kids \in SUBSET Nat  BY <1>2, LevelNat DEF Index
  <2> HIDE DEF kids
  <2> QED BY <1>2, <2>1, Least
<1>4. k \in Valid(x) /\ k[1] = id /\ k[2] = Min(kids)  BY <1>1, <1>2, <1>3 DEF Valid
<1>5. y = IF x.node[k].type = 0 THEN SwapBelow(z, k) ELSE DropEntry(w, id, n)
  <2>1. ~(level > LastLevel)  BY <1>1, LevelNat
  <2>2. y = IF level > LastLevel \/ BlockOf(id) \notin DOMAIN x.block THEN x
            ELSE IF kids = {} THEN x
            ELSE IF x.node[k].type = 0 THEN SwapBelow(z, k) ELSE DropEntry(w, id, n)
    BY Zenon DEF ummu_swap_next_level_node, Swapped
  <2> HIDE DEF y, kids, k, z, w
  <2> QED BY <1>1, <1>2, <2>1, <2>2
<1> HIDE DEF y, kids, k, z, w
<1>6. /\ Inv(z, g, k, 0, T) /\ SameCov(x, z, g, n, k) /\ Valid(z) = Valid(x)
      /\ UsedIds(z) = UsedIds(x) /\ Nodes(z) = Nodes(x) /\ Rewritten(x, z, n)
      /\ z.node[n].type = 0 /\ z.node[n].next = k[1]
      /\ Level(g, k) = level + 1 /\ k # n
  <2>1. \A i \in ValidAt(x, k[1]) : k[2] <= i  BY <1>2, <1>3, <1>4
  <2>2. k[1] = x.node[n].next  BY <1>4
  <2> QED BY <1>4, <2>1, <2>2, SwapInfo DEF z
<1>7. /\ Sound(z, g, 0) /\ Shape(z) /\ Counted(z) /\ Flagged(z) /\ Holding(z, g, k, T)
  BY <1>6 DEF Inv, Sound
<1>8. /\ z.ret = x.ret /\ \A m \in Nodes(x) : m # n => z.node[m] = x.node[m]
  <2>1. \A m \in Nodes(x) : m \in DOMAIN x.node  BY <1>s, InNodes
  <2> QED BY <1>6, <2>1 DEF Rewritten
<1>9. n \in Nodes(x) /\ k \in Nodes(x) /\ k # Root /\ n # Root  BY <1>0, <1>s, <1>4, InNodes
<1>l. z.lvl = x.lvl /\ DOMAIN z = TableFields
  <2>1. DOMAIN x = TableFields  BY <1>s DEF Shape
  <2> QED BY <2>1 DEF z, Swapped, TableFields
<1>o. ASSUME NEW q \in Valid(x) \ {n}, NEW a \in Addr, Holds(x, g, q, a), Cell(level, a) # Num(g, n)
      PROVE  /\ q \in Valid(z) /\ q # k /\ z.node[q] = x.node[q] /\ Holds(z, g, q, a)
             /\ Cell(level + 1, a) # Num(g, k)
  <2>1. a \in Nat  BY SpanFacts DEF Addr
  <2>2. Cell(level + 1, a) # Num(g, k)  BY <1>0, <1>4, <1>6, <1>o, <2>1, ChildCell
  <2>3. q # k
    <3>1. Segments(T) /\ Content(x, g, n, T)  BY DEF SwapPre, Inv, Holding
    <3> QED BY <1>s, <1>6, <1>o, <2>1, <2>2, <3>1, NodeContent
  <2>4. z.node[q] = x.node[q]  BY <1>s, <1>8, InNodes
  <2> QED BY <1>6, <1>o, <2>2, <2>3, <2>4 DEF Holds, Lo, Hi
<1>10. CASE x.node[k].type = 0
  <2>1. z.node[k].type = 0  BY <1>6, <1>8, <1>9, <1>10
  <2>2. SwapPre(z, g, k, T, level + 1)  BY <1>4, <1>6, <2>1 DEF SwapPre
  <2>3. SwapPost(z, y, g, k, T, level + 1)  BY <1>5, <1>10, <2>2 DEF SwapBelowOK
  <2>4. /\ Inv(y, g, Root, 0, T) /\ y.ret = z.ret
        /\ UsedIds(y) \subseteq UsedIds(z) /\ SameCov(z, y, g, k, Root) /\ Framed(z, y, g, level + 1, k)
        /\ Elsewhere(z, y, g, k, level + 1, Num(g, k))
    BY <2>3 DEF SwapPost
  <2>5. n \in Nodes(y) /\ y.node[n] = z.node[n]  BY <1>0, <1>6, <1>9, <2>4 DEF Framed
  <2>6. n \in Valid(y)
    <3>1. z.node[n].valid = 1 /\ n \in Nodes(y) /\ n # Root
      BY <1>0, <1>6, <1>7, <1>9, <2>5, InNodes
    <3> QED BY <2>5, <3>1 DEF Nodes, Valid
  <2>7. SameCov(x, y, g, n, Root)  BY <1>6, <2>4 DEF SameCov
  <2>8. Framed(x, y, g, level, n)
    <3> SUFFICES ASSUME NEW m \in Nodes(x), m # n, m = Root \/ Level(g, m) <= level
                 PROVE  m \in Nodes(y) /\ y.node[m] = x.node[m]
      BY DEF Framed
    <3>1. m # k /\ (m = Root \/ Level(g, m) <= level + 1)
      <4>1. CASE m = Root  BY <1>9, <4>1
      <4>2. CASE m # Root
        <5>1. Level(g, m) \in Nat /\ Level(g, m) <= level
          BY <1>s, <4>2, InNodes, NodePlace, LevelNat
        <5> QED BY <1>6, <5>1
      <4> QED BY <4>1, <4>2
    <3> QED BY <1>6, <1>8, <2>4, <3>1 DEF Framed
  <2>9. Elsewhere(x, y, g, n, level, Num(g, n))
    <3> SUFFICES ASSUME NEW q \in Valid(x) \ {n}, NEW a \in Addr,
                        Holds(x, g, q, a), Cell(level, a) # Num(g, n)
                 PROVE  q \in Valid(y) /\ SameContent(x.node[q], y.node[q])
      BY <1>l, <2>4 DEF Elsewhere
    <3> QED BY <1>o, <2>4 DEF Elsewhere
  <2> QED BY <1>6, <1>8, <2>4, <2>6, <2>7, <2>8, <2>9 DEF SwapPost, y
<1>11. CASE x.node[k].type # 0
  <2>1. z.node[k].type = 1 /\ z.node[k].valid = 1 /\ k \in Valid(z) /\ k \in DOMAIN z.node
        /\ IsNode(z.node[k]) /\ z.node[k].next_block = 0
    <3>1. k \in Valid(z) /\ k \in DOMAIN z.node /\ z.node[k].valid = 1 /\ k # Root
          /\ IsNode(z.node[k])
      BY <1>4, <1>6, <1>7, InNodes, UsedNode
    <3>2. z.node[k].type = 1  BY <1>6, <1>8, <1>9, <1>11, <3>1 DEF IsNode
    <3> QED BY <1>7, <3>1, <3>2 DEF Flagged
  <2>2. Rewritten(z, w, k) /\ w.node[k] = [z.node[k] EXCEPT !.valid = 0, !.nonce = 0]
    <3>1. DOMAIN z = TableFields  BY <1>7 DEF Shape
    <3> QED BY <2>1, <3>1 DEF w, Rewritten, TableFields
  <2>3. IsNode(w.node[k]) /\ w.node[k].valid = 0 /\ w.node[k].next_block = 0
    BY <2>1, <2>2 DEF IsNode, NodeFields
  <2>4. LeadsTo(z, n, k[1])  BY <1>0, <1>6 DEF LeadsTo
  <2>5. y = DropEntry(w, k[1], n)  BY <1>4, <1>5, <1>11
  <2>6. Sound(y, g, 0) /\ Dropped(z, y, k, n)  BY <1>7, <2>1, <2>2, <2>3, <2>4, <2>5, DropSound
  <2>7. /\ y.ret = z.ret /\ UsedIds(y) \subseteq UsedIds(z) /\ Valid(y) = Valid(z) \ {k}
        /\ \A m \in Nodes(y) : m # k /\ m # n => y.node[m] = z.node[m]
        /\ y.node[n] = z.node[n] \/ SameContent(z.node[n], y.node[n])
        /\ \A i \in UsedIds(z) : i # k[1] => i \in UsedIds(y)
    BY <1>9, <2>6 DEF Dropped
  <2>8. \A m \in Valid(y) : m \in Nodes(y) /\ m \in Valid(z) /\ m # k
    BY <2>6, <2>7, InNodes DEF Sound
  <2>9. Keeps(z, y, k, Root)  BY <2>7, <2>8, SameContentSelf DEF Keeps
  <2>10. Holding(y, g, Root, T) /\ SameRange(z, y, g, Root)  BY <1>7, <2>9, Shrinks
  <2>11. SameCov(z, y, g, k, Root)
    <3>1. \A m \in Valid(z) : m # k => m \in Valid(y) /\ m # Root  BY <2>7, RootNotValid
    <3> QED BY <2>9, <2>10, <3>1, KeepsCov
  <2>12. SameCov(x, y, g, n, Root)  BY <1>6, <2>11 DEF SameCov
  <2>13. n \in Valid(y)  BY <1>0, <1>6, <2>7
  <2>14. Framed(x, y, g, level, n)
    <3> SUFFICES ASSUME NEW m \in Nodes(x), m # n, m = Root \/ Level(g, m) <= level
                 PROVE  m \in Nodes(y) /\ y.node[m] = x.node[m]
      BY DEF Framed
    <3>1. m # k /\ (m # Root => m[1] # k[1])
      <4>1. CASE m = Root  BY <1>9, <4>1
      <4>2. CASE m # Root
        <5>1. Level(g, m) \in Nat /\ Level(g, m) <= level
          BY <1>s, <4>2, InNodes, NodePlace, LevelNat
        <5> QED BY <1>6, <5>1 DEF Level
      <4> QED BY <4>1, <4>2
    <3>2. m \in Nodes(y)  BY <1>6, <2>7, <3>1 DEF Nodes
    <3> QED BY <1>8, <2>7, <3>1, <3>2
  <2>15. y.lvl = x.lvl
    <3>1. DOMAIN w = TableFields /\ w.lvl = z.lvl  BY <1>l DEF w, TableFields
    <3> QED BY <1>l, <2>5, <3>1, DropLevel
  <2>16. Elsewhere(x, y, g, n, level, Num(g, n))
    <3> SUFFICES ASSUME NEW q \in Valid(x) \ {n}, NEW a \in Addr,
                        Holds(x, g, q, a), Cell(level, a) # Num(g, n)
                 PROVE  q \in Valid(y) /\ SameContent(x.node[q], y.node[q])
      BY <2>15 DEF Elsewhere
    <3>1. q \in Valid(z) /\ q # k /\ z.node[q] = x.node[q]  BY <1>o
    <3>2. q \in Valid(y) /\ q # Root  BY <2>7, <3>1, RootNotValid
    <3> QED BY <2>9, <3>1, <3>2 DEF Keeps
  <2> QED BY <1>6, <1>8, <2>6, <2>7, <2>10, <2>12, <2>13, <2>14, <2>16 DEF SwapPost, Inv, y
<1> QED BY <1>10, <1>11

\* A walk comes to a level block from one level up.
LEMMA WayIn ==
    ASSUME NEW x, NEW g, NEW e, Sound(x, g, e), NEW pre, NEW id, LeadsTo(x, pre, id)
    PROVE  /\ pre \in Nodes(x) /\ pre \in DOMAIN x.node /\ id \in UsedIds(x)
           /\ BlockOf(id) \in DOMAIN x.block /\ g.lev[id] \in Levels /\ g.lev[id] \in Nat
           /\ pre = Root => id = 0 /\ g.lev[id] = 0
           /\ pre # Root => /\ pre \in Valid(x) /\ x.node[pre].type = 0 /\ id # 0
                            /\ Level(g, pre) = g.lev[id] - 1 /\ Level(g, pre) \in Levels
                            /\ g.num[id] = Num(g, pre) /\ pre[1] # id
<1>0. Shape(x) /\ Counted(x) /\ Placed(x, g)  BY DEF Sound
<1>1. CASE pre = Root
  <2>1. id = 0 /\ Root \in DOMAIN x.node  BY <1>0, <1>1 DEF LeadsTo, Shape
  <2>2. 0 \in UsedIds(x) /\ BlockOf(0) \in DOMAIN x.block  BY <1>0 DEF Counted
  <2> QED BY <1>0, <1>1, <2>1, <2>2, LevelNat DEF Nodes, Placed
<1>2. CASE pre # Root
  <2>1. pre \in Valid(x) /\ x.node[pre].type = 0 /\ x.node[pre].next = id  BY <1>2 DEF LeadsTo
  <2>2. /\ id \in UsedIds(x) /\ id # 0 /\ pre[1] # id /\ BlockOf(id) \in DOMAIN x.block
        /\ g.lev[id] = Level(g, pre) + 1 /\ g.num[id] = Num(g, pre)
        /\ Level(g, pre) \in Levels /\ Level(g, pre) + 1 \in Levels /\ Level(g, pre) \in Nat
    BY <2>1, NextLevel
  <2>3. pre \in Nodes(x) /\ pre \in DOMAIN x.node  BY <1>0, <2>1, InNodes
  <2> QED BY <1>2, <2>1, <2>2, <2>3
<1> QED BY <1>1, <1>2

\* What the nodes other than n hold.
LEMMA CovOthers ==
    ASSUME NEW x, NEW g, NEW T, Inv(x, g, Root, 0, T), NEW n \in Valid(x), NEW a \in Addr
    PROVE  Cov(x, g, n, a) <=> Cov(x, g, Root, a) /\ ~Holds(x, g, n, a)
<1>0. Shape(x) /\ Counted(x) /\ Placed(x, g) /\ Segments(T) /\ Content(x, g, Root, T) /\ Disjoint(x, g, Root)
  BY DEF Inv, Sound, Holding
<1>1. Root \notin Valid(x)  BY RootNotValid
<1>2. ASSUME NEW m \in Valid(x), m # n, Holds(x, g, m, a), Holds(x, g, n, a) PROVE FALSE
  <2>1. /\ Lo(x, g, m) \in Addr /\ Hi(x, g, m) \in Addr
        /\ Lo(x, g, n) \in Addr /\ Hi(x, g, n) \in Addr
    BY <1>0, <1>1, NodeContent
  <2>2. Hi(x, g, n) < Lo(x, g, m) \/ Hi(x, g, m) < Lo(x, g, n)  BY <1>0, <1>1, <1>2 DEF Disjoint
  <2> QED BY <1>2, <2>1, <2>2, SpanFacts DEF Holds, Addr
<1> QED BY <1>1, <1>2 DEF Cov

\* ummu_table_clear_node keeps its promise.
THEOREM CutCorrect ==
    ASSUME SwapBelowOK, level \in Nat, NEW x, NEW g, NEW n, NEW pre, NEW T,
           CutPre(x, g, n, pre, T, level)
    PROVE  CutPost(x, ummu_table_clear_node(x, n, pre), g, n, pre, T, level)
<1> DEFINE y == ummu_table_clear_node(x, n, pre)
           z == [x EXCEPT !.node[n] = ZeroNode]
<1>0. /\ Inv(x, g, Root, 0, T) /\ n \in Valid(x) /\ Level(g, n) = level
      /\ LeadsTo(x, pre, n[1]) /\ x.node[pre].next = n[1]
  BY DEF CutPre, LeadsTo
<1>s. Sound(x, g, 0) /\ Holding(x, g, Root, T) /\ Shape(x) /\ Counted(x) /\ Placed(x, g) /\ Flagged(x)
  BY <1>0 DEF Inv, Sound
<1>1. /\ pre \in Nodes(x) /\ pre \in DOMAIN x.node /\ n[1] \in UsedIds(x)
      /\ BlockOf(n[1]) \in DOMAIN x.block /\ g.lev[n[1]] = level
      /\ pre # Root => /\ pre \in Valid(x) /\ Level(g, pre) = level - 1 /\ pre[1] # n[1]
  BY <1>0, <1>s, WayIn DEF Level
<1>2. y = IF x.node[n].type = 1 THEN DropEntry(z, n[1], pre) ELSE ummu_swap_next_level_node(x, n)
  <2>1. y = IF BlockOf(x.node[pre].next) \notin DOMAIN x.block THEN x
            ELSE IF x.node[n].type = 1 THEN DropEntry(z, x.node[pre].next, pre)
            ELSE ummu_swap_next_level_node(x, n)
    BY Zenon DEF ummu_table_clear_node
  <2> HIDE DEF y, z
  <2> QED BY <1>0, <1>1, <2>1
<1>3. /\ n \in UsedIds(x) \X Index /\ n \in DOMAIN x.node /\ n # Root /\ IsNode(x.node[n])
      /\ n \in Nodes(x) /\ n # pre
  <2>1. n \in UsedIds(x) \X Index /\ n \in Nodes(x)  BY <1>0, <1>s, InNodes
  <2>2. n \in DOMAIN x.node /\ n # Root /\ IsNode(x.node[n])  BY <1>s, <2>1, UsedNode
  <2> QED BY <1>1, <2>1, <2>2
<1>4. \A m \in Nodes(x) : m # Root => Level(g, m) \in Nat  BY <1>s, InNodes, NodePlace, LevelNat
<1>c. ASSUME NEW a \in Addr, Holds(x, g, n, a) PROVE Cell(level, a) = Num(g, n)
  <2>1. a \in Nat /\ Segments(T) /\ Content(x, g, Root, T) /\ n \in Valid(x) \ {Root}
    BY <1>0, <1>s, <1>3, SpanFacts DEF Addr, Holding
  <2> QED BY <1>0, <1>s, <1>c, <2>1, NodeContent
<1> HIDE DEF y, z
<1>5. CASE x.node[n].type = 0
  <2>1. SwapPre(x, g, n, T, level)
    <3>1. Keeps(x, x, Root, n)  BY SameContentSelf, RootNotValid DEF Keeps
    <3>2. Holding(x, g, n, T)  BY <1>s, <3>1, Shrinks
    <3> QED BY <1>0, <1>s, <1>5, <3>2 DEF SwapPre, Inv
  <2>2. SwapPost(x, y, g, n, T, level)  BY <1>2, <1>5, <2>1, SwapCorrect
  <2>3. /\ Inv(y, g, Root, 0, T) /\ y.ret = x.ret /\ n \in Valid(y)
        /\ UsedIds(y) \subseteq UsedIds(x) /\ SameCov(x, y, g, n, Root) /\ Framed(x, y, g, level, n)
        /\ Elsewhere(x, y, g, n, level, Num(g, n))
    BY <2>2 DEF SwapPost
  <2>4. \A a \in Addr : Cov(y, g, Root, a) <=> Cov(x, g, Root, a) /\ ~Holds(x, g, n, a)
    BY <1>0, <2>3, CovOthers DEF SameCov
  <2>5. pre \in Nodes(y) /\ y.node[pre] = x.node[pre]  BY <1>1, <1>3, <2>3 DEF Framed
  <2>6. Stays(x, y, pre)
    <3>1. ASSUME pre # Root PROVE pre \in Valid(y)
      <4>1. x.node[pre].valid = 1 /\ pre \in UsedIds(y) \X Index
        BY <1>1, <2>5, <3>1 DEF Valid, Nodes
      <4> QED BY <2>5, <4>1 DEF Valid
    <3> QED BY <2>5, <3>1, SameContentSelf DEF Stays
  <2>7. Framed(x, y, g, level - 1, pre)
    <3> SUFFICES ASSUME NEW m \in Nodes(x), m # pre, m = Root \/ Level(g, m) <= level - 1
                 PROVE  m \in Nodes(y) /\ y.node[m] = x.node[m]
      BY DEF Framed
    <3>1. m # n /\ (m = Root \/ Level(g, m) <= level)  BY <1>0, <1>3, <1>4
    <3> QED BY <2>3, <3>1 DEF Framed
  <2>8. n[1] \in UsedIds(y)  BY <2>3 DEF Valid
  <2>9. Elsewhere(x, y, g, Root, level, Num(g, n))  BY <1>c, <2>3 DEF Elsewhere
  <2> QED BY <1>5, <2>3, <2>4, <2>5, <2>6, <2>7, <2>8, <2>9 DEF CutPost, y
<1>6. CASE x.node[n].type # 0
  <2>1. x.node[n].type = 1  BY <1>3, <1>6 DEF IsNode
  <2>2. Rewritten(x, z, n) /\ z.node[n] = ZeroNode
    <3>1. DOMAIN x = TableFields  BY <1>s DEF Shape
    <3> QED BY <1>3, <3>1 DEF z, Rewritten, TableFields
  <2>3. IsNode(z.node[n]) /\ z.node[n].valid = 0 /\ z.node[n].next_block = 0
    BY <2>2, IdFacts DEF IsNode, NodeFields, ZeroNode
  <2>4. y = DropEntry(z, n[1], pre)  BY <1>2, <2>1
  <2>5. Sound(y, g, 0) /\ Dropped(x, y, n, pre)
    BY <1>0, <1>s, <2>1, <2>2, <2>3, <2>4, DropSound
  <2>6. /\ y.ret = x.ret /\ UsedIds(y) \subseteq UsedIds(x) /\ Valid(y) = Valid(x) \ {n}
        /\ \A m \in Nodes(y) : m # n /\ m # pre => y.node[m] = x.node[m]
        /\ \A i \in UsedIds(x) : i # n[1] => i \in UsedIds(y)
        /\ \/ UsedIds(y) = UsedIds(x) /\ y.node[pre] = x.node[pre]
           \/ /\ Alone(x, n) /\ y.node[pre].type = 1
              /\ pre # Root => SameContent(x.node[pre], y.node[pre])
    BY <2>5 DEF Dropped
  <2>7. \A m \in Valid(y) : m \in Nodes(y) /\ m \in Valid(x) /\ m # n /\ m # Root
    BY <2>5, <2>6, InNodes DEF Sound
  <2>8. \A m \in Valid(y) : /\ SameContent(x.node[m], y.node[m])
                            /\ x.node[m].type = 1 => y.node[m].type = 1
    BY <2>6, <2>7, SameContentSelf
  <2>9. Keeps(x, y, Root, Root) /\ Keeps(x, y, n, Root)  BY <2>7, <2>8 DEF Keeps
  <2>10. Holding(y, g, Root, T) /\ SameRange(x, y, g, Root)  BY <1>s, <2>9, Shrinks
  <2>11. SameCov(x, y, g, n, Root)
    <3>1. \A m \in Valid(x) : m # n => m \in Valid(y) /\ m # Root  BY <2>6, RootNotValid
    <3> QED BY <2>9, <2>10, <3>1, KeepsCov
  <2>12. \A a \in Addr : Cov(y, g, Root, a) <=> Cov(x, g, Root, a) /\ ~Holds(x, g, n, a)
    BY <1>0, <2>11, CovOthers DEF SameCov
  <2>13. Stays(x, y, pre)
    <3>1. CASE pre = Root  BY <3>1 DEF Stays, Nodes
    <3>2. CASE pre # Root  BY <1>1, <1>3, <2>6, <2>7, <2>8, <3>2 DEF Stays
    <3> QED BY <3>1, <3>2
  <2>14. Framed(x, y, g, level - 1, pre)
    <3> SUFFICES ASSUME NEW m \in Nodes(x), m # pre, m = Root \/ Level(g, m) <= level - 1
                 PROVE  m \in Nodes(y) /\ y.node[m] = x.node[m]
      BY DEF Framed
    <3>1. m # n /\ (m # Root => m[1] # n[1])
      <4>1. CASE m = Root  BY <1>3, <4>1
      <4>2. CASE m # Root  BY <1>0, <1>4, <4>2 DEF Level
      <4> QED BY <4>1, <4>2
    <3>2. m \in Nodes(y)  BY <2>6, <3>1 DEF Nodes
    <3> QED BY <2>6, <3>1, <3>2
  <2>15. OnlyGone(x, y, n)  BY <2>6, <2>8 DEF OnlyGone
  <2>16. y.lvl = x.lvl
    <3>1. DOMAIN x = TableFields  BY <1>s DEF Shape
    <3>2. DOMAIN z = TableFields /\ z.lvl = x.lvl  BY <3>1 DEF z, TableFields
    <3> QED BY <2>4, <3>2, DropLevel
  <2>17. Elsewhere(x, y, g, Root, level, Num(g, n))  BY <1>c, <2>6, <2>8, <2>16 DEF Elsewhere
  <2> QED BY <1>1, <2>1, <2>5, <2>6, <2>10, <2>12, <2>13, <2>14, <2>15, <2>17 DEF CutPost, Inv, y
<1> QED BY <1>5, <1>6

----------------------------------------
(* Clearing a range. *)

\* SameContent is transitive.
LEMMA SameContentTwice ==
    ASSUME NEW p, NEW q, NEW r, SameContent(p, q), SameContent(q, r) PROVE SameContent(p, r)
  BY DEF SameContent

\* The same content, the same addresses.
LEMMA SameHolds ==
    ASSUME NEW x, NEW y, NEW g, NEW n, SameContent(x.node[n], y.node[n])
    PROVE  /\ Lo(y, g, n) = Lo(x, g, n) /\ Hi(y, g, n) = Hi(x, g, n)
           /\ \A a : Holds(y, g, n, a) <=> Holds(x, g, n, a)
<1>1. y.node[n].base = x.node[n].base /\ y.node[n].limit = x.node[n].limit
  BY DEF SameContent, NodeFields
<1> QED BY <1>1 DEF Lo, Hi, Holds

\* A table with fewer nodes of s stays fresh for it.
LEMMA TrimFresh ==
    ASSUME NEW x, NEW y, NEW g, NEW s, Fresh(x, g, s), Trim(x, y, g, s)
    PROVE  Fresh(y, g, s)
<1> SUFFICES ASSUME NEW n \in Valid(y), Lo(y, g, n) \in s.left .. s.right
             PROVE  /\ y.node[n].type = 1
                    /\ \A a \in s.left .. s.right :
                          Cell(Level(g, n), a) = Num(g, n) => Holds(y, g, n, a)
  BY DEF Fresh
<1>1. n \in Valid(x) /\ SameContent(x.node[n], y.node[n]) /\ (x.node[n].type = 1 => y.node[n].type = 1)
  BY DEF Trim
<1>2. Lo(y, g, n) = Lo(x, g, n) /\ \A a : Holds(y, g, n, a) <=> Holds(x, g, n, a)
  BY <1>1, SameHolds
<1> QED BY <1>1, <1>2 DEF Fresh

\* Trim is transitive.
LEMMA TrimTwice ==
    ASSUME NEW x, NEW y, NEW z, NEW g, NEW s, Trim(x, y, g, s), Trim(y, z, g, s)
    PROVE  Trim(x, z, g, s)
<1>1. ASSUME NEW q \in Valid(z)
      PROVE  /\ q \in Valid(x) /\ SameContent(x.node[q], z.node[q])
             /\ x.node[q].type = 1 => z.node[q].type = 1
  <2>1. q \in Valid(y) /\ SameContent(y.node[q], z.node[q]) /\ (y.node[q].type = 1 => z.node[q].type = 1)
    BY DEF Trim
  <2>2. q \in Valid(x) /\ SameContent(x.node[q], y.node[q]) /\ (x.node[q].type = 1 => y.node[q].type = 1)
    BY <2>1 DEF Trim
  <2> QED BY <2>1, <2>2, SameContentTwice
<1>2. ASSUME NEW q \in Valid(x) PROVE q \in Valid(z) \/ Lo(x, g, q) \in s.left .. s.right
  <2>1. CASE q \notin Valid(y)  BY <2>1 DEF Trim
  <2>2. CASE q \in Valid(y)
    <3>1. q \in Valid(z) \/ Lo(y, g, q) \in s.left .. s.right  BY <2>2 DEF Trim
    <3>2. SameContent(x.node[q], y.node[q])  BY <2>2 DEF Trim
    <3> QED BY <3>1, <3>2, SameHolds
  <2> QED BY <2>1, <2>2
<1> QED BY <1>1, <1>2 DEF Trim

\* The facts about a segment that the proofs use most.
LEMMA SegmentFacts ==
    ASSUME NEW T, Segments(T), NEW s \in T
    PROVE  /\ s.left \in Nat /\ s.right \in Nat /\ s.left \in Addr /\ s.right \in Addr
           /\ s.left <= s.right /\ \A a \in s.left .. s.right : a \in Addr /\ a \in Nat
  BY SpanFacts DEF Segments, Addr

\* What s touches at a level it touches at every level above.
LEMMA TouchedUp ==
    ASSUME NEW k \in Levels, NEW l \in Levels, l <= k, NEW T, Segments(T), NEW s \in T,
           NEW a \in Addr, Touched(s, k, a)
    PROVE  Touched(s, l, a)
<1>1. PICK p \in s.left .. s.right : Cell(k, a) = Cell(k, p)  BY DEF Touched
<1>2. p \in Nat /\ a \in Nat  BY SegmentFacts, SpanFacts DEF Addr
<1> QED BY <1>1, <1>2, CellNested DEF Touched

\* Unmoved is transitive.
LEMMA UnmovedTwice ==
    ASSUME NEW x, NEW y, NEW z, NEW g, NEW T, Segments(T), NEW s \in T, x.lvl \in Levels,
           Unmoved(x, y, g, s), Unmoved(y, z, g, s)
    PROVE  Unmoved(x, z, g, s)
<1>0. z.lvl \in Levels /\ y.lvl \in Levels /\ z.lvl <= y.lvl /\ y.lvl <= x.lvl  BY DEF Unmoved
<1>1. z.lvl \in Levels /\ y.lvl \in Levels /\ z.lvl <= y.lvl /\ z.lvl <= x.lvl
  BY <1>0, LevelInt
<1> SUFFICES ASSUME NEW n \in Valid(x), NEW a \in Addr, Holds(x, g, n, a), ~Touched(s, z.lvl, a)
             PROVE  n \in Valid(z) /\ SameContent(x.node[n], z.node[n])
  BY <1>1 DEF Unmoved
<1>2. ~Touched(s, y.lvl, a)  BY <1>1, TouchedUp
<1>3. n \in Valid(y) /\ SameContent(x.node[n], y.node[n])  BY <1>2 DEF Unmoved
<1>4. Holds(y, g, n, a)  BY <1>3, SameHolds
<1>5. n \in Valid(z) /\ SameContent(y.node[n], z.node[n])  BY <1>3, <1>4 DEF Unmoved
<1> QED BY <1>3, <1>5, SameContentTwice

\* Nothing is cleared.
LEMMA ClearedNone ==
    ASSUME NEW x, NEW y, NEW g, NEW s, NEW pre, NEW aLo \in Int, NEW aHi \in Int, aHi < aLo, NEW T, NEW l,
           Inv(x, g, Root, 0, T), Alike(x, y), pre \in Nodes(x), pre # Root => pre \in Valid(x),
           y.lvl \in Levels, y.lvl <= x.lvl
    PROVE  Cleared(x, y, g, s, pre, aLo, aHi, T, l)
<1>0. DOMAIN y = TableFields /\ y.node = x.node /\ y.bitmap = x.bitmap /\ y.block = x.block
  BY DEF Alike
<1>1. /\ UsedIds(y) = UsedIds(x) /\ Valid(y) = Valid(x) /\ Nodes(y) = Nodes(x) /\ Mapped(y) = Mapped(x)
      /\ \A i : ValidAt(y, i) = ValidAt(x, i)
  BY <1>0 DEF UsedIds, Valid, Nodes, Mapped, ValidAt
<1>2. Sound(y, g, 0)
  <2>1. Shape(y)  BY <1>0, <1>1 DEF Inv, Sound, Shape
  <2>2. Counted(y)  BY <1>0, <1>1 DEF Inv, Sound, Counted
  <2>3. Flagged(y) /\ Placed(y, g)  BY <1>0, <1>1 DEF Inv, Sound, Flagged, Placed
  <2>4. Linked(y, g) /\ Filled(y, 0)  BY <1>0, <1>1 DEF Inv, Sound, Linked, Filled
  <2> QED BY <2>1, <2>2, <2>3, <2>4 DEF Sound
<1>3. Keeps(x, y, Root, Root)  BY <1>0, <1>1, RootNotValid, SameContentSelf DEF Keeps
<1>4. Holding(y, g, Root, T) /\ SameRange(x, y, g, Root)  BY <1>3, Shrinks DEF Inv
<1>5. SameCov(x, y, g, Root, Root)  BY <1>1, <1>3, <1>4, KeepsCov
<1>6. Trim(x, y, g, s)  BY <1>0, <1>1, SameContentSelf DEF Trim
<1>7. Framed(x, y, g, l - 1, pre) /\ Stays(x, y, pre)
  BY <1>0, <1>1, SameContentSelf DEF Framed, Stays
<1>8. \A a \in Addr : ~(aLo <= a /\ a <= aHi)  BY SpanFacts DEF Addr
<1>9. RootOpen(x, y, g)  BY <1>0 DEF RootOpen
<1>10. Unmoved(x, y, g, s)  BY <1>0, <1>1, SameContentSelf DEF Unmoved
<1> QED BY <1>1, <1>2, <1>4, <1>5, <1>6, <1>7, <1>8, <1>9, <1>10 DEF Cleared, Inv, SameCov

\* One part is cleared after another.
LEMMA ClearedTwice ==
    ASSUME NEW x, NEW y, NEW z, NEW g, NEW s, NEW pre, NEW T, NEW l,
           NEW a \in Int, NEW b \in Int, NEW c \in Int, a <= b + 1, b <= c, s \in T, x.lvl \in Levels,
           Cleared(x, y, g, s, pre, a, b, T, l), Cleared(y, z, g, s, pre, b + 1, c, T, l)
    PROVE  Cleared(x, z, g, s, pre, a, c, T, l)
<1>1. UsedIds(z) \subseteq UsedIds(x)  BY DEF Cleared
<1>2. \A o \in Addr : Cov(z, g, Root, o) <=> Cov(x, g, Root, o) /\ ~(a <= o /\ o <= c)
  BY SpanFacts DEF Cleared, Addr
<1>3. Framed(x, z, g, l - 1, pre)  BY DEF Cleared, Framed
<1>4. Stays(x, z, pre)  BY SameContentTwice DEF Cleared, Stays
<1>5. ASSUME Fresh(x, g, s) PROVE Trim(x, z, g, s)
  <2>1. Trim(x, y, g, s)  BY <1>5 DEF Cleared
  <2>2. Fresh(y, g, s)  BY <1>5, <2>1, TrimFresh
  <2>3. Trim(y, z, g, s)  BY <2>2 DEF Cleared
  <2> QED BY <2>1, <2>3, TrimTwice
<1>6. RootOpen(x, z, g)
  <2>1. \A o \in Addr : Cov(z, g, Root, o) => Cov(y, g, Root, o)  BY DEF Cleared
  <2> QED BY <2>1 DEF Cleared, RootOpen
<1>7. Unmoved(x, z, g, s)
  <2>1. Segments(T) /\ Unmoved(x, y, g, s) /\ Unmoved(y, z, g, s)  BY DEF Cleared, Inv, Holding
  <2> QED BY <2>1, UnmovedTwice
<1> QED BY <1>1, <1>2, <1>3, <1>4, <1>5, <1>6, <1>7 DEF Cleared

\* A node with an address of s holds a part of s and nothing else.
LEMMA HoldsPart ==
    ASSUME NEW x, NEW g, NEW T, Inv(x, g, Root, 0, T), NEW s \in T, NEW n \in Valid(x),
           NEW a \in s.left .. s.right, Holds(x, g, n, a)
    PROVE  /\ Lo(x, g, n) \in s.left .. s.right /\ Hi(x, g, n) \in s.left .. s.right
           /\ Lo(x, g, n) <= a /\ a <= Hi(x, g, n)
           /\ Piece(s, Lo(x, g, n), Hi(x, g, n))
           /\ Cell(Level(g, n), a) = Num(g, n) /\ Cell(Level(g, n), Lo(x, g, n)) = Num(g, n)
           /\ Cell(Level(g, n), Hi(x, g, n)) = Num(g, n)
           /\ Holds(x, g, n, Lo(x, g, n)) /\ Holds(x, g, n, Hi(x, g, n))
<1>0. /\ Shape(x) /\ Counted(x) /\ Placed(x, g) /\ Segments(T) /\ Content(x, g, Root, T)
      /\ n \in Valid(x) \ {Root}
  BY RootNotValid DEF Inv, Sound, Holding
<1>1. /\ Lo(x, g, n) \in Addr /\ Hi(x, g, n) \in Addr /\ Lo(x, g, n) <= Hi(x, g, n)
      /\ \A o \in Nat : Holds(x, g, n, o) => o \in Addr /\ Cell(Level(g, n), o) = Num(g, n)
      /\ Holds(x, g, n, Lo(x, g, n)) /\ Holds(x, g, n, Hi(x, g, n))
  BY <1>0, NodeContent
<1>2. PICK t \in T : /\ t.left <= Lo(x, g, n) /\ Hi(x, g, n) <= t.right
                     /\ Piece(t, Lo(x, g, n), Hi(x, g, n))
  BY <1>0, NodeContent
<1>3. /\ t.left \in Nat /\ t.right \in Nat /\ a \in Nat /\ Lo(x, g, n) \in Nat /\ Hi(x, g, n) \in Nat
  BY <1>0, <1>1, SegmentFacts, SpanFacts DEF Addr
<1>4. Lo(x, g, n) <= a /\ a <= Hi(x, g, n)  BY DEF Holds
<1>5. a \in t.left .. t.right  BY <1>2, <1>3, <1>4
<1>6. s = t  BY <1>0, <1>5, SameSegment
<1>7. Lo(x, g, n) \in s.left .. s.right /\ Hi(x, g, n) \in s.left .. s.right
  BY <1>1, <1>2, <1>3, <1>6
<1> QED BY <1>1, <1>2, <1>3, <1>4, <1>6, <1>7

\* The node of level l on the way to an address that a node from level l on holds.
LEMMA OnTheWay ==
    ASSUME NEW x, NEW y, NEW g, NEW e, NEW T, Sound(x, g, e), Inv(y, g, Root, 0, T),
           UsedIds(y) \subseteq UsedIds(x),
           NEW q \in Valid(y), NEW a \in Nat, Holds(y, g, q, a),
           NEW n \in UsedIds(x) \X Index, Level(g, n) <= Level(g, q),
           Cell(Level(g, n), a) = Num(g, n)
    PROVE  n \in Valid(y) /\ (q # n => y.node[n].type = 0 /\ Level(g, n) < Level(g, q))
<1>0. /\ Shape(x) /\ Counted(x) /\ Placed(x, g)
      /\ Sound(y, g, 0) /\ Shape(y) /\ Counted(y) /\ Placed(y, g) /\ Linked(y, g)
      /\ Segments(T) /\ Content(y, g, Root, T) /\ q \in Valid(y) \ {Root}
  BY RootNotValid DEF Inv, Sound, Holding
<1>1. Cell(Level(g, q), a) = Num(g, q)  BY <1>0, NodeContent
<1>2. /\ q \in UsedIds(y) \X Index /\ q \in UsedIds(x) \X Index /\ q[1] \in UsedIds(y)
      /\ Level(g, q) \in Nat /\ Level(g, n) \in Nat /\ Level(g, n) \in Levels
  <2>1. q \in UsedIds(y) \X Index  BY DEF Valid
  <2>2. q \in UsedIds(x) \X Index  BY <2>1
  <2> QED BY <1>0, <2>1, <2>2, NodePlace, LevelNat
<1>3. CASE Level(g, q) = Level(g, n)
  <2>1. q = n  BY <1>0, <1>1, <1>2, <1>3, SamePlace
  <2> QED BY <2>1
<1>4. CASE Level(g, n) < Level(g, q)
  <2>1. InBlock(g, q[1], a)  BY <1>0, <1>1, <1>2, NodeInBlock
  <2>2. PICK p \in Valid(y) : /\ y.node[p].type = 0
                              /\ Level(g, p) = Level(g, n) /\ Num(g, p) = Cell(Level(g, n), a)
    BY <1>0, <1>2, <1>4, <2>1, Up DEF Level
  <2>3. p \in UsedIds(x) \X Index  BY <2>2 DEF Valid
  <2>4. p = n  BY <1>0, <2>2, <2>3, SamePlace
  <2> QED BY <1>4, <2>2, <2>4
<1> QED BY <1>2, <1>3, <1>4

\* The root loses its next level only with the last node.
LEMMA CutRoot ==
    ASSUME NEW x, NEW y, NEW g, NEW n, NEW pre, NEW T, NEW l,
           CutPre(x, g, n, pre, T, l), CutPost(x, y, g, n, pre, T, l)
    PROVE  RootOpen(x, y, g)
<1>0. /\ Inv(x, g, Root, 0, T) /\ n \in Valid(x) /\ Level(g, n) = l /\ LeadsTo(x, pre, n[1])
      /\ Inv(y, g, Root, 0, T) /\ UsedIds(y) \subseteq UsedIds(x)
      /\ Sound(x, g, 0) /\ Shape(x) /\ Counted(x) /\ Placed(x, g)
  BY DEF CutPre, CutPost, Inv, Sound
<1>1. CASE pre # Root
  <2>1. Root \in Nodes(x)  BY DEF Nodes
  <2>2. y.node[Root] = x.node[Root]  BY <1>1, <2>1 DEF CutPost, Framed
  <2> QED BY <2>2 DEF RootOpen
<1>2. CASE pre = Root /\ y.node[pre] = x.node[pre]  BY <1>2 DEF RootOpen
<1>3. CASE pre = Root /\ y.node[pre] # x.node[pre]
  <2>1. x.node[n].type = 1 /\ Alone(x, n) /\ OnlyGone(x, y, n)  BY <1>3 DEF CutPost
  <2>2. n[1] = 0 /\ l = 0  BY <1>0, <1>3, WayIn DEF Level
  <2> SUFFICES ASSUME NEW a \in Addr, Cov(y, g, Root, a) PROVE FALSE  BY DEF RootOpen
  <2>3. PICK q \in Valid(y) : Holds(y, g, q, a)  BY DEF Cov
  <2>4. q \in Valid(x) /\ q # n /\ Holds(x, g, q, a)  BY <2>1, <2>3, SameHolds DEF OnlyGone
  <2> DEFINE p == <<0, Cell(0, a)>>
  <2>5. a \in Nat /\ Cell(0, a) \in Index /\ p \in UsedIds(x) \X Index
    BY <1>0, CellTop, UsedFacts
  <2>6. Level(g, p) = 0 /\ Num(g, p) = Cell(0, a)
    <3>1. g.lev[0] = 0 /\ g.num[0] = 0  BY <1>0 DEF Placed
    <3>2. 0 * Fan = 0 /\ Cell(0, a) \in Nat  BY <2>5, LevelNat DEF Index
    <3> QED BY <3>1, <3>2 DEF Level, Num
  <2>7. Level(g, q) \in Nat /\ q \in UsedIds(x) \X Index
    BY <1>0, <2>4, InNodes, NodePlace, LevelNat
  <2>8. p \in Valid(x) /\ (q # p => x.node[p].type = 0)
    <3> HIDE DEF p
    <3> QED BY <1>0, <2>4, <2>5, <2>6, <2>7, OnTheWay
  <2>9. p = n
    <3>1. p[1] = n[1]  BY <2>2
    <3> HIDE DEF p
    <3> QED BY <2>1, <2>8, <3>1 DEF Alone
  <2> QED BY <2>1, <2>4, <2>8, <2>9
<1> QED BY <1>1, <1>2, <1>3

\* What ummu_table_clear_node clears.
LEMMA CutCleared ==
    ASSUME NEW x, NEW y, NEW g, NEW s, NEW n, NEW pre, NEW T, NEW l,
           CutPre(x, g, n, pre, T, l), CutPost(x, y, g, n, pre, T, l), s \in T,
           Lo(x, g, n) \in s.left .. s.right, x.lvl \in Levels, Near(x, g, s, n)
    PROVE  Cleared(x, y, g, s, pre, Lo(x, g, n), Hi(x, g, n), T, l)
<1>1. ASSUME Fresh(x, g, s) PROVE Trim(x, y, g, s)
  <2>1. n \in Valid(x) /\ x.node[n].type = 1  BY <1>1 DEF CutPre, Fresh
  <2>2. OnlyGone(x, y, n)  BY <2>1 DEF CutPost
  <2>3. \A q \in Valid(y) : /\ q \in Valid(x) /\ SameContent(x.node[q], y.node[q])
                            /\ x.node[q].type = 1 => y.node[q].type = 1
    BY <2>2 DEF OnlyGone
  <2>4. \A q \in Valid(x) : q \in Valid(y) \/ Lo(x, g, q) \in s.left .. s.right
    BY <2>2 DEF OnlyGone
  <2> QED BY <2>3, <2>4 DEF Trim
<1>2. \A a \in Addr : Cov(y, g, Root, a) <=>
          Cov(x, g, Root, a) /\ ~(Lo(x, g, n) <= a /\ a <= Hi(x, g, n))
  BY DEF CutPost, Holds
<1>3. RootOpen(x, y, g)  BY CutRoot
<1>4. Unmoved(x, y, g, s)
  <2>1. /\ y.lvl = x.lvl /\ Level(g, n) = l /\ n \in Valid(x)
        /\ Segments(T) /\ Shape(x) /\ Counted(x) /\ Placed(x, g) /\ Content(x, g, Root, T)
    BY DEF CutPre, CutPost, Elsewhere, Inv, Sound, Holding
  <2>2. /\ l \in Levels /\ Lo(x, g, n) \in Nat /\ Cell(l, Lo(x, g, n)) = Num(g, n)
    <3>1. n \in UsedIds(x) \X Index /\ n \in Valid(x) \ {Root}  BY <2>1, RootNotValid DEF Valid
    <3>2. Lo(x, g, n) \in Addr /\ Holds(x, g, n, Lo(x, g, n)) /\ Lo(x, g, n) \in Nat
      BY <2>1, <3>1, NodeContent, SpanFacts DEF Addr
    <3> QED BY <2>1, <3>1, <3>2, NodeContent, NodePlace
  <2>3. ASSUME NEW a \in Addr, Cell(l, a) = Num(g, n) PROVE Touched(s, x.lvl, a)
    <3>1. CASE x.lvl <= l
      <4>1. Touched(s, l, a)  BY <2>2, <2>3 DEF Touched
      <4> QED BY <2>1, <2>2, <3>1, <4>1, TouchedUp
    <3>2. CASE a \in s.left .. s.right  BY <3>2 DEF Touched
    <3> QED BY <2>1, <2>3, <3>1, <3>2 DEF Near
  <2>4. ASSUME NEW q \in Valid(x), NEW a \in Addr, Holds(x, g, q, a), Cell(l, a) # Num(g, n)
        PROVE  q \in Valid(y) /\ SameContent(x.node[q], y.node[q])
    <3>1. q \in Valid(x) \ {Root}  BY RootNotValid
    <3> QED BY <2>4, <3>1 DEF CutPost, Elsewhere
  <2>5. x.lvl <= x.lvl  BY LevelInt
  <2> QED BY <2>1, <2>3, <2>4, <2>5 DEF Unmoved
<1> QED BY <1>1, <1>2, <1>3, <1>4 DEF Cleared, CutPost

\* Clearing leaves the content of the nodes above as it is.
LEMMA UpperKept ==
    ASSUME NEW x, NEW y, NEW g, NEW s, NEW pre, NEW id, NEW aLo, NEW aHi, NEW T, NEW l \in Nat,
           Inv(x, g, Root, 0, T), LeadsTo(x, pre, id),
           Cleared(x, y, g, s, pre, aLo, aHi, T, l), NEW q \in Valid(y), Level(g, q) < l
    PROVE  q \in Valid(x) /\ SameContent(x.node[q], y.node[q])
<1>0. Shape(x) /\ Counted(x) /\ Shape(y) /\ Counted(y) /\ Placed(x, g)
  BY DEF Cleared, Inv, Sound
<1>1. q \in Nodes(x) /\ q # Root /\ q \in UsedIds(x) \X Index /\ y.node[q].valid = 1
  BY <1>0, InNodes DEF Cleared, Nodes, Valid
<1>2. CASE q = pre  BY <1>1, <1>2 DEF Cleared, Stays, LeadsTo
<1>3. CASE q # pre
  <2>0. Level(g, q) \in Nat  BY <1>0, <1>1, NodePlace, LevelNat
  <2>1. Level(g, q) <= l - 1  BY <2>0
  <2>2. y.node[q] = x.node[q]  BY <1>1, <1>3, <2>1 DEF Cleared, Framed
  <2> QED BY <1>1, <2>2, SameContentSelf DEF Valid
<1> QED BY <1>2, <1>3

\* The rest of the range can be cleared, if the level block is still there.
LEMMA ClearRestPre ==
    ASSUME NEW x, NEW y, NEW g, NEW s, NEW pre, NEW id, NEW aLo, NEW aHi, NEW m, NEW T, NEW l \in Nat,
           ClearPre(x, g, s, pre, id, aLo, aHi, m, T, l), NEW b \in Int, aLo <= b + 1, b < aHi, b <= m,
           Cleared(x, y, g, s, pre, aLo, b, T, l), y.ret = "ok", LeadsTo(y, pre, id),
           y.node[pre].type = 0
    PROVE  ClearPre(y, g, s, pre, id, b + 1, aHi, m, T, l)
<1>0. /\ Inv(x, g, Root, 0, T) /\ Inv(y, g, Root, 0, T) /\ s \in T /\ Segments(T) /\ g.lev[id] = l
      /\ LeadsTo(x, pre, id) /\ UsedIds(y) \subseteq UsedIds(x)
      /\ \A a \in s.left .. s.right : Cov(x, g, Root, a) <=> aLo <= a /\ a <= m
      /\ RangeIn(g, s, id, aLo, aHi) /\ NoUpper(x, g, l, aLo, aHi) /\ y.lvl \in Levels
  BY DEF ClearPre, Cleared, Unmoved, Inv, Holding
<1>1. /\ aLo \in Nat /\ aHi \in Nat /\ s.left \in Nat /\ s.right \in Nat /\ m \in Int
      /\ s.left <= aLo /\ aHi <= s.right /\ m <= s.right /\ aLo - 1 <= m
      /\ \A a \in s.left .. s.right : a \in Addr
  BY <1>0, SegmentFacts DEF RangeIn, ClearPre
<1>2. RangeIn(g, s, id, b + 1, aHi)
  <2>1. b + 1 \in s.left .. s.right /\ b + 1 <= aHi  BY <1>1
  <2>2. InBlock(g, id, b + 1)
    <3>1. l \in Levels  BY <1>0, WayIn DEF Inv
    <3> DEFINE c(a) == Cell(l, a)
    <3>2. c(aLo) \in Nat /\ c(b + 1) \in Nat /\ c(aHi) \in Nat /\ c(aLo) <= c(b + 1) /\ c(b + 1) <= c(aHi)
      BY <1>1, <3>1, CellNat, CellMonotone
    <3>3. c(aLo) \div Fan = g.num[id] /\ c(aHi) \div Fan = g.num[id]
      BY <1>0 DEF RangeIn, InBlock
    <3> HIDE DEF c
    <3>4. /\ c(aLo) \div Fan <= c(b + 1) \div Fan /\ c(b + 1) \div Fan <= c(aHi) \div Fan
          /\ c(aLo) \div Fan \in Nat /\ c(b + 1) \div Fan \in Nat
      BY <3>2, LevelNat, QuotientMonotone, Division
    <3>5. c(b + 1) \div Fan = g.num[id]  BY <3>3, <3>4
    <3> QED BY <1>0, <3>5 DEF InBlock, c
  <2> QED BY <1>0, <2>1, <2>2 DEF RangeIn
<1>3. ASSUME NEW a \in s.left .. s.right
      PROVE  Cov(y, g, Root, a) <=> b + 1 <= a /\ a <= m
  <2>1. Cov(y, g, Root, a) <=> Cov(x, g, Root, a) /\ ~(aLo <= a /\ a <= b)  BY <1>1 DEF Cleared
  <2> QED BY <1>0, <1>1, <2>1
<1>4. NoUpper(y, g, l, b + 1, aHi)
  <2> SUFFICES ASSUME NEW n \in Valid(y), Level(g, n) < l, NEW a \in b + 1 .. aHi PROVE ~Holds(y, g, n, a)
    BY DEF NoUpper
  <2>1. n \in Valid(x) /\ SameContent(x.node[n], y.node[n])  BY <1>0, UpperKept
  <2>2. ~Holds(x, g, n, a)  BY <1>0, <1>1, <2>1 DEF NoUpper
  <2> QED BY <2>1, <2>2, SameHolds
<1>5. ASSUME m < s.right PROVE Fresh(x, g, s) /\ Trim(x, y, g, s) /\ Fresh(y, g, s)
  BY <1>5, TrimFresh DEF ClearPre, Cleared
<1>6. ASSUME m < aHi PROVE Stuck(y, g, l, m + 1)
  <2> SUFFICES ASSUME NEW n \in UsedIds(y) \X Index, l <= Level(g, n),
                      Cell(Level(g, n), m + 1) = Num(g, n)
               PROVE  n \in Valid(y)
    BY DEF Stuck
  <2>1. n \in Valid(x)  BY <1>0, <1>6 DEF ClearPre, Stuck
  <2>2. Fresh(x, g, s) /\ Trim(x, y, g, s)  BY <1>1, <1>5, <1>6
  <2>3. CASE Lo(x, g, n) \in s.left .. s.right
    <3>1. m + 1 \in s.left .. s.right  BY <1>1, <1>6
    <3>2. Holds(x, g, n, m + 1)  BY <2>1, <2>2, <2>3, <3>1 DEF Fresh
    <3>3. Cov(x, g, Root, m + 1)  BY <2>1, <3>2, RootNotValid DEF Cov
    <3> QED BY <1>0, <1>1, <3>1, <3>3
  <2> QED BY <2>1, <2>2, <2>3 DEF Trim
<1>7. m \in b + 1 - 1 .. s.right  BY <1>1
<1> QED BY <1>0, <1>2, <1>3, <1>4, <1>5, <1>6, <1>7 DEF ClearPre

\* A level block that is still in use is still reached the same way.
LEMMA StillLeads ==
    ASSUME NEW x, NEW y, NEW g, NEW e, NEW f, Sound(x, g, e), Sound(y, g, f), NEW pre, NEW id,
           LeadsTo(x, pre, id), UsedIds(y) \subseteq UsedIds(x), id \in UsedIds(y)
    PROVE  LeadsTo(y, pre, id)
<1>0. Shape(x) /\ Counted(x) /\ Placed(x, g) /\ Shape(y) /\ Counted(y) /\ Linked(y, g)
  BY DEF Sound
<1>1. CASE pre = Root  BY <1>0, <1>1, WayIn DEF LeadsTo, Shape
<1>2. CASE pre # Root
  <2>1. /\ pre \in Valid(x) /\ id # 0 /\ g.lev[id] \in Nat
        /\ Level(g, pre) = g.lev[id] - 1 /\ Num(g, pre) = g.num[id]
    BY <1>2, WayIn
  <2>2. PICK p \in Valid(y) : y.node[p].type = 0 /\ y.node[p].next = id
    BY <1>0, <2>1 DEF Linked
  <2>3. g.lev[id] = Level(g, p) + 1 /\ g.num[id] = Num(g, p)  BY <1>0, <2>2 DEF Linked
  <2>4. p \in UsedIds(x) \X Index /\ pre \in UsedIds(x) \X Index  BY <2>1, <2>2 DEF Valid
  <2>5. Level(g, p) \in Nat  BY <1>0, <2>4, NodePlace, LevelNat
  <2>6. p = pre  BY <1>0, <2>1, <2>3, <2>4, <2>5, SamePlace
  <2> QED BY <1>0, <2>2, <2>6 DEF LeadsTo
<1> QED BY <1>1, <1>2

\* The node of the level block on the way to an address.
LEMMA NodeFor ==
    ASSUME NEW x, NEW g, Shape(x), Counted(x), Placed(x, g), NEW id \in UsedIds(x), NEW a \in Nat,
           InBlock(g, id, a)
    PROVE  /\ <<id, Cell(g.lev[id], a) % Fan>> \in UsedIds(x) \X Index
           /\ Level(g, <<id, Cell(g.lev[id], a) % Fan>>) = g.lev[id]
           /\ Num(g, <<id, Cell(g.lev[id], a) % Fan>>) = Cell(g.lev[id], a)
<1> DEFINE c == Cell(g.lev[id], a)
<1>1. c \in Nat  BY CellNat DEF Placed
<1>2. c \div Fan = g.num[id]  BY DEF InBlock
<1> HIDE DEF c
<1>3. c % Fan \in Index /\ c = (c \div Fan) * Fan + (c % Fan)  BY <1>1, NumberOfNode
<1>4. <<id, c % Fan>> \in UsedIds(x) \X Index /\ Level(g, <<id, c % Fan>>) = g.lev[id]
      /\ Num(g, <<id, c % Fan>>) = c
  BY <1>2, <1>3 DEF Level, Num
<1> QED BY <1>4 DEF c

\* What the addresses and the bound of ClearPre are.
LEMMA ClearFacts ==
    ASSUME NEW x, NEW g, NEW s, NEW pre, NEW id, NEW aLo, NEW aHi, NEW m, NEW T, NEW l,
           ClearPre(x, g, s, pre, id, aLo, aHi, m, T, l)
    PROVE  /\ Inv(x, g, Root, 0, T) /\ Sound(x, g, 0) /\ Shape(x) /\ Counted(x) /\ Placed(x, g)
           /\ Linked(x, g) /\ s \in T /\ Segments(T) /\ g.lev[id] = l /\ LeadsTo(x, pre, id)
           /\ l \in Levels /\ l \in Nat /\ id \in UsedIds(x) /\ x.ret = "ok"
           /\ x.node[pre].type = 0 /\ x.lvl \in Levels
           /\ aLo \in Nat /\ aHi \in Nat /\ s.left \in Nat /\ s.right \in Nat /\ m \in Int
           /\ s.left <= aLo /\ aLo <= aHi /\ aHi <= s.right /\ m <= s.right /\ aLo - 1 <= m
           /\ \A a \in s.left .. s.right : a \in Addr /\ a \in Nat
           /\ \A a \in s.left .. s.right : Cov(x, g, Root, a) <=> aLo <= a /\ a <= m
           /\ RangeIn(g, s, id, aLo, aHi) /\ NoUpper(x, g, l, aLo, aHi)
<1>0. /\ Inv(x, g, Root, 0, T) /\ s \in T /\ Segments(T) /\ g.lev[id] = l
      /\ LeadsTo(x, pre, id) /\ x.ret = "ok" /\ x.node[pre].type = 0 /\ x.lvl \in Levels
      /\ \A a \in s.left .. s.right : Cov(x, g, Root, a) <=> aLo <= a /\ a <= m
      /\ RangeIn(g, s, id, aLo, aHi) /\ NoUpper(x, g, l, aLo, aHi)
      /\ Sound(x, g, 0) /\ Shape(x) /\ Counted(x) /\ Placed(x, g) /\ Linked(x, g)
  BY DEF ClearPre, Inv, Holding, Sound
<1>1. /\ aLo \in Nat /\ aHi \in Nat /\ s.left \in Nat /\ s.right \in Nat /\ m \in Int
      /\ s.left <= aLo /\ aLo <= aHi /\ aHi <= s.right /\ m <= s.right /\ aLo - 1 <= m
      /\ \A a \in s.left .. s.right : a \in Addr /\ a \in Nat
  BY <1>0, SegmentFacts DEF RangeIn, ClearPre
<1>2. l \in Levels /\ l \in Nat /\ id \in UsedIds(x)  BY <1>0, WayIn
<1> QED BY <1>0, <1>1, <1>2

\* Between the ends of a range in a level block, every address is in it.
LEMMA InBlockBetween ==
    ASSUME NEW g, NEW id, g.lev[id] \in Levels, NEW a \in Nat, NEW b \in Nat, NEW c \in Nat,
           a <= b, b <= c, InBlock(g, id, a), InBlock(g, id, c)
    PROVE  InBlock(g, id, b)
<1> DEFINE l == g.lev[id]
           d(o) == Cell(l, o)
<1>2. d(a) \in Nat /\ d(b) \in Nat /\ d(c) \in Nat /\ d(a) <= d(b) /\ d(b) <= d(c)
  BY CellNat, CellMonotone
<1>3. d(a) \div Fan = g.num[id] /\ d(c) \div Fan = g.num[id]  BY DEF InBlock
<1> HIDE DEF d, l
<1>4. /\ d(a) \div Fan <= d(b) \div Fan /\ d(b) \div Fan <= d(c) \div Fan
      /\ d(a) \div Fan \in Nat /\ d(b) \div Fan \in Nat
  BY <1>2, LevelNat, QuotientMonotone, Division
<1>5. d(b) \div Fan = g.num[id]  BY <1>3, <1>4
<1> QED BY <1>5 DEF InBlock, d, l

\* As long as something of the range is left, the level block is there.
LEMMA NextReached ==
    ASSUME NEW x, NEW y, NEW g, NEW s, NEW pre, NEW id, NEW aLo, NEW aHi, NEW m, NEW T, NEW l,
           ClearPre(x, g, s, pre, id, aLo, aHi, m, T, l), NEW b \in Int, aLo <= b + 1, b < aHi, b <= m,
           Cleared(x, y, g, s, pre, aLo, b, T, l)
    PROVE  LeadsTo(y, pre, id) /\ y.node[pre].type = 0
<1>0. /\ Inv(x, g, Root, 0, T) /\ Sound(x, g, 0) /\ Shape(x) /\ Counted(x) /\ Placed(x, g)
      /\ s \in T /\ Segments(T) /\ g.lev[id] = l /\ LeadsTo(x, pre, id)
      /\ l \in Levels /\ l \in Nat /\ id \in UsedIds(x) /\ x.node[pre].type = 0
      /\ aLo \in Nat /\ aHi \in Nat /\ s.left \in Nat /\ s.right \in Nat /\ m \in Int
      /\ s.left <= aLo /\ aLo <= aHi /\ aHi <= s.right /\ m <= s.right /\ aLo - 1 <= m
      /\ \A a \in s.left .. s.right : a \in Addr /\ a \in Nat
      /\ \A a \in s.left .. s.right : Cov(x, g, Root, a) <=> aLo <= a /\ a <= m
      /\ RangeIn(g, s, id, aLo, aHi) /\ NoUpper(x, g, l, aLo, aHi)
  BY ClearFacts
<1>1. Inv(y, g, Root, 0, T) /\ Sound(y, g, 0) /\ Shape(y) /\ Counted(y) /\ UsedIds(y) \subseteq UsedIds(x)
  BY DEF Cleared, Inv, Sound
<1> DEFINE a == b + 1
           n == <<id, Cell(l, a) % Fan>>
<1>2. a \in Nat /\ a \in s.left .. s.right /\ a \in Addr /\ aLo <= a /\ a <= aHi /\ a <= m + 1
  BY <1>0
<1>3. InBlock(g, id, a)  BY <1>0, <1>2, InBlockBetween DEF RangeIn
<1>4. n \in UsedIds(x) \X Index /\ Level(g, n) = l /\ Num(g, n) = Cell(l, a)
  BY <1>0, <1>2, <1>3, NodeFor
<1>5. n[1] = id  OBVIOUS
<1> HIDE DEF a, n
<1>6. n \in Valid(y)
  <2>1. CASE a <= m
    <3>1. Cov(y, g, Root, a)
      <4>1. Cov(x, g, Root, a)  BY <1>0, <1>2, <2>1
      <4>2. Cov(y, g, Root, a) <=> Cov(x, g, Root, a) /\ ~(aLo <= a /\ a <= b)
        BY <1>2 DEF Cleared
      <4> QED BY <4>1, <4>2 DEF a
    <3>2. PICK q \in Valid(y) : Holds(y, g, q, a)  BY <3>1 DEF Cov
    <3>3. q \in UsedIds(y) \X Index  BY <3>2 DEF Valid
    <3>4. Level(g, q) \in Nat  BY <1>1, <3>3, NodePlace, LevelNat DEF Sound
    <3>5. l <= Level(g, q)
      <4> SUFFICES ASSUME Level(g, q) < l PROVE FALSE  BY <1>0, <3>4
      <4>1. q \in Valid(x) /\ SameContent(x.node[q], y.node[q])  BY <1>0, UpperKept
      <4>2. Holds(x, g, q, a)  BY <3>2, <4>1, SameHolds
      <4>3. a \in aLo .. aHi  BY <1>0, <1>2
      <4> QED BY <1>0, <4>1, <4>2, <4>3 DEF NoUpper
    <3> QED BY <1>0, <1>1, <1>2, <1>4, <3>2, <3>5, OnTheWay
  <2>2. CASE ~(a <= m)
    <3>1. a = m + 1 /\ m < aHi /\ m < s.right  BY <1>0, <1>2, <2>2
    <3>2. Stuck(x, g, l, a) /\ Fresh(x, g, s)  BY <3>1 DEF ClearPre
    <3>3. n \in Valid(x)  BY <1>0, <1>4, <3>2 DEF Stuck
    <3>4. Trim(x, y, g, s)  BY <3>2 DEF Cleared
    <3>5. CASE Lo(x, g, n) \in s.left .. s.right
      <4>1. Holds(x, g, n, a)  BY <1>2, <1>4, <3>2, <3>3, <3>5 DEF Fresh
      <4>2. Cov(x, g, Root, a)  BY <3>3, <4>1, RootNotValid DEF Cov
      <4> QED BY <1>0, <1>2, <2>2, <4>2
    <3> QED BY <3>3, <3>4, <3>5 DEF Trim
  <2> QED BY <2>1, <2>2
<1>7. id \in UsedIds(y)  BY <1>5, <1>6 DEF Valid
<1>8. LeadsTo(y, pre, id)  BY <1>0, <1>1, <1>7, StillLeads
<1>9. CASE pre # Root  BY <1>8, <1>9 DEF LeadsTo
<1>10. CASE pre = Root
  <2>1. Segments(T) /\ Content(y, g, Root, T) /\ n \in Valid(y) \ {Root} /\ Placed(y, g)
    BY <1>1, <1>6, RootNotValid DEF Inv, Holding, Sound
  <2>2. Lo(y, g, n) \in Addr /\ Holds(y, g, n, Lo(y, g, n))  BY <1>1, <2>1, NodeContent
  <2>3. Cov(y, g, Root, Lo(y, g, n))  BY <2>1, <2>2 DEF Cov
  <2>4. RootOpen(x, y, g)  BY DEF Cleared
  <2>5. \E o \in Addr : Cov(y, g, Root, o)  BY <2>2, <2>3
  <2>6. x.node[Root].type = 0  BY <1>0, <1>10
  <2>7. y.node[Root].type = 0  BY <2>4, <2>5, <2>6 DEF RootOpen
  <2> QED BY <1>8, <1>10, <2>7
<1> QED BY <1>8, <1>9, <1>10

\* The walk can go on behind what it has cleared.
LEMMA ClearGoesOn ==
    ASSUME NEW x, NEW y, NEW g, NEW s, NEW pre, NEW id, NEW aLo, NEW aHi, NEW m, NEW T, NEW l,
           ClearPre(x, g, s, pre, id, aLo, aHi, m, T, l), NEW b \in Int, aLo <= b + 1, b < aHi, b <= m,
           Cleared(x, y, g, s, pre, aLo, b, T, l), y.ret = "ok"
    PROVE  ClearPre(y, g, s, pre, id, b + 1, aHi, m, T, l)
<1>1. LeadsTo(y, pre, id) /\ y.node[pre].type = 0  BY NextReached
<1>2. l \in Nat  BY ClearFacts
<1> QED BY <1>1, <1>2, ClearRestPre

\* Where there is nothing, nothing needs to be cleared.
LEMMA ClearedMore ==
    ASSUME NEW x, NEW y, NEW g, NEW s, NEW pre, NEW T, NEW l, NEW a \in Int, NEW b \in Int, NEW c \in Int,
           Cleared(x, y, g, s, pre, a, b, T, l), b <= c,
           \A o \in Addr : b < o /\ o <= c => ~Cov(x, g, Root, o)
    PROVE  Cleared(x, y, g, s, pre, a, c, T, l)
<1>1. \A o \in Addr : Cov(y, g, Root, o) <=> Cov(x, g, Root, o) /\ ~(a <= o /\ o <= c)
  <2> SUFFICES ASSUME NEW o \in Addr
               PROVE  Cov(y, g, Root, o) <=> Cov(x, g, Root, o) /\ ~(a <= o /\ o <= c)
    OBVIOUS
  <2>1. o \in Int  BY SpanFacts DEF Addr
  <2>2. Cov(y, g, Root, o) <=> Cov(x, g, Root, o) /\ ~(a <= o /\ o <= b)  BY DEF Cleared
  <2>3. b < o /\ o <= c => ~Cov(x, g, Root, o)  OBVIOUS
  <2> QED BY <2>1, <2>2, <2>3
<1> QED BY <1>1 DEF Cleared

----------------------------------------
(* How many pieces a cell can have: the bound of the loop. *)

\* The cell above a piece that is smaller than the cell of level l contains an
\* end of the segment.
LEMMA PieceAtEnd ==
    ASSUME NEW T, Segments(T), NEW s \in T, NEW a \in s.left .. s.right, NEW b, NEW d \in Levels, d # 0,
           PieceAt(s, a, b, d)
    PROVE  d - 1 \in Levels /\ (Cell(d - 1, a) = Cell(d - 1, s.left) \/ Cell(d - 1, a) = Cell(d - 1, s.right))
<1>1. d - 1 \in Levels  BY LevelNat DEF Levels
<1>2. PICK c \in Addr : Cell(d - 1, c) = Cell(d - 1, a) /\ c \notin s.left .. s.right
  BY DEF PieceAt
<1>3. c \in Nat /\ a \in Nat /\ s.left \in Nat /\ s.right \in Nat /\ s.left <= a /\ a <= s.right
  BY SegmentFacts, SpanFacts DEF Addr
<1> DEFINE D(o) == Cell(d - 1, o)
<1>4. D(c) \in Nat /\ D(a) \in Nat /\ D(s.left) \in Nat /\ D(s.right) \in Nat
  BY <1>1, <1>3, CellNat
<1>5. CASE c < s.left
  <2>1. D(c) <= D(s.left) /\ D(s.left) <= D(a)  BY <1>1, <1>3, <1>5, CellMonotone
  <2> HIDE DEF D
  <2>2. D(c) = D(a)  BY <1>2 DEF D
  <2>3. D(a) = D(s.left)  BY <1>4, <2>1, <2>2
  <2> QED BY <1>1, <2>3 DEF D
<1>6. CASE c > s.right
  <2>1. D(a) <= D(s.right) /\ D(s.right) <= D(c)  BY <1>1, <1>3, <1>6, CellMonotone
  <2> HIDE DEF D
  <2>2. D(c) = D(a)  BY <1>2 DEF D
  <2>3. D(a) = D(s.right)  BY <1>4, <2>1, <2>2
  <2> QED BY <1>1, <2>3 DEF D
<1> QED BY <1>2, <1>3, <1>5, <1>6

\* What the loop's bound is.
LEMMA MaxLoop ==
    /\ max_loop \in Nat /\ max_loop >= 2
    /\ LastLevel = 1 => max_loop = 2 * Fan
<1>1. LastLevel = 0 \/ LastLevel = 1 \/ LastLevel = 2 \/ LastLevel = 3  BY FanAssumption
<1> QED BY <1>1, FanAssumption DEF max_loop

\* The codes are small.
LEMMA CodeBound ==
    ASSUME NEW s, NEW l \in Levels, NEW a \in Nat, NEW d \in Levels
    PROVE  PieceCode(s, l, a, d) \in 0 .. max_loop - 2
<1>1. max_loop \in Nat /\ max_loop >= 2 /\ Fan \in Nat /\ Fan >= 2 /\ d \in Nat /\ l \in Nat
  BY MaxLoop, LevelNat
<1>2. CASE d <= l  BY <1>1, <1>2 DEF PieceCode
<1>3. CASE ~(d <= l)
  <2> DEFINE i == Cell(d, a) % Fan
             r == PieceRow(s, l, a, d)
  <2>1. i \in Nat /\ i < Fan
    <3>1. Cell(d, a) \in Nat  BY CellNat
    <3>2. Cell(d, a) % Fan \in Index  BY <3>1, NumberOfNode
    <3> QED BY <3>2, LevelNat DEF Index
  <2>2. /\ l + 1 <= d /\ d <= LastLevel /\ LastLevel \in 0 .. 3
    BY <1>1, <1>3, FanAssumption DEF Levels
  <2>3. /\ r \in Nat /\ (d = l + 1 => r = 0) /\ (d = l + 2 => r <= 2) /\ r <= 4
    BY <1>1, <2>2 DEF PieceRow
  <2>4. PieceCode(s, l, a, d) = 1 + (r * Fan + i)  BY <1>3 DEF PieceCode
  <2> HIDE DEF i, r
  <2>5. CASE LastLevel = 1
    <3>1. r = 0 /\ max_loop = 2 * Fan  BY <1>1, <2>2, <2>3, <2>5, MaxLoop
    <3> QED BY <1>1, <2>1, <2>4, <3>1
  <2>6. CASE LastLevel = 2
    <3>1. r <= 2 /\ max_loop = 4 * Fan  BY <1>1, <2>2, <2>3, <2>6 DEF max_loop
    <3>2. r * Fan <= 2 * Fan /\ r * Fan \in Nat  BY <1>1, <2>3, <3>1, Multiples
    <3> QED BY <1>1, <2>1, <2>4, <3>1, <3>2
  <2>7. CASE LastLevel = 3
    <3>1. r <= 4 /\ max_loop = 8 * Fan  BY <1>1, <2>2, <2>3, <2>7 DEF max_loop
    <3>2. r * Fan <= 4 * Fan /\ r * Fan \in Nat  BY <1>1, <2>3, <3>1, Multiples
    <3> QED BY <1>1, <2>1, <2>4, <3>1, <3>2
  <2>8. CASE LastLevel = 0  BY <1>1, <2>2, <2>8
  <2> QED BY <2>2, <2>5, <2>6, <2>7, <2>8
<1> QED BY <1>2, <1>3

\* No two pieces of a cell have the same code.
LEMMA CodeOnce ==
    ASSUME NEW T, Segments(T), NEW s \in T, NEW l \in Levels,
           NEW a \in s.left .. s.right, NEW b, NEW d \in Levels, PieceAt(s, a, b, d),
           NEW p \in s.left .. s.right, NEW q, NEW e \in Levels, PieceAt(s, p, q, e),
           Cell(l, a) = Cell(l, p), PieceCode(s, l, a, d) = PieceCode(s, l, p, e)
    PROVE  a = p
<1>0. /\ a \in Nat /\ p \in Nat /\ l \in Nat /\ d \in Nat /\ e \in Nat /\ Fan \in Nat /\ Fan > 1
      /\ s.left \in Nat /\ s.right \in Nat
  BY SegmentFacts, LevelNat
<1>1. ASSUME Cell(d, a) = Cell(d, p), d = e PROVE a = p
  <2>1. a <= p  BY <1>1 DEF PieceAt
  <2>2. p <= a  BY <1>1 DEF PieceAt
  <2> QED BY <1>0, <2>1, <2>2
<1> DEFINE i == Cell(d, a) % Fan
           j == Cell(e, p) % Fan
           r == PieceRow(s, l, a, d)
           t == PieceRow(s, l, p, e)
<1>2. Cell(d, a) \in Nat /\ Cell(e, p) \in Nat  BY <1>0, CellNat
<1>3. i \in Index /\ j \in Index /\ i \in Nat /\ j \in Nat  BY <1>2, NumberOfNode DEF Index
<1>4. CASE d <= l
  <2>1. e <= l
    <3> SUFFICES ASSUME ~(e <= l) PROVE FALSE  OBVIOUS
    <3>1. t \in Nat  BY <1>0 DEF PieceRow
    <3>2. t * Fan \in Nat  BY <1>0, <3>1
    <3>3. 1 + (t * Fan + j) = 0  BY <1>4 DEF PieceCode
    <3> HIDE DEF t, j
    <3> QED BY <1>3, <3>2, <3>3
  <2>2. Cell(d, a) = Cell(d, p) /\ Cell(e, a) = Cell(e, p)  BY <1>0, <1>4, <2>1, CellNested
  <2>3. a <= p /\ p <= a  BY <2>2 DEF PieceAt
  <2> QED BY <1>0, <2>3
<1>5. CASE ~(d <= l)
  <2>1. r \in Nat /\ ~(e <= l) /\ t \in Nat
    <3>1. r \in Nat  BY <1>0, <1>5 DEF PieceRow
    <3>2. r * Fan \in Nat /\ PieceCode(s, l, a, d) = 1 + (r * Fan + i)
      BY <1>0, <1>5, <3>1 DEF PieceCode
    <3>3. ~(e <= l)
      <4> SUFFICES ASSUME e <= l PROVE FALSE  OBVIOUS
      <4>1. PieceCode(s, l, p, e) = 0  BY DEF PieceCode
      <4>2. 1 + (r * Fan + i) = 0  BY <3>2, <4>1
      <4> HIDE DEF r, i
      <4> QED BY <1>3, <3>2, <4>2
    <3>4. t \in Nat  BY <1>0, <3>3 DEF PieceRow
    <3> QED BY <3>1, <3>3, <3>4
  <2>2. 1 + (r * Fan + i) = 1 + (t * Fan + j)  BY <1>5, <2>1 DEF PieceCode
  <2>3. r = t /\ i = j
    <3> HIDE DEF r, t, i, j
    <3>1. r * Fan \in Nat /\ t * Fan \in Nat  BY <1>0, <2>1
    <3>2. r * Fan + i = t * Fan + j  BY <1>3, <2>2, <3>1
    <3>3. (r * Fan + i) \div Fan = r /\ (r * Fan + i) % Fan = i  BY <1>3, <2>1, NodeNumber
    <3>4. (t * Fan + j) \div Fan = t /\ (t * Fan + j) % Fan = j  BY <1>3, <2>1, NodeNumber
    <3> QED BY <3>2, <3>3, <3>4
  <2>4. d = e  BY <1>0, <1>5, <2>1, <2>3 DEF PieceRow
  <2>5. d # 0 /\ d - 1 \in Levels /\ d - 1 < LastLevel /\ (d - 1) + 1 = d
    BY <1>0, <1>5, LevelNat DEF Levels
  <2>6. Cell(d - 1, a) = Cell(d - 1, p)
    <3>1. CASE d = l + 1  BY <1>0, <3>1
    <3>2. CASE d # l + 1
      <4>1. Cell(d - 1, a) = Cell(d - 1, s.left) <=> Cell(d - 1, p) = Cell(d - 1, s.left)
        BY <1>0, <2>3, <2>4, <3>2 DEF PieceRow
      <4>2. Cell(d - 1, a) = Cell(d - 1, s.left) \/ Cell(d - 1, a) = Cell(d - 1, s.right)
        BY <2>5, PieceAtEnd
      <4>3. Cell(d - 1, p) = Cell(d - 1, s.left) \/ Cell(d - 1, p) = Cell(d - 1, s.right)
        BY <2>4, <2>5, PieceAtEnd
      <4> QED BY <4>1, <4>2, <4>3
    <3> QED BY <3>1, <3>2
  <2>7. Cell(d, a) = (Cell(d, a) \div Fan) * Fan + i /\ Cell(d, p) = (Cell(d, p) \div Fan) * Fan + j
    BY <1>2, <2>4, NumberOfNode
  <2>8. Cell(d, a) \div Fan = Cell(d - 1, a) /\ Cell(d, p) \div Fan = Cell(d - 1, p)
    BY <1>0, <2>5, CellUp
  <2>9. Cell(d, a) = Cell(d, p)  BY <2>3, <2>6, <2>7, <2>8
  <2> QED BY <1>1, <2>4, <2>9
<1> QED BY <1>4, <1>5

\* A cell has fewer pieces of a segment than the loop has passes.
LEMMA FewPieces ==
    ASSUME NEW T, Segments(T), NEW s \in T, NEW l \in Levels, NEW c
    PROVE  /\ IsFiniteSet(Starts(s, l, c)) /\ Cardinality(Starts(s, l, c)) \in Nat
           /\ Cardinality(Starts(s, l, c)) < max_loop
<1> DEFINE S == Starts(s, l, c)
           D(a) == CHOOSE d \in Levels : \E b \in Nat : PieceAt(s, a, b, d)
           C == 0 .. max_loop - 2
           f == [a \in S |-> PieceCode(s, l, a, D(a))]
<1>1. ASSUME NEW a \in S
      PROVE  /\ a \in s.left .. s.right /\ Cell(l, a) = c /\ a \in Nat
             /\ D(a) \in Levels /\ \E b \in Nat : PieceAt(s, a, b, D(a))
  <2>1. a \in s.left .. s.right /\ Cell(l, a) = c /\ \E b \in Nat : Piece(s, a, b)
    BY DEF Starts
  <2>2. \E d \in Levels : \E b \in Nat : PieceAt(s, a, b, d)  BY <2>1 DEF Piece
  <2>3. D(a) \in Levels /\ \E b \in Nat : PieceAt(s, a, b, D(a))  BY <2>2
  <2> HIDE DEF D
  <2> QED BY <2>1, <2>3, SegmentFacts
<1> HIDE DEF S, D
<1>2. \A a \in S : PieceCode(s, l, a, D(a)) \in C  BY <1>1, CodeBound
<1>3. ASSUME NEW a \in S, NEW p \in S, PieceCode(s, l, a, D(a)) = PieceCode(s, l, p, D(p)) PROVE a = p
  BY <1>1, <1>3, CodeOnce
<1>4. f \in Injection(S, C)
  <2> HIDE DEF C
  <2>1. f \in [S -> C]  BY <1>2
  <2>2. \A a, p \in S : f[a] = f[p] => a = p  BY <1>3
  <2> HIDE DEF f
  <2> QED BY <2>1, <2>2 DEF Injection, IsInjective
<1>5. IsFiniteSet(C) /\ Cardinality(C) = max_loop - 1  BY MaxLoop, FS_Interval
<1> HIDE DEF f, C
<1>6. IsFiniteSet(S) /\ Cardinality(S) <= Cardinality(C)  BY <1>4, <1>5, FS_Injection
<1>7. Cardinality(S) \in Nat  BY <1>6, FS_CardinalityType
<1> QED BY <1>5, <1>6, <1>7, MaxLoop DEF S

----------------------------------------
(* The nodes of a scan. *)

\* An address counted from the start of its level block.
LEMMA OffsetInBlock ==
    ASSUME NEW l \in Levels, NEW q \in Nat, NEW a \in Nat, Cell(l, a) \div Fan = q,
           NEW o, o = a - (q * Fan) * Span(l)
    PROVE  /\ o \in Nat /\ GET_LEVEL_BLOCK_INDEX(o, l) = Cell(l, a) - q * Fan
           /\ Cell(l, a) - q * Fan \in Index /\ o % Span(l) = a - Cell(l, a) * Span(l)
<1> DEFINE p == Span(l)
           c == Cell(l, a)
           i == c - q * Fan
           r == a % p
<1>1. p \in Nat \ {0} /\ Fan \in Nat \ {0, 1}  BY SpanFacts, LevelNat
<1>2. c = a \div p /\ c \in Nat /\ r \in 0 .. p - 1 /\ a = c * p + r  BY <1>1, Division DEF Cell
<1>3. c % Fan \in Index /\ c = (c \div Fan) * Fan + (c % Fan)  BY <1>2, NumberOfNode
<1>4. i = c % Fan /\ i \in Index /\ i \in Nat /\ q * Fan \in Nat /\ c = q * Fan + i
  BY <1>1, <1>3 DEF Index
<1> HIDE DEF p, c, i, r
<1>5. c * p = (q * Fan) * p + i * p  BY <1>1, <1>4
<1>6. (q * Fan) * p \in Nat /\ i * p \in Nat  BY <1>1, <1>4
<1>7. o = a - (q * Fan) * p  BY DEF p
<1>8. o = i * p + r  BY <1>1, <1>2, <1>5, <1>6, <1>7
<1>9. o \in Nat /\ r \in Nat  BY <1>1, <1>2, <1>6, <1>8
<1>10. i * p <= o /\ o < i * p + p  BY <1>1, <1>2, <1>6, <1>8
<1>11. o \div p = i  BY <1>1, <1>4, <1>9, <1>10, Quotient
<1>12. o = (o \div p) * p + (o % p) /\ o % p \in 0 .. p - 1  BY <1>1, <1>9, Division
<1>13. o % p = r
  <2>1. o = i * p + (o % p)  BY <1>11, <1>12
  <2>2. o % p \in Int /\ r \in Int  BY <1>1, <1>2, <1>12
  <2> QED BY <1>6, <1>8, <2>1, <2>2
<1>14. i % Fan = i
  <2>1. 0 * Fan + i = i  BY <1>1, <1>4
  <2> QED BY <1>4, <2>1, NodeNumber
<1>15. c * p \in Nat  BY <1>1, <1>2
<1>16. o % p = a - c * p  BY <1>2, <1>13, <1>15
<1>17. (o \div p) % Fan = i  BY <1>11, <1>14
<1> QED BY <1>4, <1>9, <1>16, <1>17 DEF GET_LEVEL_BLOCK_INDEX, p, c, i

\* A cell is an interval.
LEMMA CellInterval ==
    ASSUME NEW l \in Levels, NEW c \in Nat, NEW a \in Nat
    PROVE  /\ c * Span(l) \in Nat /\ (c + 1) * Span(l) = c * Span(l) + Span(l)
           /\ Cell(l, a) = c <=> c * Span(l) <= a /\ a < (c + 1) * Span(l)
<1> DEFINE p == Span(l)
<1>1. p \in Nat \ {0}  BY SpanFacts
<1>2. c * p \in Nat /\ (c + 1) * p = c * p + p  BY <1>1
<1>3. ASSUME Cell(l, a) = c PROVE c * p <= a /\ a < c * p + p  BY <1>1, <1>3, Division DEF Cell
<1>4. ASSUME c * p <= a, a < c * p + p PROVE Cell(l, a) = c  BY <1>1, <1>4, Quotient DEF Cell
<1> HIDE DEF p
<1>5. Cell(l, a) = c <=> c * p <= a /\ a < c * p + p  BY <1>3, <1>4
<1> QED BY <1>2, <1>5 DEF p

\* The parts of a range.
LEMMA PartFacts ==
    ASSUME NEW l \in Levels, NEW aLo \in Nat, NEW aHi \in Nat, aLo <= aHi,
           NEW k \in 1 .. Parts(l, aLo, aHi)
    PROVE  /\ PartLo(l, aLo, k) \in Nat /\ PartHi(l, aLo, aHi, k) \in Nat
           /\ aLo <= PartLo(l, aLo, k) /\ PartLo(l, aLo, k) <= PartHi(l, aLo, aHi, k)
           /\ PartHi(l, aLo, aHi, k) <= aHi
           /\ Cell(l, PartLo(l, aLo, k)) = Cell(l, aLo) + k - 1
           /\ Cell(l, PartHi(l, aLo, aHi, k)) = Cell(l, aLo) + k - 1
           /\ Cell(l, aLo) + k - 1 \in Nat
           /\ (k = Parts(l, aLo, aHi)) <=> (PartHi(l, aLo, aHi, k) = aHi)
           /\ k < Parts(l, aLo, aHi) => PartLo(l, aLo, k + 1) = PartHi(l, aLo, aHi, k) + 1
           /\ \A a \in Nat : Cell(l, a) = Cell(l, aLo) + k - 1 =>
                 /\ aLo <= a => PartLo(l, aLo, k) <= a
                 /\ a <= aHi => a <= PartHi(l, aLo, aHi, k)
                 /\ k # 1 => aLo <= a /\ PartLo(l, aLo, k) <= a
                 /\ k # Parts(l, aLo, aHi) => a <= aHi /\ a <= PartHi(l, aLo, aHi, k)
<1> DEFINE p == Span(l)
           F == Cell(l, aLo)
           L == Cell(l, aHi)
           c == F + k - 1
           u == PartLo(l, aLo, k)
           v == PartHi(l, aLo, aHi, k)
<1>1. p \in Nat \ {0} /\ F \in Nat /\ L \in Nat /\ F <= L  BY SpanFacts, CellNat, CellMonotone
<1>2. Parts(l, aLo, aHi) = L - F + 1  BY DEF Parts
<1>3. /\ k \in Nat /\ k >= 1 /\ k <= L - F + 1 /\ c \in Nat /\ c + 1 \in Nat
      /\ c = F + k - 1 /\ F <= c /\ c <= L /\ (k = 1 <=> c = F) /\ (k = L - F + 1 <=> c = L)
  BY <1>1, <1>2
<1>4. /\ \A a \in Nat : Cell(l, a) = c <=> c * p <= a /\ a < (c + 1) * p
      /\ c * p \in Nat /\ (c + 1) * p = c * p + p
      /\ F * p \in Nat /\ (F + 1) * p = F * p + p /\ F * p <= aLo /\ aLo < (F + 1) * p
      /\ L * p \in Nat /\ (L + 1) * p = L * p + p /\ L * p <= aHi /\ aHi < (L + 1) * p
  BY <1>1, <1>3, CellInterval
<1>5. (F < c => (F + 1) * p <= c * p) /\ (c < L => (c + 1) * p <= L * p)
  <2>1. F < c => (F + 1) * p <= c * p  BY <1>1, <1>3, Multiples
  <2>2. c < L => (c + 1) * p <= L * p  BY <1>1, <1>3, Multiples
  <2> QED BY <2>1, <2>2
<1>6. u = IF c = F THEN aLo ELSE c * p  BY <1>3 DEF PartLo
<1>7. v = IF c = L THEN aHi ELSE (c + 1) * p - 1
  <2>1. F + k = c + 1  BY <1>1, <1>3
  <2> QED BY <2>1 DEF PartHi
<1>8. k < Parts(l, aLo, aHi) => c # L /\ PartLo(l, aLo, k + 1) = (c + 1) * p
  <2>1. Cell(l, aLo) + (k + 1) - 1 = c + 1 /\ k + 1 # 1  BY <1>1, <1>3
  <2> QED BY <1>2, <1>3, <2>1 DEF PartLo
<1> HIDE DEF p, F, L, c, u, v
<1>9. u \in Nat /\ v \in Nat /\ aLo <= u /\ u <= v /\ v <= aHi
  <2>1. CASE c = F /\ c = L  BY <1>6, <1>7, <2>1
  <2>2. CASE c = F /\ c # L  BY <1>1, <1>3, <1>4, <1>5, <1>6, <1>7, <2>2
  <2>3. CASE c # F /\ c = L  BY <1>1, <1>3, <1>4, <1>5, <1>6, <1>7, <2>3
  <2>4. CASE c # F /\ c # L  BY <1>1, <1>3, <1>4, <1>5, <1>6, <1>7, <2>4
  <2> QED BY <2>1, <2>2, <2>3, <2>4
<1>10. c * p <= u /\ u < (c + 1) * p /\ c * p <= v /\ v < (c + 1) * p
  BY <1>1, <1>3, <1>4, <1>5, <1>6, <1>7, <1>9
<1>11. Cell(l, u) = c /\ Cell(l, v) = c  BY <1>4, <1>9, <1>10
<1>12. k = Parts(l, aLo, aHi) <=> v = aHi
  <2>1. c # L => v # aHi  BY <1>1, <1>3, <1>4, <1>5, <1>7
  <2> QED BY <1>2, <1>3, <1>7, <2>1
<1>13. k < Parts(l, aLo, aHi) => PartLo(l, aLo, k + 1) = v + 1  BY <1>4, <1>1, <1>7, <1>8
<1>14. ASSUME NEW a \in Nat, Cell(l, a) = c
       PROVE  /\ aLo <= a => u <= a
              /\ a <= aHi => a <= v
              /\ k # 1 => aLo <= a /\ u <= a
              /\ k # Parts(l, aLo, aHi) => a <= aHi /\ a <= v
  <2>1. c * p <= a /\ a < (c + 1) * p  BY <1>4, <1>14
  <2>2. aLo <= a => u <= a  BY <1>6, <2>1
  <2>3. a <= aHi => a <= v  BY <1>1, <1>4, <1>7, <2>1
  <2>4. k # 1 => aLo <= a /\ u <= a  BY <1>1, <1>3, <1>4, <1>5, <1>6, <2>1
  <2>5. k # Parts(l, aLo, aHi) => a <= aHi /\ a <= v
    BY <1>1, <1>2, <1>3, <1>4, <1>5, <1>7, <2>1
  <2> QED BY <2>2, <2>3, <2>4, <2>5
<1>15. \A a \in Nat : Cell(l, a) = c =>
              /\ aLo <= a => u <= a
              /\ a <= aHi => a <= v
              /\ k # 1 => aLo <= a /\ u <= a
              /\ k # Parts(l, aLo, aHi) => a <= aHi /\ a <= v
  BY <1>14
<1> QED BY <1>3, <1>9, <1>11, <1>12, <1>13, <1>15 DEF c, F, u, v

\* The k-th node of a scan of aLo .. aHi.
LEMMA NthNodeIs ==
    ASSUME NEW l \in Levels, NEW g, NEW id, g.lev[id] = l, g.num[id] \in Nat,
           NEW aLo \in Nat, NEW aHi \in Nat, aLo <= aHi, InBlock(g, id, aLo), InBlock(g, id, aHi),
           NEW c, c.id = id, Offsets(g, id, c.lo, c.hi, aLo, aHi),
           NEW k \in 1 .. Parts(l, aLo, aHi)
    PROVE  LET v == NthNode(l, c, k)
           IN  /\ v.n = <<id, Cell(l, aLo) + k - 1 - g.num[id] * Fan>>
               /\ v.n[1] = id /\ v.n[2] \in Index /\ Num(g, v.n) = Cell(l, aLo) + k - 1 /\ Level(g, v.n) = l
               /\ v.lo = PartLo(l, aLo, k) - Num(g, v.n) * Span(l)
               /\ v.hi = PartHi(l, aLo, aHi, k) - Num(g, v.n) * Span(l)
               /\ v.mid <=> k # 1 /\ k # Parts(l, aLo, aHi)
<1> DEFINE p == Span(l)
           F == Cell(l, aLo)
           L == Cell(l, aHi)
           q == g.num[id]
           first == GET_LEVEL_BLOCK_INDEX(c.lo, l)
           last == GET_LEVEL_BLOCK_INDEX(c.hi, l)
           i == first + k - 1
           d == F + k - 1
           v == NthNode(l, c, k)
<1>1. /\ F \div Fan = q /\ L \div Fan = q /\ c.lo = aLo - (q * Fan) * p /\ c.hi = aHi - (q * Fan) * p
  BY DEF InBlock, Offsets, BlockStart
<1>2. /\ first = F - q * Fan /\ F - q * Fan \in Index /\ c.lo % p = aLo - F * p
      /\ last = L - q * Fan /\ L - q * Fan \in Index /\ c.hi % p = aHi - L * p
  BY <1>1, OffsetInBlock
<1>3. p \in Nat \ {0} /\ F \in Nat /\ L \in Nat /\ F <= L /\ Fan \in Nat /\ q * Fan \in Nat
  BY SpanFacts, CellNat, CellMonotone, LevelNat
<1>4. Parts(l, aLo, aHi) = L - F + 1 /\ k \in Nat /\ k >= 1 /\ k <= L - F + 1  BY <1>3 DEF Parts
<1>5. /\ v = [n |-> <<c.id, i>>, mid |-> first < i /\ i < last,
              lo |-> IF i = first THEN c.lo % p ELSE 0,
              hi |-> IF i = last THEN c.hi % p ELSE p - 1]
  BY Zenon DEF NthNode
<1> HIDE DEF p, F, L, q, first, last, v
<1>6. /\ i \in Index /\ i = F + k - 1 - q * Fan /\ q * Fan + i = d /\ d \in Nat
      /\ (i = first <=> k = 1) /\ (i = last <=> k = L - F + 1)
      /\ (first < i /\ i < last) <=> (k # 1 /\ k # L - F + 1)
      /\ (i = last <=> d = L) /\ (i = first <=> d = F)
  BY <1>2, <1>3, <1>4, LevelNat DEF Index
<1>7. /\ v.n = <<id, i>> /\ v.n[1] = id /\ v.n[2] = i
      /\ v.mid = (first < i /\ i < last)
      /\ v.lo = IF i = first THEN c.lo % p ELSE 0
      /\ v.hi = IF i = last THEN c.hi % p ELSE p - 1
  BY <1>5
<1>8. Num(g, v.n) = d /\ Level(g, v.n) = l
  <2>1. Num(g, v.n) = q * Fan + i  BY <1>7 DEF Num, q
  <2>2. Level(g, v.n) = l  BY <1>7 DEF Level
  <2> QED BY <1>6, <2>1, <2>2
<1> HIDE DEF i
<1>9. d * p \in Nat /\ (d + 1) * p = d * p + p  BY <1>3, <1>6
<1>10. v.lo = PartLo(l, aLo, k) - d * p
  <2>1. PartLo(l, aLo, k) = IF k = 1 THEN aLo ELSE d * p  BY DEF PartLo, p, F
  <2>2. CASE k = 1
    <3>1. d = F  BY <1>6, <2>2
    <3> QED BY <1>2, <1>6, <1>7, <2>1, <2>2, <3>1
  <2>3. CASE k # 1  BY <1>6, <1>7, <1>9, <2>1, <2>3
  <2> QED BY <2>2, <2>3
<1>11. v.hi = PartHi(l, aLo, aHi, k) - d * p
  <2>1. F + k = d + 1  BY <1>3, <1>4
  <2>2. PartHi(l, aLo, aHi, k) = IF d = L THEN aHi ELSE (d + 1) * p - 1
    BY <2>1 DEF PartHi, p, F, L
  <2> QED BY <1>2, <1>3, <1>6, <1>7, <1>9, <2>2
<1>12. v.mid <=> k # 1 /\ k # Parts(l, aLo, aHi)  BY <1>4, <1>6, <1>7
<1>13. /\ v.n = <<id, F + k - 1 - q * Fan>> /\ v.n[1] = id /\ v.n[2] \in Index  BY <1>6, <1>7
<1>14. /\ v.lo = PartLo(l, aLo, k) - Num(g, v.n) * p
       /\ v.hi = PartHi(l, aLo, aHi, k) - Num(g, v.n) * p
  BY <1>8, <1>10, <1>11
<1> QED BY <1>8, <1>12, <1>13, <1>14 DEF v, F, q, p, d

\* The number of nodes of a scan.
LEMMA NodeCountIs ==
    ASSUME NEW l \in Levels, NEW g, NEW id, g.lev[id] = l, g.num[id] \in Nat,
           NEW aLo \in Nat, NEW aHi \in Nat, aLo <= aHi, InBlock(g, id, aLo), InBlock(g, id, aHi),
           NEW lo, NEW hi, Offsets(g, id, lo, hi, aLo, aHi)
    PROVE  NodeCount(l, lo, hi) = Parts(l, aLo, aHi) /\ Parts(l, aLo, aHi) \in Nat \ {0}
<1> DEFINE F == Cell(l, aLo)
           L == Cell(l, aHi)
           q == g.num[id]
<1>1. /\ F \div Fan = q /\ L \div Fan = q
      /\ lo = aLo - (q * Fan) * Span(l) /\ hi = aHi - (q * Fan) * Span(l)
  BY DEF InBlock, Offsets, BlockStart
<1>2. /\ GET_LEVEL_BLOCK_INDEX(lo, l) = F - q * Fan /\ GET_LEVEL_BLOCK_INDEX(hi, l) = L - q * Fan
  BY <1>1, OffsetInBlock
<1>3. F \in Nat /\ L \in Nat /\ F <= L /\ q * Fan \in Nat
  <2>1. F \in Nat /\ L \in Nat  BY CellNat
  <2>2. F <= L  BY CellMonotone
  <2>3. q * Fan \in Nat  BY LevelNat
  <2> QED BY <2>1, <2>2, <2>3
<1> HIDE DEF F, L, q
<1>4. NodeCount(l, lo, hi) = L - F + 1 /\ L - F + 1 \in Nat \ {0}  BY <1>2, <1>3 DEF NodeCount
<1> QED BY <1>4 DEF Parts, F, L

----------------------------------------
(* Clearing what one node, and the levels below it, hold of a range. *)

\* The node at the head of what is left to clear is valid.
LEMMA HeadValid ==
    ASSUME NEW x, NEW g, NEW s, NEW pre, NEW id, NEW p, NEW aHi, NEW m, NEW T, NEW l,
           ClearPre(x, g, s, pre, id, p, aHi, m, T, l),
           NEW n \in UsedIds(x) \X Index, n[1] = id, Cell(l, p) = Num(g, n)
    PROVE  n \in Valid(x)
<1>0. /\ Inv(x, g, Root, 0, T) /\ Sound(x, g, 0) /\ Shape(x) /\ Counted(x) /\ Placed(x, g)
      /\ s \in T /\ g.lev[id] = l /\ l \in Nat
      /\ p \in Nat /\ aHi \in Nat /\ s.left \in Nat /\ s.right \in Nat /\ m \in Int
      /\ s.left <= p /\ p <= aHi /\ aHi <= s.right /\ m <= s.right /\ p - 1 <= m
      /\ \A a \in s.left .. s.right : Cov(x, g, Root, a) <=> p <= a /\ a <= m
      /\ NoUpper(x, g, l, p, aHi)
  BY ClearFacts
<1>1. Level(g, n) = l  BY <1>0 DEF Level
<1>2. CASE p <= m
  <2>1. p \in s.left .. s.right /\ p \in p .. aHi  BY <1>0
  <2>2. Cov(x, g, Root, p)  BY <1>0, <1>2, <2>1
  <2>3. PICK q \in Valid(x) : Holds(x, g, q, p)  BY <2>2 DEF Cov
  <2>4. Level(g, q) \in Nat  BY <1>0, <2>3, InNodes, NodePlace, LevelNat
  <2>5. l <= Level(g, q)  BY <1>0, <2>1, <2>3, <2>4 DEF NoUpper
  <2> QED BY <1>0, <1>1, <2>3, <2>5, OnTheWay
<1>3. CASE ~(p <= m)
  <2>1. m + 1 = p /\ m < aHi  BY <1>0, <1>3
  <2>2. Stuck(x, g, l, p)  BY <2>1 DEF ClearPre
  <2> QED BY <1>0, <1>1, <2>2 DEF Stuck
<1> QED BY <1>2, <1>3

\* A node whose cell is all of one segment holds all of it.
LEMMA CellFull ==
    ASSUME NEW x, NEW g, NEW T, Inv(x, g, Root, 0, T), NEW s \in T, NEW n \in Valid(x),
           \A a \in Nat : Cell(Level(g, n), a) = Num(g, n) => a \in s.left .. s.right
    PROVE  \A a \in Nat : Cell(Level(g, n), a) = Num(g, n) => Holds(x, g, n, a)
<1>0. /\ Shape(x) /\ Counted(x) /\ Placed(x, g) /\ Segments(T) /\ Content(x, g, Root, T)
      /\ n \in Valid(x) \ {Root} /\ n \in UsedIds(x) \X Index
  BY RootNotValid DEF Inv, Sound, Holding, Valid
<1> DEFINE l == Level(g, n)
           b == Lo(x, g, n)
           e == Hi(x, g, n)
<1>1. l \in Levels /\ l \in Nat  BY <1>0, NodePlace, LevelNat
<1>2. b \in Addr /\ b \in Nat /\ Holds(x, g, n, b)  BY <1>0, NodeContent, SpanFacts DEF Addr
<1>3. Cell(l, b) = Num(g, n)  BY <1>0, <1>2, NodeContent
<1>4. b \in s.left .. s.right  BY <1>2, <1>3
<1>5. Piece(s, b, e)  BY <1>2, <1>4, HoldsPart
<1> HIDE DEF b, e, l
<1>6. PICK d \in Levels : PieceAt(s, b, e, d)  BY <1>5 DEF Piece
<1>7. d \in Nat  BY LevelNat
<1>8. CASE d <= l
  <2> SUFFICES ASSUME NEW a \in Nat, Cell(l, a) = Num(g, n) PROVE Holds(x, g, n, a)  BY DEF l
  <2>1. a \in s.left .. s.right  BY DEF l
  <2>2. Cell(d, a) = Cell(d, b)  BY <1>1, <1>2, <1>3, <1>8, CellNested
  <2>3. b <= a /\ a <= e  BY <1>6, <2>1, <2>2 DEF PieceAt
  <2> QED BY <2>3 DEF Holds, b, e
<1>9. CASE ~(d <= l)
  <2>1. d # 0 /\ d - 1 \in Levels /\ l <= d - 1  BY <1>1, <1>7, <1>9, LevelNat DEF Levels
  <2>2. PICK c \in Addr : Cell(d - 1, c) = Cell(d - 1, b) /\ c \notin s.left .. s.right
    BY <1>6, <2>1 DEF PieceAt
  <2>3. c \in Nat  BY SpanFacts DEF Addr
  <2>4. Cell(l, c) = Cell(l, b)  BY <1>1, <1>2, <2>1, <2>2, <2>3, CellNested
  <2> QED BY <1>3, <2>2, <2>3, <2>4 DEF l
<1> QED BY <1>8, <1>9

\* A node that holds the head of what is left is the whole part of a failed
\* grant, and in any case no more than the segment has in its cell.
LEMMA HeadLoaded ==
    ASSUME NEW x, NEW g, NEW s, NEW pre, NEW id, NEW p, NEW aHi, NEW m, NEW T, NEW l, NEW pHi,
           ClearPre(x, g, s, pre, id, p, aHi, m, T, l), NEW n \in Valid(x),
           InPart(g, s, n, p, pHi), Lo(x, g, n) = p
    PROVE  pHi <= m /\ Hi(x, g, n) <= pHi /\ p <= Hi(x, g, n) /\ Hi(x, g, n) \in Nat
           /\ Piece(s, p, Hi(x, g, n))
<1>0. /\ Inv(x, g, Root, 0, T) /\ s \in T /\ Segments(T)
      /\ p \in Nat /\ s.left \in Nat /\ s.right \in Nat /\ m \in Int
      /\ m <= s.right
      /\ \A a \in s.left .. s.right : a \in Addr /\ a \in Nat
      /\ \A a \in s.left .. s.right : Cov(x, g, Root, a) <=> p <= a /\ a <= m
  BY ClearFacts
<1>1. p \in s.left .. s.right /\ pHi \in s.left .. s.right  BY DEF InPart
<1>c. Content(x, g, Root, T) /\ n \in Valid(x) \ {Root} /\ Shape(x) /\ Counted(x) /\ Placed(x, g)
  BY RootNotValid DEF Inv, Holding, Sound, ClearPre
<1>2. Holds(x, g, n, p)  BY <1>0, <1>c, NodeContent
<1>3. /\ Hi(x, g, n) \in s.left .. s.right /\ p <= Hi(x, g, n) /\ Piece(s, p, Hi(x, g, n))
      /\ Cell(Level(g, n), Hi(x, g, n)) = Num(g, n)
  BY <1>0, <1>1, <1>2, HoldsPart
<1>4. Hi(x, g, n) <= pHi  BY <1>3 DEF InPart
<1>5. pHi <= m
  <2>1. CASE m = s.right  BY <1>0, <1>1, <2>1
  <2>2. CASE m # s.right
    <3>1. m < s.right  BY <1>0, <2>2
    <3>2. Fresh(x, g, s)  BY <3>1 DEF ClearPre
    <3>3. Holds(x, g, n, pHi)  BY <1>1, <3>2 DEF Fresh, InPart
    <3>4. Cov(x, g, Root, pHi)  BY <3>3, RootNotValid DEF Cov
    <3> QED BY <1>0, <1>1, <3>4
  <2> QED BY <2>1, <2>2
<1> QED BY <1>0, <1>3, <1>4, <1>5

\* A node that does not hold the head of what is left holds nothing of it: the
\* walk goes below the node, or there is nothing left.
LEMMA GoesBelow ==
    ASSUME NEW x, NEW g, NEW s, NEW pre, NEW id, NEW p, NEW aHi, NEW m, NEW T, NEW l, NEW pHi,
           ClearPre(x, g, s, pre, id, p, aHi, m, T, l), NEW n \in Valid(x), n[1] = id,
           InPart(g, s, n, p, pHi), pHi <= aHi, Lo(x, g, n) # p
    PROVE  /\ x.node[n].type = 0 =>
                 /\ ClearPre(x, g, s, n, x.node[n].next, p, pHi, m, T, l + 1)
                 /\ BlockStart(g, x.node[n].next) = Num(g, n) * Span(l)
           /\ x.node[n].type # 0 => m = p - 1
<1>0. /\ Inv(x, g, Root, 0, T) /\ Sound(x, g, 0) /\ Shape(x) /\ Counted(x) /\ Placed(x, g)
      /\ Linked(x, g) /\ s \in T /\ Segments(T) /\ g.lev[id] = l
      /\ l \in Levels /\ l \in Nat /\ id \in UsedIds(x) /\ x.ret = "ok"
      /\ p \in Nat /\ aHi \in Nat /\ s.left \in Nat /\ s.right \in Nat /\ m \in Int
      /\ s.left <= p /\ p <= aHi /\ aHi <= s.right /\ m <= s.right /\ p - 1 <= m
      /\ \A a \in s.left .. s.right : a \in Addr /\ a \in Nat
      /\ \A a \in s.left .. s.right : Cov(x, g, Root, a) <=> p <= a /\ a <= m
      /\ NoUpper(x, g, l, p, aHi) /\ x.lvl \in Levels
  BY ClearFacts
<1>1. /\ Level(g, n) = l /\ n \in UsedIds(x) \X Index /\ Num(g, n) \in Nat
      /\ p \in s.left .. s.right /\ pHi \in s.left .. s.right /\ p <= pHi /\ pHi \in Nat
      /\ Cell(l, p) = Num(g, n) /\ Cell(l, pHi) = Num(g, n)
      /\ \A a \in s.left .. s.right : Cell(l, a) = Num(g, n) => a <= pHi
  <2>1. Level(g, n) = l /\ n \in UsedIds(x) \X Index  BY <1>0 DEF Level, Valid
  <2>2. Num(g, n) \in Nat  BY <1>0, <2>1, NodePlace
  <2> QED BY <1>0, <2>1, <2>2 DEF InPart
<1>2. ASSUME p <= m
      PROVE  \E q \in Valid(x) : /\ Holds(x, g, q, p) /\ (q # n => x.node[n].type = 0 /\ l < Level(g, q))
                                 /\ Level(g, q) \in Nat /\ Level(g, q) \in Levels
  <2>1. Cov(x, g, Root, p)  BY <1>0, <1>1, <1>2
  <2>2. PICK q \in Valid(x) : Holds(x, g, q, p)  BY <2>1 DEF Cov
  <2>3. Level(g, q) \in Nat /\ Level(g, q) \in Levels
    BY <1>0, <2>2, InNodes, NodePlace, LevelNat
  <2>4. p \in p .. aHi  BY <1>0
  <2>5. l <= Level(g, q)  BY <1>0, <2>2, <2>3, <2>4 DEF NoUpper
  <2>6. q # n => x.node[n].type = 0 /\ l < Level(g, q)  BY <1>0, <1>1, <2>2, <2>5, OnTheWay
  <2> QED BY <2>2, <2>3, <2>6
<1>3. ASSUME NEW a \in p .. pHi, Holds(x, g, n, a) PROVE FALSE
  <2>1. a \in s.left .. s.right  BY <1>0, <1>1
  <2>2. Lo(x, g, n) \in s.left .. s.right /\ Holds(x, g, n, Lo(x, g, n)) /\ Lo(x, g, n) <= a
    BY <1>0, <1>3, <2>1, HoldsPart
  <2>3. Cov(x, g, Root, Lo(x, g, n)) /\ Cov(x, g, Root, a)  BY <1>3, <2>2, RootNotValid DEF Cov
  <2>4. p <= Lo(x, g, n) /\ a <= m /\ Lo(x, g, n) \in Nat /\ a \in Nat
    BY <1>0, <2>1, <2>2, <2>3
  <2>5. p < Lo(x, g, n) /\ p <= m  BY <1>0, <1>1, <2>4
  <2>6. PICK q \in Valid(x) : /\ Holds(x, g, q, p) /\ (q # n => x.node[n].type = 0 /\ l < Level(g, q))
                              /\ Level(g, q) \in Nat /\ Level(g, q) \in Levels
    BY <1>2, <2>5
  <2>7. q # n  BY <1>0, <2>4, <2>5, <2>6 DEF Holds
  <2>8. /\ Lo(x, g, q) \in s.left .. s.right /\ Lo(x, g, q) <= p
        /\ Cell(Level(g, q), p) = Num(g, q) /\ Cell(Level(g, q), Lo(x, g, q)) = Num(g, q)
    BY <1>0, <1>1, <2>6, HoldsPart
  <2>9. Lo(x, g, q) \in Nat  BY <1>0, <2>8
  <2>10. Cell(l, Lo(x, g, q)) = Cell(l, p)
    <3> DEFINE k == Level(g, q)
    <3>1. k \in Levels /\ l <= k /\ Cell(k, p) = Cell(k, Lo(x, g, q))  BY <1>0, <2>6, <2>7, <2>8
    <3> HIDE DEF k
    <3> QED BY <1>0, <2>9, <3>1, CellNested
  <2>11. Lo(x, g, n) < Lo(x, g, q)
    <3>1. First(x, g, Root, T)  BY <1>0 DEF Inv, Holding
    <3>2. n \in Valid(x) \ {Root} /\ q \in Valid(x) \ {Root}  BY RootNotValid
    <3>3. Level(g, n) < Level(g, q) /\ Cell(Level(g, n), Lo(x, g, q)) = Num(g, n)
      BY <1>1, <2>6, <2>7, <2>10
    <3> QED BY <1>0, <2>2, <2>8, <3>1, <3>2, <3>3 DEF First
  <2> QED BY <1>0, <2>4, <2>5, <2>8, <2>9, <2>11
<1>4. ASSUME x.node[n].type # 0 PROVE m = p - 1
  <2> SUFFICES ASSUME p <= m PROVE FALSE  BY <1>0
  <2>1. PICK q \in Valid(x) : Holds(x, g, q, p) /\ (q # n => x.node[n].type = 0)  BY <1>2
  <2>2. q = n /\ p \in p .. pHi  BY <1>0, <1>1, <1>4, <2>1
  <2> QED BY <1>3, <2>1, <2>2
<1>5. ASSUME x.node[n].type = 0
      PROVE  /\ ClearPre(x, g, s, n, x.node[n].next, p, pHi, m, T, l + 1)
             /\ BlockStart(g, x.node[n].next) = Num(g, n) * Span(l)
  <2> DEFINE k == x.node[n].next
  <2>1. k \in UsedIds(x) /\ g.lev[k] = l + 1 /\ g.num[k] = Num(g, n)
    BY <1>0, <1>1, <1>5 DEF Linked
  <2>2. l + 1 \in Levels /\ l < LastLevel
    <3>1. l + 1 \in Levels  BY <1>0, <2>1 DEF Placed
    <3> QED BY <1>0, <3>1, LevelNat DEF Levels
  <2>3. LeadsTo(x, n, k)  BY <1>5 DEF LeadsTo
  <2> HIDE DEF k
  <2>4. ASSUME NEW a \in Nat PROVE InBlock(g, k, a) <=> Cell(l, a) = Num(g, n)
    <3>1. Cell(l, a) = Cell(l + 1, a) \div Fan  BY <1>0, <2>2, CellUp
    <3> QED BY <2>1, <3>1 DEF InBlock
  <2>5. RangeIn(g, s, k, p, pHi)  BY <1>0, <1>1, <2>4 DEF RangeIn
  <2>6. NoUpper(x, g, l + 1, p, pHi)
    <3> SUFFICES ASSUME NEW q \in Valid(x), Level(g, q) < l + 1, NEW a \in p .. pHi, Holds(x, g, q, a)
                 PROVE  FALSE
      BY DEF NoUpper
    <3>1. Level(g, q) \in Nat /\ q \in UsedIds(x) \X Index
      BY <1>0, InNodes, NodePlace, LevelNat
    <3>2. a \in p .. aHi /\ a \in s.left .. s.right  BY <1>0, <1>1
    <3>3. Level(g, q) = l  BY <1>0, <3>1, <3>2 DEF NoUpper
    <3>4. Cell(l, a) = Num(g, q) /\ a \in Nat  BY <1>0, <3>2, <3>3, HoldsPart
    <3>5. Cell(l, a) = Num(g, n)
      <4>1. Cell(l, p) <= Cell(l, a) /\ Cell(l, a) <= Cell(l, pHi)
        BY <1>0, <1>1, <3>4, CellMonotone
      <4>2. Cell(l, a) \in Nat  BY <1>0, <3>4, CellNat
      <4> QED BY <1>1, <4>1, <4>2
    <3>6. q = n  BY <1>0, <1>1, <3>1, <3>3, <3>4, <3>5, SamePlace
    <3> QED BY <1>3, <3>6
  <2>7. m < s.right => Fresh(x, g, s)  BY DEF ClearPre
  <2>8. m < pHi => Stuck(x, g, l + 1, m + 1)
    <3> SUFFICES ASSUME m < pHi, NEW q \in UsedIds(x) \X Index, l + 1 <= Level(g, q),
                        Cell(Level(g, q), m + 1) = Num(g, q)
                 PROVE  q \in Valid(x)
      BY DEF Stuck
    <3>1. m < aHi  BY <1>0, <1>1
    <3>2. Level(g, q) \in Nat  BY <1>0, NodePlace, LevelNat
    <3>3. l <= Level(g, q)  BY <1>0, <3>2
    <3> QED BY <3>1, <3>3 DEF ClearPre, Stuck
  <2>9. BlockStart(g, k) = Num(g, n) * Span(l)
    <3>1. Span(l) = Fan * Span(l + 1) /\ Span(l + 1) \in Nat /\ Fan \in Nat
      BY <1>0, <2>2, SpanFacts, LevelNat
    <3>2. (Num(g, n) * Fan) * Span(l + 1) = Num(g, n) * (Fan * Span(l + 1))  BY <1>1, <3>1
    <3> QED BY <2>1, <3>1, <3>2 DEF BlockStart
  <2>10. m \in p - 1 .. s.right  BY <1>0
  <2>11. ClearPre(x, g, s, n, k, p, pHi, m, T, l + 1)
    BY <1>0, <1>5, <2>1, <2>3, <2>5, <2>6, <2>7, <2>8, <2>10 DEF ClearPre
  <2> QED BY <2>9, <2>11 DEF k
<1> QED BY <1>4, <1>5

\* What is cleared below a node is cleared.
LEMMA BelowCleared ==
    ASSUME NEW x, NEW y, NEW g, NEW s, NEW pre, NEW n, NEW a, NEW b, NEW T, NEW l \in Nat,
           Inv(x, g, Root, 0, T), n \in Valid(x), Level(g, n) = l, LeadsTo(x, pre, n[1]),
           Cleared(x, y, g, s, n, a, b, T, l + 1)
    PROVE  Cleared(x, y, g, s, pre, a, b, T, l)
<1>0. /\ Sound(x, g, 0) /\ Shape(x) /\ Counted(x) /\ Placed(x, g) /\ n # Root
  BY RootNotValid DEF Inv, Sound
<1>1. /\ pre \in Nodes(x) /\ pre # n
      /\ pre # Root => pre \in Valid(x) /\ Level(g, pre) = l - 1
  <2>1. pre \in Nodes(x) /\ (pre # Root => pre \in Valid(x) /\ Level(g, pre) = l - 1)
    BY <1>0, WayIn DEF Level
  <2> QED BY <1>0, <2>1
<1>f. Framed(x, y, g, l, n)
  <2>1. (l + 1) - 1 = l  OBVIOUS
  <2> QED BY <2>1 DEF Cleared
<1>2. pre \in Nodes(y) /\ y.node[pre] = x.node[pre]  BY <1>1, <1>f DEF Framed
<1>3. Stays(x, y, pre)
  <2>1. ASSUME pre # Root PROVE pre \in Valid(y)  BY <1>1, <1>2, <2>1 DEF Nodes, Valid
  <2> QED BY <1>2, <2>1, SameContentSelf DEF Stays
<1>4. Framed(x, y, g, l - 1, pre)
  <2> SUFFICES ASSUME NEW q \in Nodes(x), q # pre, q = Root \/ Level(g, q) <= l - 1
               PROVE  q \in Nodes(y) /\ y.node[q] = x.node[q]
    BY DEF Framed
  <2>1. q # Root => Level(g, q) \in Nat  BY <1>0, InNodes, NodePlace, LevelNat
  <2>2. q # n /\ (q = Root \/ Level(g, q) <= l)  BY <1>0, <2>1
  <2> QED BY <1>f, <2>2 DEF Framed
<1> QED BY <1>3, <1>4 DEF Cleared

\* In x the walk has come to n; z is what the loop has made of it so far: n
\* holds what comes next, from q on.
HeadAt(x, z, g, s, n, pre, p, q, T) ==
    /\ Cleared(x, z, g, s, pre, p, q - 1, T, level) /\ z.ret = "ok"
    /\ n \in Valid(z) /\ Lo(z, g, n) = q

\* The part of a node from any of its addresses on.
LEMMA InPartLater ==
    ASSUME NEW g, NEW s, NEW n, NEW p, NEW pHi, NEW T, Segments(T), s \in T, InPart(g, s, n, p, pHi),
           Level(g, n) \in Levels, NEW q \in p .. pHi
    PROVE  InPart(g, s, n, q, pHi) /\ q \in s.left .. s.right
<1>1. /\ p \in s.left .. s.right /\ pHi \in s.left .. s.right /\ p \in Nat /\ pHi \in Nat
      /\ s.left \in Nat /\ s.right \in Nat
  BY SegmentFacts DEF InPart
<1>2. q \in s.left .. s.right /\ q \in Nat /\ q <= pHi /\ p <= q  BY <1>1
<1> DEFINE l == Level(g, n)
<1>3. Cell(l, p) <= Cell(l, q) /\ Cell(l, q) <= Cell(l, pHi) /\ Cell(l, q) \in Nat
  BY <1>1, <1>2, CellMonotone, CellNat
<1>4. Cell(l, p) = Num(g, n) /\ Cell(l, pHi) = Num(g, n) /\ Cell(l, p) \in Nat
  BY <1>1, CellNat DEF InPart
<1>5. Cell(l, q) = Num(g, n)
  <2> HIDE DEF l
  <2> QED BY <1>3, <1>4
<1> QED BY <1>1, <1>2, <1>5 DEF InPart

\* One pass of the loop.
LEMMA HeadPass ==
    ASSUME SwapBelowOK, level \in Nat,
           NEW x, NEW g, NEW s, NEW pre, NEW id, NEW p, NEW aHi, NEW m, NEW T, NEW pHi, NEW n,
           ClearPre(x, g, s, pre, id, p, aHi, m, T, level), n[1] = id, x.lvl <= level,
           InPart(g, s, n, p, pHi), pHi <= aHi, pHi <= m,
           NEW z, NEW q \in p .. pHi, HeadAt(x, z, g, s, n, pre, p, q, T),
           NEW y, y = ummu_table_clear_node(z, n, pre)
    PROVE  /\ Hi(z, g, n) \in q .. pHi /\ q \in Starts(s, level, Num(g, n))
           /\ Cleared(x, y, g, s, pre, p, Hi(z, g, n), T, level) /\ y.ret = "ok"
           /\ Kept(y, n, pre) => n \in Valid(y)
<1>0. /\ s \in T /\ Segments(T) /\ g.lev[id] = level /\ level \in Levels
      /\ p \in Nat /\ aHi \in Nat /\ m \in Int /\ s.left \in Nat /\ s.right \in Nat
      /\ x.lvl \in Levels
  BY ClearFacts
<1>1. Level(g, n) = level  BY <1>0 DEF Level
<1>2. /\ InPart(g, s, n, q, pHi) /\ q \in s.left .. s.right /\ q \in Nat /\ pHi \in Nat
      /\ p <= q /\ q <= pHi /\ Cell(level, q) = Num(g, n)
  <2>1. InPart(g, s, n, q, pHi) /\ q \in s.left .. s.right  BY <1>0, <1>1, InPartLater
  <2>2. pHi \in s.left .. s.right  BY DEF InPart
  <2> QED BY <1>0, <1>1, <2>1, <2>2 DEF InPart
<1>3. /\ Cleared(x, z, g, s, pre, p, q - 1, T, level) /\ z.ret = "ok" /\ n \in Valid(z) /\ Lo(z, g, n) = q
  BY DEF HeadAt
<1>4. ClearPre(z, g, s, pre, id, q, aHi, m, T, level)
  <2> DEFINE b == q - 1
  <2>1. b \in Int /\ p <= b + 1 /\ b < aHi /\ b <= m /\ b + 1 = q  BY <1>0, <1>2
  <2>2. Cleared(x, z, g, s, pre, p, b, T, level)  BY <1>3
  <2> HIDE DEF b
  <2>3. ClearPre(z, g, s, pre, id, b + 1, aHi, m, T, level)  BY <1>3, <2>1, <2>2, ClearGoesOn
  <2> QED BY <2>1, <2>3
<1>5. /\ Hi(z, g, n) <= pHi /\ q <= Hi(z, g, n) /\ Hi(z, g, n) \in Nat /\ Piece(s, q, Hi(z, g, n))
  BY <1>2, <1>3, <1>4, HeadLoaded
<1>6. q \in Starts(s, level, Num(g, n))  BY <1>2, <1>5 DEF Starts
<1>7. CutPre(z, g, n, pre, T, level)
  <2>1. Inv(z, g, Root, 0, T) /\ LeadsTo(z, pre, id)  BY <1>4, ClearFacts
  <2> QED BY <1>1, <1>3, <2>1 DEF CutPre
<1>8. CutPost(z, y, g, n, pre, T, level)  BY <1>7, CutCorrect
<1>9. Cleared(z, y, g, s, pre, q, Hi(z, g, n), T, level)
  <2>1. Lo(z, g, n) \in s.left .. s.right  BY <1>2, <1>3
  <2>l. z.lvl \in Levels /\ Near(z, g, s, n)
    <3>1. z.lvl \in Levels /\ z.lvl <= x.lvl  BY <1>3 DEF Cleared, Unmoved
    <3>2. z.lvl <= level
      <4>1. z.lvl \in Nat /\ x.lvl \in Nat  BY <1>0, <3>1, LevelInt
      <4> QED BY <3>1, <4>1
    <3> QED BY <1>1, <3>1, <3>2 DEF Near
  <2>2. Cleared(z, y, g, s, pre, Lo(z, g, n), Hi(z, g, n), T, level)
    BY <1>0, <1>7, <1>8, <2>1, <2>l, CutCleared
  <2> QED BY <1>3, <2>2
<1>10. Cleared(x, y, g, s, pre, p, Hi(z, g, n), T, level)
  <2> DEFINE b == q - 1
             e == Hi(z, g, n)
  <2>1. b \in Int /\ e \in Int /\ p \in Int /\ p <= b + 1 /\ b <= e /\ b + 1 = q
    BY <1>0, <1>2, <1>5
  <2>2. Cleared(x, z, g, s, pre, p, b, T, level) /\ Cleared(z, y, g, s, pre, b + 1, e, T, level)
    BY <1>3, <1>9, <2>1
  <2> HIDE DEF b, e
  <2>3. Cleared(x, y, g, s, pre, p, e, T, level)  BY <1>0, <2>1, <2>2, ClearedTwice
  <2> QED BY <2>3 DEF e
<1>11. ASSUME Kept(y, n, pre) PROVE n \in Valid(y)
  <2>1. n[1] \in UsedIds(y)  BY <1>8, <1>11 DEF Kept, CutPost
  <2>2. n \in UsedIds(y) \X Index  BY <1>3, <2>1 DEF Valid
  <2> QED BY <1>11, <2>2 DEF Kept, Valid
<1> QED BY <1>2, <1>3, <1>5, <1>6, <1>8, <1>10, <1>11 DEF CutPost

\* The pieces that begin before q.
Earlier(S, q) == {a \in S : a < q}

\* There is one piece more before the end of the piece at q than before q.
LEMMA OneMore ==
    ASSUME NEW S, IsFiniteSet(S), NEW q \in S, NEW e \in Int, q < e, S \subseteq Int, NEW k \in Nat,
           Cardinality(Earlier(S, q)) >= k
    PROVE  Cardinality(Earlier(S, e)) >= k + 1 /\ Cardinality(Earlier(S, e)) <= Cardinality(S)
<1> DEFINE A == Earlier(S, q)
           B == A \cup {q}
           C == Earlier(S, e)
<1>1. A \subseteq S /\ C \subseteq S /\ B \subseteq C /\ q \notin A
  <2>1. A \subseteq S /\ C \subseteq S  BY DEF Earlier
  <2>2. q \notin A  BY DEF Earlier
  <2>3. \A a \in S : a < q => a < e  OBVIOUS
  <2>4. B \subseteq C  BY <2>3 DEF Earlier
  <2> QED BY <2>1, <2>2, <2>4
<1>2. IsFiniteSet(A) /\ IsFiniteSet(C) /\ Cardinality(C) <= Cardinality(S)  BY <1>1, FS_Subset
<1> HIDE DEF A, C
<1>3. Cardinality(B) = Cardinality(A) + 1  BY <1>1, <1>2, FS_AddElement
<1>4. Cardinality(B) <= Cardinality(C)  BY <1>1, <1>2, FS_Subset
<1>5. Cardinality(A) \in Nat /\ Cardinality(C) \in Nat  BY <1>2, FS_CardinalityType
<1> HIDE DEF B
<1>6. Cardinality(A) >= k  BY DEF A
<1>7. Cardinality(C) >= k + 1  BY <1>3, <1>4, <1>5, <1>6
<1> QED BY <1>2, <1>7 DEF C

\* After k passes: n holds what comes next, and k pieces are gone; or the loop
\* has ended at q.
LoopGoes(x, st, g, s, n, pre, p, pHi, T, k) ==
    st.go => \E q \in p .. pHi : /\ HeadAt(x, st.x, g, s, n, pre, p, q, T)
                                 /\ Cardinality(Earlier(Starts(s, level, Num(g, n)), q)) >= k
LoopEnds(x, st, g, s, n, pre, p, pHi, T, hi) ==
    ~st.go => \E q \in p + 1 .. pHi + 1 :
                  /\ Cleared(x, st.x, g, s, pre, p, q - 1, T, level) /\ st.x.ret = "ok"
                  /\ st.rest = q - Num(g, n) * Span(level)
                  /\ ~(Kept(st.x, n, pre) /\ st.rest = st.x.node[n].base /\ st.x.node[n].limit <= hi)

\* The loop starts at x for the part p .. pHi of n.
LoopAt(x, g, s, pre, id, p, aHi, m, T, pHi, n, hi) ==
    /\ ClearPre(x, g, s, pre, id, p, aHi, m, T, level) /\ n \in Valid(x) /\ n[1] = id
    /\ InPart(g, s, n, p, pHi) /\ pHi <= aHi /\ pHi <= m /\ hi = pHi - Num(g, n) * Span(level)
    /\ x.lvl <= level

\* The loop body keeps that.
LEMMA LoopPass ==
    ASSUME SwapBelowOK, level \in Nat,
           NEW x, NEW g, NEW s, NEW pre, NEW id, NEW p, NEW aHi, NEW m, NEW T, NEW pHi, NEW n, NEW hi,
           LoopAt(x, g, s, pre, id, p, aHi, m, T, pHi, n, hi),
           NEW c, c.n = n, c.pre = pre, c.hi = hi, NEW k \in Nat, NEW st, st.go \in BOOLEAN,
           LoopGoes(x, st, g, s, n, pre, p, pHi, T, k), LoopEnds(x, st, g, s, n, pre, p, pHi, T, hi),
           NEW r, r = ClearHeadPass(st, c, k + 1)
    PROVE  /\ r.go \in BOOLEAN
           /\ LoopGoes(x, r, g, s, n, pre, p, pHi, T, k + 1) /\ LoopEnds(x, r, g, s, n, pre, p, pHi, T, hi)
<1>0. /\ ClearPre(x, g, s, pre, id, p, aHi, m, T, level) /\ n \in Valid(x) /\ n[1] = id
      /\ InPart(g, s, n, p, pHi) /\ pHi <= aHi /\ pHi <= m /\ hi = pHi - Num(g, n) * Span(level)
      /\ x.lvl <= level
  BY DEF LoopAt
<1>1. CASE ~st.go
  <2>1. r = st  BY <1>1 DEF ClearHeadPass
  <2> QED BY <1>1, <2>1 DEF LoopGoes
<1>2. CASE st.go
  <2> DEFINE z == st.x
             y == ummu_table_clear_node(z, n, pre)
             e == Hi(z, g, n)
             S == Starts(s, level, Num(g, n))
             rest == z.node[n].limit + 1
  <2>1. PICK q \in p .. pHi : HeadAt(x, z, g, s, n, pre, p, q, T) /\ Cardinality(Earlier(S, q)) >= k
    BY <1>2 DEF LoopGoes
  <2>2. /\ e \in q .. pHi /\ q \in S
        /\ Cleared(x, y, g, s, pre, p, e, T, level) /\ y.ret = "ok"
        /\ Kept(y, n, pre) => n \in Valid(y)
    BY <1>0, <2>1, HeadPass
  <2>3. /\ p \in Nat /\ pHi \in Nat /\ q \in Nat /\ e \in Nat /\ q < e + 1 /\ e <= pHi /\ p <= q
        /\ Num(g, n) \in Nat /\ Span(level) \in Nat /\ Num(g, n) * Span(level) \in Nat /\ S \subseteq Int
        /\ Segments(T) /\ s \in T /\ level \in Levels
    <3>1. p \in Nat /\ Segments(T) /\ s \in T /\ level \in Levels /\ Shape(x) /\ Counted(x) /\ Placed(x, g)
      BY <1>0, ClearFacts
    <3>2. \A a \in s.left .. s.right : a \in Nat  BY <3>1, SegmentFacts
    <3>3. pHi \in Nat /\ S \subseteq Int  BY <1>0, <3>2 DEF InPart, Starts
    <3>4. Num(g, n) \in Nat  BY <1>0, <3>1, InNodes, NodePlace
    <3>5. Span(level) \in Nat  BY <3>1, SpanFacts
    <3> QED BY <2>2, <3>1, <3>3, <3>4, <3>5
  <2>4. z.node[n].limit \in Nat /\ e = Num(g, n) * Span(level) + z.node[n].limit
    <3>1. n \in Valid(z) /\ Shape(z) /\ Counted(z)  BY <2>1 DEF HeadAt, Cleared, Inv, Sound
    <3>2. IsNode(z.node[n])  BY <3>1, InNodes, UsedNode
    <3>3. Level(g, n) = level  BY <1>0, ClearFacts DEF Level
    <3> QED BY <3>2, <3>3 DEF IsNode, Hi
  <2>5. Cardinality(Earlier(S, e + 1)) >= k + 1 /\ k + 1 < max_loop
    <3>1. IsFiniteSet(S) /\ Cardinality(S) \in Nat /\ Cardinality(S) < max_loop
      BY <2>3, FewPieces
    <3>2. Cardinality(Earlier(S, e + 1)) >= k + 1 /\ Cardinality(Earlier(S, e + 1)) <= Cardinality(S)
      <4> DEFINE f == e + 1
      <4>1. f \in Int /\ q < f  BY <2>3
      <4> HIDE DEF f, S
      <4>2. Cardinality(Earlier(S, f)) >= k + 1 /\ Cardinality(Earlier(S, f)) <= Cardinality(S)
        BY <2>1, <2>2, <2>3, <3>1, <4>1, OneMore
      <4> QED BY <4>2 DEF f
    <3>3. Cardinality(Earlier(S, e + 1)) \in Nat
      <4>1. Earlier(S, e + 1) \subseteq S  BY DEF Earlier
      <4> HIDE DEF S
      <4> QED BY <3>1, <4>1, FS_Subset, FS_CardinalityType
    <3> HIDE DEF S, e
    <3> QED BY <3>1, <3>2, <3>3, MaxLoop
  <2>6. r = PassEnd(y, rest, c, k + 1)  BY <1>2 DEF ClearHeadPass
  <2> DEFINE go == Kept(y, n, pre) /\ rest = y.node[n].base /\ y.node[n].limit <= hi
  <2>7. r = [x |-> y, rest |-> rest, go |-> go]
    <3> HIDE DEF y, rest
    <3>1. ~(k + 1 >= max_loop)  BY <2>5, MaxLoop
    <3> QED BY <2>6, <3>1 DEF PassEnd
  <2>8. rest = (e + 1) - Num(g, n) * Span(level)
    <3> HIDE DEF e
    <3> QED BY <2>3, <2>4
  <2>9. (e + 1) - 1 = e /\ e + 1 \in p + 1 .. pHi + 1
    <3> HIDE DEF e
    <3> QED BY <2>3
  <2>10. ASSUME go PROVE e + 1 \in p .. pHi /\ HeadAt(x, y, g, s, n, pre, p, e + 1, T)
    <3>1. n \in Valid(y)  BY <2>2, <2>10
    <3>2. /\ Inv(y, g, Root, 0, T) /\ Shape(y) /\ Counted(y) /\ Placed(y, g) /\ Segments(T)
          /\ Content(y, g, Root, T) /\ n \in Valid(y) \ {Root}
      BY <2>2, <3>1, RootNotValid DEF Cleared, Inv, Sound, Holding
    <3>3. Lo(y, g, n) <= Hi(y, g, n) /\ IsNode(y.node[n])
      BY <3>1, <3>2, NodeContent, InNodes, UsedNode
    <3>4. Level(g, n) = level  BY <1>0, ClearFacts DEF Level
    <3>5. y.node[n].base \in Nat /\ y.node[n].limit \in Nat  BY <3>3 DEF IsNode
    <3>6. Lo(y, g, n) = Num(g, n) * Span(level) + y.node[n].base
          /\ Hi(y, g, n) = Num(g, n) * Span(level) + y.node[n].limit
      BY <3>4 DEF Lo, Hi
    <3>7. rest = y.node[n].base /\ y.node[n].limit <= hi  BY <2>10
    <3> HIDE DEF e, y, rest
    <3>8. Lo(y, g, n) = e + 1 /\ Hi(y, g, n) <= pHi  BY <1>0, <2>3, <2>8, <3>5, <3>6, <3>7
    <3>9. e + 1 \in p .. pHi  BY <2>3, <3>3, <3>5, <3>6, <3>8
    <3> QED BY <2>2, <2>9, <3>1, <3>8, <3>9 DEF HeadAt
  <2> HIDE DEF y, rest, e, S
  <2>11. (r.go <=> go) /\ r.go \in BOOLEAN /\ r.x = y /\ r.rest = rest
    <3>1. go \in BOOLEAN  BY Zenon
    <3> HIDE DEF go
    <3>2. r.go = go /\ r.x = y /\ r.rest = rest  BY <2>7
    <3> QED BY <3>1, <3>2
  <2>12. LoopGoes(x, r, g, s, n, pre, p, pHi, T, k + 1)
    <3> SUFFICES ASSUME go
                 PROVE  \E w \in p .. pHi : /\ HeadAt(x, y, g, s, n, pre, p, w, T)
                                            /\ Cardinality(Earlier(S, w)) >= k + 1
      BY <2>11 DEF LoopGoes, S
    <3> QED BY <2>5, <2>10
  <2>13. LoopEnds(x, r, g, s, n, pre, p, pHi, T, hi)
    <3> SUFFICES ASSUME ~go
                 PROVE  \E w \in p + 1 .. pHi + 1 :
                          /\ Cleared(x, y, g, s, pre, p, w - 1, T, level) /\ y.ret = "ok"
                          /\ rest = w - Num(g, n) * Span(level)
                          /\ ~(Kept(y, n, pre) /\ rest = y.node[n].base /\ y.node[n].limit <= hi)
      BY <2>11 DEF LoopEnds
    <3> QED BY <2>2, <2>8, <2>9
  <2> QED BY <2>11, <2>12, <2>13
<1> QED BY <1>1, <1>2

\* What the function promises one level down.
ClearBelowOK == \A x, g, s, pre, id, lo, hi, aLo, aHi, m, T :
    ClearPre(x, g, s, pre, id, aLo, aHi, m, T, level + 1) /\ Offsets(g, id, lo, hi, aLo, aHi) =>
        ClearPost(x, ClearBelow(x, pre, lo, hi), g, s, pre, aLo, aHi, m, T, level + 1)

\* A node that does not hold the head of what is left, but has a next level.
BelowCase(x, y, g, s, pre, id, p, aHi, m, T, pHi, n, lo, hi) ==
    /\ ClearPre(x, g, s, pre, id, p, aHi, m, T, level) /\ n \in Valid(x) /\ n[1] = id
    /\ InPart(g, s, n, p, pHi) /\ pHi <= aHi /\ Lo(x, g, n) # p /\ x.node[n].type = 0
    /\ lo = p - Num(g, n) * Span(level) /\ hi = pHi - Num(g, n) * Span(level)
    /\ y = ClearBelow(x, n, lo, hi)

\* Such a part is cleared by the function below.
LEMMA BelowDone ==
    ASSUME ClearBelowOK, level \in Nat,
           NEW x, NEW y, NEW g, NEW s, NEW pre, NEW id, NEW p, NEW aHi, NEW m, NEW T, NEW pHi, NEW n,
           NEW lo, NEW hi, BelowCase(x, y, g, s, pre, id, p, aHi, m, T, pHi, n, lo, hi)
    PROVE  Cleared(x, y, g, s, pre, p, pHi, T, level) /\ (y.ret = "ok" <=> pHi <= m)
<1> DEFINE k == x.node[n].next
<1>0. /\ ClearPre(x, g, s, pre, id, p, aHi, m, T, level) /\ n \in Valid(x) /\ n[1] = id
      /\ InPart(g, s, n, p, pHi) /\ pHi <= aHi /\ Lo(x, g, n) # p /\ x.node[n].type = 0
      /\ lo = p - Num(g, n) * Span(level) /\ hi = pHi - Num(g, n) * Span(level)
      /\ y = ClearBelow(x, n, lo, hi)
  BY Zenon DEF BelowCase
<1>1. ClearPre(x, g, s, n, k, p, pHi, m, T, level + 1) /\ BlockStart(g, k) = Num(g, n) * Span(level)
  BY <1>0, GoesBelow
<1>2. Offsets(g, k, lo, hi, p, pHi)  BY <1>0, <1>1 DEF Offsets
<1> HIDE DEF k
<1>3. ClearPost(x, y, g, s, n, p, pHi, m, T, level + 1)  BY <1>0, <1>1, <1>2 DEF ClearBelowOK
<1>4. Inv(x, g, Root, 0, T) /\ LeadsTo(x, pre, n[1]) /\ Level(g, n) = level
  BY <1>0, ClearFacts DEF Level
<1> QED BY <1>0, <1>3, <1>4, BelowCleared DEF ClearPost

\* The loop and what follows it clear the part of a node that holds its head.
LEMMA HeadLoop ==
    ASSUME SwapBelowOK, ClearBelowOK, level \in Nat,
           NEW x, NEW g, NEW s, NEW pre, NEW id, NEW p, NEW aHi, NEW m, NEW T, NEW pHi, NEW n, NEW hi,
           ClearPre(x, g, s, pre, id, p, aHi, m, T, level), n \in Valid(x), n[1] = id,
           InPart(g, s, n, p, pHi), pHi <= aHi, pHi <= m, hi = pHi - Num(g, n) * Span(level),
           Lo(x, g, n) = p, x.lvl <= level, NEW y, y = ClearHeadLoop(x, pre, n, hi)
    PROVE  Cleared(x, y, g, s, pre, p, pHi, T, level) /\ y.ret = "ok"
<1> DEFINE c == [n |-> n, pre |-> pre, hi |-> hi]
           start == [x |-> x, rest |-> 0, go |-> TRUE]
           it(k) == ClearHead!Iterate(start, c, k)
           S == Starts(s, level, Num(g, n))
           Good(st, k) == /\ st.go \in BOOLEAN /\ LoopGoes(x, st, g, s, n, pre, p, pHi, T, k)
                          /\ LoopEnds(x, st, g, s, n, pre, p, pHi, T, hi)
           U == {k \in Nat : Good(it(k), k)}
<1>0. /\ Inv(x, g, Root, 0, T) /\ Sound(x, g, 0) /\ Shape(x) /\ Counted(x) /\ Placed(x, g)
      /\ s \in T /\ Segments(T) /\ g.lev[id] = level /\ LeadsTo(x, pre, id) /\ x.ret = "ok"
      /\ level \in Levels /\ p \in Nat /\ aHi \in Nat /\ m \in Int /\ s.left \in Nat /\ s.right \in Nat
      /\ x.lvl \in Levels /\ \A a \in s.left .. s.right : a \in Nat
  BY ClearFacts
<1>l. LoopAt(x, g, s, pre, id, p, aHi, m, T, pHi, n, hi)  BY DEF LoopAt
<1>1. /\ Level(g, n) = level /\ Num(g, n) \in Nat /\ Span(level) \in Nat
      /\ Num(g, n) * Span(level) \in Nat /\ pHi \in Nat /\ p <= pHi
  <2>1. Level(g, n) = level  BY <1>0 DEF Level
  <2>2. Num(g, n) \in Nat  BY <1>0, InNodes, NodePlace
  <2>3. Span(level) \in Nat  BY <1>0, SpanFacts
  <2>4. pHi \in Nat /\ p <= pHi  BY <1>0 DEF InPart
  <2> QED BY <2>1, <2>2, <2>3, <2>4
<1>2. c.n = n /\ c.pre = pre /\ c.hi = hi /\ start.x = x /\ start.go = TRUE  OBVIOUS
<1> HIDE DEF c, start
<1>3. it(0) = start /\ \A k \in Nat : it(k + 1) = ClearHeadPass(it(k), c, k + 1)
  BY ClearHead!IterateStep
<1> HIDE DEF it
<1>4. IsFiniteSet(S) /\ Cardinality(S) \in Nat /\ Cardinality(S) < max_loop  BY <1>0, FewPieces
<1>5. 0 \in U
  <2>1. HeadAt(x, x, g, s, n, pre, p, p, T)
    <3>1. Alike(x, x)  BY <1>0 DEF Alike, Shape
    <3>2. pre \in Nodes(x) /\ (pre # Root => pre \in Valid(x))  BY <1>0, WayIn
    <3> DEFINE b == p - 1
    <3>3. b \in Int /\ b < p /\ p \in Int  BY <1>0
    <3> HIDE DEF b
    <3>4. Cleared(x, x, g, s, pre, p, b, T, level)
      BY <1>0, <3>1, <3>2, <3>3, ClearedNone, LevelInt
    <3> QED BY <1>0, <3>4 DEF HeadAt, b
  <2>2. Cardinality(Earlier(S, p)) >= 0
    <3>1. Earlier(S, p) \subseteq S  BY DEF Earlier
    <3> HIDE DEF S
    <3>2. Cardinality(Earlier(S, p)) \in Nat  BY <1>4, <3>1, FS_Subset, FS_CardinalityType
    <3> QED BY <3>2
  <2>3. p \in p .. pHi  BY <1>0, <1>1
  <2>4. LoopGoes(x, start, g, s, n, pre, p, pHi, T, 0)  BY <1>2, <2>1, <2>2, <2>3 DEF LoopGoes
  <2>5. LoopEnds(x, start, g, s, n, pre, p, pHi, T, hi)  BY <1>2 DEF LoopEnds
  <2> QED BY <1>2, <1>3, <2>4, <2>5
<1>6. \A k \in Nat : k \in U => k + 1 \in U
  <2> SUFFICES ASSUME NEW k \in Nat, Good(it(k), k) PROVE Good(it(k + 1), k + 1)  OBVIOUS
  <2>1. it(k + 1) = ClearHeadPass(it(k), c, k + 1)  BY <1>3
  <2> DEFINE a == it(k)
             r == it(k + 1)
  <2>2. /\ a.go \in BOOLEAN /\ LoopGoes(x, a, g, s, n, pre, p, pHi, T, k)
        /\ LoopEnds(x, a, g, s, n, pre, p, pHi, T, hi) /\ r = ClearHeadPass(a, c, k + 1)
    BY <2>1
  <2> HIDE DEF a, r
  <2>3. /\ r.go \in BOOLEAN
        /\ LoopGoes(x, r, g, s, n, pre, p, pHi, T, k + 1) /\ LoopEnds(x, r, g, s, n, pre, p, pHi, T, hi)
    BY <1>2, <1>l, <2>2, LoopPass
  <2> QED BY <2>3 DEF r
<1>7. Nat \subseteq U
  <2> HIDE DEF U
  <2> QED BY <1>5, <1>6, ClearHead!NatSetInduction
<1> DEFINE st == it(max_loop)
<1>8. Good(st, max_loop)  BY <1>7, MaxLoop
<1>9. y = ClearRest(st, pre, n, hi)  BY DEF ClearHeadLoop, it, start, c
<1> HIDE DEF st, U
<1>10. ~st.go
  <2> SUFFICES ASSUME st.go PROVE FALSE  OBVIOUS
  <2>1. PICK q \in p .. pHi : Cardinality(Earlier(S, q)) >= max_loop  BY <1>8 DEF LoopGoes
  <2>2. Earlier(S, q) \subseteq S  BY DEF Earlier
  <2> HIDE DEF S
  <2>3. Cardinality(Earlier(S, q)) <= Cardinality(S) /\ Cardinality(Earlier(S, q)) \in Nat
    BY <1>4, <2>2, FS_Subset, FS_CardinalityType
  <2> QED BY <1>4, <2>1, <2>3, MaxLoop
<1>11. PICK q \in p + 1 .. pHi + 1 :
           /\ Cleared(x, st.x, g, s, pre, p, q - 1, T, level) /\ st.x.ret = "ok"
           /\ st.rest = q - Num(g, n) * Span(level)
           /\ ~(Kept(st.x, n, pre) /\ st.rest = st.x.node[n].base /\ st.x.node[n].limit <= hi)
  BY <1>8, <1>10 DEF LoopEnds
<1> DEFINE z == st.x
<1>12. q \in Nat /\ p < q /\ q <= pHi + 1  BY <1>0, <1>1
<1>13. CASE q = pHi + 1
  <2>1. ~(st.rest <= hi)  BY <1>1, <1>11, <1>12, <1>13
  <2>2. y = z  BY <1>9, <2>1 DEF ClearRest
  <2>3. q - 1 = pHi  BY <1>1, <1>13
  <2> QED BY <1>11, <2>2, <2>3
<1>14. CASE q # pHi + 1
  <2>1. q \in p .. pHi /\ q <= pHi /\ q <= aHi /\ q <= m  BY <1>0, <1>1, <1>12, <1>14
  <2>2. InPart(g, s, n, q, pHi) /\ q \in s.left .. s.right  BY <1>0, <1>1, <2>1, InPartLater
  <2>3. ClearPre(z, g, s, pre, id, q, aHi, m, T, level)
    <3> DEFINE b == q - 1
    <3>1. b \in Int /\ p <= b + 1 /\ b < aHi /\ b <= m /\ b + 1 = q  BY <1>0, <1>12, <2>1
    <3>2. Cleared(x, z, g, s, pre, p, b, T, level)  BY <1>11
    <3> HIDE DEF b
    <3>3. ClearPre(z, g, s, pre, id, b + 1, aHi, m, T, level)  BY <1>11, <3>1, <3>2, ClearGoesOn
    <3> QED BY <3>1, <3>3
  <2>4. /\ Inv(z, g, Root, 0, T) /\ Shape(z) /\ Counted(z) /\ id \in UsedIds(z) /\ z.node[pre].type = 0
        /\ Placed(z, g)
    BY <2>3, ClearFacts
  <2>5. n \in UsedIds(z) \X Index
    <3>1. n \in UsedIds(x) \X Index  BY DEF Valid
    <3> QED BY <2>4, <3>1
  <2>6. n \in Valid(z)
    <3>1. Cell(level, q) = Num(g, n)  BY <1>1, <2>2 DEF InPart
    <3> QED BY <2>3, <2>5, <3>1, HeadValid
  <2>7. Kept(z, n, pre) /\ IsNode(z.node[n])  BY <2>4, <2>5, <2>6, UsedNode DEF Kept, Valid
  <2>8. z.node[n].base \in Nat /\ z.node[n].limit \in Nat /\ z.node[n].type \in {0, 1}
    BY <2>7 DEF IsNode
  <2>9. Lo(z, g, n) = Num(g, n) * Span(level) + z.node[n].base
        /\ Hi(z, g, n) = Num(g, n) * Span(level) + z.node[n].limit
    BY <1>1 DEF Lo, Hi
  <2>10. Lo(z, g, n) # q
    <3> SUFFICES ASSUME Lo(z, g, n) = q PROVE FALSE  OBVIOUS
    <3>1. Hi(z, g, n) <= pHi  BY <2>2, <2>3, <2>6, HeadLoaded
    <3> HIDE DEF z
    <3>2. st.rest = z.node[n].base /\ z.node[n].limit <= hi
      BY <1>1, <1>11, <1>12, <2>8, <2>9, <3>1
    <3> QED BY <1>11, <2>7, <3>2 DEF z
  <2>11. z.node[n].type = 0
    <3>1. z.node[n].type # 0 => m = q - 1  BY <2>2, <2>3, <2>6, <2>10, GoesBelow
    <3> QED BY <1>0, <1>12, <2>1, <3>1
  <2>12. st.rest <= hi  BY <1>1, <1>11, <1>12, <2>1
  <2>13. y = ClearBelow(z, n, st.rest, hi)  BY <1>9, <1>11, <2>7, <2>11, <2>12 DEF ClearRest
  <2>14. Cleared(z, y, g, s, pre, q, pHi, T, level) /\ (y.ret = "ok" <=> pHi <= m)
    <3> DEFINE lo == st.rest
    <3>1. lo = q - Num(g, n) * Span(level) /\ y = ClearBelow(z, n, lo, hi)  BY <1>11, <2>13
    <3> HIDE DEF z, lo
    <3>2. BelowCase(z, y, g, s, pre, id, q, aHi, m, T, pHi, n, lo, hi)
      BY <2>2, <2>3, <2>6, <2>10, <2>11, <3>1 DEF BelowCase
    <3> QED BY <3>2, BelowDone, Zenon
  <2>15. Cleared(x, y, g, s, pre, p, pHi, T, level)
    <3> DEFINE b == q - 1
    <3>1. b \in Int /\ p \in Int /\ pHi \in Int /\ p <= b + 1 /\ b <= pHi /\ b + 1 = q
      BY <1>0, <1>1, <1>12
    <3>2. Cleared(x, z, g, s, pre, p, b, T, level) /\ Cleared(z, y, g, s, pre, b + 1, pHi, T, level)
      BY <1>11, <2>14, <3>1
    <3> HIDE DEF b, z
    <3> QED BY <1>0, <3>1, <3>2, ClearedTwice
  <2> QED BY <2>14, <2>15
<1> QED BY <1>13, <1>14

\* A middle node of the range holds its cell and is cleared as a whole.
LEMMA MiddleDone ==
    ASSUME SwapBelowOK, level \in Nat,
           NEW x, NEW g, NEW s, NEW pre, NEW id, NEW p, NEW aHi, NEW m, NEW T, NEW pHi, NEW n,
           ClearPre(x, g, s, pre, id, p, aHi, m, T, level), n \in Valid(x), n[1] = id,
           InPart(g, s, n, p, pHi),
           CellInside(s, level, Num(g, n), p),
           NEW y, y = ummu_table_clear_node(x, n, pre)
    PROVE  Cleared(x, y, g, s, pre, p, pHi, T, level) /\ y.ret = "ok" /\ pHi <= m
<1>0. /\ Inv(x, g, Root, 0, T) /\ Shape(x) /\ Counted(x) /\ Placed(x, g) /\ s \in T /\ Segments(T)
      /\ LeadsTo(x, pre, id) /\ g.lev[id] = level /\ x.ret = "ok" /\ p \in Nat /\ m \in Int
      /\ s.left \in Nat /\ s.right \in Nat /\ x.lvl \in Levels
      /\ \A a \in s.left .. s.right : Cov(x, g, Root, a) <=> p <= a /\ a <= m
  BY ClearFacts
<1>1. /\ Level(g, n) = level
      /\ \A a \in Nat : Cell(level, a) = Num(g, n) => a \in s.left .. s.right /\ p <= a
  BY <1>0 DEF Level, CellInside
<1>2. \A a \in Nat : Cell(level, a) = Num(g, n) => Holds(x, g, n, a)  BY <1>0, <1>1, CellFull
<1>3. /\ p \in s.left .. s.right /\ pHi \in s.left .. s.right /\ pHi \in Nat
      /\ Cell(level, p) = Num(g, n) /\ Cell(level, pHi) = Num(g, n)
      /\ \A a \in s.left .. s.right : Cell(level, a) = Num(g, n) => a <= pHi
  BY <1>0, <1>1 DEF InPart
<1>4. Holds(x, g, n, p) /\ Holds(x, g, n, pHi)  BY <1>0, <1>2, <1>3
<1>5. /\ Lo(x, g, n) \in s.left .. s.right /\ Hi(x, g, n) \in s.left .. s.right
      /\ Lo(x, g, n) <= p /\ pHi <= Hi(x, g, n)
      /\ Cell(level, Lo(x, g, n)) = Num(g, n) /\ Cell(level, Hi(x, g, n)) = Num(g, n)
  <2>1. Lo(x, g, n) <= p /\ pHi <= Hi(x, g, n)  BY <1>4 DEF Holds
  <2> QED BY <1>0, <1>1, <1>3, <1>4, <2>1, HoldsPart
<1>6. Lo(x, g, n) \in Nat /\ Hi(x, g, n) \in Nat  BY <1>0, <1>5
<1>7. Lo(x, g, n) = p /\ Hi(x, g, n) = pHi
  <2>1. p <= Lo(x, g, n) /\ Hi(x, g, n) <= pHi  BY <1>1, <1>3, <1>5, <1>6
  <2> QED BY <1>0, <1>3, <1>5, <1>6, <2>1
<1>8. CutPre(x, g, n, pre, T, level)  BY <1>0, <1>1 DEF CutPre
<1>9. CutPost(x, y, g, n, pre, T, level)  BY <1>8, CutCorrect
<1>10. Cleared(x, y, g, s, pre, Lo(x, g, n), Hi(x, g, n), T, level)
  <2>1. Near(x, g, s, n)  BY <1>1, SpanFacts DEF Near, Addr
  <2> QED BY <1>0, <1>5, <1>8, <1>9, <2>1, CutCleared
<1>11. y.ret = "ok"  BY <1>0, <1>9 DEF CutPost
<1>12. Cov(x, g, Root, pHi)  BY <1>4, RootNotValid DEF Cov
<1> QED BY <1>0, <1>3, <1>7, <1>10, <1>11, <1>12

\* ummu_table_clear_head_node clears the part of the first or the last node,
\* and fails if it is not there.
LEMMA HeadDone ==
    ASSUME SwapBelowOK, ClearBelowOK, level \in Nat,
           NEW x, NEW g, NEW s, NEW pre, NEW id, NEW p, NEW aHi, NEW m, NEW T, NEW pHi, NEW n,
           NEW lo, NEW hi,
           ClearPre(x, g, s, pre, id, p, aHi, m, T, level), n \in Valid(x), n[1] = id,
           InPart(g, s, n, p, pHi), pHi <= aHi,
           PartOffsets(g, n, lo, hi, p, pHi),
           NEW y, y = ummu_table_clear_head_node(x, pre, n, lo, hi)
    PROVE  Cleared(x, y, g, s, pre, p, pHi, T, level) /\ (y.ret = "ok" <=> pHi <= m)
<1>0. /\ Inv(x, g, Root, 0, T) /\ Sound(x, g, 0) /\ Shape(x) /\ Counted(x) /\ Placed(x, g)
      /\ s \in T /\ Segments(T) /\ LeadsTo(x, pre, id) /\ g.lev[id] = level /\ x.ret = "ok"
      /\ p \in Nat /\ m \in Int /\ aHi \in Nat /\ p <= aHi /\ p - 1 <= m
      /\ s.left \in Nat /\ s.right \in Nat /\ m <= s.right /\ level \in Levels /\ x.lvl \in Levels
      /\ \A a \in s.left .. s.right : Cov(x, g, Root, a) <=> p <= a /\ a <= m
  BY ClearFacts
<1>1. Level(g, n) = level /\ IsNode(x.node[n]) /\ n \in UsedIds(x) \X Index
  BY <1>0, InNodes, UsedNode DEF Level
<1>b. lo = p - Num(g, n) * Span(level) /\ hi = pHi - Num(g, n) * Span(level)
  BY <1>1 DEF PartOffsets
<1>2. /\ Num(g, n) * Span(level) \in Nat
      /\ p \in s.left .. s.right /\ pHi \in s.left .. s.right /\ pHi \in Nat /\ p <= pHi
  <2>1. Num(g, n) \in Nat /\ Span(level) \in Nat  BY <1>0, <1>1, NodePlace, SpanFacts
  <2> QED BY <1>0, <2>1 DEF InPart
<1>3. x.node[n].base = lo <=> Lo(x, g, n) = p
  <2>1. Lo(x, g, n) = Num(g, n) * Span(level) + x.node[n].base  BY <1>1 DEF Lo
  <2> QED BY <1>0, <1>1, <1>b, <1>2, <2>1 DEF IsNode
<1>4. pre \in Nodes(x) /\ (pre # Root => pre \in Valid(x))  BY <1>0, WayIn
<1> DEFINE x1 == [x EXCEPT !.lvl = Min({@, level})]
           b == p - 1
<1>5. /\ Alike(x, x1) /\ x1.ret = "ok" /\ Alike(x, Fail(x)) /\ Fail(x).ret = "error"
  <2>1. DOMAIN x = TableFields  BY <1>0 DEF Shape
  <2> QED BY <1>0, <2>1 DEF Alike, Fail, TableFields
<1>l. /\ x1.lvl \in Levels /\ x1.lvl <= x.lvl /\ x1.lvl <= level
      /\ Fail(x).lvl = x.lvl /\ x.lvl <= x.lvl
  <2>1. DOMAIN x = TableFields  BY <1>0 DEF Shape
  <2> DEFINE M == {x.lvl, level}
  <2>2. M \in SUBSET Nat /\ M # {}  BY <1>0, LevelNat
  <2> HIDE DEF M
  <2>3. Min(M) \in M /\ \A k \in M : Min(M) <= k  BY <2>2, Least
  <2>4. x1.lvl = Min(M)  BY <2>1 DEF TableFields, M
  <2>5. Fail(x).lvl = x.lvl  BY <2>1 DEF Fail, TableFields
  <2> HIDE DEF x1
  <2>6. x1.lvl \in Levels /\ x1.lvl <= x.lvl /\ x1.lvl <= level  BY <1>0, <2>3, <2>4 DEF M
  <2> QED BY <1>0, <2>5, <2>6, LevelInt
<1>6. y = CASE x.node[n].base = lo -> ClearHeadLoop(x1, pre, n, hi)
            [] x.node[n].base # lo /\ x.node[n].type = 0 -> ClearBelow(x, n, lo, hi)
            [] OTHER -> Fail(x)
  BY Zenon DEF ummu_table_clear_head_node
<1>7. b \in Int /\ b < p /\ p \in Int /\ p <= b + 1 /\ b < aHi /\ b <= m /\ b + 1 = p /\ pHi \in Int /\ b <= pHi
  BY <1>0, <1>2
<1> HIDE DEF x1, b
<1>8. CASE x.node[n].base = lo
  <2>1. y = ClearHeadLoop(x1, pre, n, hi)  BY <1>6, <1>8
  <2>2. Cleared(x, x1, g, s, pre, p, b, T, level)  BY <1>0, <1>4, <1>5, <1>l, <1>7, ClearedNone
  <2>3. ClearPre(x1, g, s, pre, id, p, aHi, m, T, level)
    <3>1. ClearPre(x1, g, s, pre, id, b + 1, aHi, m, T, level)  BY <1>5, <1>7, <2>2, ClearGoesOn
    <3> QED BY <1>7, <3>1
  <2>4. n \in Valid(x1) /\ Lo(x1, g, n) = p
    <3>1. Valid(x1) = Valid(x) /\ Lo(x1, g, n) = Lo(x, g, n)
      BY <1>5 DEF Alike, Valid, UsedIds, Lo
    <3> QED BY <1>3, <1>8, <3>1
  <2>5. pHi <= m  BY <2>3, <2>4, HeadLoaded
  <2>6. Cleared(x1, y, g, s, pre, p, pHi, T, level) /\ y.ret = "ok"
    BY <1>b, <1>l, <2>1, <2>3, <2>4, <2>5, HeadLoop
  <2>7. Cleared(x1, y, g, s, pre, b + 1, pHi, T, level)  BY <1>7, <2>6
  <2>8. Cleared(x, y, g, s, pre, p, pHi, T, level)  BY <1>0, <1>7, <2>2, <2>7, ClearedTwice
  <2> QED BY <2>5, <2>6, <2>8
<1>9. CASE x.node[n].base # lo /\ x.node[n].type = 0
  <2>1. y = ClearBelow(x, n, lo, hi)  BY <1>6, <1>9
  <2>2. Lo(x, g, n) # p /\ x.node[n].type = 0  BY <1>3, <1>9
  <2>3. BelowCase(x, y, g, s, pre, id, p, aHi, m, T, pHi, n, lo, hi)
    BY <1>b, <2>1, <2>2, Zenon DEF BelowCase
  <2> QED BY <2>3, BelowDone, Zenon
<1>10. CASE x.node[n].base # lo /\ x.node[n].type # 0
  <2>1. y = Fail(x)  BY <1>6, <1>10
  <2>2. m = p - 1  BY <1>3, <1>10, GoesBelow
  <2>3. Cleared(x, y, g, s, pre, p, b, T, level)
    BY <1>0, <1>4, <1>5, <1>l, <1>7, <2>1, ClearedNone
  <2>4. \A o \in Addr : b < o /\ o <= pHi => ~Cov(x, g, Root, o)
    <3> SUFFICES ASSUME NEW o \in Addr, b < o, o <= pHi PROVE ~Cov(x, g, Root, o)  OBVIOUS
    <3>1. o \in Nat  BY SpanFacts DEF Addr
    <3>2. o \in s.left .. s.right /\ ~(o <= m)  BY <1>0, <1>2, <1>7, <2>2, <3>1
    <3> QED BY <1>0, <3>2
  <2>5. Cleared(x, y, g, s, pre, p, pHi, T, level)  BY <1>7, <2>3, <2>4, ClearedMore
  <2>6. ~(pHi <= m) /\ y.ret = "error"  BY <1>0, <1>2, <1>5, <2>1, <2>2
  <2> QED BY <2>5, <2>6
<1> QED BY <1>8, <1>9, <1>10

\* One node of the scan of ummu_table_clear_node_by_level: its part of the
\* range is cleared, and there is no error if all of it was there.
LEMMA NodeCleared ==
    ASSUME SwapBelowOK, ClearBelowOK, level \in Nat,
           NEW x, NEW g, NEW s, NEW pre, NEW id, NEW aLo, NEW aHi, NEW m, NEW T,
           RangeIn(g, s, id, aLo, aHi), NEW k \in 1 .. Parts(level, aLo, aHi),
           ClearPre(x, g, s, pre, id, PartLo(level, aLo, k), aHi, m, T, level),
           NEW c, c.id = id, c.pre = pre, Offsets(g, id, c.lo, c.hi, aLo, aHi),
           NEW y, y = ClearNode(x, c, k)
    PROVE  /\ Cleared(x, y, g, s, pre, PartLo(level, aLo, k), PartHi(level, aLo, aHi, k), T, level)
           /\ y.ret = "ok" <=> PartHi(level, aLo, aHi, k) <= m
<1> DEFINE p == PartLo(level, aLo, k)
           pHi == PartHi(level, aLo, aHi, k)
           v == NthNode(level, c, k)
           n == v.n
<1>1. /\ Inv(x, g, Root, 0, T) /\ Shape(x) /\ Counted(x) /\ Placed(x, g)
      /\ s \in T /\ Segments(T) /\ g.lev[id] = level /\ level \in Levels /\ id \in UsedIds(x)
      /\ x.ret = "ok" /\ \A a \in s.left .. s.right : a \in Addr /\ a \in Nat
      /\ s.left \in Nat /\ s.right \in Nat
  BY ClearFacts
<1>2. /\ aLo \in s.left .. s.right /\ aHi \in s.left .. s.right /\ aLo <= aHi
      /\ InBlock(g, id, aLo) /\ InBlock(g, id, aHi)
      /\ \A a \in s.left .. s.right : InBlock(g, id, a) => a <= aHi
  BY DEF RangeIn
<1>3. aLo \in Nat /\ aHi \in Nat /\ g.num[id] \in Nat  BY <1>1, <1>2, UsedFacts DEF Placed
<1>4. /\ p \in Nat /\ pHi \in Nat /\ aLo <= p /\ p <= pHi /\ pHi <= aHi
      /\ Cell(level, p) = Cell(level, aLo) + k - 1 /\ Cell(level, pHi) = Cell(level, aLo) + k - 1
      /\ (k = Parts(level, aLo, aHi)) <=> (pHi = aHi)
      /\ \A a \in Nat : Cell(level, a) = Cell(level, aLo) + k - 1 =>
             /\ k # 1 => p <= a
             /\ k # Parts(level, aLo, aHi) => a <= pHi
  BY <1>1, <1>2, <1>3, PartFacts
<1>5. /\ v.n[1] = id /\ v.n[2] \in Index /\ v.n = <<id, Cell(level, aLo) + k - 1 - g.num[id] * Fan>>
      /\ Num(g, v.n) = Cell(level, aLo) + k - 1 /\ Level(g, v.n) = level
      /\ v.lo = p - Num(g, v.n) * Span(level) /\ v.hi = pHi - Num(g, v.n) * Span(level)
      /\ v.mid <=> k # 1 /\ k # Parts(level, aLo, aHi)
  BY <1>1, <1>2, <1>3, NthNodeIs
<1>6. y = IF x.ret # "ok" THEN x
          ELSE IF x.node[n].valid = 0 THEN Fail(x)
          ELSE IF v.mid THEN ummu_table_clear_node(x, n, c.pre)
          ELSE ummu_table_clear_head_node(x, c.pre, n, v.lo, v.hi)
  BY Zenon DEF ClearNode
<1>7. ClearPre(x, g, s, pre, id, p, aHi, m, T, level)  OBVIOUS
<1> HIDE DEF v, p, pHi
<1>8. n \in UsedIds(x) \X Index /\ n[1] = id /\ Level(g, n) = level /\ Num(g, n) = Cell(level, aLo) + k - 1
  BY <1>1, <1>5
<1>9. n \in Valid(x) /\ x.node[n].valid = 1
  <2>1. n \in Valid(x)  BY <1>4, <1>7, <1>8, HeadValid
  <2> QED BY <2>1 DEF Valid
<1>10. InPart(g, s, n, p, pHi)
  <2>1. ASSUME NEW a \in s.left .. s.right, Cell(level, a) = Num(g, n) PROVE a <= pHi
    <3>1. a \in Nat  BY <1>1
    <3>2. CASE k # Parts(level, aLo, aHi)  BY <1>4, <1>8, <2>1, <3>1, <3>2
    <3>3. CASE k = Parts(level, aLo, aHi)
      <4>1. InBlock(g, id, a)  BY <1>1, <1>8, <2>1, NodeInBlock
      <4> QED BY <1>2, <1>4, <3>3, <4>1
    <3> QED BY <3>2, <3>3
  <2>2. p \in s.left .. s.right /\ pHi \in s.left .. s.right  BY <1>1, <1>2, <1>4
  <2> QED BY <1>4, <1>8, <2>1, <2>2 DEF InPart
<1>11. CASE v.mid
  <2>1. y = ummu_table_clear_node(x, n, pre)  BY <1>1, <1>6, <1>9, <1>11
  <2>2. ASSUME NEW a \in Nat, Cell(level, a) = Num(g, n) PROVE a \in s.left .. s.right /\ p <= a
    BY <1>1, <1>2, <1>4, <1>5, <1>8, <1>11, <2>2
  <2> HIDE DEF n
  <2>3. Cleared(x, y, g, s, pre, p, pHi, T, level) /\ y.ret = "ok" /\ pHi <= m
    <3>1. n \in Valid(x) /\ n[1] = id  BY <1>8, <1>9
    <3>2. CellInside(s, level, Num(g, n), p)  BY <2>2 DEF CellInside
    <3> QED BY <1>7, <1>10, <2>1, <3>1, <3>2, MiddleDone, SMTT(60)
  <2> QED BY <2>3 DEF p, pHi
<1>12. CASE ~v.mid
  <2>1. y = ummu_table_clear_head_node(x, pre, n, v.lo, v.hi)  BY <1>1, <1>6, <1>9, <1>12
  <2> DEFINE lo == v.lo
             hi == v.hi
  <2>2. PartOffsets(g, n, lo, hi, p, pHi)  BY <1>5 DEF PartOffsets
  <2>3. y = ummu_table_clear_head_node(x, pre, n, lo, hi)  BY <2>1
  <2> HIDE DEF lo, hi, n
  <2>4. Cleared(x, y, g, s, pre, p, pHi, T, level) /\ (y.ret = "ok" <=> pHi <= m)
    <3>1. pHi <= aHi /\ n \in Valid(x) /\ n[1] = id  BY <1>4, <1>8, <1>9
    <3> QED BY <1>7, <1>10, <2>2, <2>3, <3>1, HeadDone
  <2> QED BY <2>4 DEF p, pHi
<1> QED BY <1>11, <1>12

\* The state after k nodes of the scan.
ScanAt(x, y, g, s, pre, aLo, aHi, m, T, k) ==
    /\ y.ret = "ok" =>
           \E e \in Int : /\ e <= m
                          /\ e = IF k = 0 THEN aLo - 1 ELSE PartHi(level, aLo, aHi, k)
                          /\ Cleared(x, y, g, s, pre, aLo, e, T, level)
    /\ y.ret # "ok" => m < aHi /\ Cleared(x, y, g, s, pre, aLo, aHi, T, level)

\* One more node of the scan.
LEMMA ScanPass ==
    ASSUME SwapBelowOK, ClearBelowOK, level \in Nat,
           NEW x, NEW g, NEW s, NEW pre, NEW id, NEW aLo, NEW aHi, NEW m, NEW T,
           ClearPre(x, g, s, pre, id, aLo, aHi, m, T, level),
           NEW k \in Nat, k < Parts(level, aLo, aHi),
           NEW c, c.id = id, c.pre = pre, Offsets(g, id, c.lo, c.hi, aLo, aHi),
           NEW y, ScanAt(x, y, g, s, pre, aLo, aHi, m, T, k),
           NEW z, z = ClearNode(y, c, k + 1)
    PROVE  ScanAt(x, z, g, s, pre, aLo, aHi, m, T, k + 1)
<1>1. /\ Inv(x, g, Root, 0, T) /\ s \in T /\ Segments(T) /\ level \in Levels
      /\ aLo \in Nat /\ aHi \in Nat /\ s.left \in Nat /\ s.right \in Nat /\ m \in Int
      /\ s.left <= aLo /\ aLo <= aHi /\ aHi <= s.right /\ aLo - 1 <= m
      /\ \A a \in s.left .. s.right : Cov(x, g, Root, a) <=> aLo <= a /\ a <= m
      /\ RangeIn(g, s, id, aLo, aHi) /\ x.lvl \in Levels
  BY ClearFacts
<1>2. CASE y.ret # "ok"
  <2>1. z = y  BY <1>2, Zenon DEF ClearNode
  <2> QED BY <1>2, <2>1 DEF ScanAt
<1>3. CASE y.ret = "ok"
  <2>1. PICK e \in Int : /\ e <= m /\ e = IF k = 0 THEN aLo - 1 ELSE PartHi(level, aLo, aHi, k)
                         /\ Cleared(x, y, g, s, pre, aLo, e, T, level)
    BY <1>3 DEF ScanAt
  <2>2. Cell(level, aLo) \in Nat /\ Cell(level, aHi) \in Nat  BY <1>1, CellNat
  <2>3. Parts(level, aLo, aHi) \in Int /\ k + 1 \in 1 .. Parts(level, aLo, aHi)
    BY <2>2 DEF Parts
  <2> DEFINE p == PartLo(level, aLo, k + 1)
             pHi == PartHi(level, aLo, aHi, k + 1)
  <2>4. /\ p = e + 1 /\ aLo <= p /\ p <= pHi /\ pHi <= aHi /\ p \in Nat /\ pHi \in Nat
        /\ (k + 1 = Parts(level, aLo, aHi)) <=> (pHi = aHi)
    <3>1. /\ aLo <= p /\ p <= pHi /\ pHi <= aHi /\ p \in Nat /\ pHi \in Nat
          /\ (k + 1 = Parts(level, aLo, aHi)) <=> (pHi = aHi)
      <4> DEFINE j == k + 1
      <4>1. j \in 1 .. Parts(level, aLo, aHi)  BY <2>3
      <4> HIDE DEF j
      <4>2. /\ PartLo(level, aLo, j) \in Nat /\ PartHi(level, aLo, aHi, j) \in Nat
            /\ aLo <= PartLo(level, aLo, j) /\ PartLo(level, aLo, j) <= PartHi(level, aLo, aHi, j)
            /\ PartHi(level, aLo, aHi, j) <= aHi
            /\ (j = Parts(level, aLo, aHi)) <=> (PartHi(level, aLo, aHi, j) = aHi)
        BY <1>1, <4>1, PartFacts
      <4> QED BY <4>2 DEF j
    <3>2. p = e + 1
      <4>1. CASE k = 0  BY <1>1, <2>1, <4>1 DEF PartLo
      <4>2. CASE k # 0
        <5>1. k \in 1 .. Parts(level, aLo, aHi)  BY <2>3, <4>2
        <5>2. PartLo(level, aLo, k + 1) = PartHi(level, aLo, aHi, k) + 1
          BY <1>1, <5>1, PartFacts
        <5> QED BY <2>1, <4>2, <5>2
      <4> QED BY <4>1, <4>2
    <3> QED BY <3>1, <3>2
  <2> HIDE DEF p, pHi
  <2>5. ClearPre(y, g, s, pre, id, e + 1, aHi, m, T, level)
    BY <1>1, <1>3, <2>1, <2>4, ClearGoesOn
  <2>6. /\ Cleared(y, z, g, s, pre, p, pHi, T, level)
        /\ z.ret = "ok" <=> pHi <= m
    <3> DEFINE j == k + 1
    <3>1. /\ j \in 1 .. Parts(level, aLo, aHi) /\ z = ClearNode(y, c, j)
          /\ ClearPre(y, g, s, pre, id, PartLo(level, aLo, j), aHi, m, T, level)
      BY <2>3, <2>4, <2>5 DEF p
    <3> HIDE DEF j
    <3>2. /\ Cleared(y, z, g, s, pre, PartLo(level, aLo, j), PartHi(level, aLo, aHi, j), T, level)
          /\ z.ret = "ok" <=> PartHi(level, aLo, aHi, j) <= m
      BY <1>1, <3>1, NodeCleared
    <3> QED BY <3>2 DEF j, p, pHi
  <2>7. Cleared(x, z, g, s, pre, aLo, pHi, T, level)
    <3>1. Cleared(y, z, g, s, pre, e + 1, pHi, T, level)  BY <2>4, <2>6
    <3>2. aLo <= e + 1 /\ e <= pHi  BY <1>1, <2>4
    <3> QED BY <1>1, <2>1, <2>4, <3>1, <3>2, ClearedTwice
  <2>8. CASE z.ret = "ok"
    <3>1. k + 1 # 0 /\ pHi \in Int  BY <2>4
    <3> QED BY <2>6, <2>7, <2>8, <3>1 DEF ScanAt, pHi
  <2>9. CASE z.ret # "ok"
    <3>1. m < pHi /\ m < aHi  BY <1>1, <2>4, <2>6, <2>9
    <3>2. ASSUME NEW o \in Addr, pHi < o, o <= aHi PROVE ~Cov(x, g, Root, o)
      <4>1. o \in s.left .. s.right /\ o \in Nat /\ m < o
        BY <1>1, <2>4, <3>1, <3>2, SpanFacts DEF Addr
      <4> QED BY <1>1, <4>1
    <3>3. Cleared(x, z, g, s, pre, aLo, aHi, T, level)  BY <1>1, <2>4, <2>7, <3>2, ClearedMore
    <3> QED BY <2>9, <3>1, <3>3 DEF ScanAt
  <2> QED BY <2>8, <2>9
<1> QED BY <1>2, <1>3

\* ummu_table_clear_node_by_level, at any level whose next one keeps the same
\* promise: exactly the addresses of the range lose their content, all else
\* stays, and the walk fails only if a part of the range was not there.
THEOREM ClearCorrect ==
    ASSUME SwapBelowOK, ClearBelowOK, level \in Nat,
           NEW x, NEW g, NEW s, NEW pre, NEW id, NEW lo, NEW hi, NEW aLo, NEW aHi, NEW m, NEW T,
           ClearPre(x, g, s, pre, id, aLo, aHi, m, T, level), Offsets(g, id, lo, hi, aLo, aHi)
    PROVE  ClearPost(x, ummu_table_clear_node_by_level(x, pre, lo, hi), g, s, pre, aLo, aHi, m, T, level)
<1>1. /\ Inv(x, g, Root, 0, T) /\ Sound(x, g, 0) /\ Shape(x) /\ Counted(x) /\ Placed(x, g)
      /\ s \in T /\ Segments(T) /\ g.lev[id] = level /\ level \in Levels /\ id \in UsedIds(x)
      /\ LeadsTo(x, pre, id) /\ x.ret = "ok"
      /\ aLo \in Nat /\ aHi \in Nat /\ m \in Int /\ aLo <= aHi /\ aLo - 1 <= m
      /\ RangeIn(g, s, id, aLo, aHi) /\ x.lvl \in Levels
  BY ClearFacts
<1>2. InBlock(g, id, aLo) /\ InBlock(g, id, aHi) /\ g.num[id] \in Nat
  BY <1>1, UsedFacts DEF RangeIn, Placed
<1>3. /\ BlockOf(id) \in DOMAIN x.block /\ pre \in Nodes(x) /\ (pre # Root => pre \in Valid(x))
      /\ x.node[pre].next = id
  BY <1>1, WayIn DEF LeadsTo
<1>4. level \in 0 .. LastLevel /\ ~(level > LastLevel)  BY <1>1, LevelNat DEF Levels
<1> DEFINE c == Scan(x, pre, lo, hi, <<>>, UMMU_UNGRANT)
           N == Parts(level, aLo, aHi)
           y == ClearScan!Iterate(x, c, N)
<1>5. ummu_table_clear_node_by_level(x, pre, lo, hi) = y
  <2>1. NodeCount(level, lo, hi) = N  BY <1>1, <1>2, NodeCountIs
  <2>2. ~NoLevel(x, level, pre)  BY <1>3, <1>4 DEF NoLevel
  <2>3. ummu_table_clear_node_by_level(x, pre, lo, hi) =
            IF NoLevel(x, level, pre) THEN Fail(x)
            ELSE ClearScan!Iterate(x, c, NodeCount(level, lo, hi))
    BY Zenon DEF ummu_table_clear_node_by_level
  <2> HIDE DEF c, N
  <2> QED BY <2>1, <2>2, <2>3
<1>6. c.id = id /\ c.pre = pre /\ c.lo = lo /\ c.hi = hi  BY <1>3 DEF Scan
<1>7. N \in Nat \ {0}  BY <1>1, <1>2, NodeCountIs
<1> HIDE DEF c
<1>8. /\ ClearScan!Iterate(x, c, 0) = x
      /\ \A k \in Nat : ClearScan!Iterate(x, c, k + 1) = ClearNode(ClearScan!Iterate(x, c, k), c, k + 1)
  BY ClearScan!IterateStep
<1> DEFINE S == {k \in Nat : k <= N => ScanAt(x, ClearScan!Iterate(x, c, k), g, s, pre, aLo, aHi, m, T, k)}
<1>9. 0 \in S
  <2> DEFINE e == aLo - 1
  <2>1. e \in Int /\ e < aLo /\ e <= m /\ aLo \in Int  BY <1>1
  <2>2. Alike(x, x)  BY <1>1 DEF Alike, Shape
  <2>3. e = aLo - 1  OBVIOUS
  <2> HIDE DEF e
  <2>4. Cleared(x, x, g, s, pre, aLo, e, T, level)
    BY <1>1, <1>3, <2>1, <2>2, ClearedNone, LevelInt
  <2>5. ScanAt(x, x, g, s, pre, aLo, aHi, m, T, 0)  BY <1>1, <2>1, <2>3, <2>4 DEF ScanAt
  <2> QED BY <1>8, <2>5
<1>10. \A k \in Nat : k \in S => k + 1 \in S
  <2> SUFFICES ASSUME NEW k \in Nat, k \in S, k + 1 <= N
               PROVE  ScanAt(x, ClearScan!Iterate(x, c, k + 1), g, s, pre, aLo, aHi, m, T, k + 1)
    OBVIOUS
  <2> DEFINE u == ClearScan!Iterate(x, c, k)
             w == ClearScan!Iterate(x, c, k + 1)
  <2>1. w = ClearNode(u, c, k + 1)  BY <1>8
  <2>2. ScanAt(x, u, g, s, pre, aLo, aHi, m, T, k) /\ k < Parts(level, aLo, aHi)  BY <1>7
  <2>3. Offsets(g, id, c.lo, c.hi, aLo, aHi)  BY <1>6
  <2> HIDE DEF u, w, S
  <2>4. ScanAt(x, w, g, s, pre, aLo, aHi, m, T, k + 1)  BY <1>6, <2>1, <2>2, <2>3, ScanPass
  <2> QED BY <2>4 DEF w
<1>11. ScanAt(x, y, g, s, pre, aLo, aHi, m, T, N)
  <2>1. Nat \subseteq S
    <3> HIDE DEF S
    <3> QED BY <1>9, <1>10, ClearScan!NatSetInduction
  <2> QED BY <1>7, <2>1
<1>12. PartHi(level, aLo, aHi, N) = aHi
  <2>1. N \in 1 .. Parts(level, aLo, aHi)  BY <1>7
  <2> HIDE DEF N
  <2>2. (N = Parts(level, aLo, aHi)) <=> (PartHi(level, aLo, aHi, N) = aHi)
    BY <1>1, <2>1, PartFacts
  <2> QED BY <2>2 DEF N
<1> HIDE DEF y, N
<1>13. ClearPost(x, y, g, s, pre, aLo, aHi, m, T, level)
  <2>1. N # 0  BY <1>7
  <2>2. CASE y.ret = "ok"  BY <1>11, <1>12, <2>1, <2>2 DEF ScanAt, ClearPost
  <2>3. CASE y.ret # "ok"  BY <1>1, <1>11, <2>3 DEF ScanAt, ClearPost
  <2> QED BY <2>2, <2>3
<1> QED BY <1>5, <1>13

----------------------------------------
(* Filling a range. *)

\* A node in use is at the same place for both.
LEMMA SameNode ==
    ASSUME NEW x, NEW g, NEW h, SameGeo(x, g, h)
    PROVE  /\ \A n \in UsedIds(x) \X Index : Level(h, n) = Level(g, n) /\ Num(h, n) = Num(g, n)
           /\ \A i \in UsedIds(x) : \A a : InBlock(h, i, a) <=> InBlock(g, i, a)
  BY DEF SameGeo, Level, Num, InBlock

\* What FillAt says of its parts.
LEMMA FillFacts ==
    ASSUME NEW x, NEW g, NEW s, NEW d, NEW pre, NEW id, NEW q, NEW aLo, NEW aHi, NEW T, NEW l,
           FillAt(x, g, s, d, pre, id, q, aLo, aHi, T, l)
    PROVE  /\ Inv(x, g, Root, id, T) /\ Sound(x, g, id) /\ Holding(x, g, Root, T) /\ Shape(x) /\ Counted(x)
           /\ Placed(x, g) /\ Linked(x, g) /\ Segments(T) /\ Content(x, g, Root, T) /\ s \in T /\ x.ret = "ok"
           /\ g.lev[id] = l /\ g.num[id] \in Nat /\ LeadsTo(x, pre, id) /\ l \in Levels /\ l \in Nat
           /\ id \in UsedIds(x) /\ aLo \in Nat /\ aHi \in Nat /\ s.left \in Nat /\ s.right \in Nat
           /\ s.left <= aLo /\ aLo <= aHi /\ aHi <= s.right
           /\ \A a \in s.left .. s.right : a \in Addr /\ a \in Nat
           /\ \A a \in s.left .. s.right : Cov(x, g, Root, a) <=> a < q
           /\ RangeIn(g, s, id, aLo, aHi) /\ InBlock(g, id, aLo) /\ InBlock(g, id, aHi)
           /\ \A a \in s.left .. s.right : InBlock(g, id, a) => aLo <= a /\ a <= aHi
<1>1. /\ Inv(x, g, Root, id, T) /\ x.ret = "ok" /\ s \in T /\ LeadsTo(x, pre, id) /\ g.lev[id] = l
      /\ WholeIn(g, s, id, aLo, aHi)
      /\ \A a \in s.left .. s.right : Cov(x, g, Root, a) <=> a < q
  BY DEF FillAt
<1>2. /\ Sound(x, g, id) /\ Holding(x, g, Root, T) /\ Shape(x) /\ Counted(x) /\ Placed(x, g)
      /\ Linked(x, g) /\ Segments(T) /\ Content(x, g, Root, T)
  BY <1>1 DEF Inv, Sound, Holding
<1>3. id \in UsedIds(x) /\ l \in Levels /\ l \in Nat  BY <1>1, <1>2, WayIn
<1>4. g.num[id] \in Nat  BY <1>2, <1>3, UsedFacts DEF Placed
<1>5. /\ aLo \in s.left .. s.right /\ aHi \in s.left .. s.right /\ aLo <= aHi
      /\ RangeIn(g, s, id, aLo, aHi) /\ InBlock(g, id, aLo) /\ InBlock(g, id, aHi)
      /\ \A a \in s.left .. s.right : InBlock(g, id, a) => aLo <= a /\ a <= aHi
  BY <1>1 DEF WholeIn, RangeIn
<1>6. s.left \in Nat /\ s.right \in Nat /\ \A a \in s.left .. s.right : a \in Addr /\ a \in Nat
  BY <1>1, <1>2, SegmentFacts
<1>7. aLo \in Nat /\ aHi \in Nat /\ s.left <= aLo /\ aHi <= s.right  BY <1>5, <1>6
<1> QED BY <1>1, <1>2, <1>3, <1>4, <1>5, <1>6, <1>7

\* A level block with a valid node is not the empty one.
LEMMA NotEmpty ==
    ASSUME NEW x, NEW g, NEW id, Sound(x, g, id), NEW n \in Valid(x), n[1] = id
    PROVE  Sound(x, g, 0)
<1>1. n[2] \in ValidAt(x, id)
  <2>1. n \in UsedIds(x) \X Index /\ x.node[n].valid = 1  BY DEF Valid
  <2>2. n[2] \in Index /\ n = <<n[1], n[2]>>  BY <2>1
  <2> QED BY <2>1, <2>2 DEF ValidAt
<1>2. Filled(x, 0)  BY <1>1 DEF Sound, Filled
<1> QED BY <1>2 DEF Sound

\* A valid node on the way has no part of the rest of s, and s does not fill
\* its cell; so it is not at the last level.
LEMMA NodeTaken ==
    ASSUME NEW x, NEW g, NEW s, NEW d, NEW pre, NEW id, NEW p, NEW aLo, NEW aHi, NEW T, NEW l, NEW pHi,
           FillAt(x, g, s, d, pre, id, p, aLo, aHi, T, l),
           NEW n \in Valid(x), n[1] = id, InPart(g, s, n, p, pHi),
           \A a \in s.left .. s.right : Cell(l, a) = Num(g, n) => p <= a
    PROVE  /\ Inv(x, g, Root, 0, T) /\ Lo(x, g, n) \notin s.left .. s.right
           /\ \E c \in Addr : Cell(l, c) = Num(g, n) /\ c \notin s.left .. s.right
           /\ l < LastLevel
<1>1. /\ Inv(x, g, Root, id, T) /\ Sound(x, g, id) /\ Holding(x, g, Root, T) /\ Shape(x) /\ Counted(x)
      /\ Placed(x, g) /\ Segments(T) /\ Content(x, g, Root, T) /\ s \in T /\ g.lev[id] = l /\ l \in Levels
      /\ l \in Nat /\ s.left \in Nat /\ s.right \in Nat
      /\ \A a \in s.left .. s.right : a \in Addr /\ a \in Nat
      /\ \A a \in s.left .. s.right : Cov(x, g, Root, a) <=> a < p
  BY FillFacts
<1>2. Level(g, n) = l /\ n # Root  BY <1>1, RootNotValid DEF Level
<1>3. /\ p \in s.left .. s.right /\ Cell(l, p) = Num(g, n) /\ p \in Nat
  BY <1>1, <1>2 DEF InPart
<1>4. Inv(x, g, Root, 0, T)  BY <1>1, NotEmpty DEF Inv
<1>5. /\ Lo(x, g, n) \in Addr /\ Holds(x, g, n, Lo(x, g, n)) /\ Lo(x, g, n) \in Nat
      /\ Cell(l, Lo(x, g, n)) = Num(g, n)
      /\ \E t \in T : t.left <= Lo(x, g, n) /\ Hi(x, g, n) <= t.right /\ Lo(x, g, n) <= Hi(x, g, n)
  <2>1. /\ Lo(x, g, n) \in Addr /\ Holds(x, g, n, Lo(x, g, n)) /\ Lo(x, g, n) <= Hi(x, g, n)
        /\ \A a \in Nat : Holds(x, g, n, a) => a \in Addr /\ Cell(Level(g, n), a) = Num(g, n)
        /\ \E t \in T : t.left <= Lo(x, g, n) /\ Hi(x, g, n) <= t.right
    BY <1>1, <1>2, NodeContent
  <2>2. Lo(x, g, n) \in Nat  BY <2>1, SpanFacts DEF Addr
  <2> QED BY <1>2, <2>1, <2>2
<1>6. Lo(x, g, n) \notin s.left .. s.right
  <2> SUFFICES ASSUME Lo(x, g, n) \in s.left .. s.right PROVE FALSE  OBVIOUS
  <2>1. Cov(x, g, Root, Lo(x, g, n))  BY <1>2, <1>5 DEF Cov
  <2>2. Lo(x, g, n) < p /\ p <= Lo(x, g, n)  BY <1>1, <1>5, <2>1
  <2> QED BY <1>3, <1>5, <2>2
<1>7. \E c \in Addr : Cell(l, c) = Num(g, n) /\ c \notin s.left .. s.right  BY <1>5, <1>6
<1>8. l < LastLevel
  <2> SUFFICES ASSUME l = LastLevel PROVE FALSE  BY <1>1, LevelNat DEF Levels
  <2>1. PICK t \in T : t.left <= Lo(x, g, n) /\ Hi(x, g, n) <= t.right /\ Lo(x, g, n) <= Hi(x, g, n)
    BY <1>5
  <2>2. t.left \in Nat /\ t.right \in Nat /\ Hi(x, g, n) \in Nat
    <3>1. Hi(x, g, n) \in Addr  BY <1>1, <1>2, NodeContent
    <3> QED BY <1>1, <3>1, SegmentFacts, SpanFacts DEF Addr
  <2>3. Lo(x, g, n) \in t.left .. t.right  BY <1>5, <2>1, <2>2
  <2>4. s = t  BY <1>1, <1>3, <1>5, <2>3 DEF Segments
  <2> QED BY <1>6, <2>3, <2>4
<1> QED BY <1>4, <1>6, <1>7, <1>8

\* ummu_table_fill_node makes a leaf of what the request asks for.
LEMMA FilledNode ==
    ASSUME NEW r, IsNode(r), NEW lo \in Nat, NEW hi \in Nat, NEW d, NEW s, Asked(s, d),
           NEW y, y = ummu_table_fill_node(r, lo, hi, d)
    PROVE  /\ IsNode(y) /\ y.valid = 1 /\ y.type = 1 /\ y.next_block = r.next_block
           /\ y.base = lo /\ y.limit = hi /\ Agrees(s, y)
<1>0. DOMAIN r = NodeFields  BY DEF IsNode
<1> DEFINE m == [r EXCEPT !.type = 1, !.attr = d.attr, !.base = lo, !.limit = hi,
                          !.token_check = d.token_check, !.valid = 1]
<1>1. y = IF d.token_check # 1 THEN m
          ELSE [m EXCEPT !.tok0 = d.tokenval, !.tok1 = d.tokenval, !.nonce = 1]
  BY Zenon DEF ummu_table_fill_node
<1>2. /\ DOMAIN m = NodeFields /\ m = [f \in NodeFields |-> m[f]]
      /\ m.valid = 1 /\ m.type = 1 /\ m.next_block = r.next_block /\ m.next = r.next
      /\ m.base = lo /\ m.limit = hi /\ m.attr = d.attr /\ m.token_check = d.token_check
  BY <1>0 DEF NodeFields
<1> HIDE DEF m
<1>3. CASE d.token_check # 1  BY <1>1, <1>2, <1>3 DEF IsNode, Agrees, Asked
<1>4. CASE d.token_check = 1
  <2>1. y = [m EXCEPT !.tok0 = d.tokenval, !.tok1 = d.tokenval, !.nonce = 1]  BY <1>1, <1>4
  <2>2. /\ DOMAIN y = NodeFields /\ y = [f \in NodeFields |-> y[f]]
        /\ y.valid = 1 /\ y.type = 1 /\ y.next_block = r.next_block /\ y.next = r.next
        /\ y.base = lo /\ y.limit = hi /\ y.attr = d.attr /\ y.token_check = d.token_check
        /\ y.tok0 = d.tokenval /\ y.tok1 = d.tokenval /\ y.nonce = 1
    BY <1>2, <2>1 DEF NodeFields
  <2> QED BY <1>4, <2>2 DEF IsNode, Agrees, Asked
<1> QED BY <1>3, <1>4

\* All that s has in the cell is one piece of it.
LEMMA CellPiece ==
    ASSUME NEW s, NEW l \in Levels, NEW p, NEW pHi, NEW c,
           Cell(l, p) = c,
           \A a \in s.left .. s.right : Cell(l, a) = c <=> (p <= a /\ a <= pHi),
           l # 0 => \E o \in Addr : Cell(l - 1, o) = Cell(l - 1, p) /\ o \notin s.left .. s.right
    PROVE  Piece(s, p, pHi)
  BY DEF Piece, PieceAt

\* A free node takes its part of the range.
LEMMA PutDone ==
    ASSUME NEW x, NEW g, NEW s, NEW d, NEW pre, NEW id, NEW p, NEW aLo, NEW aHi, NEW T, NEW l, NEW pHi,
           FillAt(x, g, s, d, pre, id, p, aLo, aHi, T, l),
           NEW n \in UsedIds(x) \X Index, n[1] = id, x.node[n].valid = 0, InPart(g, s, n, p, pHi),
           \A a \in s.left .. s.right : Cell(l, a) = Num(g, n) => p <= a,
           NEW lo, NEW hi, PartOffsets(g, n, lo, hi, p, pHi),
           NEW y, y = ummu_modify_entry_cnt([x EXCEPT !.node[n] = ummu_table_fill_node(@, lo, hi, d)], id, 1)
    PROVE  Added(x, y, g, g, s, p, pHi, T, l) /\ y.ret = "ok"
<1>1. /\ Inv(x, g, Root, id, T) /\ Sound(x, g, id) /\ Holding(x, g, Root, T) /\ Shape(x) /\ Counted(x)
      /\ Placed(x, g) /\ Linked(x, g) /\ Segments(T) /\ Content(x, g, Root, T) /\ s \in T /\ x.ret = "ok"
      /\ g.lev[id] = l /\ l \in Levels /\ l \in Nat /\ s.left \in Nat /\ s.right \in Nat
      /\ \A a \in s.left .. s.right : a \in Addr /\ a \in Nat
      /\ \A a \in s.left .. s.right : Cov(x, g, Root, a) <=> a < p
  BY FillFacts
<1>2. Level(g, n) = l /\ n # Root /\ Num(g, n) \in Nat /\ n \in DOMAIN x.node /\ IsNode(x.node[n])
  BY <1>1, UsedNode, NodePlace DEF Level
<1>3. /\ p \in s.left .. s.right /\ pHi \in s.left .. s.right /\ p \in Nat /\ pHi \in Nat /\ p <= pHi
      /\ Cell(l, p) = Num(g, n) /\ Cell(l, pHi) = Num(g, n)
      /\ \A a \in s.left .. s.right : Cell(l, a) = Num(g, n) => p <= a /\ a <= pHi
  BY <1>1, <1>2 DEF InPart
<1>4. /\ lo = p - Num(g, n) * Span(l) /\ hi = pHi - Num(g, n) * Span(l)
      /\ Num(g, n) * Span(l) \in Nat /\ lo \in Nat /\ hi \in Nat /\ lo <= hi /\ hi < Span(l)
      /\ Span(l) \in Nat
  <2>1. Span(l) \in Nat  BY <1>1, SpanFacts
  <2>2. /\ Num(g, n) * Span(l) \in Nat /\ (Num(g, n) + 1) * Span(l) = Num(g, n) * Span(l) + Span(l)
        /\ Num(g, n) * Span(l) <= p /\ pHi < (Num(g, n) + 1) * Span(l)
    BY <1>1, <1>2, <1>3, CellInterval
  <2> QED BY <1>2, <1>3, <2>1, <2>2 DEF PartOffsets
<1> DEFINE z == [x EXCEPT !.node[n] = ummu_table_fill_node(@, lo, hi, d)]
<1>5. /\ Rewritten(x, z, n) /\ z.node[n] = ummu_table_fill_node(x.node[n], lo, hi, d)
  <2>1. DOMAIN x = TableFields  BY <1>1 DEF Shape
  <2> QED BY <1>2, <2>1 DEF Rewritten, TableFields
<1>6. y = ummu_modify_entry_cnt(z, n[1], 1)  OBVIOUS
<1> HIDE DEF z
<1>7. /\ IsNode(z.node[n]) /\ z.node[n].valid = 1 /\ z.node[n].type = 1 /\ z.node[n].next_block = 0
      /\ z.node[n].base = lo /\ z.node[n].limit = hi /\ Agrees(s, z.node[n])
  <2>1. Asked(s, d)  BY DEF FillAt
  <2>2. x.node[n].next_block = 0  BY <1>1, <1>2 DEF Sound, Flagged
  <2> DEFINE r == x.node[n]
             w == z.node[n]
  <2>3. IsNode(r) /\ lo \in Nat /\ hi \in Nat /\ w = ummu_table_fill_node(r, lo, hi, d)
    BY <1>2, <1>4, <1>5
  <2> HIDE DEF r, w
  <2>4. /\ IsNode(w) /\ w.valid = 1 /\ w.type = 1 /\ w.next_block = r.next_block
        /\ w.base = lo /\ w.limit = hi /\ Agrees(s, w)
    BY <2>1, <2>3, FilledNode
  <2> QED BY <2>2, <2>4 DEF r, w
<1>8. /\ Sound(y, g, 0) /\ y.ret = x.ret /\ UsedIds(y) = UsedIds(x) /\ Valid(y) = Valid(x) \cup {n}
      /\ y.node = z.node
  BY <1>1, <1>5, <1>6, <1>7, PutSound
<1>9. /\ Lo(y, g, n) = p /\ Hi(y, g, n) = pHi
  <2>1. y.node[n].base = lo /\ y.node[n].limit = hi  BY <1>7, <1>8
  <2> QED BY <1>2, <1>3, <1>4, <2>1 DEF Lo, Hi
<1>10. n \notin Valid(x) /\ Root \notin Valid(x) /\ Root \notin Valid(y)
  BY RootNotValid DEF Valid
<1>11. Keeps(x, y, Root, n)
  <2> SUFFICES ASSUME NEW m \in Valid(y), m # n
               PROVE  m \in Valid(x) /\ m # Root /\ SameContent(x.node[m], y.node[m])
    BY DEF Keeps
  <2>1. m \in Valid(x) /\ m # Root  BY <1>8, <1>10
  <2>2. m \in DOMAIN x.node  BY <1>1, <2>1, InNodes
  <2>3. y.node[m] = x.node[m]  BY <1>5, <1>8, <2>2 DEF Rewritten
  <2> QED BY <2>1, <2>3, SameContentSelf
<1>12. \A m \in Valid(x) :
         /\ Lo(x, g, m) \in Nat /\ Hi(x, g, m) \in Nat /\ Lo(x, g, m) <= Hi(x, g, m)
         /\ Hi(x, g, m) < p \/ pHi < Lo(x, g, m)
  <2> SUFFICES ASSUME NEW m \in Valid(x)
               PROVE  /\ Lo(x, g, m) \in Nat /\ Hi(x, g, m) \in Nat /\ Lo(x, g, m) <= Hi(x, g, m)
                      /\ Hi(x, g, m) < p \/ pHi < Lo(x, g, m)
    OBVIOUS
  <2>1. Lo(x, g, m) \in Addr /\ Hi(x, g, m) \in Addr /\ Lo(x, g, m) <= Hi(x, g, m)
    BY <1>1, <1>10, NodeContent
  <2>2. Lo(x, g, m) \in Nat /\ Hi(x, g, m) \in Nat  BY <2>1, SpanFacts DEF Addr
  <2>3. ASSUME NEW a \in p .. pHi PROVE ~Holds(x, g, m, a)
    <3>1. a \in s.left .. s.right /\ ~(a < p)  BY <1>1, <1>3
    <3>2. ~Cov(x, g, Root, a)  BY <1>1, <3>1
    <3> QED BY <1>10, <3>2 DEF Cov
  <2>4. Hi(x, g, m) < p \/ pHi < Lo(x, g, m)
    <3> DEFINE a == IF Lo(x, g, m) <= p THEN p ELSE Lo(x, g, m)
    <3>1. CASE Lo(x, g, m) <= p
      <4>1. ~Holds(x, g, m, p)  BY <1>3, <2>3
      <4> QED BY <1>3, <2>2, <3>1, <4>1 DEF Holds
    <3>2. CASE p < Lo(x, g, m) /\ Lo(x, g, m) <= pHi
      <4>1. Lo(x, g, m) \in p .. pHi  BY <1>3, <2>2, <3>2
      <4>2. ~Holds(x, g, m, Lo(x, g, m))  BY <2>3, <4>1
      <4> QED BY <2>1, <2>2, <4>2 DEF Holds
    <3> QED BY <1>3, <2>2, <3>1, <3>2
  <2> QED BY <2>1, <2>2, <2>4
<1>13. \A m \in Valid(x) : l < Level(g, m) => Cell(l, Lo(x, g, m)) # Num(g, n)
  <2> SUFFICES ASSUME NEW m \in Valid(x), l < Level(g, m), Cell(l, Lo(x, g, m)) = Num(g, n)
               PROVE  FALSE
    OBVIOUS
  <2>1. /\ Lo(x, g, m) \in Nat /\ Cell(Level(g, m), Lo(x, g, m)) = Num(g, m)
    <3>1. /\ Holds(x, g, m, Lo(x, g, m)) /\ Lo(x, g, m) \in Nat
          /\ \A a \in Nat : Holds(x, g, m, a) => a \in Addr /\ Cell(Level(g, m), a) = Num(g, m)
      BY <1>1, <1>10, <1>12, NodeContent
    <3> QED BY <3>1
  <2>2. n \in Valid(x)
    <3> DEFINE a == Lo(x, g, m)
    <3>1. a \in Nat /\ Cell(Level(g, m), a) = Num(g, m) /\ Cell(Level(g, n), a) = Num(g, n) /\ Level(g, n) < Level(g, m)
      BY <1>2, <2>1
    <3> HIDE DEF a
    <3> QED BY <1>1, <3>1, NodeAbove
  <2> QED BY <1>10, <2>2
<1>14. \A m \in Valid(x) : Level(g, m) < l /\ Cell(Level(g, m), p) = Num(g, m) =>
           Lo(x, g, m) \notin s.left .. s.right
  <2>1. InBlock(g, id, p)  BY <1>1, <1>2, <1>3, NodeInBlock
  <2>2. Clean(x, g, s, id)  BY DEF FillAt
  <2> QED BY <1>1, <1>3, <2>1, <2>2 DEF Clean
<1>15. Piece(s, p, pHi)
  <2>1. ASSUME l # 0 PROVE \E o \in Addr : Cell(l - 1, o) = Cell(l - 1, p) /\ o \notin s.left .. s.right
    <3>1. PICK o \in Addr : InBlock(g, id, o) /\ o \notin s.left .. s.right
      BY <1>1, <2>1 DEF FillAt, WholeIn
    <3>2. InBlock(g, id, p) /\ o \in Nat  BY <1>1, <1>2, <1>3, NodeInBlock, SpanFacts DEF Addr
    <3>3. Cell(l, o) \div Fan = Cell(l, p) \div Fan  BY <1>1, <3>1, <3>2 DEF InBlock
    <3>4. l - 1 \in Levels /\ l - 1 < LastLevel /\ (l - 1) + 1 = l
      BY <1>1, <2>1, LevelNat DEF Levels
    <3>5. Cell(l - 1, o) = Cell(l, o) \div Fan /\ Cell(l - 1, p) = Cell(l, p) \div Fan
      <4> DEFINE k == l - 1
      <4>1. k \in Levels /\ k < LastLevel /\ k + 1 = l  BY <3>4
      <4> HIDE DEF k
      <4>2. Cell(k, o) = Cell(k + 1, o) \div Fan /\ Cell(k, p) = Cell(k + 1, p) \div Fan
        BY <1>3, <3>2, <4>1, CellUp
      <4> QED BY <4>1, <4>2 DEF k
    <3> QED BY <3>1, <3>3, <3>5
  <2>2. \A a \in s.left .. s.right : Cell(l, a) = Num(g, n) <=> (p <= a /\ a <= pHi)
    <3> SUFFICES ASSUME NEW a \in s.left .. s.right, p <= a, a <= pHi PROVE Cell(l, a) = Num(g, n)
      BY <1>3
    <3>1. a \in Nat  BY <1>1
    <3> QED BY <1>1, <1>2, <1>3, <3>1, CellNat, CellMonotone
  <2> QED BY <1>1, <1>3, <2>1, <2>2, CellPiece
<1>16. Holding(y, g, Root, T) /\ SameRange(x, y, g, n)
  <2>1. y.node[n].base <= y.node[n].limit /\ y.node[n].limit < Span(Level(g, n)) /\ Agrees(s, y.node[n])
    BY <1>2, <1>4, <1>7, <1>8
  <2>2. s.left <= Lo(y, g, n) /\ Hi(y, g, n) <= s.right  BY <1>1, <1>3, <1>9
  <2>3. /\ Lo(y, g, n) \in Nat /\ Hi(y, g, n) \in Nat /\ Lo(y, g, n) <= Hi(y, g, n)
        /\ Piece(s, Lo(y, g, n), Hi(y, g, n)) /\ Level(g, n) \in Nat
    BY <1>1, <1>2, <1>3, <1>9, <1>15
  <2>4. \A m \in Valid(x) : /\ Lo(x, g, m) \in Nat /\ Hi(x, g, m) \in Nat /\ Lo(x, g, m) <= Hi(x, g, m)
                             /\ \/ Hi(x, g, m) < Lo(y, g, n)
                                \/ Hi(y, g, n) < Lo(x, g, m)
    BY <1>9, <1>12
  <2>5. \A m \in Valid(x) : Level(g, n) < Level(g, m) => Cell(Level(g, n), Lo(x, g, m)) # Num(g, n)
    BY <1>2, <1>13
  <2>6. \A m \in Valid(x) : /\ Level(g, m) < Level(g, n)
                             /\ Cell(Level(g, m), Lo(y, g, n)) = Num(g, m)
                             => Lo(x, g, m) \notin s.left .. s.right
    BY <1>2, <1>9, <1>14
  <2>7. Holding(x, g, Root, T) /\ s \in T  BY <1>1
  <2> QED BY <1>11, <2>1, <2>2, <2>3, <2>4, <2>5, <2>6, <2>7, PutHolding
<1>17. Inv(y, g, Root, 0, T) /\ UsedIds(x) \subseteq UsedIds(y) /\ SameGeo(x, g, g)
  BY <1>8, <1>16 DEF Inv, SameGeo
<1>18. ASSUME NEW c \in Addr PROVE Cov(y, g, Root, c) <=> Cov(x, g, Root, c) \/ (p <= c /\ c <= pHi)
  <2>1. \A m \in Valid(x) : m \in Valid(y) /\ (Holds(y, g, m, c) <=> Holds(x, g, m, c))
    BY <1>8, <1>10, <1>16 DEF SameRange, Holds
  <2>2. n \in Valid(y) /\ (Holds(y, g, n, c) <=> p <= c /\ c <= pHi)  BY <1>8, <1>9 DEF Holds
  <2> QED BY <1>8, <1>10, <2>1, <2>2 DEF Cov
<1>19. Fresh(y, g, s)
  <2> SUFFICES ASSUME NEW m \in Valid(y), Lo(y, g, m) \in s.left .. s.right
               PROVE  /\ y.node[m].type = 1
                      /\ \A a \in s.left .. s.right : Cell(Level(g, m), a) = Num(g, m) => Holds(y, g, m, a)
    BY DEF Fresh
  <2>1. CASE m = n  BY <1>2, <1>3, <1>7, <1>8, <1>9, <2>1 DEF Holds
  <2>2. CASE m # n
    <3>1. m \in Valid(x) /\ m \in DOMAIN x.node  BY <1>1, <1>8, <2>2, InNodes
    <3>2. y.node[m] = x.node[m] /\ Lo(y, g, m) = Lo(x, g, m) /\ Hi(y, g, m) = Hi(x, g, m)
      BY <1>5, <1>8, <1>16, <2>2, <3>1 DEF Rewritten, SameRange
    <3>3. Fresh(x, g, s)  BY DEF FillAt
    <3> QED BY <3>1, <3>2, <3>3 DEF Fresh, Holds
  <2> QED BY <2>1, <2>2
<1>20. FramedAbove(x, y, g, g, l)
  <2> SUFFICES ASSUME NEW q \in Nodes(x), q = Root \/ Level(g, q) < l PROVE y.node[q] = x.node[q]
    BY <1>8 DEF FramedAbove
  <2>1. q # n /\ q \in DOMAIN x.node  BY <1>1, <1>2, InNodes
  <2> QED BY <1>5, <1>8, <2>1 DEF Rewritten
<1>21. Grown(x, y)
  <2>1. y.lvl = x.lvl
    <3>1. DOMAIN x = TableFields  BY <1>1 DEF Shape
    <3>2. z.lvl = x.lvl /\ DOMAIN z = TableFields  BY <3>1 DEF z, TableFields
    <3> QED BY <1>6, <3>2 DEF ummu_modify_entry_cnt, TableFields
  <2> QED BY <1>8, <1>10, <1>11, <2>1 DEF Grown, Keeps
<1> QED BY <1>1, <1>8, <1>17, <1>18, <1>19, <1>20, <1>21 DEF Added

\* The return code is no part of the table.
LEMMA SameNodesSound ==
    ASSUME NEW x, NEW y, NEW g, Sound(x, g, 0), SameNodes(x, y)
    PROVE  /\ Sound(y, g, 0) /\ Valid(y) = Valid(x) /\ UsedIds(y) = UsedIds(x) /\ Nodes(y) = Nodes(x)
           /\ \A m \in Nodes(x) : y.node[m] = x.node[m]
<1>0. Shape(x) /\ Counted(x) /\ Flagged(x) /\ Placed(x, g) /\ Linked(x, g) /\ Filled(x, 0)
  BY DEF Sound
<1>1. /\ DOMAIN y = TableFields /\ y.bitmap = x.bitmap /\ y.block = x.block
      /\ DOMAIN y.node = DOMAIN x.node /\ \A m \in DOMAIN x.node : y.node[m] = x.node[m]
  BY DEF SameNodes
<1>2. UsedIds(y) = UsedIds(x) /\ Nodes(y) = Nodes(x) /\ Mapped(y) = Mapped(x)
  BY <1>1 DEF UsedIds, Nodes, Mapped
<1>3. \A m \in Nodes(x) : m \in DOMAIN x.node /\ y.node[m] = x.node[m]  BY <1>0, <1>1, InNodes
<1>4. Valid(y) = Valid(x)
  <2>1. \A m \in UsedIds(x) \X Index : m \in Nodes(x)  BY DEF Nodes
  <2> QED BY <1>2, <1>3, <2>1 DEF Valid
<1>5. \A i \in Mapped(x) : ValidAt(y, i) = ValidAt(x, i)
  <2> SUFFICES ASSUME NEW i \in Mapped(x) PROVE ValidAt(y, i) = ValidAt(x, i)  OBVIOUS
  <2>1. \A j \in Index : <<i, j>> \in DOMAIN x.node  BY <1>0 DEF Shape
  <2> QED BY <1>1, <2>1 DEF ValidAt
<1>6. Shape(y)
  <2>1. Root \in DOMAIN x.node  BY <1>0 DEF Shape
  <2> QED BY <1>0, <1>1, <1>2, <2>1 DEF Shape
<1>7. Counted(y)  BY <1>0, <1>1, <1>2, <1>5 DEF Counted
<1>8. Flagged(y)  BY <1>0, <1>1 DEF Flagged
<1>9. Placed(y, g)  BY <1>0, <1>2 DEF Placed
<1>10. Linked(y, g)
  <2>1. \A m \in Valid(x) : y.node[m] = x.node[m]  BY <1>0, <1>3, InNodes
  <2> QED BY <1>0, <1>2, <1>4, <2>1 DEF Linked
<1>11. Filled(y, 0)
  <2>1. UsedIds(x) \subseteq Mapped(x)  BY <1>0, UsedFacts
  <2> QED BY <1>0, <1>2, <1>5, <2>1 DEF Filled
<1> QED BY <1>2, <1>3, <1>4, <1>6, <1>7, <1>8, <1>9, <1>10, <1>11 DEF Sound

\* The same nodes hold the same, and the level blocks of x did not move.
LEMMA SameHolding ==
    ASSUME NEW x, NEW y, NEW g, NEW h, NEW T, Holding(x, g, Root, T), SameGeo(x, g, h),
           Valid(y) = Valid(x), \A m \in Valid(x) : SameContent(x.node[m], y.node[m])
    PROVE  /\ Holding(y, h, Root, T)
           /\ \A m \in Valid(x) : /\ Level(h, m) = Level(g, m) /\ Num(h, m) = Num(g, m)
                                  /\ Lo(y, h, m) = Lo(x, g, m) /\ Hi(y, h, m) = Hi(x, g, m)
           /\ \A a : Cov(y, h, Root, a) <=> Cov(x, g, Root, a)
<1>0. Root \notin Valid(x)  BY RootNotValid
<1>1. /\ Segments(T) /\ Content(x, g, Root, T) /\ Disjoint(x, g, Root) /\ First(x, g, Root, T)
      /\ Paid(x, g, Root, T)
  BY DEF Holding
<1>2. \A m \in Valid(x) : Level(h, m) = Level(g, m) /\ Num(h, m) = Num(g, m)
  <2>1. \A m \in Valid(x) : m \in UsedIds(x) \X Index  BY DEF Valid
  <2> QED BY <2>1, SameNode
<1>3. \A m \in Valid(x) : /\ y.node[m].base = x.node[m].base /\ y.node[m].limit = x.node[m].limit
                          /\ y.node[m].attr = x.node[m].attr /\ y.node[m].token_check = x.node[m].token_check
                          /\ y.node[m].tok0 = x.node[m].tok0 /\ y.node[m].tok1 = x.node[m].tok1
                          /\ y.node[m].nonce = x.node[m].nonce
  BY DEF SameContent, NodeFields
<1>4. \A m \in Valid(x) : Lo(y, h, m) = Lo(x, g, m) /\ Hi(y, h, m) = Hi(x, g, m)
  BY <1>2, <1>3 DEF Lo, Hi
<1>5. Content(y, h, Root, T)  BY <1>1, <1>2, <1>3, <1>4 DEF Content
<1>6. Disjoint(y, h, Root)  BY <1>1, <1>4 DEF Disjoint
<1>7. First(y, h, Root, T)  BY <1>1, <1>2, <1>4 DEF First
<1>8. Paid(y, h, Root, T)  BY <1>1, <1>3, <1>4 DEF Paid, Agrees
<1>9. \A a : Cov(y, h, Root, a) <=> Cov(x, g, Root, a)  BY <1>4 DEF Cov, Holds
<1> QED BY <1>1, <1>2, <1>4, <1>5, <1>6, <1>7, <1>8, <1>9 DEF Holding

\* No level block for the leaf n: nothing is added, and there is no way on.
LEMMA NoBlock ==
    ASSUME NEW x, NEW g, NEW s, NEW d, NEW pre, NEW id, NEW p, NEW aLo, NEW aHi, NEW T, NEW l, NEW pHi,
           FillAt(x, g, s, d, pre, id, p, aLo, aHi, T, l), Inv(x, g, Root, 0, T),
           NEW n \in Valid(x), n[1] = id, x.node[n].type = 1, InPart(g, s, n, p, pHi),
           NEW y, SameNodes(x, y), y.ret # "ok"
    PROVE  FillPost(x, y, g, s, p, pHi, T, l)
<1>1. /\ Sound(x, g, 0) /\ Holding(x, g, Root, T) /\ Shape(x) /\ Counted(x) /\ Placed(x, g) /\ Linked(x, g)
      /\ g.lev[id] = l /\ l \in Levels /\ l \in Nat /\ Segments(T) /\ s \in T
      /\ \A a \in s.left .. s.right : a \in Addr /\ a \in Nat
  BY FillFacts DEF Inv
<1>2. /\ Sound(y, g, 0) /\ Valid(y) = Valid(x) /\ UsedIds(y) = UsedIds(x) /\ Nodes(y) = Nodes(x)
      /\ \A m \in Nodes(x) : y.node[m] = x.node[m]
  BY <1>1, SameNodesSound
<1>3. \A m \in Valid(x) : y.node[m] = x.node[m]  BY <1>1, <1>2, InNodes
<1>4. SameGeo(x, g, g)  BY DEF SameGeo
<1>5. /\ Holding(y, g, Root, T) /\ \A a : Cov(y, g, Root, a) <=> Cov(x, g, Root, a)
      /\ \A m \in Valid(x) : Lo(y, g, m) = Lo(x, g, m) /\ Hi(y, g, m) = Hi(x, g, m)
  <2>1. \A m \in Valid(x) : SameContent(x.node[m], y.node[m])  BY <1>3, SameContentSelf
  <2>2. Holding(x, g, Root, T) /\ Valid(y) = Valid(x)  BY <1>1, <1>2
  <2>3. Holding(y, g, Root, T)  BY <1>4, <2>1, <2>2, SameHolding, Zenon
  <2>4. \A a : Cov(y, g, Root, a) <=> Cov(x, g, Root, a)
    BY <1>4, <2>1, <2>2, SameHolding, Zenon
  <2>5. \A m \in Valid(x) : Lo(y, g, m) = Lo(x, g, m) /\ Hi(y, g, m) = Hi(x, g, m)
    BY <1>3 DEF Lo, Hi
  <2> QED BY <2>3, <2>4, <2>5
<1>6. Fresh(y, g, s)
  <2>1. Fresh(x, g, s)  BY DEF FillAt
  <2> QED BY <1>2, <1>3, <1>5, <2>1 DEF Fresh, Holds
<1>7. FramedAbove(x, y, g, g, l)  BY <1>2 DEF FramedAbove
<1>8. p \in Nat /\ pHi \in Nat /\ p <= pHi /\ Level(g, n) = l /\ Cell(l, p) = Num(g, n)
  BY <1>1 DEF InPart, Level
<1> DEFINE m == p - 1
<1>9. m \in Int /\ p - 1 <= m /\ m <= pHi /\ m # pHi /\ m + 1 = p /\ m < p  BY <1>8
<1> HIDE DEF m
<1>10. Added(x, y, g, g, s, p, m, T, l)
  <2>1. \A c \in Addr : ~(p <= c /\ c <= m)  BY <1>8, <1>9, SpanFacts DEF Addr
  <2>2. Grown(x, y)  BY <1>2, <1>3, SameContentSelf DEF Grown, SameNodes
  <2> QED BY <1>2, <1>4, <1>5, <1>6, <1>7, <2>1, <2>2 DEF Added, Inv
<1>11. Stuck(y, g, l, m + 1)
  <2> SUFFICES ASSUME NEW q \in UsedIds(x) \X Index, l <= Level(g, q), Cell(Level(g, q), p) = Num(g, q)
               PROVE  q \in Valid(x)
    BY <1>2, <1>9 DEF Stuck
  <2>1. Level(g, q) \in Levels /\ Level(g, q) \in Nat /\ n \in UsedIds(x) \X Index
    BY <1>1, NodePlace, LevelNat, InNodes
  <2>2. CASE Level(g, q) = l  BY <1>1, <1>8, <2>1, <2>2, SamePlace
  <2>3. CASE l < Level(g, q)
    <3>1. q[1] \in UsedIds(x) /\ InBlock(g, q[1], p) /\ g.lev[q[1]] = Level(g, q)
      BY <1>1, NodeInBlock DEF Level
    <3>2. \E o \in Valid(x) : x.node[o].type = 0 /\ Level(g, o) = l /\ Num(g, o) = Cell(l, p)
      BY <1>1, <1>8, <2>3, <3>1, Up
    <3>3. PICK o \in Valid(x) : x.node[o].type = 0 /\ Level(g, o) = l /\ Num(g, o) = Cell(l, p)
      BY <3>2
    <3>4. o = n  BY <1>1, <1>8, <2>1, <3>3, SamePlace, InNodes
    <3> QED BY <3>3, <3>4
  <2> QED BY <1>1, <2>1, <2>2, <2>3
<1> QED BY <1>9, <1>10, <1>11 DEF FillPost

\* A node with a next level is open.
LEMMA IsOpen ==
    ASSUME NEW x, NEW g, Sound(x, g, 0), x.ret = "ok", NEW n \in Valid(x), x.node[n].type = 0
    PROVE  Opened(x, x, g, g, n, x.node[n].next)
<1>1. /\ x.node[n].next \in UsedIds(x) /\ g.lev[x.node[n].next] = Level(g, n) + 1
      /\ g.num[x.node[n].next] = Num(g, n)
  BY NextLevel
<1>2. Sound(x, g, x.node[n].next)  BY DEF Sound, Filled
<1>3. SameGeo(x, g, g) /\ SameContent(x.node[n], x.node[n])  BY SameContentSelf DEF SameGeo
<1> QED BY <1>1, <1>2, <1>3 DEF Opened

\* So is a leaf that a level block was taken for.
LEMMA NowOpen ==
    ASSUME NEW x, NEW g, Sound(x, g, 0), NEW n \in Valid(x), x.node[n].type = 1,
           Level(g, n) < LastLevel, NEW z, NEW id, Alloced(x, z, n, id), z.lvl = x.lvl,
           NEW w, w = HasNext(z, n)
    PROVE  Opened(x, w, g, Below(g, n, id), n, id)
<1> DEFINE h == Below(g, n, id)
<1>1. h = Below(g, n, id)  OBVIOUS
<1> HIDE DEF h
<1>2. /\ Sound(w, h, id) /\ w.ret = "ok"
      /\ UsedIds(w) = UsedIds(x) \cup {id} /\ Valid(w) = Valid(x)
      /\ w.node[n].type = 0 /\ w.node[n].next = id
      /\ h.lev[id] = Level(g, n) + 1 /\ h.num[id] = Num(g, n)
      /\ SameContent(x.node[n], w.node[n])
      /\ \A m \in Nodes(x) \ {n} : w.node[m] = x.node[m]
      /\ \A i \in UsedIds(x) : h.lev[i] = g.lev[i] /\ h.num[i] = g.num[i]
  BY <1>1, AllocSound
<1>3. w.lvl = x.lvl  BY DEF HasNext, Alloced, TableFields
<1>4. Opened(x, w, g, h, n, id)  BY <1>2, <1>3 DEF Opened, SameGeo
<1> QED BY <1>1, <1>4

\* The walk goes on in the next level of a node that is taken.
LEMMA FillsBelow ==
    ASSUME NEW x, NEW g, NEW s, NEW d, NEW pre, NEW id, NEW p, NEW aLo, NEW aHi, NEW T, NEW l, NEW pHi,
           FillAt(x, g, s, d, pre, id, p, aLo, aHi, T, l),
           NEW n \in Valid(x), n[1] = id, AllPart(g, s, n, p, pHi),
           NEW w, NEW h, NEW e, Opened(x, w, g, h, n, e)
    PROVE  /\ FillAt(w, h, s, d, n, e, p, p, pHi, T, l + 1)
           /\ BlockStart(h, e) = Num(g, n) * Span(l)
<1>1. /\ Inv(x, g, Root, id, T) /\ Sound(x, g, id) /\ Holding(x, g, Root, T) /\ Shape(x) /\ Counted(x)
      /\ Placed(x, g) /\ Linked(x, g) /\ Segments(T) /\ s \in T
      /\ g.lev[id] = l /\ l \in Levels /\ l \in Nat /\ s.left \in Nat /\ s.right \in Nat
      /\ \A a \in s.left .. s.right : a \in Addr /\ a \in Nat
      /\ \A a \in s.left .. s.right : Cov(x, g, Root, a) <=> a < p
  BY FillFacts
<1>2. Asked(s, d) /\ Fresh(x, g, s) /\ Clean(x, g, s, id)  BY DEF FillAt
<1>b. /\ InPart(g, s, n, p, pHi)
      /\ \A a \in s.left .. s.right : Cell(l, a) = Num(g, n) => p <= a
  BY <1>1 DEF AllPart, Level
<1>3. /\ Lo(x, g, n) \notin s.left .. s.right /\ l < LastLevel
      /\ \E c \in Addr : Cell(l, c) = Num(g, n) /\ c \notin s.left .. s.right
  BY <1>b, NodeTaken
<1>4. Level(g, n) = l /\ n \in UsedIds(x) \X Index /\ Num(g, n) \in Nat
  BY <1>1, InNodes, NodePlace DEF Level
<1>5. /\ Sound(w, h, e) /\ w.ret = "ok" /\ Valid(w) = Valid(x) /\ UsedIds(x) \subseteq UsedIds(w)
      /\ SameGeo(x, g, h) /\ h.lev[e] = l + 1 /\ h.num[e] = Num(g, n)
      /\ w.node[n].type = 0 /\ w.node[n].next = e /\ SameContent(x.node[n], w.node[n])
      /\ \A m \in Nodes(x) : m # n => w.node[m] = x.node[m]
  BY <1>4 DEF Opened
<1>6. \A m \in Valid(x) : /\ SameContent(x.node[m], w.node[m]) /\ m \in UsedIds(x) \X Index
                          /\ m # n => w.node[m] = x.node[m]
  BY <1>1, <1>5, SameContentSelf, InNodes
<1>7. /\ Holding(w, h, Root, T)
      /\ \A m \in Valid(x) : /\ Level(h, m) = Level(g, m) /\ Num(h, m) = Num(g, m)
                             /\ Lo(w, h, m) = Lo(x, g, m) /\ Hi(w, h, m) = Hi(x, g, m)
      /\ \A a : Cov(w, h, Root, a) <=> Cov(x, g, Root, a)
  BY <1>1, <1>5, <1>6, SameHolding
<1>8. \A a \in Nat : InBlock(h, e, a) <=> Cell(l, a) = Num(g, n)
  <2> SUFFICES ASSUME NEW a \in Nat PROVE InBlock(h, e, a) <=> Cell(l, a) = Num(g, n)  OBVIOUS
  <2>1. Cell(l, a) = Cell(l + 1, a) \div Fan  BY <1>1, <1>3, CellUp
  <2> QED BY <1>5, <2>1 DEF InBlock
<1>9. /\ p \in s.left .. s.right /\ pHi \in s.left .. s.right /\ p <= pHi
      /\ Cell(l, p) = Num(g, n) /\ Cell(l, pHi) = Num(g, n)
      /\ \A a \in s.left .. s.right : Cell(l, a) = Num(g, n) => p <= a /\ a <= pHi
  BY <1>1, <1>b, <1>4 DEF InPart
<1>10. WholeIn(h, s, e, p, pHi)
  <2>1. RangeIn(h, s, e, p, pHi)  BY <1>1, <1>8, <1>9 DEF RangeIn
  <2>2. \A a \in s.left .. s.right : InBlock(h, e, a) => p <= a  BY <1>1, <1>8, <1>9
  <2>3. \E c \in Addr : InBlock(h, e, c) /\ c \notin s.left .. s.right
    <3>1. PICK c \in Addr : Cell(l, c) = Num(g, n) /\ c \notin s.left .. s.right  BY <1>3
    <3>2. c \in Nat  BY SpanFacts DEF Addr
    <3> QED BY <1>8, <3>1, <3>2
  <2> QED BY <2>1, <2>2, <2>3 DEF WholeIn
<1>11. Fresh(w, h, s)
  <2> SUFFICES ASSUME NEW m \in Valid(x), Lo(w, h, m) \in s.left .. s.right
               PROVE  /\ w.node[m].type = 1
                      /\ \A a \in s.left .. s.right : Cell(Level(h, m), a) = Num(h, m) => Holds(w, h, m, a)
    BY <1>5 DEF Fresh
  <2>1. m # n /\ Lo(x, g, m) \in s.left .. s.right /\ w.node[m] = x.node[m]  BY <1>3, <1>6, <1>7
  <2>2. /\ x.node[m].type = 1
        /\ \A a \in s.left .. s.right : Cell(Level(g, m), a) = Num(g, m) => Holds(x, g, m, a)
    BY <1>2, <2>1 DEF Fresh
  <2> QED BY <1>7, <2>1, <2>2 DEF Holds
<1>12. Clean(w, h, s, e)
  <2> SUFFICES ASSUME NEW m \in Valid(x), NEW a \in s.left .. s.right, Level(g, m) < l + 1,
                      InBlock(h, e, a), Cell(Level(g, m), a) = Num(g, m)
               PROVE  Lo(x, g, m) \notin s.left .. s.right
    BY <1>5, <1>7 DEF Clean
  <2>1. Cell(l, a) = Num(g, n) /\ Level(g, m) \in Nat /\ a \in Nat /\ m \in UsedIds(x) \X Index
    BY <1>1, <1>6, <1>8, NodePlace, LevelNat
  <2>2. CASE Level(g, m) = l
    <3>1. m = n  BY <1>1, <1>4, <2>1, <2>2, SamePlace
    <3> QED BY <1>3, <3>1
  <2>3. CASE Level(g, m) < l
    <3>1. InBlock(g, id, a)  BY <1>1, <1>4, <2>1, NodeInBlock
    <3> QED BY <1>1, <1>2, <2>1, <2>3, <3>1 DEF Clean
  <2> QED BY <1>1, <2>1, <2>2, <2>3
<1>13. LeadsTo(w, n, e)  BY <1>5 DEF LeadsTo
<1>14. Inv(w, h, Root, e, T)  BY <1>5, <1>7 DEF Inv
<1>15. \A a \in s.left .. s.right : Cov(w, h, Root, a) <=> a < p  BY <1>1, <1>7
<1>16. BlockStart(h, e) = Num(g, n) * Span(l)
  <2>1. Span(l) = Fan * Span(l + 1) /\ Span(l + 1) \in Nat
    <3>1. l + 1 \in Levels  BY <1>1, <1>3, LevelNat DEF Levels
    <3> QED BY <1>1, <1>3, <3>1, SpanFacts
  <2>2. BlockStart(h, e) = (Num(g, n) * Fan) * Span(l + 1)  BY <1>5 DEF BlockStart
  <2>3. (Num(g, n) * Fan + 0) * Span(l + 1) = Num(g, n) * Span(l) + 0 * Span(l + 1)
    <3>1. 0 \in Index  BY LevelNat DEF Index
    <3> QED BY <1>1, <1>3, <1>4, <3>1, ChildStart
  <2>4. Num(g, n) * Fan \in Nat /\ Num(g, n) * Span(l) \in Nat
    BY <1>1, <1>4, LevelNat, SpanFacts
  <2> QED BY <2>1, <2>2, <2>3, <2>4
<1> QED BY <1>1, <1>2, <1>5, <1>10, <1>11, <1>12, <1>13, <1>14, <1>15, <1>16 DEF FillAt

\* What the walk added below n it added to the table.
LEMMA BelowAdded ==
    ASSUME NEW x, NEW w, NEW y, NEW g, NEW h, NEW s, NEW n, NEW e, NEW p, NEW pHi, NEW T, NEW l,
           Inv(x, g, Root, 0, T), s \in T, n \in Valid(x), Level(g, n) = l, Opened(x, w, g, h, n, e),
           InPart(g, s, n, p, pHi), FillPost(w, y, h, s, p, pHi, T, l + 1)
    PROVE  FillPost(x, y, g, s, p, pHi, T, l)
<1>1. /\ Sound(x, g, 0) /\ Holding(x, g, Root, T) /\ Shape(x) /\ Counted(x) /\ Placed(x, g) /\ Segments(T)
  BY DEF Inv, Sound, Holding
<1>2. n \in UsedIds(x) \X Index /\ l \in Levels /\ l \in Nat /\ Num(g, n) \in Nat /\ n # Root
  BY <1>1, InNodes, NodePlace, LevelNat
<1>3. /\ Sound(w, h, e) /\ Valid(w) = Valid(x) /\ UsedIds(x) \subseteq UsedIds(w)
      /\ (\A i \in UsedIds(w) : i \in UsedIds(x) \/ i = e)
      /\ SameGeo(x, g, h) /\ h.lev[e] = l + 1 /\ h.num[e] = Num(g, n)
      /\ SameContent(x.node[n], w.node[n])
      /\ \A m \in Nodes(x) : m # n => w.node[m] = x.node[m]
  BY DEF Opened
<1>a. PICK f : \E m \in Int :
                   /\ p - 1 <= m /\ m <= pHi /\ Added(w, y, h, f, s, p, m, T, l + 1)
                   /\ y.ret = "ok" <=> m = pHi
                   /\ y.ret # "ok" => Stuck(y, f, l + 1, m + 1)
  BY DEF FillPost
<1>4. PICK m \in Int : /\ p - 1 <= m /\ m <= pHi /\ Added(w, y, h, f, s, p, m, T, l + 1)
                       /\ y.ret = "ok" <=> m = pHi
                       /\ y.ret # "ok" => Stuck(y, f, l + 1, m + 1)
  BY <1>a
<1>5. \A a : Cov(w, h, Root, a) <=> Cov(x, g, Root, a)
  <2>1. \A q \in Valid(x) : SameContent(x.node[q], w.node[q])
    BY <1>1, <1>3, SameContentSelf, InNodes
  <2> QED BY <1>1, <1>3, <2>1, SameHolding
<1>6. /\ Inv(y, f, Root, 0, T) /\ UsedIds(w) \subseteq UsedIds(y) /\ SameGeo(w, h, f) /\ Fresh(y, f, s)
      /\ \A c \in Addr : Cov(y, f, Root, c) <=> Cov(w, h, Root, c) \/ (p <= c /\ c <= m)
      /\ \A q \in Nodes(w) : q = Root \/ Level(h, q) < l + 1 => y.node[q] = w.node[q]
      /\ \A i \in UsedIds(y) : i \in UsedIds(w) \/ f.lev[i] > l + 1
  BY <1>4 DEF Added, FramedAbove
<1>7. UsedIds(x) \subseteq UsedIds(y) /\ SameGeo(x, g, f)  BY <1>3, <1>6 DEF SameGeo
<1>8. FramedAbove(x, y, g, f, l)
  <2>1. ASSUME NEW q \in Nodes(x), q = Root \/ Level(g, q) < l PROVE y.node[q] = x.node[q]
    <3>1. q # n /\ q \in Nodes(w)  BY <1>2, <1>3, <2>1 DEF Nodes
    <3>2. q = Root \/ Level(h, q) < l + 1
      <4>1. CASE q # Root
        <5>1. q \in UsedIds(x) \X Index /\ Level(g, q) \in Nat
          BY <1>1, <4>1, InNodes, NodePlace, LevelNat
        <5>2. Level(h, q) = Level(g, q)  BY <1>3, <5>1, SameNode
        <5> QED BY <1>2, <2>1, <4>1, <5>1, <5>2
      <4> QED BY <4>1
    <3> QED BY <1>3, <1>6, <3>1, <3>2
  <2>2. ASSUME NEW i \in UsedIds(y) PROVE i \in UsedIds(x) \/ f.lev[i] > l
    <3>1. CASE i \in UsedIds(w) /\ i \notin UsedIds(x)
      <4>1. f.lev[i] = l + 1  BY <1>3, <1>6, <3>1 DEF SameGeo
      <4> QED BY <1>2, <4>1
    <3>2. CASE i \notin UsedIds(w)
      <4>1. f.lev[i] > l + 1 /\ f.lev[i] \in Nat
        <5>1. i \in Ids /\ Placed(y, f)  BY <1>6, UsedFacts DEF Inv, Sound
        <5> QED BY <1>6, <2>2, <3>2, <5>1 DEF Placed
      <4> QED BY <1>2, <4>1
    <3> QED BY <3>1, <3>2
  <2> QED BY <2>1, <2>2 DEF FramedAbove
<1>9. Added(x, y, g, f, s, p, m, T, l)
  <2>1. Grown(w, y) /\ w.lvl = x.lvl  BY <1>4 DEF Added, Opened
  <2>2. Grown(x, y)
    <3> SUFFICES ASSUME NEW q \in Valid(x) PROVE q \in Valid(y) /\ SameContent(x.node[q], y.node[q])
      BY <2>1 DEF Grown
    <3>1. SameContent(x.node[q], w.node[q])  BY <1>1, <1>3, SameContentSelf, InNodes
    <3>2. q \in Valid(y) /\ SameContent(w.node[q], y.node[q])  BY <1>3, <2>1 DEF Grown
    <3> QED BY <3>1, <3>2, SameContentTwice
  <2> QED BY <1>5, <1>6, <1>7, <1>8, <2>2 DEF Added
<1>10. ASSUME y.ret # "ok" PROVE Stuck(y, f, l, m + 1)
  <2>1. p \in Nat /\ pHi \in Nat /\ p <= m + 1 /\ m + 1 <= pHi /\ Cell(l, p) = Num(g, n) /\ Cell(l, pHi) = Num(g, n)
        /\ m + 1 \in Nat
    <3>1. p \in Nat /\ pHi \in Nat /\ Cell(l, p) = Num(g, n) /\ Cell(l, pHi) = Num(g, n)
      BY <1>1, SegmentFacts DEF InPart
    <3> QED BY <1>4, <1>10, <3>1
  <2>2. Cell(l, m + 1) = Num(g, n)
    <3> DEFINE a == m + 1
    <3>1. a \in Nat /\ p <= a /\ a <= pHi  BY <2>1
    <3> HIDE DEF a
    <3>2. Cell(l, a) \in Nat /\ Cell(l, p) <= Cell(l, a) /\ Cell(l, a) <= Cell(l, pHi)
      BY <1>2, <2>1, <3>1, CellNat, CellMonotone
    <3>3. Cell(l, a) = Num(g, n)  BY <1>2, <2>1, <3>2
    <3> QED BY <3>3 DEF a
  <2>3. n \in Valid(y) /\ Level(f, n) = l /\ Num(f, n) = Num(g, n) /\ n \in UsedIds(y) \X Index
    <3>1. n \in Valid(w) /\ n \in UsedIds(w) \X Index /\ Level(h, n) = l
      BY <1>2, <1>3, SameNode
    <3>2. y.node[n] = w.node[n]  BY <1>2, <1>6, <3>1 DEF Nodes
    <3>3. Level(f, n) = l /\ Num(f, n) = Num(g, n)  BY <1>2, <1>7, SameNode
    <3> QED BY <1>6, <3>1, <3>2, <3>3 DEF Valid
  <2> SUFFICES ASSUME NEW q \in UsedIds(y) \X Index, l <= Level(f, q), Cell(Level(f, q), m + 1) = Num(f, q)
               PROVE  q \in Valid(y)
    BY DEF Stuck
  <2>4. Shape(y) /\ Counted(y) /\ Placed(y, f)  BY <1>6 DEF Inv, Sound
  <2>5. Level(f, q) \in Nat  BY <2>4, NodePlace, LevelNat
  <2>6. CASE Level(f, q) = l  BY <2>2, <2>3, <2>4, <2>6, SamePlace
  <2>7. CASE l + 1 <= Level(f, q)  BY <1>4, <1>10, <2>7 DEF Stuck
  <2> QED BY <1>2, <2>5, <2>6, <2>7
<1> QED BY <1>4, <1>9, <1>10 DEF FillPost

\* What is assumed of ummu_table_fill_node_by_level at the level below.
FillBelowOK == \A x, g, s, d, pre, id, lo, hi, aLo, aHi, T :
    /\ FillAt(x, g, s, d, pre, id, aLo, aLo, aHi, T, level + 1)
    /\ Offsets(g, id, lo, hi, aLo, aHi)
    => FillPost(x, FillBelow(x, d, pre, lo, hi), g, s, aLo, aHi, T, level + 1)

\* The next level of a node that is taken gets the part.
LEMMA BelowLoaded ==
    ASSUME FillBelowOK, level \in Nat,
           NEW x, NEW g, NEW s, NEW d, NEW pre, NEW id, NEW p, NEW aLo, NEW aHi, NEW T, NEW pHi,
           FillAt(x, g, s, d, pre, id, p, aLo, aHi, T, level),
           NEW n \in Valid(x), n[1] = id, AllPart(g, s, n, p, pHi),
           NEW lo, NEW hi, PartOffsets(g, n, lo, hi, p, pHi),
           NEW w, NEW h, NEW e, Opened(x, w, g, h, n, e),
           NEW y, y = FillBelow(w, d, n, lo, hi)
    PROVE  FillPost(x, y, g, s, p, pHi, T, level)
<1>1. Inv(x, g, Root, 0, T)
  <2>1. g.lev[id] = level  BY FillFacts
  <2> QED BY <2>1, NodeTaken DEF AllPart, Level
<1>2. s \in T /\ g.lev[id] = level  BY FillFacts
<1>3. Level(g, n) = level /\ InPart(g, s, n, p, pHi)  BY <1>2 DEF Level, AllPart
<1>4. /\ FillAt(w, h, s, d, n, e, p, p, pHi, T, level + 1)
      /\ BlockStart(h, e) = Num(g, n) * Span(level)
  BY FillsBelow
<1>5. Offsets(h, e, lo, hi, p, pHi)  BY <1>3, <1>4 DEF Offsets, PartOffsets
<1>6. FillPost(w, y, h, s, p, pHi, T, level + 1)  BY <1>4, <1>5 DEF FillBelowOK
<1> QED BY <1>1, <1>2, <1>3, <1>6, BelowAdded

\* Taking a level block leaves lvl alone.
LEMMA AllocLevel ==
    ASSUME NEW x, DOMAIN x = TableFields, NEW n, NEW b
    PROVE  ummu_alloc_level_block(x, n, b).lvl = x.lvl
<1> DEFINE i == find_first_zero_bit(x.bitmap, MAX_LEVEL_ID_SIZE)
           new == BlockOf(i) \notin DOMAIN x.block
           y == [x EXCEPT !.node[n].next_block = 0]
           u == ummu_alloc_new_mapt_block(y, BlockOf(i))
           z == IF new THEN u ELSE y
<1>1. DOMAIN y = TableFields /\ y.lvl = x.lvl  BY DEF TableFields
<1> HIDE DEF i, y
<1>2. DOMAIN u = TableFields /\ u.lvl = x.lvl
  BY <1>1 DEF ummu_alloc_new_mapt_block, Fail, TableFields
<1> HIDE DEF new, u
<1>3. DOMAIN z = TableFields /\ z.lvl = x.lvl  BY <1>1, <1>2
<1>4. ummu_alloc_level_block(x, n, b) =
          IF i >= MAX_LEVEL_ID_SIZE THEN Fail(x)
          ELSE IF z.ret # "ok" THEN z
          ELSE [z EXCEPT !.node[n].next = i,
                         !.node[n].next_block = NextBlock(new, b, BlockOf(i)),
                         !.bitmap = ummu_set_bit(i, z.bitmap),
                         !.block[BlockOf(i)].level_cnt = @ + 1]
  BY Zenon DEF ummu_alloc_level_block, i, new, y, u
<1> HIDE DEF z
<1> QED BY <1>3, <1>4 DEF Fail, TableFields

\* One node of the scan of ummu_table_fill_node_by_level.
LEMMA NodeLoaded ==
    ASSUME FillBelowOK, level \in Nat,
           NEW x, NEW g, NEW s, NEW d, NEW pre, NEW id, NEW aLo, NEW aHi, NEW T,
           NEW k \in 1 .. Parts(level, aLo, aHi),
           FillAt(x, g, s, d, pre, id, PartLo(level, aLo, k), aLo, aHi, T, level),
           NEW c, c.id = id, c.d = d, Offsets(g, id, c.lo, c.hi, aLo, aHi),
           NEW y, y = FillNode(x, c, k)
    PROVE  FillPost(x, y, g, s, PartLo(level, aLo, k), PartHi(level, aLo, aHi, k), T, level)
<1> DEFINE p == PartLo(level, aLo, k)
           pHi == PartHi(level, aLo, aHi, k)
           v == NthNode(level, c, k)
           n == v.n
           lo == v.lo
           hi == v.hi
           z == ummu_alloc_level_block(x, n, BlockOf(c.id))
<1>1. /\ Inv(x, g, Root, id, T) /\ Sound(x, g, id) /\ Shape(x) /\ Counted(x) /\ Placed(x, g)
      /\ s \in T /\ Segments(T) /\ g.lev[id] = level /\ level \in Levels /\ id \in UsedIds(x)
      /\ x.ret = "ok" /\ \A a \in s.left .. s.right : a \in Addr /\ a \in Nat
      /\ s.left \in Nat /\ s.right \in Nat /\ g.num[id] \in Nat /\ aLo \in Nat /\ aHi \in Nat
      /\ s.left <= aLo /\ aLo <= aHi /\ aHi <= s.right /\ InBlock(g, id, aLo) /\ InBlock(g, id, aHi)
      /\ \A a \in s.left .. s.right : InBlock(g, id, a) => aLo <= a /\ a <= aHi
  BY FillFacts
<1>4. /\ p \in Nat /\ pHi \in Nat /\ aLo <= p /\ p <= pHi /\ pHi <= aHi
      /\ Cell(level, p) = Cell(level, aLo) + k - 1 /\ Cell(level, pHi) = Cell(level, aLo) + k - 1
      /\ \A a \in Nat : Cell(level, a) = Cell(level, aLo) + k - 1 =>
             /\ aLo <= a => p <= a
             /\ a <= aHi => a <= pHi
             /\ k # 1 => aLo <= a
             /\ k # Parts(level, aLo, aHi) => a <= aHi
  BY <1>1, PartFacts
<1>5. /\ v.n[1] = id /\ v.n[2] \in Index /\ v.n = <<id, Cell(level, aLo) + k - 1 - g.num[id] * Fan>>
      /\ Num(g, v.n) = Cell(level, aLo) + k - 1 /\ Level(g, v.n) = level
      /\ v.lo = p - Num(g, v.n) * Span(level) /\ v.hi = pHi - Num(g, v.n) * Span(level)
      /\ v.mid <=> k # 1 /\ k # Parts(level, aLo, aHi)
  BY <1>1, NthNodeIs
<1>6. y = LET leaf == x.node[n].type = 1
              u    == IF leaf THEN z ELSE x
              w    == IF leaf THEN [u EXCEPT !.node[n].type = 0] ELSE x
          IN  IF x.ret # "ok" THEN x
              ELSE IF x.node[n].valid = 0
              THEN ummu_modify_entry_cnt([x EXCEPT !.node[n] =
                       ummu_table_fill_node(@, lo, hi, c.d)], c.id, 1)
              ELSE IF v.mid THEN Fail(x)
              ELSE IF u.ret # "ok" THEN u
              ELSE FillBelow(w, c.d, n, lo, hi)
  BY Zenon DEF FillNode
<1>7. FillAt(x, g, s, d, pre, id, p, aLo, aHi, T, level)  OBVIOUS
<1>8. PartOffsets(g, n, lo, hi, p, pHi)  BY <1>5 DEF PartOffsets
<1> HIDE DEF v, p, pHi, lo, hi, z
<1>9. n \in UsedIds(x) \X Index /\ n[1] = id /\ Level(g, n) = level /\ Num(g, n) = Cell(level, aLo) + k - 1
  BY <1>1, <1>5
<1>10. \A a \in s.left .. s.right : Cell(level, a) = Num(g, n) => p <= a /\ a <= pHi
  <2> SUFFICES ASSUME NEW a \in s.left .. s.right, Cell(level, a) = Num(g, n) PROVE p <= a /\ a <= pHi
    OBVIOUS
  <2>1. InBlock(g, id, a) /\ a \in Nat  BY <1>1, <1>9, NodeInBlock
  <2>2. aLo <= a /\ a <= aHi  BY <1>1, <2>1
  <2> QED BY <1>4, <1>9, <2>1, <2>2
<1>11. InPart(g, s, n, p, pHi)
  <2>1. p \in s.left .. s.right /\ pHi \in s.left .. s.right  BY <1>1, <1>4
  <2> QED BY <1>4, <1>9, <1>10, <2>1 DEF InPart
<1>b. AllPart(g, s, n, p, pHi)  BY <1>9, <1>10, <1>11 DEF AllPart
<1>12. IsNode(x.node[n]) /\ n \in DOMAIN x.node  BY <1>1, <1>9, UsedNode
<1>13. CASE x.node[n].valid = 0
  <2>1. y = ummu_modify_entry_cnt([x EXCEPT !.node[n] = ummu_table_fill_node(@, lo, hi, d)], id, 1)
    BY <1>1, <1>6, <1>13
  <2> HIDE DEF n
  <2>2. Added(x, y, g, g, s, p, pHi, T, level) /\ y.ret = "ok"
    BY <1>7, <1>8, <1>9, <1>10, <1>11, <1>13, <2>1, PutDone
  <2>3. pHi \in Int /\ p - 1 <= pHi  BY <1>4
  <2>4. FillPost(x, y, g, s, p, pHi, T, level)  BY <2>2, <2>3 DEF FillPost
  <2> QED BY <2>4 DEF p, pHi
<1>14. CASE x.node[n].valid # 0
  <2>1. n \in Valid(x)  BY <1>9, <1>12, <1>14 DEF Valid, IsNode
  <2>2. /\ Inv(x, g, Root, 0, T) /\ level < LastLevel
        /\ \E o \in Addr : Cell(level, o) = Num(g, n) /\ o \notin s.left .. s.right
    <3> HIDE DEF n
    <3> QED BY <1>7, <1>9, <1>10, <1>11, <2>1, NodeTaken
  <2>3. ~v.mid
    <3>1. PICK o \in Addr : Cell(level, o) = Num(g, n) /\ o \notin s.left .. s.right  BY <2>2
    <3>2. o \in Nat  BY SpanFacts DEF Addr
    <3> QED BY <1>1, <1>4, <1>5, <1>9, <3>1, <3>2
  <2>4. Sound(x, g, 0)  BY <2>2 DEF Inv
  <2>5. CASE x.node[n].type = 0
    <3>1. y = FillBelow(x, d, n, lo, hi)  BY <1>1, <1>6, <1>14, <2>3, <2>5
    <3> DEFINE e == x.node[n].next
    <3>2. Opened(x, x, g, g, n, e)  BY <1>1, <2>1, <2>4, <2>5, IsOpen
    <3> HIDE DEF n, e
    <3>3. FillPost(x, y, g, s, p, pHi, T, level)
      BY <1>7, <1>8, <1>9, <1>b, <2>1, <3>1, <3>2, BelowLoaded
    <3> QED BY <3>3 DEF p, pHi
  <2>6. CASE x.node[n].type # 0
    <3>1. x.node[n].type = 1 /\ x.node[n].next_block = 0
      <4>1. x.node[n].type = 1  BY <1>12, <2>6 DEF IsNode
      <4>2. n # Root  BY <1>1, <1>9, UsedNode
      <4> QED BY <1>1, <1>12, <4>1, <4>2 DEF Sound, Flagged
    <3>2. \/ /\ z.ret # "ok" /\ DOMAIN z = TableFields
             /\ z.bitmap = x.bitmap /\ z.block = x.block
             /\ DOMAIN z.node = DOMAIN x.node /\ \A m \in DOMAIN x.node : z.node[m] = x.node[m]
          \/ \E e : Alloced(x, z, n, e)
      <4>1. z = ummu_alloc_level_block(x, n, BlockOf(n[1]))  BY <1>9 DEF z
      <4> HIDE DEF n
      <4> QED BY <1>1, <1>9, <3>1, <4>1, AllocEffect
    <3>a. z.lvl = x.lvl  BY <1>1, AllocLevel DEF z, Shape
    <3>3. y = IF z.ret # "ok" THEN z ELSE FillBelow(HasNext(z, n), d, n, lo, hi)
      BY <1>1, <1>6, <1>14, <2>3, <3>1 DEF HasNext
    <3> HIDE DEF n
    <3>4. CASE z.ret # "ok"
      <4>1. y = z  BY <3>3, <3>4
      <4>2. SameNodes(x, z)
        <5> HIDE DEF z
        <5>1. \A e : ~Alloced(x, z, n, e)  BY <3>4 DEF Alloced
        <5> QED BY <3>2, <3>a, <5>1 DEF SameNodes
      <4>3. FillPost(x, y, g, s, p, pHi, T, level)
        BY <1>7, <1>9, <1>11, <2>1, <2>2, <3>1, <3>4, <4>1, <4>2, NoBlock
      <4> QED BY <4>3 DEF p, pHi
    <3>5. CASE z.ret = "ok"
      <4>1. PICK e : Alloced(x, z, n, e)  BY <3>2, <3>5
      <4> DEFINE w == HasNext(z, n)
                 h == Below(g, n, e)
      <4>2. y = FillBelow(w, d, n, lo, hi)  BY <3>3, <3>5
      <4>3. Opened(x, w, g, h, n, e)  BY <1>9, <2>1, <2>2, <2>4, <3>1, <3>a, <4>1, NowOpen
      <4> HIDE DEF w, h
      <4>4. FillPost(x, y, g, s, p, pHi, T, level)
        BY <1>7, <1>8, <1>9, <1>b, <2>1, <4>2, <4>3, BelowLoaded
      <4> QED BY <4>4 DEF p, pHi
    <3> QED BY <3>4, <3>5
  <2> QED BY <2>5, <2>6
<1> QED BY <1>13, <1>14

\* One part is added after another.
LEMMA AddedTwice ==
    ASSUME NEW x, NEW y, NEW z, NEW g, NEW h, NEW f, NEW s, NEW T, NEW l \in Nat,
           NEW a \in Int, NEW b \in Int, NEW c \in Int, a <= b + 1, b <= c,
           Shape(x), Counted(x), Placed(x, g),
           Added(x, y, g, h, s, a, b, T, l), Added(y, z, h, f, s, b + 1, c, T, l)
    PROVE  Added(x, z, g, f, s, a, c, T, l)
<1>1. /\ UsedIds(x) \subseteq UsedIds(y) /\ SameGeo(x, g, h)
      /\ \A o \in Addr : Cov(y, h, Root, o) <=> Cov(x, g, Root, o) \/ (a <= o /\ o <= b)
      /\ \A q \in Nodes(x) : q = Root \/ Level(g, q) < l => y.node[q] = x.node[q]
      /\ \A i \in UsedIds(y) : i \in UsedIds(x) \/ h.lev[i] > l
  BY DEF Added, FramedAbove
<1>2. /\ Inv(z, f, Root, 0, T) /\ UsedIds(y) \subseteq UsedIds(z) /\ SameGeo(y, h, f) /\ Fresh(z, f, s)
      /\ \A o \in Addr : Cov(z, f, Root, o) <=> Cov(y, h, Root, o) \/ (b + 1 <= o /\ o <= c)
      /\ \A q \in Nodes(y) : q = Root \/ Level(h, q) < l => z.node[q] = y.node[q]
      /\ \A i \in UsedIds(z) : i \in UsedIds(y) \/ f.lev[i] > l
  BY DEF Added, FramedAbove
<1>3. SameGeo(x, g, f) /\ UsedIds(x) \subseteq UsedIds(z)  BY <1>1, <1>2 DEF SameGeo
<1>4. ASSUME NEW o \in Addr PROVE Cov(z, f, Root, o) <=> Cov(x, g, Root, o) \/ (a <= o /\ o <= c)
  <2>1. o \in Nat  BY SpanFacts DEF Addr
  <2>2. (a <= o /\ o <= c) <=> (a <= o /\ o <= b) \/ (b + 1 <= o /\ o <= c)  BY <2>1
  <2> QED BY <1>1, <1>2, <2>2
<1>5. FramedAbove(x, z, g, f, l)
  <2>1. ASSUME NEW q \in Nodes(x), q = Root \/ Level(g, q) < l PROVE z.node[q] = x.node[q]
    <3>1. q \in Nodes(y) /\ y.node[q] = x.node[q]  BY <1>1, <2>1 DEF Nodes
    <3>2. q = Root \/ Level(h, q) < l
      <4>1. CASE q # Root
        <5>1. q \in UsedIds(x) \X Index  BY <4>1 DEF Nodes
        <5> QED BY <1>1, <2>1, <4>1, <5>1, SameNode
      <4> QED BY <4>1
    <3> QED BY <1>2, <3>1, <3>2
  <2>2. ASSUME NEW i \in UsedIds(z) PROVE i \in UsedIds(x) \/ f.lev[i] > l
    BY <1>1, <1>2, <2>2 DEF SameGeo
  <2> QED BY <2>1, <2>2 DEF FramedAbove
<1>6. Grown(x, z)
  <2>1. Grown(x, y) /\ Grown(y, z)  BY DEF Added
  <2>2. z.lvl = x.lvl  BY <2>1 DEF Grown
  <2>3. ASSUME NEW q \in Valid(x) PROVE q \in Valid(z) /\ SameContent(x.node[q], z.node[q])
    <3>1. q \in Valid(y) /\ SameContent(x.node[q], y.node[q])  BY <2>1 DEF Grown
    <3>2. q \in Valid(z) /\ SameContent(y.node[q], z.node[q])  BY <2>1, <3>1 DEF Grown
    <3> QED BY <3>1, <3>2, SameContentTwice
  <2> QED BY <2>2, <2>3 DEF Grown
<1> QED BY <1>2, <1>3, <1>4, <1>5, <1>6 DEF Added

\* The walk goes on in the level block after a part of the range.
LEMMA FillGoesOn ==
    ASSUME NEW x, NEW y, NEW g, NEW h, NEW s, NEW d, NEW pre, NEW id, NEW q \in Int, NEW b \in Int,
           NEW aLo, NEW aHi, NEW T, NEW l,
           FillAt(x, g, s, d, pre, id, q, aLo, aHi, T, l), q <= b + 1, s.left <= q,
           Added(x, y, g, h, s, q, b, T, l), y.ret = "ok"
    PROVE  FillAt(y, h, s, d, pre, id, b + 1, aLo, aHi, T, l)
<1>1. /\ Inv(x, g, Root, id, T) /\ Sound(x, g, id) /\ Shape(x) /\ Counted(x) /\ Placed(x, g)
      /\ s \in T /\ Segments(T) /\ g.lev[id] = l /\ l \in Levels /\ l \in Nat /\ id \in UsedIds(x)
      /\ LeadsTo(x, pre, id)
      /\ \A a \in s.left .. s.right : a \in Addr /\ a \in Nat
      /\ \A a \in s.left .. s.right : Cov(x, g, Root, a) <=> a < q
  BY FillFacts
<1>2. /\ Inv(y, h, Root, 0, T) /\ UsedIds(x) \subseteq UsedIds(y) /\ SameGeo(x, g, h)
      /\ \A o \in Addr : Cov(y, h, Root, o) <=> Cov(x, g, Root, o) \/ (q <= o /\ o <= b)
      /\ Fresh(y, h, s)
      /\ \A n \in Nodes(x) : n = Root \/ Level(g, n) < l => y.node[n] = x.node[n]
      /\ \A i \in UsedIds(y) : i \in UsedIds(x) \/ h.lev[i] > l
  BY DEF Added, FramedAbove
<1>3. Inv(y, h, Root, id, T)  BY <1>2 DEF Inv, Sound, Filled
<1>4. /\ h.lev[id] = l /\ \A a : InBlock(h, id, a) <=> InBlock(g, id, a)
  BY <1>1, <1>2, SameNode DEF SameGeo
<1>5. WholeIn(h, s, id, aLo, aHi) /\ Asked(s, d)  BY <1>1, <1>4 DEF FillAt, WholeIn, RangeIn
<1>6. LeadsTo(y, pre, id)
  <2>1. /\ pre \in Nodes(x)
        /\ pre # Root => pre \in Valid(x) /\ x.node[pre].type = 0 /\ Level(g, pre) = l - 1
    BY <1>1, WayIn
  <2>2. pre = Root \/ Level(g, pre) < l  BY <1>1, <2>1
  <2>3. y.node[pre] = x.node[pre]  BY <1>2, <2>1, <2>2
  <2>4. pre # Root => pre \in Valid(y) /\ y.node[pre].type = 0  BY <1>2, <2>1, <2>3 DEF Valid
  <2> QED BY <1>1, <2>3, <2>4 DEF LeadsTo
<1>7. Clean(y, h, s, id)
  <2> SUFFICES ASSUME NEW n \in Valid(y), NEW a \in s.left .. s.right, Level(h, n) < l, InBlock(h, id, a),
                      Cell(Level(h, n), a) = Num(h, n)
               PROVE  Lo(y, h, n) \notin s.left .. s.right
    BY <1>4 DEF Clean
  <2>1. n \in UsedIds(y) \X Index /\ y.node[n].valid = 1  BY DEF Valid
  <2>2. n \in UsedIds(x) \X Index
    <3>1. n[1] \in UsedIds(y) /\ h.lev[n[1]] = Level(h, n)  BY <2>1 DEF Level
    <3>2. Level(h, n) \in Nat  BY <1>2, <2>1, NodePlace, LevelNat DEF Inv, Sound
    <3>3. ~(h.lev[n[1]] > l)  BY <1>1, <3>1, <3>2
    <3> QED BY <1>2, <2>1, <3>1, <3>3
  <2>3. Level(h, n) = Level(g, n) /\ Num(h, n) = Num(g, n)  BY <1>2, <2>2, SameNode
  <2>4. y.node[n] = x.node[n] /\ n \in Valid(x)
    <3>1. n \in Nodes(x)  BY <2>2 DEF Nodes
    <3>2. y.node[n] = x.node[n]  BY <1>2, <2>3, <3>1
    <3> QED BY <2>1, <2>2, <3>2 DEF Valid
  <2>5. Lo(y, h, n) = Lo(x, g, n)  BY <2>3, <2>4 DEF Lo
  <2>6. Clean(x, g, s, id)  BY DEF FillAt
  <2> QED BY <1>1, <1>4, <2>3, <2>4, <2>5, <2>6 DEF Clean
<1>8. \A a \in s.left .. s.right : Cov(y, h, Root, a) <=> a < b + 1
  <2> SUFFICES ASSUME NEW a \in s.left .. s.right PROVE Cov(y, h, Root, a) <=> a < b + 1
    OBVIOUS
  <2>1. a \in Addr /\ a \in Nat  BY <1>1
  <2> QED BY <1>1, <1>2, <2>1
<1> QED BY <1>1, <1>2, <1>3, <1>4, <1>5, <1>6, <1>7, <1>8 DEF FillAt

\* The state after k nodes of the scan.
FillScanAt(x, y, g, s, aLo, aHi, T, k) ==
    /\ k = 0 => y = x
    /\ k # 0 /\ y.ret = "ok" => \E h : Added(x, y, g, h, s, aLo, PartHi(level, aLo, aHi, k), T, level)
    /\ k # 0 /\ y.ret # "ok" => FillPost(x, y, g, s, aLo, aHi, T, level)

\* The part of a node is a part of the range.
LEMMA PartPost ==
    ASSUME NEW x, NEW y, NEW z, NEW g, NEW h, NEW s, NEW T, level \in Nat,
           NEW aLo \in Int, NEW aHi \in Int, NEW b \in Int, NEW pHi \in Int, aLo <= b + 1, pHi <= aHi,
           \/ y = x /\ h = g /\ b + 1 = aLo
           \/ Shape(x) /\ Counted(x) /\ Placed(x, g) /\ Added(x, y, g, h, s, aLo, b, T, level),
           FillPost(y, z, h, s, b + 1, pHi, T, level)
    PROVE  /\ z.ret = "ok" => \E f : Added(x, z, g, f, s, aLo, pHi, T, level)
           /\ z.ret # "ok" => FillPost(x, z, g, s, aLo, aHi, T, level)
<1>1. PICK f : \E m \in Int : /\ (b + 1) - 1 <= m /\ m <= pHi
                              /\ Added(y, z, h, f, s, b + 1, m, T, level)
                              /\ z.ret = "ok" <=> m = pHi
                              /\ z.ret # "ok" => Stuck(z, f, level, m + 1)
  BY DEF FillPost
<1>2. PICK m \in Int : /\ (b + 1) - 1 <= m /\ m <= pHi
                       /\ Added(y, z, h, f, s, b + 1, m, T, level)
                       /\ z.ret = "ok" <=> m = pHi
                       /\ z.ret # "ok" => Stuck(z, f, level, m + 1)
  BY <1>1
<1>3. Added(x, z, g, f, s, aLo, m, T, level)
  <2>1. CASE y = x /\ h = g /\ b + 1 = aLo  BY <1>2, <2>1
  <2>2. CASE Shape(x) /\ Counted(x) /\ Placed(x, g) /\ Added(x, y, g, h, s, aLo, b, T, level)
    <3>1. b <= m  BY <1>2
    <3> QED BY <1>2, <2>2, <3>1, AddedTwice
  <2> QED BY <2>1, <2>2
<1>4. CASE z.ret = "ok"  BY <1>2, <1>3, <1>4
<1>5. CASE z.ret # "ok"
  <2>1. aLo - 1 <= m /\ m <= aHi /\ m # aHi  BY <1>2, <1>5
  <2> QED BY <1>2, <1>3, <1>5, <2>1 DEF FillPost
<1> QED BY <1>4, <1>5

\* One more node of the scan.
LEMMA FillPass ==
    ASSUME FillBelowOK, level \in Nat,
           NEW x, NEW g, NEW s, NEW d, NEW pre, NEW id, NEW aLo, NEW aHi, NEW T,
           FillAt(x, g, s, d, pre, id, aLo, aLo, aHi, T, level),
           NEW k \in Nat, k < Parts(level, aLo, aHi),
           NEW c, c.id = id, c.d = d, Offsets(g, id, c.lo, c.hi, aLo, aHi),
           NEW y, FillScanAt(x, y, g, s, aLo, aHi, T, k),
           NEW z, z = FillNode(y, c, k + 1)
    PROVE  FillScanAt(x, z, g, s, aLo, aHi, T, k + 1)
<1>1. /\ Shape(x) /\ Counted(x) /\ Placed(x, g) /\ x.ret = "ok" /\ level \in Levels
      /\ aLo \in Nat /\ aHi \in Nat /\ aLo <= aHi /\ s.left \in Nat /\ s.left <= aLo /\ id \in UsedIds(x)
  BY FillFacts
<1>2. Cell(level, aLo) \in Nat /\ Cell(level, aHi) \in Nat  BY <1>1, CellNat
<1> DEFINE j == k + 1
           p == PartLo(level, aLo, j)
           pHi == PartHi(level, aLo, aHi, j)
<1>3. Parts(level, aLo, aHi) \in Int /\ j \in 1 .. Parts(level, aLo, aHi)  BY <1>2 DEF Parts
<1> HIDE DEF j
<1>4. p \in Nat /\ pHi \in Nat /\ aLo <= p /\ p <= pHi /\ pHi <= aHi  BY <1>1, <1>3, PartFacts
<1>5. z = FillNode(y, c, j)  BY DEF j
<1>6. CASE k = 0
  <2> DEFINE b == p - 1
  <2>1. y = x /\ j = 1 /\ p = aLo  BY <1>6 DEF FillScanAt, PartLo, j
  <2>2. FillPost(x, z, g, s, p, pHi, T, level)  BY <1>3, <1>5, <2>1, NodeLoaded
  <2>3. b \in Int /\ b + 1 = p  BY <1>4
  <2> HIDE DEF b, p, pHi
  <2>4. FillPost(y, z, g, s, b + 1, pHi, T, level) /\ aLo <= b + 1 /\ b + 1 = aLo
    BY <1>4, <2>1, <2>2, <2>3
  <2>5. /\ z.ret = "ok" => \E f : Added(x, z, g, f, s, aLo, pHi, T, level)
        /\ z.ret # "ok" => FillPost(x, z, g, s, aLo, aHi, T, level)
    BY <1>1, <1>4, <2>1, <2>3, <2>4, PartPost
  <2> QED BY <2>5, <1>3 DEF FillScanAt, j, pHi
<1>7. CASE k # 0 /\ y.ret # "ok"
  <2>1. z = y  BY <1>7, Zenon DEF FillNode
  <2> QED BY <1>7, <2>1 DEF FillScanAt
<1>8. CASE k # 0 /\ y.ret = "ok"
  <2> DEFINE b == PartHi(level, aLo, aHi, k)
  <2>1. PICK h : Added(x, y, g, h, s, aLo, b, T, level)  BY <1>8 DEF FillScanAt
  <2>2. b \in Int /\ b + 1 = p /\ aLo <= b + 1 /\ b \in Nat
    <3>1. k \in 1 .. Parts(level, aLo, aHi)  BY <1>3, <1>8 DEF j
    <3>2. b \in Nat /\ PartLo(level, aLo, k + 1) = b + 1 /\ aLo <= b
      <4>1. PartLo(level, aLo, k + 1) = b + 1 /\ b \in Nat  BY <1>1, <3>1, PartFacts
      <4>2. aLo <= PartLo(level, aLo, k) /\ PartLo(level, aLo, k) <= b /\ PartLo(level, aLo, k) \in Nat
        BY <1>1, <3>1, PartFacts
      <4> QED BY <1>1, <4>1, <4>2
    <3> QED BY <1>1, <3>2 DEF j
  <2> HIDE DEF b
  <2>3. FillAt(y, h, s, d, pre, id, b + 1, aLo, aHi, T, level)
    <3>1. aLo \in Int  BY <1>1
    <3> QED BY <1>1, <1>8, <2>1, <2>2, <3>1, FillGoesOn
  <2>4. Offsets(h, id, c.lo, c.hi, aLo, aHi)
    BY <1>1, <2>1 DEF Added, SameGeo, Offsets, BlockStart
  <2>5. FillPost(y, z, h, s, p, pHi, T, level)
    <3>1. FillAt(y, h, s, d, pre, id, PartLo(level, aLo, j), aLo, aHi, T, level)  BY <2>2, <2>3
    <3> QED BY <1>3, <1>5, <2>4, <3>1, NodeLoaded
  <2> HIDE DEF p, pHi
  <2>6. FillPost(y, z, h, s, b + 1, pHi, T, level)  BY <2>2, <2>5
  <2>7. /\ z.ret = "ok" => \E f : Added(x, z, g, f, s, aLo, pHi, T, level)
        /\ z.ret # "ok" => FillPost(x, z, g, s, aLo, aHi, T, level)
    BY <1>1, <1>4, <2>1, <2>2, <2>6, PartPost
  <2> QED BY <2>7, <1>3 DEF FillScanAt, j, pHi
<1> QED BY <1>6, <1>7, <1>8

\* ummu_table_fill_node_by_level, at any level whose next one keeps the same
\* promise: the table gets the range, with what the request asks for, besides
\* what it held; if no level block is left the walk fails, and the table has
\* the range up to an address whose way down is taken by other segments.
THEOREM FillCorrect ==
    ASSUME FillBelowOK, level \in Nat,
           NEW x, NEW g, NEW s, NEW d, NEW pre, NEW id, NEW lo, NEW hi, NEW aLo, NEW aHi, NEW T,
           FillAt(x, g, s, d, pre, id, aLo, aLo, aHi, T, level), Offsets(g, id, lo, hi, aLo, aHi)
    PROVE  FillPost(x, ummu_table_fill_node_by_level(x, d, pre, lo, hi), g, s, aLo, aHi, T, level)
<1>1. /\ Sound(x, g, id) /\ g.lev[id] = level /\ level \in Levels /\ id \in UsedIds(x) /\ LeadsTo(x, pre, id)
      /\ g.num[id] \in Nat /\ aLo \in Nat /\ aHi \in Nat /\ aLo <= aHi
      /\ InBlock(g, id, aLo) /\ InBlock(g, id, aHi)
  BY FillFacts
<1>2. BlockOf(id) \in DOMAIN x.block /\ x.node[pre].next = id  BY <1>1, WayIn DEF LeadsTo
<1>3. ~(level > LastLevel)  BY <1>1, LevelNat DEF Levels
<1> DEFINE c == Scan(x, pre, lo, hi, d, UMMU_GRANT)
           N == Parts(level, aLo, aHi)
           y == FillScan!Iterate(x, c, N)
<1>4. ummu_table_fill_node_by_level(x, d, pre, lo, hi) = y
  <2>1. NodeCount(level, lo, hi) = N  BY <1>1, NodeCountIs
  <2>2. ~NoLevel(x, level, pre)  BY <1>2, <1>3 DEF NoLevel
  <2>3. ummu_table_fill_node_by_level(x, d, pre, lo, hi) =
            IF NoLevel(x, level, pre) THEN Fail(x)
            ELSE FillScan!Iterate(x, c, NodeCount(level, lo, hi))
    BY Zenon DEF ummu_table_fill_node_by_level
  <2> HIDE DEF c, N
  <2> QED BY <2>1, <2>2, <2>3
<1>5. c.id = id /\ c.d = d /\ c.lo = lo /\ c.hi = hi  BY <1>2 DEF Scan
<1>6. N \in Nat \ {0}  BY <1>1, NodeCountIs
<1> HIDE DEF c
<1>7. /\ FillScan!Iterate(x, c, 0) = x
      /\ \A k \in Nat : FillScan!Iterate(x, c, k + 1) = FillNode(FillScan!Iterate(x, c, k), c, k + 1)
  BY FillScan!IterateStep
<1> DEFINE S == {k \in Nat : k <= N => FillScanAt(x, FillScan!Iterate(x, c, k), g, s, aLo, aHi, T, k)}
<1>8. 0 \in S  BY <1>7 DEF FillScanAt
<1>9. \A k \in Nat : k \in S => k + 1 \in S
  <2> SUFFICES ASSUME NEW k \in Nat, k \in S, k + 1 <= N
               PROVE  FillScanAt(x, FillScan!Iterate(x, c, k + 1), g, s, aLo, aHi, T, k + 1)
    OBVIOUS
  <2> DEFINE u == FillScan!Iterate(x, c, k)
             w == FillScan!Iterate(x, c, k + 1)
  <2>1. w = FillNode(u, c, k + 1)  BY <1>7
  <2>2. FillScanAt(x, u, g, s, aLo, aHi, T, k) /\ k < Parts(level, aLo, aHi)  BY <1>6
  <2>3. Offsets(g, id, c.lo, c.hi, aLo, aHi)  BY <1>5
  <2> HIDE DEF u, w, S
  <2>4. FillScanAt(x, w, g, s, aLo, aHi, T, k + 1)  BY <1>5, <2>1, <2>2, <2>3, FillPass
  <2> QED BY <2>4 DEF w
<1>10. FillScanAt(x, y, g, s, aLo, aHi, T, N)
  <2>1. Nat \subseteq S
    <3> HIDE DEF S
    <3> QED BY <1>8, <1>9, FillScan!NatSetInduction
  <2> QED BY <1>6, <2>1
<1>11. PartHi(level, aLo, aHi, N) = aHi
  <2>1. N \in 1 .. Parts(level, aLo, aHi)  BY <1>6
  <2> HIDE DEF N
  <2>2. (N = Parts(level, aLo, aHi)) <=> (PartHi(level, aLo, aHi, N) = aHi)
    BY <1>1, <2>1, PartFacts
  <2> QED BY <2>2 DEF N
<1> HIDE DEF y, N
<1>12. FillPost(x, y, g, s, aLo, aHi, T, level)
  <2>1. CASE y.ret = "ok"
    <3>1. PICK h : Added(x, y, g, h, s, aLo, aHi, T, level)
      BY <1>6, <1>10, <1>11, <2>1 DEF FillScanAt
    <3>2. aHi \in Int /\ aLo - 1 <= aHi  BY <1>1
    <3> QED BY <2>1, <3>1, <3>2 DEF FillPost
  <2>2. CASE y.ret # "ok"  BY <1>6, <1>10, <2>2 DEF FillScanAt
  <2> QED BY <2>1, <2>2
<1> QED BY <1>4, <1>12

----------------------------------------
(* Adding and removing tokens. *)

\* The facts about a token walk that the proofs use most.
LEMMA TokenFacts ==
    ASSUME NEW x, NEW g, NEW s, NEW d, NEW op, NEW pre, NEW id, NEW aLo, NEW aHi, NEW T, NEW l,
           TokenWalk(x, g, s, d, op, pre, id, aLo, aHi, T, l)
    PROVE  /\ Inv(x, g, Root, 0, T) /\ Sound(x, g, 0) /\ Shape(x) /\ Counted(x) /\ Placed(x, g)
           /\ Linked(x, g) /\ s \in T /\ Segments(T) /\ Ready(s, d, op)
           /\ \A a \in s.left .. s.right : Cov(x, g, Root, a) /\ a \in Addr /\ a \in Nat
           /\ LeadsTo(x, pre, id) /\ g.lev[id] = l /\ l \in Levels /\ l \in Nat /\ id \in UsedIds(x)
           /\ s.left \in Nat /\ s.right \in Nat /\ aLo \in Nat /\ aHi \in Nat
           /\ s.left <= aLo /\ aLo <= aHi /\ aHi <= s.right
           /\ RangeIn(g, s, id, aLo, aHi) /\ InBlock(g, id, aLo) /\ InBlock(g, id, aHi)
           /\ g.num[id] \in Nat /\ NoUpper(x, g, l, aLo, aHi) /\ FromHere(x, g, s, id, aLo)
           /\ First(x, g, Root, T) /\ Disjoint(x, g, Root) /\ Paid(x, g, Root, T)
           /\ DOMAIN x = TableFields
<1>1. /\ Inv(x, g, Root, 0, T) /\ s \in T /\ Ready(s, d, op)
      /\ \A a \in s.left .. s.right : Cov(x, g, Root, a)
      /\ LeadsTo(x, pre, id) /\ g.lev[id] = l /\ RangeIn(g, s, id, aLo, aHi)
      /\ NoUpper(x, g, l, aLo, aHi) /\ FromHere(x, g, s, id, aLo)
  BY DEF TokenWalk
<1>2. /\ Sound(x, g, 0) /\ Segments(T) /\ First(x, g, Root, T) /\ Disjoint(x, g, Root)
      /\ Paid(x, g, Root, T)
  BY <1>1 DEF Inv, Holding
<1>3. Shape(x) /\ Counted(x) /\ Placed(x, g) /\ Linked(x, g) /\ DOMAIN x = TableFields
  BY <1>2 DEF Sound, Shape
<1>4. id \in UsedIds(x) /\ l \in Levels /\ l \in Nat  BY <1>1, <1>2, WayIn
<1>5. g.num[id] \in Nat  BY <1>3, <1>4, UsedFacts DEF Placed
<1>6. /\ s.left \in Nat /\ s.right \in Nat /\ \A a \in s.left .. s.right : a \in Addr /\ a \in Nat
  BY <1>1, <1>2, SegmentFacts
<1>7. /\ aLo \in s.left .. s.right /\ aHi \in s.left .. s.right /\ aLo <= aHi
      /\ InBlock(g, id, aLo) /\ InBlock(g, id, aHi)
  BY <1>1 DEF RangeIn
<1> QED BY <1>1, <1>2, <1>3, <1>4, <1>5, <1>6, <1>7

\* No token changes what a node holds, where, or its next level.
LEMMA UpdatedSame ==
    ASSUME NEW x, NEW y, NEW g, NEW d, NEW op, NEW a, NEW b, Shape(x), Updated(x, y, g, d, op, a, b),
           NEW n \in DOMAIN x.node
    PROVE  /\ DOMAIN y.node[n] = NodeFields
           /\ \A f \in NodeFields \ {"tok0", "tok1", "nonce"} : y.node[n][f] = x.node[n][f]
           /\ y.node[n].valid = x.node[n].valid /\ y.node[n].type = x.node[n].type
           /\ y.node[n].next = x.node[n].next /\ y.node[n].next_block = x.node[n].next_block
           /\ y.node[n].base = x.node[n].base /\ y.node[n].limit = x.node[n].limit
           /\ y.node[n].attr = x.node[n].attr /\ y.node[n].token_check = x.node[n].token_check
<1> DEFINE r == x.node[n]
           u == y.node[n]
<1>1. u = Tokened(r, d, op) \/ u = r  BY DEF Updated
<1>2. DOMAIN r = NodeFields  BY DEF Shape, IsNode
<1> HIDE DEF r, u
<1>3. DOMAIN u = NodeFields /\ \A f \in NodeFields \ {"tok0", "tok1", "nonce"} : u[f] = r[f]
  <2>1. CASE u = r  BY <1>2, <2>1
  <2>2. CASE u = Tokened(r, d, op)  BY <1>2, <2>2 DEF Tokened, NodeFields
  <2> QED BY <1>1, <2>1, <2>2
<1>4. /\ u.valid = r.valid /\ u.type = r.type /\ u.next = r.next /\ u.next_block = r.next_block
      /\ u.base = r.base /\ u.limit = r.limit /\ u.attr = r.attr /\ u.token_check = r.token_check
  BY <1>3 DEF NodeFields
<1> QED BY <1>3, <1>4 DEF r, u

\* The node of a level on the way to the head of the range is valid; if it
\* does not hold the head, a node further down does.
LEMMA TokenHead ==
    ASSUME NEW x, NEW g, NEW s, NEW d, NEW op, NEW pre, NEW id, NEW aLo, NEW aHi, NEW T, NEW l,
           TokenWalk(x, g, s, d, op, pre, id, aLo, aHi, T, l), NEW p \in aLo .. aHi,
           NEW n \in UsedIds(x) \X Index, n[1] = id, Cell(l, p) = Num(g, n)
    PROVE  /\ n \in Valid(x) /\ Level(g, n) = l
           /\ ~Holds(x, g, n, p) =>
                  /\ x.node[n].type = 0
                  /\ \E q \in Valid(x) : /\ Holds(x, g, q, p) /\ l < Level(g, q) /\ q # n
                                         /\ Level(g, q) \in Levels /\ Level(g, q) \in Nat
<1>0. /\ Inv(x, g, Root, 0, T) /\ Sound(x, g, 0) /\ Shape(x) /\ Counted(x) /\ Placed(x, g)
      /\ s \in T /\ g.lev[id] = l /\ l \in Nat /\ aLo \in Nat /\ aHi \in Nat
      /\ s.left \in Nat /\ s.right \in Nat /\ s.left <= aLo /\ aHi <= s.right
      /\ \A a \in s.left .. s.right : Cov(x, g, Root, a) /\ a \in Nat
      /\ NoUpper(x, g, l, aLo, aHi)
  BY TokenFacts
<1>1. Level(g, n) = l  BY <1>0 DEF Level
<1>2. p \in Nat /\ p \in s.left .. s.right  BY <1>0
<1>3. PICK q \in Valid(x) : Holds(x, g, q, p)  BY <1>0, <1>2 DEF Cov
<1>4. Level(g, q) \in Nat /\ Level(g, q) \in Levels  BY <1>0, <1>3, InNodes, NodePlace, LevelNat
<1>5. l <= Level(g, q)  BY <1>0, <1>3, <1>4 DEF NoUpper
<1>6. n \in Valid(x) /\ (q # n => x.node[n].type = 0 /\ l < Level(g, q))
  BY <1>0, <1>1, <1>2, <1>3, <1>5, OnTheWay
<1> QED BY <1>1, <1>3, <1>4, <1>6

\* ummu_update_token on the next node of s.
LEMMA OneUpdated ==
    ASSUME NEW x, NEW y, NEW g, NEW s, NEW d, NEW op, NEW T,
           Inv(x, g, Root, 0, T), s \in T, Ready(s, d, op),
           NEW n \in Valid(x), Lo(x, g, n) \in s.left .. s.right, y.ret = "ok",
           NEW b \in Int, b + 1 = Lo(x, g, n), Updated(x, y, g, d, op, s.left, b),
           NEW z, z = ummu_update_token(y, n, d, op)
    PROVE  z.ret = "ok" /\ Updated(x, z, g, d, op, s.left, Hi(x, g, n))
<1> DEFINE lo == Lo(x, g, n)
           hi == Hi(x, g, n)
<1>1. /\ Shape(x) /\ Counted(x) /\ Placed(x, g) /\ Segments(T) /\ Content(x, g, Root, T)
      /\ Disjoint(x, g, Root) /\ Paid(x, g, Root, T)
  BY DEF Inv, Sound, Holding
<1>2. /\ n \in DOMAIN x.node /\ n \in Valid(x) \ {Root} /\ x.node[n].valid = 1
  BY <1>1, InNodes, RootNotValid
<1>3. ASSUME NEW m \in Valid(x) PROVE Lo(x, g, m) \in Nat /\ Hi(x, g, m) \in Nat /\ Lo(x, g, m) <= Hi(x, g, m)
  <2>1. m \in Valid(x) \ {Root}  BY RootNotValid
  <2>2. Lo(x, g, m) \in Addr /\ Hi(x, g, m) \in Addr /\ Lo(x, g, m) <= Hi(x, g, m)
    BY <1>1, <2>1, NodeContent
  <2> QED BY <2>2, SpanFacts DEF Addr
<1>4. s.left \in Nat /\ s.right \in Nat /\ lo \in Nat /\ hi \in Nat /\ s.left <= lo /\ lo <= hi /\ b < lo
  BY <1>1, <1>3, SegmentFacts
<1>5. Agrees(s, x.node[n])  BY <1>1, <1>2 DEF Paid
<1>6. y.node[n] = x.node[n]
  <2>1. ~StartsIn(x, g, n, s.left, b)  BY <1>4 DEF StartsIn
  <2> QED BY <1>2, <2>1 DEF Updated
<1>7. DOMAIN y = TableFields /\ n \in DOMAIN y.node /\ DOMAIN y.node[n] = NodeFields
  BY <1>1, <1>2, <1>6 DEF Updated, Shape, IsNode
<1>8. /\ z.ret = "ok" /\ DOMAIN z = TableFields /\ z.bitmap = y.bitmap /\ z.block = y.block
      /\ DOMAIN z.node = DOMAIN y.node /\ z.node[n] = Tokened(x.node[n], d, op)
      /\ \A m \in DOMAIN y.node : m # n => z.node[m] = y.node[m]
  <2>1. CASE op = UMMU_ADD_TOKEN
    <3>1. x.node[n].nonce = 1  BY <1>5, <2>1 DEF Agrees, Ready
    <3>2. z = [y EXCEPT !.node[n].tok1 = d.tokenval, !.node[n].nonce = UMMU_MAX_TOKEN_NUM]
      BY <1>2, <1>6, <2>1, <3>1 DEF ummu_update_token, ummu_add_token
    <3>3. Tokened(x.node[n], d, op) = [x.node[n] EXCEPT !.tok1 = d.tokenval, !.nonce = UMMU_MAX_TOKEN_NUM]
      BY <2>1 DEF Tokened
    <3> QED BY <1>6, <1>7, <3>2, <3>3 DEF TableFields, NodeFields
  <2>2. CASE op # UMMU_ADD_TOKEN
    <3>1. d.tokenval = x.node[n].tok0 \/ d.tokenval = x.node[n].tok1
      BY <1>5, <2>2 DEF Agrees, Ready
    <3>2. z = IF x.node[n].tok0 = d.tokenval
              THEN [y EXCEPT !.node[n].tok0 = x.node[n].tok1, !.node[n].nonce = 1]
              ELSE [y EXCEPT !.node[n].tok1 = x.node[n].tok0, !.node[n].nonce = 1]
      BY <1>6, <2>2, <3>1 DEF ummu_update_token, ummu_remove_token
    <3>3. Tokened(x.node[n], d, op) =
              IF x.node[n].tok0 = d.tokenval THEN [x.node[n] EXCEPT !.tok0 = x.node[n].tok1, !.nonce = 1]
              ELSE [x.node[n] EXCEPT !.tok1 = x.node[n].tok0, !.nonce = 1]
      BY <2>2 DEF Tokened
    <3>4. CASE x.node[n].tok0 = d.tokenval
      BY <1>6, <1>7, <3>2, <3>3, <3>4 DEF TableFields, NodeFields
    <3>5. CASE x.node[n].tok0 # d.tokenval
      BY <1>6, <1>7, <3>2, <3>3, <3>5 DEF TableFields, NodeFields
    <3> QED BY <3>4, <3>5
  <2> QED BY <2>1, <2>2
<1>9. ASSUME NEW m \in DOMAIN x.node
      PROVE  z.node[m] = IF StartsIn(x, g, m, s.left, hi) THEN Tokened(x.node[m], d, op) ELSE x.node[m]
  <2>1. CASE m = n
    <3>1. StartsIn(x, g, m, s.left, hi)  BY <1>4, <2>1 DEF StartsIn
    <3> QED BY <1>8, <2>1, <3>1
  <2>2. CASE m # n
    <3>1. StartsIn(x, g, m, s.left, hi) <=> StartsIn(x, g, m, s.left, b)
      <4> SUFFICES ASSUME m \in Valid(x) PROVE Lo(x, g, m) <= hi <=> Lo(x, g, m) <= b
        BY DEF StartsIn
      <4>1. hi < Lo(x, g, m) \/ Hi(x, g, m) < lo  BY <1>1, <1>2, <2>2, RootNotValid DEF Disjoint
      <4>2. Lo(x, g, m) \in Nat /\ Hi(x, g, m) \in Nat /\ Lo(x, g, m) <= Hi(x, g, m)  BY <1>3
      <4> HIDE DEF lo, hi
      <4>3. b + 1 = lo  BY DEF lo
      <4> QED BY <1>4, <4>1, <4>2, <4>3
    <3> QED BY <1>8, <2>2, <3>1 DEF Updated
  <2> QED BY <2>1, <2>2
<1>10. DOMAIN z.node = DOMAIN x.node /\ z.bitmap = x.bitmap /\ z.block = x.block
  BY <1>8 DEF Updated
<1> QED BY <1>8, <1>9, <1>10 DEF Updated

\* The walk goes below a node that holds nothing of the rest of its part.
LEMMA TokenBelow ==
    ASSUME NEW x, NEW g, NEW s, NEW d, NEW op, NEW pre, NEW id, NEW aLo, NEW aHi, NEW T, NEW l,
           TokenWalk(x, g, s, d, op, pre, id, aLo, aHi, T, l),
           NEW n, NEW p, NEW pHi, AtNode(x, g, s, n, id, p, pHi, aLo, aHi), x.node[n].type = 0,
           NEW e \in p .. pHi, \A a \in e .. pHi : ~Holds(x, g, n, a),
           \A q \in Valid(x) : /\ l < Level(g, q) /\ Lo(x, g, q) \in s.left .. s.right
                               /\ Cell(l, Lo(x, g, q)) = Num(g, n)
                               => e <= Lo(x, g, q)
    PROVE  /\ TokenWalk(x, g, s, d, op, n, x.node[n].next, e, pHi, T, l + 1)
           /\ BlockStart(g, x.node[n].next) = Num(g, n) * Span(l)
<1>0. /\ Inv(x, g, Root, 0, T) /\ Sound(x, g, 0) /\ Shape(x) /\ Counted(x) /\ Placed(x, g)
      /\ Linked(x, g) /\ s \in T /\ Segments(T) /\ Ready(s, d, op)
      /\ \A a \in s.left .. s.right : Cov(x, g, Root, a) /\ a \in Addr /\ a \in Nat
      /\ g.lev[id] = l /\ l \in Levels /\ l \in Nat /\ id \in UsedIds(x)
      /\ s.left \in Nat /\ s.right \in Nat /\ aLo \in Nat /\ aHi \in Nat
      /\ s.left <= aLo /\ aLo <= aHi /\ aHi <= s.right /\ NoUpper(x, g, l, aLo, aHi)
  BY TokenFacts
<1>1. /\ n \in Valid(x) /\ n[1] = id /\ InPart(g, s, n, p, pHi) /\ aLo <= p /\ pHi <= aHi
  BY DEF AtNode
<1>2. /\ Level(g, n) = l /\ n \in UsedIds(x) \X Index /\ Num(g, n) \in Nat
      /\ p \in s.left .. s.right /\ pHi \in s.left .. s.right /\ p <= pHi /\ pHi \in Nat /\ p \in Nat
      /\ Cell(l, p) = Num(g, n) /\ Cell(l, pHi) = Num(g, n)
      /\ \A a \in s.left .. s.right : Cell(l, a) = Num(g, n) => a <= pHi
  <2>1. Level(g, n) = l /\ n \in UsedIds(x) \X Index  BY <1>0, <1>1 DEF Level, Valid
  <2>2. Num(g, n) \in Nat  BY <1>0, <2>1, NodePlace
  <2> QED BY <1>0, <1>1, <2>1, <2>2 DEF InPart
<1>3. ASSUME NEW a \in p .. pHi PROVE a \in Nat /\ a \in s.left .. s.right /\ Cell(l, a) = Num(g, n)
  <2>1. a \in Nat /\ a \in s.left .. s.right  BY <1>0, <1>2
  <2>2. Cell(l, p) <= Cell(l, a) /\ Cell(l, a) <= Cell(l, pHi) /\ Cell(l, a) \in Nat
    BY <1>0, <1>2, <2>1, CellMonotone, CellNat
  <2> QED BY <1>2, <2>1, <2>2
<1> DEFINE k == x.node[n].next
<1>4. k \in UsedIds(x) /\ g.lev[k] = l + 1 /\ g.num[k] = Num(g, n)
  BY <1>0, <1>1, <1>2 DEF Linked
<1>5. l + 1 \in Levels /\ l < LastLevel
  <2>1. l + 1 \in Levels  BY <1>0, <1>4 DEF Placed
  <2> QED BY <1>0, <2>1, LevelNat DEF Levels
<1>6. LeadsTo(x, n, k)  BY <1>1 DEF LeadsTo
<1> HIDE DEF k
<1>7. ASSUME NEW a \in Nat PROVE InBlock(g, k, a) <=> Cell(l, a) = Num(g, n)
  <2>1. Cell(l, a) = Cell(l + 1, a) \div Fan  BY <1>0, <1>5, CellUp
  <2> QED BY <1>4, <2>1 DEF InBlock
<1>8. RangeIn(g, s, k, e, pHi)
  <2>1. e \in Nat /\ e \in s.left .. s.right /\ Cell(l, e) = Num(g, n) /\ e <= pHi
    BY <1>2, <1>3
  <2> QED BY <1>0, <1>2, <1>7, <2>1 DEF RangeIn
<1>9. NoUpper(x, g, l + 1, e, pHi)
  <2> SUFFICES ASSUME NEW q \in Valid(x), Level(g, q) < l + 1, NEW a \in e .. pHi, Holds(x, g, q, a)
               PROVE  FALSE
    BY DEF NoUpper
  <2>1. Level(g, q) \in Nat /\ q \in UsedIds(x) \X Index  BY <1>0, InNodes, NodePlace, LevelNat
  <2>2. a \in p .. pHi /\ a \in aLo .. aHi  BY <1>0, <1>1, <1>2
  <2>3. Level(g, q) = l  BY <1>0, <2>1, <2>2 DEF NoUpper
  <2>4. Cell(l, a) = Num(g, q) /\ Cell(l, a) = Num(g, n)  BY <1>0, <1>3, <2>2, <2>3, HoldsPart
  <2>5. q = n  BY <1>0, <1>2, <2>1, <2>3, <2>4, SamePlace
  <2> QED BY <2>5
<1>10. FromHere(x, g, s, k, e)
  <2> SUFFICES ASSUME NEW q \in Valid(x), l + 1 <= Level(g, q), Lo(x, g, q) \in s.left .. s.right,
                      InBlock(g, k, Lo(x, g, q))
               PROVE  e <= Lo(x, g, q)
    BY <1>4 DEF FromHere
  <2>1. Level(g, q) \in Nat  BY <1>0, InNodes, NodePlace, LevelNat
  <2>2. l < Level(g, q) /\ Cell(l, Lo(x, g, q)) = Num(g, n)  BY <1>0, <1>7, <2>1
  <2> QED BY <2>2
<1>11. BlockStart(g, k) = Num(g, n) * Span(l)
  <2>1. Span(l) = Fan * Span(l + 1) /\ Span(l + 1) \in Nat /\ Fan \in Nat
    BY <1>0, <1>5, SpanFacts, LevelNat
  <2>2. (Num(g, n) * Fan) * Span(l + 1) = Num(g, n) * (Fan * Span(l + 1))  BY <1>2, <2>1
  <2> QED BY <1>4, <2>1, <2>2 DEF BlockStart
<1>12. TokenWalk(x, g, s, d, op, n, k, e, pHi, T, l + 1)
  BY <1>0, <1>4, <1>6, <1>8, <1>9, <1>10 DEF TokenWalk
<1> QED BY <1>11, <1>12 DEF k

\* A node on the way to an address that another node further down holds: the
\* content of that one starts in the cell of the first.
LEMMA StartsBelow ==
    ASSUME NEW x, NEW g, NEW T, Inv(x, g, Root, 0, T), NEW s \in T, NEW n \in Valid(x), NEW q \in Valid(x),
           Level(g, n) < Level(g, q), NEW a \in s.left .. s.right, Holds(x, g, q, a),
           Cell(Level(g, n), a) = Num(g, n)
    PROVE  /\ Lo(x, g, q) \in s.left .. s.right /\ Lo(x, g, q) <= a /\ Lo(x, g, q) \in Nat
           /\ Cell(Level(g, n), Lo(x, g, q)) = Num(g, n)
<1>1. Shape(x) /\ Counted(x) /\ Placed(x, g) /\ Segments(T)  BY DEF Inv, Sound, Holding
<1> DEFINE l == Level(g, n)
           k == Level(g, q)
           b == Lo(x, g, q)
<1>2. l \in Levels /\ k \in Levels /\ l \in Nat /\ k \in Nat
  BY <1>1, InNodes, NodePlace, LevelNat
<1>3. /\ b \in s.left .. s.right /\ b <= a /\ Cell(k, a) = Num(g, q) /\ Cell(k, b) = Num(g, q)
  BY HoldsPart
<1>4. a \in Nat /\ b \in Nat  BY <1>1, <1>3, SegmentFacts
<1>5. l <= k /\ Cell(k, a) = Cell(k, b) /\ Cell(l, a) = Num(g, n)  BY <1>2, <1>3
<1> HIDE DEF l, k, b
<1>6. Cell(l, a) = Cell(l, b)  BY <1>2, <1>4, <1>5, CellNested
<1> QED BY <1>3, <1>4, <1>5, <1>6 DEF l, b

\* The facts about a node that the walk has come to.
LEMMA AtNodeFacts ==
    ASSUME NEW x, NEW g, NEW s, NEW d, NEW op, NEW pre, NEW id, NEW aLo, NEW aHi, NEW T, NEW l,
           TokenWalk(x, g, s, d, op, pre, id, aLo, aHi, T, l),
           NEW n, NEW p, NEW pHi, AtNode(x, g, s, n, id, p, pHi, aLo, aHi)
    PROVE  /\ n \in Valid(x) /\ n[1] = id /\ n \in UsedIds(x) \X Index /\ Level(g, n) = l
           /\ Num(g, n) \in Nat /\ Span(l) \in Nat /\ Num(g, n) * Span(l) \in Nat /\ IsNode(x.node[n])
           /\ p \in Nat /\ pHi \in Nat /\ aLo <= p /\ p <= pHi /\ pHi <= aHi
           /\ p \in s.left .. s.right /\ pHi \in s.left .. s.right
           /\ Lo(x, g, n) = Num(g, n) * Span(l) + x.node[n].base
           /\ Hi(x, g, n) = Num(g, n) * Span(l) + x.node[n].limit
           /\ Lo(x, g, n) \in Nat /\ Hi(x, g, n) \in Nat /\ Lo(x, g, n) <= Hi(x, g, n)
           /\ \A a \in p .. pHi : a \in s.left .. s.right /\ Cell(l, a) = Num(g, n)
           /\ \A a \in s.left .. s.right : Cell(l, a) = Num(g, n) => a <= pHi
           /\ CellFrom(x, g, s, n, p)
<1>0. /\ Inv(x, g, Root, 0, T) /\ Shape(x) /\ Counted(x) /\ Placed(x, g)
      /\ s \in T /\ Segments(T) /\ \A a \in s.left .. s.right : a \in Addr /\ a \in Nat
      /\ g.lev[id] = l /\ l \in Levels /\ l \in Nat
      /\ s.left \in Nat /\ s.right \in Nat
  BY TokenFacts
<1>1. /\ n \in Valid(x) /\ n[1] = id /\ InPart(g, s, n, p, pHi) /\ aLo <= p /\ pHi <= aHi
      /\ CellFrom(x, g, s, n, p)
  BY DEF AtNode
<1>2. Level(g, n) = l /\ n \in UsedIds(x) \X Index /\ n \in Valid(x) \ {Root}
  BY <1>0, <1>1, InNodes DEF Level
<1>3. Num(g, n) \in Nat /\ Span(l) \in Nat /\ IsNode(x.node[n])
  BY <1>0, <1>2, NodePlace, SpanFacts, UsedNode
<1>4. Num(g, n) * Span(l) \in Nat  BY <1>3
<1>5. Lo(x, g, n) \in Addr /\ Hi(x, g, n) \in Addr /\ Lo(x, g, n) <= Hi(x, g, n)
  <2>1. Content(x, g, Root, T)  BY <1>0 DEF Inv, Holding
  <2> QED BY <1>0, <1>2, <2>1, NodeContent
<1>6. Lo(x, g, n) \in Nat /\ Hi(x, g, n) \in Nat  BY <1>5, SpanFacts DEF Addr
<1>7. /\ p \in s.left .. s.right /\ pHi \in s.left .. s.right /\ p <= pHi /\ pHi \in Nat /\ p \in Nat
      /\ Cell(l, p) = Num(g, n) /\ Cell(l, pHi) = Num(g, n)
      /\ \A a \in s.left .. s.right : Cell(l, a) = Num(g, n) => a <= pHi
  BY <1>0, <1>1, <1>2 DEF InPart
<1>8. ASSUME NEW a \in p .. pHi PROVE a \in s.left .. s.right /\ Cell(l, a) = Num(g, n)
  <2>1. a \in Nat /\ a \in s.left .. s.right  BY <1>0, <1>7
  <2>2. Cell(l, p) <= Cell(l, a) /\ Cell(l, a) <= Cell(l, pHi) /\ Cell(l, a) \in Nat
    BY <1>0, <1>7, <2>1, CellMonotone, CellNat
  <2> QED BY <1>3, <1>7, <2>1, <2>2
<1>9. /\ Lo(x, g, n) = Num(g, n) * Span(l) + x.node[n].base
      /\ Hi(x, g, n) = Num(g, n) * Span(l) + x.node[n].limit
  BY <1>2 DEF Lo, Hi
<1> QED BY <1>1, <1>2, <1>3, <1>4, <1>5, <1>6, <1>7, <1>8, <1>9

\* A node with the head of its part: what is left of the part is below it.
LEMMA HeadHere ==
    ASSUME NEW x, NEW g, NEW s, NEW d, NEW op, NEW pre, NEW id, NEW aLo, NEW aHi, NEW T, NEW l,
           TokenWalk(x, g, s, d, op, pre, id, aLo, aHi, T, l),
           NEW n, NEW p, NEW pHi, AtNode(x, g, s, n, id, p, pHi, aLo, aHi), Lo(x, g, n) = p
    PROVE  /\ Hi(x, g, n) <= pHi
           /\ Hi(x, g, n) < pHi =>
                  /\ x.node[n].type = 0
                  /\ TokenWalk(x, g, s, d, op, n, x.node[n].next, Hi(x, g, n) + 1, pHi, T, l + 1)
                  /\ BlockStart(g, x.node[n].next) = Num(g, n) * Span(l)
<1> DEFINE h == Hi(x, g, n)
<1>0. /\ Inv(x, g, Root, 0, T) /\ Shape(x) /\ Counted(x) /\ Placed(x, g) /\ s \in T /\ l \in Nat
      /\ First(x, g, Root, T) /\ Disjoint(x, g, Root) /\ aLo \in Nat /\ aHi \in Nat
  BY TokenFacts
<1>1. /\ n \in Valid(x) /\ n[1] = id /\ n \in UsedIds(x) \X Index /\ Level(g, n) = l
      /\ p \in Nat /\ pHi \in Nat /\ aLo <= p /\ p <= pHi /\ pHi <= aHi
      /\ p \in s.left .. s.right /\ h \in Nat /\ p <= h
      /\ \A a \in p .. pHi : a \in s.left .. s.right /\ Cell(l, a) = Num(g, n)
      /\ \A a \in s.left .. s.right : Cell(l, a) = Num(g, n) => a <= pHi
  BY AtNodeFacts
<1>2. h <= pHi
  <2>1. Holds(x, g, n, p)  BY <1>1 DEF Holds
  <2>2. h \in s.left .. s.right /\ Cell(l, h) = Num(g, n)  BY <1>0, <1>1, <2>1, HoldsPart
  <2> QED BY <1>1, <2>2
<1>3. ASSUME h < pHi
      PROVE  /\ x.node[n].type = 0
             /\ TokenWalk(x, g, s, d, op, n, x.node[n].next, h + 1, pHi, T, l + 1)
             /\ BlockStart(g, x.node[n].next) = Num(g, n) * Span(l)
  <2> DEFINE e == h + 1
  <2>1. e \in p .. pHi /\ e \in aLo .. aHi /\ e \in Nat  BY <1>0, <1>1, <1>3
  <2>2. \A a \in e .. pHi : ~Holds(x, g, n, a)  BY <1>1 DEF Holds
  <2>3. x.node[n].type = 0
    <3>1. Cell(l, e) = Num(g, n) /\ ~Holds(x, g, n, e)
      <4>1. e \in e .. pHi  BY <1>1, <2>1
      <4> QED BY <1>1, <2>1, <2>2, <4>1
    <3> HIDE DEF e
    <3> QED BY <1>1, <2>1, <3>1, TokenHead
  <2>4. ASSUME NEW q \in Valid(x), l < Level(g, q), Lo(x, g, q) \in s.left .. s.right,
               Cell(l, Lo(x, g, q)) = Num(g, n)
        PROVE  e <= Lo(x, g, q)
    <3>1. n \in Valid(x) \ {Root} /\ q \in Valid(x) \ {Root} /\ q # n
      BY <1>0, <1>1, <2>4, RootNotValid
    <3>2. Lo(x, g, n) < Lo(x, g, q)  BY <1>0, <1>1, <2>4, <3>1 DEF First
    <3>3. h < Lo(x, g, q) \/ Hi(x, g, q) < Lo(x, g, n)  BY <1>0, <3>1 DEF Disjoint
    <3>4. Lo(x, g, q) \in Nat /\ Hi(x, g, q) \in Nat /\ Lo(x, g, q) <= Hi(x, g, q)
      <4>1. Lo(x, g, q) \in Addr /\ Hi(x, g, q) \in Addr /\ Lo(x, g, q) <= Hi(x, g, q)
        BY <1>0, <3>1, NodeContent DEF Inv, Holding
      <4> QED BY <4>1, SpanFacts DEF Addr
    <3> QED BY <1>1, <3>2, <3>3, <3>4
  <2> HIDE DEF e
  <2>5. /\ TokenWalk(x, g, s, d, op, n, x.node[n].next, e, pHi, T, l + 1)
        /\ BlockStart(g, x.node[n].next) = Num(g, n) * Span(l)
    BY <2>1, <2>2, <2>3, <2>4, TokenBelow
  <2> QED BY <2>3, <2>5 DEF e
<1> QED BY <1>2, <1>3

\* A node without the head of its part holds nothing of the part.
LEMMA HeadBelow ==
    ASSUME NEW x, NEW g, NEW s, NEW d, NEW op, NEW pre, NEW id, NEW aLo, NEW aHi, NEW T, NEW l,
           TokenWalk(x, g, s, d, op, pre, id, aLo, aHi, T, l),
           NEW n, NEW p, NEW pHi, AtNode(x, g, s, n, id, p, pHi, aLo, aHi), Lo(x, g, n) # p
    PROVE  /\ x.node[n].type = 0
           /\ TokenWalk(x, g, s, d, op, n, x.node[n].next, p, pHi, T, l + 1)
           /\ BlockStart(g, x.node[n].next) = Num(g, n) * Span(l)
<1>0. /\ Inv(x, g, Root, 0, T) /\ Shape(x) /\ Counted(x) /\ Placed(x, g) /\ s \in T /\ l \in Nat
      /\ First(x, g, Root, T) /\ aLo \in Nat /\ aHi \in Nat
  BY TokenFacts
<1>1. /\ n \in Valid(x) /\ n[1] = id /\ n \in UsedIds(x) \X Index /\ Level(g, n) = l
      /\ p \in Nat /\ pHi \in Nat /\ aLo <= p /\ p <= pHi /\ pHi <= aHi
      /\ p \in s.left .. s.right /\ Lo(x, g, n) \in Nat
      /\ \A a \in p .. pHi : a \in s.left .. s.right /\ Cell(l, a) = Num(g, n)
      /\ CellFrom(x, g, s, n, p)
  BY AtNodeFacts
<1>2. p \in p .. pHi /\ p \in aLo .. aHi /\ Cell(l, p) = Num(g, n)  BY <1>0, <1>1
<1>3. ASSUME NEW a \in p .. pHi, Holds(x, g, n, a) PROVE FALSE
  <2>1. /\ Lo(x, g, n) \in s.left .. s.right /\ Cell(l, Lo(x, g, n)) = Num(g, n)
    BY <1>0, <1>1, <1>3, HoldsPart
  <2>2. p < Lo(x, g, n)
    <3>1. l <= Level(g, n)  BY <1>0, <1>1
    <3>2. p <= Lo(x, g, n)  BY <1>1, <2>1, <3>1 DEF CellFrom
    <3> QED BY <1>1, <3>2
  <2>3. ~Holds(x, g, n, p)  BY <1>1, <2>2 DEF Holds
  <2>4. PICK q \in Valid(x) : /\ Holds(x, g, q, p) /\ l < Level(g, q) /\ q # n
                              /\ Level(g, q) \in Levels /\ Level(g, q) \in Nat
    BY <1>1, <1>2, <2>3, TokenHead
  <2>5. /\ Lo(x, g, q) \in s.left .. s.right /\ Lo(x, g, q) <= p /\ Lo(x, g, q) \in Nat
        /\ Cell(l, Lo(x, g, q)) = Num(g, n)
    BY <1>0, <1>1, <1>2, <2>4, StartsBelow
  <2>6. Lo(x, g, n) < Lo(x, g, q)
    <3>1. n \in Valid(x) \ {Root} /\ q \in Valid(x) \ {Root}  BY <1>1, RootNotValid
    <3> QED BY <1>0, <1>1, <2>1, <2>4, <2>5, <3>1 DEF First
  <2> QED BY <1>1, <2>2, <2>5, <2>6
<1>4. x.node[n].type = 0  BY <1>1, <1>2, <1>3, TokenHead
<1>5. ASSUME NEW q \in Valid(x), l < Level(g, q), Lo(x, g, q) \in s.left .. s.right,
             Cell(l, Lo(x, g, q)) = Num(g, n)
      PROVE  p <= Lo(x, g, q)
  <2>1. Level(g, q) \in Nat  BY <1>0, InNodes, NodePlace, LevelNat
  <2>2. Level(g, n) <= Level(g, q)  BY <1>0, <1>1, <1>5, <2>1
  <2> QED BY <1>1, <1>5, <2>2 DEF CellFrom
<1> QED BY <1>2, <1>3, <1>4, <1>5, TokenBelow

\* The promise of the level below.
UpdateBelowOK == \A x, y, g, s, d, op, pre, id, lo, hi, aLo, aHi, T :
    UpdatePre(x, y, g, s, d, op, pre, id, aLo, aHi, T, level + 1) /\ Offsets(g, id, lo, hi, aLo, aHi) =>
        UpdatePost(x, UpdateBelow(y, d, op, pre, lo, hi), g, s, d, op, aHi)

\* A middle node of the range holds its cell.
LEMMA MiddleUpdated ==
    ASSUME NEW x, NEW y, NEW g, NEW s, NEW d, NEW op, NEW pre, NEW id, NEW aLo, NEW aHi, NEW T, NEW l,
           TokenWalk(x, g, s, d, op, pre, id, aLo, aHi, T, l),
           NEW n, NEW p, NEW pHi, AtNode(x, g, s, n, id, p, pHi, aLo, aHi),
           CellInside(s, l, Num(g, n), p),
           y.ret = "ok", Updated(x, y, g, d, op, s.left, p - 1),
           NEW z, z = ummu_update_token(y, n, d, op)
    PROVE  UpdatePost(x, z, g, s, d, op, pHi)
<1>0. Inv(x, g, Root, 0, T) /\ s \in T /\ Ready(s, d, op) /\ l \in Nat  BY TokenFacts
<1>1. /\ n \in Valid(x) /\ Level(g, n) = l /\ p \in Nat /\ pHi \in Nat /\ p <= pHi
      /\ p \in s.left .. s.right /\ Lo(x, g, n) \in Nat /\ Hi(x, g, n) \in Nat
      /\ pHi \in s.left .. s.right
      /\ \A a \in p .. pHi : a \in s.left .. s.right /\ Cell(l, a) = Num(g, n)
      /\ \A a \in s.left .. s.right : Cell(l, a) = Num(g, n) => a <= pHi
  BY AtNodeFacts
<1>2. \A a \in Nat : Cell(l, a) = Num(g, n) => a \in s.left .. s.right /\ p <= a
  BY DEF CellInside
<1>3. \A a \in Nat : Cell(l, a) = Num(g, n) => Holds(x, g, n, a)  BY <1>0, <1>1, <1>2, CellFull
<1>4. Holds(x, g, n, p) /\ Holds(x, g, n, pHi)
  <2>1. p \in p .. pHi /\ pHi \in p .. pHi  BY <1>1
  <2> QED BY <1>1, <1>3, <2>1
<1>5. /\ Cell(l, Lo(x, g, n)) = Num(g, n) /\ Cell(l, Hi(x, g, n)) = Num(g, n)
      /\ Hi(x, g, n) \in s.left .. s.right
  BY <1>0, <1>1, <1>4, HoldsPart
<1>6. Lo(x, g, n) = p /\ Hi(x, g, n) = pHi
  <2>1. p <= Lo(x, g, n) /\ Hi(x, g, n) <= pHi  BY <1>1, <1>2, <1>5
  <2> QED BY <1>1, <1>4, <2>1 DEF Holds
<1> DEFINE b == p - 1
<1>7. b \in Int /\ b + 1 = Lo(x, g, n) /\ Updated(x, y, g, d, op, s.left, b)  BY <1>1, <1>6
<1> HIDE DEF b
<1>8. z.ret = "ok" /\ Updated(x, z, g, d, op, s.left, Hi(x, g, n))
  BY <1>0, <1>1, <1>6, <1>7, OneUpdated
<1> QED BY <1>6, <1>8 DEF UpdatePost

\* The first or the last node of the range, and what is below it.
HeadStep(y, d, op, n, lo, hi) ==
    LET m == y.node[n]
        z == ummu_update_token(y, n, d, op)
    IN  IF m.base = lo /\ m.limit <= hi
        THEN IF z.ret = "ok" /\ m.type = 0 /\ m.limit < hi
             THEN UpdateBelow(z, d, op, n, m.limit + 1, hi)
             ELSE z
        ELSE IF m.type = 0 THEN UpdateBelow(y, d, op, n, lo, hi)
        ELSE Fail(y)

LEMMA HeadUpdated ==
    ASSUME UpdateBelowOK, level \in Nat,
           NEW x, NEW y, NEW g, NEW s, NEW d, NEW op, NEW pre, NEW id, NEW aLo, NEW aHi, NEW T,
           TokenWalk(x, g, s, d, op, pre, id, aLo, aHi, T, level),
           NEW n, NEW p, NEW pHi, AtNode(x, g, s, n, id, p, pHi, aLo, aHi),
           y.ret = "ok", Updated(x, y, g, d, op, s.left, p - 1),
           NEW lo, NEW hi, PartOffsets(g, n, lo, hi, p, pHi)
    PROVE  UpdatePost(x, HeadStep(y, d, op, n, lo, hi), g, s, d, op, pHi)
<1>0. /\ Inv(x, g, Root, 0, T) /\ Shape(x) /\ Counted(x) /\ s \in T /\ Ready(s, d, op)
  BY TokenFacts
<1>1. /\ n \in Valid(x) /\ Level(g, n) = level /\ p \in Nat /\ pHi \in Nat /\ p <= pHi
      /\ p \in s.left .. s.right /\ IsNode(x.node[n]) /\ Num(g, n) * Span(level) \in Nat
      /\ Lo(x, g, n) = Num(g, n) * Span(level) + x.node[n].base
      /\ Hi(x, g, n) = Num(g, n) * Span(level) + x.node[n].limit
      /\ Lo(x, g, n) \in Nat /\ Hi(x, g, n) \in Nat
  BY AtNodeFacts
<1>2. /\ y.node[n].type = x.node[n].type /\ y.node[n].base = x.node[n].base
      /\ y.node[n].limit = x.node[n].limit
  <2>1. n \in DOMAIN x.node  BY <1>0, <1>1, InNodes
  <2> DEFINE b == p - 1
  <2>2. Updated(x, y, g, d, op, s.left, b)  OBVIOUS
  <2> HIDE DEF b
  <2> QED BY <1>0, <2>1, <2>2, UpdatedSame
<1> DEFINE r == x.node[n]
           w == Num(g, n) * Span(level)
           z == ummu_update_token(y, n, d, op)
<1>3. /\ r.base \in Nat /\ r.limit \in Nat /\ lo = p - w /\ hi = pHi - w /\ w \in Nat
      /\ Lo(x, g, n) = w + r.base /\ Hi(x, g, n) = w + r.limit
  BY <1>1 DEF IsNode, PartOffsets
<1>4. HeadStep(y, d, op, n, lo, hi) =
          IF r.base = lo /\ r.limit <= hi
          THEN IF z.ret = "ok" /\ r.type = 0 /\ r.limit < hi
               THEN UpdateBelow(z, d, op, n, r.limit + 1, hi) ELSE z
          ELSE IF r.type = 0 THEN UpdateBelow(y, d, op, n, lo, hi)
          ELSE Fail(y)
  BY <1>2 DEF HeadStep
<1> HIDE DEF r, w, z
<1>5. /\ r.base = lo <=> Lo(x, g, n) = p
      /\ r.limit <= hi <=> Hi(x, g, n) <= pHi
      /\ r.limit < hi <=> Hi(x, g, n) < pHi
  BY <1>1, <1>3
<1>6. CASE Lo(x, g, n) = p
  <2>1. /\ Hi(x, g, n) <= pHi
        /\ Hi(x, g, n) < pHi =>
              /\ r.type = 0
              /\ TokenWalk(x, g, s, d, op, n, r.next, Hi(x, g, n) + 1, pHi, T, level + 1)
              /\ BlockStart(g, r.next) = w
    BY <1>6, HeadHere DEF r, w
  <2>2. z.ret = "ok" /\ Updated(x, z, g, d, op, s.left, Hi(x, g, n))
    <3> DEFINE b == p - 1
    <3>1. b \in Int /\ b + 1 = Lo(x, g, n) /\ Updated(x, y, g, d, op, s.left, b)  BY <1>1, <1>6
    <3> HIDE DEF b
    <3> QED BY <1>0, <1>1, <1>6, <3>1, OneUpdated DEF z
  <2>3. CASE Hi(x, g, n) < pHi
    <3> DEFINE e == Hi(x, g, n) + 1
               f == r.limit + 1
               k == r.next
               j == level + 1
    <3>1. HeadStep(y, d, op, n, lo, hi) = UpdateBelow(z, d, op, n, f, hi)
      BY <1>4, <1>5, <1>6, <2>1, <2>2, <2>3
    <3>2. Offsets(g, k, f, hi, e, pHi)  BY <1>1, <1>3, <2>1, <2>3 DEF Offsets
    <3>3. e - 1 = Hi(x, g, n)  BY <1>1
    <3> HIDE DEF e, f, k
    <3>4. UpdatePre(x, z, g, s, d, op, n, k, e, pHi, T, j)
      BY <2>1, <2>2, <2>3, <3>3 DEF UpdatePre, e, k
    <3>5. UpdatePost(x, UpdateBelow(z, d, op, n, f, hi), g, s, d, op, pHi)
      BY <3>2, <3>4 DEF UpdateBelowOK
    <3> QED BY <3>1, <3>5
  <2>4. CASE ~(Hi(x, g, n) < pHi)
    <3>1. Hi(x, g, n) = pHi  BY <1>1, <2>1, <2>4
    <3>2. HeadStep(y, d, op, n, lo, hi) = z  BY <1>4, <1>5, <1>6, <2>1, <2>4
    <3> QED BY <2>2, <3>1, <3>2 DEF UpdatePost
  <2> QED BY <2>3, <2>4
<1>7. CASE Lo(x, g, n) # p
  <2> DEFINE k == r.next
             j == level + 1
  <2>1. /\ r.type = 0 /\ TokenWalk(x, g, s, d, op, n, k, p, pHi, T, j)
        /\ BlockStart(g, k) = w
    BY <1>7, HeadBelow DEF r, w
  <2>2. HeadStep(y, d, op, n, lo, hi) = UpdateBelow(y, d, op, n, lo, hi)
    BY <1>4, <1>5, <1>7, <2>1
  <2>3. Offsets(g, k, lo, hi, p, pHi)  BY <1>3, <2>1 DEF Offsets
  <2> HIDE DEF k
  <2>4. UpdatePre(x, y, g, s, d, op, n, k, p, pHi, T, j)  BY <2>1 DEF UpdatePre
  <2>5. UpdatePost(x, UpdateBelow(y, d, op, n, lo, hi), g, s, d, op, pHi)
    BY <2>3, <2>4 DEF UpdateBelowOK
  <2> QED BY <2>2, <2>5
<1> QED BY <1>6, <1>7

\* One node of the scan of ummu_table_update_token_by_level.
LEMMA NodeUpdated ==
    ASSUME UpdateBelowOK, level \in Nat,
           NEW x, NEW y, NEW g, NEW s, NEW d, NEW op, NEW pre, NEW id, NEW aLo, NEW aHi, NEW T,
           TokenWalk(x, g, s, d, op, pre, id, aLo, aHi, T, level),
           NEW k \in 1 .. Parts(level, aLo, aHi),
           NEW c, c.id = id, c.d = d, c.op = op, Offsets(g, id, c.lo, c.hi, aLo, aHi),
           y.ret = "ok", Updated(x, y, g, d, op, s.left, PartLo(level, aLo, k) - 1)
    PROVE  UpdatePost(x, UpdateNode(y, c, k), g, s, d, op, PartHi(level, aLo, aHi, k))
<1> DEFINE p == PartLo(level, aLo, k)
           pHi == PartHi(level, aLo, aHi, k)
           v == NthNode(level, c, k)
           n == v.n
<1>1. /\ Inv(x, g, Root, 0, T) /\ Shape(x) /\ Counted(x) /\ Placed(x, g)
      /\ s \in T /\ g.lev[id] = level /\ level \in Levels /\ id \in UsedIds(x)
      /\ \A a \in s.left .. s.right : a \in Addr /\ a \in Nat
      /\ s.left \in Nat /\ s.right \in Nat /\ aLo \in Nat /\ aHi \in Nat /\ s.left <= aLo
      /\ aLo <= aHi /\ aHi <= s.right /\ InBlock(g, id, aLo) /\ InBlock(g, id, aHi)
      /\ g.num[id] \in Nat /\ FromHere(x, g, s, id, aLo) /\ RangeIn(g, s, id, aLo, aHi)
  BY TokenFacts
<1>2. \A a \in s.left .. s.right : InBlock(g, id, a) => a <= aHi  BY <1>1 DEF RangeIn
<1>4. /\ p \in Nat /\ pHi \in Nat /\ aLo <= p /\ p <= pHi /\ pHi <= aHi
      /\ Cell(level, p) = Cell(level, aLo) + k - 1 /\ Cell(level, pHi) = Cell(level, aLo) + k - 1
      /\ (k = Parts(level, aLo, aHi)) <=> (pHi = aHi)
      /\ \A a \in Nat : Cell(level, a) = Cell(level, aLo) + k - 1 =>
             /\ aLo <= a => p <= a
             /\ k # 1 => p <= a
             /\ k # Parts(level, aLo, aHi) => a <= pHi
  BY <1>1, PartFacts
<1>5. /\ v.n[1] = id /\ v.n[2] \in Index /\ v.n = <<id, Cell(level, aLo) + k - 1 - g.num[id] * Fan>>
      /\ Num(g, v.n) = Cell(level, aLo) + k - 1 /\ Level(g, v.n) = level
      /\ v.lo = p - Num(g, v.n) * Span(level) /\ v.hi = pHi - Num(g, v.n) * Span(level)
      /\ v.mid <=> k # 1 /\ k # Parts(level, aLo, aHi)
  BY <1>1, NthNodeIs
<1>6. UpdateNode(y, c, k) =
          IF y.ret # "ok" THEN y
          ELSE IF y.node[n].valid = 0 THEN Fail(y)
          ELSE IF v.mid THEN ummu_update_token(y, n, c.d, c.op)
          ELSE HeadStep(y, c.d, c.op, n, v.lo, v.hi)
  BY Zenon DEF UpdateNode, HeadStep
<1>7. Updated(x, y, g, d, op, s.left, p - 1)  OBVIOUS
<1> HIDE DEF v, p, pHi
<1>8. n \in UsedIds(x) \X Index /\ n[1] = id /\ Level(g, n) = level /\ Num(g, n) = Cell(level, aLo) + k - 1
  BY <1>1, <1>5
<1>9. n \in Valid(x) /\ y.node[n].valid = 1
  <2>0. p \in aLo .. aHi /\ Cell(level, p) = Num(g, n)  BY <1>1, <1>4, <1>8
  <2> HIDE DEF n
  <2>1. n \in Valid(x)  BY <1>8, <2>0, TokenHead
  <2>2. n \in DOMAIN x.node /\ x.node[n].valid = 1  BY <1>1, <2>1, InNodes
  <2> DEFINE b == p - 1
  <2>3. Updated(x, y, g, d, op, s.left, b)  BY <1>7
  <2> HIDE DEF b
  <2>4. y.node[n].valid = x.node[n].valid  BY <1>1, <2>2, <2>3, UpdatedSame
  <2> QED BY <2>1, <2>2, <2>4
<1>10. AtNode(x, g, s, n, id, p, pHi, aLo, aHi)
  <2>1. ASSUME NEW a \in s.left .. s.right, Cell(level, a) = Num(g, n) PROVE a <= pHi
    <3>1. a \in Nat  BY <1>1
    <3>2. CASE k # Parts(level, aLo, aHi)  BY <1>4, <1>8, <2>1, <3>1, <3>2
    <3>3. CASE k = Parts(level, aLo, aHi)
      <4>1. InBlock(g, id, a)  BY <1>1, <1>8, <2>1, NodeInBlock
      <4> QED BY <1>2, <1>4, <3>3, <4>1
    <3> QED BY <3>2, <3>3
  <2>2. p \in s.left .. s.right /\ pHi \in s.left .. s.right  BY <1>1, <1>4
  <2>3. InPart(g, s, n, p, pHi)  BY <1>4, <1>8, <2>1, <2>2 DEF InPart
  <2>4. ASSUME NEW q \in Valid(x), level <= Level(g, q), Lo(x, g, q) \in s.left .. s.right,
               Cell(level, Lo(x, g, q)) = Num(g, n)
        PROVE  p <= Lo(x, g, q)
    <3> DEFINE a == Lo(x, g, q)
    <3>1. a \in Nat  BY <1>1, <2>4
    <3>2. InBlock(g, id, a)  BY <1>1, <1>8, <2>4, NodeInBlock
    <3>3. aLo <= a  BY <1>1, <2>4, <3>2 DEF FromHere
    <3> HIDE DEF n
    <3>4. Cell(level, a) = Cell(level, aLo) + k - 1  BY <1>8, <2>4
    <3> HIDE DEF a
    <3>5. p <= a  BY <1>4, <3>1, <3>3, <3>4
    <3> QED BY <3>5 DEF a
  <2>5. CellFrom(x, g, s, n, p)  BY <1>8, <2>4 DEF CellFrom
  <2> QED BY <1>4, <1>8, <1>9, <2>3, <2>5 DEF AtNode
<1>11. CASE v.mid
  <2>1. UpdateNode(y, c, k) = ummu_update_token(y, n, d, op)  BY <1>6, <1>9, <1>11
  <2>2. ASSUME NEW a \in Nat, Cell(level, a) = Num(g, n) PROVE a \in s.left .. s.right /\ p <= a
    BY <1>1, <1>4, <1>5, <1>8, <1>11, <2>2
  <2> HIDE DEF n
  <2>3. CellInside(s, level, Num(g, n), p)  BY <2>2 DEF CellInside
  <2> DEFINE z == ummu_update_token(y, n, d, op)
  <2>4. z = ummu_update_token(y, n, d, op)  OBVIOUS
  <2> HIDE DEF z
  <2>5. UpdatePost(x, z, g, s, d, op, pHi)  BY <1>7, <1>10, <2>3, <2>4, MiddleUpdated
  <2> QED BY <2>1, <2>4, <2>5 DEF pHi
<1>12. CASE ~v.mid
  <2> DEFINE lo == v.lo
             hi == v.hi
  <2>1. UpdateNode(y, c, k) = HeadStep(y, d, op, n, lo, hi)  BY <1>6, <1>9, <1>12
  <2>2. PartOffsets(g, n, lo, hi, p, pHi)  BY <1>5 DEF PartOffsets
  <2> HIDE DEF lo, hi, n
  <2>3. UpdatePost(x, HeadStep(y, d, op, n, lo, hi), g, s, d, op, pHi)
    BY <1>7, <1>10, <2>2, HeadUpdated
  <2> QED BY <2>1, <2>3 DEF pHi
<1> QED BY <1>11, <1>12

\* ummu_table_update_token_by_level, at any level whose next one keeps the
\* same promise: every node with a part of the range gets or loses the token,
\* no other node changes, and the walk does not fail.
THEOREM UpdateCorrect ==
    ASSUME UpdateBelowOK, level \in Nat,
           NEW x, NEW y, NEW g, NEW s, NEW d, NEW op, NEW pre, NEW id, NEW lo, NEW hi,
           NEW aLo, NEW aHi, NEW T,
           UpdatePre(x, y, g, s, d, op, pre, id, aLo, aHi, T, level), Offsets(g, id, lo, hi, aLo, aHi)
    PROVE  UpdatePost(x, ummu_table_update_token_by_level(y, d, op, pre, lo, hi), g, s, d, op, aHi)
<1>0. TokenWalk(x, g, s, d, op, pre, id, aLo, aHi, T, level)  BY DEF UpdatePre
<1>1. /\ Sound(x, g, 0) /\ Shape(x) /\ Counted(x) /\ g.lev[id] = level /\ level \in Levels
      /\ LeadsTo(x, pre, id) /\ aLo \in Nat /\ aHi \in Nat /\ aLo <= aHi
      /\ InBlock(g, id, aLo) /\ InBlock(g, id, aHi) /\ g.num[id] \in Nat
  BY <1>0, TokenFacts
<1>2. y.ret = "ok" /\ Updated(x, y, g, d, op, s.left, aLo - 1)  BY DEF UpdatePre
<1>3. BlockOf(id) \in DOMAIN y.block /\ y.node[pre].next = id
  <2>1. BlockOf(id) \in DOMAIN x.block /\ pre \in DOMAIN x.node /\ x.node[pre].next = id
    BY <1>1, WayIn DEF LeadsTo
  <2> DEFINE b == aLo - 1
  <2>2. Updated(x, y, g, d, op, s.left, b)  BY <1>2
  <2> HIDE DEF b
  <2>3. y.node[pre].next = x.node[pre].next  BY <1>1, <2>1, <2>2, UpdatedSame
  <2> QED BY <2>1, <2>2, <2>3 DEF Updated
<1>4. level \in 0 .. LastLevel /\ ~(level > LastLevel)  BY <1>1, LevelNat DEF Levels
<1> DEFINE c == Scan(y, pre, lo, hi, d, op)
           N == Parts(level, aLo, aHi)
           z == UpdateScan!Iterate(y, c, N)
           done(k) == IF k = 0 THEN aLo - 1 ELSE PartHi(level, aLo, aHi, k)
<1>5. ummu_table_update_token_by_level(y, d, op, pre, lo, hi) = z
  <2>1. NodeCount(level, lo, hi) = N  BY <1>1, NodeCountIs
  <2>2. ~NoLevel(y, level, pre)  BY <1>3, <1>4 DEF NoLevel
  <2>3. ummu_table_update_token_by_level(y, d, op, pre, lo, hi) =
            IF NoLevel(y, level, pre) THEN Fail(y)
            ELSE UpdateScan!Iterate(y, c, NodeCount(level, lo, hi))
    BY Zenon DEF ummu_table_update_token_by_level
  <2> HIDE DEF c, N
  <2> QED BY <2>1, <2>2, <2>3
<1>6. c.id = id /\ c.d = d /\ c.op = op /\ Offsets(g, id, c.lo, c.hi, aLo, aHi)
  BY <1>3 DEF Scan
<1>7. N \in Nat \ {0}  BY <1>1, NodeCountIs
<1> HIDE DEF c
<1>8. /\ UpdateScan!Iterate(y, c, 0) = y
      /\ \A k \in Nat : UpdateScan!Iterate(y, c, k + 1) = UpdateNode(UpdateScan!Iterate(y, c, k), c, k + 1)
  BY UpdateScan!IterateStep
<1> DEFINE S == {k \in Nat : k <= N => UpdatePost(x, UpdateScan!Iterate(y, c, k), g, s, d, op, done(k))}
<1>9. 0 \in S  BY <1>2, <1>8 DEF UpdatePost
<1>10. \A k \in Nat : k \in S => k + 1 \in S
  <2> SUFFICES ASSUME NEW k \in Nat, k \in S, k + 1 <= N
               PROVE  UpdatePost(x, UpdateScan!Iterate(y, c, k + 1), g, s, d, op, done(k + 1))
    OBVIOUS
  <2> DEFINE u == UpdateScan!Iterate(y, c, k)
             w == UpdateScan!Iterate(y, c, k + 1)
             j == k + 1
             e == done(k)
  <2>1. w = UpdateNode(u, c, j)  BY <1>8
  <2>2. UpdatePost(x, u, g, s, d, op, e)  BY <1>7
  <2>3. j \in 1 .. Parts(level, aLo, aHi) /\ done(j) = PartHi(level, aLo, aHi, j)  BY <1>7
  <2>4. PartLo(level, aLo, j) - 1 = e
    <3>1. CASE k = 0  BY <1>1, <3>1 DEF PartLo
    <3>2. CASE k # 0
      <4>1. k \in 1 .. Parts(level, aLo, aHi) /\ k < Parts(level, aLo, aHi)  BY <1>7, <3>2
      <4>2. /\ PartLo(level, aLo, k + 1) = PartHi(level, aLo, aHi, k) + 1
            /\ PartHi(level, aLo, aHi, k) \in Nat
        BY <1>1, <4>1, PartFacts
      <4> QED BY <3>2, <4>2
    <3> QED BY <3>1, <3>2
  <2>5. UpdatePost(x, w, g, s, d, op, PartHi(level, aLo, aHi, j))
    <3>1. u.ret = "ok" /\ Updated(x, u, g, d, op, s.left, PartLo(level, aLo, j) - 1)
      BY <2>2, <2>4 DEF UpdatePost
    <3> HIDE DEF u, w, S, j
    <3>2. UpdatePost(x, UpdateNode(u, c, j), g, s, d, op, PartHi(level, aLo, aHi, j))
      BY <1>0, <1>6, <2>3, <3>1, NodeUpdated
    <3> QED BY <2>1, <3>2
  <2> QED BY <2>3, <2>5
<1>11. UpdatePost(x, z, g, s, d, op, done(N))
  <2>1. Nat \subseteq S
    <3> HIDE DEF S
    <3> QED BY <1>9, <1>10, UpdateScan!NatSetInduction
  <2> QED BY <1>7, <2>1
<1>12. done(N) = aHi
  <2>1. N \in 1 .. Parts(level, aLo, aHi) /\ N # 0  BY <1>7
  <2> HIDE DEF N
  <2>2. (N = Parts(level, aLo, aHi)) <=> (PartHi(level, aLo, aHi, N) = aHi)
    BY <1>1, <2>1, PartFacts
  <2> QED BY <2>1, <2>2 DEF N
<1> QED BY <1>5, <1>11, <1>12

----------------------------------------
(* The table as a whole. *)

\* The nodes agree with the segment again once both have the token.
LEMMA AgreesAgain ==
    ASSUME NEW s, NEW t, NEW d, NEW op, Ready(s, d, op), Retokened(s, t, d, op),
           NEW r, IsNode(r), Agrees(s, r)
    PROVE  Agrees(t, Tokened(r, d, op))
<1>1. DOMAIN r = NodeFields  BY DEF IsNode
<1>2. /\ s.token_check = 1 /\ r.attr = s.attr /\ r.token_check = 1 /\ r.tok0 = s.tok0 /\ r.tok1 = s.tok1
      /\ t.attr = s.attr /\ t.token_check = 1
  BY DEF Agrees, Ready, Retokened
<1>3. CASE op = UMMU_ADD_TOKEN  BY <1>1, <1>2, <1>3 DEF Agrees, Tokened, Retokened, NodeFields
<1>4. CASE op = UMMU_REMOVE_TOKEN /\ op # UMMU_ADD_TOKEN
  <2>1. d.tokenval = s.tok0 \/ d.tokenval = s.tok1  BY <1>4 DEF Ready
  <2>2. CASE s.tok0 = d.tokenval
    BY <1>1, <1>2, <1>4, <2>2 DEF Agrees, Tokened, Retokened, NodeFields
  <2>3. CASE s.tok0 # d.tokenval
    BY <1>1, <1>2, <1>4, <2>1, <2>3 DEF Agrees, Tokened, Retokened, NodeFields
  <2> QED BY <2>2, <2>3
<1> QED BY <1>3, <1>4 DEF Ready

\* The nodes of a table that differs in tokens only.
LEMMA UpdatedSound ==
    ASSUME NEW x, NEW z, NEW g, NEW d, NEW op, NEW a, NEW b, Sound(x, g, 0),
           Updated(x, z, g, d, op, a, b)
    PROVE  /\ Sound(z, g, 0) /\ Valid(z) = Valid(x) /\ UsedIds(z) = UsedIds(x)
           /\ \A n \in DOMAIN x.node : Lo(z, g, n) = Lo(x, g, n) /\ Hi(z, g, n) = Hi(x, g, n)
<1>1. Shape(x) /\ Counted(x) /\ Flagged(x) /\ Placed(x, g) /\ Linked(x, g) /\ Filled(x, 0)
  BY DEF Sound
<1>2. /\ DOMAIN z = TableFields /\ z.bitmap = x.bitmap /\ z.block = x.block
      /\ DOMAIN z.node = DOMAIN x.node
  BY DEF Updated
<1>3. /\ \A n \in DOMAIN x.node :
           /\ z.node[n].valid = x.node[n].valid /\ z.node[n].type = x.node[n].type
           /\ z.node[n].next = x.node[n].next /\ z.node[n].next_block = x.node[n].next_block
           /\ z.node[n].base = x.node[n].base /\ z.node[n].limit = x.node[n].limit
  BY <1>1, UpdatedSame
<1>4. UsedIds(z) = UsedIds(x) /\ Mapped(z) = Mapped(x)  BY <1>2 DEF UsedIds, Mapped
<1>5. \A n \in UsedIds(x) \X Index : n \in DOMAIN x.node  BY <1>1, UsedNode
<1>6. Valid(z) = Valid(x)  BY <1>3, <1>4, <1>5 DEF Valid
<1>7. ASSUME NEW id \in Mapped(x) PROVE ValidAt(z, id) = ValidAt(x, id)
  <2>1. \A i \in Index : <<id, i>> \in DOMAIN x.node  BY <1>1 DEF Shape
  <2> QED BY <1>3, <2>1 DEF ValidAt
<1>8. \A n \in DOMAIN x.node : Lo(z, g, n) = Lo(x, g, n) /\ Hi(z, g, n) = Hi(x, g, n)
  BY <1>3 DEF Lo, Hi
<1>9. Shape(z)
  <2>1. ASSUME NEW n \in DOMAIN x.node PROVE IsNode(z.node[n])
    <3> DEFINE r == x.node[n]
               u == z.node[n]
    <3>1. IsNode(r) /\ (u = Tokened(r, d, op) \/ u = r)  BY <1>1 DEF Updated, Shape
    <3> HIDE DEF r, u
    <3>2. IsNode(u)  BY <3>1 DEF IsNode, Tokened, NodeFields
    <3> QED BY <3>2 DEF u
  <2>2. Root \in DOMAIN x.node  BY <1>1 DEF Shape
  <2> QED BY <1>1, <1>2, <1>3, <1>4, <2>1, <2>2 DEF Shape
<1>10. Counted(z)  BY <1>1, <1>2, <1>4, <1>7 DEF Counted
<1>11. Flagged(z)  BY <1>1, <1>2, <1>3 DEF Flagged
<1>12. Placed(z, g) /\ Filled(z, 0)
  <2>1. \A id \in UsedIds(x) : ValidAt(z, id) = ValidAt(x, id)  BY <1>1, <1>7, UsedFacts
  <2> QED BY <1>1, <1>4, <2>1 DEF Placed, Filled
<1>13. Linked(z, g)
  <2>1. \A n \in Valid(x) : z.node[n].type = x.node[n].type /\ z.node[n].next = x.node[n].next
    BY <1>1, <1>3, InNodes
  <2> QED BY <1>1, <1>4, <1>6, <2>1 DEF Linked
<1> QED BY <1>4, <1>6, <1>8, <1>9, <1>10, <1>11, <1>12, <1>13 DEF Sound

\* The segments are where they were: s has become t, in the same place.
LEMMA ReplacedSegments ==
    ASSUME NEW T, Segments(T), NEW s \in T, NEW t, t.left = s.left, t.right = s.right
    PROVE  Segments((T \ {s}) \cup {t})
<1> DEFINE U == (T \ {s}) \cup {t}
<1>1. \A u \in U : \E v \in T : /\ v.left = u.left /\ v.right = u.right
                                /\ (v = s <=> u = t) /\ (v # s => v = u)
  <2> SUFFICES ASSUME NEW u \in U
               PROVE  \E v \in T : /\ v.left = u.left /\ v.right = u.right
                                   /\ (v = s <=> u = t) /\ (v # s => v = u)
    OBVIOUS
  <2>1. CASE u = t  BY <2>1
  <2>2. CASE u # t  BY <2>2
  <2> QED BY <2>1, <2>2
<1> HIDE DEF U
<1>2. \A u \in U : u.left \in Addr /\ u.right \in Addr /\ u.left <= u.right
  BY <1>1 DEF Segments
<1>3. ASSUME NEW u \in U, NEW v \in U, NEW a \in u.left .. u.right, NEW b \in v.left .. v.right,
             Cell(LastLevel, a) = Cell(LastLevel, b)
      PROVE  u = v
  <2>1. PICK p \in T : /\ p.left = u.left /\ p.right = u.right /\ (p = s <=> u = t) /\ (p # s => p = u)
    BY <1>1
  <2>2. PICK q \in T : /\ q.left = v.left /\ q.right = v.right /\ (q = s <=> v = t) /\ (q # s => q = v)
    BY <1>1
  <2>3. p = q  BY <1>3, <2>1, <2>2 DEF Segments
  <2> QED BY <2>1, <2>2, <2>3
<1>4. Segments(U)  BY <1>2, <1>3 DEF Segments
<1> QED BY <1>4 DEF U

\* Tokens are no matter of where the content is.
LEMMA TokensDone ==
    ASSUME NEW x, NEW z, NEW g, NEW s, NEW t, NEW d, NEW op, NEW T,
           Inv(x, g, Root, 0, T), s \in T, Ready(s, d, op), Retokened(s, t, d, op),
           Updated(x, z, g, d, op, s.left, s.right)
    PROVE  /\ Inv(z, g, Root, 0, (T \ {s}) \cup {t})
           /\ \A a : Cov(z, g, Root, a) <=> Cov(x, g, Root, a)
<1> DEFINE U == (T \ {s}) \cup {t}
<1>1. /\ Sound(x, g, 0) /\ Segments(T) /\ Content(x, g, Root, T) /\ Disjoint(x, g, Root)
      /\ First(x, g, Root, T) /\ Paid(x, g, Root, T) /\ Shape(x) /\ Counted(x) /\ Placed(x, g)
  BY DEF Inv, Holding, Sound
<1>2. t.left = s.left /\ t.right = s.right  BY DEF Retokened
<1>3. /\ Sound(z, g, 0) /\ Valid(z) = Valid(x)
      /\ \A n \in DOMAIN x.node : Lo(z, g, n) = Lo(x, g, n) /\ Hi(z, g, n) = Hi(x, g, n)
  BY <1>1, UpdatedSound
<1>4. \A n \in Valid(x) : n \in DOMAIN x.node  BY <1>1, InNodes
<1>5. \A n \in Valid(x) : /\ Lo(z, g, n) = Lo(x, g, n) /\ Hi(z, g, n) = Hi(x, g, n)
                          /\ z.node[n].base = x.node[n].base /\ z.node[n].limit = x.node[n].limit
  BY <1>1, <1>3, <1>4, UpdatedSame
<1>6. Segments(U)  BY <1>1, <1>2, ReplacedSegments
<1>7. ASSUME NEW a, NEW b PROVE Piece(s, a, b) <=> Piece(t, a, b)  BY <1>2 DEF Piece, PieceAt
<1>8. Content(z, g, Root, U)
  <2> SUFFICES ASSUME NEW n \in Valid(x) \ {Root}
               PROVE  /\ z.node[n].base <= z.node[n].limit /\ z.node[n].limit < Span(Level(g, n))
                      /\ \E u \in U : /\ u.left <= Lo(z, g, n) /\ Hi(z, g, n) <= u.right
                                      /\ Piece(u, Lo(z, g, n), Hi(z, g, n))
    BY <1>3 DEF Content
  <2>1. PICK u \in T : /\ u.left <= Lo(x, g, n) /\ Hi(x, g, n) <= u.right
                       /\ Piece(u, Lo(x, g, n), Hi(x, g, n))
    BY <1>1 DEF Content
  <2>2. x.node[n].base <= x.node[n].limit /\ x.node[n].limit < Span(Level(g, n))
    BY <1>1 DEF Content
  <2>3. CASE u = s  BY <1>2, <1>5, <1>7, <2>1, <2>2, <2>3
  <2>4. CASE u # s  BY <1>5, <2>1, <2>2, <2>4
  <2> QED BY <2>3, <2>4
<1>9. Disjoint(z, g, Root)  BY <1>1, <1>3, <1>5 DEF Disjoint
<1>10. First(z, g, Root, U)
  <2> SUFFICES ASSUME NEW u \in U, NEW n \in Valid(x) \ {Root}, NEW m \in Valid(x) \ {Root},
                      Level(g, n) < Level(g, m), Cell(Level(g, n), Lo(z, g, m)) = Num(g, n),
                      Lo(z, g, n) \in u.left .. u.right, Lo(z, g, m) \in u.left .. u.right
               PROVE  Lo(z, g, n) < Lo(z, g, m)
    BY <1>3 DEF First
  <2>1. PICK v \in T : v.left = u.left /\ v.right = u.right  BY <1>2
  <2>2. Lo(z, g, n) = Lo(x, g, n) /\ Lo(z, g, m) = Lo(x, g, m)  BY <1>5
  <2> QED BY <1>1, <2>1, <2>2 DEF First
<1>11. Paid(z, g, Root, U)
  <2> SUFFICES ASSUME NEW u \in U, NEW n \in Valid(x) \ {Root}, Lo(z, g, n) \in u.left .. u.right
               PROVE  Agrees(u, z.node[n])
    BY <1>3 DEF Paid
  <2>1. Lo(x, g, n) \in u.left .. u.right /\ n \in DOMAIN x.node /\ IsNode(x.node[n])
    BY <1>1, <1>4, <1>5 DEF Shape
  <2>2. CASE u = t
    <3>1. Lo(x, g, n) \in s.left .. s.right /\ s.left \in Nat /\ s.right \in Nat
      BY <1>1, <1>2, <2>1, <2>2, SegmentFacts
    <3>2. StartsIn(x, g, n, s.left, s.right)  BY <3>1 DEF StartsIn
    <3>3. z.node[n] = Tokened(x.node[n], d, op)  BY <2>1, <3>2 DEF Updated
    <3>4. Agrees(s, x.node[n])  BY <1>1, <3>1 DEF Paid
    <3> QED BY <2>1, <2>2, <3>3, <3>4, AgreesAgain
  <2>3. CASE u # t
    <3>1. u \in T /\ u # s  BY <2>3
    <3>2. ~(Lo(x, g, n) \in s.left .. s.right)  BY <1>1, <2>1, <3>1, SameSegment
    <3>3. Lo(x, g, n) \in Nat /\ s.left \in Nat /\ s.right \in Nat
      BY <1>1, <2>1, <3>1, SegmentFacts
    <3>4. ~StartsIn(x, g, n, s.left, s.right)  BY <3>2, <3>3 DEF StartsIn
    <3>5. z.node[n] = x.node[n]  BY <2>1, <3>4 DEF Updated
    <3> QED BY <1>1, <2>1, <3>1, <3>5 DEF Paid
  <2> QED BY <2>2, <2>3
<1>12. \A a : Cov(z, g, Root, a) <=> Cov(x, g, Root, a)  BY <1>3, <1>5 DEF Cov, Holds
<1> HIDE DEF U
<1>13. Inv(z, g, Root, 0, U)  BY <1>3, <1>6, <1>8, <1>9, <1>10, <1>11 DEF Inv, Holding
<1> QED BY <1>12, <1>13 DEF U

\* A segment that the table holds nothing of can go, or come.
LEMMA SegmentGone ==
    ASSUME NEW x, NEW g, NEW s, NEW T, Inv(x, g, Root, 0, T), s \in T,
           \A a \in s.left .. s.right : ~Cov(x, g, Root, a)
    PROVE  Inv(x, g, Root, 0, T \ {s})
<1> DEFINE U == T \ {s}
<1>1. /\ Sound(x, g, 0) /\ Segments(T) /\ Content(x, g, Root, T) /\ Disjoint(x, g, Root)
      /\ First(x, g, Root, T) /\ Paid(x, g, Root, T) /\ Shape(x) /\ Counted(x) /\ Placed(x, g)
  BY DEF Inv, Holding, Sound
<1>2. Segments(U) /\ First(x, g, Root, U) /\ Paid(x, g, Root, U)
  BY <1>1 DEF Segments, First, Paid
<1>3. Content(x, g, Root, U)
  <2> SUFFICES ASSUME NEW n \in Valid(x) \ {Root}
               PROVE  /\ x.node[n].base <= x.node[n].limit /\ x.node[n].limit < Span(Level(g, n))
                      /\ \E u \in U : /\ u.left <= Lo(x, g, n) /\ Hi(x, g, n) <= u.right
                                      /\ Piece(u, Lo(x, g, n), Hi(x, g, n))
    BY DEF Content
  <2>1. PICK u \in T : /\ u.left <= Lo(x, g, n) /\ Hi(x, g, n) <= u.right
                       /\ Piece(u, Lo(x, g, n), Hi(x, g, n))
    BY <1>1 DEF Content
  <2>2. x.node[n].base <= x.node[n].limit /\ x.node[n].limit < Span(Level(g, n))
    BY <1>1 DEF Content
  <2>3. u # s
    <3>1. /\ Holds(x, g, n, Lo(x, g, n)) /\ Lo(x, g, n) \in Addr /\ Hi(x, g, n) \in Addr
          /\ Lo(x, g, n) <= Hi(x, g, n)
      BY <1>1, NodeContent
    <3>2. Cov(x, g, Root, Lo(x, g, n))  BY <3>1 DEF Cov
    <3>3. Lo(x, g, n) \in Nat /\ Hi(x, g, n) \in Nat /\ s.left \in Nat /\ s.right \in Nat
      BY <1>1, <3>1, SegmentFacts, SpanFacts DEF Addr
    <3> QED BY <2>1, <3>1, <3>2, <3>3
  <2> QED BY <2>1, <2>2, <2>3
<1> HIDE DEF U
<1>4. Inv(x, g, Root, 0, U)  BY <1>1, <1>2, <1>3 DEF Inv, Holding
<1> QED BY <1>4 DEF U

LEMMA SegmentCome ==
    ASSUME NEW x, NEW g, NEW s, NEW T, Inv(x, g, Root, 0, T), Segments(T \cup {s}),
           \A a \in s.left .. s.right : ~Cov(x, g, Root, a)
    PROVE  Inv(x, g, Root, 0, T \cup {s}) /\ Fresh(x, g, s) /\ Clean(x, g, s, 0)
<1> DEFINE U == T \cup {s}
<1>1. /\ Sound(x, g, 0) /\ Segments(T) /\ Content(x, g, Root, T) /\ Disjoint(x, g, Root)
      /\ First(x, g, Root, T) /\ Paid(x, g, Root, T) /\ Shape(x) /\ Counted(x) /\ Placed(x, g)
  BY DEF Inv, Holding, Sound
<1>2. ASSUME NEW n \in Valid(x) PROVE Lo(x, g, n) \notin s.left .. s.right
  <2>1. n \in Valid(x) \ {Root}  BY RootNotValid
  <2>2. Holds(x, g, n, Lo(x, g, n))  BY <1>1, <2>1, NodeContent
  <2> QED BY <2>1, <2>2 DEF Cov
<1>3. First(x, g, Root, U) /\ Paid(x, g, Root, U)
  <2>1. First(x, g, Root, U)  BY <1>1, <1>2 DEF First
  <2>2. Paid(x, g, Root, U)  BY <1>1, <1>2 DEF Paid
  <2> QED BY <2>1, <2>2
<1>4. Content(x, g, Root, U)  BY <1>1 DEF Content
<1>5. Fresh(x, g, s) /\ Clean(x, g, s, 0)  BY <1>2 DEF Fresh, Clean
<1> HIDE DEF U
<1>6. Segments(U)  BY DEF U
<1>7. Inv(x, g, Root, 0, U)  BY <1>1, <1>3, <1>4, <1>6 DEF Inv, Holding
<1> QED BY <1>5, <1>7 DEF U

\* The root node of a call is no part of the table.
LEMMA RootSound ==
    ASSUME NEW x, NEW y, NEW g, Sound(x, g, 0), SameButRoot(x, y)
    PROVE  /\ Sound(y, g, 0) /\ Valid(y) = Valid(x) /\ UsedIds(y) = UsedIds(x) /\ Nodes(y) = Nodes(x)
           /\ \A m \in Valid(x) : y.node[m] = x.node[m]
<1>0. Shape(x) /\ Counted(x) /\ Flagged(x) /\ Placed(x, g) /\ Linked(x, g) /\ Filled(x, 0)
  BY DEF Sound
<1>1. /\ DOMAIN y = TableFields /\ y.bitmap = x.bitmap /\ y.block = x.block
      /\ DOMAIN y.node = DOMAIN x.node /\ \A m \in DOMAIN x.node \ {Root} : y.node[m] = x.node[m]
      /\ IsNode(y.node[Root]) /\ y.node[Root].next = 0 /\ y.node[Root].valid = 0
  BY DEF SameButRoot
<1>2. UsedIds(y) = UsedIds(x) /\ Nodes(y) = Nodes(x) /\ Mapped(y) = Mapped(x)
  BY <1>1 DEF UsedIds, Nodes, Mapped
<1>3. \A m \in UsedIds(x) \X Index : m \in DOMAIN x.node /\ y.node[m] = x.node[m]
  BY <1>0, <1>1, UsedNode
<1>4. Valid(y) = Valid(x) /\ \A m \in Valid(x) : y.node[m] = x.node[m]  BY <1>2, <1>3 DEF Valid
<1>5. \A i \in Mapped(x) : ValidAt(y, i) = ValidAt(x, i)
  <2> SUFFICES ASSUME NEW i \in Mapped(x) PROVE ValidAt(y, i) = ValidAt(x, i)  OBVIOUS
  <2>1. i \in Nat  BY IdFacts DEF Mapped
  <2>2. \A j \in Index : <<i, j>> \in DOMAIN x.node /\ <<i, j>> # Root
    BY <1>0, <2>1 DEF Shape, Root
  <2> QED BY <1>1, <2>2 DEF ValidAt
<1>6. Shape(y)
  <2>1. Root \in DOMAIN x.node  BY <1>0 DEF Shape
  <2> QED BY <1>0, <1>1, <1>2, <2>1 DEF Shape
<1>7. Counted(y)  BY <1>0, <1>1, <1>2, <1>5 DEF Counted
<1>8. Flagged(y)  BY <1>0, <1>1 DEF Flagged
<1>9. Placed(y, g)  BY <1>0, <1>2 DEF Placed
<1>10. Linked(y, g)  BY <1>0, <1>2, <1>4 DEF Linked
<1>11. Filled(y, 0)
  <2>1. UsedIds(x) \subseteq Mapped(x)  BY <1>0, UsedFacts
  <2> QED BY <1>0, <1>2, <1>5, <2>1 DEF Filled
<1> QED BY <1>2, <1>3, <1>4, <1>6, <1>7, <1>8, <1>9, <1>10, <1>11 DEF Sound

\* The same, with the content.
LEMMA RootInv ==
    ASSUME NEW x, NEW y, NEW g, NEW T, Inv(x, g, Root, 0, T), SameButRoot(x, y)
    PROVE  /\ Inv(y, g, Root, 0, T) /\ Valid(y) = Valid(x) /\ UsedIds(y) = UsedIds(x)
           /\ \A m \in Valid(x) : y.node[m] = x.node[m]
           /\ \A a : Cov(y, g, Root, a) <=> Cov(x, g, Root, a)
<1>1. /\ Sound(y, g, 0) /\ Valid(y) = Valid(x) /\ UsedIds(y) = UsedIds(x)
      /\ \A m \in Valid(x) : y.node[m] = x.node[m]
  BY RootSound DEF Inv
<1>2. \A m \in Valid(x) : SameContent(x.node[m], y.node[m])  BY <1>1, SameContentSelf
<1>3. SameGeo(x, g, g)  BY DEF SameGeo
<1>4. Holding(y, g, Root, T) /\ \A a : Cov(y, g, Root, a) <=> Cov(x, g, Root, a)
  BY <1>1, <1>2, <1>3, SameHolding DEF Inv
<1> QED BY <1>1, <1>4 DEF Inv

LEMMA RootExact ==
    ASSUME NEW x, NEW y, NEW g, NEW T, Exact(x, g, T), SameButRoot(x, y)
    PROVE  Exact(y, g, T)
  BY RootInv DEF Exact

\* Level block 0 has all addresses, counted from 0.
LEMMA AtRoot ==
    ASSUME NEW x, NEW g, NEW T, Inv(x, g, Root, 0, T), NEW s \in T
    PROVE  /\ LeadsTo(x, Root, 0) /\ g.lev[0] = 0 /\ Offsets(g, 0, s.left, s.right, s.left, s.right)
           /\ RangeIn(g, s, 0, s.left, s.right) /\ WholeIn(g, s, 0, s.left, s.right)
           /\ NoUpper(x, g, 0, s.left, s.right) /\ FromHere(x, g, s, 0, s.left)
           /\ s.left \in Nat /\ s.right \in Nat /\ s.left <= s.right
<1>0. /\ Shape(x) /\ Counted(x) /\ Placed(x, g) /\ Segments(T)
      /\ g.lev[0] = 0 /\ g.num[0] = 0
  BY DEF Inv, Sound, Holding, Placed
<1>1. /\ s.left \in Nat /\ s.right \in Nat /\ s.left <= s.right
      /\ \A a \in s.left .. s.right : a \in Addr /\ a \in Nat
  BY <1>0, SegmentFacts
<1>2. \A a \in Addr : InBlock(g, 0, a)
  <2> SUFFICES ASSUME NEW a \in Addr PROVE Cell(0, a) \div Fan = 0  BY <1>0 DEF InBlock
  <2>1. Cell(0, a) \in Index  BY CellTop
  <2> QED BY <2>1, FanAssumption DEF Index
<1>3. LeadsTo(x, Root, 0)  BY <1>0 DEF LeadsTo, Shape
<1>4. BlockStart(g, 0) = 0
  <2>1. Span(0) \in Nat /\ Fan \in Nat  BY SpanFacts, LevelNat
  <2> QED BY <1>0, <2>1 DEF BlockStart
<1>5. Offsets(g, 0, s.left, s.right, s.left, s.right)  BY <1>1, <1>4 DEF Offsets
<1>6. RangeIn(g, s, 0, s.left, s.right)  BY <1>1, <1>2 DEF RangeIn
<1>7. WholeIn(g, s, 0, s.left, s.right)  BY <1>0, <1>1, <1>6 DEF WholeIn
<1>8. \A n \in Valid(x) : Level(g, n) \in Nat  BY <1>0, NodePlace, LevelNat DEF Valid
<1>9. NoUpper(x, g, 0, s.left, s.right)  BY <1>8 DEF NoUpper
<1>10. FromHere(x, g, s, 0, s.left)  BY <1>1 DEF FromHere
<1> QED BY <1>0, <1>1, <1>3, <1>5, <1>6, <1>7, <1>9, <1>10

\* A segment is cleared: the walk succeeds, and only the segment is gone.
LEMMA SegmentCleared ==
    ASSUME level = 0, SwapBelowOK, ClearBelowOK,
           NEW x, NEW g, NEW T, Exact(x, g, T), x.ret = "ok", x.node[Root].type = 0,
           x.lvl \in Levels, NEW s \in T
    PROVE  LET y == ummu_table_clear_node_by_level(x, Root, s.left, s.right)
           IN  /\ y.ret = "ok" /\ Exact(y, g, T \ {s}) /\ y.lvl \in Levels
               /\ \A a \in Addr : Touched(s, y.lvl, a) \/ StillHolds(x, y, g, g, a)
<1> DEFINE y == ummu_table_clear_node_by_level(x, Root, s.left, s.right)
<1>0. /\ Inv(x, g, Root, 0, T) /\ Segments(T)
      /\ \A a \in Addr : Cov(x, g, Root, a) <=> \E t \in T : a \in t.left .. t.right
  BY DEF Exact, Inv, Holding
<1>1. /\ LeadsTo(x, Root, 0) /\ g.lev[0] = 0 /\ Offsets(g, 0, s.left, s.right, s.left, s.right)
      /\ RangeIn(g, s, 0, s.left, s.right) /\ NoUpper(x, g, 0, s.left, s.right)
      /\ s.left \in Nat /\ s.right \in Nat /\ s.left <= s.right
  BY <1>0, AtRoot
<1>2. \A a \in s.left .. s.right : a \in Addr /\ a \in Nat  BY <1>0, SegmentFacts
<1>3. ClearPre(x, g, s, Root, 0, s.left, s.right, s.right, T, 0)
  BY <1>0, <1>1, <1>2 DEF ClearPre
<1>4. ClearPost(x, y, g, s, Root, s.left, s.right, s.right, T, 0)
  <2>1. level \in Nat  OBVIOUS
  <2> QED BY <1>1, <1>3, <2>1, ClearCorrect
<1> HIDE DEF y
<1>5. /\ y.ret = "ok" /\ Inv(y, g, Root, 0, T) /\ Unmoved(x, y, g, s)
      /\ \A a \in Addr : Cov(y, g, Root, a) <=>
             Cov(x, g, Root, a) /\ ~(s.left <= a /\ a <= s.right)
  BY <1>1, <1>4 DEF ClearPost, Cleared
<1>a. y.lvl \in Levels /\ \A a \in Addr : Touched(s, y.lvl, a) \/ StillHolds(x, y, g, g, a)
  BY <1>5 DEF Unmoved, StillHolds
<1>6. Inv(y, g, Root, 0, T \ {s})
  <2>1. \A a \in s.left .. s.right : ~Cov(y, g, Root, a)  BY <1>1, <1>2, <1>5
  <2> QED BY <1>5, <2>1, SegmentGone
<1>7. ASSUME NEW a \in Addr
      PROVE  Cov(y, g, Root, a) <=> \E t \in T \ {s} : a \in t.left .. t.right
  <2>1. a \in Nat  BY <1>7, SpanFacts DEF Addr
  <2>2. ASSUME NEW t \in T \ {s}, a \in t.left .. t.right PROVE ~(s.left <= a /\ a <= s.right)
    <3>1. a \in s.left .. s.right => s = t  BY <1>0, <2>2, SameSegment
    <3> QED BY <1>1, <2>1, <2>2, <3>1
  <2>3. ~(s.left <= a /\ a <= s.right) => a \notin s.left .. s.right  OBVIOUS
  <2> QED BY <1>0, <1>5, <1>7, <2>2, <2>3
<1> QED BY <1>5, <1>6, <1>7, <1>a DEF Exact, y

\* The records have the same table.
LEMMA AlikeInv ==
    ASSUME NEW x, NEW y, NEW g, NEW T, Inv(x, g, Root, 0, T), Alike(x, y)
    PROVE  /\ Inv(y, g, Root, 0, T) /\ Valid(y) = Valid(x) /\ UsedIds(y) = UsedIds(x)
           /\ \A n : Lo(y, g, n) = Lo(x, g, n) /\ Hi(y, g, n) = Hi(x, g, n)
           /\ \A a : Cov(y, g, Root, a) <=> Cov(x, g, Root, a)
<1>1. DOMAIN y = TableFields /\ y.node = x.node /\ y.bitmap = x.bitmap /\ y.block = x.block
  BY DEF Alike
<1>2. SameButRoot(x, y)  BY <1>1 DEF SameButRoot, Inv, Sound, Shape
<1> QED BY <1>1, <1>2, RootInv DEF Lo, Hi

\* Setting the return code.
LEMMA AlikeRet ==
    ASSUME NEW x, DOMAIN x = TableFields, NEW r, NEW y, y = [x EXCEPT !.ret = r]
    PROVE  Alike(x, y) /\ y.ret = r
  BY DEF Alike, TableFields

\* A grant that fails half way: the walk that clears the range takes back what
\* was put, and nothing else.
LEMMA GrantUndone ==
    ASSUME level = 0, SwapBelowOK, ClearBelowOK,
           NEW y, NEW g, NEW T, NEW s \in T, Inv(y, g, Root, 0, T),
           y.ret = "ok", y.node[Root].type = 0, y.lvl \in Levels, Fresh(y, g, s),
           NEW m \in Int, s.left - 1 <= m, m <= s.right,
           \A a \in Addr : Cov(y, g, Root, a) <=>
               (\E t \in T \ {s} : a \in t.left .. t.right) \/ (s.left <= a /\ a <= m),
           m < s.right => Stuck(y, g, 0, m + 1)
    PROVE  LET z == ummu_table_clear_node_by_level(y, Root, s.left, s.right)
           IN  Exact(z, g, T \ {s}) /\ Trim(y, z, g, s)
<1> DEFINE z == ummu_table_clear_node_by_level(y, Root, s.left, s.right)
<1>0. Segments(T)  BY DEF Inv, Holding
<1>1. /\ LeadsTo(y, Root, 0) /\ g.lev[0] = 0 /\ Offsets(g, 0, s.left, s.right, s.left, s.right)
      /\ RangeIn(g, s, 0, s.left, s.right) /\ NoUpper(y, g, 0, s.left, s.right)
      /\ s.left \in Nat /\ s.right \in Nat /\ s.left <= s.right
  BY AtRoot
<1>2. \A a \in s.left .. s.right : a \in Addr /\ a \in Nat  BY <1>0, SegmentFacts
<1>3. \A a \in Addr : \A t \in T \ {s} : a \in t.left .. t.right => a \notin s.left .. s.right
  BY <1>0, SameSegment
<1>4. ClearPre(y, g, s, Root, 0, s.left, s.right, m, T, 0)
  <2>1. m \in s.left - 1 .. s.right  BY <1>1
  <2>2. \A a \in s.left .. s.right : Cov(y, g, Root, a) <=> s.left <= a /\ a <= m  BY <1>2, <1>3
  <2> QED BY <1>1, <2>1, <2>2 DEF ClearPre
<1>5. ClearPost(y, z, g, s, Root, s.left, s.right, m, T, 0)
  <2>1. level \in Nat  OBVIOUS
  <2> QED BY <1>1, <1>4, <2>1, ClearCorrect
<1> HIDE DEF z
<1>6. /\ Inv(z, g, Root, 0, T) /\ Trim(y, z, g, s)
      /\ \A a \in Addr : Cov(z, g, Root, a) <=>
             Cov(y, g, Root, a) /\ ~(s.left <= a /\ a <= s.right)
  BY <1>1, <1>5 DEF ClearPost, Cleared
<1>7. Inv(z, g, Root, 0, T \ {s})
  <2>1. \A a \in s.left .. s.right : ~Cov(z, g, Root, a)  BY <1>1, <1>2, <1>6
  <2> QED BY <1>6, <2>1, SegmentGone
<1>8. ASSUME NEW a \in Addr
      PROVE  Cov(z, g, Root, a) <=> \E t \in T \ {s} : a \in t.left .. t.right
  <2>1. a \in Nat  BY <1>8, SpanFacts DEF Addr
  <2>2. s.left <= a /\ a <= s.right <=> a \in s.left .. s.right  BY <1>1, <2>1
  <2>3. s.left <= a /\ a <= m => a <= s.right  BY <1>1, <2>1
  <2> QED BY <1>3, <1>6, <1>8, <2>2, <2>3
<1> QED BY <1>6, <1>7, <1>8 DEF Exact, z

\* What the table held besides the segment is still there after the walk that
\* takes back what was put of it.
LEMMA OthersStay ==
    ASSUME NEW x, NEW y, NEW z, NEW g, NEW h, NEW T, NEW s, Inv(x, g, Root, 0, T),
           \A a \in s.left .. s.right : ~Cov(x, g, Root, a),
           Grown(x, y), SameGeo(x, g, h)
    PROVE  /\ \A a \in Addr : StillHolds(x, y, g, h, a)
           /\ Trim(y, z, h, s) => \A a \in Addr : StillHolds(x, z, g, h, a)
<1>0. /\ Shape(x) /\ Counted(x) /\ Placed(x, g) /\ Segments(T) /\ Content(x, g, Root, T)
  BY DEF Inv, Sound, Holding
<1>1. ASSUME NEW n \in Valid(x)
      PROVE  /\ n \in Valid(y) /\ SameContent(x.node[n], y.node[n])
             /\ Level(h, n) = Level(g, n) /\ Num(h, n) = Num(g, n)
             /\ Lo(y, h, n) \notin s.left .. s.right
  <2>1. n \in Valid(y) /\ SameContent(x.node[n], y.node[n])  BY DEF Grown
  <2>2. n \in UsedIds(x) \X Index  BY DEF Valid
  <2>3. Level(h, n) = Level(g, n) /\ Num(h, n) = Num(g, n)  BY <2>2, SameNode
  <2>4. n \in Valid(x) \ {Root}  BY RootNotValid
  <2>5. Holds(x, g, n, Lo(x, g, n))  BY <1>0, <2>4, NodeContent
  <2>6. Lo(y, h, n) = Lo(x, g, n)  BY <2>1, <2>3 DEF SameContent, NodeFields, Lo
  <2> QED BY <2>1, <2>3, <2>4, <2>5, <2>6 DEF Cov
<1>2. \A a \in Addr : StillHolds(x, y, g, h, a)  BY <1>1 DEF StillHolds
<1>3. ASSUME Trim(y, z, h, s), NEW n \in Valid(x)
      PROVE  /\ n \in Valid(z) /\ SameContent(x.node[n], z.node[n])
             /\ Level(h, n) = Level(g, n) /\ Num(h, n) = Num(g, n)
  <2>1. n \in Valid(z)  BY <1>1, <1>3 DEF Trim
  <2>2. SameContent(y.node[n], z.node[n])  BY <1>3, <2>1 DEF Trim
  <2> QED BY <1>1, <2>1, <2>2, SameContentTwice
<1> QED BY <1>2, <1>3 DEF StillHolds

\* A segment is put: either all of it is there, or the walk fails and the
\* clearing of its range takes back what was put.
LEMMA SegmentPut ==
    ASSUME level = 0, SwapBelowOK, ClearBelowOK, FillBelowOK,
           NEW x, NEW g, NEW T, Exact(x, g, T), x.ret = "ok", x.node[Root].type = 0,
           x.lvl \in Levels, NEW s, s \notin T, Segments(T \cup {s}), NEW d, Asked(s, d)
    PROVE  LET y == ummu_table_fill_node_by_level(x, d, Root, s.left, s.right)
               z == ummu_table_clear_node_by_level([y EXCEPT !.ret = "ok"], Root, s.left, s.right)
           IN  /\ y.ret = "ok" => \E h : Undisturbed(x, y, g, h, T \cup {s})
               /\ y.ret # "ok" => \E h : Undisturbed(x, z, g, h, T)
<1> DEFINE y == ummu_table_fill_node_by_level(x, d, Root, s.left, s.right)
           w == [y EXCEPT !.ret = "ok"]
           z == ummu_table_clear_node_by_level(w, Root, s.left, s.right)
           S == T \cup {s}
<1>0. /\ Inv(x, g, Root, 0, T)
      /\ \A a \in Addr : Cov(x, g, Root, a) <=> \E t \in T : a \in t.left .. t.right
  BY DEF Exact
<1>1. s \in S /\ Segments(S) /\ S \ {s} = T  OBVIOUS
<1> HIDE DEF S
<1>2. \A a \in s.left .. s.right : a \in Addr /\ a \in Nat  BY <1>1, SegmentFacts
<1>3. \A a \in s.left .. s.right : ~Cov(x, g, Root, a)
  <2>1. ASSUME NEW a \in s.left .. s.right, NEW t \in T, a \in t.left .. t.right PROVE FALSE
    <3>1. t \in S  BY DEF S
    <3> QED BY <1>1, <2>1, <3>1, SameSegment
  <2> QED BY <1>0, <1>2, <2>1
<1>4. Inv(x, g, Root, 0, S) /\ Fresh(x, g, s) /\ Clean(x, g, s, 0)
  BY <1>0, <1>3, SegmentCome DEF S
<1>5. /\ LeadsTo(x, Root, 0) /\ g.lev[0] = 0 /\ Offsets(g, 0, s.left, s.right, s.left, s.right)
      /\ WholeIn(g, s, 0, s.left, s.right)
      /\ s.left \in Nat /\ s.right \in Nat /\ s.left <= s.right
  BY <1>1, <1>4, AtRoot
<1>6. FillAt(x, g, s, d, Root, 0, s.left, s.left, s.right, S, 0)
  <2>1. \A a \in s.left .. s.right : Cov(x, g, Root, a) <=> a < s.left  BY <1>2, <1>3, <1>5
  <2> QED BY <1>1, <1>4, <1>5, <2>1 DEF FillAt
<1>7. FillPost(x, y, g, s, s.left, s.right, S, 0)
  <2>1. level \in Nat  OBVIOUS
  <2> QED BY <1>5, <1>6, <2>1, FillCorrect
<1> HIDE DEF y
<1>8. PICK h : \E m \in Int :
        /\ s.left - 1 <= m /\ m <= s.right /\ Added(x, y, g, h, s, s.left, m, S, 0)
        /\ y.ret = "ok" <=> m = s.right
        /\ y.ret # "ok" => Stuck(y, h, 0, m + 1)
  BY <1>7 DEF FillPost
<1>9. PICK m \in Int :
        /\ s.left - 1 <= m /\ m <= s.right /\ Added(x, y, g, h, s, s.left, m, S, 0)
        /\ y.ret = "ok" <=> m = s.right
        /\ y.ret # "ok" => Stuck(y, h, 0, m + 1)
  BY <1>8
<1>10. /\ Inv(y, h, Root, 0, S) /\ Fresh(y, h, s) /\ FramedAbove(x, y, g, h, 0)
       /\ SameGeo(x, g, h) /\ Grown(x, y)
       /\ \A c \in Addr : Cov(y, h, Root, c) <=> Cov(x, g, Root, c) \/ (s.left <= c /\ c <= m)
  BY <1>9 DEF Added
<1>11. ASSUME y.ret = "ok" PROVE Undisturbed(x, y, g, h, S)
  <2>1. m = s.right  BY <1>9, <1>11
  <2>2. ASSUME NEW a \in Addr
        PROVE  Cov(y, h, Root, a) <=> \E t \in S : a \in t.left .. t.right
    <3>1. a \in Nat  BY <2>2, SpanFacts DEF Addr
    <3>2. s.left <= a /\ a <= s.right <=> a \in s.left .. s.right  BY <1>5, <3>1
    <3>3. \A t : t \in S <=> t \in T \/ t = s  BY DEF S
    <3> QED BY <1>0, <1>10, <2>1, <2>2, <3>2, <3>3
  <2>3. \A a \in Addr : StillHolds(x, y, g, h, a)  BY <1>0, <1>3, <1>10, OthersStay
  <2> QED BY <1>10, <2>2, <2>3 DEF Exact, Undisturbed
<1>12. ASSUME y.ret # "ok" PROVE Undisturbed(x, z, g, h, T)
  <2>1. DOMAIN y = TableFields  BY <1>10 DEF Inv, Sound, Shape
  <2>2. Alike(y, w) /\ w.ret = "ok"  BY <2>1, AlikeRet
  <2> HIDE DEF w
  <2>3. /\ Inv(w, h, Root, 0, S) /\ Valid(w) = Valid(y) /\ UsedIds(w) = UsedIds(y)
        /\ \A n : Lo(w, h, n) = Lo(y, h, n) /\ Hi(w, h, n) = Hi(y, h, n)
        /\ \A a : Cov(w, h, Root, a) <=> Cov(y, h, Root, a)
    BY <1>10, <2>2, AlikeInv
  <2>4. w.node[Root].type = 0
    <3>1. y.node[Root] = x.node[Root]  BY <1>10 DEF FramedAbove, Nodes
    <3> QED BY <2>2, <3>1 DEF Alike
  <2>5. Fresh(w, h, s) /\ Stuck(w, h, 0, m + 1)
    <3>1. w.node = y.node  BY <2>2 DEF Alike
    <3>2. Fresh(w, h, s)  BY <1>10, <2>3, <3>1 DEF Fresh, Holds
    <3>3. Stuck(y, h, 0, m + 1)  BY <1>9, <1>12
    <3> QED BY <2>3, <3>2, <3>3 DEF Stuck
  <2>6. \A a \in Addr : Cov(w, h, Root, a) <=>
            (\E t \in S \ {s} : a \in t.left .. t.right) \/ (s.left <= a /\ a <= m)
    BY <1>0, <1>1, <1>10, <2>3
  <2>a. w.lvl = x.lvl
    <3>1. w.lvl = y.lvl  BY <2>1 DEF w, TableFields
    <3> QED BY <1>10, <3>1 DEF Grown
  <2>7. Exact(z, h, S \ {s}) /\ Trim(w, z, h, s)
    BY <1>1, <1>9, <2>2, <2>3, <2>4, <2>5, <2>6, <2>a, GrantUndone
  <2>8. Grown(x, w)
    <3>1. w.node = y.node  BY <2>2 DEF Alike
    <3> QED BY <1>10, <2>3, <2>a, <3>1 DEF Grown
  <2> HIDE DEF z
  <2>9. \A a \in Addr : StillHolds(x, z, g, h, a)  BY <1>0, <1>3, <1>10, <2>7, <2>8, OthersStay
  <2> QED BY <1>1, <2>7, <2>9 DEF Undisturbed
<1> QED BY <1>11, <1>12 DEF S, y, w, z

\* The tokens of a segment are changed: the walk succeeds and comes to all the
\* nodes of the segment.
LEMMA SegmentTokens ==
    ASSUME level = 0, UpdateBelowOK,
           NEW x, NEW g, NEW T, Exact(x, g, T), x.ret = "ok",
           NEW s \in T, NEW d, NEW op, Ready(s, d, op)
    PROVE  LET y == ummu_table_update_token_by_level(x, d, op, Root, s.left, s.right)
           IN  /\ y.ret = "ok" /\ \A t : Retokened(s, t, d, op) => Exact(y, g, (T \ {s}) \cup {t})
               /\ \A a \in Addr : a \in s.left .. s.right \/ StillHolds(x, y, g, g, a)
<1> DEFINE y == ummu_table_update_token_by_level(x, d, op, Root, s.left, s.right)
<1>0. /\ Inv(x, g, Root, 0, T) /\ Segments(T)
      /\ \A a \in Addr : Cov(x, g, Root, a) <=> \E t \in T : a \in t.left .. t.right
  BY DEF Exact, Inv, Holding
<1>1. /\ LeadsTo(x, Root, 0) /\ g.lev[0] = 0 /\ Offsets(g, 0, s.left, s.right, s.left, s.right)
      /\ RangeIn(g, s, 0, s.left, s.right) /\ NoUpper(x, g, 0, s.left, s.right)
      /\ FromHere(x, g, s, 0, s.left) /\ s.left \in Nat /\ s.right \in Nat /\ s.left <= s.right
  BY <1>0, AtRoot
<1>2. \A a \in s.left .. s.right : a \in Addr /\ a \in Nat  BY <1>0, SegmentFacts
<1>3. TokenWalk(x, g, s, d, op, Root, 0, s.left, s.right, T, 0)
  BY <1>0, <1>1, <1>2 DEF TokenWalk
<1>4. Updated(x, x, g, d, op, s.left, s.left - 1)
  <2>1. \A n : ~StartsIn(x, g, n, s.left, s.left - 1)
    <3>1. \A n \in Valid(x) : Lo(x, g, n) \in Addr
      BY <1>0, NodeContent, RootNotValid DEF Inv, Sound, Holding
    <3>2. \A n \in Valid(x) : Lo(x, g, n) \in Nat  BY <3>1, SpanFacts DEF Addr
    <3> QED BY <1>1, <3>2 DEF StartsIn
  <2> QED BY <1>0, <2>1 DEF Updated, Inv, Sound, Shape
<1>5. UpdatePost(x, y, g, s, d, op, s.right)
  <2>1. UpdatePre(x, x, g, s, d, op, Root, 0, s.left, s.right, T, level)
    BY <1>3, <1>4 DEF UpdatePre
  <2>2. level \in Nat  OBVIOUS
  <2> QED BY <1>1, <2>1, <2>2, UpdateCorrect
<1> HIDE DEF y
<1>6. y.ret = "ok" /\ Updated(x, y, g, d, op, s.left, s.right)  BY <1>5 DEF UpdatePost
<1>7. ASSUME NEW t, Retokened(s, t, d, op) PROVE Exact(y, g, (T \ {s}) \cup {t})
  <2>1. /\ Inv(y, g, Root, 0, (T \ {s}) \cup {t})
        /\ \A a : Cov(y, g, Root, a) <=> Cov(x, g, Root, a)
    BY <1>0, <1>6, <1>7, TokensDone
  <2>2. t.left = s.left /\ t.right = s.right  BY <1>7 DEF Retokened
  <2> QED BY <1>0, <2>1, <2>2 DEF Exact
<1>8. ASSUME NEW a \in Addr, a \notin s.left .. s.right PROVE StillHolds(x, y, g, g, a)
  <2> SUFFICES ASSUME NEW n \in Valid(x), Holds(x, g, n, a)
               PROVE  n \in Valid(y) /\ SameContent(x.node[n], y.node[n])
    BY DEF StillHolds
  <2>0. /\ Shape(x) /\ Counted(x) /\ Placed(x, g) /\ Content(x, g, Root, T) /\ n # Root
        /\ n \in UsedIds(x) \X Index /\ n \in DOMAIN x.node
    BY <1>0, RootNotValid, InNodes DEF Inv, Sound, Holding
  <2>1. /\ Lo(x, g, n) \in Nat /\ Hi(x, g, n) \in Nat /\ Lo(x, g, n) <= Hi(x, g, n) /\ a \in Nat
    <3>1. Lo(x, g, n) \in Addr /\ Hi(x, g, n) \in Addr /\ Lo(x, g, n) <= Hi(x, g, n)
      BY <1>0, <2>0, NodeContent
    <3> QED BY <3>1, SpanFacts DEF Addr
  <2>2. PICK t \in T : t.left <= Lo(x, g, n) /\ Hi(x, g, n) <= t.right  BY <2>0 DEF Content
  <2>3. t.left \in Nat /\ t.right \in Nat  BY <1>0, SegmentFacts
  <2>4. Lo(x, g, n) \in t.left .. t.right /\ a \in t.left .. t.right
    BY <2>1, <2>2, <2>3 DEF Holds
  <2>5. ~StartsIn(x, g, n, s.left, s.right)
    <3>1. Lo(x, g, n) \in s.left .. s.right => s = t  BY <1>0, <2>4, SameSegment
    <3> QED BY <1>1, <1>8, <2>1, <2>4, <3>1 DEF StartsIn
  <2>6. y.node[n] = x.node[n] /\ y.bitmap = x.bitmap  BY <1>6, <2>0, <2>5 DEF Updated
  <2>7. n \in Valid(y)  BY <2>6 DEF Valid, UsedIds
  <2> QED BY <2>6, <2>7, SameContentSelf
<1> QED BY <1>6, <1>7, <1>8 DEF y

----------------------------------------
(* What the device finds. *)

\* The device reads the node of level l that is on its way to the address.
LEMMA MatchPass ==
    ASSUME NEW x, NEW g, NEW T, Inv(x, g, Root, 0, T), NEW a \in Addr, NEW l \in Levels,
           NEW y, Walked(x, g, a, y, l), NEW c, c.addr = a,
           \A n \in UsedIds(x) \X Index : c.nodes[n] = x.node[n]
    PROVE  Walked(x, g, a, MatchNode(y, c, l + 1), l + 1)
<1>0. /\ Sound(x, g, 0) /\ Shape(x) /\ Counted(x) /\ Placed(x, g)
      /\ a \in Nat /\ l \in Nat /\ (l + 1) - 1 = l
  BY SpanFacts, LevelNat DEF Inv, Sound, Addr
<1> DEFINE n == <<y.id, GET_LEVEL_BLOCK_INDEX(a, l)>>
           o == a % Span(l)
           r == x.node[n]
           z == MatchNode(y, c, l + 1)
<1>1. CASE y.stop = TRUE
  <2>1. z = y  BY <1>1 DEF MatchNode
  <2> QED BY <1>1, <2>1 DEF Walked
<1>2. CASE y.stop = FALSE
  <2>1. y.id \in UsedIds(x) /\ g.lev[y.id] = l /\ InBlock(g, y.id, a)
        /\ \A q \in Valid(x) : Level(g, q) < l => ~Holds(x, g, q, a)
    BY <1>2 DEF Walked, Reached
  <2>2. n = <<y.id, Cell(g.lev[y.id], a) % Fan>>  BY <2>1 DEF GET_LEVEL_BLOCK_INDEX, Cell
  <2>3. n \in UsedIds(x) \X Index /\ Level(g, n) = l /\ Num(g, n) = Cell(l, a)
    BY <1>0, <2>1, <2>2, NodeFor
  <2>4. c.nodes[n] = r /\ IsNode(r)  BY <1>0, <2>3, UsedNode
  <2>5. z = IF r.valid = 1 /\ r.base <= o /\ o <= r.limit
            THEN [id |-> y.id, stop |-> TRUE, hit |-> {<<l, r>>}]
            ELSE [id |-> r.next, stop |-> r.valid = 0 \/ r.type = 1, hit |-> {}]
    <3>1. z = LET p == c.nodes[<<y.id, GET_LEVEL_BLOCK_INDEX(c.addr, (l + 1) - 1)>>]
                  q == c.addr % Span((l + 1) - 1)
              IN  IF y.stop THEN y
                  ELSE IF p.valid = 1 /\ p.base <= q /\ q <= p.limit
                  THEN [id |-> y.id, stop |-> TRUE, hit |-> {<<(l + 1) - 1, p>>}]
                  ELSE [id |-> p.next, stop |-> p.valid = 0 \/ p.type = 1, hit |-> {}]
      BY Zenon DEF MatchNode
    <3> QED BY <1>0, <1>2, <2>4, <3>1
  <2>6. Holds(x, g, n, a) <=> r.base <= o /\ o <= r.limit
    <3>1. /\ o \in Nat /\ a = Cell(l, a) * Span(l) + o /\ Span(l) \in Nat /\ Cell(l, a) \in Nat
      BY <1>0, CellOffset, CellNat, SpanFacts
    <3>2. Cell(l, a) * Span(l) \in Nat /\ r.base \in Nat /\ r.limit \in Nat
      BY <2>4, <3>1 DEF IsNode
    <3>3. Lo(x, g, n) = Cell(l, a) * Span(l) + r.base /\ Hi(x, g, n) = Cell(l, a) * Span(l) + r.limit
      BY <2>3 DEF Lo, Hi
    <3> HIDE DEF o, r, n
    <3> QED BY <3>1, <3>2, <3>3 DEF Holds
  <2>7. n \in Valid(x) <=> r.valid = 1  BY <2>3 DEF Valid
  <2> HIDE DEF z, n, r, o
  <2>8. ASSUME NEW q \in Valid(x), Holds(x, g, q, a)
        PROVE  n \in Valid(x) /\ (q # n => r.type = 0 /\ l < Level(g, q))
    <3>1. Level(g, q) \in Nat  BY <1>0, NodePlace, LevelNat DEF Valid
    <3>2. Level(g, n) <= Level(g, q)  BY <1>0, <2>1, <2>3, <2>8, <3>1
    <3> QED BY <1>0, <2>3, <2>8, <3>2, OnTheWay DEF r
  <2>9. CASE r.valid = 1 /\ r.base <= o /\ o <= r.limit
    <3>1. z.stop = TRUE /\ z.hit = {<<Level(g, n), x.node[n]>>}  BY <2>3, <2>5, <2>9 DEF r
    <3> QED BY <2>6, <2>7, <2>9, <3>1 DEF Walked, z
  <2>10. CASE ~(r.valid = 1 /\ r.base <= o /\ o <= r.limit) /\ (r.valid = 0 \/ r.type = 1)
    <3>1. z.stop = TRUE /\ z.hit = {}  BY <2>5, <2>10
    <3>2. ASSUME NEW q \in Valid(x), Holds(x, g, q, a) PROVE FALSE
      <4>1. r.valid = 1 /\ q # n  BY <2>6, <2>7, <2>8, <2>10, <3>2
      <4> QED BY <2>8, <2>10, <3>2, <4>1
    <3> QED BY <3>1, <3>2 DEF Walked, z
  <2>11. CASE ~(r.valid = 1 /\ r.base <= o /\ o <= r.limit) /\ r.valid = 1 /\ r.type = 0
    <3>1. z.stop = FALSE /\ z.hit = {} /\ z.id = r.next
      <4>1. z = [id |-> r.next, stop |-> r.valid = 0 \/ r.type = 1, hit |-> {}]  BY <2>5, <2>11
      <4>2. ~(r.valid = 0 \/ r.type = 1)  BY <2>11
      <4>3. (r.valid = 0 \/ r.type = 1) = FALSE  BY <4>2, Zenon
      <4>4. z.stop = (r.valid = 0 \/ r.type = 1) /\ z.hit = {} /\ z.id = r.next  BY <4>1, Zenon
      <4> QED BY <4>3, <4>4, Zenon
    <3>2. n \in Valid(x) /\ ~Holds(x, g, n, a)  BY <2>6, <2>7, <2>11
    <3>3. /\ r.next \in UsedIds(x) /\ g.lev[r.next] = l + 1 /\ g.num[r.next] = Cell(l, a)
          /\ l < LastLevel
      BY <1>0, <2>3, <2>11, <3>2, NextLevel DEF r
    <3>4. InBlock(g, r.next, a)  BY <1>0, <3>3, CellUp DEF InBlock
    <3>5. ASSUME NEW q \in Valid(x), Level(g, q) < l + 1 PROVE ~Holds(x, g, q, a)
      <4>1. Level(g, q) \in Nat  BY <1>0, NodePlace, LevelNat DEF Valid
      <4>2. ~(l < Level(g, q))  BY <1>0, <3>5, <4>1
      <4> QED BY <2>8, <3>2, <3>5, <4>2
    <3> QED BY <3>1, <3>3, <3>4, <3>5 DEF Walked, Reached, z
  <2> QED BY <2>4, <2>9, <2>10, <2>11 DEF IsNode
<1> QED BY <1>1, <1>2 DEF Walked

\* The device starts at level block 0.
LEMMA MatchStart ==
    ASSUME NEW x, NEW g, NEW T, Inv(x, g, Root, 0, T), NEW a \in Addr, NEW y,
           y.stop = FALSE, y.hit = {}, y.id = 0
    PROVE  Walked(x, g, a, y, 0)
<1>0. /\ Shape(x) /\ Counted(x) /\ Placed(x, g) /\ g.lev[0] = 0 /\ g.num[0] = 0
  BY DEF Inv, Sound, Placed
<1>1. InBlock(g, 0, a)
  <2>1. Cell(0, a) \in Index  BY CellTop
  <2>2. Cell(0, a) \div Fan = 0  BY <2>1, FanAssumption DEF Index
  <2> QED BY <1>0, <2>2 DEF InBlock
<1>2. \A n \in Valid(x) : Level(g, n) \in Nat  BY <1>0, NodePlace, LevelNat DEF Valid
<1>3. 0 \in UsedIds(x)  BY <1>0 DEF Counted
<1> QED BY <1>0, <1>1, <1>2, <1>3 DEF Walked, Reached

\* The device has stopped after the last level, and has found what the
\* segments say.
LEMMA MatchEnd ==
    ASSUME NEW x, NEW g, NEW T, Exact(x, g, T), NEW a \in Addr, NEW y,
           Walked(x, g, a, y, LastLevel + 1)
    PROVE  Found(y.hit, a, T)
<1>0. /\ Inv(x, g, Root, 0, T) /\ Shape(x) /\ Counted(x) /\ Placed(x, g) /\ Segments(T)
      /\ Content(x, g, Root, T) /\ Paid(x, g, Root, T)
      /\ Cov(x, g, Root, a) <=> \E s \in T : a \in s.left .. s.right
  BY DEF Exact, Inv, Sound, Holding
<1>1. a \in Nat /\ Root \notin Valid(x)  BY SpanFacts, RootNotValid DEF Addr
<1>2. y.stop # FALSE
  <2>1. \A id \in UsedIds(x) : g.lev[id] # LastLevel + 1  BY <1>0, LevelNat DEF Placed, Levels
  <2> QED BY <2>1 DEF Walked, Reached
<1>3. CASE y.hit = {} /\ \A n \in Valid(x) : ~Holds(x, g, n, a)
  <2>1. ~Cov(x, g, Root, a)  BY <1>3 DEF Cov
  <2> QED BY <1>0, <1>3, <2>1 DEF Found
<1>4. CASE \E n \in Valid(x) : Holds(x, g, n, a) /\ y.hit = {<<Level(g, n), x.node[n]>>}
  <2>1. PICK n \in Valid(x) : Holds(x, g, n, a) /\ y.hit = {<<Level(g, n), x.node[n]>>}  BY <1>4
  <2>2. PICK s \in T : s.left <= Lo(x, g, n) /\ Hi(x, g, n) <= s.right
    BY <1>0, <1>1 DEF Content
  <2>3. /\ Lo(x, g, n) \in Nat /\ Hi(x, g, n) \in Nat /\ Lo(x, g, n) <= Hi(x, g, n)
    <3>1. Lo(x, g, n) \in Addr /\ Hi(x, g, n) \in Addr /\ Lo(x, g, n) <= Hi(x, g, n)
      BY <1>0, <1>1, NodeContent
    <3> QED BY <3>1, SpanFacts DEF Addr
  <2>4. s.left \in Nat /\ s.right \in Nat  BY <1>0, SegmentFacts
  <2>5. Lo(x, g, n) \in s.left .. s.right /\ a \in s.left .. s.right
    BY <1>1, <2>1, <2>2, <2>3, <2>4 DEF Holds
  <2>6. Agrees(s, x.node[n])  BY <1>0, <1>1, <2>5 DEF Paid
  <2>7. \A t \in T : a \in t.left .. t.right <=> t = s  BY <1>0, <2>5, SameSegment
  <2> QED BY <2>1, <2>6, <2>7 DEF Found
<1> QED BY <1>2, <1>3, <1>4 DEF Walked

\* For an address whose node still holds it, the device finds what it found.
LEMMA HitStays ==
    ASSUME NEW x, NEW g, NEW T, Inv(x, g, Root, 0, T), NEW y, NEW h, NEW U, Inv(y, h, Root, 0, U),
           NEW a \in Addr, StillHolds(x, y, g, h, a),
           NEW p, Walked(x, g, a, p, LastLevel + 1), NEW q, Walked(y, h, a, q, LastLevel + 1)
    PROVE  SameHit(p.hit, q.hit)
<1>0. /\ Placed(x, g) /\ Shape(y) /\ Counted(y) /\ Placed(y, h) /\ Segments(U)
      /\ Content(y, h, Root, U) /\ Disjoint(y, h, Root)
  BY DEF Inv, Sound, Holding
<1>1. p.stop # FALSE /\ q.stop # FALSE
  <2>1. /\ \A id \in UsedIds(x) : g.lev[id] # LastLevel + 1
        /\ \A id \in UsedIds(y) : h.lev[id] # LastLevel + 1
    BY <1>0, LevelNat DEF Placed, Levels
  <2> QED BY <2>1 DEF Walked, Reached
<1>2. CASE p.hit = {}  BY <1>2 DEF SameHit
<1>3. CASE p.hit # {}
  <2>1. PICK n \in Valid(x) : Holds(x, g, n, a) /\ p.hit = {<<Level(g, n), x.node[n]>>}
    BY <1>1, <1>3 DEF Walked
  <2>2. /\ n \in Valid(y) /\ SameContent(x.node[n], y.node[n])
        /\ Level(h, n) = Level(g, n) /\ Num(h, n) = Num(g, n)
    BY <2>1 DEF StillHolds
  <2>3. Holds(y, h, n, a)  BY <2>1, <2>2 DEF SameContent, NodeFields, Holds, Lo, Hi
  <2>4. PICK m \in Valid(y) : Holds(y, h, m, a) /\ q.hit = {<<Level(h, m), y.node[m]>>}
    BY <1>1, <2>2, <2>3 DEF Walked
  <2>5. m = n
    <3>1. a \in Nat /\ n # Root /\ m # Root  BY SpanFacts, RootNotValid DEF Addr
    <3>2. /\ Lo(y, h, n) \in Addr /\ Hi(y, h, n) \in Addr /\ Lo(y, h, m) \in Addr /\ Hi(y, h, m) \in Addr
      BY <1>0, <2>2, <3>1, NodeContent
    <3>3. /\ Lo(y, h, n) \in Nat /\ Hi(y, h, n) \in Nat /\ Lo(y, h, m) \in Nat /\ Hi(y, h, m) \in Nat
      BY <3>2, SpanFacts DEF Addr
    <3>4. m # n => Hi(y, h, n) < Lo(y, h, m) \/ Hi(y, h, m) < Lo(y, h, n)
      BY <1>0, <2>2, <3>1 DEF Disjoint
    <3> QED BY <2>3, <2>4, <3>1, <3>3, <3>4 DEF Holds
  <2> QED BY <2>1, <2>2, <2>4, <2>5 DEF SameHit
<1> QED BY <1>2, <1>3

----------------------------------------
(* A new table. *)

\* The first level block of a table is level block 0.
LEMMA FirstLevelBlock ==
    ASSUME NEW x, Blank(x)
    PROVE  LET y == ummu_alloc_level_block(x, Root, -1)
           IN  /\ y.ret = "ok" /\ y.expan = x.expan /\ DOMAIN y = TableFields
               /\ y.bitmap \in [0 .. BITS_TO_LONGS(MAX_LEVEL_ID_SIZE) - 1 -> SUBSET BitsOfWord]
               /\ UsedIds(y) = {0}
               /\ DOMAIN y.block = {0} /\ DOMAIN y.block[0] = {"level_cnt", "entry_cnt"}
               /\ y.block[0].level_cnt = 1 /\ y.block[0].entry_cnt = [k \in 0 .. Per - 1 |-> 0]
               /\ DOMAIN y.node = {Root} \cup NodesOf(0)
               /\ \A m \in NodesOf(0) : y.node[m] = ZeroNode
               /\ y.node[Root] = [ZeroNode EXCEPT !.next = 0, !.next_block = 1]
<1> DEFINE size == MAX_LEVEL_ID_SIZE
           id   == find_first_zero_bit(x.bitmap, size)
           e    == [level_cnt |-> 0, entry_cnt |-> [k \in 0 .. Per - 1 |-> 0]]
           v    == [x EXCEPT !.node[Root].next_block = 0]
           z    == ummu_alloc_new_mapt_block(v, 0)
           y    == ummu_alloc_level_block(x, Root, -1)
<1>0. /\ DOMAIN x = TableFields /\ x.ret = "ok" /\ x.mem = 1
      /\ x.node = [n \in {Root} |-> ZeroNode] /\ x.block = [b \in {} |-> 0]
      /\ x.bitmap = NoBits(size)
  BY DEF Blank
<1>1. size \in Nat \ {0} /\ 0 \in 0 .. size - 1  BY IdFacts
<1>2. IsBitmap(x.bitmap, size) /\ Ones(x.bitmap, size) = {}
  <2>1. IsBitmap(x.bitmap, size)  BY <1>0 DEF NoBits, IsBitmap, Words
  <2>2. \A m \in 0 .. size - 1 : WordOf(m) \in Words(size)  BY <1>1, WordAndBit
  <2> QED BY <1>0, <2>1, <2>2 DEF NoBits, Ones, Words
<1>3. id = 0
  <2>1. LeastFrom(id, (0 .. size - 1) \ Ones(x.bitmap, size), 0, size)
    BY <1>1, <1>2, FirstZeroBit
  <2> HIDE DEF id, size
  <2> QED BY <1>1, <1>2, <2>1 DEF LeastFrom
<1>4. BlockOf(0) = 0  BY BlockAssumption DEF BlockOf
<1>5. v.node = [n \in {Root} |-> ZeroNode] /\ v.block = x.block /\ v.bitmap = x.bitmap
      /\ v.mem = 1 /\ v.ret = "ok" /\ v.expan = x.expan /\ DOMAIN v = TableFields
  <2>1. [ZeroNode EXCEPT !.next_block = 0] = ZeroNode  BY DEF ZeroNode
  <2> QED BY <1>0, <2>1 DEF TableFields
<1> HIDE DEF v, size, id
<1>6. /\ DOMAIN z = TableFields /\ z.bitmap = x.bitmap /\ z.ret = "ok" /\ z.expan = x.expan
      /\ z.node = With(v.node, NodesOf(0), ZeroNode) /\ z.block = With(x.block, {0}, e)
  <2>1. z = [v EXCEPT !.mem = @ - 1, !.node = With(@, NodesOf(0), ZeroNode),
                      !.block = With(@, {0}, e)]
    BY <1>5 DEF ummu_alloc_new_mapt_block
  <2> HIDE DEF e, z
  <2> QED BY <1>5, <2>1 DEF TableFields
<1>7. /\ DOMAIN z.node = {Root} \cup NodesOf(0) /\ z.node[Root] = ZeroNode
      /\ \A m \in NodesOf(0) : z.node[m] = ZeroNode
      /\ DOMAIN z.block = {0} /\ z.block[0] = e
  <2> HIDE DEF e, z
  <2> QED BY <1>0, <1>5, <1>6 DEF With
<1>8. y = [z EXCEPT !.node[Root].next = 0, !.node[Root].next_block = NextBlock(TRUE, -1, 0),
                    !.bitmap = ummu_set_bit(0, z.bitmap), !.block[0].level_cnt = @ + 1]
  <2>1. y = LET b   == BlockOf(id)
                new == b \notin DOMAIN x.block
                w   == IF new THEN ummu_alloc_new_mapt_block(v, b) ELSE v
            IN  IF id >= size THEN Fail(x)
                ELSE IF w.ret # "ok" THEN w
                ELSE [w EXCEPT !.node[Root].next = id,
                               !.node[Root].next_block = NextBlock(new, -1, b),
                               !.bitmap = ummu_set_bit(id, w.bitmap), !.block[b].level_cnt = @ + 1]
    BY Zenon DEF ummu_alloc_level_block, id, v, size
  <2>2. 0 \notin DOMAIN x.block /\ (0 \notin DOMAIN x.block) = TRUE  BY <1>0
  <2>3. ~(0 >= size)  BY <1>1
  <2> HIDE DEF y
  <2> QED BY <1>3, <1>4, <1>6, <2>1, <2>2, <2>3
<1>9. NextBlock(TRUE, -1, 0) = 1  BY DEF NextBlock
<1> HIDE DEF z, y, e
<1>10. /\ DOMAIN y = TableFields /\ y.ret = "ok" /\ y.bitmap = ummu_set_bit(0, x.bitmap)
       /\ y.expan = x.expan
       /\ DOMAIN y.block = {0} /\ y.block[0] = [e EXCEPT !.level_cnt = @ + 1]
       /\ DOMAIN y.node = DOMAIN z.node /\ \A m \in DOMAIN z.node \ {Root} : y.node[m] = z.node[m]
       /\ y.node[Root] = [ZeroNode EXCEPT !.next = 0, !.next_block = 1]
  BY <1>6, <1>7, <1>8, <1>9 DEF TableFields
<1>11. /\ DOMAIN y.block[0] = {"level_cnt", "entry_cnt"}
       /\ y.block[0].level_cnt = 1 /\ y.block[0].entry_cnt = [k \in 0 .. Per - 1 |-> 0]
  BY <1>10 DEF e
<1>12. /\ y.bitmap \in [0 .. BITS_TO_LONGS(MAX_LEVEL_ID_SIZE) - 1 -> SUBSET BitsOfWord]
       /\ UsedIds(y) = {0}
  <2>1. IsBitmap(y.bitmap, size) /\ Ones(y.bitmap, size) = {0}  BY <1>1, <1>2, <1>10, SetBit
  <2> QED BY <2>1 DEF IsBitmap, Words, UsedIds, size
<1>13. Root \notin NodesOf(0)  BY BlockAssumption DEF Root, NodesOf
<1>15. \A m \in NodesOf(0) : y.node[m] = ZeroNode  BY <1>7, <1>10, <1>13
<1> QED BY <1>7, <1>10, <1>11, <1>12, <1>15 DEF y

\* A new table has no content and no error.
LEMMA NewTable ==
    ASSUME NEW x, Blank(x)
    PROVE  LET y == ummu_alloc_level_block(x, Root, -1)
           IN  y.ret = "ok" /\ y.expan = x.expan /\ \E g : Exact(y, g, {})
<1> DEFINE y == ummu_alloc_level_block(x, Root, -1)
           g == [lev |-> [i \in Ids |-> 0], num |-> [i \in Ids |-> 0]]
<1>1. /\ y.ret = "ok" /\ y.expan = x.expan /\ DOMAIN y = TableFields
      /\ y.bitmap \in [0 .. BITS_TO_LONGS(MAX_LEVEL_ID_SIZE) - 1 -> SUBSET BitsOfWord]
      /\ UsedIds(y) = {0}
      /\ DOMAIN y.block = {0} /\ DOMAIN y.block[0] = {"level_cnt", "entry_cnt"}
      /\ y.block[0].level_cnt = 1 /\ y.block[0].entry_cnt = [k \in 0 .. Per - 1 |-> 0]
      /\ DOMAIN y.node = {Root} \cup NodesOf(0)
      /\ \A m \in NodesOf(0) : y.node[m] = ZeroNode
      /\ y.node[Root] = [ZeroNode EXCEPT !.next = 0, !.next_block = 1]
  BY FirstLevelBlock
<1> HIDE DEF y
<1>2. IsNode(ZeroNode) /\ IsNode(y.node[Root]) /\ y.node[Root].next = 0 /\ y.node[Root].valid = 0
  <2>1. y.node[Root] = [valid |-> 0, type |-> 0, next |-> 0, next_block |-> 1,
             base |-> 0, limit |-> 0, attr |-> BadAttr, token_check |-> 0,
             nonce |-> 0, tok0 |-> ZeroToken, tok1 |-> ZeroToken]
    BY <1>1 DEF ZeroNode
  <2> QED BY <2>1, IdFacts DEF ZeroNode, IsNode, NodeFields
<1>3. BlockOf(0) = 0 /\ 0 % Per = 0 /\ 0 \in 0 .. Blocks - 1 /\ 0 \in 0 .. Per - 1
  BY BlockAssumption DEF BlockOf
<1>4. Mapped(y) = {i \in Ids : BlockOf(i) = 0} /\ NodesOf(0) = Mapped(y) \X Index
  <2>1. Mapped(y) = {i \in Ids : BlockOf(i) = 0}  BY <1>1 DEF Mapped
  <2> QED BY <1>3, <2>1, NodesOfBlock
<1>5. \A i \in Mapped(y) : ValidAt(y, i) = {} /\ i % Per \in 0 .. Per - 1 /\ i \in Ids
  <2>1. \A i \in Mapped(y), j \in Index : y.node[<<i, j>>] = ZeroNode  BY <1>1, <1>4
  <2>2. ZeroNode.valid = 0  BY DEF ZeroNode
  <2>3. \A i \in Mapped(y) : i \in Ids  BY DEF Mapped
  <2> QED BY <2>1, <2>2, <2>3, BlockOfFacts DEF ValidAt
<1>6. Valid(y) = {}
  <2>1. 0 \in Mapped(y)  BY <1>3, <1>4, IdFacts
  <2>2. \A i \in Index : y.node[<<0, i>>].valid # 1  BY <1>5, <2>1 DEF ValidAt
  <2> QED BY <1>1, <2>2 DEF Valid
<1>7. Shape(y)
  <2>1. \A b \in DOMAIN y.block : IsBlock(y.block[b])  BY <1>1 DEF IsBlock
  <2>2. \A n \in DOMAIN y.node : IsNode(y.node[n])  BY <1>1, <1>2
  <2> QED BY <1>1, <1>2, <1>4, <2>1, <2>2 DEF Shape
<1>8. Counted(y)
  <2>1. {BlockOf(i) : i \in UsedIds(y)} = {0}  BY <1>1, <1>3
  <2>2. InMapt(UsedIds(y), 0) = {0}  BY <1>1, <1>3 DEF InMapt
  <2>3. Cardinality({0}) = 1 /\ Cardinality({}) = 0  BY FS_Singleton, FS_EmptySet
  <2>4. \A b \in DOMAIN y.block : y.block[b].level_cnt = Cardinality(InMapt(UsedIds(y), b))
    BY <1>1, <2>2, <2>3
  <2>5. \A i \in Mapped(y) :
          /\ y.block[BlockOf(i)].entry_cnt[i % Per] = Cardinality(ValidAt(y, i))
          /\ i \notin UsedIds(y) => ValidAt(y, i) = {}
    <3> SUFFICES ASSUME NEW i \in Mapped(y)
                 PROVE  /\ y.block[BlockOf(i)].entry_cnt[i % Per] = Cardinality(ValidAt(y, i))
                        /\ i \notin UsedIds(y) => ValidAt(y, i) = {}
      OBVIOUS
    <3>1. BlockOf(i) = 0 /\ ValidAt(y, i) = {} /\ i % Per \in 0 .. Per - 1  BY <1>4, <1>5
    <3>2. y.block[0].entry_cnt[i % Per] = 0  BY <1>1, <3>1
    <3> QED BY <2>3, <3>1, <3>2
  <2> QED BY <1>1, <2>1, <2>4, <2>5 DEF Counted
<1>9. Flagged(y)
  <2>1. ZeroNode.valid = 0 /\ ZeroNode.next_block = 0  BY DEF ZeroNode
  <2> QED BY <1>1, <2>1 DEF Flagged
<1>10. Placed(y, g)  BY <1>1, IdFacts, LevelNat DEF Placed
<1>11. Linked(y, g) /\ Filled(y, 0)  BY <1>1, <1>6 DEF Linked, Filled
<1>12. Segments({}) /\ Content(y, g, Root, {}) /\ Disjoint(y, g, Root) /\ First(y, g, Root, {})
       /\ Paid(y, g, Root, {}) /\ \A a : ~Cov(y, g, Root, a)
  BY <1>6 DEF Segments, Content, Disjoint, First, Paid, Cov
<1>13. Exact(y, g, {})  BY <1>7, <1>8, <1>9, <1>10, <1>11, <1>12 DEF Exact, Inv, Sound, Holding
<1> QED BY <1>1, <1>13 DEF y

----------------------------------------
(* The calls. *)

\* A grant, with what is done when it fails half way: the table holds the
\* segment besides the others, or what it held.
LEMMA SegmentGranted ==
    ASSUME level = 0, SwapBelowOK, ClearBelowOK, FillBelowOK,
           NEW x, NEW g, NEW T, Exact(x, g, T), x.ret = "ok", x.node[Root].type = 0,
           x.lvl \in Levels, NEW s, s \notin T, Segments(T \cup {s}), NEW d, Asked(s, d)
    PROVE  LET y == ummu_table_fill_node_by_level(x, d, Root, s.left, s.right)
               z == ummu_table_clear_node_by_level([y EXCEPT !.ret = "ok"], Root, s.left, s.right)
               u == IF y.ret = "ok" THEN y ELSE Fail(z)
           IN  \/ u.ret = "ok" /\ \E h : Undisturbed(x, u, g, h, T \cup {s})
               \/ u.ret # "ok" /\ \E h : Undisturbed(x, u, g, h, T)
<1> DEFINE y == ummu_table_fill_node_by_level(x, d, Root, s.left, s.right)
           z == ummu_table_clear_node_by_level([y EXCEPT !.ret = "ok"], Root, s.left, s.right)
           u == IF y.ret = "ok" THEN y ELSE Fail(z)
<1>1. /\ y.ret = "ok" => \E h : Undisturbed(x, y, g, h, T \cup {s})
      /\ y.ret # "ok" => \E h : Undisturbed(x, z, g, h, T)
  BY SegmentPut
<1> HIDE DEF y, z
<1>2. ASSUME y.ret = "ok" PROVE u.ret = "ok" /\ \E h : Undisturbed(x, u, g, h, T \cup {s})
  <2>1. u = y  BY <1>2
  <2> HIDE DEF u
  <2> QED BY <1>1, <1>2, <2>1
<1>3. ASSUME y.ret # "ok" PROVE u.ret # "ok" /\ \E h : Undisturbed(x, u, g, h, T)
  <2>1. PICK h : Undisturbed(x, z, g, h, T)  BY <1>1, <1>3
  <2>2. DOMAIN z = TableFields  BY <2>1 DEF Undisturbed, Exact, Inv, Sound, Shape
  <2>3. u = [z EXCEPT !.ret = "error"]  BY <1>3 DEF Fail
  <2> HIDE DEF u
  <2>4. Alike(z, u) /\ u.ret = "error"  BY <2>2, <2>3, AlikeRet
  <2>5. Exact(u, h, T) /\ Valid(u) = Valid(z) /\ u.node = z.node
    BY <2>1, <2>4, AlikeInv DEF Exact, Undisturbed, Alike
  <2>6. \A a \in Addr : StillHolds(x, u, g, h, a)  BY <2>1, <2>5 DEF Undisturbed, StillHolds
  <2> QED BY <2>4, <2>5, <2>6 DEF Undisturbed
<1> HIDE DEF u
<1> QED BY <1>2, <1>3 DEF y, z, u

\* The root node is on the stack of a call, and the next call has a new one.
LEMMA StoredExact ==
    ASSUME NEW x, NEW g, NEW T, Exact(x, g, T), NEW z, DOMAIN z = TableFields,
           z.node = With(Without(x.node, {Root}), {Root}, ZeroNode),
           z.bitmap = x.bitmap, z.block = x.block
    PROVE  Exact(z, g, T) /\ z.node[Root] = ZeroNode
<1>1. Root \in DOMAIN x.node  BY DEF Exact, Inv, Sound, Shape
<1>2. /\ DOMAIN z.node = DOMAIN x.node /\ z.node[Root] = ZeroNode
      /\ \A m \in DOMAIN x.node \ {Root} : z.node[m] = x.node[m]
  BY <1>1 DEF With, Without
<1>3. IsNode(ZeroNode) /\ ZeroNode.next = 0 /\ ZeroNode.valid = 0
  BY IdFacts DEF ZeroNode, IsNode, NodeFields
<1>4. SameButRoot(x, z)  BY <1>2, <1>3 DEF SameButRoot
<1> QED BY <1>2, <1>4, RootExact

----------------------------------------
(* The accounting. *)

\* The nodes in use are valid in both or in none.
LEMMA SameValid ==
    ASSUME NEW x, NEW f, HasNodes(x, f), NEW id \in UsedIds(x)
    PROVE  ValidOf(f, id) = ValidAt(x, id)
<1>1. \A i \in Index : f[<<id, i>>] = x.node[<<id, i>>]
  <2> SUFFICES ASSUME NEW i \in Index PROVE f[<<id, i>>] = x.node[<<id, i>>]  OBVIOUS
  <2>1. <<id, i>> \in UsedIds(x) \X Index  OBVIOUS
  <2> QED BY <2>1, Zenon DEF HasNodes
<1> QED BY <1>1 DEF ValidOf, ValidAt

\* From the root level on, following the nodes that have a next level comes to
\* the level blocks in use, one level at a time.
LEMMA LevelByLevel ==
    ASSUME NEW x, NEW g, NEW T, Inv(x, g, Root, 0, T), NEW f, HasNodes(x, f)
    PROVE  /\ UpTo(x, g, 0) = {0}
           /\ \A l \in Nat : l >= LastLevel => UpTo(x, g, l) = UsedIds(x)
           /\ \A l \in Nat : UpTo(x, g, l) \cup Leads(f, UpTo(x, g, l)) = UpTo(x, g, l + 1)
<1>0. /\ Shape(x) /\ Counted(x) /\ Placed(x, g) /\ Linked(x, g)
      /\ g.lev[0] = 0
  BY DEF Inv, Sound, Placed
<1>1. \A id \in UsedIds(x) : g.lev[id] \in Nat /\ g.lev[id] <= LastLevel /\ (g.lev[id] = 0 => id = 0)
  BY <1>0, LevelNat DEF Placed, Levels
<1>2. 0 \in UsedIds(x) /\ LastLevel \in Nat  BY <1>0, LevelNat DEF Counted
<1>3. UpTo(x, g, 0) = {0}  BY <1>0, <1>1, <1>2 DEF UpTo
<1>4. \A l \in Nat : l >= LastLevel => UpTo(x, g, l) = UsedIds(x)  BY <1>1, <1>2 DEF UpTo
<1>5. ASSUME NEW l \in Nat
      PROVE  UpTo(x, g, l) \cup Leads(f, UpTo(x, g, l)) = UpTo(x, g, l + 1)
  <2> DEFINE I == UpTo(x, g, l)
  <2>1. ASSUME NEW id \in Leads(f, I) PROVE id \in UpTo(x, g, l + 1)
    <3>1. PICK n \in I \X Index : f[n].valid = 1 /\ f[n].type = 0 /\ id = f[n].next
      BY <2>1 DEF Leads
    <3>2. n \in UsedIds(x) \X Index /\ g.lev[n[1]] <= l /\ n[1] \in UsedIds(x)  BY <3>1 DEF UpTo
    <3>3. f[n] = x.node[n]  BY <3>2, Zenon DEF HasNodes
    <3>4. n \in Valid(x) /\ x.node[n].type = 0  BY <3>1, <3>2, <3>3 DEF Valid
    <3>5. id \in UsedIds(x) /\ g.lev[id] = g.lev[n[1]] + 1
      BY <1>0, <3>1, <3>3, <3>4 DEF Linked, Level
    <3> QED BY <1>1, <3>2, <3>5 DEF UpTo
  <2>2. ASSUME NEW id \in UpTo(x, g, l + 1), id \notin I PROVE id \in Leads(f, I)
    <3>1. id \in UsedIds(x) /\ g.lev[id] = l + 1 /\ id # 0  BY <1>0, <1>1, <2>2 DEF UpTo
    <3>2. PICK n \in Valid(x) : x.node[n].type = 0 /\ x.node[n].next = id
      BY <1>0, <3>1 DEF Linked
    <3>3. n \in UsedIds(x) \X Index /\ x.node[n].valid = 1  BY <3>2 DEF Valid
    <3>4. g.lev[id] = g.lev[n[1]] + 1 /\ g.lev[n[1]] \in Nat /\ n[1] \in UsedIds(x)
      BY <1>0, <1>1, <3>2, <3>3 DEF Linked, Level
    <3>5. n \in I \X Index  BY <3>1, <3>3, <3>4 DEF UpTo
    <3>6. f[n] = x.node[n]  BY <3>3, Zenon DEF HasNodes
    <3> QED BY <3>2, <3>3, <3>5, <3>6 DEF Leads
  <2>3. \A id \in I : id \in UpTo(x, g, l + 1)  BY <1>1 DEF UpTo
  <2> QED BY <2>1, <2>2, <2>3
<1> QED BY <1>3, <1>4, <1>5

\* One node leads to a level block other than the root level.
LEMMA OneParent ==
    ASSUME NEW x, NEW g, NEW T, Inv(x, g, Root, 0, T), NEW f, HasNodes(x, f),
           NEW id \in UsedIds(x), id # 0
    PROVE  Cardinality(ParentsOf(f, UsedIds(x), id)) = 1
<1>0. Shape(x) /\ Counted(x) /\ Placed(x, g) /\ Linked(x, g)  BY DEF Inv, Sound
<1>1. PICK n \in Valid(x) : x.node[n].type = 0 /\ x.node[n].next = id  BY <1>0 DEF Linked
<1>2. n \in UsedIds(x) \X Index /\ x.node[n].valid = 1  BY <1>1 DEF Valid
<1>3. ASSUME NEW m \in UsedIds(x) \X Index, x.node[m].valid = 1, x.node[m].type = 0,
             x.node[m].next = id
      PROVE  m = n
  <2>1. m \in Valid(x)  BY <1>3 DEF Valid
  <2>2. /\ g.lev[id] = Level(g, m) + 1 /\ g.num[id] = Num(g, m)
        /\ g.lev[id] = Level(g, n) + 1 /\ g.num[id] = Num(g, n)
    BY <1>0, <1>1, <1>3, <2>1 DEF Linked
  <2>3. Level(g, m) \in Nat /\ Level(g, n) \in Nat  BY <1>0, <1>2, <1>3, NodePlace, LevelNat
  <2>4. Level(g, m) = Level(g, n) /\ Num(g, m) = Num(g, n)  BY <2>2, <2>3
  <2> QED BY <1>0, <1>2, <1>3, <2>4, SamePlace
<1>4. ParentsOf(f, UsedIds(x), id) = {n}
  <2>1. \A m \in UsedIds(x) \X Index : f[m] = x.node[m]  BY Zenon DEF HasNodes
  <2>2. ASSUME NEW m PROVE m \in ParentsOf(f, UsedIds(x), id) <=> m = n
    <3>1. ASSUME m \in UsedIds(x) \X Index PROVE f[m] = x.node[m]  BY <2>1, <3>1, Zenon
    <3> QED BY <1>1, <1>2, <1>3, <3>1 DEF ParentsOf
  <2> QED BY <2>2
<1> QED BY <1>4, FS_Singleton

\* The counters that decide when to free are right, and so is the flag that
\* tells the device where the next level is.
LEMMA Accounted ==
    ASSUME NEW x, NEW g, NEW T, Inv(x, g, Root, 0, T), NEW f, HasNodes(x, f)
    PROVE  /\ \A id \in UsedIds(x) :
                /\ x.block[BlockOf(id)].entry_cnt[id % Per] = Cardinality(ValidOf(f, id))
                /\ id # 0 => /\ ValidOf(f, id) # {}
                             /\ Cardinality(ParentsOf(f, UsedIds(x), id)) = 1
           /\ DOMAIN x.block = {BlockOf(id) : id \in UsedIds(x)}
           /\ \A b \in DOMAIN x.block :
                x.block[b].level_cnt = Cardinality(InMapt(UsedIds(x), b))
           /\ \A id \in UsedIds(x) : \A i \in ValidOf(f, id) :
                f[<<id, i>>].next_block =
                    IF f[<<id, i>>].type = 0 /\ BlockOf(f[<<id, i>>].next) # BlockOf(id)
                    THEN 1 ELSE 0
<1>0. Shape(x) /\ Counted(x) /\ Placed(x, g) /\ Linked(x, g) /\ Filled(x, 0) /\ Flagged(x)
  BY DEF Inv, Sound
<1>1. UsedIds(x) \subseteq Mapped(x)  BY <1>0, UsedFacts
<1>2. ASSUME NEW id \in UsedIds(x)
      PROVE  /\ x.block[BlockOf(id)].entry_cnt[id % Per] = Cardinality(ValidOf(f, id))
             /\ id # 0 => ValidOf(f, id) # {}
  <2>1. ValidOf(f, id) = ValidAt(x, id)  BY SameValid
  <2> QED BY <1>0, <1>1, <2>1 DEF Counted, Filled
<1>3. ASSUME NEW id \in UsedIds(x), NEW i \in ValidOf(f, id)
      PROVE  f[<<id, i>>].next_block =
                 IF f[<<id, i>>].type = 0 /\ BlockOf(f[<<id, i>>].next) # BlockOf(id)
                 THEN 1 ELSE 0
  <2> DEFINE n == <<id, i>>
  <2>1. n \in UsedIds(x) \X Index /\ f[n].valid = 1 /\ n[1] = id  BY DEF ValidOf
  <2>2. f[n] = x.node[n]  BY <2>1, Zenon DEF HasNodes
  <2>3. n \in DOMAIN x.node \ {Root}
    <3>1. n \in DOMAIN x.node  BY <1>0, <1>1, <2>1 DEF Shape
    <3>2. n \in Valid(x)  BY <2>1, <2>2 DEF Valid
    <3> QED BY <3>1, <3>2, RootNotValid
  <2>4. f[n].next_block =
           IF f[n].valid = 1 /\ f[n].type = 0 /\ BlockOf(f[n].next) # BlockOf(n[1])
           THEN 1 ELSE 0
    BY <1>0, <2>2, <2>3 DEF Flagged
  <2> QED BY <2>1, <2>4
<1> QED BY <1>0, <1>2, <1>3, OneParent DEF Counted

----------------------------------------
(* From level to level. *)

BelowOK == SwapBelowOK /\ ClearBelowOK /\ FillBelowOK /\ UpdateBelowOK

\* The promises of this level, as the level above assumes them.
SwapOK == \A x, g, n, T :
    SwapPre(x, g, n, T, level) => SwapPost(x, ummu_swap_next_level_node(x, n), g, n, T, level)
ClearOK == \A x, g, s, pre, id, lo, hi, aLo, aHi, m, T :
    ClearPre(x, g, s, pre, id, aLo, aHi, m, T, level) /\ Offsets(g, id, lo, hi, aLo, aHi) =>
        ClearPost(x, ummu_table_clear_node_by_level(x, pre, lo, hi), g, s, pre, aLo, aHi, m, T, level)
FillOK == \A x, g, s, d, pre, id, lo, hi, aLo, aHi, T :
    FillAt(x, g, s, d, pre, id, aLo, aLo, aHi, T, level) /\ Offsets(g, id, lo, hi, aLo, aHi) =>
        FillPost(x, ummu_table_fill_node_by_level(x, d, pre, lo, hi), g, s, aLo, aHi, T, level)
UpdateOK == \A x, y, g, s, d, op, pre, id, lo, hi, aLo, aHi, T :
    UpdatePre(x, y, g, s, d, op, pre, id, aLo, aHi, T, level) /\ Offsets(g, id, lo, hi, aLo, aHi) =>
        UpdatePost(x, ummu_table_update_token_by_level(y, d, op, pre, lo, hi), g, s, d, op, aHi)
LevelOK == SwapOK /\ ClearOK /\ FillOK /\ UpdateOK

\* A level keeps its promises if the level below does.
LEMMA LevelKeeps == ASSUME level \in Nat, BelowOK PROVE LevelOK
<1>0. SwapBelowOK /\ ClearBelowOK /\ FillBelowOK /\ UpdateBelowOK  BY DEF BelowOK
<1>1. SwapOK  BY <1>0, SwapCorrect DEF SwapOK
<1>2. ClearOK  BY <1>0, ClearCorrect DEF ClearOK
<1>3. FillOK  BY <1>0, FillCorrect DEF FillOK
<1>4. UpdateOK  BY <1>0, UpdateCorrect DEF UpdateOK
<1> QED BY <1>1, <1>2, <1>3, <1>4 DEF LevelOK

\* A walk comes to level blocks in use, which are at one of the levels.
LEMMA WayToLevel ==
    ASSUME NEW x, NEW g, NEW e, Sound(x, g, e), NEW pre, NEW id, LeadsTo(x, pre, id)
    PROVE  g.lev[id] \in Levels
<1>0. Shape(x) /\ Counted(x) /\ Placed(x, g) /\ Linked(x, g)  BY DEF Sound
<1>1. id \in UsedIds(x)
  <2>1. CASE pre = Root  BY <1>0, <2>1 DEF LeadsTo, Shape, Counted
  <2>2. CASE pre \in Valid(x) /\ x.node[pre].type = 0  BY <1>0, <2>2 DEF LeadsTo, Linked
  <2> QED BY <2>1, <2>2 DEF LeadsTo
<1> QED BY <1>0, <1>1 DEF Placed

\* No walk goes below the last level.
LEMMA NothingBelow == ASSUME level \in Nat, level >= LastLevel PROVE BelowOK
<1> DEFINE b == level + 1
<1>0. b \notin Levels  BY LevelNat DEF Levels
<1> HIDE DEF b
<1>1. ASSUME NEW x, NEW g, NEW n, NEW T, SwapPre(x, g, n, T, b) PROVE FALSE
  <2>1. /\ Sound(x, g, 0) /\ Shape(x) /\ Counted(x) /\ Placed(x, g)
        /\ n \in Valid(x) /\ Level(g, n) = b
    BY <1>1 DEF SwapPre, Inv, Sound
  <2>2. n \in UsedIds(x) \X Index  BY <2>1 DEF Valid
  <2> QED BY <1>0, <2>1, <2>2, NodePlace
<1>2. ASSUME NEW x, NEW g, NEW e, NEW j, NEW T, Inv(x, g, j, e, T), NEW pre, NEW id,
             LeadsTo(x, pre, id), g.lev[id] = b
      PROVE  FALSE
  <2>1. Sound(x, g, e)  BY <1>2 DEF Inv
  <2> QED BY <1>0, <1>2, <2>1, WayToLevel
<1>3. SwapBelowOK  BY <1>1 DEF SwapBelowOK, b
<1>4. ASSUME NEW x, NEW g, NEW s, NEW pre, NEW id, NEW aLo, NEW aHi, NEW m, NEW T,
             ClearPre(x, g, s, pre, id, aLo, aHi, m, T, b)
      PROVE  FALSE
  BY <1>2, <1>4 DEF ClearPre
<1>5. ASSUME NEW x, NEW g, NEW s, NEW d, NEW pre, NEW id, NEW q, NEW aLo, NEW aHi, NEW T,
             FillAt(x, g, s, d, pre, id, q, aLo, aHi, T, b)
      PROVE  FALSE
  BY <1>2, <1>5 DEF FillAt
<1>6. ASSUME NEW x, NEW y, NEW g, NEW s, NEW d, NEW op, NEW pre, NEW id, NEW aLo, NEW aHi, NEW T,
             UpdatePre(x, y, g, s, d, op, pre, id, aLo, aHi, T, b)
      PROVE  FALSE
  BY <1>2, <1>6 DEF UpdatePre, TokenWalk
<1>7. ClearBelowOK  BY <1>4 DEF ClearBelowOK, b
<1>8. FillBelowOK  BY <1>5 DEF FillBelowOK, b
<1>9. UpdateBelowOK  BY <1>6 DEF UpdateBelowOK, b
<1> QED BY <1>3, <1>7, <1>8, <1>9 DEF BelowOK

----------------------------------------
(* The end of a table. *)

\* The blocks that are freed are found through their first level block: those
\* whose first level block is not in use are left.
LEMMA BlocksLeft ==
    ASSUME NEW x, NEW g, NEW T, Exact(x, g, T)
    PROVE  LET ids   == FOR_EACH_SET_BIT(x.bitmap, MAX_LEVEL_ID_SIZE)
               freed == {BlockOf(id) : id \in {i \in ids : i % Per = 0}}
           IN  /\ DOMAIN x.block \ freed = {b \in DOMAIN x.block : Per * b \notin UsedIds(x)}
               /\ Per = 1 => DOMAIN x.block \ freed = {}
<1> DEFINE ids   == FOR_EACH_SET_BIT(x.bitmap, MAX_LEVEL_ID_SIZE)
           freed == {BlockOf(id) : id \in {i \in ids : i % Per = 0}}
<1>0. Shape(x) /\ Counted(x)  BY DEF Exact, Inv, Sound
<1>1. ids = UsedIds(x)
  <2>1. IsBitmap(x.bitmap, MAX_LEVEL_ID_SIZE) /\ MAX_LEVEL_ID_SIZE \in Nat
    BY <1>0, IdFacts DEF Shape, IsBitmap, Words
  <2> QED BY <2>1, EveryBitVisited DEF UsedIds
<1> HIDE DEF ids
<1>2. \A id \in UsedIds(x) : id \in Nat /\ BlockOf(id) \in Nat
                             /\ id = Per * BlockOf(id) + (id % Per) /\ id % Per \in Nat
  <2> SUFFICES ASSUME NEW id \in UsedIds(x)
               PROVE  id \in Nat /\ BlockOf(id) \in Nat
                      /\ id = Per * BlockOf(id) + (id % Per) /\ id % Per \in Nat
    OBVIOUS
  <2>1. id \in Nat
    <3>1. UsedIds(x) \subseteq Ids  BY <1>0, UsedFacts
    <3> QED BY <3>1, IdFacts
  <2>2. Per \in Nat \ {0} /\ Per > 0  BY BlockAssumption
  <2>3. id = Per * (id \div Per) + (id % Per)  BY <2>1, <2>2, Remainder
  <2>4. id \div Per \in Nat /\ id % Per \in Nat  BY <2>1, <2>2
  <2> QED BY <2>1, <2>3, <2>4 DEF BlockOf
<1>3. DOMAIN x.block = {BlockOf(id) : id \in UsedIds(x)}  BY <1>0 DEF Counted
<1>4. ASSUME NEW b \in DOMAIN x.block PROVE b \in freed <=> Per * b \in UsedIds(x)
  <2>1. b \in Nat /\ Per \in Nat \ {0}  BY <1>2, <1>3, BlockAssumption
  <2>2. ASSUME b \in freed PROVE Per * b \in UsedIds(x)
    <3>1. PICK i \in UsedIds(x) : i % Per = 0 /\ b = BlockOf(i)  BY <1>1, <2>2
    <3>2. i = Per * b + 0 /\ Per * b \in Nat  BY <1>2, <2>1, <3>1
    <3> QED BY <3>1, <3>2
  <2>3. ASSUME Per * b \in UsedIds(x) PROVE b \in freed
    <3> DEFINE i == Per * b
    <3>1. b * Per <= i /\ i < b * Per + Per /\ i \in Nat /\ i = b * Per  BY <2>1
    <3> HIDE DEF i
    <3>2. BlockOf(i) = b  BY <2>1, <3>1, Quotient DEF BlockOf
    <3>3. i % Per = 0
      <4>1. i = Per * b + (i % Per) /\ i % Per \in Nat  BY <1>2, <2>3, <3>2 DEF i
      <4>2. Per * b \in Nat /\ i = Per * b  BY <2>1 DEF i
      <4> QED BY <4>1, <4>2
    <3>4. i \in UsedIds(x)  BY <2>3 DEF i
    <3> QED BY <1>1, <3>2, <3>3, <3>4
  <2> QED BY <2>2, <2>3
<1>5. ASSUME Per = 1, NEW b \in DOMAIN x.block PROVE Per * b \in UsedIds(x)
  <2>1. PICK id \in UsedIds(x) : b = BlockOf(id)  BY <1>3
  <2>2. id \in Nat /\ b = id \div Per  BY <1>2, <2>1 DEF BlockOf
  <2>3. b = id /\ Per * b = b  BY <1>5, <2>2
  <2> QED BY <2>1, <2>3
<1> HIDE DEF freed
<1>6. DOMAIN x.block \ freed = {b \in DOMAIN x.block : Per * b \notin UsedIds(x)}  BY <1>4
<1>7. Per = 1 => DOMAIN x.block \ freed = {}  BY <1>4, <1>5
<1> QED BY <1>6, <1>7 DEF freed, ids
==============================================================================

-------------------------------- MODULE Bitmap --------------------------------
(***************************************************************************)
(* Bitmaps as arrays of machine words, and the searches in them            *)
(* (ummu_common.c, ummu_common.h).  MaptTable keeps its level block ids in *)
(* one.                                                                    *)
(*                                                                         *)
(* A word is the set of its bits that are 1.  A loop over words that stops *)
(* at the first one with some property is the least index of such a word.  *)
(***************************************************************************)
EXTENDS Naturals, FiniteSetsExt

CONSTANT BITS_PER_LONG

ASSUME BitmapAssumption == BITS_PER_LONG \in Nat \ {0}

BitsOfWord == 0 .. BITS_PER_LONG - 1
BITS_TO_LONGS(cnt) == (cnt + BITS_PER_LONG - 1) \div BITS_PER_LONG
WordOf(nr) == nr \div BITS_PER_LONG
BitOf(nr)  == nr % BITS_PER_LONG

NoBits(size) == [i \in 0 .. BITS_TO_LONGS(size) - 1 |-> {}]
ummu_set_bit(nr, array)   == [array EXCEPT ![WordOf(nr)] = @ \cup {BitOf(nr)}]
ummu_clear_bit(nr, array) == [array EXCEPT ![WordOf(nr)] = @ \ {BitOf(nr)}]

Complement(word) == BitsOfWord \ word
ffz(word) == Min(Complement(word))

\* The position of the least bit of the first word from k on that has one;
\* size if there is none.
FirstFrom(array, size, k) ==
    LET found == {i \in k .. BITS_TO_LONGS(size) - 1 : array[i] # {}}
        i     == Min(found)
    IN  IF found = {} THEN size ELSE i * BITS_PER_LONG + ffz(Complement(array[i]))

find_first_zero_bit(array, size) ==
    FirstFrom([i \in DOMAIN array |-> Complement(array[i])], size, 0)

find_first_bit(array, size) == FirstFrom(array, size, 0)

FindNextSkipsWord(array, size, offset) ==
    LET i   == WordOf(offset)
        tmp == {b \in array[i] : b >= BitOf(offset)}
    IN  IF offset >= size THEN size
        ELSE IF tmp # {} THEN i * BITS_PER_LONG + ffz(Complement(tmp))
        ELSE FirstFrom(array, size, i + 2)
\* The bits of the first word below the offset are masked.
find_next_bit(array, size, offset) ==
    LET i   == WordOf(offset)
        tmp == {b \in array[i] : b >= BitOf(offset)}
    IN  IF offset >= size THEN size
        ELSE IF tmp # {} THEN i * BITS_PER_LONG + ffz(Complement(tmp))
        ELSE FirstFrom(array, size, i + 1)

\* One pass of the loop: its body runs for y.bit.
VisitBit(y, c, k) ==
    IF y.bit >= c.size THEN y
    ELSE [bit  |-> find_next_bit(c.array, c.size, y.bit + 1),
          seen |-> y.seen \cup {y.bit}]
Visit == INSTANCE Iteration WITH Step <- VisitBit

\* The bits for which the body of the loop runs; size passes are enough.
FOR_EACH_SET_BIT(array, size) ==
    Visit!Iterate([bit |-> find_first_bit(array, size), seen |-> {}],
                  [array |-> array, size |-> size], size).seen

\* The bits below size that are 1.
Ones(array, size) == {nr \in 0 .. size - 1 : BitOf(nr) \in array[WordOf(nr)]}
===============================================================================

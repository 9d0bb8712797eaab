------------------------------- MODULE Bitmap -------------------------------
(***************************************************************************)
(* The bitmap of mem/bitmap.c: a number of bits in an array of bytes.  A   *)
(* byte is the set of its bits that are set.  size_t has WordSize values.  *)
(***************************************************************************)
EXTENDS Integers, FiniteSets

CONSTANTS
  Sizes,       \* the sizes for which a bitmap is created
  WordSize     \* 2^64

ASSUME BitmapAssumption ==
  WordSize \in Nat /\ \A s \in Sizes : s \in Nat \ {0} /\ 2 * s + 2 < WordSize

VARIABLES bits, size    \* bitmap_t; before bitmap_init the size is 0

bitmapVars == <<bits, size>>

BitmapStart == size = 0 /\ bits = <<>>

\* bitmap_init clears the bytes that hold s bits.
BitmapBytes(s) == [b \in 0 .. (s + 7) \div 8 - 1 |-> {}]

\* bitmap_create_from_memory gives the number of pages; nothing happens for 0.
BitmapCreate(s) ==
  /\ size = 0 /\ s # 0
  /\ size' = s
  /\ bits' = BitmapBytes(s)

\* Variant: indices are not compared with the size.
BitmapSetAny(i) ==
  /\ size # 0 /\ i \div 8 \in DOMAIN bits
  /\ bits' = [bits EXCEPT ![i \div 8] = @ \cup {i % 8}]
  /\ UNCHANGED size

bitmap_set(i) ==
  /\ size # 0 /\ i < size
  /\ bits' = [bits EXCEPT ![i \div 8] = @ \cup {i % 8}]
  /\ UNCHANGED size

bitmap_clear(i) ==
  /\ size # 0 /\ i < size
  /\ bits' = [bits EXCEPT ![i \div 8] = @ \ {i % 8}]
  /\ UNCHANGED size

\* Beyond the end every bit reads as free.
bitmap_test(i) == i < size /\ i % 8 \in bits[i \div 8]

NotFound == -1
First(s) == IF s = {} THEN NotFound ELSE CHOOSE i \in s : \A j \in s : i <= j

bitmap_find_first_free == First({i \in 0 .. size - 1 : ~bitmap_test(i)})

\* Variant: the last place where the run fits is left out.
FitsNot(count, i) ==
  i < (size - count) % WordSize /\ \A j \in 0 .. count - 1 : ~bitmap_test(i + j)

\* The two loops: places i up to size - count, which wraps when count > size.
Fits(count, i) ==
  i <= (size - count) % WordSize /\ \A j \in 0 .. count - 1 : ~bitmap_test(i + j)
bitmap_find_contiguous_free(count) == First({i \in 0 .. size : Fits(count, i)})

BitmapNext ==
  \/ \E s \in Sizes : BitmapCreate(s)
  \/ \E i \in 0 .. size + 1 : bitmap_set(i) \/ bitmap_clear(i)

BitmapSpec == BitmapStart /\ [][BitmapNext]_bitmapVars

-----------------------------------------------------------------------------
\* The searches against the set of free pages.  A run that fits lies inside the
\* bitmap and is the first one; a request larger than the bitmap, for which the
\* subtraction wraps, is not refused but gets the free end, which may be empty.
BitmapSearches ==
  LET used == {i \in 0 .. 8 * Cardinality(DOMAIN bits) - 1 : i % 8 \in bits[i \div 8]}
      free == (0 .. size - 1) \ used
      run(i, n) == i .. i + n - 1 \subseteq free
  IN size # 0 =>
       /\ used \subseteq 0 .. size - 1
       /\ bitmap_find_first_free = First(free)
       /\ \A n \in 0 .. size : bitmap_find_contiguous_free(n) = First({i \in 0 .. size - n : run(i, n)})
       /\ \A n \in size + 1 .. size + 2 :
            LET i == bitmap_find_contiguous_free(n)
            IN i .. size - 1 \subseteq free /\ (i = 0 \/ i - 1 \in used)
=============================================================================

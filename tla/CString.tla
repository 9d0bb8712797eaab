------------------------------ MODULE CString ------------------------------
(***************************************************************************)
(* The string functions of mem/string.c on a small memory of bytes, where  *)
(* 0 ends a string.  Every caller's memory and every call with arguments   *)
(* inside that memory is one behaviour: the functions that write as steps, *)
(* their loops byte by byte, the others as what they return.  char is      *)
(* unsigned, as on AArch64.  NULL is -1, other pointers are addresses.     *)
(***************************************************************************)
EXTENDS Integers, Sequences

CONSTANTS MemSize, Bytes

ASSUME CStringAssumption == MemSize \in Nat \ {0} /\ Bytes \subseteq Nat /\ 0 \in Bytes

Addrs == 0 .. MemSize - 1
NullPtr == -1
PastEnd == -2

VARIABLES
  mem,
  call      \* auxiliary: the call that was made, and the memory before it

stringVars == <<mem, call>>

NoCall == [fn |-> "none"]

StringInit == mem \in [Addrs -> Bytes] /\ call = NoCall

\* The byte range from a, n long, lies in the memory.
Fits8(a, n) == a + n <= MemSize
Disjoint(a, b, n) == a + n <= b \/ b + n <= a

-----------------------------------------------------------------------------
(* The functions that return something *)

\* A string starts at a.
IsString(a) == \E b \in a .. MemSize - 1 : mem[b] = 0

\* The loop to the terminator; a loop that leaves the memory ends at PastEnd.
StrEnd(m, a) ==
  LET from[b \in a .. MemSize] ==
        IF b = MemSize THEN PastEnd ELSE IF m[b] = 0 THEN b ELSE from[b + 1]
  IN from[a]

strlen(a) == StrEnd(mem, a) - a

strncmp(a, b, n) ==
  LET from[i \in 0 .. n] ==
        IF i = n THEN 0
        ELSE IF mem[a + i] # mem[b + i] \/ mem[a + i] = 0 THEN mem[a + i] - mem[b + i]
        ELSE from[i + 1]
  IN from[0]

\* The limit SIZE_MAX is not reached.
strcmp(a, b) == strncmp(a, b, MemSize + 1)

strchr(a, c) ==
  LET from[b \in a .. MemSize] ==
        IF b = MemSize THEN PastEnd
        ELSE IF mem[b] = c THEN b ELSE IF mem[b] = 0 THEN NullPtr ELSE from[b + 1]
  IN from[a]

memcmp(a, b, n) ==
  LET from[i \in 0 .. n] ==
        IF i = n THEN 0
        ELSE IF mem[a + i] # mem[b + i] THEN mem[a + i] - mem[b + i] ELSE from[i + 1]
  IN from[0]

memchr(a, c, n) ==
  LET from[i \in 0 .. n] ==
        IF i = n THEN NullPtr ELSE IF mem[a + i] = c THEN a + i ELSE from[i + 1]
  IN from[0]

strstr(a, b) ==
  LET l1 == strlen(a)
      l2 == strlen(b)
      from[i \in 0 .. l1 + 1] ==
        IF l1 - i < l2 THEN NullPtr
        ELSE IF memcmp(a + i, b, l2) = 0 THEN a + i ELSE from[i + 1]
  IN IF l2 = 0 THEN a ELSE from[0]

-----------------------------------------------------------------------------
(* The functions that write *)

\* The memory after n passes of "*d++ = *s++" and of "*--d = *--s".
CopyUp(m, d, s, n) ==
  LET pass[i \in 0 .. n] ==
        IF i = 0 THEN m ELSE [pass[i - 1] EXCEPT ![d + i - 1] = pass[i - 1][s + i - 1]]
  IN pass[n]
CopyDown(m, d, s, n) ==
  LET pass[i \in 0 .. n] ==
        IF i = 0 THEN m ELSE [pass[i - 1] EXCEPT ![d + n - i] = pass[i - 1][s + n - i]]
  IN pass[n]

Called(f, d, s, n) == call' = [fn |-> f, d |-> d, s |-> s, n |-> n, before |-> mem]

\* The standard allows memcpy no overlap; the callers here have none.
memcpy(d, s, n) ==
  /\ Fits8(d, n) /\ Fits8(s, n) /\ Disjoint(d, s, n)
  /\ mem' = CopyUp(mem, d, s, n)
  /\ Called("copy", d, s, n)

\* Variant: the two directions are exchanged.
MemmoveCrossed(d, s, n) ==
  /\ Fits8(d, n) /\ Fits8(s, n)
  /\ mem' = IF d > s THEN CopyUp(mem, d, s, n) ELSE CopyDown(mem, d, s, n)
  /\ Called("copy", d, s, n)

memmove(d, s, n) ==
  /\ Fits8(d, n) /\ Fits8(s, n)
  /\ mem' = IF d <= s THEN CopyUp(mem, d, s, n) ELSE CopyDown(mem, d, s, n)
  /\ Called("copy", d, s, n)

memset(d, c, n) ==
  /\ Fits8(d, n)
  /\ mem' = [a \in Addrs |-> IF a \in d .. d + n - 1 THEN c ELSE mem[a]]
  /\ Called("set", d, c, n)

\* strcat appends to the string at d, strcpy makes that empty first.  The
\* result, with its terminator, fits and does not touch the source, so that the
\* copy ends with the terminator that the source had before.
Appended(m, d, s) == CopyUp(m, StrEnd(m, d), s, StrEnd(m, s) - s + 1)

strcat(d, s) ==
  /\ IsString(d) /\ IsString(s)
  /\ Fits8(d, strlen(d) + strlen(s) + 1)
  /\ d + strlen(d) + strlen(s) < s \/ s + strlen(s) < d
  /\ mem' = Appended(mem, d, s)
  /\ Called("append", d, s, 0)

strcpy(d, s) ==
  /\ IsString(s)
  /\ Fits8(d, strlen(s) + 1) /\ Disjoint(d, s, strlen(s) + 1)
  /\ mem' = Appended([mem EXCEPT ![d] = 0], d, s)
  /\ Called("copy", d, s, strlen(s) + 1)

StringNext ==
  /\ call = NoCall
  /\ \/ \E d, s \in Addrs, n \in 0 .. MemSize : memcpy(d, s, n) \/ memmove(d, s, n)
     \/ \E d \in Addrs, c \in Bytes, n \in 0 .. MemSize : memset(d, c, n)
     \/ \E d, s \in Addrs : strcat(d, s) \/ strcpy(d, s)

StringSpec == StringInit /\ [][StringNext]_stringVars

-----------------------------------------------------------------------------
(* Properties *)

\* The string at a, as a sequence.
Str(m, a) ==
  LET l == CHOOSE l \in 0 .. MemSize : m[a + l] = 0 /\ \A k \in 0 .. l - 1 : m[a + k] # 0
  IN [i \in 1 .. l |-> m[a + i - 1]]

\* Copies, whatever overlap memmove is given, deliver the bytes that were there
\* before the call and change no other; memset and strcat likewise.
StringWrites ==
  call # NoCall =>
    LET was == call.before
        inside(a, n) == a \in call.d .. call.d + n - 1
        joined == Str(was, call.d) \o Str(was, call.s)
    IN \A a \in Addrs : mem[a] =
         CASE call.fn = "copy" /\ inside(a, call.n) -> was[call.s + (a - call.d)]
           [] call.fn = "set" /\ inside(a, call.n) -> call.s
           [] call.fn = "append" /\ inside(a, Len(joined)) -> joined[a - call.d + 1]
           [] call.fn = "append" /\ a = call.d + Len(joined) -> 0
           [] OTHER -> was[a]

Sign(x) == IF x < 0 THEN -1 ELSE IF x = 0 THEN 0 ELSE 1

\* The order of two sequences, the terminator counting as the smallest byte.
Order(s, t) ==
  LET at(x, i) == IF i <= Len(x) THEN x[i] ELSE 0
      differ == {i \in 1 .. Len(s) + Len(t) + 1 : at(s, i) # at(t, i)}
      i == CHOOSE i \in differ : \A j \in differ : i <= j
  IN IF differ = {} THEN 0 ELSE Sign(at(s, i) - at(t, i))

Least(s) == IF s = {} THEN NullPtr ELSE CHOOSE i \in s : \A j \in s : i <= j

\* The other functions agree with the strings they look at, and read nothing
\* behind the terminator of a string or the end of the memory.
StringReads ==
  \A a \in Addrs :
    /\ \A n \in 0 .. MemSize - a, c \in Bytes :
         memchr(a, c, n) = Least({b \in a .. a + n - 1 : mem[b] = c})
    /\ IsString(a) =>
         /\ strlen(a) = Len(Str(mem, a))
         /\ \A c \in Bytes : strchr(a, c) = Least({b \in a .. a + strlen(a) : mem[b] = c})
         /\ \A b \in Addrs : IsString(b) =>
              /\ Sign(strcmp(a, b)) = Order(Str(mem, a), Str(mem, b))
              /\ \A n \in 0 .. MemSize :
                   LET cut(s) == SubSeq(s, 1, IF n < Len(s) THEN n ELSE Len(s))
                   IN Sign(strncmp(a, b, n)) = Order(cut(Str(mem, a)), cut(Str(mem, b)))
              /\ strstr(a, b) =
                   Least({p \in a .. a + strlen(a) - strlen(b) :
                            \A i \in 0 .. strlen(b) - 1 : mem[p + i] = mem[b + i]})

\* Both: what string.c writes and what it reads.
StringsAgree == StringWrites /\ StringReads
=============================================================================

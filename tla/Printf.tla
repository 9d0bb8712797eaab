------------------------------- MODULE Printf -------------------------------
(***************************************************************************)
(* vsnprintf of io/printf.c and what it calls.  One step per pass of its   *)
(* loop or of "morefmt", over the characters of the format; the argument   *)
(* of a conversion is taken from a small set.  A character is a string of  *)
(* length one, the terminator is End.                                      *)
(*                                                                         *)
(* A long has LongBits bits and a uint32_t UintBits.  The digits of the    *)
(* smallest long come from in front of the table; Junk stands for them.    *)
(***************************************************************************)
EXTENDS Integers, Sequences

CONSTANTS
  Chars,                    \* the characters
  Formats,                  \* sequences of characters
  BufSizes,                 \* size, at least 1: the callers pass BUFSZ
  LongBits, UintBits,
  Ints, Unsigneds, Strings  \* arguments

DigitChars == <<"0", "1", "2", "3", "4", "5", "6", "7", "8", "9">>
digits == DigitChars \o <<"a", "b", "c", "d", "e", "f">>
Blank == " "
Junk == "?"

ASSUME PrintfAssumption ==
  /\ {Junk, Blank, "-", "x", "A"} \subseteq Chars /\ \A i \in 1 .. 16 : digits[i] \in Chars
  /\ Formats \subseteq Seq(Chars) /\ Strings \subseteq Seq(Chars)
  /\ LongBits \in Nat \ {0} /\ UintBits \in Nat \ {0} /\ 2^UintBits > 0
  /\ 2^(UintBits - 1) < 2^(LongBits - 1)      \* an int is shorter than a long
  /\ BufSizes \subseteq Nat \ {0}
  /\ Ints \subseteq -(2^(LongBits - 1)) .. 2^(LongBits - 1) - 1
  /\ Unsigneds \subseteq 0 .. 2^LongBits - 1

End == "\\0"
IsDigit(c) == \E i \in 1 .. 10 : DigitChars[i] = c
DigitValue(c) == (CHOOSE i \in 1 .. 10 : DigitChars[i] = c) - 1

VARIABLES
  fmt, bufSize,       \* the parameters
  at,                 \* the cursor in fmt: at = Len(fmt) + 1 is its terminator
  place,              \* "text", "morefmt", "done"
  pad, npad, alternate, nlong,
  buffer, remain, added,    \* pstream_t; buffer is what was stored so far
  all,                \* auxiliary: every character given to addchar
  args                \* auxiliary: the arguments taken

printfVars == <<fmt, bufSize, at, place, pad, npad, alternate, nlong, buffer, remain, added, all, args>>
props == <<pad, npad, alternate, nlong>>

PrintfInit ==
  /\ fmt \in Formats /\ bufSize \in BufSizes
  /\ at = 1 /\ place = "text"
  /\ pad = Blank /\ npad = 0 /\ alternate = FALSE /\ nlong = 0
  /\ buffer = <<>> /\ remain = bufSize - 1 /\ added = 0
  /\ all = <<>> /\ args = <<>>

CharAt(i) == IF i = Len(fmt) + 1 THEN End ELSE fmt[i]

-----------------------------------------------------------------------------
(* Output *)

Repeat(c, n) == [i \in 1 .. n |-> c]     \* empty for n <= 0

\* Variant: the place of the terminator is not kept free.
AddAllFull(s) ==
  LET fit == IF Len(s) <= remain + 1 THEN Len(s) ELSE remain + 1 IN
  /\ buffer' = buffer \o SubSeq(s, 1, fit)
  /\ remain' = remain - fit
  /\ added' = added + Len(s)
  /\ all' = all \o s

\* addchar for each character of s.
AddAll(s) ==
  LET fit == IF Len(s) <= remain THEN Len(s) ELSE remain IN
  /\ buffer' = buffer \o SubSeq(s, 1, fit)
  /\ remain' = remain - fit
  /\ added' = added + Len(s)
  /\ all' = all \o s

\* print_str: padding in front for a positive width, behind for a negative one.
print_str(s, padding, width) ==
  IF width > 0 THEN Repeat(padding, width - Len(s)) \o s
  ELSE s \o Repeat(Blank, -(width + Len(s)))

\* The digits of n, most significant first; none for 0.
Digits(n, base) ==
  LET from[m \in 0 .. n] == IF m = 0 THEN <<>> ELSE Append(from[m \div base], digits[(m % base) + 1])
  IN from[n]

OrZero(s) == IF s = <<>> THEN <<"0">> ELSE s

MinLong == -(2^(LongBits - 1))
Magnitude(n) == IF n < 0 THEN -n ELSE n

print_int(n, base) ==
  LET ds == Digits(Magnitude(n), base)
      shown == IF n = MinLong THEN Repeat(Junk, Len(ds)) ELSE ds
  IN OrZero(IF n < 0 THEN <<"-">> \o shown ELSE shown)

\* Variant: the prefix does not count for the width.
PrintUnsignedWide(n, base, alt) ==
  LET ds == Digits(n % 2^UintBits, base)
      prefixed == alt /\ base = 16 /\ ds # <<>>
  IN IF prefixed /\ pad = "0" THEN <<"0", "x">> \o print_str(ds, pad, npad)
     ELSE print_str(OrZero(IF prefixed THEN <<"0", "x">> \o ds ELSE ds), pad, npad)

\* print_unsigned, whose parameter is a uint32_t.  Between "0x" and the digits
\* come the zeros, and the two characters count for the width.
print_unsigned(n, base, alt) ==
  LET ds == Digits(n % 2^UintBits, base)
      prefixed == alt /\ base = 16 /\ ds # <<>>
      rest == IF npad > 2 THEN npad - 2 ELSE 0
  IN IF prefixed /\ pad = "0"
     THEN <<"0", "x">> \o print_str(ds, pad, IF npad > 0 THEN rest ELSE npad)
     ELSE print_str(OrZero(IF prefixed THEN <<"0", "x">> \o ds ELSE ds), pad, npad)

-----------------------------------------------------------------------------
(* fmtnum: the number at i, and how far it moves the cursor *)

\* Where the digits from i on end, and these digits.
DigitsEnd(i) ==
  LET from[j \in i .. Len(fmt) + 1] == IF IsDigit(CharAt(j)) THEN from[j + 1] ELSE j
  IN from[i]
DigitsFrom(i) == SubSeq(fmt, i, DigitsEnd(i) - 1)

Signed(i) == CharAt(i) = "-"

\* atol, on a text without blanks and without "+".
atol(i) ==
  LET ds == DigitsFrom(IF Signed(i) THEN i + 1 ELSE i)
      value[k \in 0 .. Len(ds)] == IF k = 0 THEN 0 ELSE 10 * value[k - 1] + DigitValue(ds[k])
  IN IF Signed(i) THEN -value[Len(ds)] ELSE value[Len(ds)]

NumberLength(i) ==
  IF Signed(i) THEN 1 + Len(DigitsFrom(i + 1)) ELSE Len(DigitsFrom(i))

-----------------------------------------------------------------------------
(* The loop of vsnprintf *)

\* An ordinary character.
Text ==
  /\ place = "text" /\ CharAt(at) \notin {End, "%"}
  /\ AddAll(<<CharAt(at)>>)
  /\ at' = at + 1
  /\ UNCHANGED <<fmt, bufSize, place, props, args>>

StartSpec ==
  /\ place = "text" /\ CharAt(at) = "%"
  /\ at' = at + 1 /\ place' = "morefmt"
  /\ pad' = Blank /\ npad' = 0 /\ alternate' = FALSE /\ nlong' = 0
  /\ UNCHANGED <<fmt, bufSize, buffer, remain, added, all, args>>

Finish ==
  /\ place = "text" /\ CharAt(at) = End
  /\ place' = "done"
  /\ UNCHANGED <<fmt, bufSize, at, props, buffer, remain, added, all, args>>

More(c) == place = "morefmt" /\ CharAt(at) = c

\* "#", "l", "t" and "z" only leave a mark.
Modifier ==
  /\ \/ More("#") /\ alternate' = TRUE /\ UNCHANGED nlong
     \/ More("l") /\ nlong' = nlong + 1 /\ UNCHANGED alternate
     \/ (More("t") \/ More("z")) /\ nlong' = 1 /\ UNCHANGED alternate
  /\ at' = at + 1
  /\ UNCHANGED <<fmt, bufSize, place, pad, npad, buffer, remain, added, all, args>>

\* Variant: after "0" the cursor is moved back like after the other digits.
WidthBack ==
  LET start == at
      zero == CharAt(at) = "0"
  IN /\ place = "morefmt" /\ (IsDigit(CharAt(at)) \/ CharAt(at) = "-")
     /\ pad' = IF zero THEN "0" ELSE pad
     /\ npad' = atol(start)
     /\ at' = IF zero THEN at + 2 ELSE start + NumberLength(start)
     /\ UNCHANGED <<fmt, bufSize, place, alternate, nlong, buffer, remain, added, all, args>>

\* A width.  Behind "0" fmtnum starts at the next character, which may be the
\* terminator; otherwise the character just read is part of the number.
Width ==
  LET zero == CharAt(at) = "0"
      start == IF zero THEN at + 1 ELSE at
  IN /\ place = "morefmt" /\ (IsDigit(CharAt(at)) \/ CharAt(at) = "-")
     /\ pad' = IF zero THEN "0" ELSE pad
     /\ npad' = atol(start)
     /\ at' = start + NumberLength(start)
     /\ UNCHANGED <<fmt, bufSize, place, alternate, nlong, buffer, remain, added, all, args>>

\* A conversion that prints s for the argument a.
Convert(s, a) ==
  /\ AddAll(s)
  /\ args' = Append(args, a)
  /\ at' = at + 1 /\ place' = "text"
  /\ UNCHANGED <<fmt, bufSize, props>>

\* The callers pass what the conversion names: a long only behind "l".
IsInt(n) == n \in -(2^(UintBits - 1)) .. 2^(UintBits - 1) - 1
IsUnsigned(n) == n < 2^UintBits

ConvertInt(n) ==
  /\ More("d") /\ (nlong = 0 => IsInt(n))
  /\ Convert(print_str(print_int(n, 10), pad, npad), n)

\* Behind "l" the upper half of the argument is not taken.
ConvertUnsigned(n) ==
  /\ nlong = 0 => IsUnsigned(n)
  /\ \/ More("u") /\ Convert(print_unsigned(n, 10, alternate), n)
     \/ More("x") /\ Convert(print_unsigned(n, 16, alternate), n)

\* n is what the pointer points at.
ConvertPointer(n) ==
  /\ More("p") /\ IsUnsigned(n)
  /\ Convert(print_unsigned(n, 16, TRUE), n)

ConvertString(s) == More("s") /\ Convert(print_str(s, pad, npad), s)

\* "c" takes an argument; "%" and every other character print themselves.
Literal ==
  LET c == CharAt(at) IN
  /\ place = "morefmt"
  /\ c \notin {End, "#", "l", "t", "z", "-", "d", "u", "x", "p", "s"} /\ ~IsDigit(c)
  /\ IF c = "c" THEN Convert(<<"A">>, "A")
     ELSE /\ AddAll(<<c>>)
          /\ at' = at + 1 /\ place' = "text"
          /\ UNCHANGED <<fmt, bufSize, props, args>>

\* The format ends inside a conversion: the cursor goes back to the terminator.
Truncated ==
  /\ More(End)
  /\ place' = "text"
  /\ UNCHANGED <<fmt, bufSize, at, props, buffer, remain, added, all, args>>

PrintfNext ==
  \/ Text \/ StartSpec \/ Finish \/ Modifier \/ Width \/ Literal \/ Truncated
  \/ \E n \in Ints : ConvertInt(n)
  \/ \E n \in Unsigneds : ConvertUnsigned(n) \/ ConvertPointer(n)
  \/ \E s \in Strings : ConvertString(s)

PrintfSpec == PrintfInit /\ [][PrintfNext]_printfVars

-----------------------------------------------------------------------------
(* Properties *)

IsPrefixOf(s, t) == Len(s) <= Len(t) /\ SubSeq(t, 1, Len(s)) = s

\* The cursor never leaves the format, also where the code moves it back and
\* forth; what is stored, with the terminator behind it, never leaves the
\* buffer, and is the beginning of the whole output; the result counts all.
PrintfInBounds ==
  /\ at <= Len(fmt) + 1
  /\ Len(buffer) < bufSize
  /\ IsPrefixOf(buffer, all) /\ (Len(buffer) < bufSize - 1 => buffer = all)
  /\ added = Len(all)

\* The numeral of n: as many digits as it needs, each by its weight, which is a
\* power of the base.
Numeral(n, base) ==
  LET weight[i \in 0 .. n + 1] == IF i = 0 THEN 1 ELSE base * weight[i - 1]
      len == CHOOSE l \in 1 .. n + 1 : n < weight[l] /\ (l = 1 \/ n >= weight[l - 1])
  IN [i \in 1 .. len |-> digits[((n \div weight[len - i]) % base) + 1]]

\* What the C library prints for one conversion with a width w: the part in
\* front of padding zeros, the part behind them, and all of it.
CSign(conv, alt, a) ==
  IF conv = "d" /\ a < 0 THEN <<"-">>
  ELSE IF conv = "x" /\ alt /\ a # 0 THEN <<"0", "x">> ELSE <<>>
CBody(conv, a) ==
  CASE conv = "d" -> Numeral(Magnitude(a), 10)
    [] conv = "x" -> Numeral(a, 16)
    [] conv = "s" -> a
CText(sign, body, zero, left, w) ==
  LET fill == w - Len(sign \o body)
  IN IF left THEN sign \o body \o Repeat(Blank, fill)
     ELSE IF zero THEN sign \o Repeat("0", fill) \o body
     ELSE Repeat(Blank, fill) \o sign \o body

\* One conversion, its flags in the order "#", "0", "-".
OneConversion(alt, zero, left, w, conv) ==
  <<"%">> \o (IF alt THEN <<"#">> ELSE <<>>) \o (IF zero THEN <<"0">> ELSE <<>>)
    \o (IF left THEN <<"-">> ELSE <<>>) \o <<DigitChars[w + 1], conv>>

\* One conversion prints what the C library prints, but for two cases: zeros
\* come in front of a minus sign, and "#0-" pads to a width that is too large
\* by the two characters of "0x".
PrintfLikeC ==
  \A alt, zero, left \in BOOLEAN, w \in 1 .. 9, conv \in {"d", "x", "s"} :
    /\ place = "done" /\ fmt = OneConversion(alt, zero, left, w, conv)
    /\ conv = "s" => ~zero
    /\ conv = "d" => ~(args[1] < 0 /\ zero /\ ~left)
    /\ conv = "x" => ~(alt /\ zero /\ left)
    => all = CText(CSign(conv, alt, args[1]), CBody(conv, args[1]), zero, left, w)
=============================================================================

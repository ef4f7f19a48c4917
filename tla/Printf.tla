------------------------------- MODULE Printf -------------------------------
(***************************************************************************)
(* vsnprintf and its relatives (printf.c), as the kernel is built: without *)
(* floating point and without long long.  A call reads its format and its  *)
(* arguments from left to right and passes characters to an output         *)
(* function; numbers go through a buffer of PRINTF_NTOA_BUFFER_SIZE.       *)
(*                                                                         *)
(* A character is a string; an argument is a number or a text.  The widths *)
(* of the integer types are parameters; int and long have the same.        *)
(***************************************************************************)
EXTENDS Integers, Sequences, SequencesExt, FiniteSetsExt

CONSTANTS
  LongBits, ShortBits, CharBits,
  NtoaSize,   \* PRINTF_NTOA_BUFFER_SIZE
  PtrDigits,  \* sizeof(void*) * 2
  MemSize,    \* bound: the memory around the caller's buffer
  Calls       \* the calls that are looked at, see Call

ASSUME PrintfAssumption ==
  /\ {LongBits, ShortBits, CharBits, NtoaSize, PtrDigits, MemSize} \subseteq Nat \ {0}
  /\ NtoaSize >= LongBits
  /\ \A c \in Calls : c.maxlen \in 0 .. MemSize

NUL == "NUL"
Untouched == "?"
Some(c, n) == [i \in 1 .. n |-> c]

VARIABLES
  call,  \* the call: sink, maxlen, format, args, and the directives of the format
  at,    \* the position in the format
  arg,   \* the position in the arguments
  idx,   \* how many characters were output
  mem,   \* the buffer and what lies behind it
  sent,  \* what the output function of fctprintf was given
  ret    \* what the call returned, or -1

pvars == <<call, at, arg, idx, mem, sent, ret>>

-----------------------------------------------------------------------------
(* Numbers.  A number's characters are collected in reverse, as in buf.     *)

DigitChar(n, upper) ==
  (IF upper THEN <<"0","1","2","3","4","5","6","7","8","9","A","B","C","D","E","F">>
            ELSE <<"0","1","2","3","4","5","6","7","8","9","a","b","c","d","e","f">>)[n + 1]

Reversed(value, base, upper) ==
  LET digits[v \in Nat] ==
        <<DigitChar(v % base, upper)>> \o IF v < base THEN <<>> ELSE digits[v \div base]
  IN  digits[value]

\* buf[len++] = c, and zeros up to n characters, as far as there is room.
Room(buf, c)  == IF Len(buf) < NtoaSize THEN Append(buf, c) ELSE buf
Zeros(buf, n) == buf \o Some("0", Max({0, Min({n, NtoaSize}) - Len(buf)}))

\* The prefix of the # flag.  Two digits that were padded make room for it; the
\* test cannot tell them from the number's own.
Hash(buf, base, prec, width, flags) ==
  LET drop == IF "PRECISION" \in flags \/ Len(buf) \notin {prec, width} THEN 0
              ELSE Min({Len(buf), IF base = 16 THEN 2 ELSE 1})
      cut  == SubSeq(buf, 1, Len(buf) - drop)
      mark == CASE base = 16 -> Room(cut, IF "UPPERCASE" \in flags THEN "X" ELSE "x")
                [] base = 2  -> Room(cut, "b")
                [] OTHER     -> cut
  IN  Room(mark, "0")

\* A number that is padded with zeros leaves room for its sign.
DigitsWidth(negative, width, flags) ==
  IF {"LEFT", "ZEROPAD"} \cap flags = {"ZEROPAD"} /\ width > 0
     /\ (negative \/ {"PLUS", "SPACE"} \cap flags # {})
  THEN width - 1 ELSE width

\* _ntoa_format: what it outputs.
NtoaFormat(digits, negative, base, prec, wide, flags) ==
  LET width  == DigitsWidth(negative, wide, flags)
      padded == IF "LEFT" \in flags THEN digits
                ELSE Zeros(Zeros(digits, prec), IF "ZEROPAD" \in flags THEN width ELSE 0)
      hashed == IF "HASH" \in flags THEN Hash(padded, base, prec, width, flags) ELSE padded
      signed == CASE negative          -> Room(hashed, "-")
                  [] "PLUS" \in flags  -> Room(hashed, "+")
                  [] "SPACE" \in flags -> Room(hashed, " ")
                  [] OTHER             -> hashed
      spaces == Some(" ", Max({0, width - Len(signed)}))
  IN  CASE "LEFT" \in flags    -> Reverse(signed) \o spaces
        [] "ZEROPAD" \in flags -> Reverse(signed)
        [] OTHER               -> spaces \o Reverse(signed)

\* _ntoa_long: no # for 0, and no digits for 0 with a precision.
NtoaLong(value, negative, base, prec, width, flags) ==
  LET digits == IF "PRECISION" \in flags /\ value = 0 THEN <<>>
                ELSE LET r == Reversed(value, base, "UPPERCASE" \in flags)
                     IN  SubSeq(r, 1, Min({Len(r), NtoaSize}))
  IN  NtoaFormat(digits, negative, base, prec, width,
                 IF value = 0 THEN flags \ {"HASH"} ELSE flags)

-----------------------------------------------------------------------------
(* A directive is read in a state of the parser: the format f, the position *)
(* at in it, the position arg in the arguments a, and what was read so far. *)

Char(s) == IF s.at > Len(s.f) THEN NUL ELSE s.f[s.at]

FlagOf == [c \in {"0", "-", "+", " ", "#"} |->
             CASE c = "0" -> "ZEROPAD" [] c = "-" -> "LEFT" [] c = "+" -> "PLUS"
               [] c = " " -> "SPACE"   [] c = "#" -> "HASH"]
Digit  == {DigitChar(n, FALSE) : n \in 0 .. 9}
Value(c) == CHOOSE n \in 0 .. 9 : DigitChar(n, FALSE) = c

\* Where a run of characters of C that begins at s.at ends.
After(s, C) == Min({p \in s.at .. Len(s.f) + 1 : p > Len(s.f) \/ s.f[p] \notin C})

ReadFlags(s) ==
  LET end == After(s, DOMAIN FlagOf)
  IN  [s EXCEPT !.flags = {FlagOf[s.f[p]] : p \in s.at .. end - 1}, !.at = end]

\* _atoi
Atoi(s) == FoldLeft(LAMBDA n, c : (n * 10 + Value(c)) % 2^LongBits, 0,
                    SubSeq(s.f, s.at, After(s, Digit) - 1))

\* A negative width is the flag - and its absolute value.
ReadWidth(s) ==
  IF Char(s) \in Digit THEN [s EXCEPT !.width = Atoi(s), !.at = After(s, Digit)]
  ELSE IF Char(s) = "*"
  THEN LET w == s.a[s.arg] IN
       [s EXCEPT !.width = IF w < 0 THEN -w ELSE w, !.arg = @ + 1, !.at = @ + 1,
                 !.flags = IF w < 0 THEN @ \cup {"LEFT"} ELSE @]
  ELSE s

ReadPrecision(s) ==
  IF Char(s) # "." THEN s
  ELSE LET t == [s EXCEPT !.flags = @ \cup {"PRECISION"}, !.at = @ + 1] IN
       IF Char(t) \in Digit THEN [t EXCEPT !.prec = Atoi(t), !.at = After(t, Digit)]
       ELSE IF Char(t) = "*"
       THEN [t EXCEPT !.prec = Max({0, t.a[t.arg]}), !.arg = @ + 1, !.at = @ + 1]
       ELSE t

\* h, hh, l, ll, and the types of the size of a long.
ReadLength(s) ==
  LET c == Char(s)
      twice == s.at < Len(s.f) /\ s.f[s.at + 1] = c
      set(F, n) == [s EXCEPT !.flags = @ \cup F, !.at = @ + n]
  IN  CASE c = "l" -> IF twice THEN set({"LONG", "LONG_LONG"}, 2) ELSE set({"LONG"}, 1)
        [] c = "h" -> IF twice THEN set({"SHORT", "CHAR"}, 2) ELSE set({"SHORT"}, 1)
        [] c \in {"t", "z"} -> set({"LONG"}, 1)
        [] c = "j" -> set({"LONG_LONG"}, 1)
        [] OTHER   -> s

Read(f, a, p, n) ==
  ReadLength(ReadPrecision(ReadWidth(ReadFlags(
    [f |-> f, a |-> a, at |-> p, arg |-> n, flags |-> {}, width |-> 0, prec |-> 0]))))

Signed(v, bits)   == ((v + 2^(bits - 1)) % 2^bits) - 2^(bits - 1)
Unsigned(v, bits) == v % 2^bits
Bits(flags) == CASE "LONG" \in flags -> LongBits [] "CHAR" \in flags -> CharBits
                 [] "SHORT" \in flags -> ShortBits [] OTHER -> LongBits

Base(c) == CASE c \in {"x", "X"} -> 16 [] c = "o" -> 8 [] c = "b" -> 2 [] OTHER -> 10
Integers7 == {"d", "i", "u", "x", "X", "o", "b"}

\* The specifiers d, i, u, x, X, o and b.  A long long is neither taken from the
\* arguments nor printed.
ConvertInteger(s) ==
  LET c      == Char(s)
      signed == c \in {"d", "i"}
      flags  == (s.flags \cup (IF c = "X" THEN {"UPPERCASE"} ELSE {}))
                  \ ((IF Base(c) = 10 THEN {"HASH"} ELSE {})
                     \cup (IF signed THEN {} ELSE {"PLUS", "SPACE"})
                     \cup (IF "PRECISION" \in s.flags THEN {"ZEROPAD"} ELSE {}))
      v      == IF signed THEN Signed(s.a[s.arg], Bits(flags)) ELSE Unsigned(s.a[s.arg], Bits(flags))
  IN  IF "LONG_LONG" \in flags THEN [text |-> <<>>, arg |-> s.arg]
      ELSE [text |-> NtoaLong(IF v > 0 THEN v ELSE -v, v < 0, Base(c), s.prec, s.width, flags),
            arg  |-> s.arg + 1]

\* Spaces before or after.
Pad(text, length, s) ==
  LET spaces == Some(" ", Max({0, s.width - length}))
  IN  IF "LEFT" \in s.flags THEN text \o spaces ELSE spaces \o text

\* mutant: the width is counted from the whole text, the precision cuts later.
ConvertStringWide(s) ==
  LET p == s.a[s.arg]
  IN  [text |-> Pad(IF "PRECISION" \in s.flags THEN SubSeq(p, 1, Min({Len(p), s.prec})) ELSE p,
                    Len(p), s),
       arg  |-> s.arg + 1]

\* The specifier s, with _strnlen_s.
ConvertString(s) ==
  LET p == s.a[s.arg]
      l == IF "PRECISION" \in s.flags THEN Min({Len(p), s.prec}) ELSE Len(p)
  IN  [text |-> Pad(SubSeq(p, 1, l), l, s), arg |-> s.arg + 1]

\* What a directive outputs, and where it leaves the arguments.
Convert(s) ==
  LET c == Char(s) IN
  CASE c \in Integers7 -> ConvertInteger(s)
    [] c = "s"         -> ConvertString(s)
    [] c = "c"         -> [text |-> Pad(<<s.a[s.arg]>>, 1, s), arg |-> s.arg + 1]
    [] c = "p"         -> [text |-> NtoaLong(Unsigned(s.a[s.arg], LongBits), FALSE, 16, s.prec, PtrDigits,
                                             s.flags \cup {"ZEROPAD", "UPPERCASE"}),
                           arg  |-> s.arg + 1]
    [] OTHER           -> [text |-> <<c>>, arg |-> s.arg]

-----------------------------------------------------------------------------
\* mutant: the last place of the buffer is not kept.
InBufferOrBehind(i) == i <= call.maxlen

InBuffer(i) == i < call.maxlen

\* out, for each character of a text: _out_buffer drops what does not fit,
\* _out_fct drops NUL, _out_null and _out_char drop everything.
Output(text) ==
  /\ idx' = idx + Len(text)
  /\ mem' = IF call.sink = "buffer"
            THEN [i \in DOMAIN mem |-> IF i \in idx .. idx' - 1 /\ InBuffer(i) THEN text[i - idx + 1] ELSE mem[i]]
            ELSE mem
  /\ sent' = IF call.sink = "function" THEN sent \o SelectSeq(text, LAMBDA c : c # NUL) ELSE sent

PrintfInit ==
  /\ call \in Calls
  /\ at = 1 /\ arg = 1 /\ idx = 0
  /\ mem = [i \in 0 .. MemSize |-> Untouched]
  /\ sent = <<>>
  /\ ret = -1

Running == ret = -1 /\ at <= Len(call.format)

Literal ==
  /\ Running /\ call.format[at] # "%"
  /\ Output(<<call.format[at]>>)
  /\ at' = at + 1
  /\ UNCHANGED <<call, arg, ret>>

Directive ==
  /\ Running /\ call.format[at] = "%"
  /\ LET s == Read(call.format, call.args, at + 1, arg)
         r == Convert(s)
     IN  Output(r.text) /\ at' = s.at + 1 /\ arg' = r.arg
  /\ UNCHANGED <<call, ret>>

\* The NUL goes behind the text, or to the last place of the buffer; then the
\* call returns.
Finish ==
  /\ ret = -1 /\ at > Len(call.format)
  /\ LET last == IF InBuffer(idx) THEN idx ELSE call.maxlen - 1
     IN  mem' = IF call.sink = "buffer" /\ last >= 0 THEN [mem EXCEPT ![last] = NUL] ELSE mem
  /\ ret' = idx
  /\ UNCHANGED <<call, at, arg, idx, sent>>

PrintfNext == Literal \/ Directive \/ Finish
PrintfSpec == PrintfInit /\ [][PrintfNext]_pvars

-----------------------------------------------------------------------------
(* What the directives promise, as C describes them, without the code's      *)
(* buffer and its order of steps.  A directive is a record: the characters   *)
(* of its flags, its width and precision, each -1 when not given and less    *)
(* when * takes it from a negative argument (-1 is left out there), its      *)
(* length, its specifier and its argument; or one of a plain character.      *)

\* The k digits of a number, the first one first.
Numeral(v, base, upper) ==
  LET k == Min({n \in 1 .. LongBits : base^n > v})
  IN  [i \in 1 .. k |-> DigitChar((v \div base^(k - i)) % base, upper)]

BitsOf(d)   == CASE d.length = "hh" -> CharBits [] d.length = "h" -> ShortBits [] OTHER -> LongBits
IsSigned(d) == d.spec \in {"d", "i"}
Left(d)     == "-" \in d.flags \/ d.width < -1
Wide(d)     == IF d.width < -1 THEN -d.width ELSE Max({0, d.width})
Number(d)   == IF IsSigned(d) THEN Signed(d.value, BitsOf(d)) ELSE Unsigned(d.value, BitsOf(d))

Digits(d) ==
  LET v == Number(d)
  IN  IF v = 0 /\ d.prec >= 0 THEN <<>> ELSE Numeral(IF v < 0 THEN -v ELSE v, Base(d.spec), d.spec = "X")

\* What stands before the digits: a sign, or the mark of the base.
Mark(d) ==
  CASE IsSigned(d) /\ Number(d) < 0     -> <<"-">>
    [] IsSigned(d) /\ "+" \in d.flags    -> <<"+">>
    [] IsSigned(d) /\ " " \in d.flags    -> <<" ">>
    [] ~IsSigned(d) /\ "#" \in d.flags /\ Number(d) # 0 ->
         (CASE d.spec = "o" -> <<"0">>      [] d.spec = "b" -> <<"0", "b">>
            [] d.spec = "u" -> <<>>         [] OTHER        -> <<"0", d.spec>>)
    [] OTHER -> <<>>

\* Zeros between the mark and the digits: up to the precision, or to the width.
Filled(d) ==
  LET fill == Max({0, IF d.prec >= 0 THEN d.prec - Len(Digits(d))
                      ELSE IF "0" \in d.flags /\ ~Left(d) THEN Wide(d) - Len(Mark(d)) - Len(Digits(d))
                      ELSE 0})
  IN  Mark(d) \o Some("0", fill) \o Digits(d)

PromisedOf(d) ==
  LET body == CASE d.spec \in Integers7 -> Filled(d)
                [] d.spec = "s" -> IF d.prec >= 0 /\ d.prec < Len(d.value) THEN SubSeq(d.value, 1, d.prec)
                                   ELSE d.value
                [] d.spec = "c" -> <<d.value>>
                [] d.spec = "p" -> LET n == Numeral(Unsigned(d.value, LongBits), 16, TRUE)
                                   IN  Some("0", Max({0, PtrDigits - Len(n)})) \o n
                [] OTHER        -> <<d.spec>>
      gap  == IF d.spec \in Integers7 \cup {"s", "c"} THEN Some(" ", Max({0, Wide(d) - Len(body)}))
              ELSE <<>>
  IN  IF Left(d) THEN body \o gap ELSE gap \o body

Promised == FlattenSeq([i \in DOMAIN call.dirs |-> PromisedOf(call.dirs[i])])

\* Where this printf is known to differ: a negative precision through *, which C
\* takes as if there were none and printf.c:514-515 as 0, when that is not the same;
\* a precision with the flag -; a # with a width that the digits fill, or almost, or
\* with a width of zeros in base 2, or with a precision in base 8; numbers that with
\* all that belongs to them are longer than the buffer; other flags than the width's
\* with %p; and long long.
Regular(d) ==
  LET n == Len(Digits(d)) IN
  /\ d.length \notin {"ll", "j"}
  /\ d.spec = "p" => d.flags = {} /\ d.prec = -1
  /\ d.spec = "s" => d.prec >= -1 \/ d.value = <<>>
  /\ d.spec \in Integers7 =>
       /\ d.prec >= -1 \/ (Number(d) # 0 /\ ("0" \in d.flags => Left(d)))
       /\ Left(d) => d.prec <= n
       /\ Len(Filled(d)) <= NtoaSize
       /\ Mark(d) # <<>> /\ ~IsSigned(d) =>
            \/ d.prec >= 0 /\ (d.spec = "o" => d.prec <= n)
            \/ d.prec < 0 /\ Wide(d) # n
               /\ ("0" \in d.flags /\ ~Left(d) =>
                    CASE d.spec = "o" -> TRUE [] d.spec = "b" -> Wide(d) < n + 2
                      [] OTHER -> Wide(d) # n + 1)

Kept == \A i \in DOMAIN call.dirs : Regular(call.dirs[i])

\* Nothing is written behind the maxlen characters of a buffer.
NothingBehind == \A i \in 0 .. MemSize : i >= call.maxlen => mem[i] = Untouched

\* A buffer gets the beginning of what the directives promise, as much as fits,
\* with a NUL behind it, and nothing is ever written past its maxlen characters,
\* in an odd call either; an output function gets all of it.  The lengths, the
\* arguments that * takes and the padding of one directive decide where the next
\* one reads and writes (printf.c:108, 451-715).
StringIsPrefix ==
  LET n == Min({IF Kept THEN Len(Promised) ELSE idx, call.maxlen - 1}) IN
  /\ NothingBehind
  /\ ret >= 0 /\ call.sink = "buffer" /\ call.maxlen > 0 =>
       /\ mem[n] = NUL
       /\ Kept => \A i \in 1 .. n : mem[i - 1] = Promised[i]
  /\ ret >= 0 /\ call.sink = "function" /\ Kept => sent = SelectSeq(Promised, LAMBDA c : c # NUL)

\* What a call returns is the length of all it was to print, wherever it prints
\* it and however little of it fits, in a call to no buffer at all as well: by it
\* a caller can tell that a text was cut (printf.c:718).
ReturnsFullLength == ret >= 0 /\ Kept => ret = Len(Promised)

\* printf.h:79: "If the formatted string is truncated the buffer size (count) is
\* returned".
TruncationReturnsCount ==
  ret >= 0 /\ call.sink = "buffer" /\ call.maxlen \in 1 .. idx => ret = call.maxlen

=============================================================================

------------------------------ MODULE MCPrintf ------------------------------
(* Calls for TLC: formats of one directive with all its parts, and of several. *)
EXTENDS Printf

\* A directive written as format and arguments.
Numeric(n) == IF n < 0 THEN <<"-">> \o Numeral(-n, 10, FALSE) ELSE Numeral(n, 10, FALSE)
InOrder(flags) == SelectSeq(<<"-", "+", " ", "#", "0">>, LAMBDA c : c \in flags)

Part(given, star, n) == IF ~given THEN <<>> ELSE IF star THEN <<"*">> ELSE Numeric(n)

LengthOf == [l \in {"", "hh", "h", "l", "ll", "j", "z", "t"} |->
  CASE l = "" -> <<>> [] l = "hh" -> <<"h", "h">> [] l = "ll" -> <<"l", "l">> [] OTHER -> <<l>>]

FormatOf(d) ==
  IF d.plain THEN <<d.spec>>
  ELSE <<"%">> \o InOrder(d.flags) \o Part(d.width # -1, d.star, d.width)
       \o (IF d.prec = -1 THEN <<>> ELSE <<".">>) \o Part(d.prec # -1, d.star, d.prec)
       \o LengthOf[d.length] \o <<d.spec>>

ArgsOf(d) ==
  LET stars == IF ~d.star THEN <<>>
               ELSE (IF d.width # -1 THEN <<d.width>> ELSE <<>>)
                    \o (IF d.prec # -1 THEN <<d.prec>> ELSE <<>>)
  IN  IF d.spec \in Integers7 \cup {"s", "c", "p"} /\ ~d.plain THEN Append(stars, d.value) ELSE stars

CallOf(sink, maxlen, dirs) ==
  [sink |-> sink, maxlen |-> maxlen, dirs |-> dirs,
   format |-> FlattenSeq([i \in DOMAIN dirs |-> FormatOf(dirs[i])]),
   args   |-> FlattenSeq([i \in DOMAIN dirs |-> ArgsOf(dirs[i])])]

Dir(flags, width, prec, star, length, spec, value) ==
  [plain |-> FALSE, flags |-> flags, width |-> width, prec |-> prec, star |-> star,
   length |-> length, spec |-> spec, value |-> value]
Plain(c) == [Dir({}, -1, -1, FALSE, "", c, 0) EXCEPT !.plain = TRUE]

Integral ==
  {Dir(f, w, p, FALSE, l, c, v) :
     f \in SUBSET {"-", "+", " ", "#", "0"}, w \in {-1, 3, 5}, p \in {-1, 0, 3},
     l \in {"", "hh"}, c \in {"d", "u", "x", "o", "b"}, v \in {0, 13, -3}}
Starred ==
  {Dir(f, w, p, TRUE, l, c, v) :
     f \in SUBSET {"-", "0"}, w \in {-4, 4}, p \in {-2, -1, 0, 3},
     l \in {"", "h", "l", "ll", "j", "z", "t"}, c \in {"i", "X"}, v \in {0, 26}}
Textual ==
  {Dir(f, w, p, s, "", "s", v) :
     f \in {{}, {"-"}}, w \in {-1, 1, 4}, p \in {-1, 0, 1, 3}, s \in BOOLEAN,
     v \in {<<>>, <<"p", "q">>, <<"p", "q", "r", "s">>}}
  \cup {Dir(f, 4, -2, TRUE, "", "s", v) : f \in {{}, {"-"}}, v \in {<<>>, <<"p", "q">>}}
  \cup {Dir(f, w, -1, FALSE, "", "c", v) : f \in {{}, {"-"}}, w \in {-1, 1, 3}, v \in {"p", NUL}}
Others == {Dir({}, -1, -1, FALSE, "", "p", v) : v \in {0, 30, -1}} \cup {Dir({}, -1, -1, FALSE, "", "%", 0)}

\* Directives that are followed by others, which read where they stopped.  The
\* argument of a long long stays where it is, so none follows it.
Firsts == {d \in Textual : d.width # 1} \cup Others
          \cup {d \in Starred : d.length \in {"", "z"} /\ d.prec # 0}
Seconds ==
  {Dir({"0"}, 3, -1, FALSE, "", "x", 13), Dir({"-"}, -1, 2, FALSE, "", "s", <<"p", "q", "r">>),
   Dir({"+"}, -4, -1, TRUE, "hh", "d", 5)}

AllCalls ==
       {CallOf("buffer", MemSize, <<d>>) : d \in Integral \cup Starred \cup Textual \cup Others}
  \cup {CallOf("buffer", n, <<d, Plain("."), e>>) : n \in {0, 2, 5}, d \in Firsts, e \in Seconds}
  \cup {CallOf(s, 0, <<Plain("."), d, e>>) : s \in {"function", "none"}, d \in Firsts, e \in Seconds}

=============================================================================

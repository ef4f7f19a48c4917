--------------------------- MODULE ConsoleProofs ---------------------------
(***************************************************************************)
(* Every text that a flow prints arrives (TextsArrive), for texts of any    *)
(* length, any number of keys and any depth of nested handlers.            *)
(*                                                                         *)
(* A write may find the port full after all: the flow that writes tested   *)
(* the port before it was interrupted.  The invariant says what lies in    *)
(* the port then: the last byte of a handler's text, and that handler has  *)
(* returned (OvertakenByEchoes).                                           *)
(*                                                                         *)
(* The last part is about the text before that: vsnprintf (Printf) keeps   *)
(* to its buffer, for every format, every argument and every size, also    *)
(* for formats that Printf calls irregular.  The proof needs nothing of    *)
(* what a directive outputs.                                               *)
(***************************************************************************)
EXTENDS Console, Printf, TLAPS

CallRec == [text : Nat, at : Nat, pc : {"enter", "test", "out"}]
Frames  == 1 .. Len(stack)

\* The type of the state, and where the calls on the stack are in their texts.
Typing ==
  /\ isInit \in BOOLEAN /\ ints \in BOOLEAN
  /\ stack \in Seq(CallRec)
  /\ texts \in Seq(Nat)
  /\ echoes \subseteq 1 .. Len(texts)
  /\ thr \in {NoByte} \cup Nat \X Nat
  /\ line \in Seq(Nat \X Nat)
  /\ ~isInit => ~ints

Places ==
  \A k \in Frames :
    /\ stack[k].text \in Begun
    /\ stack[k].at <= Length(stack[k].text)
    /\ stack[k].pc = "enter" => stack[k].at = 0
    /\ stack[k].pc = "out" => stack[k].at < Length(stack[k].text)
    /\ ~isInit => stack[k].pc = "enter"

\* A text is printed by one call.
OneCallEach == \A k, l \in Frames : stack[k].text = stack[l].text => k = l

\* Above a call that has tested the port are calls of handlers only.
HandlersAbove ==
  \A k, l \in Frames : stack[k].pc = "out" /\ k < l => stack[l].text \in echoes

\* A call that has tested the port writes to an empty one, or over a byte of a
\* handler that began after the test.
OvertakenByEchoes ==
  \A k \in Frames : stack[k].pc = "out" /\ thr # NoByte =>
    thr[1] \in echoes /\ \A l \in 1 .. k : stack[l].text # thr[1]

\* What the port holds is the last byte that was written of its text.
LatestInPort ==
  \A t, i \in Nat : thr = Byte(t, i) => t \in Begun /\ i = Written(t) /\ i > 0

\* What was sent: bytes that were written before the one in the port, in order.
LineInOrder ==
  /\ \A k \in 1 .. Len(line) : \A t, i \in Nat : line[k] = Byte(t, i) =>
       /\ t \in Begun
       /\ i \in 1 .. Written(t)
       /\ \A j \in Nat : thr = Byte(t, j) => i < j
  /\ \A k, l \in 1 .. Len(line) :
       k < l /\ line[k][1] = line[l][1] => line[k][2] < line[l][2]

\* A byte that was written is sent or in the port, unless it is the last one of
\* a handler that has returned.
NothingLost ==
  \A t \in Begun : \A i \in 1 .. Written(t) :
    \/ \E k \in 1 .. Len(line) : line[k] = Byte(t, i)
    \/ thr = Byte(t, i)
    \/ t \in echoes /\ i = Length(t) /\ \A k \in Frames : stack[k].text # t

ConsoleInv == /\ Typing /\ Places /\ OneCallEach /\ HandlersAbove /\ OvertakenByEchoes
              /\ LatestInPort /\ LineInOrder /\ NothingLost

-----------------------------------------------------------------------------
(* How much of a text is written, as a function of the calls on the stack.  *)

OneEach(st) == \A k, l \in 1 .. Len(st) : st[k].text = st[l].text => k = l

WrittenBy(st, n, t) ==
  LET running == {k \in 1 .. Len(st) : st[k].text = t}
  IN  IF running = {} THEN n ELSE st[CHOOSE k \in running : TRUE].at

LEMMA WrittenIs ==
  ASSUME NEW t
  PROVE  /\ Written(t) = WrittenBy(stack, Length(t), t)
         /\ Written(t)' = WrittenBy(stack', Length(t)', t)
BY DEF Written, WrittenBy

LEMMA RunningText ==
  ASSUME NEW st \in Seq(CallRec), OneEach(st), NEW n, NEW k \in 1 .. Len(st)
  PROVE  WrittenBy(st, n, st[k].text) = st[k].at
<1> DEFINE running == {l \in 1 .. Len(st) : st[l].text = st[k].text}
<1>1. running = {k}
  BY DEF OneEach
<1>2. (CHOOSE l \in running : TRUE) = k
  BY <1>1
<1>. QED
  BY <1>1, <1>2 DEF WrittenBy

LEMMA ReturnedText ==
  ASSUME NEW st \in Seq(CallRec), NEW n, NEW t, \A k \in 1 .. Len(st) : st[k].text # t
  PROVE  WrittenBy(st, n, t) = n
<1>1. {l \in 1 .. Len(st) : st[l].text = t} = {}
  OBVIOUS
<1>. QED
  BY <1>1 DEF WrittenBy

\* A call is made of a text that has none.
LEMMA CallMade ==
  ASSUME NEW st \in Seq(CallRec), OneEach(st), NEW c \in CallRec,
         \A k \in 1 .. Len(st) : st[k].text # c.text
  PROVE  /\ Append(st, c) \in Seq(CallRec)
         /\ OneEach(Append(st, c))
         /\ \A n, t : WrittenBy(Append(st, c), n, t) =
                       IF t = c.text THEN c.at ELSE WrittenBy(st, n, t)
<1> DEFINE new == Append(st, c)
<1>1. new \in Seq(CallRec) /\ Len(new) = Len(st) + 1
  OBVIOUS
<1>2. \A k \in 1 .. Len(st) : new[k] = st[k]
  OBVIOUS
<1>3. new[Len(new)] = c
  OBVIOUS
<1> HIDE DEF new
<1>4. OneEach(new)
  BY SMTT(30), <1>1, <1>2, <1>3 DEF OneEach
<1>5. ASSUME NEW n, NEW t
      PROVE  WrittenBy(new, n, t) = IF t = c.text THEN c.at ELSE WrittenBy(st, n, t)
  <2>1. CASE t = c.text
    <3>1. Len(new) \in 1 .. Len(new)
      BY <1>1
    <3>2. WrittenBy(new, n, new[Len(new)].text) = new[Len(new)].at
      BY <1>1, <1>4, <3>1, RunningText
    <3>. QED
      BY <1>3, <2>1, <3>2
  <2>2. CASE t # c.text /\ \E k \in 1 .. Len(st) : st[k].text = t
    <3>1. PICK k \in 1 .. Len(st) : st[k].text = t
      BY <2>2
    <3>2. WrittenBy(st, n, t) = st[k].at
      BY <3>1, RunningText
    <3>3. k \in 1 .. Len(new) /\ new[k] = st[k]
      BY <1>1, <1>2
    <3>4. WrittenBy(new, n, new[k].text) = new[k].at
      BY <1>1, <1>4, <3>3, RunningText
    <3>. QED
      BY <2>2, <3>1, <3>2, <3>3, <3>4
  <2>3. CASE t # c.text /\ \A k \in 1 .. Len(st) : st[k].text # t
    <3>1. \A k \in 1 .. Len(new) : new[k].text # t
      BY <1>1, <1>2, <1>3, <2>3
    <3>2. WrittenBy(new, n, t) = n
      BY <1>1, <3>1, ReturnedText
    <3>3. WrittenBy(st, n, t) = n
      BY <2>3, ReturnedText
    <3>. QED
      BY <2>3, <3>2, <3>3
  <2>. QED
    BY <2>1, <2>2, <2>3
<1>. QED
  BY <1>1, <1>4, <1>5 DEF new

\* The innermost call goes on in its text.
TopBecomes(st, c, new) == new = [st EXCEPT ![Len(st)] = c]

LEMMA CallContinues ==
  ASSUME NEW st \in Seq(CallRec), OneEach(st), st # <<>>, NEW c \in CallRec,
         c.text = st[Len(st)].text, NEW new, TopBecomes(st, c, new)
  PROVE  /\ new \in Seq(CallRec) /\ Len(new) = Len(st)
         /\ \A k \in 1 .. Len(st) : new[k] = IF k = Len(st) THEN c ELSE st[k]
         /\ OneEach(new)
         /\ \A n, t : WrittenBy(new, n, t) = IF t = c.text THEN c.at ELSE WrittenBy(st, n, t)
<1>1. new \in Seq(CallRec) /\ Len(new) = Len(st) /\ Len(st) \in 1 .. Len(st)
  BY DEF TopBecomes
<1>2. \A k \in 1 .. Len(st) : new[k] = IF k = Len(st) THEN c ELSE st[k]
  BY DEF TopBecomes
<1>3. \A k \in 1 .. Len(st) : new[k].text = st[k].text
  BY <1>2
<1>4. OneEach(new)
  BY <1>1, <1>3 DEF OneEach
<1>5. ASSUME NEW n, NEW t
      PROVE  WrittenBy(new, n, t) = IF t = c.text THEN c.at ELSE WrittenBy(st, n, t)
  <2>1. CASE \E k \in 1 .. Len(st) : st[k].text = t
    <3>1. PICK k \in 1 .. Len(st) : st[k].text = t
      BY <2>1
    <3>2. WrittenBy(st, n, t) = st[k].at
      BY <3>1, RunningText
    <3>3. WrittenBy(new, n, new[k].text) = new[k].at
      <4>1. k \in 1 .. Len(new)
        BY <1>1
      <4>. QED
        BY <1>1, <1>4, <4>1, RunningText
    <3>4. t = c.text <=> k = Len(st)
      BY <1>1, <3>1 DEF OneEach
    <3>. QED
      BY <1>2, <1>3, <3>1, <3>2, <3>3, <3>4
  <2>2. CASE \A k \in 1 .. Len(st) : st[k].text # t
    <3>1. WrittenBy(new, n, t) = n
      <4>1. \A k \in 1 .. Len(new) : new[k].text # t
        BY <1>1, <1>3, <2>2
      <4>2. new \in Seq(CallRec)
        BY <1>1
      <4>. QED
        BY ONLY <4>1, <4>2, ReturnedText
    <3>2. WrittenBy(st, n, t) = n
      BY <2>2, ReturnedText
    <3>3. t # c.text
      BY <1>1, <2>2
    <3>. QED
      BY <3>1, <3>2, <3>3
  <2>. QED
    BY <2>1, <2>2
<1>. QED
  BY <1>1, <1>2, <1>4, <1>5

\* The innermost call returns.
LEMMA CallReturns ==
  ASSUME NEW st \in Seq(CallRec), OneEach(st), st # <<>>
  PROVE  /\ Front(st) \in Seq(CallRec) /\ Len(Front(st)) = Len(st) - 1
         /\ \A k \in 1 .. Len(st) - 1 : Front(st)[k] = st[k]
         /\ OneEach(Front(st))
         /\ \A n, t : WrittenBy(Front(st), n, t) =
                       IF t = st[Len(st)].text THEN n ELSE WrittenBy(st, n, t)
<1> DEFINE new == Front(st)
<1>1. /\ new \in Seq(CallRec) /\ Len(new) = Len(st) - 1 /\ Len(st) \in 1 .. Len(st)
      /\ \A k \in 1 .. Len(st) - 1 : new[k] = st[k]
  <2>1. Len(st) \in Nat \ {0} /\ Len(st) \in 1 .. Len(st)
    OBVIOUS
  <2>2. new = SubSeq(st, 1, Len(st) - 1)
    BY DEF Front
  <2>3. new = [k \in 1 .. Len(st) - 1 |-> st[k]]
    BY <2>1, <2>2
  <2>4. \A k \in 1 .. Len(st) - 1 : st[k] \in CallRec
    OBVIOUS
  <2>5. new \in Seq(CallRec)
    BY <2>1, <2>3, <2>4
  <2>6. Len(new) = Len(st) - 1
    BY <2>1, <2>3
  <2>. QED
    BY <2>1, <2>3, <2>5, <2>6
<1> HIDE DEF new
<1>2. OneEach(new)
  BY <1>1 DEF OneEach
<1>3. ASSUME NEW n, NEW t
      PROVE  WrittenBy(new, n, t) = IF t = st[Len(st)].text THEN n ELSE WrittenBy(st, n, t)
  <2>1. CASE t = st[Len(st)].text
    <3>1. \A k \in 1 .. Len(new) : new[k].text # t
      BY <1>1, <2>1 DEF OneEach
    <3>. QED
      BY <1>1, <2>1, <3>1, ReturnedText
  <2>2. CASE t # st[Len(st)].text /\ \E k \in 1 .. Len(st) : st[k].text = t
    <3>1. PICK k \in 1 .. Len(st) : st[k].text = t
      BY <2>2
    <3>2. WrittenBy(st, n, t) = st[k].at
      BY <3>1, RunningText
    <3>3. k \in 1 .. Len(new) /\ new[k] = st[k]
      BY <1>1, <2>2, <3>1
    <3>4. WrittenBy(new, n, new[k].text) = new[k].at
      BY <1>1, <1>2, <3>3, RunningText
    <3>. QED
      BY <2>2, <3>1, <3>2, <3>3, <3>4
  <2>3. CASE t # st[Len(st)].text /\ \A k \in 1 .. Len(st) : st[k].text # t
    <3>1. \A k \in 1 .. Len(new) : new[k].text # t
      BY <1>1, <2>3
    <3>2. WrittenBy(new, n, t) = n
      BY <1>1, <3>1, ReturnedText
    <3>3. WrittenBy(st, n, t) = n
      BY <2>3, ReturnedText
    <3>. QED
      BY <2>3, <3>2, <3>3
  <2>. QED
    BY <2>1, <2>2, <2>3
<1>. QED
  BY <1>1, <1>2, <1>3 DEF new

-----------------------------------------------------------------------------
(* The steps.                                                               *)

LEMMA WrittenType ==
  ASSUME ConsoleInv, NEW t \in Begun
  PROVE  Length(t) \in Nat /\ Written(t) \in 0 .. Length(t)
<1>1. Length(t) \in Nat
  BY DEF ConsoleInv, Typing, Begun, Length, ReadyText
<1>2. CASE \E k \in Frames : stack[k].text = t
  <2>1. PICK k \in Frames : stack[k].text = t
    BY <1>2
  <2>2. Written(t) = stack[k].at
    <3>1. stack \in Seq(CallRec) /\ OneEach(stack) /\ k \in 1 .. Len(stack)
      BY DEF ConsoleInv, Typing, OneCallEach, OneEach, Frames
    <3>2. WrittenBy(stack, Length(t), stack[k].text) = stack[k].at
      BY <3>1, RunningText
    <3>. QED
      BY <2>1, <3>2, WrittenIs
  <2>3. stack[k] \in CallRec
    BY DEF ConsoleInv, Typing, Frames
  <2>4. stack[k].at \in Nat
    BY <2>3 DEF CallRec
  <2>. QED
    BY <1>1, <2>1, <2>2, <2>4 DEF ConsoleInv, Places
<1>3. CASE \A k \in Frames : stack[k].text # t
  BY <1>1, <1>3, WrittenIs, ReturnedText DEF ConsoleInv, Typing, Frames
<1>. QED
  BY <1>2, <1>3

\* A call for a text T that was not begun: kprintf's, a key handler's, the first one's.
LEMMA NewText ==
  ASSUME ConsoleInv, NEW T \in Nat, T \notin Begun, Begun' = Begun \cup {T},
         NEW p \in {"enter", "test"}, p = "test" => isInit',
         stack' = Append(stack, Call(T, p)),
         isInit => isInit', ~isInit' => ~ints', isInit' \in BOOLEAN, ints' \in BOOLEAN,
         texts' \in Seq(Nat), \A t \in Begun \ {0} : texts'[t] = texts[t], T # 0 => texts'[T] \in Nat,
         echoes \subseteq echoes', echoes' \subseteq echoes \cup {T}, echoes' \subseteq 1 .. Len(texts'),
         T \in echoes' \/ \A k \in Frames : stack[k].pc # "out",
         thr' = thr, line' = line
  PROVE  ConsoleInv'
<1> USE DEF Frames, Byte, NoByte
<1> DEFINE c == Call(T, p)
<1>1. c \in CallRec /\ c.text = T /\ c.at = 0 /\ c.pc = p
  BY DEF Call, CallRec
<1>2. stack \in Seq(CallRec) /\ OneEach(stack) /\ \A k \in Frames : stack[k].text \in Begun
  BY DEF ConsoleInv, Typing, OneCallEach, OneEach, Places
<1>3. \A k \in 1 .. Len(stack) : stack[k].text # c.text
  BY <1>1, <1>2
<1>4. stack' = Append(stack, c)
  OBVIOUS
<1> HIDE DEF c
<1>5. /\ stack' \in Seq(CallRec)
      /\ OneEach(stack')
      /\ \A n, t : WrittenBy(stack', n, t) = IF t = c.text THEN c.at ELSE WrittenBy(stack, n, t)
  <2>1. /\ Append(stack, c) \in Seq(CallRec)
        /\ OneEach(Append(stack, c))
        /\ \A n, t : WrittenBy(Append(stack, c), n, t) = IF t = c.text THEN c.at ELSE WrittenBy(stack, n, t)
    BY <1>1, <1>2, <1>3, CallMade
  <2>. QED
    BY <1>4, <2>1
<1>6. /\ Len(stack') = Len(stack) + 1 /\ Len(stack) \in Nat
      /\ \A k \in 1 .. Len(stack) : stack'[k] = stack[k]
      /\ stack'[Len(stack) + 1] = c
      /\ Frames' = Frames \cup {Len(stack) + 1}
  BY <1>1, <1>2, <1>4
<1>18. /\ \A t \in Begun : Length(t)' = Length(t)
       /\ Length(T)' \in Nat
  BY DEF Length, ReadyText
<1>7. \A t \in Begun : Written(t)' = Written(t)
  <2>. SUFFICES ASSUME NEW t \in Begun
                PROVE  Written(t)' = Written(t)
    OBVIOUS
  <2>1. Length(t)' = Length(t) /\ t # c.text
    BY <1>1, <1>18
  <2>2. WrittenBy(stack', Length(t)', t) = WrittenBy(stack, Length(t), t)
    BY <1>5, <2>1
  <2>. QED
    BY <2>2, WrittenIs
<1>8. Written(T)' = 0
  BY <1>1, <1>5, WrittenIs
<1>9. \A t \in Begun : Length(t) \in Nat /\ Written(t) \in 0 .. Length(t)
  BY WrittenType
<1>10. Typing'
  BY <1>5 DEF ConsoleInv, Typing
<1>11. Places'
  <2>1. ASSUME NEW k \in Frames, NEW t, t = stack[k].text
        PROVE  /\ stack'[k].text = t /\ t \in Begun'
               /\ stack'[k].at <= Length(t)'
               /\ stack'[k].pc = "enter" => stack'[k].at = 0
               /\ stack'[k].pc = "out" => stack'[k].at < Length(t)'
               /\ ~isInit' => stack'[k].pc = "enter"
    <3>1. t \in Begun /\ stack'[k] = stack[k]
      BY <1>2, <1>6, <2>1
    <3>2. Length(t)' = Length(t)
      BY <1>18, <3>1
    <3>3. /\ stack[k].at <= Length(t)
          /\ stack[k].pc = "enter" => stack[k].at = 0
          /\ stack[k].pc = "out" => stack[k].at < Length(t)
          /\ ~isInit => stack[k].pc = "enter"
      BY <2>1 DEF ConsoleInv, Places
    <3>. QED
      BY <2>1, <3>1, <3>2, <3>3
  <2>2. c.text \in Begun' /\ c.at <= Length(T)' /\ c.at = 0 /\ c.pc # "out" /\ (~isInit' => c.pc = "enter")
    BY <1>1, <1>18
  <2>. SUFFICES ASSUME NEW k \in Frames', NEW t, t = stack'[k].text
                PROVE  /\ t \in Begun'
                       /\ stack'[k].at <= Length(t)'
                       /\ stack'[k].pc = "enter" => stack'[k].at = 0
                       /\ stack'[k].pc = "out" => stack'[k].at < Length(t)'
                       /\ ~isInit' => stack'[k].pc = "enter"
    BY DEF Places, Length
  <2>3. CASE k \in Frames
    BY <1>6, <2>1, <2>3
  <2>4. CASE k = Len(stack) + 1
    BY <1>1, <1>6, <2>2, <2>4
  <2>. QED
    BY <1>6, <2>3, <2>4
<1>12. OneCallEach'
  BY <1>5 DEF OneEach, OneCallEach
<1>13. HandlersAbove'
  <2>. SUFFICES ASSUME NEW k \in Frames', NEW l \in Frames', stack'[k].pc = "out", k < l
                PROVE  stack'[l].text \in echoes'
    BY DEF HandlersAbove
  <2>1. k \in Frames /\ stack[k].pc = "out"
    BY <1>1, <1>6
  <2>2. CASE l \in Frames
    BY <1>6, <2>1, <2>2 DEF ConsoleInv, HandlersAbove
  <2>3. CASE l = Len(stack) + 1
    BY <1>1, <1>6, <2>1, <2>3
  <2>. QED
    BY <1>6, <2>2, <2>3
<1>14. OvertakenByEchoes'
  <2>. SUFFICES ASSUME NEW k \in Frames', stack'[k].pc = "out", thr # <<>>
                PROVE  thr[1] \in echoes' /\ \A l \in 1 .. k : stack'[l].text # thr[1]
    BY DEF OvertakenByEchoes
  <2>1. k \in Frames /\ stack[k].pc = "out"
    BY <1>1, <1>6
  <2>2. thr[1] \in echoes /\ \A l \in 1 .. k : stack[l].text # thr[1]
    BY <2>1 DEF ConsoleInv, OvertakenByEchoes
  <2>3. \A l \in 1 .. k : l \in Frames
    BY <2>1
  <2>. QED
    BY <1>6, <2>2, <2>3
<1>15. LatestInPort'
  BY <1>7 DEF ConsoleInv, LatestInPort
<1>16. LineInOrder'
  BY <1>7 DEF ConsoleInv, LineInOrder
<1>17. NothingLost'
  <2>. SUFFICES ASSUME NEW t \in Begun', NEW i \in 1 .. Written(t)'
                PROVE  \/ \E k \in 1 .. Len(line) : line[k] = <<t, i>>
                       \/ thr = <<t, i>>
                       \/ t \in echoes' /\ i = Length(t)' /\ \A k \in 1 .. Len(stack') : stack'[k].text # t
    BY DEF NothingLost
  <2>1. t \in Begun /\ i \in 1 .. Written(t) /\ t # T
    BY <1>7, <1>8
  <2>2. \/ \E k \in 1 .. Len(line) : line[k] = <<t, i>>
        \/ thr = <<t, i>>
        \/ t \in echoes /\ i = Length(t) /\ \A k \in 1 .. Len(stack) : stack[k].text # t
    BY <2>1 DEF ConsoleInv, NothingLost
  <2>3. t \in echoes => t \in echoes'
    OBVIOUS
  <2>4. Length(t)' = Length(t)
    BY <1>18, <2>1
  <2>5. (\A k \in 1 .. Len(stack) : stack[k].text # t) => \A k \in 1 .. Len(stack') : stack'[k].text # t
    BY <1>1, <1>6, <2>1
  <2>. QED
    BY <2>2, <2>3, <2>4, <2>5
<1>. QED
  BY <1>10, <1>11, <1>12, <1>13, <1>14, <1>15, <1>16, <1>17 DEF ConsoleInv

LEMMA KprintfStep ==
  ASSUME ConsoleInv, NEW n \in Texts, Kprintf(n)
  PROVE  ConsoleInv'
<1> DEFINE T == Len(texts) + 1
<1>1. n \in Nat /\ texts \in Seq(Nat) /\ texts' = Append(texts, n)
  BY ConsoleAssumption DEF ConsoleInv, Typing, Kprintf
<1>2. /\ Len(texts) \in Nat /\ Len(texts') = T /\ texts' \in Seq(Nat)
      /\ \A t \in 1 .. Len(texts) : texts'[t] = texts[t]
      /\ texts'[T] = n
  BY <1>1
<1>3. stack' = <<Call(T, "enter")>> /\ stack = <<>>
  BY <1>2 DEF Kprintf
<1>4. stack' = Append(stack, Call(T, "enter"))
  BY <1>3
<1>5. T \notin Begun /\ Begun' = Begun \cup {T} /\ T \in Nat \ {0}
  BY <1>2 DEF Begun, Kprintf
<1>6. (\A t \in Begun \ {0} : texts'[t] = texts[t]) /\ texts'[T] \in Nat
  BY <1>1, <1>2 DEF Begun
<1>7. /\ UNCHANGED <<isInit, ints, thr, line, echoes>>
      /\ isInit \in BOOLEAN /\ ints \in BOOLEAN /\ (~isInit => ~ints)
      /\ echoes \subseteq 1 .. Len(texts)
  BY DEF Kprintf, ConsoleInv, Typing
<1>8. \A k \in Frames : stack[k].pc # "out"
  BY <1>3 DEF Frames
<1> HIDE DEF T
<1>9. echoes' \subseteq 1 .. Len(texts')
  BY <1>2, <1>7 DEF T
<1>. QED
  BY <1>2, <1>4, <1>5, <1>6, <1>7, <1>8, <1>9, NewText

LEMMA KbdIrqStep ==
  ASSUME ConsoleInv, KbdIrq
  PROVE  ConsoleInv'
<1> DEFINE T == Len(texts) + 1
<1>1. PICK n \in {0, 1} : texts' = Append(texts, n)
  BY DEF KbdIrq
<1>2. /\ Len(texts) \in Nat /\ Len(texts') = T /\ texts' \in Seq(Nat)
      /\ \A t \in 1 .. Len(texts) : texts'[t] = texts[t]
      /\ texts'[T] = n
  BY <1>1 DEF ConsoleInv, Typing
<1>4. stack' = Append(stack, Call(T, "enter")) /\ echoes' = echoes \cup {T}
  BY <1>2 DEF KbdIrq
<1>5. T \notin Begun /\ Begun' = Begun \cup {T} /\ T \in Nat \ {0}
  BY <1>2 DEF Begun, KbdIrq
<1>6. (\A t \in Begun \ {0} : texts'[t] = texts[t]) /\ texts'[T] \in Nat
  BY <1>1, <1>2 DEF Begun
<1>7. /\ UNCHANGED <<isInit, ints, thr, line>>
      /\ isInit \in BOOLEAN /\ ints \in BOOLEAN /\ (~isInit => ~ints)
      /\ echoes \subseteq 1 .. Len(texts)
  BY DEF KbdIrq, ConsoleInv, Typing
<1> HIDE DEF T
<1>9. echoes' \subseteq 1 .. Len(texts')
  <2>1. 1 .. Len(texts) \subseteq 1 .. T /\ T \in 1 .. T
    BY <1>2 DEF T
  <2>. QED
    BY <1>2, <1>4, <1>7, <2>1
<1>. QED
  BY <1>2, <1>4, <1>5, <1>6, <1>7, <1>9, NewText

LEMMA InitEarlyStep ==
  ASSUME ConsoleInv, InitEarly
  PROVE  ConsoleInv'
<1>1. stack' = Append(stack, Call(0, "test")) /\ ~isInit /\ isInit' = TRUE
  BY DEF InitEarly
<1>2. UNCHANGED <<ints, texts, echoes, thr, line>>
  BY DEF InitEarly
<1>3. 0 \notin Begun /\ Begun' = Begun \cup {0}
  BY <1>1, <1>2 DEF Begun
<1>4. \A t \in Begun \ {0} : texts'[t] = texts[t]
  BY <1>2
<1>5. ints \in BOOLEAN /\ texts \in Seq(Nat) /\ echoes \subseteq 1 .. Len(texts)
  BY DEF ConsoleInv, Typing
<1>6. \A k \in Frames : stack[k].pc # "out"
  BY <1>1 DEF ConsoleInv, Places
<1>. QED
  BY <1>1, <1>2, <1>3, <1>4, <1>5, <1>6, NewText

\* Format and Test: the innermost call goes on and writes nothing.
LEMMA AdvanceStep ==
  ASSUME ConsoleInv, stack # <<>>, NEW p \in {"test", "out"},
         SetTop([Top EXCEPT !.pc = p]), isInit,
         p = "out" => thr = NoByte /\ Top.at < Length(Top.text),
         UNCHANGED <<isInit, ints, texts, echoes, thr, line>>
  PROVE  ConsoleInv'
<1> DEFINE N == Len(stack)
           c == [Top EXCEPT !.pc = p]
<1>1. stack \in Seq(CallRec) /\ OneEach(stack) /\ N \in Frames
  BY DEF ConsoleInv, Typing, OneCallEach, OneEach, Frames
<1>2. c \in CallRec /\ c.text = stack[N].text /\ c.at = stack[N].at /\ c.pc = p
  <2>1. Top = stack[N] /\ Top \in CallRec
    BY <1>1 DEF Top, Frames
  <2>. QED
    BY <2>1 DEF CallRec
<1>3. stack' = [stack EXCEPT ![Len(stack)] = c]
  BY DEF SetTop
<1> HIDE DEF c
<1>4. /\ stack' \in Seq(CallRec) /\ Len(stack') = N
      /\ \A k \in Frames : stack'[k] = IF k = N THEN c ELSE stack[k]
      /\ OneEach(stack')
      /\ \A n, t : WrittenBy(stack', n, t) = IF t = c.text THEN c.at ELSE WrittenBy(stack, n, t)
  <2>1. stack[Len(stack)].text = c.text
    BY <1>2
  <2>. HIDE DEF N
  <2>2. /\ stack' \in Seq(CallRec) /\ Len(stack') = Len(stack)
        /\ \A k \in 1 .. Len(stack) : stack'[k] = IF k = Len(stack) THEN c ELSE stack[k]
        /\ OneEach(stack')
        /\ \A n, t : WrittenBy(stack', n, t) = IF t = c.text THEN c.at ELSE WrittenBy(stack, n, t)
    <3>1. stack \in Seq(CallRec) /\ OneEach(stack) /\ stack # <<>> /\ c \in CallRec
      BY <1>1, <1>2
    <3>2. TopBecomes(stack, c, stack')
      BY <1>3 DEF TopBecomes
    <3>. QED
      BY ONLY <2>1, <3>1, <3>2, CallContinues
  <2>. QED
    BY <2>2 DEF Frames, N
<1>5. \A t : WrittenBy(stack, Length(t), t) = IF t = c.text THEN c.at ELSE WrittenBy(stack, Length(t), t)
  BY <1>1, <1>2, RunningText DEF Frames
<1>6. Begun' = Begun /\ Frames' = Frames /\ \A t : Length(t)' = Length(t)
  BY <1>4 DEF Begun, Length, Frames
<1>7. \A t : Written(t)' = Written(t)
  <2>. SUFFICES ASSUME NEW t PROVE Written(t)' = Written(t)
    OBVIOUS
  <2>1. Length(t)' = Length(t)
    BY <1>6
  <2>2. WrittenBy(stack', Length(t)', t) = WrittenBy(stack, Length(t), t)
    BY <1>4, <1>5, <2>1
  <2>. QED
    BY <2>2, WrittenIs
<1>8. \A k \in Frames : stack'[k].text = stack[k].text /\ stack'[k].at = stack[k].at
  BY <1>2, <1>4
<1>9. \A k \in Frames : k # N => stack'[k].pc = stack[k].pc
  BY <1>4
<1>10. stack'[N].pc = p
  BY <1>1, <1>2, <1>4
<1>11. \A k \in Frames : k <= N
  BY DEF Frames
<1>12. Typing'
  BY <1>4 DEF ConsoleInv, Typing
<1>13. Places'
  <2>. SUFFICES ASSUME NEW k \in Frames, NEW t, t = stack[k].text
                PROVE  /\ t \in Begun
                       /\ stack'[k].at <= Length(t)
                       /\ stack'[k].pc = "enter" => stack'[k].at = 0
                       /\ stack'[k].pc = "out" => stack'[k].at < Length(t)
                       /\ ~isInit => stack'[k].pc = "enter"
    BY <1>6, <1>8 DEF Places, Length
  <2>1. /\ t \in Begun
        /\ stack[k].at <= Length(t)
        /\ stack[k].pc = "enter" => stack[k].at = 0
        /\ stack[k].pc = "out" => stack[k].at < Length(t)
    BY DEF ConsoleInv, Places
  <2>2. CASE k # N
    BY <1>8, <1>9, <2>1, <2>2
  <2>3. CASE k = N
    BY <1>8, <1>10, <2>1, <2>3 DEF Top
  <2>. QED
    BY <2>2, <2>3
<1>14. OneCallEach'
  BY <1>4 DEF OneEach, OneCallEach, Frames
<1>15. HandlersAbove'
  <2>. SUFFICES ASSUME NEW k \in Frames, NEW l \in Frames, stack'[k].pc = "out", k < l
                PROVE  stack'[l].text \in echoes
    BY <1>6 DEF HandlersAbove
  <2>1. k # N /\ stack[k].pc = "out"
    BY <1>9, <1>11 DEF Frames
  <2>. QED
    BY <1>8, <2>1 DEF ConsoleInv, HandlersAbove
<1>16. OvertakenByEchoes'
  <2>. SUFFICES ASSUME NEW k \in Frames, stack'[k].pc = "out", thr # NoByte
                PROVE  thr[1] \in echoes /\ \A l \in 1 .. k : stack'[l].text # thr[1]
    BY <1>6 DEF OvertakenByEchoes
  <2>1. k # N /\ stack[k].pc = "out"
    BY <1>9, <1>10
  <2>2. \A l \in 1 .. k : l \in Frames
    BY DEF Frames
  <2>. QED
    BY <1>8, <2>1, <2>2 DEF ConsoleInv, OvertakenByEchoes
<1>17. LatestInPort'
  BY <1>6, <1>7 DEF ConsoleInv, LatestInPort
<1>18. LineInOrder'
  BY <1>6, <1>7 DEF ConsoleInv, LineInOrder
<1>19. NothingLost'
  BY <1>6, <1>7, <1>8, SMTT(30) DEF ConsoleInv, NothingLost, Byte
<1>. QED
  BY <1>12, <1>13, <1>14, <1>15, <1>16, <1>17, <1>18, <1>19 DEF ConsoleInv

LEMMA ReturnStep ==
  ASSUME ConsoleInv, Return
  PROVE  ConsoleInv'
<1> DEFINE N == Len(stack)
<1>1. /\ stack \in Seq(CallRec) /\ OneEach(stack) /\ N \in Frames /\ N \in Nat
      /\ stack # <<>> /\ stack' = Front(stack)
      /\ stack[N].pc = "test" /\ stack[N].at = Length(stack[N].text)
  BY DEF ConsoleInv, Typing, OneCallEach, OneEach, Frames, Return, Top
<1>2. UNCHANGED <<isInit, ints, texts, echoes, thr, line>>
  BY DEF Return
<1>4. /\ stack' \in Seq(CallRec) /\ Len(stack') = N - 1
      /\ \A k \in 1 .. N - 1 : stack'[k] = stack[k]
      /\ OneEach(stack')
      /\ \A n, t : WrittenBy(stack', n, t) = IF t = stack[N].text THEN n ELSE WrittenBy(stack, n, t)
  <2>1. /\ Front(stack) \in Seq(CallRec) /\ Len(Front(stack)) = Len(stack) - 1
        /\ \A k \in 1 .. Len(stack) - 1 : Front(stack)[k] = stack[k]
        /\ OneEach(Front(stack))
        /\ \A n, t : WrittenBy(Front(stack), n, t) =
                      IF t = stack[Len(stack)].text THEN n ELSE WrittenBy(stack, n, t)
    BY <1>1, CallReturns, ZenonT(60)
  <2>. QED
    BY <1>1, <2>1, ZenonT(60)
<1>6. Begun' = Begun /\ \A t : Length(t)' = Length(t)
  BY <1>2 DEF Begun, Length
<1>7. \A t : Written(t)' = Written(t)
  <2>. SUFFICES ASSUME NEW t PROVE Written(t)' = Written(t)
    OBVIOUS
  <2>1. Length(t)' = Length(t)
    BY <1>6
  <2>2. WrittenBy(stack', Length(t)', t) = IF t = stack[N].text THEN Length(t) ELSE WrittenBy(stack, Length(t), t)
    BY <1>4, <2>1
  <2>3. t = stack[N].text => WrittenBy(stack, Length(t), t) = Length(t)
    BY <1>1, RunningText DEF Frames
  <2>. QED
    BY <2>2, <2>3, WrittenIs
<1>8. Frames' = 1 .. N - 1 /\ (\A k \in 1 .. N - 1 : k \in Frames) /\ (\A k \in Frames : k # N => k \in 1 .. N - 1)
  BY <1>1, <1>4 DEF Frames
<1>12. Typing'
  BY <1>2, <1>4 DEF ConsoleInv, Typing
<1>13. Places'
  <2>. SUFFICES ASSUME NEW k \in Frames', NEW t, t = stack[k].text
                PROVE  /\ t \in Begun
                       /\ stack[k].at <= Length(t)
                       /\ stack[k].pc = "enter" => stack[k].at = 0
                       /\ stack[k].pc = "out" => stack[k].at < Length(t)
                       /\ ~isInit => stack[k].pc = "enter"
    BY <1>2, <1>4, <1>6, <1>8 DEF Places, Length
  <2>. QED
    BY <1>8 DEF ConsoleInv, Places
<1>14. OneCallEach'
  BY <1>4 DEF OneEach, OneCallEach, Frames
<1>15. HandlersAbove'
  BY <1>2, <1>4, <1>8 DEF ConsoleInv, HandlersAbove
<1>16. OvertakenByEchoes'
  <2>. SUFFICES ASSUME NEW k \in Frames', stack[k].pc = "out", thr # NoByte
                PROVE  thr[1] \in echoes /\ \A l \in 1 .. k : stack'[l].text # thr[1]
    BY <1>2, <1>4, <1>8 DEF OvertakenByEchoes
  <2>1. \A l \in 1 .. k : l \in 1 .. N - 1
    BY <1>1, <1>8
  <2>. QED
    BY <1>4, <1>8, <2>1 DEF ConsoleInv, OvertakenByEchoes
<1>17. LatestInPort'
  BY <1>2, <1>6, <1>7 DEF ConsoleInv, LatestInPort
<1>18. LineInOrder'
  BY <1>2, <1>6, <1>7 DEF ConsoleInv, LineInOrder
<1>19. NothingLost'
  BY ZenonT(60), <1>2, <1>4, <1>6, <1>7, <1>8 DEF ConsoleInv, NothingLost, Byte
<1>. QED
  BY <1>12, <1>13, <1>14, <1>15, <1>16, <1>17, <1>18, <1>19 DEF ConsoleInv

\* What the write of the innermost call finds in the port, if anything, is the
\* last byte of a handler's text, and no call prints that any more.
LEMMA OverwrittenIsEchoed ==
  ASSUME ConsoleInv, Out, thr # NoByte
  PROVE  /\ thr[1] \in echoes /\ thr[2] = Length(thr[1])
         /\ \A k \in Frames : stack[k].text # thr[1]
<1>1. Len(stack) \in Frames /\ stack[Len(stack)].pc = "out"
  BY DEF ConsoleInv, Typing, Frames, Out, Top
<1>2. thr[1] \in echoes /\ \A k \in Frames : stack[k].text # thr[1]
  BY <1>1 DEF ConsoleInv, OvertakenByEchoes, Frames
<1>3. PICK t \in Nat, i \in Nat : thr = <<t, i>>
  BY DEF ConsoleInv, Typing
<1>4. Written(t) = Length(t)
  BY <1>2, <1>3, WrittenIs, ReturnedText DEF ConsoleInv, Typing, Frames
<1>. QED
  BY <1>2, <1>3, <1>4 DEF ConsoleInv, LatestInPort, Byte

LEMMA OutStep ==
  ASSUME ConsoleInv, Out
  PROVE  ConsoleInv'
<1> USE DEF Byte
<1>1. PICK N, T, i, c : /\ N = Len(stack) /\ T = stack[N].text /\ i = stack[N].at + 1
                        /\ c = [Top EXCEPT !.at = @ + 1, !.pc = "test"]
  OBVIOUS
<1>2. stack \in Seq(CallRec) /\ OneEach(stack) /\ N \in Frames /\ stack # <<>>
  BY <1>1 DEF ConsoleInv, Typing, OneCallEach, OneEach, Frames, Out
<1>20a. /\ c \in CallRec /\ c.text = T /\ c.at = i /\ c.pc = "test"
       /\ T \in Nat /\ stack[N].at \in Nat /\ stack[N].pc = "out"
  <2>1. Top = stack[N] /\ stack[N] \in CallRec /\ stack[N].pc = "out"
    BY <1>1, <1>2 DEF Top, Frames, Out
  <2>2. stack[N].text \in Nat /\ stack[N].at \in Nat
    BY <2>1 DEF CallRec
  <2>3. c = [text |-> stack[N].text, at |-> stack[N].at + 1, pc |-> "test"]
    BY <1>1, <2>1 DEF CallRec
  <2>4. c.text = T /\ c.at = i /\ c.pc = "test"
    <3>1. T = stack[N].text /\ i = stack[N].at + 1
      BY <1>1
    <3>. QED
      BY <2>3, <3>1
  <2>5. T \in Nat /\ i \in Nat
    BY <1>1, <2>2
  <2>6. c \in CallRec
    BY <1>1, <2>2, <2>3, <2>5 DEF CallRec
  <2>. QED
    BY <2>1, <2>2, <2>4, <2>5, <2>6
<1>3. /\ TopBecomes(stack, c, stack') /\ thr' = <<T, i>>
      /\ UNCHANGED <<isInit, ints, texts, echoes, line>>
  BY <1>1 DEF SetTop, Out, Top, TopBecomes
<1>4. T \in Begun /\ stack[N].at < Length(T) /\ Length(T) \in Nat
  <2>1. T \in Begun /\ stack[N].at < Length(T)
    BY <1>1, <1>2, <1>20a DEF ConsoleInv, Places
  <2>. QED
    BY <2>1, WrittenType
<1>5. Written(T) = stack[N].at
  BY <1>1, <1>2, WrittenIs, RunningText DEF Frames
<1>6. /\ stack' \in Seq(CallRec) /\ Len(stack') = N
      /\ \A k \in Frames : stack'[k] = IF k = N THEN c ELSE stack[k]
      /\ OneEach(stack')
      /\ \A n, t : WrittenBy(stack', n, t) = IF t = c.text THEN c.at ELSE WrittenBy(stack, n, t)
  <2>1. stack[Len(stack)].text = c.text
    BY <1>1, <1>20a
  <2>2. /\ stack' \in Seq(CallRec) /\ Len(stack') = Len(stack)
        /\ \A k \in 1 .. Len(stack) : stack'[k] = IF k = Len(stack) THEN c ELSE stack[k]
        /\ OneEach(stack')
        /\ \A n, t : WrittenBy(stack', n, t) = IF t = c.text THEN c.at ELSE WrittenBy(stack, n, t)
    BY ONLY <1>2, <1>20a, <1>3, <2>1, CallContinues
  <2>. QED
    BY <1>1, <2>2 DEF Frames
<1>7. Begun' = Begun /\ Frames' = Frames /\ \A t : Length(t)' = Length(t)
  BY <1>1, <1>3, <1>6 DEF Begun, Length, Frames
<1>8. Written(T)' = i /\ \A t : t # T => Written(t)' = Written(t)
  <2>1. Written(T)' = i
    BY <1>20a, <1>6, WrittenIs
  <2>. SUFFICES ASSUME NEW t, t # T PROVE Written(t)' = Written(t)
    BY <2>1
  <2>2. Length(t)' = Length(t)
    BY <1>7
  <2>3. WrittenBy(stack', Length(t)', t) = WrittenBy(stack, Length(t), t)
    BY <1>20a, <1>6, <2>2
  <2>. QED
    BY <2>3, WrittenIs
<1>9. i \in Nat /\ i > 0 /\ Written(T) = i - 1 /\ i <= Length(T)
  BY <1>1, <1>20a, <1>4, <1>5
<1>10. \A k \in Frames : stack'[k].text = stack[k].text /\ (k # N => stack'[k] = stack[k])
  BY <1>1, <1>20a, <1>6
<1>11. stack'[N].pc = "test" /\ stack'[N].at = i
  BY <1>2, <1>20a, <1>6
<1>12. (\A k \in Frames : k <= N) /\ stack[N].text = T
  BY <1>1 DEF Frames
<1>13. Typing'
  BY <1>20a, <1>3, <1>6, <1>9 DEF ConsoleInv, Typing
<1>14. Places'
  <2>. SUFFICES ASSUME NEW k \in Frames, NEW t, t = stack[k].text
                PROVE  /\ t \in Begun
                       /\ stack'[k].at <= Length(t)
                       /\ stack'[k].pc = "enter" => stack'[k].at = 0
                       /\ stack'[k].pc = "out" => stack'[k].at < Length(t)
                       /\ ~isInit => stack'[k].pc = "enter"
    BY <1>3, <1>7, <1>10 DEF Places, Length
  <2>1. /\ t \in Begun
        /\ stack[k].at <= Length(t)
        /\ stack[k].pc = "enter" => stack[k].at = 0
        /\ stack[k].pc = "out" => stack[k].at < Length(t)
        /\ ~isInit => stack[k].pc = "enter"
    BY DEF ConsoleInv, Places
  <2>2. CASE k # N
    BY <1>10, <2>1, <2>2
  <2>3. CASE k = N
    BY <1>20a, <1>9, <1>11, <1>12, <2>1, <2>3
  <2>. QED
    BY <2>2, <2>3
<1>15. OneCallEach'
  BY <1>6 DEF OneEach, OneCallEach, Frames
<1>16. HandlersAbove'
  <2>. SUFFICES ASSUME NEW k \in Frames, NEW l \in Frames, stack'[k].pc = "out", k < l
                PROVE  stack'[l].text \in echoes
    BY <1>3, <1>7 DEF HandlersAbove
  <2>1. k # N /\ stack[k].pc = "out"
    BY <1>10, <1>11
  <2>. QED
    BY <1>10, <2>1 DEF ConsoleInv, HandlersAbove
<1>17. OvertakenByEchoes'
  <2>. SUFFICES ASSUME NEW k \in Frames, stack'[k].pc = "out"
                PROVE  T \in echoes /\ \A l \in 1 .. k : stack'[l].text # T
    BY <1>3, <1>7 DEF OvertakenByEchoes
  <2>1. k # N /\ stack[k].pc = "out"
    BY <1>10, <1>11
  <2>2. k < N /\ \A l \in 1 .. k : l \in Frames /\ l # N
    BY <1>2, <1>12, <2>1 DEF Frames
  <2>3. stack[N].text \in echoes
    BY <1>2, <2>1, <2>2 DEF ConsoleInv, HandlersAbove
  <2>4. \A l \in 1 .. k : stack[l].text # T
    BY <1>2, <1>12, <2>2 DEF ConsoleInv, OneCallEach
  <2>. QED
    BY <1>10, <1>12, <2>2, <2>3, <2>4
<1>18. LatestInPort'
  BY <1>3, <1>4, <1>7, <1>8, <1>9 DEF LatestInPort, NoByte
<1>19. LineInOrder'
  <2>. SUFFICES ASSUME NEW k \in 1 .. Len(line), NEW t \in Nat, NEW j \in Nat, line[k] = <<t, j>>
                PROVE  t \in Begun /\ j \in 1 .. Written(t)' /\ (T = t => j < i)
    BY <1>3, <1>7 DEF ConsoleInv, LineInOrder
  <2>1. t \in Begun /\ j \in 1 .. Written(t)
    BY DEF ConsoleInv, LineInOrder
  <2>2. CASE t = T
    BY <1>4, <1>8, <1>9, <2>1, <2>2
  <2>3. CASE t # T
    BY <1>8, <2>1, <2>3
  <2>. QED
    BY <2>2, <2>3
<1>20. NothingLost'
  <2>. SUFFICES ASSUME NEW t \in Begun, NEW j \in 1 .. Written(t)'
                PROVE  \/ \E k \in 1 .. Len(line) : line[k] = <<t, j>>
                       \/ thr' = <<t, j>>
                       \/ t \in echoes /\ j = Length(t) /\ \A k \in Frames : stack[k].text # t
    BY SMTT(30), <1>3, <1>7, <1>10 DEF NothingLost
  <2>1. CASE t = T /\ j = i
    BY <1>3, <2>1
  <2>2. CASE ~(t = T /\ j = i)
    <3>1. j \in 1 .. Written(t)
      <4>1. CASE t = T
        BY <1>8, <1>9, <2>2, <4>1
      <4>2. CASE t # T
        BY <1>8, <4>2
      <4>. QED
        BY <4>1, <4>2
    <3>2. \/ \E k \in 1 .. Len(line) : line[k] = <<t, j>>
          \/ thr = <<t, j>>
          \/ t \in echoes /\ j = Length(t) /\ \A k \in Frames : stack[k].text # t
      BY <3>1 DEF ConsoleInv, NothingLost
    <3>3. CASE thr = <<t, j>>
      BY <3>3, OverwrittenIsEchoed DEF NoByte
    <3>. QED
      BY <3>2, <3>3
  <2>. QED
    BY <2>1, <2>2
<1>. QED
  BY <1>13, <1>14, <1>15, <1>16, <1>17, <1>18, <1>19, <1>20 DEF ConsoleInv

LEMMA TransmitStep ==
  ASSUME ConsoleInv, Transmit
  PROVE  ConsoleInv'
<1> USE DEF Byte
<1> DEFINE M == Len(line)
<1>1. /\ thr # NoByte /\ thr \in Nat \X Nat /\ line \in Seq(Nat \X Nat) /\ M \in Nat
      /\ line' = Append(line, thr) /\ thr' = NoByte
      /\ UNCHANGED <<isInit, ints, stack, texts, echoes>>
  BY DEF ConsoleInv, Typing, Transmit
<1>2. /\ line' \in Seq(Nat \X Nat) /\ Len(line') = M + 1
      /\ \A k \in 1 .. M : line'[k] = line[k]
      /\ line'[M + 1] = thr
  BY <1>1
<1>3. Begun' = Begun /\ Frames' = Frames /\ \A t : Length(t)' = Length(t) /\ Written(t)' = Written(t)
  BY <1>1 DEF Begun, Frames, Length, Written
<1> HIDE DEF M
<1>4. Typing' /\ Places' /\ OneCallEach' /\ HandlersAbove' /\ OvertakenByEchoes' /\ LatestInPort'
  <2>1. Typing'
    BY <1>1, <1>2 DEF ConsoleInv, Typing
  <2>2. Places' /\ OneCallEach' /\ HandlersAbove'
    BY <1>1, <1>3 DEF ConsoleInv, Places, OneCallEach, HandlersAbove, Length
  <2>. QED
    BY <1>1, <2>1, <2>2 DEF OvertakenByEchoes, LatestInPort, NoByte
<1>5. LineInOrder'
  <2>0. \A k \in 1 .. M + 1 : k \in 1 .. M \/ k = M + 1
    BY <1>1
  <2>1. ASSUME NEW k \in 1 .. M + 1, NEW t \in Nat, NEW i \in Nat, line'[k] = <<t, i>>
        PROVE  t \in Begun /\ i \in 1 .. Written(t)
    <3>1. CASE k = M + 1
      <4>1. t \in Begun /\ i = Written(t) /\ i > 0
        BY <1>2, <2>1, <3>1 DEF ConsoleInv, LatestInPort
      <4>. QED
        BY <4>1
    <3>2. CASE k \in 1 .. M
      BY <1>2, <2>1, <3>2 DEF ConsoleInv, LineInOrder, M
    <3>. QED
      BY <2>0, <3>1, <3>2
  <2>2. ASSUME NEW k \in 1 .. M + 1, NEW l \in 1 .. M + 1, k < l, line'[k][1] = line'[l][1]
        PROVE  line'[k][2] < line'[l][2]
    <3>1. k \in 1 .. M /\ line'[k] = line[k]
      BY <1>1, <1>2, <2>2
    <3>2. CASE l = M + 1
      <4>1. PICK t \in Nat, i \in Nat, j \in Nat : line[k] = <<t, i>> /\ thr = <<t, j>>
        <5>1. line[k] \in Nat \X Nat /\ thr \in Nat \X Nat /\ line[k][1] = thr[1]
          BY SMTT(30), <1>1, <1>2, <2>2, <3>1, <3>2 DEF M
        <5>. QED
          BY <5>1
      <4>2. i < j
        BY <3>1, <4>1 DEF ConsoleInv, LineInOrder, M
      <4>. QED
        BY <1>2, <3>1, <3>2, <4>1, <4>2
    <3>3. CASE l \in 1 .. M
      BY <1>2, <2>2, <3>1, <3>3 DEF ConsoleInv, LineInOrder, M
    <3>. QED
      BY <2>0, <3>2, <3>3
  <2>3. thr' = NoByte /\ Len(line') = M + 1
    BY <1>1, <1>2
  <2>4. \A t \in Nat, i \in Nat : thr' # Byte(t, i)
    BY <2>3 DEF NoByte
  <2>5. \A k \in 1 .. Len(line') : \A t, i \in Nat : line'[k] = Byte(t, i) =>
           t \in Begun' /\ i \in 1 .. Written(t)'
    BY <1>3, <2>1, <2>3
  <2>6. \A k, l \in 1 .. Len(line') : k < l /\ line'[k][1] = line'[l][1] => line'[k][2] < line'[l][2]
    BY <2>2, <2>3
  <2>. QED
    BY <2>4, <2>5, <2>6 DEF LineInOrder
<1>6. NothingLost'
  <2>. SUFFICES ASSUME NEW t \in Begun, NEW i \in 1 .. Written(t)
                PROVE  \/ \E k \in 1 .. M + 1 : line'[k] = <<t, i>>
                       \/ t \in echoes /\ i = Length(t) /\ \A k \in Frames : stack[k].text # t
    BY <1>1, <1>2, <1>3 DEF NothingLost
  <2>1. \/ \E k \in 1 .. M : line[k] = <<t, i>>
        \/ thr = <<t, i>>
        \/ t \in echoes /\ i = Length(t) /\ \A k \in Frames : stack[k].text # t
    BY DEF ConsoleInv, NothingLost, M
  <2>2. 1 .. M \subseteq 1 .. M + 1 /\ M + 1 \in 1 .. M + 1
    BY <1>1
  <2>. QED
    BY <1>2, <2>1, <2>2
<1>. QED
  BY <1>4, <1>5, <1>6 DEF ConsoleInv

-----------------------------------------------------------------------------
(* The theorems.                                                            *)

LEMMA ConsoleNext ==
  ASSUME ConsoleInv, [Next]_vars
  PROVE  ConsoleInv'
<1>1. CASE UNCHANGED port
  <2>1. Begun' = Begun /\ Frames' = Frames /\ \A t : Written(t)' = Written(t)
    BY <1>1 DEF port, Begun, Frames, Written, Length
  <2>2. Typing' /\ Places' /\ OneCallEach' /\ HandlersAbove' /\ OvertakenByEchoes'
    BY <1>1, <2>1 DEF ConsoleInv, Typing, Places, OneCallEach, HandlersAbove,
                      OvertakenByEchoes, port, Length
  <2>3. LatestInPort' /\ LineInOrder'
    BY <1>1, <2>1 DEF ConsoleInv, LatestInPort, LineInOrder, port
  <2>4. NothingLost'
    BY <1>1, <2>1 DEF ConsoleInv, NothingLost, port, Length
  <2>. QED
    BY <2>2, <2>3, <2>4 DEF ConsoleInv
<1>2. CASE \E n \in Texts : Kprintf(n)
  BY <1>2, KprintfStep
<1>3. CASE EnableInterrupts
  <2>1. UNCHANGED <<isInit, stack, texts, echoes, thr, line>> /\ ints' = TRUE /\ isInit
    BY <1>3 DEF EnableInterrupts
  <2>2. Begun' = Begun /\ Frames' = Frames /\ \A t : Written(t)' = Written(t)
    BY <2>1 DEF Begun, Frames, Written, Length
  <2>3. Typing' /\ Places' /\ OneCallEach' /\ HandlersAbove' /\ OvertakenByEchoes'
    BY <2>1, <2>2 DEF ConsoleInv, Typing, Places, OneCallEach, HandlersAbove,
                      OvertakenByEchoes, Length
  <2>4. LatestInPort' /\ LineInOrder'
    BY <2>1, <2>2 DEF ConsoleInv, LatestInPort, LineInOrder
  <2>5. NothingLost'
    BY <2>1, <2>2 DEF ConsoleInv, NothingLost, Length
  <2>. QED
    BY <2>3, <2>4, <2>5 DEF ConsoleInv
<1>4. CASE KbdIrq
  BY <1>4, KbdIrqStep
<1>5. CASE InitEarly
  BY <1>5, InitEarlyStep
<1>6. CASE Format
  BY <1>6, AdvanceStep DEF Format
<1>7. CASE Test
  <2>1. isInit
    BY <1>7 DEF ConsoleInv, Typing, Places, Test, Top, Frames
  <2>. QED
    BY <1>7, <2>1, AdvanceStep DEF Test, TransmitEmpty
<1>8. CASE Out
  BY <1>8, OutStep
<1>9. CASE Return
  BY <1>9, ReturnStep
<1>10. CASE Transmit
  BY <1>10, TransmitStep
<1>. QED
  BY <1>1, <1>2, <1>3, <1>4, <1>5, <1>6, <1>7, <1>8, <1>9, <1>10
     DEF Next, Prints, Processor, Draw, vars

LEMMA ConsoleInvImplies ==
  ASSUME ConsoleInv
  PROVE  TextsArrive
<1> USE DEF Byte
<1> DEFINE M == Len(line)
<1>1. /\ M \in Nat /\ line \in Seq(Nat \X Nat)
      /\ thr = NoByte \/ thr \in Nat \X Nat
  BY DEF ConsoleInv, Typing
<1>0. \A k \in 1 .. M : line[k] \in Nat \X Nat
  BY <1>1
<1>2. CASE thr = NoByte
  <2>1. Sent = line
    BY <1>1, <1>2 DEF Sent
  <2>2. ASSUME NEW k \in 1 .. M
        PROVE  line[k][1] \in Begun /\ line[k][2] \in 1 .. Written(line[k][1])
    <3>1. PICK t \in Nat, i \in Nat : line[k] = <<t, i>>
      BY <1>0
    <3>. QED
      BY <3>1 DEF ConsoleInv, LineInOrder
  <2>3. \A t \in Begun : \A i \in 1 .. Written(t) :
          \/ \E k \in 1 .. M : line[k] = <<t, i>>
          \/ t \in echoes /\ i = Length(t)
    BY <1>2 DEF ConsoleInv, NothingLost, NoByte
  <2>. QED
    BY <2>1, <2>2, <2>3 DEF TextsArrive, ConsoleInv, LineInOrder
<1>3. CASE thr # NoByte
  <2>1. PICK u \in Nat, j \in Nat : thr = <<u, j>>
    BY <1>1, <1>3
  <2>2. Sent = Append(line, <<u, j>>)
    BY <1>1, <1>3, <2>1 DEF Sent
  <2>3. /\ Len(Sent) = M + 1
        /\ \A k \in 1 .. M : Sent[k] = line[k]
        /\ Sent[M + 1] = <<u, j>>
        /\ 1 .. Len(Sent) = 1 .. M \cup {M + 1}
    BY <1>1, <2>2
  <2>4. u \in Begun /\ j = Written(u) /\ j > 0
    BY <2>1 DEF ConsoleInv, LatestInPort
  <2>5. ASSUME NEW k \in 1 .. M
        PROVE  /\ line[k][1] \in Begun /\ line[k][2] \in 1 .. Written(line[k][1])
               /\ line[k][1] = u => line[k][2] < j
    <3>1. PICK t \in Nat, i \in Nat : line[k] = <<t, i>>
      BY <1>0
    <3>. QED
      BY <2>1, <3>1 DEF ConsoleInv, LineInOrder
  <2>6. \A t \in Begun : \A i \in 1 .. Written(t) :
          \/ \E k \in 1 .. M : line[k] = <<t, i>>
          \/ <<t, i>> = <<u, j>>
          \/ t \in echoes /\ i = Length(t)
    BY <2>1 DEF ConsoleInv, NothingLost
  <2> DEFINE S == Sent
  <2>7. \A k \in 1 .. M + 1 : S[k][1] \in Begun /\ S[k][2] \in 1 .. Written(S[k][1])
    <3>. SUFFICES ASSUME NEW k \in 1 .. M + 1
                  PROVE  S[k][1] \in Begun /\ S[k][2] \in 1 .. Written(S[k][1])
      OBVIOUS
    <3>1. CASE k \in 1 .. M
      <4>1. S[k] = line[k]
        BY <2>3, <3>1
      <4>. QED
        BY <2>5, <3>1, <4>1
    <3>2. CASE k = M + 1
      <4>1. S[k] = <<u, j>>
        BY <2>3, <3>2
      <4>2. j \in 1 .. Written(u)
        BY <2>4
      <4>. QED
        BY <2>4, <4>1, <4>2
    <3>. QED
      BY <2>3, <3>1, <3>2
  <2>8. \A k, l \in 1 .. M + 1 : k < l /\ S[k][1] = S[l][1] => S[k][2] < S[l][2]
    <3>. SUFFICES ASSUME NEW k \in 1 .. M + 1, NEW l \in 1 .. M + 1, k < l, S[k][1] = S[l][1]
                  PROVE  S[k][2] < S[l][2]
      OBVIOUS
    <3>1. k \in 1 .. M /\ S[k] = line[k]
      BY SMTT(30), <1>1, <2>3
    <3>2. CASE l \in 1 .. M
      BY <2>3, <3>1, <3>2 DEF ConsoleInv, LineInOrder
    <3>3. CASE l = M + 1
      BY <2>3, <2>5, <3>1, <3>3
    <3>. QED
      BY <2>3, <3>2, <3>3
  <2>9. \A t \in Begun : \A i \in 1 .. Written(t) :
          \/ \E k \in 1 .. M + 1 : S[k] = <<t, i>>
          \/ t \in echoes /\ i = Length(t)
    <3>1. 1 .. M \subseteq 1 .. M + 1 /\ M + 1 \in 1 .. M + 1
      BY <1>1
    <3>. QED
      BY <2>3, <2>6, <3>1
  <2>. QED
    BY <2>3, <2>7, <2>8, <2>9 DEF TextsArrive
<1>. QED
  BY <1>2, <1>3

\* Every text arrives whole and in order, but for the last byte of a handler's,
\* whatever the texts and however deep the handlers nest (console_write of
\* debug_output.c with kbd_handler of ps2kbd.c).
THEOREM EveryTextArrives == Spec => []TextsArrive
<1>1. Init => ConsoleInv
  <2>. SUFFICES ASSUME Init PROVE ConsoleInv
    OBVIOUS
  <2>1. stack = <<>> /\ texts = <<>> /\ line = <<>> /\ thr = NoByte /\ echoes = {} /\ isInit = FALSE /\ ints = FALSE
    BY DEF Init
  <2>2. Begun = {} /\ Frames = {}
    BY <2>1 DEF Begun, Frames
  <2>3. Typing
    <3>1. <<>> \in Seq(CallRec) /\ <<>> \in Seq(Nat) /\ <<>> \in Seq(Nat \X Nat)
      OBVIOUS
    <3>. QED
      BY <2>1, <3>1 DEF Typing
  <2>4. Places /\ OneCallEach /\ HandlersAbove /\ OvertakenByEchoes
    BY <2>2 DEF Places, OneCallEach, HandlersAbove, OvertakenByEchoes
  <2>5. LatestInPort /\ LineInOrder /\ NothingLost
    BY <2>1, <2>2 DEF LatestInPort, LineInOrder, NothingLost, NoByte, Byte
  <2>. QED
    BY <2>3, <2>4, <2>5 DEF ConsoleInv
<1>2. ConsoleInv /\ [Next]_vars => ConsoleInv'
  BY ConsoleNext
<1>3. ConsoleInv => TextsArrive
  BY ConsoleInvImplies
<1>. QED
  BY <1>1, <1>2, <1>3, PTL DEF Spec

-----------------------------------------------------------------------------
(* The screen.  A screen is taken apart in its cells, the position of the   *)
(* cursor and the column of a character that was lost below it.             *)

Screen(v, x, y, m) == [video |-> v, cursor |-> [x |-> x, y |-> y], missed |-> m]
Shifted(v) == [r \in 0 .. ROWS - 1 |-> IF r < ROWS - 1 THEN v[r + 1] ELSE BlankRow]




\* A cell of a screen, and of the last line of a paper.
CellSet(v, x, y, c) == [v EXCEPT ![y] = [v[y] EXCEPT ![x] = c]]
LineSet(p, x, c)    == [p EXCEPT ![Len(p)][x] = c]

Cells   == Glyph \cup {"blank"}
Rows    == [0 .. COLS - 1 -> Cells]
Videos  == [0 .. ROWS - 1 -> Rows]
LEMMA ScreenFields ==
  ASSUME NEW v, NEW x, NEW y, NEW m
  PROVE  /\ Screen(v, x, y, m).video = v /\ Screen(v, x, y, m).missed = m
         /\ Screen(v, x, y, m).cursor.x = x /\ Screen(v, x, y, m).cursor.y = y
         /\ \A a, b : [Screen(v, x, y, m) EXCEPT !.cursor = [x |-> a, y |-> b]] = Screen(v, a, b, m)
BY DEF Screen


LEMMA WriteOnScreen ==
  ASSUME NEW v, NEW x, NEW y, NEW m, NEW c, y < ROWS
  PROVE  Write(Screen(v, x, y, m), c) = Screen(CellSet(v, x, y, c), x + 1, y, m)
<1>1. PICK s : s = Screen(v, x, y, m)
  OBVIOUS
<1>2. s.cursor.x = x /\ s.cursor.y = y
  BY <1>1, ScreenFields
<1>3. \A d : [Screen(d, x, y, m) EXCEPT !.cursor.x = @ + 1] = Screen(d, x + 1, y, m)
  BY DEF Screen
<1>4. [s EXCEPT !.video[y][x] = c, !.cursor.x = @ + 1] = [[s EXCEPT !.video[y][x] = c] EXCEPT !.cursor.x = @ + 1]
  BY SMT
<1>5. [s EXCEPT !.video[y][x] = c] = Screen(CellSet(v, x, y, c), x, y, m)
  BY <1>1 DEF Screen, CellSet
<1>6. Write(s, c) = [s EXCEPT !.video[y][x] = c, !.cursor.x = @ + 1]
  BY <1>2 DEF Write
<1>. QED
  BY <1>1, <1>3, <1>4, <1>5, <1>6

LEMMA WriteBelowScreen ==
  ASSUME NEW v, NEW x, NEW y, NEW m, NEW c, ~(y < ROWS)
  PROVE  Write(Screen(v, x, y, m), c) = Screen(v, x + 1, y, IF c = "blank" THEN m ELSE x)
<1>1. PICK s, n : s = Screen(v, x, y, m) /\ n = IF c = "blank" THEN m ELSE x
  OBVIOUS
<1>2. s.cursor.y = y /\ s.cursor.x = x /\ s.missed = m /\ s = Screen(v, x, y, m)
  BY <1>1, ScreenFields
<1>3. [Screen(v, x, y, n) EXCEPT !.cursor.x = @ + 1] = Screen(v, x + 1, y, n)
  BY DEF Screen
<1>4. [s EXCEPT !.missed = n, !.cursor.x = @ + 1] = [[s EXCEPT !.missed = n] EXCEPT !.cursor.x = @ + 1]
  BY SMT
<1>5. [s EXCEPT !.missed = n] = Screen(v, x, y, n)
  BY <1>2 DEF Screen
<1>6. [s EXCEPT !.missed = n, !.cursor.x = @ + 1] = Screen(v, x + 1, y, n)
  BY <1>3, <1>4, <1>5
<1>7. Write(s, c) = [s EXCEPT !.missed = n, !.cursor.x = @ + 1]
  BY <1>1, <1>2 DEF Write
<1>. QED
  BY <1>1, <1>6, <1>7

LEMMA ScrollScreen ==
  ASSUME NEW v, NEW x, NEW y, NEW m
  PROVE  Scroll(Screen(v, x, y, m)) =
           IF y < ROWS THEN Screen(v, x, y, m) ELSE Screen(Shifted(v), x, ROWS - 1, m)
<1>1. PICK s, w, z : s = Screen(v, x, y, m) /\ w = Shifted(v) /\ z = ROWS - 1
  OBVIOUS
<1>2. s.cursor.y = y /\ s.video = v
  BY <1>1, ScreenFields
<1>3. [s EXCEPT !.cursor.y = z, !.video = w] = Screen(w, x, z, m)
  <2>1. [s EXCEPT !.cursor.y = z, !.video = w] = [[s EXCEPT !.cursor.y = z] EXCEPT !.video = w]
    BY SMT
  <2>2. [s EXCEPT !.cursor.y = z] = Screen(v, x, z, m)
    BY <1>1 DEF Screen
  <2>3. [Screen(v, x, z, m) EXCEPT !.video = w] = Screen(w, x, z, m)
    BY DEF Screen
  <2>. QED
    BY <2>1, <2>2, <2>3
<1>4. Scroll(s) = IF s.cursor.y < ROWS THEN s ELSE [s EXCEPT !.cursor.y = ROWS - 1, !.video = Shifted(s.video)]
  BY DEF Scroll, Shifted
<1>7. CASE y < ROWS
  BY <1>1, <1>2, <1>4, <1>7
<1>8. CASE ~(y < ROWS)
  BY <1>1, <1>2, <1>3, <1>4, <1>8
<1>. QED
  BY <1>7, <1>8

LEMMA WrapScreen ==
  ASSUME NEW v, NEW x, NEW y, NEW m
  PROVE  Wrap(Screen(v, x, y, m)) =
           LET nx == IF x < COLS THEN x ELSE 0
               ny == IF x < COLS THEN y ELSE y + 1
           IN  IF ny < ROWS THEN Screen(v, nx, ny, m) ELSE Screen(Shifted(v), nx, ROWS - 1, m)
<1>1. PICK s : s = Screen(v, x, y, m)
  OBVIOUS
<1>2. s.cursor.x = x /\ s.cursor.y = y
  BY <1>1, ScreenFields
<1>3. [s EXCEPT !.cursor = [x |-> 0, y |-> s.cursor.y + 1]] = Screen(v, 0, y + 1, m)
  BY <1>1, <1>2 DEF Screen
<1>4. Wrap(s) = Scroll(IF s.cursor.x < COLS THEN s ELSE [s EXCEPT !.cursor = [x |-> 0, y |-> s.cursor.y + 1]])
  BY DEF Wrap
<1>5. CASE x < COLS
  BY <1>1, <1>2, <1>4, <1>5, ScrollScreen
<1>6. CASE ~(x < COLS)
  <2>1. Wrap(s) = Scroll(Screen(v, 0, y + 1, m))
    BY <1>2, <1>3, <1>4, <1>6
  <2>. QED
    BY <1>1, <1>6, <2>1, ScrollScreen
<1>. QED
  BY <1>5, <1>6
\* A row shows the k-th line, but for the character of the first one that was lost.
RowShows(row, k, line_, m) ==
  \A x \in 0 .. COLS - 1 : row[x] = line_[x] \/ (k = 1 /\ x = m /\ row[x] = "blank")

\* The rows from the cursor upwards show the end of the paper, those below it
\* nothing.
Shown(v, y, m, p) ==
  /\ \A k \in 1 .. Len(p) : Len(p) - k <= y => RowShows(v[y - (Len(p) - k)], k, p[k], m)
  /\ \A r \in 0 .. ROWS - 1 : r > y => v[r] = BlankRow

LEMMA SameRowShows ==
  ASSUME NEW row, NEW other, row = other, NEW k, NEW m
  PROVE  RowShows(row, k, other, m)
<1>1. \A x \in 0 .. COLS - 1 : row[x] = other[x]
  OBVIOUS
<1>. QED
  BY ZenonT(20), <1>1 DEF RowShows

LEMMA ScreenConstants ==
  /\ COLS \in Nat \ {0} /\ ROWS \in Nat \ {0} /\ TAB \in Nat \ {0}
  /\ BlankRow \in Rows
BY ScreenAssumption DEF BlankRow, Rows, Cells

\* A new line, on the screen and on the paper.
LEMMA NewLineShown ==
  ASSUME NEW v \in Videos, NEW y \in 0 .. ROWS - 1, NEW m \in 0 .. COLS, NEW p \in Seq(Rows),
         Shown(v, y, m, p)
  PROVE  /\ Append(p, BlankRow) \in Seq(Rows)
         /\ Shifted(v) \in Videos
         /\ y + 1 < ROWS => Shown(v, y + 1, m, Append(p, BlankRow))
         /\ y + 1 = ROWS => Shown(Shifted(v), ROWS - 1, m, Append(p, BlankRow))
<1> USE ScreenConstants
<1> DEFINE q == Append(p, BlankRow)
           L == Len(p)
<1>1. q \in Seq(Rows) /\ Len(q) = L + 1 /\ L \in Nat /\ (\A k \in 1 .. L : q[k] = p[k]) /\ q[L + 1] = BlankRow
  OBVIOUS
<1>2. Shifted(v) \in Videos
  BY DEF Shifted, Videos
<1> HIDE DEF q
<1>3. ASSUME y + 1 < ROWS
      PROVE  Shown(v, y + 1, m, q)
  <2>1. ASSUME NEW k \in 1 .. L + 1, L + 1 - k <= y + 1
        PROVE  RowShows(v[y + 1 - (L + 1 - k)], k, q[k], m)
    <3>1. CASE k = L + 1
      <4>1. y + 1 - (L + 1 - k) = y + 1 /\ v[y + 1] = BlankRow /\ q[k] = BlankRow
        BY <1>1, <1>3, <3>1 DEF Shown
      <4>. QED
        BY <4>1, SameRowShows
    <3>2. CASE k \in 1 .. L
      <4>1. L - k <= y /\ y + 1 - (L + 1 - k) = y - (L - k)
        BY <1>1, <2>1, <3>2
      <4>. QED
        BY <1>1, <1>3, <3>2, <4>1 DEF Shown
    <3>. QED
      BY <1>1, <3>1, <3>2
  <2>2. \A r \in 0 .. ROWS - 1 : r > y + 1 => v[r] = BlankRow
    BY <1>3 DEF Shown
  <2>. QED
    BY <1>1, <2>1, <2>2 DEF Shown
<1>4. ASSUME y + 1 = ROWS
      PROVE  Shown(Shifted(v), ROWS - 1, m, q)
  <2>1. ASSUME NEW k \in 1 .. L + 1, L + 1 - k <= ROWS - 1
        PROVE  RowShows(Shifted(v)[ROWS - 1 - (L + 1 - k)], k, q[k], m)
    <3>1. CASE k = L + 1
      <4>1. ROWS - 1 - (L + 1 - k) = ROWS - 1 /\ q[k] = BlankRow
        BY <1>1, <3>1
      <4>2. Shifted(v)[ROWS - 1] = BlankRow
        BY DEF Shifted
      <4>. QED
        BY <4>1, <4>2, SameRowShows
    <3>2. CASE k \in 1 .. L
      <4>1. L - k <= y /\ ROWS - 1 - (L + 1 - k) = y - (L - k) - 1 /\ y - (L - k) \in 1 .. ROWS - 1
        BY <1>1, <1>4, <2>1, <3>2
      <4>2. Shifted(v)[y - (L - k) - 1] = v[y - (L - k)]
        BY <1>1, <4>1 DEF Shifted
      <4>3. RowShows(v[y - (L - k)], k, p[k], m)
        BY <1>4, <3>2, <4>1 DEF Shown
      <4>. QED
        BY <1>1, <3>2, <4>1, <4>2, <4>3
    <3>. QED
      BY <1>1, <3>1, <3>2
  <2>. QED
    BY <1>1, <2>1 DEF Shown
<1>. QED
  BY <1>1, <1>2, <1>3, <1>4 DEF Shown, q

\* A character in the row of the cursor and in the last line of the paper.
LEMMA CellShown ==
  ASSUME NEW v \in Videos, NEW y \in 0 .. ROWS - 1, NEW m \in 0 .. COLS, NEW p \in Seq(Rows),
         p # <<>>, Shown(v, y, m, p), NEW x \in 0 .. COLS - 1, NEW c \in Cells
  PROVE  LET w == CellSet(v, x, y, c)
             q == LineSet(p, x, c)
         IN  w \in Videos /\ q \in Seq(Rows) /\ Len(q) = Len(p) /\ q # <<>> /\ Shown(w, y, m, q)
<1> USE ScreenConstants
<1> DEFINE w == CellSet(v, x, y, c)
           q == LineSet(p, x, c)
           L == Len(p)
<1>1. L \in Nat \ {0} /\ \A k \in 1 .. L : p[k] \in Rows
  OBVIOUS
<1>2. [v[y] EXCEPT ![x] = c] \in Rows /\ [p[L] EXCEPT ![x] = c] \in Rows
  BY <1>1 DEF Videos, Rows
<1>3. w \in Videos /\ (\A r \in 0 .. ROWS - 1 : w[r] = IF r = y THEN [v[y] EXCEPT ![x] = c] ELSE v[r])
  BY <1>2 DEF Videos, CellSet
<1>4. q = [p EXCEPT ![L] = [p[L] EXCEPT ![x] = c]]
  BY DEF LineSet
<1>5. q \in Seq(Rows) /\ Len(q) = L /\ q # <<>>
      /\ \A k \in 1 .. L : q[k] = IF k = L THEN [p[L] EXCEPT ![x] = c] ELSE p[k]
  BY <1>1, <1>2, <1>4
<1> HIDE DEF w, q
<1>6. Shown(w, y, m, q)
  <2>1. ASSUME NEW k \in 1 .. L, L - k <= y
        PROVE  RowShows(w[y - (L - k)], k, q[k], m)
    <3>1. RowShows(v[y - (L - k)], k, p[k], m)
      BY <2>1 DEF Shown
    <3>2. y - (L - k) \in 0 .. ROWS - 1 /\ (y - (L - k) = y <=> k = L)
      BY <1>1, <2>1
    <3>3. CASE k = L
      <4>1. w[y - (L - k)] = [v[y] EXCEPT ![x] = c] /\ q[k] = [p[L] EXCEPT ![x] = c]
            /\ RowShows(v[y], k, p[L], m)
        BY <1>3, <1>5, <3>1, <3>2, <3>3
      <4>2. v[y] \in Rows /\ p[L] \in Rows
        BY <1>1 DEF Videos
      <4>. QED
        <5>1. PICK row, line_ : row = w[y - (L - k)] /\ line_ = q[k]
          OBVIOUS
        <5>2. ASSUME NEW z \in 0 .. COLS - 1
              PROVE  row[z] = line_[z] \/ (k = 1 /\ z = m /\ row[z] = "blank")
          <6>1. CASE z = x
            BY <4>1, <4>2, <5>1, <6>1 DEF Rows
          <6>2. CASE z # x
            <7>1. row[z] = v[y][z] /\ line_[z] = p[L][z]
              BY <4>1, <4>2, <5>1, <6>2 DEF Rows
            <7>2. v[y][z] = p[L][z] \/ (k = 1 /\ z = m /\ v[y][z] = "blank")
              BY <4>1 DEF RowShows
            <7>. QED
              BY <7>1, <7>2
          <6>. QED
            BY <6>1, <6>2
        <5>. QED
          BY <5>1, <5>2 DEF RowShows
    <3>4. CASE k # L
      BY <1>3, <1>5, <3>1, <3>2, <3>4
    <3>. QED
      BY <3>3, <3>4
  <2>2. \A r \in 0 .. ROWS - 1 : r > y => w[r] = BlankRow
    BY <1>3 DEF Shown
  <2>. QED
    BY <1>5, <2>1, <2>2 DEF Shown
<1>. QED
  BY <1>3, <1>5, <1>6 DEF Shown, w, q


BlankVideo == [r \in 0 .. ROWS - 1 |-> BlankRow]
Keys       == Glyph \cup {"backspace", "tab", "return", "newline"}

\* A screen that shows the paper.  The cursor is below it only as long as the
\* boot loader's position was not moved.
ScreenOk(v, x, y, m, p) ==
  /\ v \in Videos /\ x \in 0 .. COLS - 1 /\ y \in Nat /\ m \in 0 .. COLS
  /\ p \in Seq(Rows) /\ p # <<>>
  /\ y < ROWS => Shown(v, y, m, p)
  /\ y >= ROWS => v = BlankVideo /\ m = COLS /\ p = <<BlankRow>>

LEMMA TabStops ==
  ASSUME NEW x \in 0 .. COLS - 1
  PROVE  LET next == ((x + TAB) \div TAB) * TAB
         IN  next \in Nat /\ (next >= COLS <=> x >= COLS - TAB)
<1> USE ScreenConstants
<1>1. PICK q, c : q = (x + TAB) \div TAB /\ c = COLS \div TAB
  OBVIOUS
<1>2. q \in Nat /\ q * TAB <= x + TAB /\ x + TAB < (q + 1) * TAB
  BY <1>1
<1>3. c \in Nat /\ COLS = c * TAB
  BY <1>1, ScreenAssumption
<1>4. q * TAB \in Nat /\ (q + 1) * TAB = q * TAB + TAB
  BY <1>2
<1>5. q >= c => q * TAB >= c * TAB
  BY <1>2, <1>3
<1>6. q + 1 <= c => (q + 1) * TAB <= c * TAB
  BY <1>2, <1>3
<1>. QED
  BY <1>1, <1>2, <1>3, <1>4, <1>5, <1>6

\* Blank lines on a blank screen.
LEMMA BlankShown ==
  ASSUME NEW m \in 0 .. COLS, NEW p \in {<<BlankRow>>, Append(<<BlankRow>>, BlankRow)}
  PROVE  /\ BlankVideo \in Videos /\ Shifted(BlankVideo) = BlankVideo
         /\ p \in Seq(Rows) /\ p # <<>>
         /\ Shown(BlankVideo, ROWS - 1, m, p)
<1> USE ScreenConstants
<1>1. BlankVideo \in Videos /\ Shifted(BlankVideo) = BlankVideo
  BY DEF BlankVideo, Videos, Shifted
<1>2. p \in Seq(Rows) /\ p # <<>> /\ Len(p) \in {1, 2} /\ \A k \in 1 .. Len(p) : p[k] = BlankRow
  <2>1. CASE p = <<BlankRow>>
    BY <2>1
  <2>2. CASE p = Append(<<BlankRow>>, BlankRow)
    BY <2>2
  <2>. QED
    BY <2>1, <2>2
<1>3. \A k \in 1 .. Len(p) : Len(p) - k <= ROWS - 1 => BlankVideo[ROWS - 1 - (Len(p) - k)] = p[k]
  BY <1>2 DEF BlankVideo
<1>4. \A r \in 0 .. ROWS - 1 : BlankVideo[r] = BlankRow
  BY DEF BlankVideo
<1>5. \A k \in 1 .. Len(p) : Len(p) - k <= ROWS - 1 =>
        RowShows(BlankVideo[ROWS - 1 - (Len(p) - k)], k, p[k], m)
  BY <1>3, SameRowShows
<1>. QED
  BY <1>1, <1>2, <1>4, <1>5 DEF Shown

\* A blank screen, and a paper with the character that was lost.
LEMMA LostShown ==
  ASSUME NEW x \in 0 .. COLS - 1, NEW c \in Cells, NEW q, q = LineSet(<<BlankRow>>, x, c),
         NEW p \in {q, Append(q, BlankRow)}
  PROVE  p \in Seq(Rows) /\ p # <<>> /\ Shown(BlankVideo, ROWS - 1, x, p)
<1> USE ScreenConstants
<1>1. PICK typed \in Rows : typed = [BlankRow EXCEPT ![x] = c]
  BY DEF Rows
<1>2. q = <<typed>>
  <2>1. PICK one : one = <<BlankRow>>
    OBVIOUS
  <2>2. Len(one) = 1 /\ one[1] = BlankRow /\ one \in Seq(Rows)
    BY <2>1
  <2>3. [one EXCEPT ![1] = typed] = <<typed>>
    BY <2>1
  <2>4. LineSet(one, x, c) = [one EXCEPT ![1] = [BlankRow EXCEPT ![x] = c]]
    BY <2>2 DEF LineSet
  <2>. QED
    BY <1>1, <2>1, <2>3, <2>4
<1>3. /\ p \in Seq(Rows) /\ p # <<>> /\ Len(p) \in {1, 2} /\ p[1] = typed
      /\ Len(p) = 2 => p[2] = BlankRow
  <2>1. CASE p = <<typed>>
    BY <2>1
  <2>2. CASE p = Append(<<typed>>, BlankRow)
    BY <2>2
  <2>. QED
    BY <1>2, <2>1, <2>2
<1>4. \A r \in 0 .. ROWS - 1 : BlankVideo[r] = BlankRow
  BY DEF BlankVideo
<1>5. RowShows(BlankRow, 1, typed, x)
  <2>1. \A z \in 0 .. COLS - 1 : BlankRow[z] = "blank" /\ (z # x => typed[z] = BlankRow[z])
    BY <1>1 DEF BlankRow
  <2>2. \A z \in 0 .. COLS - 1 : BlankRow[z] = typed[z] \/ (1 = 1 /\ z = x /\ BlankRow[z] = "blank")
    BY <2>1
  <2>. QED
    BY <2>2 DEF RowShows
<1>6. ASSUME NEW k \in 1 .. Len(p), Len(p) - k <= ROWS - 1
      PROVE  RowShows(BlankVideo[ROWS - 1 - (Len(p) - k)], k, p[k], x)
  <2>1. BlankVideo[ROWS - 1 - (Len(p) - k)] = BlankRow
    BY <1>3, <1>4, <1>6
  <2>2. CASE k = 1
    BY <1>3, <1>5, <2>1, <2>2
  <2>3. CASE k # 1
    <3>1. k = 2 /\ Len(p) = 2
      <4>1. PICK n \in {1, 2} : n = Len(p)
        BY <1>3
      <4>2. k \in 1 .. n
        BY <4>1
      <4>3. k = 2 /\ n = 2
        BY <2>3, <4>1, <4>2
      <4>. QED
        BY <4>1, <4>3
    <3>2. p[k] = BlankRow
      BY <1>3, <3>1
    <3>. QED
      BY <2>1, <3>2, SameRowShows
  <2>. QED
    BY <2>2, <2>3
<1>. QED
  BY <1>3, <1>4, <1>6 DEF Shown

Settled(s, p) ==
  \E w, a, b, n : s = Screen(w, a, b, n) /\ b < ROWS /\ ScreenOk(w, a, b, n, p)

LEMMA WrapSettles ==
  ASSUME NEW v \in Videos, NEW x \in Nat, NEW y \in 0 .. ROWS - 1, NEW m \in 0 .. COLS,
         NEW p \in Seq(Rows), p # <<>>, Shown(v, y, m, p)
  PROVE  /\ x < COLS => Settled(Wrap(Screen(v, x, y, m)), p)
         /\ x >= COLS => Settled(Wrap(Screen(v, x, y, m)), Append(p, BlankRow))
         /\ Settled(Wrap(Screen(v, 0, y + 1, m)), Append(p, BlankRow))
<1> USE ScreenConstants
<1> DEFINE q == Append(p, BlankRow)
<1>1. q \in Seq(Rows) /\ q # <<>>
  OBVIOUS
<1>2. ASSUME x < COLS
      PROVE  Settled(Wrap(Screen(v, x, y, m)), p)
  <2>1. Wrap(Screen(v, x, y, m)) = Screen(v, x, y, m)
    BY <1>2, WrapScreen
  <2>2. ScreenOk(v, x, y, m, p)
    BY <1>2 DEF ScreenOk
  <2>. QED
    BY <2>1, <2>2 DEF Settled
<1>3. /\ Shifted(v) \in Videos
      /\ y + 1 < ROWS => Shown(v, y + 1, m, q)
      /\ y + 1 = ROWS => Shown(Shifted(v), ROWS - 1, m, q)
  BY NewLineShown
<1> HIDE DEF q
<1>4. CASE y + 1 < ROWS
  <2>1. ScreenOk(v, 0, y + 1, m, q)
    BY <1>1, <1>3, <1>4 DEF ScreenOk
  <2>2. Wrap(Screen(v, 0, y + 1, m)) = Screen(v, 0, y + 1, m)
    BY <1>4, WrapScreen
  <2>3. x >= COLS => Wrap(Screen(v, x, y, m)) = Screen(v, 0, y + 1, m)
    BY <1>4, WrapScreen
  <2>4. Settled(Screen(v, 0, y + 1, m), q)
    BY <1>4, <2>1 DEF Settled
  <2>. QED
    BY <1>2, <2>2, <2>3, <2>4 DEF q
<1>5. CASE y + 1 = ROWS
  <2>1. ScreenOk(Shifted(v), 0, ROWS - 1, m, q)
    BY <1>1, <1>3, <1>5 DEF ScreenOk
  <2>2. Wrap(Screen(v, 0, y + 1, m)) = Screen(Shifted(v), 0, ROWS - 1, m)
    BY <1>5, WrapScreen
  <2>3. x >= COLS => Wrap(Screen(v, x, y, m)) = Screen(Shifted(v), 0, ROWS - 1, m)
    BY <1>5, WrapScreen
  <2>4. Settled(Screen(Shifted(v), 0, ROWS - 1, m), q)
    BY <2>1 DEF Settled
  <2>. QED
    BY <1>2, <2>2, <2>3, <2>4 DEF q
<1>. QED
  BY <1>4, <1>5

\* From a position below the screen the cursor moves to the last row.
LEMMA WrapFromBelow ==
  ASSUME NEW x \in Nat, NEW y \in Nat, y >= ROWS, NEW m \in 0 .. COLS, NEW p \in Seq(Rows), p # <<>>,
         Shown(BlankVideo, ROWS - 1, m, p)
  PROVE  Settled(Wrap(Screen(BlankVideo, x, y, m)), p)
<1> USE ScreenConstants
<1>1. PICK a \in 0 .. COLS - 1 : a = IF x < COLS THEN x ELSE 0
  OBVIOUS
<1>2. BlankVideo \in Videos /\ Shifted(BlankVideo) = BlankVideo
  BY BlankShown
<1>4. Wrap(Screen(BlankVideo, x, y, m)) = Screen(BlankVideo, a, ROWS - 1, m)
  BY <1>1, <1>2, WrapScreen
<1>5. ScreenOk(BlankVideo, a, ROWS - 1, m, p)
  BY <1>2 DEF ScreenOk
<1>. QED
  BY <1>4, <1>5 DEF Settled

\* console_put keeps the screen as the paper, for every character.
LEMMA PutSettles ==
  ASSUME NEW v, NEW x, NEW y, NEW m, NEW p, ScreenOk(v, x, y, m, p), NEW c \in Keys
  PROVE  Settled(Put(Screen(v, x, y, m), c), NextPaper(p, x, c))
<1> USE ScreenConstants
<1>1. PICK s : s = Screen(v, x, y, m)
  OBVIOUS
<1>2. s.cursor.x = x /\ s.cursor.y = y /\ \A a, b : [s EXCEPT !.cursor = [x |-> a, y |-> b]] = Screen(v, a, b, m)
  BY <1>1, ScreenFields
<1>3. \A a : [s EXCEPT !.cursor.x = a] = Screen(v, a, y, m)
  BY <1>1 DEF Screen
<1>4. /\ v \in Videos /\ x \in 0 .. COLS - 1 /\ y \in Nat /\ m \in 0 .. COLS
      /\ p \in Seq(Rows) /\ p # <<>>
      /\ Append(p, BlankRow) \in Seq(Rows) /\ Append(p, BlankRow) # <<>>
  BY DEF ScreenOk
<1>5. CASE c = "tab"
  <2>1. PICK t : t = ((x + TAB) \div TAB) * TAB
    OBVIOUS
  <2>2. t \in Nat /\ (t >= COLS <=> x >= COLS - TAB)
    BY <1>4, <2>1, TabStops
  <2>3. Put(s, c) = Wrap([s EXCEPT !.cursor.x = ((s.cursor.x + TAB) \div TAB) * TAB])
    BY <1>5, ScreenAssumption DEF Put
  <2>4. Put(s, c) = Wrap(Screen(v, t, y, m))
    BY <1>2, <1>3, <2>1, <2>3
  <2>5. NextPaper(p, x, c) = IF t >= COLS THEN Append(p, BlankRow) ELSE p
    BY <1>5, <2>2, ScreenAssumption DEF NextPaper
  <2>6. CASE y < ROWS
    BY <1>1, <1>4, <2>2, <2>4, <2>5, <2>6, WrapSettles DEF ScreenOk
  <2>7. CASE y >= ROWS
    <3>1. v = BlankVideo /\ p = <<BlankRow>>
      BY <2>7 DEF ScreenOk
    <3>2. NextPaper(p, x, c) \in {<<BlankRow>>, Append(<<BlankRow>>, BlankRow)}
      BY <2>5, <3>1
    <3>3. /\ NextPaper(p, x, c) \in Seq(Rows) /\ NextPaper(p, x, c) # <<>>
          /\ Shown(BlankVideo, ROWS - 1, m, NextPaper(p, x, c))
      BY <1>4, <3>2, BlankShown
    <3>. QED
      BY <1>1, <1>4, <2>2, <2>4, <2>7, <3>1, <3>3, WrapFromBelow
  <2>. QED
    BY <1>4, <2>6, <2>7
<1>6. CASE c = "return"
  <2>1. Put(s, c) = Wrap([s EXCEPT !.cursor.x = 0])
    BY <1>6, ScreenAssumption DEF Put
  <2>2. Put(s, c) = Wrap(Screen(v, 0, y, m))
    BY <1>3, <2>1
  <2>3. NextPaper(p, x, c) = p
    BY <1>6, ScreenAssumption DEF NextPaper
  <2>4. CASE y < ROWS
    BY <1>1, <1>4, <2>2, <2>3, <2>4, WrapSettles DEF ScreenOk
  <2>5. CASE y >= ROWS
    <3>1. v = BlankVideo /\ p = <<BlankRow>>
      BY <2>5 DEF ScreenOk
    <3>2. Shown(BlankVideo, ROWS - 1, m, p)
      BY <1>4, <3>1, BlankShown
    <3>. QED
      BY <1>1, <1>4, <2>2, <2>3, <2>5, <3>1, <3>2, WrapFromBelow
  <2>. QED
    BY <1>4, <2>4, <2>5
<1>7. CASE c = "newline"
  <2>1. Put(s, c) = Wrap([s EXCEPT !.cursor = [x |-> 0, y |-> s.cursor.y + 1]])
    BY <1>7, ScreenAssumption DEF Put
  <2>2. Put(s, c) = Wrap(Screen(v, 0, y + 1, m))
    BY <1>2, <2>1
  <2>3. NextPaper(p, x, c) = Append(p, BlankRow)
    BY <1>7, ScreenAssumption DEF NextPaper
  <2>4. CASE y < ROWS
    BY <1>1, <1>4, <2>2, <2>3, <2>4, WrapSettles DEF ScreenOk
  <2>5. CASE y >= ROWS
    <3>1. y + 1 \in Nat /\ y + 1 >= ROWS /\ 0 \in Nat
      BY <1>4, <2>5
    <3>2. p = <<BlankRow>> /\ v = BlankVideo
      BY <2>5 DEF ScreenOk
    <3>3. Append(p, BlankRow) \in {<<BlankRow>>, Append(<<BlankRow>>, BlankRow)}
      BY <3>2
    <3>4. Settled(Wrap(Screen(BlankVideo, 0, y + 1, m)), Append(p, BlankRow))
      <4>1. Shown(BlankVideo, ROWS - 1, m, Append(p, BlankRow))
        BY <1>4, <3>3, BlankShown
      <4>. QED
        BY <1>4, <3>1, <4>1, WrapFromBelow
    <3>. QED
      BY <1>1, <2>2, <2>3, <3>2, <3>4
  <2>. QED
    BY <1>4, <2>4, <2>5
<1>8. CASE c \in Glyph
  <2>1. c \notin {"backspace", "tab", "return", "newline", "blank"} /\ c \in Cells
    BY <1>8, ScreenAssumption DEF Cells
  <2>2. Put(s, c) = Wrap(Write(s, c))
    BY <1>8, <2>1 DEF Put
  <2>3. NextPaper(p, x, c) = Typed(p, x, c)
    BY <1>8, <2>1 DEF NextPaper
  <2>4. CASE y < ROWS
    <3>1. PICK w, q : w = CellSet(v, x, y, c) /\ q = LineSet(p, x, c)
      OBVIOUS
    <3>2. w \in Videos /\ q \in Seq(Rows) /\ q # <<>> /\ Shown(w, y, m, q)
      BY <1>4, <2>1, <2>4, <3>1, CellShown DEF ScreenOk
    <3>3. Put(s, c) = Wrap(Screen(w, x + 1, y, m))
      BY <1>1, <2>2, <2>4, <3>1, WriteOnScreen
    <3>4. Typed(p, x, c) = IF x + 1 < COLS THEN q ELSE Append(q, BlankRow)
      BY <3>1 DEF Typed, LineSet
    <3>. QED
      BY <1>1, <1>4, <2>3, <2>4, <3>2, <3>3, <3>4, WrapSettles
  <2>5. CASE y >= ROWS
    <3>1. v = BlankVideo /\ p = <<BlankRow>> /\ x \in 0 .. COLS
      BY <1>4, <2>5 DEF ScreenOk
    <3>2. Put(s, c) = Wrap(Screen(BlankVideo, x + 1, y, x))
      BY <1>1, <1>4, <2>1, <2>2, <2>5, <3>1, WriteBelowScreen
    <3>3. PICK q : q = LineSet(<<BlankRow>>, x, c)
      OBVIOUS
    <3>4. Typed(p, x, c) \in {q, Append(q, BlankRow)}
      BY <3>1, <3>3 DEF Typed, LineSet
    <3>5. /\ Typed(p, x, c) \in Seq(Rows) /\ Typed(p, x, c) # <<>>
          /\ Shown(BlankVideo, ROWS - 1, x, Typed(p, x, c))
      BY <1>4, <2>1, <3>3, <3>4, LostShown
    <3>6. Settled(Wrap(Screen(BlankVideo, x + 1, y, x)), Typed(p, x, c))
      BY <1>4, <2>5, <3>1, <3>5, WrapFromBelow
    <3>. QED
      BY <1>1, <2>3, <3>2, <3>6
  <2>. QED
    BY <1>4, <2>4, <2>5
<1>9. CASE c = "backspace" /\ x > 0
  <2>1. Put(s, c) = LET erased == Wrap(Write([s EXCEPT !.cursor.x = x - 1], "blank"))
                    IN  Wrap([erased EXCEPT !.cursor.x = erased.cursor.x - 1])
    BY <1>2, <1>9, ScreenAssumption DEF Put
  <2>2. PICK e : e = Wrap(Write(Screen(v, x - 1, y, m), "blank"))
    OBVIOUS
  <2>3. Put(s, c) = Wrap([e EXCEPT !.cursor.x = e.cursor.x - 1])
    BY <1>3, <2>1, <2>2
  <2>4. NextPaper(p, x, c) = LineSet(p, x - 1, "blank")
    BY <1>9, ScreenAssumption DEF NextPaper, LineSet
  <2>5. PICK q : q = LineSet(p, x - 1, "blank")
    OBVIOUS
  <2>6. CASE y < ROWS
    <3>1. PICK w : w = CellSet(v, x - 1, y, "blank")
      OBVIOUS
    <3>2. x - 1 \in 0 .. COLS - 1 /\ "blank" \in Cells /\ (x - 1) + 1 = x
      BY <1>4, <1>9 DEF Cells
    <3>3. w \in Videos /\ q \in Seq(Rows) /\ q # <<>> /\ Shown(w, y, m, q)
      BY <1>4, <2>5, <2>6, <3>1, <3>2, CellShown DEF ScreenOk
    <3>4. e = Screen(w, x, y, m)
      <4>1. Write(Screen(v, x - 1, y, m), "blank") = Screen(w, x, y, m)
        BY <2>6, <3>1, <3>2, WriteOnScreen
      <4>. QED
        BY <1>4, <2>2, <2>6, <4>1, WrapScreen
    <3>5. [e EXCEPT !.cursor.x = e.cursor.x - 1] = Screen(w, x - 1, y, m)
      BY <3>4 DEF Screen
    <3>6. Settled(Wrap(Screen(w, x - 1, y, m)), q)
      BY <1>4, <1>9, <2>6, <3>2, <3>3, WrapSettles
    <3>. QED
      BY <1>1, <2>3, <2>4, <2>5, <3>5, <3>6
  <2>7. CASE y >= ROWS
    <3>1. v = BlankVideo /\ Shifted(v) = v /\ p = <<BlankRow>>
      BY <1>4, <2>7, BlankShown DEF ScreenOk
    <3>3. e = Screen(v, x, ROWS - 1, m)
      <4>0. x - 1 + 1 = x
        BY <1>4
      <4>1. Write(Screen(v, x - 1, y, m), "blank") = Screen(v, x, y, m)
        BY <1>4, <2>7, <4>0, WriteBelowScreen
      <4>. QED
        BY <1>4, <2>2, <2>7, <3>1, <4>1, WrapScreen
    <3>4. [e EXCEPT !.cursor.x = e.cursor.x - 1] = Screen(v, x - 1, ROWS - 1, m)
      BY <3>3 DEF Screen
    <3>5. q = <<BlankRow>>
      <4>1. [BlankRow EXCEPT ![x - 1] = "blank"] = BlankRow
        BY <1>4, <1>9 DEF BlankRow
      <4>. QED
        BY <2>5, <3>1, <4>1 DEF LineSet
    <3>6. q \in Seq(Rows) /\ q # <<>> /\ Shown(v, ROWS - 1, m, q)
      BY <1>4, <3>1, <3>5, BlankShown
    <3>7. Settled(Wrap(Screen(v, x - 1, ROWS - 1, m)), q)
      BY <1>4, <1>9, <3>1, <3>6, WrapSettles DEF ScreenOk
    <3>. QED
      BY <1>1, <2>3, <2>4, <2>5, <3>4, <3>7
  <2>. QED
    BY <1>4, <2>6, <2>7
<1>10. CASE c = "backspace" /\ ~(x > 0)
  <2>1. Put(s, c) = Wrap(s)
    BY <1>2, <1>10, ScreenAssumption DEF Put
  <2>2. NextPaper(p, x, c) = p
    BY <1>10, ScreenAssumption DEF NextPaper
  <2>3. CASE y < ROWS
    BY <1>1, <1>4, <2>1, <2>2, <2>3, WrapSettles DEF ScreenOk
  <2>4. CASE y >= ROWS
    <3>1. v = BlankVideo /\ p = <<BlankRow>>
      BY <2>4 DEF ScreenOk
    <3>2. Shown(BlankVideo, ROWS - 1, m, p)
      BY <1>4, <3>1, BlankShown
    <3>. QED
      <4>1. Settled(Wrap(Screen(BlankVideo, x, y, m)), p)
        BY <1>4, <2>4, <3>2, WrapFromBelow
      <4>. QED
        BY <1>1, <2>1, <2>2, <3>1, <4>1
  <2>. QED
    BY <1>4, <2>3, <2>4
<1>. QED
  BY <1>1, <1>5, <1>6, <1>7, <1>8, <1>9, <1>10 DEF Keys

ScreenInv ==
  /\ cursor \in [x : 0 .. COLS - 1, y : Nat] /\ crtc \in Nat
  /\ ScreenOk(video, cursor.x, cursor.y, missed, paper)
  /\ Len(paper) > 1 => crtc = Cell(cursor)
  /\ ~isInit => video = BlankVideo /\ missed = COLS /\ paper = <<BlankRow>> /\ ~faulted
  /\ faulted \in BOOLEAN
  /\ faulted => cursor.y >= ROWS /\ Cell(cursor) >= CELLS

LEMMA BlankScreenOk ==
  ASSUME NEW x \in 0 .. COLS - 1, NEW y \in Nat, NEW m, m = COLS
  PROVE  ScreenOk(BlankVideo, x, y, m, <<BlankRow>>)
<1> USE ScreenConstants
<1>1. BlankVideo \in Videos /\ <<BlankRow>> \in Seq(Rows) /\ <<BlankRow>> # <<>>
  BY BlankShown
<1>2. y < ROWS => Shown(BlankVideo, y, m, <<BlankRow>>)
  BY SameRowShows DEF Shown, BlankVideo
<1>. QED
  BY <1>1, <1>2 DEF ScreenOk

LEMMA ScreenInitOk ==
  ASSUME Init
  PROVE  ScreenInv
<1> USE ScreenConstants
<1>1. /\ cursor = [x |-> 0, y |-> 0] /\ video = BlankVideo /\ paper = <<BlankRow>>
      /\ missed = COLS /\ faulted = FALSE
  BY DEF Init, ScreenInit, BlankVideo
<1>2. crtc \in Nat
  <2>1. ROWS * COLS \in Nat
    OBVIOUS
  <2>. QED
    BY <2>1 DEF Init, ScreenInit
<1>3. cursor \in [x : 0 .. COLS - 1, y : Nat] /\ cursor.x = 0 /\ cursor.y = 0
  BY <1>1
<1>4. ScreenOk(BlankVideo, 0, 0, missed, <<BlankRow>>)
  BY <1>1, BlankScreenOk
<1>5. Len(paper) = 1
  BY <1>1
<1>6. faulted \in BOOLEAN /\ ~faulted
  BY <1>1
<1>7. ScreenOk(video, cursor.x, cursor.y, missed, paper)
  BY <1>1, <1>3, <1>4
<1>. QED
  BY <1>1, <1>2, <1>3, <1>5, <1>6, <1>7 DEF ScreenInv

\* A cell behind the page is below the screen.
LEMMA BehindIsBelow ==
  ASSUME NEW x \in 0 .. COLS - 1, NEW y \in Nat, y * COLS + x >= CELLS
  PROVE  y >= ROWS
<1> USE ScreenConstants
<1>. SUFFICES ASSUME y <= ROWS - 1 PROVE FALSE
  OBVIOUS
<1>1. y * COLS <= (ROWS - 1) * COLS
  OBVIOUS
<1>2. (ROWS - 1) * COLS = ROWS * COLS - COLS
  OBVIOUS
<1>3. y * COLS \in Nat /\ ROWS * COLS \in Nat /\ ROWS * COLS <= CELLS /\ CELLS \in Nat
  BY ScreenAssumption
<1>. QED
  BY <1>1, <1>2, <1>3

LEMMA FaultStep ==
  ASSUME ScreenInv, NEW c \in Keys, Draw(c), PutFaults(c)
  PROVE  ScreenInv'
<1> USE ScreenConstants
<1>1. PICK x, y : x = cursor.x /\ y = cursor.y /\ x \in 0 .. COLS - 1 /\ y \in Nat
  BY DEF ScreenInv
<1>2. cursor = [x |-> x, y |-> y]
  BY <1>1 DEF ScreenInv
<1>3. faulted' = TRUE /\ UNCHANGED <<video, missed, paper>> /\ isInit'
  BY DEF PutFaults, Draw, port
<1>4. PICK a \in 0 .. COLS - 1 : cursor' = [x |-> a, y |-> y] /\ y * COLS + a >= CELLS /\ crtc' \in Nat
  <2>1. CASE c \in Glyph /\ UNCHANGED <<cursor, crtc>>
    <3>1. c # "backspace" /\ Cell(cursor) = y * COLS + x
      BY <1>1, <2>1, ScreenAssumption DEF Cell
    <3>2. y * COLS + x >= CELLS
      BY <2>1, <3>1 DEF PutFaults, Behind
    <3>. QED
      BY <1>1, <1>2, <2>1, <3>2 DEF ScreenInv
  <2>2. CASE c = "backspace" /\ cursor' = [cursor EXCEPT !.x = @ - 1] /\ crtc' = Cell(cursor')
    <3>1. c \notin Glyph /\ Cell(cursor) = y * COLS + x
      BY <1>1, <2>2, ScreenAssumption DEF Cell
    <3>2. x > 0 /\ y * COLS + x - 1 >= CELLS
      BY <1>1, <3>1 DEF PutFaults, Behind
    <3>3. cursor' = [x |-> x - 1, y |-> y] /\ x - 1 \in 0 .. COLS - 1
      BY <1>1, <1>2, <2>2, <3>2
    <3>4. Cell(cursor') = y * COLS + (x - 1)
      BY <3>3 DEF Cell
    <3>5. y * COLS \in Nat
      BY <1>1
    <3>6. y * COLS + (x - 1) \in Nat /\ y * COLS + (x - 1) >= CELLS
      BY <1>1, <3>2, <3>3, <3>5, ScreenAssumption
    <3>. QED
      BY <2>2, <3>3, <3>4, <3>6
  <2>. QED
    BY <2>1, <2>2 DEF PutFaults
<1>5. PICK z : z = y * COLS + x
  OBVIOUS
<1>6. z >= CELLS
  <2>1. Cell(cursor) = z
    BY <1>1, <1>5 DEF Cell
  <2>2. z \in Nat
    BY <1>1, <1>5
  <2>. QED
    BY <2>1, <2>2, ScreenAssumption DEF PutFaults, Behind
<1>7. y >= ROWS
  BY <1>1, <1>5, <1>6, BehindIsBelow
<1>8. ScreenOk(video, x, y, missed, paper)
  BY <1>1 DEF ScreenInv
<1>9. ScreenOk(video, a, y, missed, paper)
  BY <1>1, <1>7, <1>8 DEF ScreenOk
<1>10. Len(paper) = 1
  BY <1>1, <1>7, <1>8 DEF ScreenOk
<1>11. cursor'.x = a /\ cursor'.y = y /\ Cell(cursor') = y * COLS + a
  BY <1>4 DEF Cell
<1>12. cursor' \in [x : 0 .. COLS - 1, y : Nat] /\ crtc' \in Nat
  BY <1>1, <1>4
<1>13. ScreenOk(video', cursor'.x, cursor'.y, missed', paper')
  BY <1>3, <1>9, <1>11
<1>14. Len(paper') = 1 /\ cursor'.y >= ROWS /\ Cell(cursor') >= CELLS
  BY <1>3, <1>4, <1>7, <1>10, <1>11
<1>. QED
  BY <1>3, <1>12, <1>13, <1>14 DEF ScreenInv

LEMMA PutStep ==
  ASSUME ScreenInv, NEW c \in Keys, Draw(c), ConsolePut(c)
  PROVE  ScreenInv'
<1> USE ScreenConstants
<1>1. PICK x, y : x = cursor.x /\ y = cursor.y /\ x \in 0 .. COLS - 1 /\ y \in Nat
  BY DEF ScreenInv
<1>2. cursor = [x |-> x, y |-> y]
  BY <1>1 DEF ScreenInv
<1>3. PICK s : s = Put([video |-> video, cursor |-> cursor, missed |-> missed], c)
  OBVIOUS
<1>4. s = Put(Screen(video, x, y, missed), c)
  BY <1>2, <1>3 DEF Screen
<1>5. Settled(s, NextPaper(paper, x, c))
  BY <1>1, <1>4, PutSettles DEF ScreenInv
<1>6. PICK w, a, b, n : s = Screen(w, a, b, n) /\ b < ROWS /\ ScreenOk(w, a, b, n, NextPaper(paper, x, c))
  BY <1>5 DEF Settled
<1>7. /\ s.video = w /\ s.cursor.x = a /\ s.cursor.y = b /\ s.missed = n
      /\ s.cursor = [x |-> a, y |-> b]
  BY <1>6, ScreenFields DEF Screen
<1>8. /\ video' = w /\ cursor' = [x |-> a, y |-> b] /\ missed' = n
      /\ crtc' = b * COLS + a /\ paper' = NextPaper(paper, x, c) /\ isInit' /\ isInit
      /\ faulted' = FALSE
  BY <1>1, <1>3, <1>7 DEF Draw, ConsolePut, Cell, port, ScreenInv
<1>9. a \in 0 .. COLS - 1 /\ b \in Nat
  BY <1>6 DEF ScreenOk
<1>10. b * COLS + a \in Nat
  BY <1>9
<1>11. /\ cursor' \in [x : 0 .. COLS - 1, y : Nat] /\ cursor'.x = a /\ cursor'.y = b
       /\ Cell(cursor') = b * COLS + a
  BY <1>8, <1>9 DEF Cell
<1>. QED
  BY <1>6, <1>8, <1>10, <1>11 DEF ScreenInv

LEMMA ScreenNext ==
  ASSUME ScreenInv, [Next]_vars
  PROVE  ScreenInv'
<1>1. CASE \E c \in Keys : Draw(c)
  BY <1>1, PutStep, FaultStep DEF Draw
<1>2. CASE InitEarly
  <2> USE ScreenConstants
  <2>1. PICK x, y : x = crtc % COLS /\ y = crtc \div ROWS
    OBVIOUS
  <2>2. x \in 0 .. COLS - 1 /\ y \in Nat
    BY <2>1 DEF ScreenInv
  <2>3. cursor' = [x |-> x, y |-> y] /\ UNCHANGED <<video, crtc, faulted, missed, paper>>
        /\ ~isInit /\ isInit'
    BY <1>2, <2>1 DEF InitEarly, ReadCursor
  <2>4. cursor' \in [x : 0 .. COLS - 1, y : Nat] /\ cursor'.x = x /\ cursor'.y = y
    BY <2>2, <2>3
  <2>5. video = BlankVideo /\ missed = COLS /\ paper = <<BlankRow>> /\ ~faulted
    BY <2>3 DEF ScreenInv
  <2>6. ScreenOk(video, x, y, missed, paper)
    BY <2>2, <2>5, BlankScreenOk
  <2>7. Len(paper) = 1
    BY <2>5
  <2>. QED
    BY <2>3, <2>4, <2>6, <2>7 DEF ScreenInv
<1>3. CASE UNCHANGED svars /\ isInit' = isInit
  BY <1>3 DEF ScreenInv, svars, Cell
<1>. QED
  BY <1>1, <1>2, <1>3
     DEF Next, Prints, Processor, vars, port, Keys, Kprintf, EnableInterrupts, KbdIrq,
         Format, Test, Out, Return, Transmit

\* After any characters, on a screen of any size, the rows up to the cursor show
\* the end of what was typed, and the controller has its position.  When the cursor
\* was read below the screen, the first character can be a blank there, and it stops
\* the kernel exactly behind the page of the text buffer, with nothing drawn before
\* (console_put, scroll and move_cursor of debug_output.c).
THEOREM ScreenShowsPaper == Spec => []ShowsPaper
<1>1. Init => ScreenInv
  BY ScreenInitOk
<1>2. ScreenInv /\ [Next]_vars => ScreenInv'
  BY ScreenNext
<1>3. ScreenInv => ShowsPaper
  <2>. SUFFICES ASSUME ScreenInv PROVE ShowsPaper
    OBVIOUS
  <2>1. /\ cursor.x \in 0 .. COLS - 1 /\ cursor.y \in Nat
        /\ ScreenOk(video, cursor.x, cursor.y, missed, paper)
        /\ Len(paper) > 1 => crtc = Cell(cursor)
        /\ faulted => cursor.y >= ROWS /\ Cell(cursor) >= CELLS
    BY DEF ScreenInv
  <2>2. CASE cursor.y >= ROWS
    BY <2>1, <2>2 DEF ScreenOk, ShowsPaper
  <2>3. CASE cursor.y < ROWS
    <3>1. Shown(video, cursor.y, missed, paper) /\ ~faulted
      BY <2>1, <2>3, ScreenConstants DEF ScreenOk
    <3>. QED
      <4>1. ASSUME NEW k \in 1 .. Len(paper), Len(paper) - k <= cursor.y
            PROVE  LET row == video[cursor.y - (Len(paper) - k)]
                   IN  \A x \in 0 .. COLS - 1 :
                         \/ row[x] = paper[k][x]
                         \/ k = 1 /\ x = missed /\ row[x] = "blank"
        <5>1. RowShows(video[cursor.y - (Len(paper) - k)], k, paper[k], missed)
          BY <3>1, <4>1 DEF Shown
        <5>. QED
          BY ZenonT(20), <5>1 DEF RowShows
      <4>2. cursor.x < COLS
        BY <2>1, ScreenConstants
      <4>. QED
        BY <2>1, <2>3, <3>1, <4>1, <4>2 DEF ShowsPaper
  <2>. QED
    BY <2>1, <2>2, <2>3, ScreenConstants
<1>. QED
  BY <1>1, <1>2, <1>3, PTL DEF Spec

-----------------------------------------------------------------------------
(* The buffer of vsnprintf.                                                 *)

\* The memory is what the steps that write to it think it is.
BufInv ==
  /\ call \in Calls
  /\ DOMAIN mem = 0 .. MemSize
  /\ NothingBehind

LEMMA MaxlenIsNat == ASSUME BufInv PROVE call.maxlen \in Nat /\ MemSize \in Nat
BY PrintfAssumption DEF BufInv

\* out writes below maxlen only, whatever the text.
LEMMA OutputInside ==
  ASSUME BufInv, NEW text, Output(text), UNCHANGED call
  PROVE  BufInv'
<1>1. DOMAIN mem' = 0 .. MemSize
  BY DEF BufInv, Output
<1>2. ASSUME NEW i \in 0 .. MemSize, i >= call.maxlen
      PROVE  mem'[i] = Untouched
  <2>1. mem[i] = Untouched
    BY <1>2 DEF BufInv, NothingBehind
  <2>2. ~InBuffer(i)
    BY <1>2, MaxlenIsNat DEF InBuffer
  <2>3. QED
    BY <2>1, <2>2 DEF Output, BufInv
<1>3. QED
  BY <1>1, <1>2 DEF BufInv, NothingBehind

\* The terminating NUL goes below maxlen, or nowhere when that is 0.
LEMMA FinishInside == ASSUME BufInv, Finish PROVE BufInv'
<1> DEFINE last == IF InBuffer(idx) THEN idx ELSE call.maxlen - 1
<1>1. last < call.maxlen
  BY MaxlenIsNat DEF InBuffer, BufInv
<1>2. DOMAIN mem' = 0 .. MemSize
  BY DEF Finish, BufInv
<1>3. ASSUME NEW i \in 0 .. MemSize, i >= call.maxlen
      PROVE  mem'[i] = mem[i]
  <2>1. i # last
    BY <1>1, <1>3, MaxlenIsNat DEF BufInv, InBuffer
  <2>2. QED
    BY <2>1 DEF Finish, BufInv
<1>4. QED
  BY <1>2, <1>3 DEF BufInv, NothingBehind, Finish

\* vsnprintf never writes behind the characters of a buffer that it was told of
\* (printf.c:110-112, 715), in the middle of a call or at its end, for any format,
\* any arguments and any size, 0 included; the part of StringIsPrefix that a caller's
\* memory depends on.
THEOREM WritesInside == PrintfSpec => []NothingBehind
<1>1. PrintfInit => BufInv
  BY DEF PrintfInit, BufInv, NothingBehind
<1>2. BufInv /\ [PrintfNext]_pvars => BufInv'
  <2>1. SUFFICES ASSUME BufInv, [PrintfNext]_pvars PROVE BufInv'
    OBVIOUS
  <2>2. CASE Literal
    BY <2>1, <2>2, OutputInside DEF Literal
  <2>3. CASE Directive
    <3>1. PICK text : Output(text)
      BY <2>3 DEF Directive
    <3>2. QED
      BY <2>1, <2>3, <3>1, OutputInside DEF Directive
  <2>4. CASE Finish
    BY <2>1, <2>4, FinishInside
  <2>5. CASE UNCHANGED pvars
    BY <2>1, <2>5 DEF BufInv, NothingBehind, pvars
  <2>6. QED
    BY <2>1, <2>2, <2>3, <2>4, <2>5 DEF PrintfNext
<1>3. BufInv => NothingBehind
  BY DEF BufInv
<1>4. QED
  BY <1>1, <1>2, <1>3, PTL DEF PrintfSpec

=============================================================================

------------------------------ MODULE Console ------------------------------
(***************************************************************************)
(* The console (debug_output.c): kprintf, which formats a text and sends   *)
(* it to the serial port byte by byte, and the keyboard's handler          *)
(* (ps2kbd.c), which echoes through kprintf and can interrupt one.  Between *)
(* the test that the port is ready and the write to it, another flow may   *)
(* have written: what was read before the interrupt is used after it.      *)
(*                                                                         *)
(* A flow is what runs below the handlers: the boot, a system call of a    *)
(* task, the idle loop.  The scheduler does not switch while one is in the *)
(* kernel (Tasking, KernelNotPreempted), so kprintfs are nested and never  *)
(* interleave in another way; the timer's handler prints nothing.          *)
(***************************************************************************)
EXTENDS Naturals, Sequences, SequencesExt, FiniteSets, Screen

CONSTANTS
  Texts,     \* the lengths of the texts that flows print
  MaxTexts,  \* bound: how many texts are printed, the keyboard's included
  MaxKeys    \* bound: how many times a key is pressed or released

ASSUME ConsoleAssumption ==
  /\ Texts \subseteq Nat
  /\ {MaxTexts, MaxKeys} \subseteq Nat

\* A byte is named by the text it belongs to and its place there.  The text that
\* init_early_kprintf writes is text 0.
Byte(t, i) == <<t, i>>
NoByte     == <<>>
ReadyText  == 2

VARIABLES
  isInit,   \* is_init
  ints,     \* whether interrupts are on
  stack,    \* the calls of kprintf and console_write, the innermost one last
  texts,    \* history: the length of each text that was printed
  echoes,   \* history: which of the texts are the keyboard handler's
  thr,      \* the transmitter holding register of the port
  line      \* history: what the port sent

port == <<isInit, ints, stack, texts, echoes, thr, line>>
vars == <<port, svars>>

\* A call: of the text t, i bytes of it written, at pc: "enter", where kprintf
\* begins, "test" and "out" in the loop of console_write.
Call(t, pc) == [text |-> t, at |-> 0, pc |-> pc]
Top         == stack[Len(stack)]
Length(t)   == IF t = 0 THEN ReadyText ELSE texts[t]
SetTop(f)   == stack' = [stack EXCEPT ![Len(stack)] = f]

Init ==
  /\ isInit = FALSE
  /\ ints = FALSE
  /\ stack = <<>>
  /\ texts = <<>>
  /\ echoes = {}
  /\ thr = NoByte
  /\ line = <<>>
  /\ ScreenInit

\* A flow calls kprintf with a text of n bytes.
Kprintf(n) ==
  /\ stack = <<>>
  /\ Len(texts) < MaxTexts
  /\ texts' = Append(texts, n)
  /\ stack' = <<Call(Len(texts'), "enter")>>
  /\ UNCHANGED <<isInit, ints, echoes, thr, line, svars>>

\* The first kprintf reads the cursor and writes a text of its own first.
InitEarly ==
  /\ stack # <<>> /\ Top.pc = "enter" /\ ~isInit
  /\ isInit' = TRUE
  /\ stack' = Append(stack, Call(0, "test"))
  /\ cursor' = ReadCursor
  /\ UNCHANGED <<ints, texts, echoes, thr, line, video, crtc, faulted, missed, paper>>

\* vsnprintf into the buffer, and the call of console_write.
Format ==
  /\ stack # <<>> /\ Top.pc = "enter" /\ isInit
  /\ SetTop([Top EXCEPT !.pc = "test"])
  /\ UNCHANGED <<isInit, ints, texts, echoes, thr, line, svars>>

\* mutant: the port is not waited for.
ReadyAlways == TRUE

\* mutant: the bit of the port is taken for its opposite.
TransmitBusy == thr # NoByte

\* is_ser_transmit_empty
TransmitEmpty == thr = NoByte

\* console_write waits until the port is ready for the next byte.
Test ==
  /\ stack # <<>> /\ Top.pc = "test" /\ Top.at < Length(Top.text)
  /\ TransmitEmpty
  /\ SetTop([Top EXCEPT !.pc = "out"])
  /\ UNCHANGED <<isInit, ints, texts, echoes, thr, line, svars>>

\* outb: what the port still holds is lost.
Out ==
  /\ stack # <<>> /\ Top.pc = "out"
  /\ thr' = Byte(Top.text, Top.at + 1)
  /\ SetTop([Top EXCEPT !.at = @ + 1, !.pc = "test"])
  /\ UNCHANGED <<isInit, ints, texts, echoes, line, svars>>

\* console_write and kprintf return, and a handler with them.
Return ==
  /\ stack # <<>> /\ Top.pc = "test" /\ Top.at = Length(Top.text)
  /\ stack' = Front(stack)
  /\ UNCHANGED <<isInit, ints, texts, echoes, thr, line, svars>>

\* The boot ends: sti.
EnableInterrupts ==
  /\ stack = <<>> /\ isInit /\ ~ints
  /\ ints' = TRUE
  /\ UNCHANGED <<isInit, stack, texts, echoes, thr, line, svars>>

\* kbd_handler up to its kprintf, anywhere in the code of a flow or in another
\* handler of a key, whose end of interrupt is sent before it prints.  A key that
\* is pressed gives the character of the table, which is 0 and prints nothing for
\* some; one that is released, whatever lies before the table (ps2kbd.c:46-48).
KbdIrq ==
  /\ ints
  /\ Cardinality(echoes) < MaxKeys
  /\ \E n \in {0, 1} : texts' = Append(texts, n)
  /\ echoes' = echoes \cup {Len(texts')}
  /\ stack' = Append(stack, Call(Len(texts'), "enter"))
  /\ UNCHANGED <<isInit, ints, thr, line, svars>>

\* The port sends a byte.
Transmit ==
  /\ thr # NoByte
  /\ line' = Append(line, thr)
  /\ thr' = NoByte
  /\ UNCHANGED <<isInit, ints, stack, texts, echoes, svars>>

\* Someone calls console_put before anything else is printed.
Draw(c) ==
  /\ isInit /\ ~ints /\ stack = <<>> /\ Len(texts) = 1 /\ thr = NoByte
  /\ ~faulted
  /\ ConsolePut(c) \/ PutFaults(c)
  /\ UNCHANGED port

Processor == InitEarly \/ Format \/ Test \/ Out \/ Return
Prints    == \/ \E n \in Texts : Kprintf(n)
             \/ EnableInterrupts
             \/ KbdIrq

\* Bound: a behaviour draws or prints.  Nothing is printed after a fault.
Undrawn == paper = <<BlankRow>> /\ ~faulted /\ missed = COLS

Next == \/ Undrawn /\ Prints
        \/ Processor
        \/ Transmit
        \/ \E c \in Glyph \cup {"backspace", "tab", "return", "newline"} : Draw(c)

\* The processor goes on and the port sends; nobody has to print or to type.
Spec     == Init /\ [][Next]_vars
FairSpec == Spec /\ WF_vars(Processor) /\ WF_vars(Transmit)

-----------------------------------------------------------------------------
\* The texts that were begun, how many bytes of one were written, and what the
\* port has sent and will send.
Begun == (IF isInit THEN {0} ELSE {}) \cup 1 .. Len(texts)
Written(t) ==
  LET running == {k \in 1 .. Len(stack) : stack[k].text = t}
  IN  IF running = {} THEN Length(t) ELSE stack[CHOOSE k \in running : TRUE].at
Sent == line \o (IF thr = NoByte THEN <<>> ELSE <<thr>>)

\* What a flow prints arrives, each byte once and in order, whatever is typed
\* meanwhile and however deep the handlers nest.  The write of an interrupted
\* flow can overwrite a byte that is not sent yet, but only the last one of a
\* handler's text: the flow's own were sent before the handler's first
\* (debug_output.c:85-86).
TextsArrive ==
  /\ \A k \in 1 .. Len(Sent) :
       Sent[k][1] \in Begun /\ Sent[k][2] \in 1 .. Written(Sent[k][1])
  /\ \A k, l \in 1 .. Len(Sent) :
       k < l /\ Sent[k][1] = Sent[l][1] => Sent[k][2] < Sent[l][2]
  /\ \A t \in Begun : \A i \in 1 .. Written(t) :
       \/ \E k \in 1 .. Len(Sent) : Sent[k] = Byte(t, i)
       \/ t \in echoes /\ i = Length(t)

\* Every kprintf returns, those of handlers included, when the port sends.
KprintfReturns == []<>(stack = <<>>)

=============================================================================

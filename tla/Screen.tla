------------------------------- MODULE Screen -------------------------------
(***************************************************************************)
(* The text screen (console_put, scroll and move_cursor of debug_output.c): *)
(* video memory, the position of the cursor and the position that the      *)
(* controller shows.  Nothing calls console_put at present: console_write  *)
(* has the call in a comment.  paper is what the same characters would     *)
(* leave on a teletype; the screen has to show its end.                    *)
(***************************************************************************)
EXTENDS Naturals, Sequences

CONSTANTS COLS, ROWS, TAB,   \* 80, 25 and 8
          CELLS,             \* 2048: the cells of the page at video_memory
          Glyph,             \* printable characters
          MaxLines           \* bound: the lines of the paper

ASSUME ScreenAssumption ==
  /\ {COLS, ROWS, TAB, MaxLines} \subseteq Nat \ {0}
  /\ COLS % TAB = 0
  /\ CELLS \in Nat /\ ROWS * COLS <= CELLS
  /\ {"backspace", "tab", "return", "newline", "blank"} \cap Glyph = {}

BlankRow == [x \in 0 .. COLS - 1 |-> "blank"]

VARIABLES
  video,    \* video_memory, by row and column
  cursor,   \* cursor_x and cursor_y
  crtc,     \* the position in the registers 14 and 15 of the controller
  faulted,  \* whether a write went behind the page and stopped the kernel
  missed,   \* history: the column of a character written between the end of the
            \* screen and that of the page, COLS when there is none
  paper     \* history: the lines that were typed

svars == <<video, cursor, crtc, faulted, missed, paper>>

\* The screen as the boot loader left it, with the cursor at pos.
ScreenInit ==
  /\ video = [y \in 0 .. ROWS - 1 |-> BlankRow]
  /\ cursor = [x |-> 0, y |-> 0]
  /\ crtc \in 0 .. ROWS * COLS - 1
  /\ faulted = FALSE
  /\ missed = COLS
  /\ paper = <<BlankRow>>

\* init_early_kprintf: the row is the position divided by the number of rows,
\* where the number of columns is meant.
ReadCursor == [x |-> crtc % COLS, y |-> crtc \div ROWS]

-----------------------------------------------------------------------------
\* The cell of video_memory at a position.
Cell(p) == p.y * COLS + p.x

\* A screen: video memory, cursor and missed.  Below the last row a write changes
\* what nobody shows or reads, up to the end of the page.
Write(s, c) ==
  IF s.cursor.y < ROWS
  THEN [s EXCEPT !.video[s.cursor.y][s.cursor.x] = c, !.cursor.x = @ + 1]
  ELSE [s EXCEPT !.missed = IF c = "blank" THEN @ ELSE s.cursor.x, !.cursor.x = @ + 1]

\* mutant: the last row is not cleared.
ScrollKeeps(s) ==
  IF s.cursor.y < ROWS THEN s
  ELSE [s EXCEPT !.cursor.y = ROWS - 1,
                 !.video = [y \in 0 .. ROWS - 1 |-> IF y < ROWS - 1 THEN @[y + 1] ELSE @[y]]]

\* scroll: by one line, however far below the screen the cursor is.
Scroll(s) ==
  IF s.cursor.y < ROWS THEN s
  ELSE [s EXCEPT !.cursor.y = ROWS - 1,
                 !.video = [y \in 0 .. ROWS - 1 |-> IF y < ROWS - 1 THEN @[y + 1] ELSE BlankRow]]

\* The end of console_put: a new line at the end of the row, then scroll.
Wrap(s) ==
  Scroll(IF s.cursor.x < COLS THEN s
         ELSE [s EXCEPT !.cursor = [x |-> 0, y |-> @.y + 1]])

\* What console_put does with each kind of character.  Backspace puts a blank
\* through console_put itself and steps back over it.
Put(s, c) ==
  CASE c = "backspace" /\ s.cursor.x > 0 ->
         LET erased == Wrap(Write([s EXCEPT !.cursor.x = @ - 1], "blank"))
         IN  Wrap([erased EXCEPT !.cursor.x = @ - 1])
    [] c = "tab"   -> Wrap([s EXCEPT !.cursor.x = ((@ + TAB) \div TAB) * TAB])
    [] c = "return"   -> Wrap([s EXCEPT !.cursor.x = 0])
    [] c = "newline"   -> Wrap([s EXCEPT !.cursor = [x |-> 0, y |-> @.y + 1]])
    [] c \in Glyph -> Wrap(Write(s, c))
    [] OTHER      -> Wrap(s)

\* What is left on the paper: a carriage at column x of the last line.
Typed(p, x, c) ==
  LET here == [p EXCEPT ![Len(p)][x] = c]
  IN  IF x + 1 < COLS THEN here ELSE Append(here, BlankRow)

NextPaper(p, x, c) ==
  CASE c \in Glyph                      -> Typed(p, x, c)
    [] c = "backspace" /\ x > 0                -> [p EXCEPT ![Len(p)][x - 1] = "blank"]
    [] c = "tab" /\ x >= COLS - TAB      -> Append(p, BlankRow)
    [] c = "newline"                         -> Append(p, BlankRow)
    [] OTHER                            -> p

\* Whether console_put writes behind the page, where no directory has an entry.
Behind(c) ==
  \/ c \in Glyph /\ Cell(cursor) >= CELLS
  \/ c = "backspace" /\ cursor.x > 0 /\ Cell(cursor) - 1 >= CELLS

\* console_put up to that write, after which nothing goes on: the handler of the
\* page fault halts, and before there is one the processor resets.  Backspace has
\* moved the cursor by then.
PutFaults(c) ==
  /\ Behind(c)
  /\ faulted' = TRUE
  /\ \/ c \in Glyph /\ UNCHANGED <<cursor, crtc>>
     \/ c = "backspace" /\ cursor' = [cursor EXCEPT !.x = @ - 1] /\ crtc' = Cell(cursor')
  /\ UNCHANGED <<video, missed, paper>>

\* console_put.
ConsolePut(c) ==
  LET s == Put([video |-> video, cursor |-> cursor, missed |-> missed], c)
  IN  /\ ~Behind(c)
      /\ Len(paper) < MaxLines
      /\ video' = s.video
      /\ cursor' = s.cursor
      /\ missed' = s.missed
      /\ crtc' = Cell(s.cursor)
      /\ paper' = NextPaper(paper, cursor.x, c)
      /\ UNCHANGED faulted

-----------------------------------------------------------------------------
\* Once something was put, the cursor is on the screen and the controller shows
\* it there, and each row shows the line of the paper that belongs there, as far
\* as there is one.  Only the first character can be lost or stop the kernel, when
\* the row that was read is below the screen (debug_output.c:98): in a cell that is
\* not shown it leaves a blank, behind the page it faults; and nothing else does.
ShowsPaper ==
  \/ /\ cursor.y >= ROWS /\ paper = <<BlankRow>>
     /\ faulted => Cell(cursor) >= CELLS
  \/ /\ ~faulted
     /\ cursor.x < COLS /\ cursor.y < ROWS
     /\ \A k \in 1 .. Len(paper) : Len(paper) - k <= cursor.y =>
          LET row == video[cursor.y - (Len(paper) - k)]
          IN  \A x \in 0 .. COLS - 1 :
                \/ row[x] = paper[k][x]
                \/ k = 1 /\ x = missed /\ row[x] = "blank"
     /\ Len(paper) > 1 => crtc = Cell(cursor)

=============================================================================

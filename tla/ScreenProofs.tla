---------------------------- MODULE ScreenProofs -----------------------------
(***************************************************************************)
(* Proofs about Screen, for screens and lines of every size that satisfy   *)
(* ScreenAssumption and for every choice of Masked, the code's included.   *)
(* TypeOK needs CursorAhead, which keeps screen_y from falling below 0;    *)
(* CursorAhead needs that the terminal on display does not change while    *)
(* Ctrl-L is being handled (ClearPhase); together they are inductive.      *)
(***************************************************************************)
EXTENDS Screen, TLAPS

Safe == TypeOK /\ CursorAhead

\* The handling of Ctrl-L keeps other keys, and so Alt-Fn, away.
ClearPhase ==
  pc[KBD] = "clear" => kbd # NoTerm /\ disp_idx[KBD] = disp_terminal

Inv == Safe /\ ClearPhase

-----------------------------------------------------------------------------
(* Sizes, and the arithmetic of rows and columns. *)

\* The constants are positive where they are divided by or counted down from.
LEMMA Sizes ==
  /\ TERMINAL_NUM \in Nat /\ TERMINAL_NUM >= 1
  /\ NUM_ROWS \in Nat /\ NUM_ROWS >= 1
  /\ NUM_COLS \in Nat /\ NUM_COLS >= 1
  /\ INPUT_SIZE \in Nat
  BY ScreenAssumption

\* The offset of a row.
LEMMA RowOffset ==
  ASSUME NEW y \in Nat
  PROVE  /\ NUM_COLS * y \in Nat
         /\ NUM_COLS * (y + 1) = NUM_COLS * y + NUM_COLS
  BY Sizes

\* The first row starts at 0.
LEMMA FirstRow == NUM_COLS * 0 = 0
  BY Sizes

\* The last row starts behind the longest line.
LEMMA LastRow ==
  /\ NUM_ROWS - 1 \in Nat
  /\ NUM_COLS * (NUM_ROWS - 1) \in Nat
  /\ NUM_COLS * (NUM_ROWS - 1) >= INPUT_SIZE
  /\ NUM_COLS * (NUM_ROWS - 1) + NUM_COLS = Size
<1>1. NUM_ROWS - 1 \in Nat
  BY Sizes
<1>2. NUM_COLS * (NUM_ROWS - 1) + NUM_COLS = NUM_COLS * NUM_ROWS
  BY Sizes, <1>1, RowOffset
<1>3. NUM_COLS * NUM_ROWS = Size
  BY Sizes DEF Size
<1>4. NUM_COLS * (NUM_ROWS - 1) \in Nat
  BY <1>1, RowOffset
<1> QED
  BY <1>1, <1>2, <1>3, <1>4, ScreenAssumption

\* Drawing a character keeps the type of a screen.
LEMMA InkedType ==
  ASSUME NEW mem \in [Cell -> Char \cup {BLANK}], NEW row, NEW col,
         NEW ch \in Char \cup {LF, BLANK}
  PROVE  Inked(mem, row, col, ch) \in [Cell -> Char \cup {BLANK}]
  BY DEF Inked

\* So does scrolling.
LEMMA ScrollType ==
  ASSUME NEW mem \in [Cell -> Char \cup {BLANK}]
  PROVE  scroll(mem) \in [Cell -> Char \cup {BLANK}]
<1> SUFFICES ASSUME NEW k \in Cell, k < NUM_COLS * (NUM_ROWS - 1)
             PROVE  mem[k + NUM_COLS] \in Char \cup {BLANK}
  BY DEF scroll
<1>1. k + NUM_COLS \in Cell
  BY LastRow, Sizes DEF Cell
<1> QED
  BY <1>1

-----------------------------------------------------------------------------
(* putc *)

\* Up to the return of scroll, putc moves the cursor of one terminal and never
\* backwards, by one cell at least if it draws.
LEMMA PutStep ==
  ASSUME Safe, NEW a \in Actor, NEW on \in BOOLEAN, NEW idx \in Term,
         NEW i \in Term, i = IF on THEN idx ELSE scheduled_terminal,
         NEW y \in Nat, NEW ch \in Char \cup {LF},
         \/ y = screen_y[i]
         \/ ch = LF /\ (screen_x[i] = 0 /\ y = screen_y[i] - 1),
         Put(a, on, idx, y, ch)
  PROVE  /\ screen_x' \in [Term -> 0 .. NUM_COLS - 1]
         /\ screen_y' \in [Term -> Nat]
         /\ cursor' \in Nat
         /\ video_mem' \in [Cell -> Char \cup {BLANK}]
         /\ buffer_mem' \in [Term -> [Cell -> Char \cup {BLANK}]]
         /\ pc' \in [Actor -> Point]
         /\ disp_idx' \in [Actor -> Term]
         /\ disp_terminal_on' \in [Actor -> BOOLEAN]
         /\ c' \in [Actor -> Char \cup {LF}]
         /\ \A t \in Term : Position(t)' >= Position(t)
         /\ ch # LF => Position(i)' >= Position(i) + 1
<1> DEFINE x    == screen_x[i]
           row  == IF ch = LF \/ Wraps(x) THEN y + 1 ELSE y
           full == row >= NUM_ROWS
           col  == CASE ch = LF -> IF full THEN x ELSE 0
                     [] ch # LF /\ Wraps(x) -> 0
                     [] OTHER -> x + 1
           old  == IF on THEN video_mem ELSE buffer_mem[i]
           ink  == Inked(old, y, x, ch)
           new  == IF full THEN scroll(ink) ELSE ink
<1>1. /\ screen_x' = [screen_x EXCEPT ![i] = col]
      /\ screen_y' = [screen_y EXCEPT ![i] = row]
      /\ IF on THEN video_mem' = new /\ UNCHANGED buffer_mem
               ELSE buffer_mem' = [buffer_mem EXCEPT ![i] = new]
                    /\ UNCHANGED video_mem
      /\ cursor' = IF on /\ ~full THEN row * NUM_COLS + col
                   ELSE (IF on THEN y ELSE screen_y[idx]) * NUM_COLS
                          + screen_x[idx]
      /\ IF full
         THEN Locals(a, on, idx, ch) /\ Goto(a, "scrolled")
         ELSE Return(a, on, ch)
  BY DEF Put, set_cursor
<1>2. /\ screen_x \in [Term -> 0 .. NUM_COLS - 1]
      /\ screen_y \in [Term -> Nat]
      /\ video_mem \in [Cell -> Char \cup {BLANK}]
      /\ buffer_mem \in [Term -> [Cell -> Char \cup {BLANK}]]
      /\ pc \in [Actor -> Point]
      /\ disp_idx \in [Actor -> Term]
      /\ disp_terminal_on \in [Actor -> BOOLEAN]
      /\ c \in [Actor -> Char \cup {LF}]
  BY DEF Safe, TypeOK
<1>3. x \in 0 .. NUM_COLS - 1 /\ row \in Nat /\ col \in 0 .. NUM_COLS - 1
  <2>1. x \in 0 .. NUM_COLS - 1
    BY <1>2
  <2>2. row \in Nat
    OBVIOUS
  <2>3. 0 \in 0 .. NUM_COLS - 1
    BY Sizes
  <2>4. ~Wraps(x) => x + 1 \in 0 .. NUM_COLS - 1
    BY <2>1, Sizes DEF Wraps
  <2> HIDE DEF x, full
  <2>5. col \in 0 .. NUM_COLS - 1
    BY <2>1, <2>3, <2>4
  <2> QED
    BY <2>1, <2>2, <2>5
<1>4. new \in [Cell -> Char \cup {BLANK}]
  <2>1. old \in [Cell -> Char \cup {BLANK}]
    BY <1>2
  <2>2. ink \in [Cell -> Char \cup {BLANK}]
    BY <2>1, InkedType
  <2> QED
    BY <2>2, ScrollType
<1>5. cursor' \in Nat
  <2>1. ASSUME NEW m \in Nat, NEW n \in Nat
        PROVE  m * NUM_COLS + n \in Nat
    BY Sizes
  <2>2. (IF on THEN y ELSE screen_y[idx]) \in Nat /\ screen_x[idx] \in Nat
    BY <1>2, Sizes
  <2>3. col \in Nat
    BY <1>3, Sizes
  <2> HIDE DEF row, col, full
  <2> QED
    BY <1>1, <1>3, <2>1, <2>2, <2>3
<1>6. 0 \in Term
  BY Sizes DEF Term
<1>7. /\ disp_idx' \in [Actor -> Term]
      /\ disp_terminal_on' \in [Actor -> BOOLEAN]
      /\ c' \in [Actor -> Char \cup {LF}]
  <2>1. (on /\ a # KBD) \in BOOLEAN
    OBVIOUS
  <2>2. \E o \in BOOLEAN, n \in Term, h \in Char \cup {LF} : Locals(a, o, n, h)
    <3> HIDE DEF full
    <3> QED
      BY <1>1, <1>6, <2>1 DEF Return
  <2> QED
    BY <1>2, <2>2 DEF Locals
<1>8. pc' \in [Actor -> Point]
  <2>1. \E point \in Point : Goto(a, point)
    <3> HIDE DEF full
    <3>1. full => Goto(a, "scrolled")
      BY <1>1
    <3>2. ~full => Return(a, on, ch)
      BY <1>1
    <3>3. Return(a, on, ch) => \/ Goto(a, "next")
                               \/ Goto(a, "enter")
                               \/ Goto(a, "idle")
      BY DEF Return
    <3>4. {"scrolled", "next", "enter", "idle"} \subseteq Point
      BY DEF Point, Window
    <3> QED BY <3>1, <3>2, <3>3, <3>4
  <2> QED
    BY <1>2, <2>1 DEF Goto
<1>9. /\ NUM_COLS * row + col >= Position(i)
      /\ ch # LF => NUM_COLS * row + col >= Position(i) + 1
  <2>1. /\ NUM_COLS * y \in Nat
        /\ NUM_COLS * (y + 1) = NUM_COLS * y + NUM_COLS
    BY RowOffset
  <2>2. CASE ch # LF
    <3>1. Position(i) = NUM_COLS * y + x
      BY <2>2 DEF Position
    <3>2. CASE Wraps(x)
      <4>1. row = y + 1 /\ col = 0
        BY <2>2, <3>2
      <4> HIDE DEF row, col, x
      <4> QED
        BY <1>3, <2>1, <3>1, <4>1, Sizes
    <3>3. CASE ~Wraps(x)
      <4>1. row = y /\ col = x + 1
        BY <2>2, <3>3
      <4> HIDE DEF row, col, x
      <4> QED
        BY <1>3, <2>1, <3>1, <4>1, Sizes
    <3> QED
      BY <3>2, <3>3
  <2>3. CASE ch = LF /\ y = screen_y[i]
    <3>1. Position(i) = NUM_COLS * y + x /\ row = y + 1
      BY <2>3 DEF Position
    <3> HIDE DEF row, col, x
    <3> QED
      BY <1>3, <2>1, <2>3, <3>1, Sizes
  <2>4. CASE ch = LF /\ screen_x[i] = 0 /\ y = screen_y[i] - 1
    <3>1. screen_y[i] = y + 1 /\ row = y + 1
      BY <1>2, <2>4
    <3>2. Position(i) = NUM_COLS * (y + 1) + 0
      BY <2>4, <3>1 DEF Position
    <3> HIDE DEF row, col, x
    <3> QED
      BY <1>3, <2>1, <2>4, <3>1, <3>2, Sizes
  <2> QED
    BY <2>2, <2>3, <2>4
<1>10. Position(i)' = NUM_COLS * row + col
  <2> HIDE DEF row, col
  <2> QED
    BY <1>1, <1>2 DEF Position
<1>11. \A t \in Term : t # i => Position(t)' = Position(t)
  <2> HIDE DEF row, col
  <2> QED
    BY <1>1, <1>2 DEF Position
<1>12. \A t \in Term : Position(t) \in Nat
  <2> SUFFICES ASSUME NEW t \in Term
               PROVE  Position(t) \in Nat
    OBVIOUS
  <2>1. screen_x[t] \in Nat /\ screen_y[t] \in Nat
    BY <1>2, Sizes
  <2>2. NUM_COLS * screen_y[t] \in Nat
    BY <2>1, RowOffset
  <2> QED
    BY <2>1, <2>2 DEF Position
<1>13. /\ screen_x' \in [Term -> 0 .. NUM_COLS - 1]
       /\ screen_y' \in [Term -> Nat]
       /\ video_mem' \in [Cell -> Char \cup {BLANK}]
       /\ buffer_mem' \in [Term -> [Cell -> Char \cup {BLANK}]]
  <2> HIDE DEF row, col, new
  <2> QED
    BY <1>1, <1>2, <1>3, <1>4
<1>14. \A t \in Term : Position(t)' >= Position(t)
  <2> HIDE DEF row, col
  <2> QED
    BY <1>9, <1>10, <1>11, <1>12
<1> QED
  BY <1>5, <1>7, <1>8, <1>9, <1>10, <1>13, <1>14

\* A step that keeps the cursors and the counts keeps CursorAhead.
LEMMA QuietStep ==
  ASSUME Safe, TypeOK', UNCHANGED <<screen_x, screen_y, input_count>>
  PROVE  Safe'
  BY DEF Safe, CursorAhead, Position

\* The running actor is one, and the scheduled thread is an actor.
LEMMA RunningType ==
  ASSUME Safe
  PROVE  Running \in Actor /\ scheduled_terminal \in Actor /\ KBD \in Actor
  BY DEF Safe, TypeOK, Running, Actor

\* Locals set to values of their types have their types.
LEMMA LocalsType ==
  ASSUME Safe, NEW a \in Actor, NEW on \in BOOLEAN, NEW idx \in Term,
         NEW ch \in Char \cup {LF}, Locals(a, on, idx, ch)
  PROVE  /\ disp_idx' \in [Actor -> Term]
         /\ disp_terminal_on' \in [Actor -> BOOLEAN]
         /\ c' \in [Actor -> Char \cup {LF}]
  BY DEF Safe, TypeOK, Locals

\* The first terminal.
LEMMA ZeroTerm == 0 \in Term
  BY Sizes DEF Term

\* terminal_write starts.
LEMMA terminal_write_step ==
  ASSUME Safe, NEW t \in Term, NEW ch \in Char \cup {LF}, terminal_write(t, ch)
  PROVE  Safe'
<1>1. (t = disp_terminal) \in BOOLEAN /\ disp_terminal \in Term /\ t \in Actor
  BY DEF Safe, TypeOK, Actor
<1>2. Locals(t, t = disp_terminal, disp_terminal, ch)
  BY DEF terminal_write
<1>3. /\ disp_idx' \in [Actor -> Term]
      /\ disp_terminal_on' \in [Actor -> BOOLEAN]
      /\ c' \in [Actor -> Char \cup {LF}]
  BY <1>1, <1>2, LocalsType
<1>4. TypeOK'
  BY <1>3
  DEF Safe, TypeOK, terminal_write, Goto, Point, Window, place, memory, display
<1> QED
  BY <1>4, QuietStep DEF terminal_write, place

\* putc is called for the next character.
LEMMA putc_enter_step ==
  ASSUME Safe, NEW t \in Term, NEW ch \in Char \cup {LF}, putc_enter(t, ch)
  PROVE  Safe'
<1>1. disp_terminal_on[t] \in BOOLEAN /\ disp_terminal \in Term /\ t \in Actor
  BY DEF Safe, TypeOK, Actor
<1>2. Locals(t, disp_terminal_on[t], disp_terminal, ch)
  BY DEF putc_enter
<1>3. /\ disp_idx' \in [Actor -> Term]
      /\ disp_terminal_on' \in [Actor -> BOOLEAN]
      /\ c' \in [Actor -> Char \cup {LF}]
  BY <1>1, <1>2, LocalsType
<1>4. TypeOK'
  BY <1>3
  DEF Safe, TypeOK, putc_enter, Goto, Point, Window, place, memory, display
<1> QED
  BY <1>4, QuietStep DEF putc_enter, place

\* Position is a number.
LEMMA PositionType ==
  ASSUME Safe, NEW t \in Term
  PROVE  /\ Position(t) \in Nat
         /\ screen_x[t] \in Nat /\ screen_y[t] \in Nat
         /\ NUM_COLS * screen_y[t] \in Nat
<1>1. screen_x[t] \in Nat /\ screen_y[t] \in Nat
  BY Sizes DEF Safe, TypeOK
<1>2. NUM_COLS * screen_y[t] \in Nat
  BY <1>1, RowOffset
<1> QED
  BY <1>1, <1>2 DEF Position

\* And it stays one.
LEMMA NextPositionType ==
  ASSUME TypeOK', NEW t \in Term
  PROVE  Position(t)' \in Nat
<1>1. screen_x'[t] \in Nat /\ screen_y'[t] \in Nat
  BY Sizes DEF TypeOK
<1>2. NUM_COLS * screen_y'[t] \in Nat
  BY <1>1, RowOffset
<1> QED
  BY <1>1, <1>2 DEF Position

\* A step that moves no cursor backwards and adds to no line keeps the
\* invariant.
LEMMA AheadKept ==
  ASSUME Safe, TypeOK', input_count' = input_count,
         \A t \in Term : Position(t)' >= Position(t)
  PROVE  Safe'
<1> SUFFICES ASSUME NEW t \in Term
             PROVE  input_count'[t] <= Position(t)'
  BY DEF Safe, CursorAhead
<1>1. Position(t) \in Nat /\ Position(t)' \in Nat
  BY PositionType, NextPositionType
<1>2. input_count[t] \in Nat
  BY Sizes DEF Safe, TypeOK
<1> QED
  BY <1>1, <1>2 DEF Safe, CursorAhead

\* putc draws a character that a program writes.
LEMMA putc_body_step ==
  ASSUME Safe, NEW t \in Term, putc_body(t)
  PROVE  Safe'
<1> DEFINE on == disp_terminal_on[t]
           i  == IF on THEN disp_idx[t] ELSE t
<1>1. /\ t \in Actor /\ on \in BOOLEAN /\ disp_idx[t] \in Term
      /\ c[t] \in Char \cup {LF}
  BY DEF Safe, TypeOK, Actor
<1>2. t = scheduled_terminal
  BY Sizes DEF putc_body, At, Running, KBD, Term
<1>3. /\ Put(t, on, disp_idx[t], screen_y[i], c[t])
      /\ UNCHANGED <<disp_terminal, vidmap, scheduled_terminal, input_count,
                     kbd>>
  BY DEF putc_body, display
<1>4. i \in Term /\ i = IF on THEN disp_idx[t] ELSE scheduled_terminal
  BY <1>1, <1>2
<1>5. screen_y[i] \in Nat
  BY <1>4 DEF Safe, TypeOK
<1> HIDE DEF on, i
<1>6. /\ screen_x' \in [Term -> 0 .. NUM_COLS - 1]
      /\ screen_y' \in [Term -> Nat]
      /\ cursor' \in Nat
      /\ video_mem' \in [Cell -> Char \cup {BLANK}]
      /\ buffer_mem' \in [Term -> [Cell -> Char \cup {BLANK}]]
      /\ pc' \in [Actor -> Point]
      /\ disp_idx' \in [Actor -> Term]
      /\ disp_terminal_on' \in [Actor -> BOOLEAN]
      /\ c' \in [Actor -> Char \cup {LF}]
      /\ \A u \in Term : Position(u)' >= Position(u)
  BY <1>1, <1>3, <1>4, <1>5, PutStep
<1>7. TypeOK'
  BY <1>3, <1>6 DEF Safe, TypeOK
<1> QED
  BY <1>3, <1>6, <1>7, AheadKept

\* putc goes on behind scroll: the last row is behind every line.
LEMMA putc_scrolled_step ==
  ASSUME Safe, NEW a \in Actor, putc_scrolled(a)
  PROVE  Safe'
<1> DEFINE on  == disp_terminal_on[a]
           i   == IF on THEN disp_idx[a] ELSE scheduled_terminal
           col == IF c[a] = LF THEN 0 ELSE screen_x[i]
<1>1. /\ screen_y' = [screen_y EXCEPT ![i] = NUM_ROWS - 1]
      /\ screen_x' = [screen_x EXCEPT ![i] = col]
      /\ cursor' = IF on THEN (NUM_ROWS - 1) * NUM_COLS + col ELSE cursor
      /\ Return(a, on, c[a])
      /\ kbd' = IF pc'[KBD] = "idle" THEN NoTerm ELSE kbd
      /\ UNCHANGED <<video_mem, buffer_mem, disp_terminal, vidmap,
                     scheduled_terminal, input_count>>
  BY DEF putc_scrolled, memory, display
<1>2. on \in BOOLEAN /\ i \in Term /\ c[a] \in Char \cup {LF}
  BY DEF Safe, TypeOK
<1>3. col \in 0 .. NUM_COLS - 1
  BY <1>2, Sizes DEF Safe, TypeOK
<1>4. screen_x' \in [Term -> 0 .. NUM_COLS - 1] /\ screen_y' \in [Term -> Nat]
  <2> HIDE DEF i, col
  <2> QED
    BY <1>1, <1>2, <1>3, LastRow DEF Safe, TypeOK
<1>5. cursor' \in Nat
  <2>1. (NUM_ROWS - 1) * NUM_COLS \in Nat
    <3>1. (NUM_ROWS - 1) * NUM_COLS = NUM_COLS * (NUM_ROWS - 1)
      BY LastRow, Sizes
    <3> QED
      BY <3>1, LastRow
  <2>2. col \in Nat
    BY <1>3, Sizes
  <2> HIDE DEF col
  <2>3. (NUM_ROWS - 1) * NUM_COLS + col \in Nat
    BY <2>1, <2>2
  <2>4. cursor \in Nat
    BY DEF Safe, TypeOK
  <2> QED
    BY <1>1, <2>3, <2>4
<1>6. Locals(a, on /\ a # KBD, 0, LF) /\ (on /\ a # KBD) \in BOOLEAN
  BY <1>1 DEF Return
<1>7. /\ disp_idx' \in [Actor -> Term]
      /\ disp_terminal_on' \in [Actor -> BOOLEAN]
      /\ c' \in [Actor -> Char \cup {LF}]
  <2> HIDE DEF on
  <2> QED
    BY <1>6, ZeroTerm, LocalsType
<1>8. pc' \in [Actor -> Point]
  BY <1>1 DEF Safe, TypeOK, Return, Goto, Point, Window
<1>9. TypeOK'
  BY <1>1, <1>4, <1>5, <1>7, <1>8 DEF Safe, TypeOK
<1>10. CursorAhead'
  <2> SUFFICES ASSUME NEW t \in Term
               PROVE  input_count[t] <= Position(t)'
    BY <1>1 DEF CursorAhead
  <2>1. CASE t = i
    <3>1. Position(t)' = NUM_COLS * (NUM_ROWS - 1) + col
      <4> HIDE DEF i, col
      <4> QED
        BY <1>1, <1>2, <2>1 DEF Position, Safe, TypeOK
    <3>2. input_count[t] \in 0 .. INPUT_SIZE
      BY DEF Safe, TypeOK
    <3> HIDE DEF col
    <3> QED
      BY <1>3, <3>1, <3>2, LastRow, Sizes
  <2>2. CASE t # i
    <3>1. Position(t)' = Position(t)
      <4> HIDE DEF i, col
      <4> QED
        BY <1>1, <2>2 DEF Position, Safe, TypeOK
    <3> QED
      BY <3>1 DEF Safe, CursorAhead
  <2> QED
    BY <2>1, <2>2
<1> QED
  BY <1>9, <1>10 DEF Safe

\* terminal_write returns.
LEMMA write_return_step ==
  ASSUME Safe, NEW t \in Term, write_return(t)
  PROVE  Safe'
<1>1. t \in Actor /\ Locals(t, FALSE, 0, LF)
  BY DEF write_return, Actor
<1>2. /\ disp_idx' \in [Actor -> Term]
      /\ disp_terminal_on' \in [Actor -> BOOLEAN]
      /\ c' \in [Actor -> Char \cup {LF}]
  BY <1>1, ZeroTerm, LocalsType
<1>3. TypeOK'
  BY <1>2
  DEF Safe, TypeOK, write_return, Goto, Point, place, memory, display
<1> QED
  BY <1>3, QuietStep DEF write_return, place

\* A program draws on its screen directly.
LEMMA fish_draw_step ==
  ASSUME Safe, NEW t \in Term, NEW k \in FishCells,
         NEW ch \in Char \cup {BLANK}, fish_draw(t, k, ch)
  PROVE  Safe'
<1>1. TypeOK'
  <2>1. /\ video_mem' \in [Cell -> Char \cup {BLANK}]
        /\ buffer_mem' \in [Term -> [Cell -> Char \cup {BLANK}]]
    <3>1. k \in Cell
      BY ScreenAssumption
    <3>2. /\ video_mem \in [Cell -> Char \cup {BLANK}]
          /\ buffer_mem \in [Term -> [Cell -> Char \cup {BLANK}]]
      BY DEF Safe, TypeOK
    <3>3. \/ /\ video_mem' = [video_mem EXCEPT ![k] = ch]
             /\ buffer_mem' = buffer_mem
          \/ /\ buffer_mem' = [buffer_mem EXCEPT ![t][k] = ch]
             /\ video_mem' = video_mem
      BY DEF fish_draw
    <3> QED
      BY <3>1, <3>2, <3>3
  <2> QED
    BY <2>1 DEF Safe, TypeOK, fish_draw, place, display, locals
<1> QED
  BY <1>1, QuietStep DEF fish_draw, place

-----------------------------------------------------------------------------
(* Keys *)

\* The keyboard handler runs on the scheduled thread, or is done.
LEMMA HandlingType ==
  ASSUME Safe, Handling
  PROVE  kbd' \in Term \cup {NoTerm}
  BY DEF Safe, TypeOK, Handling

\* A character is typed: the line and the cursor grow together.
LEMMA type_char_step ==
  ASSUME Safe, NEW ch \in Char, type_char(ch)
  PROVE  Safe'
<1>0. PICK n \in Term : n = disp_terminal
  BY DEF Safe, TypeOK
<1>1. /\ input_count[n] < INPUT_SIZE
      /\ input_count' = [input_count EXCEPT ![n] = @ + 1]
      /\ Put(KBD, TRUE, n, screen_y[n], ch)
      /\ Handling
      /\ UNCHANGED <<disp_terminal, vidmap, scheduled_terminal>>
  BY <1>0 DEF type_char, display, d
<1>2. KBD \in Actor /\ screen_y[n] \in Nat
      /\ ch \in Char \cup {LF} /\ ch # LF /\ TRUE \in BOOLEAN
  BY ScreenAssumption DEF Safe, TypeOK, Actor
<1>3. /\ screen_x' \in [Term -> 0 .. NUM_COLS - 1]
      /\ screen_y' \in [Term -> Nat]
      /\ cursor' \in Nat
      /\ video_mem' \in [Cell -> Char \cup {BLANK}]
      /\ buffer_mem' \in [Term -> [Cell -> Char \cup {BLANK}]]
      /\ pc' \in [Actor -> Point]
      /\ disp_idx' \in [Actor -> Term]
      /\ disp_terminal_on' \in [Actor -> BOOLEAN]
      /\ c' \in [Actor -> Char \cup {LF}]
      /\ \A t \in Term : Position(t)' >= Position(t)
      /\ Position(n)' >= Position(n) + 1
  BY <1>1, <1>2, PutStep
<1>4. input_count' \in [Term -> 0 .. INPUT_SIZE]
  BY <1>1, <1>2, Sizes DEF Safe, TypeOK
<1>5. TypeOK'
  BY <1>1, <1>3, <1>4, HandlingType DEF Safe, TypeOK
<1>6. CursorAhead'
  <2> SUFFICES ASSUME NEW t \in Term
               PROVE  input_count'[t] <= Position(t)'
    BY DEF CursorAhead
  <2>1. Position(t) \in Nat /\ Position(t)' \in Nat
    BY <1>5, PositionType, NextPositionType
  <2>2. input_count[t] \in Nat /\ input_count[t] <= Position(t)
    BY Sizes DEF Safe, TypeOK, CursorAhead
  <2>3. input_count'[t] = IF t = n THEN input_count[t] + 1 ELSE input_count[t]
    BY <1>1, <1>2 DEF Safe, TypeOK
  <2> QED
    BY <1>3, <2>1, <2>2, <2>3
<1> QED
  BY <1>5, <1>6 DEF Safe

\* A character is taken back: the cursor is not in the first cell.
LEMMA backspace_step ==
  ASSUME Safe, backspace
  PROVE  Safe'
<1> DEFINE x   == screen_x[d]
           y   == screen_y[d]
           row == IF x = 0 THEN y - 1 ELSE y
           col == IF x = 0 THEN NUM_COLS - 1 ELSE x - 1
<1>1. /\ input_count[d] > 0
      /\ input_count' = [input_count EXCEPT ![d] = @ - 1]
      /\ screen_x' = [screen_x EXCEPT ![d] = col]
      /\ screen_y' = [screen_y EXCEPT ![d] = row]
      /\ video_mem' = Inked(video_mem, row, col, BLANK)
      /\ cursor' = row * NUM_COLS + col
      /\ UNCHANGED <<buffer_mem, disp_terminal, vidmap, scheduled_terminal,
                     kbd, pc, disp_idx, disp_terminal_on, c>>
  BY DEF backspace, set_cursor, display, locals
<1>2. /\ d \in Term
      /\ x \in 0 .. NUM_COLS - 1 /\ y \in Nat
      /\ input_count[d] \in 1 .. INPUT_SIZE
  BY <1>1, Sizes DEF Safe, TypeOK, d
<1>3. input_count[d] <= NUM_COLS * y + x
  BY <1>2 DEF Safe, CursorAhead, Position
<1>4. x = 0 => y >= 1
  <2> SUFFICES ASSUME x = 0, y = 0 PROVE FALSE
    BY <1>2
  <2> QED
    BY <1>2, <1>3, FirstRow, Sizes
<1>5. row \in Nat /\ col \in 0 .. NUM_COLS - 1
  BY <1>2, <1>4, Sizes
<1>6. NUM_COLS * row \in Nat /\ NUM_COLS * row + col = NUM_COLS * y + x - 1
  <2>1. NUM_COLS * row \in Nat /\ NUM_COLS * y \in Nat
    BY <1>2, <1>5, RowOffset
  <2>2. CASE x = 0
    <3>1. y = row + 1 /\ col = NUM_COLS - 1
      BY <1>2, <2>2
    <3>2. NUM_COLS * (row + 1) = NUM_COLS * row + NUM_COLS
      BY <1>5, RowOffset
    <3> HIDE DEF row, col, x, y
    <3> QED
      BY <2>1, <2>2, <3>1, <3>2, Sizes
  <2>3. CASE x # 0
    <3>1. row = y /\ col = x - 1
      BY <2>3
    <3> HIDE DEF row, col, x, y
    <3> QED
      BY <1>2, <2>1, <3>1, Sizes
  <2> QED
    BY <2>2, <2>3
<1>7. cursor' \in Nat
  <2>1. row * NUM_COLS = NUM_COLS * row /\ col \in Nat
    BY <1>5, Sizes
  <2> HIDE DEF row, col
  <2> QED
    BY <1>1, <1>6, <2>1
<1>8. /\ screen_x' \in [Term -> 0 .. NUM_COLS - 1]
      /\ screen_y' \in [Term -> Nat]
      /\ input_count' \in [Term -> 0 .. INPUT_SIZE]
  <2> HIDE DEF row, col
  <2> QED
    BY <1>1, <1>2, <1>5, Sizes DEF Safe, TypeOK
<1>9. video_mem' \in [Cell -> Char \cup {BLANK}]
  <2> HIDE DEF row, col
  <2> QED
    BY <1>1, InkedType DEF Safe, TypeOK
<1>10. TypeOK'
  BY <1>1, <1>7, <1>8, <1>9 DEF Safe, TypeOK
<1>11. CursorAhead'
  <2> SUFFICES ASSUME NEW t \in Term
               PROVE  input_count'[t] <= Position(t)'
    BY DEF CursorAhead
  <2>1. CASE t = d
    <3>1. /\ Position(t)' = NUM_COLS * row + col
          /\ input_count'[t] = input_count[d] - 1
      <4> HIDE DEF row, col
      <4> QED
        BY <1>1, <1>2, <2>1 DEF Position, Safe, TypeOK
    <3>2. NUM_COLS * y \in Nat
      BY <1>2, RowOffset
    <3> HIDE DEF row, col, x, y
    <3> QED
      BY <1>2, <1>3, <1>6, <3>1, <3>2, Sizes
  <2>2. CASE t # d
    <3>1. Position(t)' = Position(t) /\ input_count'[t] = input_count[t]
      <4> HIDE DEF row, col
      <4> QED
        BY <1>1, <2>2 DEF Position, Safe, TypeOK
    <3> QED
      BY <3>1 DEF Safe, CursorAhead
  <2> QED
    BY <2>1, <2>2
<1> QED
  BY <1>10, <1>11 DEF Safe

\* Enter: a cursor in column 0 behind a line that was typed is not in the first
\* row, so that the row above exists.
LEMMA enter_pressed_step ==
  ASSUME Safe, enter_pressed
  PROVE  Safe'
<1>0. PICK n \in Term : n = disp_terminal
  BY DEF Safe, TypeOK
<1> DEFINE back == /\ input_count[n] # 0 /\ screen_x[n] = 0
                   /\ screen_y[n] # NUM_COLS + 1
           y == IF back THEN screen_y[n] - 1 ELSE screen_y[n]
<1>1. /\ Put(KBD, TRUE, n, y, LF)
      /\ Handling
      /\ UNCHANGED <<disp_terminal, vidmap, scheduled_terminal, input_count>>
  BY <1>0 DEF enter_pressed, display, d
<1>2. back => screen_y[n] >= 1
  <2> SUFFICES ASSUME back, screen_y[n] = 0 PROVE FALSE
    BY DEF Safe, TypeOK
  <2>1. Position(n) = 0
    BY FirstRow DEF Position
  <2> QED
    BY <2>1, Sizes DEF Safe, TypeOK, CursorAhead
<1>3. y \in Nat
  BY <1>2 DEF Safe, TypeOK
<1>4. y = screen_y[n] \/ (screen_x[n] = 0 /\ y = screen_y[n] - 1)
  BY DEF y, back
<1>5. KBD \in Actor /\ LF \in Char \cup {LF} /\ TRUE \in BOOLEAN
  BY DEF Actor
<1> HIDE DEF y
<1>6. /\ screen_x' \in [Term -> 0 .. NUM_COLS - 1]
      /\ screen_y' \in [Term -> Nat]
      /\ cursor' \in Nat
      /\ video_mem' \in [Cell -> Char \cup {BLANK}]
      /\ buffer_mem' \in [Term -> [Cell -> Char \cup {BLANK}]]
      /\ pc' \in [Actor -> Point]
      /\ disp_idx' \in [Actor -> Term]
      /\ disp_terminal_on' \in [Actor -> BOOLEAN]
      /\ c' \in [Actor -> Char \cup {LF}]
      /\ \A t \in Term : Position(t)' >= Position(t)
  BY <1>1, <1>3, <1>4, <1>5, PutStep
<1>7. TypeOK'
  BY <1>1, <1>6, HandlingType DEF Safe, TypeOK
<1> QED
  BY <1>1, <1>6, <1>7, AheadKept

\* The line is empty after Enter.
LEMMA enter_reset_step ==
  ASSUME Safe, enter_reset
  PROVE  Safe'
<1>1. TypeOK'
  BY Sizes
  DEF Safe, TypeOK, enter_reset, Goto, Point, Actor, d, place, memory, display,
      locals
<1>2. ASSUME NEW t \in Term
      PROVE  input_count'[t] <= Position(t)'
  <2>1. Position(t)' = Position(t) /\ Position(t) \in Nat
    BY PositionType DEF enter_reset, place, Position
  <2>2. input_count'[t] = 0 \/ input_count'[t] = input_count[t]
    BY DEF Safe, TypeOK, enter_reset
  <2> QED
    BY <2>1, <2>2 DEF Safe, CursorAhead
<1> QED
  BY <1>1, <1>2 DEF Safe, CursorAhead

\* Ctrl-L clears the memory.
LEMMA clear_step ==
  ASSUME Safe, clear
  PROVE  Safe'
<1>1. Locals(KBD, FALSE, d, LF) /\ d \in Term /\ KBD \in Actor
  BY DEF clear, Safe, TypeOK, d, Actor
<1>2. /\ disp_idx' \in [Actor -> Term]
      /\ disp_terminal_on' \in [Actor -> BOOLEAN]
      /\ c' \in [Actor -> Char \cup {LF}]
  BY <1>1, LocalsType
<1>3. kbd' \in Term \cup {NoTerm}
  BY HandlingType DEF clear
<1>4. TypeOK'
  BY <1>2, <1>3
  DEF Safe, TypeOK, clear, Goto, Point, Window, Blank, place, display
<1> QED
  BY <1>4, QuietStep DEF clear, place

\* Cursor and line are reset together, for the same terminal.
LEMMA clear_reset_step ==
  ASSUME Safe, clear_reset, disp_idx[KBD] = disp_terminal
  PROVE  Safe'
<1>0. PICK n \in Term : n = disp_terminal
  BY DEF Safe, TypeOK
<1>1. /\ cursor' = 0 * NUM_COLS + 0
      /\ screen_x' = [screen_x EXCEPT ![n] = 0]
      /\ screen_y' = [screen_y EXCEPT ![n] = 0]
      /\ input_count' = [input_count EXCEPT ![n] = 0]
      /\ pc' = [pc EXCEPT ![KBD] = "idle"]
      /\ Locals(KBD, FALSE, 0, LF)
      /\ kbd' = NoTerm
      /\ UNCHANGED <<video_mem, buffer_mem, disp_terminal, vidmap,
                     scheduled_terminal>>
  BY <1>0 DEF clear_reset, set_cursor, Goto, memory, display, d
<1>2. /\ disp_idx' \in [Actor -> Term]
      /\ disp_terminal_on' \in [Actor -> BOOLEAN]
      /\ c' \in [Actor -> Char \cup {LF}]
  BY <1>1, RunningType, ZeroTerm, LocalsType
<1>3. /\ screen_x' \in [Term -> 0 .. NUM_COLS - 1]
      /\ screen_y' \in [Term -> Nat]
      /\ input_count' \in [Term -> 0 .. INPUT_SIZE]
      /\ pc' \in [Actor -> Point]
  <2>1. 0 \in 0 .. NUM_COLS - 1 /\ 0 \in 0 .. INPUT_SIZE /\ 0 \in Nat
    BY Sizes
  <2> QED
    BY <1>1, <2>1 DEF Safe, TypeOK, Point
<1>4. cursor' \in Nat
  BY <1>1, Sizes
<1>5. TypeOK'
  BY <1>1, <1>2, <1>3, <1>4 DEF Safe, TypeOK
<1>6. ASSUME NEW t \in Term
      PROVE  input_count'[t] <= Position(t)'
  <2>1. CASE t = n
    <3>1. input_count'[t] = 0
      BY <1>1, <2>1 DEF Safe, TypeOK
    <3> QED
      BY <1>5, <3>1, NextPositionType
  <2>2. CASE t # n
    <3>1. input_count'[t] = input_count[t] /\ Position(t)' = Position(t)
      BY <1>1, <2>2 DEF Safe, TypeOK, Position
    <3> QED
      BY <3>1 DEF Safe, CursorAhead
  <2> QED
    BY <2>1, <2>2
<1> QED
  BY <1>5, <1>6 DEF Safe, CursorAhead

\* Esc halts the scheduled process.
LEMMA esc_pressed_step ==
  ASSUME Safe, esc_pressed
  PROVE  Safe'
<1>1. Locals(scheduled_terminal, FALSE, 0, LF)
  BY DEF esc_pressed
<1>2. /\ disp_idx' \in [Actor -> Term]
      /\ disp_terminal_on' \in [Actor -> BOOLEAN]
      /\ c' \in [Actor -> Char \cup {LF}]
  BY <1>1, RunningType, ZeroTerm, LocalsType
<1>3. TypeOK'
  BY <1>2
  DEF Safe, TypeOK, esc_pressed, Goto, Point, place, memory, display
<1> QED
  BY <1>3, QuietStep DEF esc_pressed, place

\* Alt-Fn exchanges the memories and takes the cursor of the other terminal.
LEMMA switch_terminal_step ==
  ASSUME Safe, NEW n \in Term, switch_terminal(n)
  PROVE  Safe'
<1>1. /\ UNCHANGED <<screen_x, screen_y, scheduled_terminal, input_count, kbd,
                     pc, disp_idx, disp_terminal_on, c>>
      /\ vidmap' \in [Term -> {"video", "buffer"}]
  BY DEF Safe, TypeOK, switch_terminal, locals, d
<1>2. screen_y[n] * NUM_COLS + screen_x[n] \in Nat
  <2>1. screen_y[n] * NUM_COLS = NUM_COLS * screen_y[n]
    BY PositionType, Sizes
  <2> QED
    BY <2>1, PositionType
<1>3. CASE n = d
  <2>1. TypeOK'
    BY <1>1, <1>3 DEF Safe, TypeOK, switch_terminal, memory
  <2> QED
    BY <1>1, <2>1, QuietStep
<1>4. CASE n # d
  <2>1. /\ buffer_mem' = [buffer_mem EXCEPT ![d] = video_mem]
        /\ video_mem' = buffer_mem[n]
        /\ cursor' = screen_y[n] * NUM_COLS + screen_x[n]
        /\ disp_terminal' = n
    BY <1>4 DEF switch_terminal, set_cursor
  <2>2. TypeOK'
    BY <1>1, <1>2, <2>1 DEF Safe, TypeOK, d
  <2> QED
    BY <1>1, <2>2, QuietStep
<1> QED
  BY <1>3, <1>4

\* The timer.
LEMMA schedule_step ==
  ASSUME Safe, schedule
  PROVE  Safe'
<1>1. scheduled_terminal' \in Term
  BY Sizes DEF Safe, TypeOK, schedule, Term
<1>2. TypeOK'
  BY <1>1 DEF Safe, TypeOK, schedule, place, memory, display, locals
<1> QED
  BY <1>2, QuietStep DEF schedule, place

-----------------------------------------------------------------------------
(* The theorems *)

\* Initially every screen is empty.
LEMMA InitInv == Init => Inv
<1> SUFFICES ASSUME Init PROVE Inv
  OBVIOUS
<1>1. 0 \in 0 .. NUM_COLS - 1 /\ 0 \in 0 .. INPUT_SIZE /\ 0 \in Nat
      /\ 0 \in Term /\ "idle" \in Point
  BY Sizes DEF Term, Point
<1>2. TypeOK
  BY <1>1 DEF Init, TypeOK, Blank
<1>3. CursorAhead
  <2> SUFFICES ASSUME NEW t \in Term
               PROVE  input_count[t] <= Position(t)
    BY DEF CursorAhead
  <2> QED
    BY FirstRow DEF Init, Position
<1>4. ClearPhase
  BY DEF Init, ClearPhase, Actor
<1> QED
  BY <1>2, <1>3, <1>4 DEF Inv, Safe

\* A thread is not the keyboard handler.
LEMMA ThreadNotHandler ==
  ASSUME NEW t \in Term
  PROVE  t # KBD /\ t # NoTerm
  BY Sizes DEF Term, KBD, NoTerm

\* No step disturbs the handling of Ctrl-L.
LEMMA ClearPhaseKept ==
  ASSUME Inv, Next
  PROVE  ClearPhase'
<1> USE DEF Inv, Safe, TypeOK, ClearPhase
<1>0. KBD \in Actor /\ Term \subseteq Actor
  BY DEF Actor
<1>1. ASSUME NEW t \in Term, Program(t)
      PROVE  ClearPhase'
  <2>1. t # KBD
    BY ThreadNotHandler
  <2>2. /\ UNCHANGED <<kbd, disp_terminal>>
        /\ pc'[KBD] = pc[KBD] /\ disp_idx'[KBD] = disp_idx[KBD]
    BY <1>0, <1>1, <2>1
    DEF Program, terminal_write, putc_enter, putc_body, write_return,
        fish_draw, Put, Return, Locals, Goto, display, locals
  <2> QED
    BY <2>2
<1>2. ASSUME NEW a \in Actor, putc_scrolled(a)
      PROVE  ClearPhase'
  <2>1. CASE a = KBD
    BY <1>0, <1>2, <2>1 DEF putc_scrolled, Return, Goto
  <2>2. CASE a # KBD
    BY <1>0, <1>2, <2>2 DEF putc_scrolled, Return, Locals, Goto, display
  <2> QED
    BY <2>1, <2>2
<1>3. ASSUME Key
      PROVE  ClearPhase'
  <2>1. kbd = NoTerm /\ pc[KBD] # "clear"
    BY <1>3
    DEF Key, type_char, backspace, enter_pressed, clear, esc_pressed,
        switch_terminal, KeyArrives
  <2>2. CASE clear
    BY <1>0, <2>1, <2>2, ThreadNotHandler
    DEF clear, Locals, Goto, Handling, d, display
  <2>3. ASSUME NEW ch, NEW y, Put(KBD, TRUE, d, y, ch)
        PROVE  pc'[KBD] # "clear"
    BY <1>0, <2>3 DEF Put, Return, Goto
  <2>4. CASE ~clear
    <3>1. pc'[KBD] # "clear"
      BY <1>0, <1>3, <2>1, <2>3, <2>4, ThreadNotHandler
      DEF Key, type_char, backspace, enter_pressed, esc_pressed,
          switch_terminal, Goto
    <3> QED
      BY <3>1
  <2> QED
    BY <2>2, <2>4
<1>4. ASSUME enter_reset \/ clear_reset
      PROVE  ClearPhase'
  BY <1>0, <1>4 DEF enter_reset, clear_reset, Goto
<1>5. ASSUME schedule
      PROVE  ClearPhase'
  BY <1>5 DEF schedule, display, locals
<1> QED
  BY <1>1, <1>2, <1>3, <1>4, <1>5 DEF Next

\* The invariant is inductive.
LEMMA NextInv ==
  ASSUME Inv, [Next]_vars
  PROVE  Inv'
<1>1. CASE Next
  <2>1. ASSUME NEW t \in Term, Program(t)
        PROVE  Safe'
    <3> USE DEF Inv
    <3>1. ASSUME NEW ch \in Char \cup {LF},
                 terminal_write(t, ch) \/ putc_enter(t, ch)
          PROVE  Safe'
      BY <3>1, terminal_write_step, putc_enter_step
    <3>2. CASE putc_body(t)
      BY <3>2, putc_body_step
    <3>3. CASE write_return(t)
      BY <3>3, write_return_step
    <3>4. ASSUME NEW k \in FishCells, NEW ch \in Char \cup {BLANK},
                 fish_draw(t, k, ch)
          PROVE  Safe'
      BY <3>4, fish_draw_step
    <3> QED
      BY <2>1, <3>1, <3>2, <3>3, <3>4 DEF Program
  <2>2. ASSUME NEW a \in Actor, putc_scrolled(a)
        PROVE  Safe'
    BY <2>2, putc_scrolled_step DEF Inv
  <2>3. ASSUME Key
        PROVE  Safe'
    <3> USE DEF Inv
    <3>1. ASSUME NEW ch \in Char, type_char(ch)
          PROVE  Safe'
      BY <3>1, type_char_step
    <3>2. CASE backspace
      BY <3>2, backspace_step
    <3>3. CASE enter_pressed
      BY <3>3, enter_pressed_step
    <3>4. CASE clear
      BY <3>4, clear_step
    <3>5. CASE esc_pressed
      BY <3>5, esc_pressed_step
    <3>6. ASSUME NEW n \in Term, switch_terminal(n)
          PROVE  Safe'
      BY <3>6, switch_terminal_step
    <3> QED
      BY <2>3, <3>1, <3>2, <3>3, <3>4, <3>5, <3>6 DEF Key
  <2>4. ASSUME enter_reset
        PROVE  Safe'
    BY <2>4, enter_reset_step DEF Inv
  <2>5. ASSUME clear_reset
        PROVE  Safe'
    <3>1. disp_idx[KBD] = disp_terminal
      BY <2>5 DEF clear_reset, At, Inv, ClearPhase
    <3> QED
      BY <2>5, <3>1, clear_reset_step DEF Inv
  <2>6. ASSUME schedule
        PROVE  Safe'
    BY <2>6, schedule_step DEF Inv
  <2>7. Safe'
    BY <1>1, <2>1, <2>2, <2>3, <2>4, <2>5, <2>6 DEF Next, Inv
  <2> QED
    BY <1>1, <2>7, ClearPhaseKept DEF Inv
<1>2. CASE UNCHANGED vars
  BY <1>2
  DEF Inv, Safe, TypeOK, CursorAhead, ClearPhase, Position, vars, place,
      memory, display, locals
<1> QED
  BY <1>1, <1>2

\* The inductive invariant holds in every reachable state.
THEOREM ScreenInvariant == Spec => []Inv
  BY InitInv, NextInv, PTL DEF Spec

\* screen_x and screen_y never leave the screen at the left, the right or the
\* top, with interrupts as the code enables them.
THEOREM ScreenTypeCorrect == Spec => []TypeOK
<1>1. Inv => TypeOK
  BY DEF Inv, Safe
<1> QED
  BY <1>1, ScreenInvariant, PTL

\* Backspace and Enter never take back more than was typed, whatever the
\* programs write meanwhile.
THEOREM CursorStaysAhead == Spec => []CursorAhead
<1>1. Inv => CursorAhead
  BY DEF Inv, Safe
<1> QED
  BY <1>1, ScreenInvariant, PTL

-----------------------------------------------------------------------------
(***************************************************************************)
(* Screen implements VirtualConsoles, and the hardware cursor follows the  *)
(* terminal on display, if interrupts are held off at the points where     *)
(* the code lets them through.  Then only one actor at a time is inside    *)
(* putc, terminal_write or the handling of a key, and what it has read of  *)
(* disp_terminal is still true when it uses it.                            *)
(***************************************************************************)

\* The hypothesis of the theorems.  In the code Masked is empty.
Held == Masked = Window

\* The terminal that actor a puts characters on.
Target(a) == IF disp_terminal_on[a] THEN disp_terminal ELSE a

\* Only the running actor is inside an operation.
Settled ==
  /\ kbd \in {NoTerm, scheduled_terminal}
  /\ pc[KBD] = "idle" => kbd = NoTerm
  /\ \A a \in Actor : a # Running => pc[a] = "idle"
  /\ pc[KBD] \in {"idle", "scrolled", "clear", "enter"}
  /\ \A t \in Term : pc[t] \notin {"clear", "enter"}

\* What an actor has read of disp_terminal is true.
Looked ==
  \A a \in Actor :
    /\ pc[a] \in {"first", "body", "scrolled", "clear"} =>
         disp_idx[a] = disp_terminal
    /\ pc[a] \in {"first", "next", "body", "scrolled"} =>
         (disp_terminal_on[a] <=> a \in {disp_terminal, KBD})

\* Behind scroll, putc for terminal t.
Behind(t) == pc[Running] = "scrolled" /\ t = Target(Running)

\* screen_y is behind the screen only while putc is behind scroll.
Rows == \A t \in Term : screen_y[t] < NUM_ROWS \/ Behind(t)

CursorKept ==
  \/ pc[Running] = "clear" \/ Behind(disp_terminal)
  \/ cursor = Position(disp_terminal)

\* The programs' pages show the memory that belongs to their terminal.
Pages == \A t \in Term : vidmap[t] = "video" <=> t = disp_terminal

HeldInv == Inv /\ Settled /\ Looked /\ Rows /\ CursorKept /\ Pages

-----------------------------------------------------------------------------
(* Who runs, and where. *)

\* Under the invariant the places that the refinement maps to are these.
Mapped ==
  \A t \in Term :
    LogicalPosition(t) =
      IF Behind(t)
      THEN NUM_COLS * (NUM_ROWS - 1)
             + (IF c[Running] = LF THEN 0 ELSE screen_x[t])
      ELSE IF pc[Running] = "clear" /\ t = disp_terminal
           THEN 0 ELSE Position(t)

LEMMA ActorTypes ==
  /\ KBD \in Actor /\ Term \subseteq Actor /\ KBD \notin Term
  /\ NoTerm \notin Term
  /\ \A a \in Actor : a # KBD => a \in Term
  BY Sizes DEF Actor, Term, KBD, NoTerm

LEMMA RunningNow ==
  ASSUME HeldInv
  PROVE  /\ Running \in Actor /\ scheduled_terminal \in Term
         /\ disp_terminal \in Term
         /\ Running = KBD => kbd = scheduled_terminal
         /\ Running # KBD => /\ Running = scheduled_terminal /\ kbd = NoTerm
                             /\ pc[KBD] = "idle"
  BY ActorTypes DEF HeldInv, Inv, Safe, TypeOK, Settled, Running

LEMMA MappedPositions == HeldInv => Mapped
<1> SUFFICES ASSUME HeldInv, NEW t \in Term
             PROVE  LogicalPosition(t) =
                      IF Behind(t)
                      THEN NUM_COLS * (NUM_ROWS - 1)
                             + (IF c[Running] = LF THEN 0 ELSE screen_x[t])
                      ELSE IF pc[Running] = "clear" /\ t = disp_terminal
                           THEN 0 ELSE Position(t)
  BY DEF Mapped
<1>1. /\ Running \in Actor
      /\ \A a \in Actor : a # Running => pc[a] = "idle"
      /\ Running # KBD => pc[Running] # "clear"
  BY RunningNow DEF HeldInv, Settled
<1>2. \A a \in Actor : Scrolling(a, t) <=> a = Running /\ Behind(t)
  BY <1>1 DEF Scrolling, Behind, Target, HeldInv, Looked
<1>3. CASE Behind(t)
  <2>1. (CHOOSE b \in Actor : Scrolling(b, t)) = Running
    BY <1>1, <1>2, <1>3
  <2> QED BY <1>1, <1>2, <1>3, <2>1 DEF LogicalPosition
<1>4. CASE ~Behind(t)
  <2>1. ~\E a \in Actor : Scrolling(a, t)
    BY <1>2, <1>4
  <2>2. pc[KBD] = "clear" => Running = KBD /\ disp_idx[KBD] = disp_terminal
    BY <1>1, ActorTypes DEF HeldInv, Looked
  <2>3. pc[Running] = "clear" => Running = KBD
    BY <1>1
  <2> QED BY <1>4, <2>1, <2>2, <2>3, <1>1, ActorTypes
          DEF LogicalPosition, HeldInv, Looked
<1> QED BY <1>3, <1>4

\* An interrupt finds every actor outside of its operations.
LEMMA Interrupted ==
  ASSUME Held, HeldInv, Interruptible
  PROVE  /\ \A a \in Actor : pc[a] = "idle"
         /\ kbd = NoTerm /\ Running = scheduled_terminal
<1>1. pc[Running] = "idle"
  BY RunningNow
  DEF Held, Interruptible, HeldInv, Inv, Safe, TypeOK, Point
<1>2. \A a \in Actor : pc[a] = "idle"
  BY <1>1 DEF HeldInv, Settled
<1>3. kbd = NoTerm
  BY <1>2, ActorTypes DEF HeldInv, Settled
<1> QED BY <1>2, <1>3, RunningNow, ActorTypes

-----------------------------------------------------------------------------
(* Steps that the consoles do not see. *)

\* No cursor moves, and none was or is on its way.
LEMMA CalmPositions ==
  ASSUME HeldInv, HeldInv', UNCHANGED <<screen_x, screen_y>>,
         pc[Running] \notin {"scrolled", "clear"},
         (pc[Running] \notin {"scrolled", "clear"})'
  PROVE  Positions' = Positions
<1>1. \A t \in Term : LogicalPosition(t) = Position(t)
  BY MappedPositions DEF Mapped, Behind
<1>2. Mapped'
  BY MappedPositions, PTL
<1>3. \A t \in Term : LogicalPosition(t)' = Position(t)'
  BY <1>2 DEF Mapped, Behind
<1>4. \A t \in Term : Position(t)' = Position(t)
  BY DEF Position
<1> QED BY <1>1, <1>3, <1>4 DEF Positions

\* Between two points of terminal_write at which nothing is put.
LEMMA LocalStep ==
  ASSUME HeldInv, Inv', NEW t \in Term, NEW to \in {"first", "body", "idle"},
         NEW on \in BOOLEAN, NEW idx, NEW ch,
         At(t, {"idle", "next"}), Goto(t, to), Locals(t, on, idx, ch),
         to # "idle" => idx = disp_terminal /\ (on <=> t = disp_terminal),
         UNCHANGED <<place, memory, display, scheduled_terminal, input_count,
                     kbd>>
  PROVE  HeldInv' /\ UNCHANGED Consoles!vars
<1>1. /\ Running = t /\ Running' = t /\ t # KBD /\ t \in Actor
      /\ pc[t] \in {"idle", "next"} /\ kbd = NoTerm /\ pc[KBD] = "idle"
      /\ disp_terminal \in Term
  BY RunningNow, ActorTypes DEF At, Running
<1>2. /\ UNCHANGED <<screen_x, screen_y, cursor, video_mem, buffer_mem,
                     disp_terminal, vidmap, scheduled_terminal, input_count,
                     kbd>>
      /\ pc'[t] = to /\ \A a \in Actor : a # t => pc'[a] = pc[a]
      /\ disp_idx'[t] = idx
      /\ \A a \in Actor : a # t => /\ disp_idx'[a] = disp_idx[a]
                                   /\ c'[a] = c[a]
  BY <1>1 DEF place, memory, display, Goto, Locals, HeldInv, Inv, Safe, TypeOK
<1>3. /\ disp_terminal_on'[t] <=> on
      /\ \A a \in Actor : a # t =>
           (disp_terminal_on'[a] <=> disp_terminal_on[a])
  BY <1>1 DEF Locals, HeldInv, Inv, Safe, TypeOK
<1>4. Settled'
  BY <1>1, <1>2, ActorTypes DEF HeldInv, Settled
<1>5. Looked'
  BY <1>1, <1>2, <1>3, ActorTypes DEF HeldInv, Looked
<1>6. Rows' /\ CursorKept'
  BY <1>1, <1>2 DEF HeldInv, Rows, CursorKept, Behind, Position
<1>7. Pages'
  BY <1>2 DEF HeldInv, Pages
<1>8. HeldInv'
  BY <1>4, <1>5, <1>6, <1>7 DEF HeldInv
<1>9. Positions' = Positions
  BY <1>1, <1>2, <1>8, CalmPositions
<1>10. Screens' = Screens /\ TypedCount' = TypedCount
  BY <1>1, <1>2, ActorTypes DEF Screens, TypedCount, LineDone
<1> QED BY <1>2, <1>8, <1>9, <1>10 DEF Consoles!vars

LEMMA terminal_write_held ==
  ASSUME HeldInv, Inv', NEW t \in Term, NEW ch, terminal_write(t, ch)
  PROVE  HeldInv' /\ UNCHANGED Consoles!vars
<1>1. PICK on \in BOOLEAN : on <=> t = disp_terminal
  OBVIOUS
<1>2. PICK n : n = disp_terminal
  OBVIOUS
<1>3. on = (t = disp_terminal)
  BY <1>1
<1>4. At(t, {"idle", "next"}) /\ Goto(t, "first") /\ Locals(t, on, n, ch)
  BY <1>2, <1>3 DEF terminal_write, At
<1> QED BY <1>1, <1>2, <1>4, LocalStep DEF terminal_write

LEMMA putc_enter_held ==
  ASSUME HeldInv, Inv', NEW t \in Term, NEW ch, putc_enter(t, ch)
  PROVE  HeldInv' /\ UNCHANGED Consoles!vars
<1>1. PICK on : on = disp_terminal_on[t]
  OBVIOUS
<1>2. PICK n : n = disp_terminal
  OBVIOUS
<1>3. on \in BOOLEAN
  BY <1>1, ActorTypes DEF HeldInv, Inv, Safe, TypeOK
<1>4. At(t, {"idle", "next"}) /\ Goto(t, "body") /\ Locals(t, on, n, ch)
  BY <1>1, <1>2 DEF putc_enter, At
<1>5. on <=> t = disp_terminal
  BY <1>1, ActorTypes DEF putc_enter, At, HeldInv, Looked
<1> QED BY <1>2, <1>3, <1>4, <1>5, LocalStep DEF putc_enter

LEMMA write_return_held ==
  ASSUME HeldInv, Inv', NEW t \in Term, write_return(t)
  PROVE  HeldInv' /\ UNCHANGED Consoles!vars
<1>1. At(t, {"idle", "next"}) /\ Goto(t, "idle") /\ Locals(t, FALSE, 0, LF)
  BY DEF write_return, At
<1> QED BY <1>1, LocalStep DEF write_return

\* Esc finds no process inside terminal_write.
LEMMA esc_pressed_held ==
  ASSUME Held, HeldInv, Inv', esc_pressed
  PROVE  HeldInv' /\ UNCHANGED Consoles!vars
<1>1. PICK t \in Term : t = scheduled_terminal
  BY RunningNow
<1>2. At(t, {"idle", "next"}) /\ Goto(t, "idle") /\ Locals(t, FALSE, 0, LF)
  BY <1>1, Interrupted, ActorTypes DEF esc_pressed, KeyArrives, At
<1> QED BY <1>2, LocalStep DEF esc_pressed

\* The end of Enter: the line was done before its count is reset.
LEMMA enter_reset_held ==
  ASSUME HeldInv, Inv', enter_reset
  PROVE  HeldInv' /\ UNCHANGED Consoles!vars
<1>1. /\ Running = KBD /\ pc[KBD] = "enter" /\ kbd = scheduled_terminal
      /\ scheduled_terminal \in Term /\ disp_terminal \in Term
      /\ \A a \in Actor : a # KBD => pc[a] = "idle"
  BY RunningNow DEF enter_reset, At, HeldInv, Settled
<1>2. /\ UNCHANGED <<screen_x, screen_y, cursor, video_mem, buffer_mem,
                     disp_terminal, vidmap, scheduled_terminal, disp_idx,
                     disp_terminal_on, c>>
      /\ kbd' = NoTerm /\ \A a \in Actor : pc'[a] = "idle"
      /\ input_count' = [input_count EXCEPT ![disp_terminal] = 0]
  BY <1>1, ActorTypes
  DEF enter_reset, place, memory, display, locals, Goto, d, HeldInv, Inv, Safe,
      TypeOK
<1>3. Running' = scheduled_terminal
  BY <1>1, <1>2, ActorTypes DEF Running
<1>4. Settled' /\ Looked'
  BY <1>2, ActorTypes DEF Settled, Looked
<1>5. Rows' /\ CursorKept' /\ Pages'
  BY <1>1, <1>2, <1>3
  DEF HeldInv, Rows, CursorKept, Pages, Behind, Position
<1>6. HeldInv'
  BY <1>4, <1>5 DEF HeldInv
<1>7. Positions' = Positions
  BY <1>1, <1>2, <1>3, <1>6, ActorTypes, CalmPositions
<1>8. Screens' = Screens
  BY <1>2 DEF Screens
<1>9. TypedCount' = TypedCount
  <2>1. LineDone /\ ~LineDone'
    BY <1>1, <1>2, ActorTypes DEF LineDone
  <2>2. \A t \in Term : input_count'[t] = IF t = disp_terminal
                                         THEN 0 ELSE input_count[t]
    BY <1>2 DEF HeldInv, Inv, Safe, TypeOK
  <2> QED BY <1>2, <2>1, <2>2 DEF TypedCount
<1> QED BY <1>2, <1>6, <1>7, <1>8, <1>9 DEF Consoles!vars

\* The end of Ctrl-L: the screen was clear before its cursor is reset.
LEMMA clear_reset_held ==
  ASSUME HeldInv, Inv', clear_reset
  PROVE  HeldInv' /\ UNCHANGED Consoles!vars
<1>0. PICK n \in Term : n = disp_terminal
  BY RunningNow
<1>1. /\ Running = KBD /\ pc[KBD] = "clear" /\ kbd = scheduled_terminal
      /\ scheduled_terminal \in Term /\ disp_idx[KBD] = n
      /\ \A a \in Actor : a # KBD => pc[a] = "idle"
  BY <1>0, RunningNow, ActorTypes DEF clear_reset, At, HeldInv, Settled, Looked
<1>2. /\ UNCHANGED <<video_mem, buffer_mem, disp_terminal, vidmap,
                     scheduled_terminal>>
      /\ kbd' = NoTerm /\ \A a \in Actor : pc'[a] = "idle"
      /\ input_count' = [input_count EXCEPT ![n] = 0]
      /\ screen_x' = [screen_x EXCEPT ![n] = 0]
      /\ screen_y' = [screen_y EXCEPT ![n] = 0]
      /\ cursor' = 0 * NUM_COLS + 0
  BY <1>0, <1>1, ActorTypes
  DEF clear_reset, memory, display, Goto, d, set_cursor, HeldInv, Inv, Safe,
      TypeOK
<1>3. Running' = scheduled_terminal
  BY <1>1, <1>2, ActorTypes DEF Running
<1>4. Settled' /\ Looked'
  BY <1>2, ActorTypes DEF Settled, Looked
<1>5. \A t \in Term :
        /\ screen_y'[t] = IF t = n THEN 0 ELSE screen_y[t]
        /\ Position(t)' = IF t = n THEN 0 ELSE Position(t)
  BY <1>2, FirstRow DEF Position, HeldInv, Inv, Safe, TypeOK
<1>6. \A t \in Term : ~Behind(t)
  BY <1>1 DEF Behind
<1>7. Rows' /\ CursorKept' /\ Pages'
  BY <1>0, <1>2, <1>5, <1>6, Sizes
  DEF HeldInv, Rows, CursorKept, Pages
<1>8. HeldInv'
  BY <1>4, <1>7 DEF HeldInv
<1>9. Positions' = Positions
  <2>1. \A t \in Term : LogicalPosition(t) = IF t = n THEN 0 ELSE Position(t)
    BY <1>0, <1>1, <1>6, MappedPositions DEF Mapped
  <2>2. Mapped'
    BY <1>8, MappedPositions, PTL
  <2>3. \A t \in Term : LogicalPosition(t)' = Position(t)'
    BY <1>1, <1>2, <1>3, <2>2, ActorTypes DEF Mapped, Behind
  <2> QED BY <1>5, <2>1, <2>3 DEF Positions
<1>10. Screens' = Screens
  BY <1>2 DEF Screens
<1>11. TypedCount' = TypedCount
  <2>1. LineDone /\ ~LineDone'
    BY <1>1, <1>2, ActorTypes DEF LineDone
  <2>2. \A t \in Term : input_count'[t] = IF t = n THEN 0 ELSE input_count[t]
    BY <1>2 DEF HeldInv, Inv, Safe, TypeOK
  <2> QED BY <1>0, <1>2, <2>1, <2>2 DEF TypedCount
<1> QED BY <1>2, <1>8, <1>9, <1>10, <1>11 DEF Consoles!vars

-----------------------------------------------------------------------------
(* Drawing, Ctrl-L, Alt-Fn and the timer. *)

\* A program draws on the screen of its own terminal.
LEMMA fish_draw_held ==
  ASSUME HeldInv, Inv', NEW t \in Term, NEW k \in FishCells,
         NEW ch \in Char \cup {BLANK}, fish_draw(t, k, ch)
  PROVE  HeldInv' /\ Consoles!Draw
<1>1. /\ Running = t /\ t # KBD /\ pc[t] = "idle" /\ scheduled_terminal = t
      /\ pc[KBD] = "idle"
  BY RunningNow, ActorTypes DEF fish_draw, At
<1>2. /\ UNCHANGED <<screen_x, screen_y, cursor, disp_terminal, vidmap,
                     scheduled_terminal, input_count, kbd, pc, disp_idx,
                     disp_terminal_on, c>>
      /\ Running' = Running
  BY DEF fish_draw, place, display, locals, Running
<1>3. HeldInv'
  BY <1>2
  DEF HeldInv, Settled, Looked, Rows, CursorKept, Pages, Behind, Target,
      Position
<1>4. Positions' = Positions /\ TypedCount' = TypedCount
  BY <1>1, <1>2, <1>3, CalmPositions DEF TypedCount, LineDone
<1>5. Screens' = [Screens EXCEPT ![t][k] = ch]
  <2>1. /\ video_mem \in [Cell -> Char \cup {BLANK}]
        /\ buffer_mem \in [Term -> [Cell -> Char \cup {BLANK}]]
    BY DEF HeldInv, Inv, Safe, TypeOK
  <2>2. vidmap[t] = "video" <=> t = disp_terminal
    BY DEF HeldInv, Pages
  <2>3. CASE t = disp_terminal
    <3>1. /\ video_mem' = [video_mem EXCEPT ![k] = ch]
          /\ buffer_mem' = buffer_mem
      BY <2>2, <2>3 DEF fish_draw
    <3> QED BY <1>2, <2>3, <3>1 DEF Screens
  <2>4. CASE t # disp_terminal
    <3>1. /\ buffer_mem' = [buffer_mem EXCEPT ![t][k] = ch]
          /\ video_mem' = video_mem
      BY <2>2, <2>4 DEF fish_draw
    <3> QED BY <1>2, <2>1, <2>4, <3>1 DEF Screens
  <2> QED BY <2>3, <2>4
<1>6. k \in Consoles!Cell
  BY ScreenAssumption DEF Consoles!Cell, Consoles!Size, Cell, Size
<1> QED BY <1>1, <1>2, <1>3, <1>4, <1>5, <1>6 DEF Consoles!Draw

\* The timer: the next terminal's program runs.
LEMMA schedule_held ==
  ASSUME Held, HeldInv, Inv', schedule
  PROVE  HeldInv' /\ \E t \in Term : Consoles!Run(t)
<1>1. (\A a \in Actor : pc[a] = "idle") /\ kbd = NoTerm
  BY Interrupted DEF schedule
<1>2. /\ UNCHANGED <<screen_x, screen_y, cursor, video_mem, buffer_mem,
                     disp_terminal, vidmap, input_count, kbd, pc, disp_idx,
                     disp_terminal_on, c>>
      /\ scheduled_terminal' \in Term
  BY DEF schedule, place, memory, display, locals, Inv, Safe, TypeOK
<1>3. Running \in Actor /\ Running' = scheduled_terminal'
  BY <1>1, <1>2, RunningNow, ActorTypes DEF Running
<1>4. Settled' /\ Looked'
  BY <1>1, <1>2, ActorTypes DEF Settled, Looked
<1>5. Rows' /\ CursorKept' /\ Pages'
  BY <1>1, <1>2, <1>3, ActorTypes
  DEF HeldInv, Rows, CursorKept, Pages, Behind, Position
<1>6. HeldInv'
  BY <1>4, <1>5 DEF HeldInv
<1>7. Positions' = Positions
  BY <1>1, <1>2, <1>3, <1>6, ActorTypes, CalmPositions
<1>8. Screens' = Screens /\ TypedCount' = TypedCount
  BY <1>2 DEF Screens, TypedCount, LineDone
<1>9. Consoles!Run(scheduled_terminal')
  BY <1>2, <1>7, <1>8 DEF Consoles!Run
<1> QED BY <1>2, <1>6, <1>9

\* Alt-Fn: another screen is shown, and none changes.
LEMMA switch_terminal_held ==
  ASSUME Held, HeldInv, Inv', NEW n \in Term, switch_terminal(n)
  PROVE  HeldInv' /\ Consoles!Show(n)
<1>0. PICK old \in Term : old = disp_terminal
  BY RunningNow
<1>1. /\ \A a \in Actor : pc[a] = "idle"
      /\ kbd = NoTerm /\ Running = scheduled_terminal
      /\ scheduled_terminal \in Actor
  BY Interrupted, RunningNow, ActorTypes DEF switch_terminal, KeyArrives
<1>2. /\ UNCHANGED <<screen_x, screen_y, scheduled_terminal, input_count, kbd,
                     pc, disp_idx, disp_terminal_on, c>>
      /\ Running' = Running
  BY DEF switch_terminal, locals, Running
<1>3. /\ disp_terminal' = n
      /\ vidmap' = [vidmap EXCEPT ![n] = "video",
                                  ![old] = IF old = n THEN "video"
                                                      ELSE "buffer"]
      /\ n = old => UNCHANGED <<video_mem, buffer_mem, cursor>>
      /\ n # old => /\ buffer_mem' = [buffer_mem EXCEPT ![old] = video_mem]
                    /\ video_mem' = buffer_mem[n]
                    /\ cursor' = screen_y[n] * NUM_COLS + screen_x[n]
  BY <1>0 DEF switch_terminal, d, memory, set_cursor, HeldInv, Inv, Safe,
              TypeOK
<1>4. Settled' /\ Looked'
  BY <1>1, <1>2, ActorTypes DEF HeldInv, Settled, Looked
<1>5. Rows' /\ CursorKept'
  <2>1. n # old => cursor' = Position(n)
    BY <1>3, Sizes DEF Position, HeldInv, Inv, Safe, TypeOK
  <2>2. n = old => cursor' = Position(n)
    BY <1>0, <1>1, <1>3 DEF HeldInv, CursorKept, Behind
  <2>3. \A t \in Term : screen_y[t] < NUM_ROWS
    BY <1>1 DEF HeldInv, Rows, Behind
  <2> QED BY <1>2, <1>3, <2>1, <2>2, <2>3 DEF Rows, CursorKept, Position
<1>6. Pages'
  <2>1. vidmap \in [Term -> {"video", "buffer"}]
    BY DEF HeldInv, Inv, Safe, TypeOK
  <2> QED BY <1>0, <1>3, <2>1 DEF HeldInv, Pages
<1>7. HeldInv'
  BY <1>4, <1>5, <1>6 DEF HeldInv
<1>8. Positions' = Positions
  BY <1>1, <1>2, <1>7, CalmPositions
<1>9. Screens' = Screens
  <2>1. buffer_mem \in [Term -> [Cell -> Char \cup {BLANK}]]
    BY DEF HeldInv, Inv, Safe, TypeOK
  <2> QED BY <1>0, <1>3, <2>1 DEF Screens
<1>10. TypedCount' = TypedCount
  <2>1. ~LineDone /\ ~LineDone'
    BY <1>1, <1>2, ActorTypes DEF LineDone
  <2> QED BY <1>2, <2>1 DEF TypedCount
<1> QED BY <1>2, <1>3, <1>7, <1>8, <1>9, <1>10 DEF Consoles!Show

\* Ctrl-L: the screen that is shown is cleared.
LEMMA clear_held ==
  ASSUME Held, HeldInv, Inv', clear
  PROVE  HeldInv' /\ Consoles!Clear
<1>0. PICK n \in Term : n = disp_terminal
  BY RunningNow
<1>1. /\ \A a \in Actor : pc[a] = "idle"
      /\ kbd = NoTerm /\ Running = scheduled_terminal
      /\ scheduled_terminal \in Term
  BY Interrupted, RunningNow DEF clear, KeyArrives
<1>2. /\ UNCHANGED <<screen_x, screen_y, cursor, buffer_mem, disp_terminal,
                     vidmap, scheduled_terminal, input_count>>
      /\ video_mem' = Blank
      /\ pc'[KBD] = "clear" /\ \A a \in Actor : a # KBD => pc'[a] = "idle"
      /\ disp_idx'[KBD] = n
      /\ kbd' = scheduled_terminal
  BY <1>0, <1>1, ActorTypes
  DEF clear, place, display, Goto, Locals, Handling, d, HeldInv, Inv, Safe,
      TypeOK
<1>3. Running' = KBD
  BY <1>2 DEF Running
<1>4. Settled' /\ Looked'
  BY <1>0, <1>2, <1>3, ActorTypes DEF Settled, Looked
<1>5. Rows' /\ CursorKept' /\ Pages'
  BY <1>1, <1>2, <1>3, ActorTypes
  DEF HeldInv, Rows, CursorKept, Pages, Behind
<1>6. HeldInv'
  BY <1>4, <1>5 DEF HeldInv
<1>7. Positions' = [Positions EXCEPT ![n] = 0]
  <2>1. \A t \in Term : LogicalPosition(t) = Position(t)
    BY <1>1, ActorTypes, MappedPositions DEF Mapped, Behind
  <2>2. Mapped'
    BY <1>6, MappedPositions, PTL
  <2>3. \A t \in Term : LogicalPosition(t)' = IF t = n THEN 0
                                              ELSE Position(t)'
    BY <1>0, <1>2, <1>3, <2>2 DEF Mapped, Behind
  <2>4. \A t \in Term : Position(t)' = Position(t)
    BY <1>2 DEF Position
  <2> QED BY <2>1, <2>3, <2>4 DEF Positions
<1>8. Screens' = [Screens EXCEPT ![n] = Blank]
  BY <1>0, <1>2 DEF Screens
<1>9. TypedCount' = [TypedCount EXCEPT ![n] = 0]
  <2>1. ~LineDone /\ LineDone'
    BY <1>1, <1>2, ActorTypes DEF LineDone
  <2> QED BY <1>0, <1>2, <2>1 DEF TypedCount
<1>10. Blank = [k \in Consoles!Cell |-> BLANK]
  BY DEF Blank, Cell, Size, Consoles!Cell, Consoles!Size
<1> QED BY <1>0, <1>2, <1>6, <1>7, <1>8, <1>9, <1>10 DEF Consoles!Clear

-----------------------------------------------------------------------------
(* putc *)

\* A row ends where the next one begins, or before.
LEMMA RowEnd ==
  ASSUME NEW m \in Nat, NEW n \in Nat, m < n
  PROVE  NUM_COLS * m + NUM_COLS <= NUM_COLS * n
<1>1. PICK k \in Nat : n = m + 1 + k
  <2>1. n - (m + 1) \in Nat /\ n = m + 1 + (n - (m + 1))
    OBVIOUS
  <2> QED BY <2>1
<1>2. NUM_COLS * n = NUM_COLS * m + NUM_COLS + NUM_COLS * k
  BY <1>1, Sizes
<1>3. NUM_COLS * k \in Nat /\ NUM_COLS * m \in Nat /\ NUM_COLS * n \in Nat
  BY RowOffset
<1> QED BY <1>2, <1>3, Sizes

\* Row and column of a position.
LEMMA RowOf ==
  ASSUME NEW y \in Nat, NEW x \in 0 .. NUM_COLS - 1
  PROVE  /\ (NUM_COLS * y + x) \div NUM_COLS = y
         /\ (NUM_COLS * y + x) % NUM_COLS = x
<1> DEFINE p == NUM_COLS * y + x
           q == p \div NUM_COLS
           r == p % NUM_COLS
<1>1. p \in Nat /\ x \in Nat /\ x < NUM_COLS
  BY RowOffset, Sizes
<1>2. q \in Nat /\ r \in Nat /\ r < NUM_COLS /\ p = NUM_COLS * q + r
  BY <1>1, Sizes
<1>3. NUM_COLS * q \in Nat /\ NUM_COLS * y \in Nat
  BY <1>2, RowOffset
<1>4. ~(q < y)
  <2> SUFFICES ASSUME q < y PROVE FALSE
    OBVIOUS
  <2>1. NUM_COLS * q + NUM_COLS <= NUM_COLS * y
    BY <1>2, RowEnd
  <2> HIDE DEF q, r
  <2> QED BY <1>1, <1>2, <1>3, <2>1, Sizes
<1>5. ~(y < q)
  <2> SUFFICES ASSUME y < q PROVE FALSE
    OBVIOUS
  <2>1. NUM_COLS * y + NUM_COLS <= NUM_COLS * q
    BY <1>2, RowEnd
  <2> HIDE DEF q, r
  <2> QED BY <1>1, <1>2, <1>3, <2>1, Sizes
<1>6. q = y
  <2> HIDE DEF q
  <2> QED BY <1>2, <1>4, <1>5
<1>7. r = x
  <2> HIDE DEF q, r
  <2> QED BY <1>1, <1>2, <1>3, <1>6
<1> QED BY <1>6, <1>7

\* The position behind character ch, put in row y and column x.
After(y, x, ch) ==
  IF ch = LF THEN NUM_COLS * (y + 1) ELSE NUM_COLS * y + x + 1

\* putc moves to the next row exactly when it is behind the last column, and
\* calls scroll exactly when it is behind the last cell.
LEMMA AfterRow ==
  ASSUME NEW y \in Nat, y < NUM_ROWS, NEW x \in 0 .. NUM_COLS - 1, NEW ch,
         NEW row, row = IF ch = LF \/ Wraps(x) THEN y + 1 ELSE y,
         NEW col, col = IF ch = LF \/ Wraps(x) THEN 0 ELSE x + 1
  PROVE  /\ NUM_COLS * row + col = After(y, x, ch)
         /\ row * NUM_COLS + col = After(y, x, ch)
         /\ row < NUM_ROWS <=> After(y, x, ch) < Size
         /\ row >= NUM_ROWS => After(y, x, ch) = Size
<1>1. /\ NUM_COLS * y \in Nat
      /\ NUM_COLS * (y + 1) = NUM_COLS * y + NUM_COLS
  BY RowOffset
<1>2. NUM_COLS * NUM_ROWS = Size /\ Size \in Nat
  BY Sizes DEF Size
<1>3. row \in Nat /\ col \in Nat /\ NUM_COLS * row + col = After(y, x, ch)
  <2>1. CASE ch = LF
    <3>1. row = y + 1 /\ col = 0
      BY <2>1
    <3> QED BY <1>1, <2>1, <3>1, Sizes DEF After
  <2>2. CASE ch # LF /\ Wraps(x)
    <3>1. x + 1 = NUM_COLS /\ row = y + 1 /\ col = 0
      BY <2>2, Sizes DEF Wraps
    <3> QED BY <1>1, <2>2, <3>1, Sizes DEF After
  <2>3. CASE ch # LF /\ ~Wraps(x)
    BY <1>1, <2>3, Sizes DEF After
  <2> QED BY <2>1, <2>2, <2>3
<1>4. row * NUM_COLS = NUM_COLS * row
  BY <1>3, Sizes
<1>5. CASE row < NUM_ROWS
  <2>1. NUM_COLS * row + NUM_COLS <= Size /\ NUM_COLS * row \in Nat
    BY <1>2, <1>3, <1>5, RowEnd, RowOffset, Sizes
  <2>2. col < NUM_COLS
    BY Sizes DEF Wraps
  <2> QED BY <1>2, <1>3, <1>4, <1>5, <2>1, <2>2, Sizes
<1>6. CASE ~(row < NUM_ROWS)
  <2>1. row = NUM_ROWS /\ col = 0
    BY <1>3, <1>6, Sizes
  <2> QED BY <1>2, <1>3, <1>4, <2>1, Sizes
<1> QED BY <1>5, <1>6

\* The screen after putc has drawn ch and moved to position p.
Drawn(screen, y, x, ch, p) ==
  IF p < Size THEN Inked(screen, y, x, ch) ELSE scroll(Inked(screen, y, x, ch))

\* putc by actor a for terminal i, where n is the terminal on display, and p
\* the position behind the character.
LEMMA PutFacts ==
  ASSUME HeldInv, NEW n \in Term, n = disp_terminal, disp_terminal' = n,
         NEW a \in {scheduled_terminal, KBD}, NEW on \in BOOLEAN,
         on <=> a \in {n, KBD},
         NEW i \in Term, i = IF a = KBD THEN n ELSE a,
         NEW y \in Nat, y < NUM_ROWS, NEW ch \in Char \cup {LF},
         NEW x, x = screen_x[i], NEW p, p = After(y, x, ch),
         Put(a, on, n, y, ch)
  PROVE  /\ \A t \in Term : t # i => /\ Position(t)' = Position(t)
                                     /\ screen_y'[t] = screen_y[t]
         /\ Screens' = [Screens EXCEPT ![i] = Drawn(Screens[i], y, x, ch, p)]
         /\ p < Size => /\ Position(i)' = p /\ screen_y'[i] < NUM_ROWS
                        /\ cursor' = Position(n)'
                        /\ Return(a, on, ch)
         /\ ~(p < Size) => /\ i # n => cursor' = Position(n)'
                           /\ ch # LF => screen_x'[i] = 0
                           /\ Locals(a, on, n, ch) /\ Goto(a, "scrolled")
<1> DEFINE row  == IF ch = LF \/ Wraps(x) THEN y + 1 ELSE y
           full == row >= NUM_ROWS
           col  == CASE ch = LF -> IF full THEN x ELSE 0
                     [] ch # LF /\ Wraps(x) -> 0
                     [] OTHER -> x + 1
           old  == IF on THEN video_mem ELSE buffer_mem[i]
           ink  == Inked(old, y, x, ch)
           new  == IF full THEN scroll(ink) ELSE ink
<1>1. /\ scheduled_terminal \in Term /\ scheduled_terminal # KBD
      /\ i = IF on THEN n ELSE scheduled_terminal
      /\ on <=> i = n
  BY RunningNow, ActorTypes
<1>2. /\ screen_x \in [Term -> 0 .. NUM_COLS - 1]
      /\ screen_y \in [Term -> Nat]
      /\ buffer_mem \in [Term -> [Cell -> Char \cup {BLANK}]]
  BY DEF HeldInv, Inv, Safe, TypeOK
<1>3. /\ screen_x' = [screen_x EXCEPT ![i] = col]
      /\ screen_y' = [screen_y EXCEPT ![i] = row]
      /\ IF on THEN video_mem' = new /\ UNCHANGED buffer_mem
               ELSE buffer_mem' = [buffer_mem EXCEPT ![i] = new]
                    /\ UNCHANGED video_mem
      /\ cursor' = IF on /\ ~full THEN row * NUM_COLS + col
                   ELSE (IF on THEN y ELSE screen_y[n]) * NUM_COLS
                          + screen_x[n]
      /\ IF full
         THEN Locals(a, on, n, ch) /\ Goto(a, "scrolled")
         ELSE Return(a, on, ch)
  BY <1>1 DEF Put, set_cursor
<1>4. /\ x \in 0 .. NUM_COLS - 1 /\ row \in Nat
      /\ full <=> ~(row < NUM_ROWS)
  BY <1>2, Sizes
<1>5. /\ ~full => NUM_COLS * row + col = p /\ row * NUM_COLS + col = p
      /\ row < NUM_ROWS <=> p < Size
      /\ full /\ ch # LF => col = 0
  <2>1. CASE ch = LF \/ Wraps(x)
    <3>1. row = y + 1 /\ (~full => col = 0) /\ (ch # LF => col = 0)
      BY <2>1
    <3> HIDE DEF row, col, full
    <3> QED BY <1>4, <2>1, <3>1, AfterRow
  <2>2. CASE ~(ch = LF \/ Wraps(x))
    <3>1. row = y /\ col = x + 1 /\ ~full
      BY <2>2, Sizes
    <3> HIDE DEF row, col, full
    <3> QED BY <1>4, <2>2, <3>1, AfterRow
  <2> QED BY <2>1, <2>2
<1> HIDE DEF row, col, full
<1>6. /\ screen_y'[i] = row /\ screen_x'[i] = col
      /\ \A t \in Term : t # i => /\ screen_y'[t] = screen_y[t]
                                  /\ screen_x'[t] = screen_x[t]
  BY <1>2, <1>3
<1>7. /\ Position(i)' = NUM_COLS * row + col
      /\ \A t \in Term : t # i => Position(t)' = Position(t)
  BY <1>6 DEF Position
<1>8. Screens' = [Screens EXCEPT ![i] = Drawn(Screens[i], y, x, ch, p)]
  <2>1. old = Screens[i]
    BY <1>1 DEF Screens
  <2>2. new = Drawn(Screens[i], y, x, ch, p)
    BY <1>4, <1>5, <2>1 DEF Drawn
  <2> HIDE DEF new
  <2>3. CASE on
    <3>1. video_mem' = new /\ buffer_mem' = buffer_mem /\ i = n
      BY <1>1, <1>3, <2>3
    <3> QED BY <2>2, <3>1 DEF Screens
  <2>4. CASE ~on
    <3>1. /\ video_mem' = video_mem /\ i # n
          /\ buffer_mem' = [buffer_mem EXCEPT ![i] = new]
      BY <1>1, <1>3, <2>4
    <3> QED BY <1>2, <2>2, <3>1 DEF Screens
  <2> QED BY <2>3, <2>4
<1>9. i # n => cursor' = Position(n)'
  <2>1. screen_y[n] * NUM_COLS = NUM_COLS * screen_y[n]
    BY <1>2, Sizes
  <2> QED BY <1>1, <1>3, <1>7, <2>1 DEF Position
<1>10. CASE full
  BY <1>3, <1>4, <1>5, <1>6, <1>7, <1>8, <1>9, <1>10
<1>11. CASE ~full
  <2>1. i = n => cursor' = Position(n)'
    BY <1>1, <1>3, <1>5, <1>7, <1>11
  <2> QED BY <1>3, <1>4, <1>5, <1>6, <1>7, <1>8, <1>9, <1>11, <2>1
<1> QED BY <1>10, <1>11

\* scroll moves every row of the screen up by one.
LEMMA ScrollIs ==
  ASSUME NEW mem
  PROVE  scroll(mem) = [k \in Consoles!Cell |->
                          IF k + NUM_COLS < Consoles!Size
                          THEN mem[k + NUM_COLS] ELSE BLANK]
<1>1. Consoles!Cell = Cell /\ Consoles!Size = Size
  BY DEF Consoles!Cell, Cell, Consoles!Size, Size
<1>2. Cell \subseteq Int /\ Size \in Int
  BY Sizes DEF Cell, Size
<1>3. \A k \in Cell : k < NUM_COLS * (NUM_ROWS - 1) <=> k + NUM_COLS < Size
  BY <1>2, LastRow, Sizes
<1> QED BY <1>1, <1>3 DEF scroll

\* putc, up to the return of scroll, is the whole move in the consoles.
LEMMA PutMoves ==
  ASSUME HeldInv, Inv', NEW n \in Term, n = disp_terminal,
         UNCHANGED <<disp_terminal, vidmap, scheduled_terminal>>,
         NEW a \in {scheduled_terminal, KBD}, NEW on \in BOOLEAN,
         on <=> a \in {n, KBD},
         NEW i \in Term, i = IF a = KBD THEN n ELSE a,
         NEW y \in Nat, y < NUM_ROWS, NEW ch \in Char \cup {LF},
         NEW x, x = screen_x[i], NEW p, p = After(y, x, ch),
         Put(a, on, n, y, ch),
         \A b \in Actor : b # a => pc[b] = "idle",
         pc[a] \notin {"scrolled", "clear"},
         kbd' = IF a = KBD /\ pc'[KBD] # "idle"
                THEN scheduled_terminal ELSE NoTerm
  PROVE  /\ HeldInv'
         /\ Consoles!MoveTo(i, Inked(Screens[i], y, x, ch), p)
         /\ LineDone' <=> a = KBD /\ ch = LF
<1>1. /\ \A t \in Term : t # i => /\ Position(t)' = Position(t)
                                  /\ screen_y'[t] = screen_y[t]
      /\ Screens' = [Screens EXCEPT ![i] = Drawn(Screens[i], y, x, ch, p)]
      /\ p < Size => /\ Position(i)' = p /\ screen_y'[i] < NUM_ROWS
                     /\ cursor' = Position(n)'
                     /\ Return(a, on, ch)
      /\ ~(p < Size) => /\ i # n => cursor' = Position(n)'
                        /\ ch # LF => screen_x'[i] = 0
                        /\ Locals(a, on, n, ch) /\ Goto(a, "scrolled")
  BY PutFacts
<1>2. /\ scheduled_terminal \in Term /\ a \in Actor /\ Running \in Actor
      /\ pc \in [Actor -> Point]
      /\ disp_idx \in [Actor -> Term]
      /\ disp_terminal_on \in [Actor -> BOOLEAN]
      /\ c \in [Actor -> Char \cup {LF}]
      /\ on <=> i = n
  BY RunningNow, ActorTypes DEF HeldInv, Inv, Safe, TypeOK
<1>3. pc[Running] \notin {"scrolled", "clear"}
  BY <1>2
<1>4. /\ \A b \in Actor : b # a => pc'[b] = "idle"
      /\ p < Size => pc'[a] = CASE a # KBD -> "next"
                                [] a = KBD /\ ch = LF -> "enter"
                                [] OTHER -> "idle"
      /\ ~(p < Size) => pc'[a] = "scrolled"
  BY <1>1, <1>2 DEF Return, Goto
<1>5. /\ ~(p < Size) => disp_idx'[a] = n /\ c'[a] = ch
      /\ \A b \in Actor : b # a => /\ disp_idx'[b] = disp_idx[b]
                                   /\ c'[b] = c[b]
  BY <1>1, <1>2 DEF Return, Locals
<1>6. a # KBD \/ ~(p < Size) => (disp_terminal_on'[a] <=> on)
  BY <1>1, <1>2 DEF Return, Locals
<1>7. Running' = IF a = KBD /\ pc'[KBD] = "idle" THEN scheduled_terminal ELSE a
  BY <1>2, ActorTypes DEF Running
<1>8. pc'[Running'] = pc'[a]
  BY <1>2, <1>4, <1>7, ActorTypes
<1>9. Settled'
  BY <1>2, <1>4, <1>7, ActorTypes DEF Settled
<1>10. Looked'
  BY <1>2, <1>4, <1>5, <1>6, ActorTypes DEF Looked
<1>11. \A t \in Term : Behind(t)' <=> ~(p < Size) /\ t = i
  <2>1. CASE p < Size
    <3>1. pc'[a] # "scrolled"
      BY <1>4, <2>1
    <3> QED BY <1>8, <2>1, <3>1 DEF Behind
  <2>2. CASE ~(p < Size)
    <3>1. Running' = a /\ pc'[a] = "scrolled"
      BY <1>4, <1>7, <2>2
    <3>2. Target(Running)' = i
      BY <1>2, <1>6, <2>2, <3>1, ActorTypes DEF Target
    <3> QED BY <2>2, <3>1, <3>2 DEF Behind
  <2> QED BY <2>1, <2>2
<1>12. Rows'
  <2>1. \A t \in Term : screen_y[t] < NUM_ROWS
    BY <1>3 DEF HeldInv, Rows, Behind
  <2> QED BY <1>1, <1>11, <2>1 DEF Rows
<1>13. CursorKept' /\ Pages'
  <2>1. Behind(n)' <=> ~(p < Size) /\ n = i
    BY <1>11
  <2> QED BY <1>1, <2>1 DEF CursorKept, HeldInv, Pages
<1>14. HeldInv'
  BY <1>9, <1>10, <1>12, <1>13 DEF HeldInv
<1>15. Positions' = [Positions EXCEPT ![i] = IF p < Size THEN p
                                             ELSE p - NUM_COLS]
  <2>1. \A t \in Term : LogicalPosition(t) = Position(t)
    BY <1>3, MappedPositions DEF Mapped, Behind
  <2>2. Mapped'
    BY <1>14, MappedPositions, PTL
  <2>3. pc'[Running'] # "clear"
    BY <1>4, <1>8
  <2>4. \A t \in Term : t # i => LogicalPosition(t)' = LogicalPosition(t)
    BY <1>1, <1>11, <2>1, <2>2, <2>3 DEF Mapped
  <2>5. p < Size => LogicalPosition(i)' = p
    BY <1>1, <1>11, <2>2, <2>3 DEF Mapped
  <2>6. ~(p < Size) => LogicalPosition(i)' = p - NUM_COLS
    <3> SUFFICES ASSUME ~(p < Size)
                 PROVE  LogicalPosition(i)' = p - NUM_COLS
      OBVIOUS
    <3>1. Running' = a /\ c'[a] = ch
      BY <1>4, <1>5, <1>7
    <3>2. LogicalPosition(i)' = NUM_COLS * (NUM_ROWS - 1) + 0
      BY <1>1, <1>11, <2>2, <3>1 DEF Mapped
    <3>3. x \in 0 .. NUM_COLS - 1
      BY DEF HeldInv, Inv, Safe, TypeOK
    <3>4. PICK row, col :
            /\ row = IF ch = LF \/ Wraps(x) THEN y + 1 ELSE y
            /\ col = IF ch = LF \/ Wraps(x) THEN 0 ELSE x + 1
      OBVIOUS
    <3>5. row \in Nat
      BY <3>4
    <3>6. ~(row < NUM_ROWS)
      BY <3>3, <3>4, AfterRow
    <3>7. row >= NUM_ROWS
      BY <3>5, <3>6, Sizes
    <3>8. p = Size
      BY <3>3, <3>4, <3>7, AfterRow
    <3> QED BY <3>2, <3>8, LastRow, Sizes
  <2> QED BY <2>4, <2>5, <2>6 DEF Positions
<1>16. Consoles!MoveTo(i, Inked(Screens[i], y, x, ch), p)
  <2>1. Consoles!Size = Size
    BY DEF Consoles!Size, Size
  <2>2. PICK ink : ink = Inked(Screens[i], y, x, ch)
    OBVIOUS
  <2>3. p < Size => Screens' = [Screens EXCEPT ![i] = ink]
    BY <1>1, <2>2 DEF Drawn
  <2>4. ~(p < Size) => Screens' = [Screens EXCEPT ![i] = scroll(ink)]
    BY <1>1, <2>2 DEF Drawn
  <2>5. Consoles!MoveTo(i, ink, p)
    BY <1>15, <2>1, <2>3, <2>4, ScrollIs DEF Consoles!MoveTo
  <2> QED BY <2>2, <2>5
<1>17. LineDone' <=> a = KBD /\ ch = LF
  BY <1>4, <1>5, ActorTypes DEF LineDone
<1> QED BY <1>14, <1>16, <1>17

\* From the row of the cursor, the move is a newline or an added character.
LEMMA PutIs ==
  ASSUME HeldInv, NEW i \in Term, pc[Running] \notin {"scrolled", "clear"},
         NEW y, y = screen_y[i], NEW x, x = screen_x[i], NEW ch,
         Consoles!MoveTo(i, Inked(Screens[i], y, x, ch), After(y, x, ch))
  PROVE  /\ ch = LF  => Consoles!Newline(i)
         /\ ch # LF => Consoles!Add(i, ch)
<1>1. y \in Nat /\ x \in 0 .. NUM_COLS - 1
  BY DEF HeldInv, Inv, Safe, TypeOK
<1>2. Positions[i] = NUM_COLS * y + x
  BY MappedPositions DEF Mapped, Behind, Positions, Position
<1>3. Screens[i] \in [Cell -> Char \cup {BLANK}]
  BY DEF Screens, HeldInv, Inv, Safe, TypeOK
<1>4. CASE ch = LF
  <2>1. Inked(Screens[i], y, x, ch) = Screens[i]
    BY <1>3, <1>4 DEF Inked
  <2>2. Positions[i] \div NUM_COLS = y
    BY <1>1, <1>2, RowOf
  <2>3. (Positions[i] \div NUM_COLS + 1) * NUM_COLS = After(y, x, ch)
    <3>1. (y + 1) * NUM_COLS = NUM_COLS * (y + 1)
      BY <1>1, Sizes
    <3> QED BY <1>4, <2>2, <3>1 DEF After
  <2> QED BY <1>4, <2>1, <2>3 DEF Consoles!Newline
<1>5. CASE ch # LF
  <2>1. Inked(Screens[i], y, x, ch) = [Screens[i] EXCEPT ![Positions[i]] = ch]
    <3>1. PICK mem \in [Cell -> Char \cup {BLANK}] : mem = Screens[i]
      BY <1>3
    <3>2. PICK p : p = NUM_COLS * y + x
      OBVIOUS
    <3>3. Inked(mem, y, x, ch) = [mem EXCEPT ![p] = ch]
      BY <1>5, <3>2 DEF Inked
    <3> QED BY <1>2, <3>1, <3>2, <3>3
  <2>2. After(y, x, ch) = Positions[i] + 1
    BY <1>2, <1>5 DEF After
  <2> QED BY <1>5, <2>1, <2>2 DEF Consoles!Add
<1> QED BY <1>4, <1>5

\* A program writes a character.
LEMMA putc_body_held ==
  ASSUME HeldInv, Inv', NEW t \in Term, putc_body(t)
  PROVE  HeldInv' /\ Consoles!Write
<1>0. PICK n \in Term : n = disp_terminal
  BY RunningNow
<1>1. /\ Running = t /\ t # KBD /\ scheduled_terminal = t /\ kbd = NoTerm
      /\ pc[t] \in {"first", "body"} /\ t \in Actor
  BY RunningNow, ActorTypes DEF putc_body, At
<1>2. /\ \A b \in Actor : b # t => pc[b] = "idle"
      /\ disp_idx[t] = n /\ disp_terminal_on[t] \in BOOLEAN
      /\ c[t] \in Char \cup {LF} /\ screen_y[t] \in Nat
      /\ screen_y[t] < NUM_ROWS
  BY <1>0, <1>1
  DEF HeldInv, Settled, Looked, Rows, Behind, Inv, Safe, TypeOK
<1>3. disp_terminal_on[t] <=> t \in {n, KBD}
  BY <1>0, <1>1 DEF HeldInv, Looked
<1>4. PICK on, y, x, ch : /\ on = disp_terminal_on[t] /\ y = screen_y[t]
                          /\ x = screen_x[t] /\ ch = c[t]
  OBVIOUS
<1>5. /\ Put(t, on, n, y, ch)
      /\ UNCHANGED <<disp_terminal, vidmap, scheduled_terminal, input_count,
                     kbd>>
  BY <1>1, <1>2, <1>3, <1>4 DEF putc_body, display
<1>6. /\ HeldInv' /\ ~LineDone'
      /\ Consoles!MoveTo(t, Inked(Screens[t], y, x, ch), After(y, x, ch))
  BY <1>0, <1>1, <1>2, <1>3, <1>4, <1>5, PutMoves
<1>7. Consoles!Newline(t) \/ \E h \in Char : Consoles!Add(t, h)
  <2>1. /\ ch = LF  => Consoles!Newline(t)
        /\ ch # LF => Consoles!Add(t, ch)
    BY <1>1, <1>4, <1>6, PutIs
  <2>2. ch = LF \/ ch \in Char
    BY <1>2, <1>4
  <2> QED BY <2>1, <2>2
<1>8. TypedCount' = TypedCount
  <2>1. ~LineDone
    BY <1>1, <1>2, ActorTypes DEF LineDone
  <2> QED BY <1>5, <1>6, <2>1 DEF TypedCount
<1> QED BY <1>1, <1>5, <1>6, <1>7, <1>8 DEF Consoles!Write

\* The state in which a key arrives.
LEMMA KeyState ==
  ASSUME Held, HeldInv, KeyArrives, NEW n, n = disp_terminal
  PROVE  /\ n \in Term /\ scheduled_terminal \in Term
         /\ \A a \in Actor : pc[a] = "idle"
         /\ kbd = NoTerm /\ Running = scheduled_terminal
         /\ pc[Running] = "idle" /\ ~LineDone
         /\ screen_y[n] \in Nat /\ screen_y[n] < NUM_ROWS
         /\ screen_x[n] \in 0 .. NUM_COLS - 1
         /\ input_count[n] \in 0 .. INPUT_SIZE
         /\ Positions[n] = NUM_COLS * screen_y[n] + screen_x[n]
         /\ TypedCount = input_count
<1>1. /\ n \in Term /\ scheduled_terminal \in Term
      /\ \A a \in Actor : pc[a] = "idle"
      /\ kbd = NoTerm /\ Running = scheduled_terminal
  BY Interrupted, RunningNow DEF KeyArrives
<1>2. pc[Running] = "idle" /\ ~LineDone
  BY <1>1, ActorTypes DEF LineDone
<1>3. /\ screen_y[n] \in Nat /\ screen_y[n] < NUM_ROWS
      /\ screen_x[n] \in 0 .. NUM_COLS - 1
      /\ input_count[n] \in 0 .. INPUT_SIZE
      /\ input_count \in [Term -> 0 .. INPUT_SIZE]
  BY <1>1, <1>2 DEF HeldInv, Rows, Behind, Inv, Safe, TypeOK
<1>4. Positions[n] = NUM_COLS * screen_y[n] + screen_x[n]
  BY <1>1, <1>2, MappedPositions DEF Mapped, Behind, Positions, Position
<1>5. TypedCount = input_count
  BY <1>2, <1>3 DEF TypedCount
<1> QED BY <1>1, <1>2, <1>3, <1>4, <1>5

\* The echo of a key.
LEMMA EchoMoves ==
  ASSUME Held, HeldInv, Inv', KeyArrives, NEW n, n = disp_terminal,
         NEW y \in Nat, y < NUM_ROWS, NEW ch \in Char \cup {LF},
         NEW x, x = screen_x[n], Put(KBD, TRUE, d, y, ch), Handling,
         UNCHANGED <<display, scheduled_terminal>>
  PROVE  /\ HeldInv'
         /\ Consoles!MoveTo(n, Inked(Screens[n], y, x, ch), After(y, x, ch))
         /\ LineDone' <=> ch = LF
<1>1. /\ n \in Term /\ \A a \in Actor : pc[a] = "idle"
  BY KeyState
<1>2. /\ Put(KBD, TRUE, n, y, ch)
      /\ UNCHANGED <<disp_terminal, vidmap, scheduled_terminal>>
      /\ kbd' = IF KBD = KBD /\ pc'[KBD] # "idle"
                THEN scheduled_terminal ELSE NoTerm
  BY DEF d, Handling, display
<1> QED BY <1>1, <1>2, PutMoves, ActorTypes

\* A character is typed.
LEMMA type_char_held ==
  ASSUME Held, HeldInv, Inv', NEW ch \in Char, type_char(ch)
  PROVE  HeldInv' /\ Consoles!Type
<1>0. PICK n, y, x : /\ n = disp_terminal /\ y = screen_y[n]
                     /\ x = screen_x[n]
  OBVIOUS
<1>1. /\ KeyArrives /\ input_count[n] < INPUT_SIZE
      /\ input_count' = [input_count EXCEPT ![n] = @ + 1]
      /\ Put(KBD, TRUE, d, y, ch) /\ Handling
      /\ UNCHANGED <<display, disp_terminal, scheduled_terminal>>
  BY <1>0 DEF type_char, d, display
<1>2. /\ n \in Term /\ pc[Running] = "idle" /\ y \in Nat /\ y < NUM_ROWS
      /\ TypedCount = input_count
  BY <1>0, <1>1, KeyState
<1>3. ch # LF /\ ch \in Char \cup {LF}
  BY ScreenAssumption
<1>4. /\ HeldInv' /\ ~LineDone'
      /\ Consoles!MoveTo(n, Inked(Screens[n], y, x, ch), After(y, x, ch))
  <2>1. UNCHANGED <<display, scheduled_terminal>>
    BY <1>1
  <2>2. n = disp_terminal /\ x = screen_x[n]
    BY <1>0
  <2>3. /\ HeldInv' /\ (LineDone' <=> ch = LF)
        /\ Consoles!MoveTo(n, Inked(Screens[n], y, x, ch), After(y, x, ch))
    BY <1>1, <1>2, <1>3, <2>1, <2>2, EchoMoves
  <2> QED BY <1>3, <2>3
<1>5. Consoles!Add(n, ch)
  BY <1>0, <1>2, <1>3, <1>4, PutIs
<1>6. TypedCount' = [TypedCount EXCEPT ![n] = @ + 1]
  <2>1. TypedCount' = input_count'
    BY <1>4 DEF TypedCount, Inv, Safe, TypeOK
  <2> QED BY <1>1, <1>2, <2>1
<1> QED BY <1>0, <1>1, <1>2, <1>4, <1>5, <1>6 DEF Consoles!Type

\* Enter, from the row above if the line has just filled that one.
LEMMA enter_pressed_held ==
  ASSUME Held, HeldInv, Inv', enter_pressed
  PROVE  HeldInv' /\ Consoles!Enter
<1>0. PICK n, x : n = disp_terminal /\ x = screen_x[n]
  OBVIOUS
<1>1. PICK y : y = IF /\ input_count[n] # 0 /\ screen_x[n] = 0
                      /\ screen_y[n] # NUM_COLS + 1
                   THEN screen_y[n] - 1 ELSE screen_y[n]
  OBVIOUS
<1>2. /\ KeyArrives /\ Put(KBD, TRUE, d, y, LF) /\ Handling
      /\ UNCHANGED <<display, disp_terminal, scheduled_terminal, input_count>>
  BY <1>0, <1>1 DEF enter_pressed, d, display
<1>3. /\ n \in Term /\ pc[Running] = "idle"
      /\ screen_y[n] \in Nat /\ screen_y[n] < NUM_ROWS
      /\ screen_x[n] \in 0 .. NUM_COLS - 1
      /\ input_count[n] \in 0 .. INPUT_SIZE
      /\ Positions[n] = NUM_COLS * screen_y[n] + screen_x[n]
      /\ TypedCount = input_count
  BY <1>0, <1>2, KeyState
<1>4. y # screen_y[n] => /\ input_count[n] > 0 /\ screen_x[n] = 0
                         /\ y = screen_y[n] - 1 /\ screen_y[n] > 0
  <2> SUFFICES ASSUME y # screen_y[n]
               PROVE  screen_y[n] # 0 /\ input_count[n] > 0
    BY <1>1, <1>3
  <2>1. input_count[n] > 0 /\ screen_x[n] = 0
    BY <1>1, <1>3, Sizes
  <2>2. input_count[n] <= NUM_COLS * screen_y[n] + screen_x[n]
    BY <1>3 DEF HeldInv, Inv, Safe, CursorAhead, Position
  <2> QED BY <1>3, <2>1, <2>2, FirstRow, Sizes
<1>5. y \in Nat /\ y < NUM_ROWS
  BY <1>3, <1>4, Sizes
<1>6. /\ HeldInv' /\ LineDone'
      /\ Consoles!MoveTo(n, Inked(Screens[n], y, x, LF), After(y, x, LF))
  BY <1>0, <1>2, <1>5, EchoMoves
<1>7. TypedCount' = [TypedCount EXCEPT ![n] = 0]
  BY <1>0, <1>2, <1>3, <1>6 DEF TypedCount
<1>8. \/ Consoles!Newline(n)
      \/ /\ TypedCount[n] > 0 /\ Positions[n] % NUM_COLS = 0
         /\ UNCHANGED <<Screens, Positions>>
  <2>1. CASE y = screen_y[n]
    BY <1>0, <1>3, <1>6, <2>1, PutIs
  <2>2. CASE y # screen_y[n]
    <3>1. screen_y[n] = y + 1 /\ screen_x[n] = 0 /\ TypedCount[n] > 0
      BY <1>3, <1>4, <1>5, <2>2
    <3>2. Positions[n] % NUM_COLS = 0
      BY <1>3, <3>1, RowOf
    <3>3. After(y, x, LF) = Positions[n]
      BY <1>3, <1>5, <3>1, RowOffset, Sizes DEF After
    <3>4. Positions[n] < Size
      <4>1. NUM_COLS * screen_y[n] + NUM_COLS <= NUM_COLS * NUM_ROWS
        BY <1>3, RowEnd, Sizes
      <4>2. NUM_COLS * NUM_ROWS = Size /\ NUM_COLS * screen_y[n] \in Nat
        BY <1>3, RowOffset, Sizes DEF Size
      <4>3. Size \in Nat
        BY Sizes DEF Size
      <4> QED BY <1>3, <4>1, <4>2, <4>3, <3>1, Sizes
    <3>5. Inked(Screens[n], y, x, LF) = Screens[n]
      <4>1. Screens[n] \in [Cell -> Char \cup {BLANK}]
        BY <1>3 DEF Screens, HeldInv, Inv, Safe, TypeOK
      <4> QED BY <4>1 DEF Inked
    <3>6. Consoles!MoveTo(n, Screens[n], Positions[n])
      BY <1>6, <3>3, <3>5
    <3>7. Consoles!Size = Size
      BY DEF Consoles!Size, Size
    <3>8. /\ Screens' = [Screens EXCEPT ![n] = Screens[n]]
          /\ Positions' = [Positions EXCEPT ![n] = Positions[n]]
      BY <3>4, <3>6, <3>7 DEF Consoles!MoveTo
    <3>9. Screens' = Screens /\ Positions' = Positions
      BY <3>8 DEF Screens, Positions
    <3> QED BY <3>1, <3>2, <3>9
  <2> QED BY <2>1, <2>2
<1> QED BY <1>0, <1>2, <1>6, <1>7, <1>8 DEF Consoles!Enter

\* The cell before a position.
LEMMA CellBefore ==
  ASSUME NEW y \in Nat, NEW x \in 0 .. NUM_COLS - 1, x = 0 => y > 0,
         NEW row, row = IF x = 0 THEN y - 1 ELSE y,
         NEW col, col = IF x = 0 THEN NUM_COLS - 1 ELSE x - 1
  PROVE  /\ row \in Nat /\ row <= y /\ col \in 0 .. NUM_COLS - 1
         /\ NUM_COLS * row + col = NUM_COLS * y + x - 1
         /\ row * NUM_COLS + col = NUM_COLS * y + x - 1
<1>1. row \in Nat /\ row <= y /\ col \in 0 .. NUM_COLS - 1
  BY Sizes
<1>2. /\ NUM_COLS * row \in Nat /\ NUM_COLS * y \in Nat
      /\ NUM_COLS * (row + 1) = NUM_COLS * row + NUM_COLS
      /\ row * NUM_COLS = NUM_COLS * row
  BY <1>1, RowOffset, Sizes
<1>3. NUM_COLS * row + col = NUM_COLS * y + x - 1
  <2>1. CASE x = 0
    <3>1. y = row + 1 /\ col = NUM_COLS - 1
      BY <2>1
    <3> QED BY <1>2, <2>1, <3>1, Sizes
  <2>2. CASE x # 0
    <3>1. y = row /\ col = x - 1
      BY <2>2
    <3> QED BY <1>1, <1>2, <3>1, Sizes
  <2> QED BY <2>1, <2>2
<1> QED BY <1>1, <1>2, <1>3

\* The last character of the line is taken back.
LEMMA backspace_held ==
  ASSUME Held, HeldInv, Inv', backspace
  PROVE  HeldInv' /\ Consoles!Erase
<1>0. PICK n, y, x : /\ n = disp_terminal /\ y = screen_y[n]
                     /\ x = screen_x[n]
  OBVIOUS
<1>1. PICK row, col : /\ row = IF x = 0 THEN y - 1 ELSE y
                      /\ col = IF x = 0 THEN NUM_COLS - 1 ELSE x - 1
  OBVIOUS
<1>2. /\ KeyArrives /\ input_count[n] > 0
      /\ input_count' = [input_count EXCEPT ![n] = @ - 1]
      /\ screen_x' = [screen_x EXCEPT ![n] = col]
      /\ screen_y' = [screen_y EXCEPT ![n] = row]
      /\ video_mem' = Inked(video_mem, row, col, BLANK)
      /\ cursor' = row * NUM_COLS + col
      /\ UNCHANGED <<buffer_mem, disp_terminal, vidmap, scheduled_terminal,
                     kbd, pc, disp_idx, disp_terminal_on, c>>
  BY <1>0, <1>1 DEF backspace, set_cursor, display, locals, d
<1>3. /\ n \in Term /\ pc[Running] = "idle" /\ ~LineDone
      /\ y \in Nat /\ y < NUM_ROWS /\ x \in 0 .. NUM_COLS - 1
      /\ Positions[n] = NUM_COLS * y + x
      /\ TypedCount = input_count
  BY <1>0, <1>2, KeyState
<1>4. x = 0 => y > 0
  <2>1. input_count[n] <= NUM_COLS * y + x /\ input_count[n] \in Nat
    BY <1>0, <1>3, Sizes
    DEF HeldInv, Inv, Safe, TypeOK, CursorAhead, Position
  <2> QED BY <1>2, <1>3, <2>1, FirstRow, Sizes
<1>5. /\ row \in Nat /\ row < NUM_ROWS
      /\ NUM_COLS * row + col = Positions[n] - 1
      /\ row * NUM_COLS + col = Positions[n] - 1
  <2>1. /\ row \in Nat /\ row <= y
        /\ NUM_COLS * row + col = NUM_COLS * y + x - 1
        /\ row * NUM_COLS + col = NUM_COLS * y + x - 1
    BY <1>1, <1>3, <1>4, CellBefore
  <2>2. row < NUM_ROWS
    BY <1>3, <2>1, Sizes
  <2>3. PICK p : p = Positions[n]
    OBVIOUS
  <2>4. p = NUM_COLS * y + x
    BY <1>3, <2>3
  <2>5. PICK m \in Int : m = NUM_COLS * y
    BY <1>3, Sizes
  <2>6. NUM_COLS * y + x - 1 = p - 1
    BY <1>3, <2>4, <2>5, Sizes
  <2> QED BY <2>1, <2>2, <2>3, <2>6
<1>6. /\ screen_y'[n] = row /\ Position(n)' = NUM_COLS * row + col
      /\ \A t \in Term : t # n => /\ screen_y'[t] = screen_y[t]
                                  /\ Position(t)' = Position(t)
  BY <1>2, <1>3 DEF Position, HeldInv, Inv, Safe, TypeOK
<1>7. Running' = Running
  BY <1>2 DEF Running
<1>8. Settled' /\ Looked' /\ Pages'
  BY <1>2, <1>7 DEF HeldInv, Settled, Looked, Pages
<1>9. Rows' /\ CursorKept'
  <2>1. \A t \in Term : screen_y[t] < NUM_ROWS
    BY <1>3 DEF HeldInv, Rows, Behind
  <2> QED BY <1>0, <1>2, <1>5, <1>6, <2>1 DEF Rows, CursorKept
<1>10. HeldInv'
  BY <1>8, <1>9 DEF HeldInv
<1>11. Positions' = [Positions EXCEPT ![n] = @ - 1]
  <2>1. \A t \in Term : LogicalPosition(t) = Position(t)
    BY <1>3, MappedPositions DEF Mapped, Behind
  <2>2. Mapped'
    BY <1>10, MappedPositions, PTL
  <2>3. pc'[Running'] = "idle"
    BY <1>2, <1>3, <1>7
  <2>4. \A t \in Term : LogicalPosition(t)' = Position(t)'
    BY <2>2, <2>3 DEF Mapped, Behind
  <2>5. LogicalPosition(n)' = Positions[n] - 1
    BY <1>3, <1>5, <1>6, <2>4
  <2>6. \A t \in Term : t # n => LogicalPosition(t)' = LogicalPosition(t)
    BY <1>6, <2>1, <2>4
  <2> QED BY <2>5, <2>6 DEF Positions
<1>12. Screens' = [Screens EXCEPT ![n][Positions[n] - 1] = BLANK]
  <2>1. PICK p : p = Positions[n] - 1
    OBVIOUS
  <2>2. video_mem \in [Cell -> Char \cup {BLANK}] /\ BLANK # LF
    BY ScreenAssumption DEF HeldInv, Inv, Safe, TypeOK
  <2>3. video_mem' = [video_mem EXCEPT ![p] = BLANK]
    BY <1>2, <1>5, <2>1, <2>2 DEF Inked
  <2>4. Screens' = [Screens EXCEPT ![n][p] = BLANK]
    BY <1>0, <1>2, <2>3 DEF Screens
  <2> QED BY <2>1, <2>4
<1>13. TypedCount' = [TypedCount EXCEPT ![n] = @ - 1]
  <2>1. ~LineDone'
    BY <1>2, <1>3 DEF LineDone
  <2>2. TypedCount' = input_count'
    BY <2>1 DEF TypedCount, Inv, Safe, TypeOK
  <2> QED BY <1>2, <1>3, <2>2
<1> QED BY <1>0, <1>2, <1>3, <1>10, <1>11, <1>12, <1>13 DEF Consoles!Erase

\* putc goes on behind scroll: the consoles have made the move already.
LEMMA putc_scrolled_held ==
  ASSUME HeldInv, Inv', NEW a \in Actor, putc_scrolled(a)
  PROVE  HeldInv' /\ UNCHANGED Consoles!vars
<1>0. PICK n \in Term : n = disp_terminal
  BY RunningNow
<1>1. /\ Running = a /\ pc[a] = "scrolled" /\ scheduled_terminal \in Term
      /\ a = KBD => kbd = scheduled_terminal
      /\ a # KBD => /\ a = scheduled_terminal /\ kbd = NoTerm
                    /\ pc[KBD] = "idle"
      /\ \A b \in Actor : b # a => pc[b] = "idle"
  BY RunningNow DEF putc_scrolled, At, HeldInv, Settled
<1>2. /\ disp_idx[a] = n /\ disp_terminal_on[a] \in BOOLEAN
      /\ disp_terminal_on[a] <=> a \in {n, KBD}
  BY <1>0, <1>1 DEF HeldInv, Looked, Inv, Safe, TypeOK
<1>3. PICK i \in Term : i = IF a = KBD THEN n ELSE a
  BY <1>0, ActorTypes
<1>4. PICK col : col = IF c[a] = LF THEN 0 ELSE screen_x[i]
  OBVIOUS
<1>5. /\ i = IF disp_terminal_on[a] THEN disp_idx[a] ELSE scheduled_terminal
      /\ disp_terminal_on[a] <=> i = n
  BY <1>1, <1>2, <1>3, ActorTypes
<1>6. /\ screen_y' = [screen_y EXCEPT ![i] = NUM_ROWS - 1]
      /\ screen_x' = [screen_x EXCEPT ![i] = col]
      /\ i = n => cursor' = (NUM_ROWS - 1) * NUM_COLS + col
      /\ i # n => cursor' = cursor
      /\ Return(a, disp_terminal_on[a], c[a])
      /\ kbd' = IF pc'[KBD] = "idle" THEN NoTerm ELSE kbd
      /\ UNCHANGED <<video_mem, buffer_mem, disp_terminal, vidmap,
                     scheduled_terminal, input_count>>
  BY <1>4, <1>5 DEF putc_scrolled, memory, display
<1>7. /\ pc'[a] = CASE a # KBD -> "next"
                    [] a = KBD /\ c[a] = LF -> "enter"
                    [] OTHER -> "idle"
      /\ \A b \in Actor : b # a => pc'[b] = "idle"
      /\ \A b \in Actor : b # a => disp_idx'[b] = disp_idx[b]
      /\ a # KBD => (disp_terminal_on'[a] <=> a = n)
  <2>1. /\ Goto(a, CASE a # KBD -> "next"
                     [] a = KBD /\ c[a] = LF -> "enter"
                     [] OTHER -> "idle")
        /\ Locals(a, disp_terminal_on[a] /\ a # KBD, 0, LF)
    BY <1>6 DEF Return
  <2>2. /\ pc \in [Actor -> Point]
        /\ disp_idx \in [Actor -> Term]
        /\ disp_terminal_on \in [Actor -> BOOLEAN]
    BY DEF HeldInv, Inv, Safe, TypeOK
  <2>3. /\ pc'[a] = CASE a # KBD -> "next"
                      [] a = KBD /\ c[a] = LF -> "enter"
                      [] OTHER -> "idle"
        /\ \A b \in Actor : b # a => pc'[b] = "idle"
    BY <1>1, <2>1, <2>2 DEF Goto
  <2>4. /\ \A b \in Actor : b # a => disp_idx'[b] = disp_idx[b]
        /\ a # KBD => (disp_terminal_on'[a] <=> a = n)
    BY <1>2, <2>1, <2>2 DEF Locals
  <2> QED BY <2>3, <2>4
<1>8. /\ pc'[a] \in {"next", "enter", "idle"}
      /\ pc'[a] = "idle" => a = KBD
      /\ Running' = IF pc'[a] = "idle" THEN scheduled_terminal ELSE a
      /\ pc'[Running'] = pc'[a]
      /\ kbd' = IF a = KBD /\ pc'[a] # "idle"
                THEN scheduled_terminal ELSE NoTerm
  BY <1>1, <1>6, <1>7, ActorTypes DEF Running
<1>9. Settled'
  BY <1>1, <1>6, <1>7, <1>8, ActorTypes DEF Settled
<1>10. Looked'
  BY <1>0, <1>1, <1>6, <1>7, <1>8, ActorTypes DEF Looked
<1>11. Pages'
  BY <1>6 DEF HeldInv, Pages
<1>12. \A t \in Term : Behind(t) <=> t = i
  BY <1>0, <1>1, <1>3, <1>5, ActorTypes DEF Behind, Target
<1>13. /\ screen_y'[i] = NUM_ROWS - 1
       /\ Position(i)' = NUM_COLS * (NUM_ROWS - 1) + col
       /\ \A t \in Term : t # i => /\ screen_y'[t] = screen_y[t]
                                   /\ Position(t)' = Position(t)
  BY <1>6 DEF Position, HeldInv, Inv, Safe, TypeOK
<1>14. Rows'
  BY <1>12, <1>13, Sizes DEF HeldInv, Rows
<1>15. CursorKept'
  <2>1. (NUM_ROWS - 1) * NUM_COLS = NUM_COLS * (NUM_ROWS - 1)
    BY Sizes
  <2>2. i = n => cursor' = Position(n)'
    BY <1>6, <1>13, <2>1
  <2>3. i # n => cursor = Position(n)
    BY <1>0, <1>1, <1>12 DEF HeldInv, CursorKept
  <2>4. cursor' = Position(n)'
    BY <1>6, <1>13, <2>2, <2>3
  <2> QED BY <1>0, <1>6, <2>4 DEF CursorKept
<1>16. HeldInv'
  BY <1>9, <1>10, <1>11, <1>14, <1>15 DEF HeldInv
<1>17. Positions' = Positions
  <2>1. \A t \in Term : LogicalPosition(t) =
          IF t = i THEN NUM_COLS * (NUM_ROWS - 1) + col ELSE Position(t)
    BY <1>1, <1>4, <1>12, MappedPositions DEF Mapped
  <2>2. Mapped'
    BY <1>16, MappedPositions, PTL
  <2>3. \A t \in Term : LogicalPosition(t)' = Position(t)'
    BY <1>8, <2>2 DEF Mapped, Behind
  <2> QED BY <1>13, <2>1, <2>3 DEF Positions
<1>18. Screens' = Screens /\ TypedCount' = TypedCount
  <2>1. LineDone' <=> LineDone
    BY <1>1, <1>7, ActorTypes DEF LineDone
  <2> QED BY <1>6, <2>1 DEF Screens, TypedCount
<1> QED BY <1>6, <1>16, <1>17, <1>18 DEF Consoles!vars

-----------------------------------------------------------------------------
(* The theorems *)

LEMMA InitHeld == Init => HeldInv /\ Consoles!Init
<1> SUFFICES ASSUME Init
             PROVE  HeldInv /\ Consoles!Init
  OBVIOUS
<1>1. Inv
  BY InitInv
<1>2. /\ \A a \in Actor : pc[a] = "idle"
      /\ kbd = NoTerm /\ Running = 0 /\ 0 \in Term
      /\ disp_terminal = 0 /\ scheduled_terminal = 0
  BY Sizes, ZeroTerm DEF Init, Running, NoTerm
<1>3. \A t \in Term : Position(t) = 0 /\ screen_y[t] = 0
  BY FirstRow DEF Init, Position
<1>4. Settled /\ Looked
  BY <1>2, ActorTypes DEF Settled, Looked
<1>5. Rows /\ CursorKept /\ Pages
  BY <1>2, <1>3, Sizes DEF Init, Rows, CursorKept, Pages
<1>6. HeldInv
  BY <1>1, <1>4, <1>5 DEF HeldInv
<1>7. Positions = [t \in Term |-> 0]
  <2>1. \A t \in Term : LogicalPosition(t) = 0
    BY <1>2, <1>3, <1>6, MappedPositions, ActorTypes DEF Mapped, Behind
  <2> QED BY <2>1 DEF Positions
<1>8. Screens = [t \in Term |-> Blank]
  BY DEF Init, Screens
<1>9. Blank = [k \in Consoles!Cell |-> BLANK]
  BY DEF Blank, Cell, Size, Consoles!Cell, Consoles!Size
<1>10. TypedCount = [t \in Term |-> 0]
  BY DEF Init, TypedCount
<1> QED BY <1>2, <1>6, <1>7, <1>8, <1>9, <1>10 DEF Consoles!Init

\* Every step keeps the invariant, and is a step of the consoles or one that
\* they do not see.
LEMMA NextHeld ==
  ASSUME Held, HeldInv, Next
  PROVE  HeldInv' /\ [Consoles!Next]_(Consoles!vars)
<1>0. Inv'
  BY NextInv DEF HeldInv
<1>1. ASSUME NEW t \in Term, Program(t)
      PROVE  HeldInv' /\ [Consoles!Next]_(Consoles!vars)
  <2>1. ASSUME NEW ch, terminal_write(t, ch) \/ putc_enter(t, ch)
        PROVE  HeldInv' /\ UNCHANGED Consoles!vars
    BY <1>0, <2>1, terminal_write_held, putc_enter_held
  <2>2. CASE write_return(t)
    BY <1>0, <2>2, write_return_held
  <2>3. CASE putc_body(t)
    BY <1>0, <2>3, putc_body_held DEF Consoles!Next
  <2>4. ASSUME NEW k \in FishCells, NEW ch \in Char \cup {BLANK},
               fish_draw(t, k, ch)
        PROVE  HeldInv' /\ Consoles!Draw
    BY <1>0, <2>4, fish_draw_held
  <2> QED BY <1>1, <2>1, <2>2, <2>3, <2>4 DEF Program, Consoles!Next
<1>2. ASSUME NEW a \in Actor, putc_scrolled(a)
      PROVE  HeldInv' /\ [Consoles!Next]_(Consoles!vars)
  BY <1>0, <1>2, putc_scrolled_held
<1>3. ASSUME Key
      PROVE  HeldInv' /\ [Consoles!Next]_(Consoles!vars)
  <2>1. ASSUME NEW ch \in Char, type_char(ch)
        PROVE  HeldInv' /\ Consoles!Next
    BY <1>0, <2>1, type_char_held DEF Consoles!Next
  <2>2. CASE backspace
    BY <1>0, <2>2, backspace_held DEF Consoles!Next
  <2>3. CASE enter_pressed
    BY <1>0, <2>3, enter_pressed_held DEF Consoles!Next
  <2>4. CASE clear
    BY <1>0, <2>4, clear_held DEF Consoles!Next
  <2>5. CASE esc_pressed
    BY <1>0, <2>5, esc_pressed_held
  <2>6. ASSUME NEW n \in Term, switch_terminal(n)
        PROVE  HeldInv' /\ Consoles!Next
    BY <1>0, <2>6, switch_terminal_held DEF Consoles!Next
  <2> QED BY <1>3, <2>1, <2>2, <2>3, <2>4, <2>5, <2>6 DEF Key
<1>4. CASE enter_reset \/ clear_reset
  BY <1>0, <1>4, enter_reset_held, clear_reset_held
<1>5. CASE schedule
  BY <1>0, <1>5, schedule_held DEF Consoles!Next
<1> QED BY <1>1, <1>2, <1>3, <1>4, <1>5 DEF Next

LEMMA StutterHeld ==
  ASSUME HeldInv, UNCHANGED vars
  PROVE  HeldInv' /\ UNCHANGED Consoles!vars
<1>1. UNCHANGED <<screen_x, screen_y, cursor, video_mem, buffer_mem,
                  disp_terminal, vidmap, scheduled_terminal, input_count, kbd,
                  pc, disp_idx, disp_terminal_on, c>>
  BY DEF vars, place, memory, display, locals
<1>2. Inv'
  BY NextInv DEF HeldInv
<1>3. HeldInv'
  BY <1>1, <1>2
  DEF HeldInv, Settled, Looked, Rows, CursorKept, Pages, Behind, Target,
      Position, Running
<1>4. /\ Screens' = Screens /\ Positions' = Positions
      /\ TypedCount' = TypedCount
  BY <1>1
  DEF Screens, Positions, LogicalPosition, Scrolling, Position, TypedCount,
      LineDone
<1> QED BY <1>1, <1>3, <1>4 DEF Consoles!vars

LEMMA HeldShows ==
  ASSUME HeldInv
  PROVE  CursorShown
<1>1. Running \in Actor
  BY RunningNow
<1> QED BY <1>1 DEF HeldInv, CursorKept, Behind, CursorShown

\* With interrupts held off in the windows, the hardware cursor stands at the
\* position of the terminal on display whenever putc and Ctrl-L are done.
THEOREM CursorFollows == Held => (Spec => []CursorShown)
<1> SUFFICES ASSUME Held
             PROVE  Spec => []CursorShown
  OBVIOUS
<1>1. HeldInv /\ [Next]_vars => HeldInv'
  BY NextHeld, StutterHeld
<1>2. HeldInv => CursorShown
  BY HeldShows
<1> QED
  BY <1>1, <1>2, InitHeld, PTL DEF Spec

\* With interrupts held off in the windows, the video memory, the buffers and
\* the cursors implement one screen per terminal, for every size of screen.
THEOREM ConsolesImplemented == Held => (Spec => ImplementsConsoles)
<1> SUFFICES ASSUME Held
             PROVE  Spec => ImplementsConsoles
  OBVIOUS
<1>1. HeldInv /\ [Next]_vars =>
        HeldInv' /\ [Consoles!Next]_(Consoles!vars)
  BY NextHeld, StutterHeld
<1> QED
  BY <1>1, InitHeld, PTL DEF Spec, ImplementsConsoles, Consoles!Spec
=============================================================================

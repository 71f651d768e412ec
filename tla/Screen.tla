------------------------------- MODULE Screen --------------------------------
(***************************************************************************)
(* Screen output (student-distrib/lib.c, terminal_write and the keys of    *)
(* keyboard.c, the video pages of paging.c).  The terminal on display is   *)
(* drawn in the video memory, the others in a buffer each; Alt-Fn copies   *)
(* between them and maps the pages of programs that draw directly.         *)
(*                                                                         *)
(* putc, scroll, clear, backspace and terminal_write each disable the      *)
(* interrupt lines and enable them all again, also when they are nested:   *)
(* an interrupt is possible before every character but the first, between  *)
(* the reading of disp_terminal in putc and its work, and behind scroll.   *)
(* Masked is the set of those points at which interrupts are held off; in  *)
(* the code it is empty.  A key is handled on the stack of the thread it   *)
(* interrupts, with the keyboard's line in service: the timer may take the *)
(* CPU away from the handler, and no other key arrives meanwhile.  The     *)
(* assignments that follow a window are one step.                          *)
(*                                                                         *)
(* Characters are members of Char; '\0' and ' ' are BLANK, and colours are *)
(* left out.                                                               *)
(***************************************************************************)
EXTENDS Integers

CONSTANTS
  TERMINAL_NUM, NUM_ROWS, NUM_COLS,
  INPUT_SIZE,   \* characters of a line
  Char, LF, BLANK,
  FishCells,    \* cells that programs draw on directly
  MaxRow,       \* bound: Esc halts a process behind scroll, which leaves
                \* screen_y behind the screen, up to this row only
  Masked        \* points at which interrupts are held off

Term   == 0 .. TERMINAL_NUM - 1
NoTerm == -1
KBD    == TERMINAL_NUM         \* the keyboard handler
Actor  == Term \cup {KBD}
Size   == NUM_ROWS * NUM_COLS
Cell   == 0 .. Size - 1

\* next: between two characters of a write; body: disp_idx is read; scrolled:
\* behind scroll; clear and enter: rest of the handling of Ctrl-L and Enter.
Window == {"next", "body", "scrolled", "clear", "enter"}
Point  == {"idle", "first"} \cup Window

\* A line never fills more than the rows above the last one.
ASSUME ScreenAssumption ==
  /\ TERMINAL_NUM \in Nat \ {0}
  /\ NUM_ROWS \in Nat \ {0} /\ NUM_COLS \in Nat \ {0}
  /\ INPUT_SIZE \in Nat /\ INPUT_SIZE <= NUM_COLS * (NUM_ROWS - 1)
  /\ LF \notin Char \cup {BLANK}
  /\ FishCells \subseteq Cell
  /\ MaxRow \in Nat
  /\ Masked \subseteq Window

VARIABLES
  disp_terminal, scheduled_terminal,
  screen_x, screen_y,
  cursor,       \* position in the VGA's cursor registers
  video_mem,    \* at 0xB8000
  buffer_mem,   \* buffer_mem[t], at video_mem_phys_addr[t]
  vidmap,       \* which of the two the user's page of terminal t shows
  input_count,  \* terminals[t].input_count
  kbd,          \* terminal whose thread handles a key, or NoTerm
  pc,           \* where each actor is
  disp_idx, disp_terminal_on, c  \* its locals in putc; 0, FALSE, LF if none

place   == <<screen_x, screen_y, cursor>>
memory  == <<video_mem, buffer_mem>>
locals  == <<disp_idx, disp_terminal_on, c>>
display == <<disp_terminal, vidmap>>
vars    == <<place, memory, display, scheduled_terminal, input_count, kbd, pc,
             locals>>

Blank == [k \in Cell |-> BLANK]

\* terminal_init clears the screen; pagingInit maps the user's video pages.
Init ==
  /\ disp_terminal = 0 /\ scheduled_terminal = 0
  /\ screen_x = [t \in Term |-> 0] /\ screen_y = [t \in Term |-> 0]
  /\ cursor = 0
  /\ video_mem = Blank /\ buffer_mem = [t \in Term |-> Blank]
  /\ vidmap = [t \in Term |-> IF t = 0 THEN "video" ELSE "buffer"]
  /\ input_count = [t \in Term |-> 0]
  /\ kbd = NoTerm
  /\ pc = [a \in Actor |-> "idle"]
  /\ disp_idx = [a \in Actor |-> 0]
  /\ disp_terminal_on = [a \in Actor |-> FALSE]
  /\ c = [a \in Actor |-> LF]

-----------------------------------------------------------------------------
\* The handler runs on the stack of terminal kbd's thread.
Running == IF kbd = scheduled_terminal THEN KBD ELSE scheduled_terminal

At(a, points) == Running = a /\ pc[a] \in points

Interruptible == pc[Running] \notin Masked \cup {"first"}

Goto(a, point) == pc' = [pc EXCEPT ![a] = point]

set_cursor(row, col) == cursor' = row * NUM_COLS + col

-----------------------------------------------------------------------------
(* putc *)

Inked(mem, row, col, ch) ==
  [k \in Cell |-> IF ch # LF /\ k = NUM_COLS * row + col THEN ch ELSE mem[k]]

scroll(mem) ==
  [k \in Cell |-> IF k < NUM_COLS * (NUM_ROWS - 1) THEN mem[k + NUM_COLS]
                                                   ELSE BLANK]

Wraps(col) == col + 1 >= NUM_COLS

Locals(a, on, idx, ch) ==
  /\ disp_terminal_on' = [disp_terminal_on EXCEPT ![a] = on]
  /\ disp_idx' = [disp_idx EXCEPT ![a] = idx]
  /\ c' = [c EXCEPT ![a] = ch]

\* putc returns to terminal_write, or to the handling of a key.
Return(a, on, ch) ==
  /\ Locals(a, on /\ a # KBD, 0, LF)
  /\ Goto(a, CASE a # KBD -> "next"
               [] a = KBD /\ ch = LF -> "enter"
               [] OTHER -> "idle")

\* putc from row y up to the return of scroll, or to its end if the screen is
\* not full, by actor a.  An offset behind the screen is memory nobody shows.
Put(a, on, idx, y, ch) ==
  LET i    == IF on THEN idx ELSE scheduled_terminal
      x    == screen_x[i]
      row  == IF ch = LF \/ Wraps(x) THEN y + 1 ELSE y
      full == row >= NUM_ROWS
      col  == CASE ch = LF -> IF full THEN x ELSE 0
                [] ch # LF /\ Wraps(x) -> 0
                [] OTHER -> x + 1
      old  == IF on THEN video_mem ELSE buffer_mem[i]
      ink  == Inked(old, y, x, ch)
      new  == IF full THEN scroll(ink) ELSE ink
  IN  /\ screen_x' = [screen_x EXCEPT ![i] = col]
      /\ screen_y' = [screen_y EXCEPT ![i] = row]
      /\ IF on THEN video_mem' = new /\ UNCHANGED buffer_mem
               ELSE buffer_mem' = [buffer_mem EXCEPT ![i] = new]
                    /\ UNCHANGED video_mem
      /\ IF on /\ ~full THEN set_cursor(row, col)
                        ELSE set_cursor(IF on THEN y ELSE screen_y[idx],
                                        screen_x[idx])
      /\ IF full
         THEN /\ Locals(a, on, idx, ch)
              /\ Goto(a, "scrolled")
         ELSE Return(a, on, ch)

\* terminal_write looks once which terminal is on display; its first character
\* is put with the interrupt lines still disabled.
terminal_write(t, ch) ==
  /\ At(t, {"idle"})
  /\ Locals(t, t = disp_terminal, disp_terminal, ch)
  /\ Goto(t, "first")
  /\ UNCHANGED <<place, memory, display, scheduled_terminal, input_count, kbd>>

\* The next character: putc reads disp_terminal before it disables anything.
putc_enter(t, ch) ==
  /\ At(t, {"next"})
  /\ Locals(t, disp_terminal_on[t], disp_terminal, ch)
  /\ Goto(t, "body")
  /\ UNCHANGED <<place, memory, display, scheduled_terminal, input_count, kbd>>

putc_body(t) ==
  /\ At(t, {"first", "body"})
  /\ Put(t, disp_terminal_on[t], disp_idx[t],
         screen_y[IF disp_terminal_on[t] THEN disp_idx[t] ELSE t], c[t])
  /\ UNCHANGED <<display, scheduled_terminal, input_count, kbd>>

\* putc goes on behind scroll.
putc_scrolled(a) ==
  LET i   == IF disp_terminal_on[a] THEN disp_idx[a] ELSE scheduled_terminal
      col == IF c[a] = LF THEN 0 ELSE screen_x[i]
  IN  /\ At(a, {"scrolled"})
      /\ screen_y' = [screen_y EXCEPT ![i] = NUM_ROWS - 1]
      /\ screen_x' = [screen_x EXCEPT ![i] = col]
      /\ cursor' = IF disp_terminal_on[a]
                   THEN (NUM_ROWS - 1) * NUM_COLS + col ELSE cursor
      /\ Return(a, disp_terminal_on[a], c[a])
      /\ kbd' = IF pc'[KBD] = "idle" THEN NoTerm ELSE kbd
      /\ UNCHANGED <<memory, display, scheduled_terminal, input_count>>

write_return(t) ==
  /\ At(t, {"next"})
  /\ Goto(t, "idle") /\ Locals(t, FALSE, 0, LF)
  /\ UNCHANGED <<place, memory, display, scheduled_terminal, input_count, kbd>>

\* sys_vidmap gives the program the page of its own terminal, and it stores a
\* character there.
fish_draw(t, k, ch) ==
  /\ At(t, {"idle"})
  /\ IF vidmap[t] = "video"
     THEN video_mem' = [video_mem EXCEPT ![k] = ch] /\ UNCHANGED buffer_mem
     ELSE buffer_mem' = [buffer_mem EXCEPT ![t][k] = ch]
          /\ UNCHANGED video_mem
  /\ UNCHANGED <<place, display, scheduled_terminal, input_count, kbd, pc,
                 locals>>

-----------------------------------------------------------------------------
(* Keys.  d is the terminal on display. *)

d == disp_terminal

KeyArrives == kbd = NoTerm /\ Interruptible

\* The handler is done unless it still has a window to go through.
Handling == kbd' = IF pc'[KBD] = "idle" THEN NoTerm ELSE scheduled_terminal

type_char(ch) ==
  /\ KeyArrives
  /\ input_count[d] < INPUT_SIZE
  /\ input_count' = [input_count EXCEPT ![d] = @ + 1]
  /\ Put(KBD, TRUE, d, screen_y[d], ch)
  /\ Handling
  /\ UNCHANGED <<display, scheduled_terminal>>

\* Mutant: a character is taken back that was never typed.
backspace_any ==
  /\ KeyArrives
  /\ input_count' = [input_count EXCEPT ![d] = IF @ > 0 THEN @ - 1 ELSE 0]
  /\ LET row == IF screen_x[d] = 0 THEN screen_y[d] - 1 ELSE screen_y[d]
         col == IF screen_x[d] = 0 THEN NUM_COLS - 1 ELSE screen_x[d] - 1
     IN  /\ screen_x' = [screen_x EXCEPT ![d] = col]
         /\ screen_y' = [screen_y EXCEPT ![d] = row]
         /\ video_mem' = Inked(video_mem, row, col, BLANK)
         /\ set_cursor(row, col)
  /\ UNCHANGED <<buffer_mem, display, scheduled_terminal, kbd, pc, locals>>

backspace ==
  /\ KeyArrives
  /\ input_count[d] > 0
  /\ input_count' = [input_count EXCEPT ![d] = @ - 1]
  /\ LET row == IF screen_x[d] = 0 THEN screen_y[d] - 1 ELSE screen_y[d]
         col == IF screen_x[d] = 0 THEN NUM_COLS - 1 ELSE screen_x[d] - 1
     IN  /\ screen_x' = [screen_x EXCEPT ![d] = col]
         /\ screen_y' = [screen_y EXCEPT ![d] = row]
         /\ video_mem' = Inked(video_mem, row, col, BLANK)
         /\ set_cursor(row, col)
  /\ UNCHANGED <<buffer_mem, display, scheduled_terminal, kbd, pc, locals>>

\* A line that has just filled a row ends there: the newline starts from the
\* row above.  (The bound on screen_y is the code's.)
enter_pressed ==
  /\ KeyArrives
  /\ Put(KBD, TRUE, d,
         IF input_count[d] # 0 /\ screen_x[d] = 0 /\ screen_y[d] # NUM_COLS + 1
         THEN screen_y[d] - 1 ELSE screen_y[d], LF)
  /\ Handling
  /\ UNCHANGED <<display, scheduled_terminal, input_count>>

\* The rest of Enter, behind putc.
enter_reset ==
  /\ At(KBD, {"enter"})
  /\ input_count' = [input_count EXCEPT ![d] = 0]
  /\ Goto(KBD, "idle") /\ kbd' = NoTerm
  /\ UNCHANGED <<place, memory, display, scheduled_terminal, locals>>

\* Ctrl-L.
clear ==
  /\ KeyArrives
  /\ video_mem' = Blank
  /\ Locals(KBD, FALSE, d, LF)
  /\ Goto(KBD, "clear") /\ Handling
  /\ UNCHANGED <<place, buffer_mem, display, scheduled_terminal, input_count>>

\* Mutant: the line that was on the screen is still counted.
clear_reset_keep_count ==
  LET i == disp_idx[KBD]
  IN  /\ At(KBD, {"clear"})
      /\ set_cursor(0, 0)
      /\ screen_x' = [screen_x EXCEPT ![i] = 0]
      /\ screen_y' = [screen_y EXCEPT ![i] = 0]
      /\ Goto(KBD, "idle") /\ Locals(KBD, FALSE, 0, LF) /\ kbd' = NoTerm
      /\ UNCHANGED <<memory, display, scheduled_terminal, input_count>>

\* The rest of Ctrl-L, behind the section that clears the memory.
clear_reset ==
  LET i == disp_idx[KBD]
  IN  /\ At(KBD, {"clear"})
      /\ set_cursor(0, 0)
      /\ screen_x' = [screen_x EXCEPT ![i] = 0]
      /\ screen_y' = [screen_y EXCEPT ![i] = 0]
      /\ input_count' = [input_count EXCEPT ![d] = 0]
      /\ Goto(KBD, "idle") /\ Locals(KBD, FALSE, 0, LF) /\ kbd' = NoTerm
      /\ UNCHANGED <<memory, display, scheduled_terminal>>

\* Esc halts the process that is scheduled, wherever it is; sys_halt does not
\* return, so input_count is kept.
esc_pressed ==
  /\ KeyArrives
  /\ pc[scheduled_terminal] = "scrolled" =>
       \A t \in Term : screen_y[t] <= MaxRow
  /\ Goto(scheduled_terminal, "idle")
  /\ Locals(scheduled_terminal, FALSE, 0, LF)
  /\ UNCHANGED <<place, memory, display, scheduled_terminal, input_count, kbd>>

\* Mutant: the user's page of the terminal that was shown stays on the screen.
switch_terminal_keep_page(n) ==
  /\ KeyArrives /\ n # d
  /\ vidmap' = [vidmap EXCEPT ![n] = "video"]
  /\ buffer_mem' = [buffer_mem EXCEPT ![d] = video_mem]
  /\ video_mem' = buffer_mem[n]
  /\ set_cursor(screen_y[n], screen_x[n])
  /\ disp_terminal' = n
  /\ UNCHANGED <<screen_x, screen_y, scheduled_terminal, input_count, kbd, pc,
                 locals>>

\* Mutant: the cursor stays where it was.
switch_terminal_keep_cursor(n) ==
  /\ KeyArrives /\ n # d
  /\ vidmap' = [vidmap EXCEPT ![n] = "video", ![d] = "buffer"]
  /\ buffer_mem' = [buffer_mem EXCEPT ![d] = video_mem]
  /\ video_mem' = buffer_mem[n]
  /\ disp_terminal' = n
  /\ UNCHANGED <<place, scheduled_terminal, input_count, kbd, pc, locals>>

\* Alt-Fn.  For the terminal on display only its page is mapped again.
switch_terminal(n) ==
  /\ KeyArrives
  /\ IF n = d
     THEN /\ vidmap' = [vidmap EXCEPT ![n] = "video"]
          /\ UNCHANGED <<memory, cursor, disp_terminal>>
     ELSE /\ vidmap' = [vidmap EXCEPT ![n] = "video", ![d] = "buffer"]
          /\ buffer_mem' = [buffer_mem EXCEPT ![d] = video_mem]
          /\ video_mem' = buffer_mem[n]
          /\ set_cursor(screen_y[n], screen_x[n])
          /\ disp_terminal' = n
  /\ UNCHANGED <<screen_x, screen_y, scheduled_terminal, input_count, kbd, pc,
                 locals>>

\* The timer passes the CPU to the next terminal's thread.
schedule ==
  /\ Interruptible
  /\ scheduled_terminal' = (scheduled_terminal + 1) % TERMINAL_NUM
  /\ UNCHANGED <<place, memory, display, input_count, kbd, pc, locals>>

-----------------------------------------------------------------------------
Program(t) ==
  \/ \E ch \in Char \cup {LF} : terminal_write(t, ch) \/ putc_enter(t, ch)
  \/ putc_body(t) \/ write_return(t)
  \/ \E k \in FishCells, ch \in Char \cup {BLANK} : fish_draw(t, k, ch)

Key ==
  \/ \E ch \in Char : type_char(ch)
  \/ backspace \/ enter_pressed \/ clear \/ esc_pressed
  \/ \E n \in Term : switch_terminal(n)

Next ==
  \/ \E t \in Term : Program(t)
  \/ \E a \in Actor : putc_scrolled(a)
  \/ Key \/ enter_reset \/ clear_reset
  \/ schedule

Spec == Init /\ [][Next]_vars

-----------------------------------------------------------------------------
\* Every variable has its type; in particular the cursor of a terminal never
\* leaves the columns, nor the rows at the top.
TypeOK ==
  /\ disp_terminal \in Term /\ scheduled_terminal \in Term
  /\ screen_x \in [Term -> 0 .. NUM_COLS - 1]
  /\ screen_y \in [Term -> Nat]
  /\ cursor \in Nat
  /\ video_mem \in [Cell -> Char \cup {BLANK}]
  /\ buffer_mem \in [Term -> [Cell -> Char \cup {BLANK}]]
  /\ vidmap \in [Term -> {"video", "buffer"}]
  /\ input_count \in [Term -> 0 .. INPUT_SIZE]
  /\ kbd \in Term \cup {NoTerm}
  /\ pc \in [Actor -> Point]
  /\ disp_idx \in [Actor -> Term]
  /\ disp_terminal_on \in [Actor -> BOOLEAN]
  /\ c \in [Actor -> Char \cup {LF}]

Position(t) == NUM_COLS * screen_y[t] + screen_x[t]

\* The cursor is always behind as many cells as there are characters to take
\* back, whatever the programs write, so that backspace, and the row that Enter
\* goes back, never leave the screen at its top.
CursorAhead == \A t \in Term : input_count[t] <= Position(t)

\* Some actor's putc for terminal t is behind scroll.
Scrolling(a, t) ==
  /\ pc[a] = "scrolled"
  /\ t = IF disp_terminal_on[a] THEN disp_idx[a] ELSE a

LogicalPosition(t) ==
  IF \E a \in Actor : Scrolling(a, t)
  THEN LET a == CHOOSE b \in Actor : Scrolling(b, t)
       IN  NUM_COLS * (NUM_ROWS - 1) + IF c[a] = LF THEN 0 ELSE screen_x[t]
  ELSE IF pc[KBD] = "clear" /\ t = disp_idx[KBD] THEN 0 ELSE Position(t)

\* The line on display is ended or cleared and only its count is not reset.
LineDone ==
  \/ pc[KBD] \in {"enter", "clear"}
  \/ pc[KBD] = "scrolled" /\ c[KBD] = LF

\* The screen of a terminal, the place of its next character, and how much of
\* its line the user has typed, as the refinement maps them.
Screens    == [t \in Term |-> IF t = disp_terminal THEN video_mem
                                                   ELSE buffer_mem[t]]
Positions  == [t \in Term |-> LogicalPosition(t)]
TypedCount == [t \in Term |-> IF t = disp_terminal /\ LineDone
                              THEN 0 ELSE input_count[t]]

\* With interrupts held off in the windows, the video memory, the buffers and
\* the cursors implement one screen per terminal: output, echo and direct
\* drawing reach the screen of their own terminal, shown or not, and switching
\* terminals changes none.
Consoles == INSTANCE VirtualConsoles WITH
  Terminal <- Term, Rows <- NUM_ROWS, Cols <- NUM_COLS,
  MaxLine  <- INPUT_SIZE,
  shown    <- disp_terminal,
  running  <- scheduled_terminal,
  cells    <- Screens,
  pos      <- Positions,
  typed    <- TypedCount

ImplementsConsoles == Consoles!Spec

\* Between operations the hardware cursor stands at the position of the
\* terminal on display.
CursorShown ==
  (\A a \in Actor : pc[a] \notin {"scrolled", "clear"}) =>
    cursor = Position(disp_terminal)
=============================================================================

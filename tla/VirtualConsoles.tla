--------------------------- MODULE VirtualConsoles ---------------------------
(***************************************************************************)
(* What the screen output of the kernel promises: every terminal has a     *)
(* screen of its own, a sequence of Size cells written from left to right, *)
(* which scrolls by one row when it is full.  A program writes to and      *)
(* draws on the screen of its own terminal, shown or not; what the user    *)
(* types is echoed on the terminal that is shown, and only as many         *)
(* characters can be taken back as have been typed.                        *)
(***************************************************************************)
EXTENDS Integers

CONSTANTS Terminal, Rows, Cols, MaxLine, Char, BLANK

VARIABLES
  shown,    \* the terminal on display
  running,  \* the terminal whose program is running
  cells,    \* cells[t][k]: what cell k of terminal t holds
  pos,      \* pos[t]: the cell that the next character goes to
  typed     \* typed[t]: characters of its line that the user has typed

vars == <<shown, running, cells, pos, typed>>

Size == Rows * Cols
Cell == 0 .. Size - 1

Init ==
  /\ shown = 0 /\ running = 0
  /\ cells = [t \in Terminal |-> [k \in Cell |-> BLANK]]
  /\ pos = [t \in Terminal |-> 0]
  /\ typed = [t \in Terminal |-> 0]

\* The screen after a step that moves the cursor to cell p, which may be the
\* one behind the last.
MoveTo(t, screen, p) ==
  IF p < Size
  THEN /\ cells' = [cells EXCEPT ![t] = screen]
       /\ pos' = [pos EXCEPT ![t] = p]
  ELSE /\ cells' = [cells EXCEPT ![t] =
                      [k \in Cell |-> IF k + Cols < Size THEN screen[k + Cols]
                                                         ELSE BLANK]]
       /\ pos' = [pos EXCEPT ![t] = p - Cols]

Newline(t) == MoveTo(t, cells[t], (pos[t] \div Cols + 1) * Cols)

Add(t, c) == MoveTo(t, [cells[t] EXCEPT ![pos[t]] = c], pos[t] + 1)

\* The running program writes a character, or draws on its screen directly.
Write ==
  /\ Newline(running) \/ \E c \in Char : Add(running, c)
  /\ UNCHANGED <<shown, running, typed>>

Draw ==
  /\ \E k \in Cell, c \in Char \cup {BLANK} :
       cells' = [cells EXCEPT ![running][k] = c]
  /\ UNCHANGED <<shown, running, pos, typed>>

\* The user types a character, takes one back, ends the line, for which a line
\* that has filled its row needs no other one, or clears the screen.
Type ==
  /\ typed[shown] < MaxLine
  /\ typed' = [typed EXCEPT ![shown] = @ + 1]
  /\ \E c \in Char : Add(shown, c)
  /\ UNCHANGED <<shown, running>>

Erase ==
  /\ typed[shown] > 0
  /\ typed' = [typed EXCEPT ![shown] = @ - 1]
  /\ cells' = [cells EXCEPT ![shown][pos[shown] - 1] = BLANK]
  /\ pos' = [pos EXCEPT ![shown] = @ - 1]
  /\ UNCHANGED <<shown, running>>

Enter ==
  /\ typed' = [typed EXCEPT ![shown] = 0]
  /\ \/ Newline(shown)
     \/ /\ typed[shown] > 0 /\ pos[shown] % Cols = 0
        /\ UNCHANGED <<cells, pos>>
  /\ UNCHANGED <<shown, running>>

Clear ==
  /\ cells' = [cells EXCEPT ![shown] = [k \in Cell |-> BLANK]]
  /\ pos' = [pos EXCEPT ![shown] = 0]
  /\ typed' = [typed EXCEPT ![shown] = 0]
  /\ UNCHANGED <<shown, running>>

Show(t) == shown' = t /\ UNCHANGED <<running, cells, pos, typed>>

Run(t) == running' = t /\ UNCHANGED <<shown, cells, pos, typed>>

Next ==
  \/ Write \/ Draw
  \/ Type \/ Erase \/ Enter \/ Clear
  \/ \E t \in Terminal : Show(t) \/ Run(t)

Spec == Init /\ [][Next]_vars
=============================================================================

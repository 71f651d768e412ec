------------------------------ MODULE Terminals ------------------------------
(***************************************************************************)
(* The line discipline of the terminals (student-distrib/keyboard.c): keys *)
(* edit keyboard_buffer, Enter copies it to terminal_buffer, terminal_read *)
(* takes it from there, and Alt-Fn exchanges keyboard_buffer with the copy *)
(* kept for the terminal that is shown next.  There is one keyboard_buffer *)
(* and one terminal_buffer for all terminals.                              *)
(*                                                                         *)
(* A key is handled with the keyboard interrupt in service, so no two keys *)
(* interleave; terminal_read runs with interrupts enabled and is split at  *)
(* every access to what the keyboard handler writes.                       *)
(***************************************************************************)
EXTENDS Integers, Sequences

CONSTANTS
  TERMINAL_NUM,
  INPUT_SIZE,   \* size of the buffers, and LENGTH in terminal_read
  Char,         \* printable characters
  NUL, LF,      \* '\0' and '\n'
  Nbytes,       \* sizes that programs pass to read
  PatientUser   \* Enter, and Esc on an empty line, only when no line is unread

Term  == 0 .. TERMINAL_NUM - 1
Index == 0 .. INPUT_SIZE - 1
Cell  == Char \cup {NUL}

ASSUME TerminalsAssumption ==
  /\ TERMINAL_NUM \in Nat \ {0}
  /\ INPUT_SIZE \in Nat \ {0}
  /\ NUL \notin Char /\ LF \notin Char \cup {NUL}
  /\ Nbytes \subseteq Nat \ {0}
  /\ PatientUser \in BOOLEAN

VARIABLES
  disp_terminal,
  scheduled_terminal,
  keyboard_buffer,
  terminal_buffer,
  local_keyboard_buffer,  \* terminals[t].local_keyboard_buffer
  input_count,            \* terminals[t].input_count
  terminal_read_flag,
  pc,        \* where the reader of terminal t is in terminal_read
  limit,     \* its bound
  buf        \* what it has stored in the caller's buffer

keys    == <<disp_terminal, keyboard_buffer, local_keyboard_buffer,
             input_count>>
readers == <<pc, limit, buf>>
vars    == <<keys, readers, scheduled_terminal, terminal_buffer,
             terminal_read_flag>>

Empty == [i \in Index |-> NUL]

terminal_init ==
  /\ keyboard_buffer = Empty
  /\ terminal_buffer = Empty
  /\ local_keyboard_buffer = [t \in Term |-> Empty]
  /\ input_count = [t \in Term |-> 0]
  /\ terminal_read_flag = [t \in Term |-> 0]
  /\ disp_terminal = 0

Init ==
  /\ terminal_init
  /\ scheduled_terminal = 0
  /\ pc = [t \in Term |-> "idle"]
  /\ limit = [t \in Term |-> 0]
  /\ buf = [t \in Term |-> <<>>]

-----------------------------------------------------------------------------
(* Keys.  d is the terminal on display, count its input count. *)

d     == disp_terminal
count == input_count[disp_terminal]

\* No line is waiting for a reader or being read.
NothingUnread ==
  \A t \in Term : terminal_read_flag[t] = 0 /\ pc[t] \in {"idle", "wait"}

\* Mutant: the buffer takes one character too many.
type_char_overrun(c) ==
  /\ count <= INPUT_SIZE
  /\ keyboard_buffer' = [keyboard_buffer EXCEPT ![count] = c]
  /\ input_count' = [input_count EXCEPT ![d] = count + 1]
  /\ UNCHANGED <<disp_terminal, local_keyboard_buffer, readers,
                 scheduled_terminal, terminal_buffer, terminal_read_flag>>

\* A printable key.
type_char(c) ==
  /\ count < INPUT_SIZE
  /\ keyboard_buffer' = [keyboard_buffer EXCEPT ![count] = c]
  /\ input_count' = [input_count EXCEPT ![d] = count + 1]
  /\ UNCHANGED <<disp_terminal, local_keyboard_buffer, readers,
                 scheduled_terminal, terminal_buffer, terminal_read_flag>>

backspace_pressed ==
  /\ count > 0
  /\ input_count' = [input_count EXCEPT ![d] = count - 1]
  /\ keyboard_buffer' = [keyboard_buffer EXCEPT ![count - 1] = NUL]
  /\ UNCHANGED <<disp_terminal, local_keyboard_buffer, readers,
                 scheduled_terminal, terminal_buffer, terminal_read_flag>>

\* Ctrl-L resets the count and leaves the characters where they are.
clear_pressed ==
  /\ input_count' = [input_count EXCEPT ![d] = 0]
  /\ UNCHANGED <<disp_terminal, keyboard_buffer, local_keyboard_buffer,
                 readers, scheduled_terminal, terminal_buffer,
                 terminal_read_flag>>

\* The '\n' put behind the line is cleared again with the buffer.
enter_pressed ==
  /\ PatientUser => NothingUnread
  /\ terminal_read_flag' = [terminal_read_flag EXCEPT ![d] = 1]
  /\ terminal_buffer' = [i \in Index |-> IF i < count THEN keyboard_buffer[i]
                                                      ELSE terminal_buffer[i]]
  /\ keyboard_buffer' = Empty
  /\ input_count' = [input_count EXCEPT ![d] = 0]
  /\ UNCHANGED <<disp_terminal, local_keyboard_buffer, readers,
                 scheduled_terminal>>

\* Esc clears the buffers and halts the scheduled process; sys_halt does not
\* return, so the count is not reset.
esc_pressed ==
  /\ PatientUser => NothingUnread /\ count = 0
  /\ keyboard_buffer' = Empty
  /\ terminal_buffer' = Empty
  /\ pc' = [pc EXCEPT ![scheduled_terminal] = "idle"]
  /\ limit' = [limit EXCEPT ![scheduled_terminal] = 0]
  /\ buf' = [buf EXCEPT ![scheduled_terminal] = <<>>]
  /\ UNCHANGED <<disp_terminal, local_keyboard_buffer, input_count,
                 scheduled_terminal, terminal_read_flag>>

\* Mutant: the line being typed is not saved.
switch_terminal_no_save(n) ==
  /\ n # disp_terminal
  /\ keyboard_buffer' = local_keyboard_buffer[n]
  /\ disp_terminal' = n
  /\ UNCHANGED <<local_keyboard_buffer, input_count, readers,
                 scheduled_terminal, terminal_buffer, terminal_read_flag>>

\* Alt-Fn: save the line being typed and fetch the other terminal's.
switch_terminal(n) ==
  /\ n # disp_terminal
  /\ local_keyboard_buffer' =
       [local_keyboard_buffer EXCEPT ![disp_terminal] = keyboard_buffer]
  /\ keyboard_buffer' = local_keyboard_buffer[n]
  /\ disp_terminal' = n
  /\ UNCHANGED <<input_count, readers, scheduled_terminal, terminal_buffer,
                 terminal_read_flag>>

-----------------------------------------------------------------------------
(* terminal_read, called by the process that runs on terminal t. *)

At(t, point) == scheduled_terminal = t /\ pc[t] = point

\* limit = min(nbytes, LENGTH).
read_call(t, nbytes) ==
  /\ At(t, "idle")
  /\ limit' = [limit EXCEPT ![t] = IF nbytes < INPUT_SIZE THEN nbytes
                                                          ELSE INPUT_SIZE]
  /\ pc' = [pc EXCEPT ![t] = "wait"]
  /\ UNCHANGED <<keys, buf, scheduled_terminal, terminal_buffer,
                 terminal_read_flag>>

\* while (terminal_read_flag[scheduled_terminal] == 0);
read_wait(t) ==
  /\ At(t, "wait") /\ terminal_read_flag[t] # 0
  /\ pc' = [pc EXCEPT ![t] = "copy"]
  /\ UNCHANGED <<keys, limit, buf, scheduled_terminal, terminal_buffer,
                 terminal_read_flag>>

\* One turn of the copying loop.
Copying(t) == Len(buf[t]) < limit[t] /\ terminal_buffer[Len(buf[t])] # NUL

read_copy(t) ==
  /\ At(t, "copy") /\ Copying(t)
  /\ buf' = [buf EXCEPT ![t] = Append(@, terminal_buffer[Len(@)])]
  /\ UNCHANGED <<keys, pc, limit, scheduled_terminal, terminal_buffer,
                 terminal_read_flag>>

\* The loop ends: '\n' is stored behind the line, and the flag of the scheduled
\* terminal is reset.
read_flag(t) ==
  /\ At(t, "copy") /\ ~Copying(t)
  /\ buf' = [buf EXCEPT ![t] = Append(@, LF)]
  /\ terminal_buffer' = [terminal_buffer EXCEPT ![INPUT_SIZE - 1] = NUL]
  /\ terminal_read_flag' =
       [terminal_read_flag EXCEPT ![scheduled_terminal] = 0]
  /\ pc' = [pc EXCEPT ![t] = "clear"]
  /\ UNCHANGED <<keys, limit, scheduled_terminal>>

\* Clear terminal_buffer and return the number of bytes stored.
read_clear(t) ==
  /\ At(t, "clear")
  /\ terminal_buffer' = Empty
  /\ limit' = [limit EXCEPT ![t] = 0]
  /\ buf' = [buf EXCEPT ![t] = <<>>]
  /\ pc' = [pc EXCEPT ![t] = "idle"]
  /\ UNCHANGED <<keys, scheduled_terminal, terminal_read_flag>>

\* The timer passes the CPU to the next terminal's process.
schedule ==
  /\ scheduled_terminal' = (scheduled_terminal + 1) % TERMINAL_NUM
  /\ UNCHANGED <<keys, readers, terminal_buffer, terminal_read_flag>>

-----------------------------------------------------------------------------
Key ==
  \/ \E c \in Char : type_char(c)
  \/ backspace_pressed \/ clear_pressed \/ enter_pressed \/ esc_pressed
  \/ \E n \in Term : switch_terminal(n)

Reader(t) ==
  \/ \E nbytes \in Nbytes : read_call(t, nbytes)
  \/ read_wait(t) \/ read_copy(t) \/ read_flag(t) \/ read_clear(t)

Next == Key \/ schedule \/ \E t \in Term : Reader(t)

Spec == Init /\ [][Next]_vars

-----------------------------------------------------------------------------
\* Every variable has its type, and the counts stay within the buffers.
TypeOK ==
  /\ disp_terminal \in Term /\ scheduled_terminal \in Term
  /\ keyboard_buffer \in [Index -> Cell]
  /\ terminal_buffer \in [Index -> Cell]
  /\ local_keyboard_buffer \in [Term -> [Index -> Cell]]
  /\ input_count \in [Term -> 0 .. INPUT_SIZE]
  /\ terminal_read_flag \in [Term -> {0, 1}]
  /\ pc \in [Term -> {"idle", "wait", "copy", "clear"}]
  /\ limit \in [Term -> 0 .. INPUT_SIZE]
  /\ buf \in [Term -> Seq(Char \cup {LF})]

\* The first n cells of a buffer, and those before its first NUL.
Prefix(b, n) == [i \in 1 .. n |-> b[i - 1]]
Text(b) ==
  LET n == CHOOSE m \in 0 .. INPUT_SIZE :
             /\ \A i \in Index : i < m => b[i] # NUL
             /\ m = INPUT_SIZE \/ b[m] = NUL
  IN  Prefix(b, n)

EditBuffer(t) ==
  IF t = disp_terminal THEN keyboard_buffer ELSE local_keyboard_buffer[t]

\* The line that is typed on each terminal, the one that waits for a reader,
\* and the one that a reader has stored and is about to return.
TypedLine == [t \in Term |-> Prefix(EditBuffer(t), input_count[t])]
UnreadLine ==
  [t \in Term |-> IF terminal_read_flag[t] = 1
                  THEN <<Text(terminal_buffer)>> ELSE <<>>]
StoredLine ==
  [t \in Term |-> IF pc[t] = "clear"
                  THEN <<SubSeq(buf[t], 1, Len(buf[t]) - 1)>> ELSE <<>>]

\* The line discipline implements LineEditor: whatever the order in which keys
\* are pressed, terminals switched and readers scheduled, a terminal's line is
\* what was typed on it, and its reader gets exactly that.
Lines == INSTANCE LineEditor WITH
  Terminal  <- Term,
  MaxLine   <- INPUT_SIZE,
  shown     <- disp_terminal,
  line      <- TypedLine,
  complete  <- UnreadLine,
  delivered <- StoredLine

ImplementsLineEditor == Lines!Spec
=============================================================================

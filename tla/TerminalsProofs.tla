--------------------------- MODULE TerminalsProofs ---------------------------
(***************************************************************************)
(* Proofs about Terminals: the type invariant for every user, and, for a   *)
(* user who waits until a line has been read before completing the next    *)
(* one, that the line discipline implements LineEditor.                    *)
(***************************************************************************)
EXTENDS Terminals, TLAPS

LEMMA IndexType ==
  /\ INPUT_SIZE \in Nat \ {0} /\ TERMINAL_NUM \in Nat \ {0}
  /\ Index = {i \in Int : 0 <= i /\ i < INPUT_SIZE}
  /\ 0 \in Term
  BY TerminalsAssumption DEF Index, Term

LEMMA EmptyType == Empty \in [Index -> Cell]
  BY DEF Empty, Cell

-----------------------------------------------------------------------------
(* Types. *)

LEMMA TypeInit == Init => TypeOK
<1> SUFFICES ASSUME Init PROVE TypeOK
  OBVIOUS
<1>1. disp_terminal \in Term /\ scheduled_terminal \in Term
  BY IndexType DEF Init, terminal_init
<1>2. 0 \in 0 .. INPUT_SIZE
  BY IndexType
<1> QED BY <1>1, <1>2, EmptyType DEF Init, terminal_init, TypeOK

LEMMA TypeNext == TypeOK /\ [Next]_vars => TypeOK'
<1> SUFFICES ASSUME TypeOK, [Next]_vars PROVE TypeOK'
  OBVIOUS
<1>0. input_count[disp_terminal] \in 0 .. INPUT_SIZE
  BY DEF TypeOK
<1>1. ASSUME NEW c \in Char, type_char(c)
      PROVE  TypeOK'
  <2>1. count \in Index /\ count + 1 \in 0 .. INPUT_SIZE /\ c \in Cell
    BY <1>0, <1>1, IndexType DEF type_char, count, Cell
  <2>2. keyboard_buffer' \in [Index -> Cell]
    BY <1>1, <2>1 DEF type_char, TypeOK
  <2>3. input_count' \in [Term -> 0 .. INPUT_SIZE]
    BY <1>1, <2>1 DEF type_char, TypeOK, d
  <2> QED BY <1>1, <2>2, <2>3 DEF type_char, TypeOK, readers
<1>2. CASE backspace_pressed
  <2>1. count - 1 \in Index /\ count - 1 \in 0 .. INPUT_SIZE /\ NUL \in Cell
    BY <1>0, <1>2, IndexType DEF backspace_pressed, count, Cell
  <2>2. keyboard_buffer' \in [Index -> Cell]
    BY <1>2, <2>1 DEF backspace_pressed, TypeOK
  <2>3. input_count' \in [Term -> 0 .. INPUT_SIZE]
    BY <1>2, <2>1 DEF backspace_pressed, TypeOK, d
  <2> QED BY <1>2, <2>2, <2>3 DEF backspace_pressed, TypeOK, readers
<1>3. CASE clear_pressed
  <2>1. input_count' \in [Term -> 0 .. INPUT_SIZE]
    BY <1>3, IndexType DEF clear_pressed, TypeOK, d
  <2> QED BY <1>3, <2>1 DEF clear_pressed, TypeOK, readers
<1>4. CASE enter_pressed
  <2>1. input_count' \in [Term -> 0 .. INPUT_SIZE]
    BY <1>4, IndexType DEF enter_pressed, TypeOK, d
  <2>2. terminal_buffer' \in [Index -> Cell]
    BY <1>4 DEF enter_pressed, TypeOK
  <2>3. terminal_read_flag' \in [Term -> {0, 1}]
    BY <1>4 DEF enter_pressed, TypeOK, d
  <2> QED BY <1>4, <2>1, <2>2, <2>3, EmptyType
          DEF enter_pressed, TypeOK, readers
<1>5. CASE esc_pressed
  <2>1. 0 \in 0 .. INPUT_SIZE /\ <<>> \in Seq(Char \cup {LF})
    BY IndexType
  <2>2. limit' \in [Term -> 0 .. INPUT_SIZE]
    BY <1>5, <2>1 DEF esc_pressed, TypeOK
  <2>3. buf' \in [Term -> Seq(Char \cup {LF})]
    BY <1>5, <2>1 DEF esc_pressed, TypeOK
  <2>4. pc' \in [Term -> {"idle", "wait", "copy", "clear"}]
    BY <1>5 DEF esc_pressed, TypeOK
  <2> QED BY <1>5, <2>2, <2>3, <2>4, EmptyType DEF esc_pressed, TypeOK
<1>6. ASSUME NEW n \in Term, switch_terminal(n)
      PROVE  TypeOK'
  BY <1>6 DEF switch_terminal, TypeOK, readers
<1>7. CASE schedule
  <2>1. scheduled_terminal' \in Term
    BY <1>7, IndexType DEF schedule, TypeOK, Term
  <2> QED BY <1>7, <2>1 DEF schedule, TypeOK, keys, readers
<1>8. ASSUME NEW t \in Term, NEW nbytes \in Nbytes, read_call(t, nbytes)
      PROVE  TypeOK'
  <2>1. (IF nbytes < INPUT_SIZE THEN nbytes ELSE INPUT_SIZE)
          \in 0 .. INPUT_SIZE
    BY TerminalsAssumption
  <2>2. limit' \in [Term -> 0 .. INPUT_SIZE]
    BY <1>8, <2>1 DEF read_call, TypeOK
  <2> QED BY <1>8, <2>2 DEF read_call, TypeOK, keys
<1>9. ASSUME NEW t \in Term, read_wait(t)
      PROVE  TypeOK'
  BY <1>9 DEF read_wait, TypeOK, keys
<1>10. ASSUME NEW t \in Term, read_copy(t)
       PROVE  TypeOK'
  <2>1. /\ buf[t] \in Seq(Char \cup {LF}) /\ Len(buf[t]) \in Nat
        /\ limit[t] \in 0 .. INPUT_SIZE
    BY DEF TypeOK
  <2>2. Len(buf[t]) \in Index
    BY <1>10, <2>1, IndexType DEF read_copy, Copying
  <2>3. terminal_buffer[Len(buf[t])] \in Char
    BY <1>10, <2>2 DEF read_copy, Copying, TypeOK, Cell
  <2>4. Append(buf[t], terminal_buffer[Len(buf[t])]) \in Seq(Char \cup {LF})
    BY <2>1, <2>3
  <2>5. buf' \in [Term -> Seq(Char \cup {LF})]
    BY <1>10, <2>4 DEF read_copy, TypeOK
  <2> QED BY <1>10, <2>5 DEF read_copy, TypeOK, keys
<1>11. ASSUME NEW t \in Term, read_flag(t)
       PROVE  TypeOK'
  <2>1. Append(buf[t], LF) \in Seq(Char \cup {LF})
    BY DEF TypeOK
  <2>2. buf' \in [Term -> Seq(Char \cup {LF})]
    BY <1>11, <2>1 DEF read_flag, TypeOK
  <2>3. terminal_buffer' \in [Index -> Cell]
    BY <1>11 DEF read_flag, TypeOK, Cell
  <2>4. terminal_read_flag' \in [Term -> {0, 1}]
    BY <1>11 DEF read_flag, TypeOK
  <2> QED BY <1>11, <2>2, <2>3, <2>4 DEF read_flag, TypeOK, keys
<1>12. ASSUME NEW t \in Term, read_clear(t)
       PROVE  TypeOK'
  <2>1. 0 \in 0 .. INPUT_SIZE /\ <<>> \in Seq(Char \cup {LF})
    BY IndexType
  <2>2. buf' \in [Term -> Seq(Char \cup {LF})]
    BY <1>12, <2>1 DEF read_clear, TypeOK
  <2>3. limit' \in [Term -> 0 .. INPUT_SIZE]
    BY <1>12, <2>1 DEF read_clear, TypeOK
  <2> QED BY <1>12, <2>2, <2>3, EmptyType DEF read_clear, TypeOK, keys
<1>13. CASE UNCHANGED vars
  BY <1>13 DEF vars, keys, readers, TypeOK
<1> QED BY <1>1, <1>2, <1>3, <1>4, <1>5, <1>6, <1>7, <1>8, <1>9, <1>10,
           <1>11, <1>12, <1>13 DEF Next, Key, Reader

\* No key and no reader leaves the buffers, whatever the user does and whatever
\* sizes the programs pass to terminal_read.
THEOREM TerminalsTypeCorrect == Spec => []TypeOK
  BY TypeInit, TypeNext, PTL DEF Spec

-----------------------------------------------------------------------------
(* Lines and readers when the user waits: the inductive invariant. *)

\* A line of terminal t waits for its reader, or is being read.
Busy(t) == terminal_read_flag[t] = 1 \/ pc[t] \in {"copy", "clear"}

\* One line at a time is in terminal_buffer, which is empty otherwise.
OneReader ==
  /\ \A t \in Term : /\ pc[t] = "copy" => terminal_read_flag[t] = 1
                     /\ pc[t] = "clear" => terminal_read_flag[t] = 0
  /\ \A t, u \in Term : Busy(t) /\ Busy(u) => t = u
  /\ (\A t \in Term : ~Busy(t)) => terminal_buffer = Empty

\* The line in buffer b has n characters.
Holds(b, n) == \A i \in Index : b[i] # NUL <=> i < n

WholeLine ==
  (\E t \in Term : terminal_read_flag[t] = 1) =>
     \E n \in 0 .. INPUT_SIZE : Holds(terminal_buffer, n)

\* What the reader of terminal t has stored.
Copied(t) ==
  /\ pc[t] \in {"idle", "wait"} => buf[t] = <<>>
  /\ pc[t] \in {"wait", "copy"} => limit[t] \in 1 .. INPUT_SIZE
  /\ pc[t] = "copy" =>
       /\ Len(buf[t]) <= limit[t]
       /\ buf[t] = Prefix(terminal_buffer, Len(buf[t]))
       /\ \A i \in Index : i < Len(buf[t]) => terminal_buffer[i] # NUL

CopiedLine == \A t \in Term : Copied(t)

\* The characters of every line that is being typed have no gap.
NoGap ==
  \A t \in Term : \A i \in Index :
    i < input_count[t] => EditBuffer(t)[i] # NUL

LineInv == TypeOK /\ OneReader /\ WholeLine /\ CopiedLine /\ NoGap

LEMMA LineInit == Init => LineInv
<1> SUFFICES ASSUME Init PROVE LineInv
  OBVIOUS
<1>1. TypeOK
  BY TypeInit
<1>2. OneReader /\ WholeLine /\ CopiedLine
  BY DEF Init, terminal_init, OneReader, WholeLine, CopiedLine, Copied, Busy
<1>3. NoGap
  BY DEF Init, terminal_init, NoGap, Index
<1> QED BY <1>1, <1>2, <1>3 DEF LineInv

\* A step that leaves the readers and terminal_buffer alone.
LEMMA ReadersKept ==
  ASSUME OneReader, WholeLine, CopiedLine,
         UNCHANGED <<readers, terminal_buffer, terminal_read_flag>>
  PROVE  OneReader' /\ WholeLine' /\ CopiedLine'
  BY DEF OneReader, WholeLine, CopiedLine, Copied, Busy, readers

LEMMA LinesKept ==
  ASSUME NoGap, UNCHANGED keys
  PROVE  NoGap'
  BY DEF NoGap, EditBuffer, keys

LEMMA KeyKeeps ==
  ASSUME LineInv, PatientUser, Key
  PROVE  OneReader' /\ WholeLine' /\ CopiedLine' /\ NoGap'
<1>0. /\ TypeOK /\ OneReader /\ WholeLine /\ CopiedLine /\ NoGap
      /\ input_count[disp_terminal] \in 0 .. INPUT_SIZE
  BY DEF LineInv, TypeOK
<1>1. ASSUME NEW c \in Char, type_char(c)
      PROVE  OneReader' /\ WholeLine' /\ CopiedLine' /\ NoGap'
  <2>1. c # NUL
    BY TerminalsAssumption
  <2>2. NoGap'
    BY <1>0, <1>1, <2>1, IndexType
       DEF type_char, NoGap, EditBuffer, TypeOK, count, d
  <2> QED BY <1>0, <1>1, <2>2, ReadersKept DEF type_char
<1>2. CASE backspace_pressed
  <2>1. NoGap'
    BY <1>0, <1>2, IndexType
       DEF backspace_pressed, NoGap, EditBuffer, TypeOK, count, d
  <2> QED BY <1>0, <1>2, <2>1, ReadersKept DEF backspace_pressed
<1>3. CASE clear_pressed
  <2>1. NoGap'
    BY <1>0, <1>3, IndexType
       DEF clear_pressed, NoGap, EditBuffer, TypeOK, count, d
  <2> QED BY <1>0, <1>3, <2>1, ReadersKept DEF clear_pressed
<1>4. CASE enter_pressed
  <2>1. NothingUnread
    BY <1>4 DEF enter_pressed
  <2>2. terminal_buffer = Empty /\ \A t \in Term : pc[t] \in {"idle", "wait"}
    BY <1>0, <2>1 DEF NothingUnread, OneReader, Busy
  <2>3. NoGap'
    BY <1>0, <1>4, IndexType
       DEF enter_pressed, NoGap, EditBuffer, TypeOK, count, d
  <2>4. Holds(terminal_buffer', count)
    BY <1>0, <1>4, <2>2, IndexType
       DEF enter_pressed, Holds, NoGap, EditBuffer, TypeOK, count, Empty
  <2>5. WholeLine'
    <3>1. PICK n : n = count
      OBVIOUS
    <3>2. n \in 0 .. INPUT_SIZE /\ Holds(terminal_buffer', n)
      BY <1>0, <2>4, <3>1 DEF count
    <3>3. Holds(terminal_buffer, n)'
      BY <3>2 DEF Holds
    <3> QED BY <3>2, <3>3 DEF WholeLine
  <2>6. \A t \in Term : terminal_read_flag'[t] = 1 <=> t = disp_terminal
    BY <1>0, <1>4, <2>1 DEF enter_pressed, NothingUnread, TypeOK, d
  <2>7. pc' = pc /\ limit' = limit /\ buf' = buf
    BY <1>4 DEF enter_pressed, readers
  <2>8. OneReader'
    BY <1>0, <2>2, <2>6, <2>7 DEF OneReader, Busy, TypeOK
  <2>9. CopiedLine'
    BY <1>0, <2>2, <2>7 DEF CopiedLine, Copied
  <2> QED BY <2>3, <2>5, <2>8, <2>9
<1>5. CASE esc_pressed
  <2>1. NothingUnread /\ count = 0
    BY <1>5 DEF esc_pressed
  <2>2. NoGap'
    BY <1>0, <1>5, <2>1 DEF esc_pressed, NoGap, EditBuffer, TypeOK, count,
                            Index
  <2>3. /\ \A t \in Term : terminal_read_flag'[t] = 0
        /\ \A t \in Term : pc'[t] \in {"idle", "wait"}
        /\ terminal_buffer' = Empty
    BY <1>0, <1>5, <2>1 DEF esc_pressed, NothingUnread, TypeOK
  <2>4. OneReader' /\ WholeLine'
    BY <2>3 DEF OneReader, WholeLine, Busy
  <2>5. CopiedLine'
    BY <1>0, <1>5, <2>3 DEF esc_pressed, CopiedLine, Copied, TypeOK
  <2> QED BY <2>2, <2>4, <2>5
<1>6. ASSUME NEW n \in Term, switch_terminal(n)
      PROVE  OneReader' /\ WholeLine' /\ CopiedLine' /\ NoGap'
  <2>1. NoGap'
    BY <1>0, <1>6 DEF switch_terminal, NoGap, EditBuffer, TypeOK
  <2> QED BY <1>0, <1>6, <2>1, ReadersKept DEF switch_terminal
<1> QED BY <1>1, <1>2, <1>3, <1>4, <1>5, <1>6 DEF Key

\* A step of the reader of t that leaves the other readers alone.
Alone(t) ==
  \A u \in Term \ {t} :
    /\ pc'[u] = pc[u] /\ limit'[u] = limit[u] /\ buf'[u] = buf[u]
    /\ terminal_read_flag'[u] = terminal_read_flag[u]

LEMMA PrefixSeq ==
  ASSUME NEW b \in [Index -> Cell], NEW n \in 0 .. INPUT_SIZE,
         \A i \in Index : i < n => b[i] # NUL
  PROVE  /\ Prefix(b, n) \in Seq(Char)
         /\ Len(Prefix(b, n)) = n
         /\ \A i \in 1 .. n : Prefix(b, n)[i] = b[i - 1]
<1>1. \A i \in 1 .. n : b[i - 1] \in Char
  BY IndexType DEF Cell
<1> QED BY <1>1 DEF Prefix

LEMMA SeqIs ==
  ASSUME NEW S, NEW s \in Seq(S), NEW t \in Seq(S), Len(s) = Len(t),
         \A i \in 1 .. Len(s) : s[i] = t[i]
  PROVE  s = t
  OBVIOUS

LEMMA PrefixAppend ==
  ASSUME NEW b \in [Index -> Cell], NEW n \in Nat, n < INPUT_SIZE,
         \A i \in Index : i < n + 1 => b[i] # NUL
  PROVE  Append(Prefix(b, n), b[n]) = Prefix(b, n + 1)
<1>1. /\ n \in 0 .. INPUT_SIZE /\ n + 1 \in 0 .. INPUT_SIZE /\ n \in Index
      /\ \A i \in Index : i < n => b[i] # NUL
  BY IndexType
<1>2. /\ Prefix(b, n) \in Seq(Char) /\ Len(Prefix(b, n)) = n
      /\ \A i \in 1 .. n : Prefix(b, n)[i] = b[i - 1]
  BY <1>1, PrefixSeq
<1>3. /\ Prefix(b, n + 1) \in Seq(Char) /\ Len(Prefix(b, n + 1)) = n + 1
      /\ \A i \in 1 .. n + 1 : Prefix(b, n + 1)[i] = b[i - 1]
  BY <1>1, PrefixSeq
<1>4. b[n] \in Char
  BY <1>1 DEF Cell
<1> DEFINE s == Append(Prefix(b, n), b[n])
           t == Prefix(b, n + 1)
<1>5. s \in Seq(Char) /\ Len(s) = n + 1
  BY <1>2, <1>4
<1>6. ASSUME NEW i \in 1 .. n + 1
      PROVE  s[i] = t[i]
  BY <1>2, <1>3, <1>4
<1> HIDE DEF s, t
<1>7. s = t
  BY <1>3, <1>5, <1>6, SeqIs DEF t
<1> QED BY <1>7 DEF s, t

LEMMA ReaderKeeps ==
  ASSUME LineInv, NEW t \in Term, Reader(t)
  PROVE  OneReader' /\ WholeLine' /\ CopiedLine' /\ NoGap'
<1>0. /\ TypeOK /\ OneReader /\ WholeLine /\ CopiedLine /\ NoGap
      /\ Copied(t)
  BY DEF LineInv, CopiedLine
<1>1. UNCHANGED keys
  BY DEF Reader, read_call, read_wait, read_copy, read_flag, read_clear
<1>2. NoGap'
  BY <1>0, <1>1, LinesKept
<1>3. ASSUME NEW nbytes \in Nbytes, read_call(t, nbytes)
      PROVE  OneReader' /\ WholeLine' /\ CopiedLine'
  <2>1. (IF nbytes < INPUT_SIZE THEN nbytes ELSE INPUT_SIZE)
          \in 1 .. INPUT_SIZE
    BY TerminalsAssumption
  <2>2. OneReader' /\ WholeLine'
    BY <1>0, <1>3 DEF read_call, At, OneReader, WholeLine, Busy, TypeOK, Holds
  <2>3. CopiedLine'
    BY <1>0, <1>3, <2>1 DEF read_call, At, CopiedLine, Copied, TypeOK
  <2> QED BY <2>2, <2>3
<1>4. CASE read_wait(t)
  <2>1. terminal_read_flag[t] = 1
    BY <1>0, <1>4 DEF read_wait, TypeOK
  <2>2. OneReader' /\ WholeLine'
    BY <1>0, <1>4, <2>1
       DEF read_wait, At, OneReader, WholeLine, Busy, TypeOK, Holds
  <2>3. buf[t] = <<>> /\ limit[t] \in 1 .. INPUT_SIZE
    BY <1>0, <1>4 DEF read_wait, At, Copied
  <2>4. /\ Len(buf[t]) <= limit[t]
        /\ buf[t] = Prefix(terminal_buffer, Len(buf[t]))
        /\ \A i \in Index : i < Len(buf[t]) => terminal_buffer[i] # NUL
    BY <2>3 DEF Prefix, Index
  <2>5. Copied(t)'
    BY <1>0, <1>4, <2>3, <2>4 DEF read_wait, Copied, TypeOK
  <2>6. CopiedLine'
    BY <1>0, <1>4, <2>5 DEF read_wait, CopiedLine, Copied, TypeOK
  <2> QED BY <1>2, <2>2, <2>6
<1>5. CASE read_copy(t)
  <2>1. OneReader' /\ WholeLine'
    BY <1>0, <1>5 DEF read_copy, OneReader, WholeLine, Busy, TypeOK, Holds
  <2> DEFINE n == Len(buf[t])
  <2>2. /\ pc[t] = "copy" /\ n < limit[t] /\ terminal_buffer[n] # NUL
        /\ buf[t] = Prefix(terminal_buffer, n)
        /\ \A i \in Index : i < n => terminal_buffer[i] # NUL
        /\ limit[t] \in 1 .. INPUT_SIZE
    BY <1>0, <1>5 DEF read_copy, At, Copying, Copied
  <2>3. n \in Nat /\ terminal_buffer \in [Index -> Cell]
    BY <1>0 DEF TypeOK
  <2>4. PICK m : m = n
    OBVIOUS
  <2>5. PICK b : b = terminal_buffer
    OBVIOUS
  <2>6. /\ m \in Nat /\ m < INPUT_SIZE /\ b \in [Index -> Cell]
        /\ \A i \in Index : i < m + 1 => b[i] # NUL
    BY <2>2, <2>3, <2>4, <2>5, IndexType
  <2>7. Append(Prefix(b, m), b[m]) = Prefix(b, m + 1)
    BY <2>6, PrefixAppend
  <2>8. buf'[t] = Prefix(b, m + 1)
    BY <1>0, <1>5, <2>2, <2>4, <2>5, <2>7 DEF read_copy, TypeOK
  <2>9. Len(buf'[t]) = m + 1
    <3>1. m + 1 \in 0 .. INPUT_SIZE
      BY <2>6, IndexType
    <3> QED BY <2>6, <2>8, <3>1, PrefixSeq
  <2>10. Copied(t)'
    <3>1. pc'[t] = "copy" /\ limit' = limit /\ terminal_buffer' = b
      BY <1>5, <2>2, <2>5 DEF read_copy
    <3>2. Len(buf'[t]) <= limit'[t]
      BY <2>2, <2>4, <2>6, <2>9, <3>1
    <3> QED BY <2>2, <2>6, <2>8, <2>9, <3>1, <3>2 DEF Copied
  <2>11. CopiedLine'
    BY <1>0, <1>5, <2>10 DEF read_copy, CopiedLine, Copied, TypeOK
  <2> QED BY <1>2, <2>1, <2>11
<1>6. CASE read_flag(t)
  <2>1. pc[t] = "copy" /\ Busy(t) /\ scheduled_terminal = t
    BY <1>6 DEF read_flag, At, Busy
  <2>2. \A u \in Term \ {t} : ~Busy(u)
    BY <1>0, <2>1 DEF OneReader
  <2>3. /\ \A u \in Term : terminal_read_flag'[u] = 0
        /\ pc'[t] = "clear" /\ Alone(t)
    <3>1. \A u \in Term \ {t} : terminal_read_flag[u] = 0
      BY <1>0, <2>2 DEF Busy, TypeOK
    <3> QED BY <1>0, <1>6, <2>1, <3>1 DEF read_flag, TypeOK, Alone
  <2>4. OneReader' /\ WholeLine'
    BY <2>2, <2>3 DEF OneReader, WholeLine, Busy, Alone
  <2>5. CopiedLine'
    BY <1>0, <2>2, <2>3 DEF CopiedLine, Copied, Busy, Alone
  <2> QED BY <1>2, <2>4, <2>5
<1>7. CASE read_clear(t)
  <2>1. pc[t] = "clear" /\ Busy(t) /\ terminal_read_flag[t] = 0
    BY <1>0, <1>7 DEF read_clear, At, Busy, OneReader
  <2>2. \A u \in Term \ {t} : ~Busy(u)
    BY <1>0, <2>1 DEF OneReader
  <2>3. /\ terminal_read_flag' = terminal_read_flag
        /\ pc'[t] = "idle" /\ buf'[t] = <<>> /\ terminal_buffer' = Empty
        /\ Alone(t)
    BY <1>0, <1>7 DEF read_clear, TypeOK, Alone
  <2>4. OneReader' /\ WholeLine'
    BY <1>0, <2>1, <2>2, <2>3 DEF OneReader, WholeLine, Busy, Alone
  <2>5. CopiedLine'
    BY <1>0, <2>2, <2>3 DEF CopiedLine, Copied, Busy, Alone
  <2> QED BY <1>2, <2>4, <2>5
<1> QED BY <1>2, <1>3, <1>4, <1>5, <1>6, <1>7 DEF Reader

LEMMA LineNext ==
  ASSUME PatientUser, LineInv, [Next]_vars
  PROVE  LineInv'
<1>0. /\ TypeOK' /\ OneReader /\ WholeLine /\ CopiedLine /\ NoGap
  BY TypeNext DEF LineInv
<1>1. CASE Key
  BY <1>0, <1>1, KeyKeeps DEF LineInv
<1>2. CASE schedule
  BY <1>0, <1>2, ReadersKept, LinesKept DEF LineInv, schedule
<1>3. ASSUME NEW t \in Term, Reader(t)
      PROVE  LineInv'
  BY <1>0, <1>3, ReaderKeeps DEF LineInv
<1>4. CASE UNCHANGED vars
  BY <1>0, <1>4, ReadersKept, LinesKept DEF LineInv, vars
<1> QED BY <1>1, <1>2, <1>3, <1>4 DEF Next

-----------------------------------------------------------------------------
(* Every step of the line discipline is a step of LineEditor. *)

LEMMA TextIsPrefix ==
  ASSUME NEW b \in [Index -> Cell], NEW n \in 0 .. INPUT_SIZE, Holds(b, n)
  PROVE  Text(b) = Prefix(b, n)
<1> DEFINE End(m) == /\ \A i \in Index : i < m => b[i] # NUL
                     /\ m = INPUT_SIZE \/ b[m] = NUL
<1>1. End(n)
  BY IndexType DEF Holds
<1>2. ASSUME NEW m \in 0 .. INPUT_SIZE, End(m)
      PROVE  m = n
  BY <1>2, IndexType DEF Holds
<1>3. (CHOOSE m \in 0 .. INPUT_SIZE : End(m)) = n
  <2> HIDE DEF End
  <2> QED BY <1>1, <1>2
<1> QED BY <1>3 DEF Text

LEMMA PrefixEmpty == ASSUME NEW b PROVE Prefix(b, 0) = <<>>
  BY DEF Prefix

\* The lines of the terminals that a step does not touch.
LEMMA TypedOthers ==
  ASSUME NEW t \in Term, disp_terminal' = disp_terminal,
         input_count'[t] = input_count[t],
         \/ UNCHANGED <<keyboard_buffer, local_keyboard_buffer>>
         \/ t # disp_terminal /\ UNCHANGED local_keyboard_buffer
  PROVE  TypedLine'[t] = TypedLine[t]
  BY DEF TypedLine, EditBuffer

LEMMA UnreadKept ==
  ASSUME UNCHANGED <<terminal_buffer, terminal_read_flag>>
  PROVE  UnreadLine' = UnreadLine
  BY DEF UnreadLine

LEMMA StoredKept ==
  ASSUME UNCHANGED <<pc, buf>>
  PROVE  StoredLine' = StoredLine
  BY DEF StoredLine

LEMMA TypedKept ==
  ASSUME UNCHANGED keys
  PROVE  TypedLine' = TypedLine
  BY DEF TypedLine, EditBuffer, keys

\* The line on display.
Shown ==
  /\ TypedLine \in [Term -> Seq(Char)]
  /\ disp_terminal \in Term
  /\ TypedLine[disp_terminal] = Prefix(keyboard_buffer, count)
  /\ Len(TypedLine[disp_terminal]) = count
  /\ \A i \in 1 .. count :
       TypedLine[disp_terminal][i] = keyboard_buffer[i - 1]

LEMMA ShownLine == LineInv => Shown
<1> SUFFICES ASSUME LineInv PROVE Shown
  OBVIOUS
<1>0. TypeOK /\ NoGap
  BY DEF LineInv
<1>1. ASSUME NEW t \in Term
      PROVE  /\ Prefix(EditBuffer(t), input_count[t]) \in Seq(Char)
             /\ Len(Prefix(EditBuffer(t), input_count[t])) = input_count[t]
             /\ \A i \in 1 .. input_count[t] :
                  Prefix(EditBuffer(t), input_count[t])[i]
                    = EditBuffer(t)[i - 1]
  <2>1. PICK b : b = EditBuffer(t)
    OBVIOUS
  <2>2. PICK n : n = input_count[t]
    OBVIOUS
  <2>3. /\ b \in [Index -> Cell] /\ n \in 0 .. INPUT_SIZE
        /\ \A i \in Index : i < n => b[i] # NUL
    BY <1>0, <2>1, <2>2 DEF TypeOK, EditBuffer, NoGap
  <2> QED BY <2>1, <2>2, <2>3, PrefixSeq
<1>2. /\ disp_terminal \in Term
      /\ EditBuffer(disp_terminal) = keyboard_buffer
  BY <1>0 DEF TypeOK, EditBuffer
<1> QED BY <1>1, <1>2 DEF TypedLine, count, Shown

\* A step that changes the line on display alone.
LEMMA EditsShown ==
  ASSUME Shown, Shown', TypeOK, disp_terminal' = disp_terminal,
         UNCHANGED local_keyboard_buffer,
         NEW n \in Nat, input_count' = [input_count EXCEPT ![d] = n],
         UNCHANGED <<readers, terminal_buffer, terminal_read_flag>>
  PROVE  Lines!Edit(TypedLine'[disp_terminal])
<1>1. ASSUME NEW t \in Term, t # disp_terminal
      PROVE  TypedLine'[t] = TypedLine[t]
  BY <1>1, TypedOthers DEF TypeOK, d
<1>2. TypedLine' = [TypedLine EXCEPT ![disp_terminal] =
                      TypedLine'[disp_terminal]]
  BY <1>1 DEF Shown
<1>3. UnreadLine' = UnreadLine /\ StoredLine' = StoredLine
  BY UnreadKept, StoredKept DEF readers
<1> QED BY <1>2, <1>3 DEF Lines!Edit

LEMMA type_char_inserts ==
  ASSUME LineInv, LineInv', NEW c \in Char, type_char(c)
  PROVE  Lines!Insert(c)
<1>1. TypeOK
  BY DEF LineInv
<1>2. Shown
  BY ShownLine
<1>3. Shown'
  BY ShownLine, PTL
<1>4. /\ count \in Nat /\ count < INPUT_SIZE /\ disp_terminal' = disp_terminal
      /\ input_count' = [input_count EXCEPT ![d] = count + 1]
      /\ keyboard_buffer' = [keyboard_buffer EXCEPT ![count] = c]
      /\ UNCHANGED <<local_keyboard_buffer, readers, terminal_buffer,
                     terminal_read_flag>>
  BY <1>1 DEF TypeOK, type_char, count
<1>5. count' = count + 1
  BY <1>1, <1>4 DEF TypeOK, count, d
<1>6. TypedLine'[disp_terminal] = Append(TypedLine[disp_terminal], c)
  <2> DEFINE s == TypedLine'[disp_terminal]
             t == Append(TypedLine[disp_terminal], c)
  <2>1. s \in Seq(Char) /\ Len(s) = count + 1
    BY <1>3, <1>4, <1>5 DEF Shown
  <2>2. t \in Seq(Char) /\ Len(t) = count + 1
    BY <1>2, <1>4 DEF Shown
  <2>3. ASSUME NEW i \in 1 .. count + 1
        PROVE  s[i] = t[i]
    <3>1. i - 1 \in Index
      BY <1>4, IndexType
    <3>2. s[i] = keyboard_buffer'[i - 1]
      BY <1>3, <1>4, <1>5 DEF Shown
    <3>3. keyboard_buffer'[i - 1] = IF i - 1 = count THEN c
                                    ELSE keyboard_buffer[i - 1]
      BY <1>1, <1>4, <3>1 DEF TypeOK
    <3>4. t[i] = IF i = count + 1 THEN c ELSE TypedLine[disp_terminal][i]
      BY <1>2, <1>4 DEF Shown
    <3> QED BY <1>2, <1>4, <3>2, <3>3, <3>4 DEF Shown
  <2> HIDE DEF s, t
  <2>4. s = t
    BY <2>1, <2>2, <2>3, SeqIs
  <2> QED BY <2>4 DEF s, t
<1>7. Lines!Edit(TypedLine'[disp_terminal])
  <2>1. PICK n \in Nat : n = count + 1
    BY <1>4
  <2> QED BY <1>1, <1>2, <1>3, <1>4, <2>1, EditsShown
<1>8. Lines!Edit(Append(TypedLine[disp_terminal], c))
  BY <1>6, <1>7, Zenon
<1> QED BY <1>2, <1>4, <1>8 DEF Lines!Insert, Shown

LEMMA backspace_erases ==
  ASSUME LineInv, LineInv', backspace_pressed
  PROVE  Lines!Erase
<1>1. TypeOK
  BY DEF LineInv
<1>2. Shown
  BY ShownLine
<1>3. Shown'
  BY ShownLine, PTL
<1>4. /\ count \in Nat /\ count > 0 /\ count <= INPUT_SIZE
      /\ disp_terminal' = disp_terminal
      /\ input_count' = [input_count EXCEPT ![d] = count - 1]
      /\ keyboard_buffer' = [keyboard_buffer EXCEPT ![count - 1] = NUL]
      /\ UNCHANGED <<local_keyboard_buffer, readers, terminal_buffer,
                     terminal_read_flag>>
  BY <1>1 DEF TypeOK, backspace_pressed, count
<1>5. count' = count - 1
  BY <1>1, <1>4 DEF TypeOK, count, d
<1> DEFINE l == TypedLine[disp_terminal]
<1>6. TypedLine'[disp_terminal] = SubSeq(l, 1, Len(l) - 1)
  <2> DEFINE s == TypedLine'[disp_terminal]
             t == SubSeq(l, 1, Len(l) - 1)
  <2>1. s \in Seq(Char) /\ Len(s) = count - 1
    BY <1>3, <1>4, <1>5 DEF Shown
  <2>2. /\ t \in Seq(Char) /\ Len(t) = count - 1
        /\ \A i \in 1 .. count - 1 : t[i] = l[i]
    BY <1>2, <1>4 DEF Shown
  <2>3. ASSUME NEW i \in 1 .. count - 1
        PROVE  s[i] = t[i]
    <3>1. i - 1 \in Index /\ i - 1 # count - 1
      BY <1>4, IndexType
    <3>2. s[i] = keyboard_buffer'[i - 1]
      BY <1>3, <1>4, <1>5 DEF Shown
    <3>3. keyboard_buffer'[i - 1] = keyboard_buffer[i - 1]
      BY <1>1, <1>4, <3>1 DEF TypeOK
    <3> QED BY <1>2, <1>4, <2>2, <3>2, <3>3 DEF Shown
  <2> HIDE DEF s, t
  <2>4. s = t
    BY <2>1, <2>2, <2>3, SeqIs
  <2> QED BY <2>4 DEF s, t
<1>7. Lines!Edit(TypedLine'[disp_terminal])
  <2>1. PICK n \in Nat : n = count - 1
    BY <1>4
  <2> QED BY <1>1, <1>2, <1>3, <1>4, <2>1, EditsShown
<1>8. Lines!Edit(SubSeq(l, 1, Len(l) - 1))
  BY <1>6, <1>7, Zenon
<1>9. l # <<>>
  BY <1>2, <1>4 DEF Shown
<1> QED BY <1>8, <1>9 DEF Lines!Erase

LEMMA clear_wipes ==
  ASSUME LineInv, LineInv', clear_pressed
  PROVE  Lines!Wipe
<1>1. TypeOK
  BY DEF LineInv
<1>2. Shown
  BY ShownLine
<1>3. Shown'
  BY ShownLine, PTL
<1>4. /\ disp_terminal' = disp_terminal /\ 0 \in Nat
      /\ input_count' = [input_count EXCEPT ![d] = 0]
      /\ UNCHANGED <<local_keyboard_buffer, readers, terminal_buffer,
                     terminal_read_flag>>
  BY DEF clear_pressed
<1>5. count' = 0
  BY <1>1, <1>4 DEF TypeOK, count, d
<1>6. TypedLine'[disp_terminal] = <<>>
  BY <1>3, <1>4, <1>5, PrefixEmpty DEF Shown
<1>7. Lines!Edit(TypedLine'[disp_terminal])
  BY <1>1, <1>2, <1>3, <1>4, EditsShown
<1> QED BY <1>6, <1>7, Zenon DEF Lines!Wipe

LEMMA switch_shows ==
  ASSUME LineInv, NEW n \in Term, switch_terminal(n)
  PROVE  Lines!Show(n)
<1>1. TypeOK
  BY DEF LineInv
<1>2. ASSUME NEW t \in Term
      PROVE  EditBuffer(t)' = EditBuffer(t)
  BY <1>1 DEF switch_terminal, EditBuffer, TypeOK
<1>3. TypedLine' = TypedLine
  BY <1>2 DEF TypedLine, switch_terminal
<1>4. UnreadLine' = UnreadLine /\ StoredLine' = StoredLine
  BY UnreadKept, StoredKept DEF switch_terminal, readers
<1> QED BY <1>3, <1>4 DEF Lines!Show, switch_terminal

LEMMA enter_completes ==
  ASSUME LineInv, LineInv', PatientUser, enter_pressed
  PROVE  Lines!Complete
<1>1. TypeOK /\ TypeOK' /\ NothingUnread /\ OneReader /\ NoGap
  BY DEF LineInv, enter_pressed
<1>2. Shown
  BY ShownLine
<1>3. Shown'
  BY ShownLine, PTL
<1>4. /\ disp_terminal' = disp_terminal /\ disp_terminal \in Term
      /\ input_count' = [input_count EXCEPT ![d] = 0]
      /\ terminal_read_flag' = [terminal_read_flag EXCEPT ![d] = 1]
      /\ terminal_buffer' =
           [i \in Index |-> IF i < count THEN keyboard_buffer[i]
                                         ELSE terminal_buffer[i]]
      /\ UNCHANGED <<local_keyboard_buffer, readers>>
  BY <1>1 DEF enter_pressed, TypeOK
<1>5. terminal_buffer = Empty /\ \A t \in Term : terminal_read_flag[t] = 0
  BY <1>1 DEF NothingUnread, OneReader, Busy
<1>6. \A t \in Term : terminal_read_flag'[t] = IF t = d THEN 1 ELSE 0
  BY <1>1, <1>4, <1>5 DEF TypeOK, d
<1>7. Text(terminal_buffer') = TypedLine[disp_terminal]
  <2>1. PICK b : b = terminal_buffer'
    OBVIOUS
  <2>2. PICK n : n = count
    OBVIOUS
  <2>3. /\ b \in [Index -> Cell] /\ n \in 0 .. INPUT_SIZE
        /\ \A i \in Index : i < n => b[i] = keyboard_buffer[i]
    BY <1>1, <1>4, <2>1, <2>2 DEF TypeOK, count
  <2>4. Holds(b, n)
    BY <1>1, <1>4, <1>5, <2>1, <2>2, IndexType
       DEF Holds, NoGap, EditBuffer, TypeOK, count, Empty
  <2>5. Text(b) = Prefix(b, n)
    BY <2>3, <2>4, TextIsPrefix
  <2>6. Prefix(b, n) = Prefix(keyboard_buffer, n)
    <3>1. \A i \in 1 .. n : b[i - 1] = keyboard_buffer[i - 1]
      BY <2>3, IndexType
    <3> QED BY <3>1 DEF Prefix
  <2> QED BY <1>2, <2>1, <2>2, <2>5, <2>6 DEF Shown
<1>8. UnreadLine = [t \in Term |-> <<>>]
  BY <1>5 DEF UnreadLine
<1>9. UnreadLine' = [UnreadLine EXCEPT ![disp_terminal] =
                       <<TypedLine[disp_terminal]>>]
  <2> PICK l : l = TypedLine[disp_terminal]
    OBVIOUS
  <2>1. UnreadLine' = [t \in Term |-> IF t = disp_terminal THEN <<l>>
                                      ELSE <<>>]
    BY <1>6, <1>7 DEF UnreadLine, d
  <2> QED BY <1>8, <2>1
<1>10. TypedLine' = [TypedLine EXCEPT ![disp_terminal] = <<>>]
  <2>1. count' = 0
    BY <1>1, <1>4 DEF TypeOK, count, d
  <2>2. TypedLine'[disp_terminal] = <<>>
    BY <1>3, <1>4, <2>1, PrefixEmpty DEF Shown
  <2>3. ASSUME NEW t \in Term, t # disp_terminal
        PROVE  TypedLine'[t] = TypedLine[t]
    BY <1>1, <1>4, <2>3, TypedOthers DEF TypeOK, d
  <2> QED BY <1>2, <1>3, <2>2, <2>3 DEF Shown
<1>11. StoredLine' = StoredLine
  BY <1>4, StoredKept DEF readers
<1>12. UnreadLine[disp_terminal] = <<>>
  BY <1>4, <1>8
<1> QED BY <1>4, <1>9, <1>10, <1>11, <1>12 DEF Lines!Complete

LEMMA esc_stutters ==
  ASSUME LineInv, PatientUser, esc_pressed
  PROVE  UNCHANGED Lines!vars
<1>1. TypeOK /\ NothingUnread /\ count = 0
  BY DEF LineInv, esc_pressed
<1>2. /\ \A t \in Term : terminal_read_flag[t] = 0
      /\ \A t \in Term : pc[t] # "clear" /\ pc'[t] # "clear"
      /\ terminal_read_flag' = terminal_read_flag
      /\ disp_terminal' = disp_terminal /\ input_count' = input_count
      /\ local_keyboard_buffer' = local_keyboard_buffer
  BY <1>1 DEF esc_pressed, NothingUnread, TypeOK
<1>3. UnreadLine' = UnreadLine
  BY <1>2 DEF UnreadLine
<1>4. StoredLine' = StoredLine
  BY <1>2 DEF StoredLine
<1>5. ASSUME NEW t \in Term
      PROVE  TypedLine'[t] = TypedLine[t]
  <2>1. CASE t = disp_terminal
    <3>1. input_count[t] = 0 /\ input_count'[t] = 0
      BY <1>1, <1>2, <2>1 DEF count
    <3> QED BY <3>1, PrefixEmpty DEF TypedLine, EditBuffer
  <2>2. CASE t # disp_terminal
    BY <1>2, <2>2, TypedOthers
  <2> QED BY <2>1, <2>2
<1>6. TypedLine' = TypedLine
  <2>1. /\ TypedLine = [t \in Term |-> TypedLine[t]]
        /\ TypedLine' = [t \in Term |-> TypedLine'[t]]
    BY DEF TypedLine
  <2> QED BY <1>5, <2>1
<1> QED BY <1>2, <1>3, <1>4, <1>6 DEF Lines!vars

LEMMA read_flag_delivers ==
  ASSUME LineInv, NEW t \in Term, read_flag(t)
  PROVE  \E n \in 1 .. INPUT_SIZE : Lines!Deliver(t, n)
<1>1. TypeOK /\ OneReader /\ WholeLine /\ Copied(t)
  BY DEF LineInv, CopiedLine
<1>2. /\ pc[t] = "copy" /\ scheduled_terminal = t /\ ~Copying(t)
      /\ buf' = [buf EXCEPT ![t] = Append(@, LF)]
      /\ terminal_read_flag' = [terminal_read_flag EXCEPT ![t] = 0]
      /\ pc' = [pc EXCEPT ![t] = "clear"]
      /\ UNCHANGED keys
  BY DEF read_flag, At
<1>3. terminal_read_flag[t] = 1 /\ \A u \in Term \ {t} : ~Busy(u)
  BY <1>1, <1>2 DEF OneReader, Busy
<1>4. \A u \in Term : terminal_read_flag[u] = IF u = t THEN 1 ELSE 0
  BY <1>1, <1>3 DEF Busy, TypeOK
<1>5. \A u \in Term : terminal_read_flag'[u] = 0
  BY <1>1, <1>2, <1>4 DEF TypeOK
<1>6. PICK l : l = Text(terminal_buffer)
  OBVIOUS
<1>7. UnreadLine = [u \in Term |-> IF u = t THEN <<l>> ELSE <<>>]
  BY <1>4, <1>6 DEF UnreadLine
<1>8. UnreadLine' = [UnreadLine EXCEPT ![t] = <<>>]
  <2>1. UnreadLine' = [u \in Term |-> <<>>]
    BY <1>5 DEF UnreadLine
  <2> QED BY <1>7, <2>1
<1>9. PICK n : n = limit[t]
  OBVIOUS
<1>10. PICK b : b = terminal_buffer
  OBVIOUS
<1>11. PICK k : k = Len(buf[t])
  OBVIOUS
<1>12. /\ n \in 1 .. INPUT_SIZE /\ k \in Nat /\ k <= n
       /\ b \in [Index -> Cell]
       /\ buf[t] = Prefix(b, k)
       /\ \A i \in Index : i < k => b[i] # NUL
       /\ k = n \/ b[k] = NUL
  BY <1>1, <1>2, <1>9, <1>10, <1>11 DEF Copied, Copying, TypeOK
<1>13. PICK m \in 0 .. INPUT_SIZE : Holds(b, m)
  BY <1>1, <1>3, <1>10 DEF WholeLine
<1>14. l = Prefix(b, m)
  BY <1>6, <1>10, <1>12, <1>13, TextIsPrefix
<1>15. k \in 0 .. INPUT_SIZE /\ k = IF m <= n THEN m ELSE n
  BY <1>12, <1>13, IndexType DEF Holds
<1>16. Prefix(b, k) = IF Len(l) <= n THEN l ELSE SubSeq(l, 1, n)
  <2>1. /\ l \in Seq(Char) /\ Len(l) = m
        /\ \A i \in 1 .. m : l[i] = b[i - 1]
    BY <1>12, <1>13, <1>14, PrefixSeq DEF Holds
  <2>2. CASE m <= n
    BY <1>14, <1>15, <2>1, <2>2
  <2>3. CASE ~(m <= n)
    <3>1. /\ Prefix(b, k) \in Seq(Char) /\ Len(Prefix(b, k)) = n
          /\ \A i \in 1 .. n : Prefix(b, k)[i] = b[i - 1]
      BY <1>12, <1>15, <2>3, PrefixSeq
    <3>2. /\ SubSeq(l, 1, n) \in Seq(Char) /\ Len(SubSeq(l, 1, n)) = n
          /\ \A i \in 1 .. n : SubSeq(l, 1, n)[i] = l[i]
      BY <1>12, <1>13, <2>1, <2>3
    <3>3. \A i \in 1 .. n : SubSeq(l, 1, n)[i] = b[i - 1]
      BY <1>12, <1>13, <2>1, <2>3, <3>2
    <3>4. Prefix(b, k) = SubSeq(l, 1, n)
      BY <3>1, <3>2, <3>3, SeqIs
    <3> QED BY <2>1, <2>3, <3>4
  <2> QED BY <2>2, <2>3
<1>17. PICK s : s = buf[t]
  OBVIOUS
<1>18. s \in Seq(Char \cup {LF}) /\ s = Prefix(b, k)
  BY <1>1, <1>12, <1>17 DEF TypeOK
<1>19. buf'[t] = Append(s, LF) /\ pc'[t] = "clear"
  BY <1>1, <1>2, <1>17 DEF TypeOK
<1>20. SubSeq(Append(s, LF), 1, Len(Append(s, LF)) - 1) = s
  <2> DEFINE u == SubSeq(Append(s, LF), 1, Len(Append(s, LF)) - 1)
  <2>1. /\ Append(s, LF) \in Seq(Char \cup {LF})
        /\ Len(Append(s, LF)) = Len(s) + 1
        /\ \A i \in 1 .. Len(s) : Append(s, LF)[i] = s[i]
    BY <1>18
  <2>2. /\ u \in Seq(Char \cup {LF}) /\ Len(u) = Len(s)
        /\ \A i \in 1 .. Len(s) : u[i] = s[i]
    BY <1>18, <2>1
  <2> HIDE DEF u
  <2>3. u = s
    BY <1>18, <2>2, SeqIs
  <2> QED BY <2>3 DEF u
<1>21. StoredLine' = [StoredLine EXCEPT ![t] = <<s>>]
  <2>1. \A u \in Term \ {t} : pc'[u] = pc[u] /\ buf'[u] = buf[u]
    BY <1>1, <1>2 DEF TypeOK
  <2>2. StoredLine'[t] = <<s>>
    BY <1>19, <1>20 DEF StoredLine
  <2>3. \A u \in Term \ {t} : StoredLine'[u] = StoredLine[u]
    BY <2>1 DEF StoredLine
  <2>4. /\ StoredLine = [u \in Term |-> StoredLine[u]]
        /\ StoredLine' = [u \in Term |-> StoredLine'[u]]
    BY DEF StoredLine
  <2> QED BY <2>2, <2>3, <2>4
<1>22. UnreadLine[t] # <<>> /\ UnreadLine[t][1] = l
  BY <1>7
<1>23. TypedLine' = TypedLine /\ disp_terminal' = disp_terminal
  BY <1>2, TypedKept DEF keys
<1>24. s = IF Len(l) <= n THEN l ELSE SubSeq(l, 1, n)
  BY <1>16, <1>18
<1>25. Lines!Deliver(t, n)
  BY <1>8, <1>21, <1>22, <1>23, <1>24 DEF Lines!Deliver
<1> QED BY <1>12, <1>25

LEMMA read_clear_returns ==
  ASSUME LineInv, NEW t \in Term, read_clear(t)
  PROVE  Lines!Return(t)
<1>1. TypeOK /\ OneReader
  BY DEF LineInv
<1>2. /\ pc[t] = "clear" /\ pc' = [pc EXCEPT ![t] = "idle"]
      /\ buf' = [buf EXCEPT ![t] = <<>>]
      /\ UNCHANGED <<keys, terminal_read_flag>>
  BY DEF read_clear, At
<1>3. \A u \in Term : terminal_read_flag[u] = 0
  <2>1. \A u \in Term \ {t} : ~Busy(u)
    BY <1>1, <1>2 DEF OneReader, Busy
  <2> QED BY <1>1, <1>2, <2>1 DEF OneReader, Busy, TypeOK
<1>4. UnreadLine' = UnreadLine
  BY <1>2, <1>3 DEF UnreadLine
<1>5. StoredLine' = [StoredLine EXCEPT ![t] = <<>>]
  <2>1. \A u \in Term \ {t} : pc'[u] = pc[u] /\ buf'[u] = buf[u]
    BY <1>1, <1>2 DEF TypeOK
  <2>2. StoredLine'[t] = <<>>
    BY <1>1, <1>2 DEF StoredLine, TypeOK
  <2>3. \A u \in Term \ {t} : StoredLine'[u] = StoredLine[u]
    BY <2>1 DEF StoredLine
  <2>4. /\ StoredLine = [u \in Term |-> StoredLine[u]]
        /\ StoredLine' = [u \in Term |-> StoredLine'[u]]
    BY DEF StoredLine
  <2> QED BY <2>2, <2>3, <2>4
<1>6. TypedLine' = TypedLine /\ disp_terminal' = disp_terminal
  BY <1>2, TypedKept DEF keys
<1> QED BY <1>4, <1>5, <1>6 DEF Lines!Return

\* The steps of terminal_read before the line is stored.
LEMMA read_stutters ==
  ASSUME LineInv, NEW t \in Term,
         \/ \E nbytes \in Nbytes : read_call(t, nbytes)
         \/ read_wait(t) \/ read_copy(t)
  PROVE  UNCHANGED Lines!vars
<1>1. TypeOK
  BY DEF LineInv
<1>2. UNCHANGED <<keys, terminal_buffer, terminal_read_flag>>
  BY DEF read_call, read_wait, read_copy
<1>3. \A u \in Term : /\ pc'[u] = "clear" <=> pc[u] = "clear"
                      /\ pc[u] = "clear" => buf'[u] = buf[u]
  BY <1>1 DEF read_call, read_wait, read_copy, At, TypeOK
<1>4. StoredLine' = StoredLine
  BY <1>3 DEF StoredLine
<1>5. UnreadLine' = UnreadLine /\ TypedLine' = TypedLine
  BY <1>2, UnreadKept, TypedKept
<1> QED BY <1>2, <1>4, <1>5 DEF Lines!vars, keys

LEMMA LinesNext ==
  ASSUME PatientUser, LineInv, LineInv', [Next]_vars
  PROVE  [Lines!Next]_(Lines!vars)
<1>1. ASSUME NEW c \in Char, type_char(c)
      PROVE  Lines!Next
  BY <1>1, type_char_inserts DEF Lines!Next
<1>2. CASE backspace_pressed
  BY <1>2, backspace_erases DEF Lines!Next
<1>3. CASE clear_pressed
  BY <1>3, clear_wipes DEF Lines!Next
<1>4. CASE enter_pressed
  BY <1>4, enter_completes DEF Lines!Next
<1>5. CASE esc_pressed
  BY <1>5, esc_stutters
<1>6. ASSUME NEW n \in Term, switch_terminal(n)
      PROVE  Lines!Next
  BY <1>6, switch_shows DEF Lines!Next
<1>7. CASE schedule \/ UNCHANGED vars
  <2>1. UNCHANGED <<keys, readers, terminal_buffer, terminal_read_flag>>
    BY <1>7 DEF schedule, vars
  <2> QED BY <2>1, UnreadKept, TypedKept, StoredKept
          DEF Lines!vars, keys, readers
<1>8. ASSUME NEW t \in Term, Reader(t)
      PROVE  [Lines!Next]_(Lines!vars)
  <2>1. CASE \/ \E nbytes \in Nbytes : read_call(t, nbytes)
             \/ read_wait(t) \/ read_copy(t)
    BY <2>1, read_stutters
  <2>2. CASE read_flag(t)
    BY <2>2, read_flag_delivers DEF Lines!Next
  <2>3. CASE read_clear(t)
    BY <2>3, read_clear_returns DEF Lines!Next
  <2> QED BY <1>8, <2>1, <2>2, <2>3 DEF Reader
<1> QED BY <1>1, <1>2, <1>3, <1>4, <1>5, <1>6, <1>7, <1>8 DEF Next, Key

LEMMA LinesInit == Init => Lines!Init
<1> SUFFICES ASSUME Init PROVE Lines!Init
  OBVIOUS
<1>1. disp_terminal \in Term
  BY IndexType DEF Init, terminal_init
<1>2. TypedLine = [t \in Term |-> <<>>]
  BY DEF Init, terminal_init, TypedLine, Prefix, EditBuffer
<1>3. UnreadLine = [t \in Term |-> <<>>] /\ StoredLine = [t \in Term |-> <<>>]
  BY DEF Init, terminal_init, UnreadLine, StoredLine
<1> QED BY <1>1, <1>2, <1>3 DEF Lines!Init

\* For any number of terminals, any size of the buffers and any sizes asked
\* for: when Enter, and Esc on an empty line, come only when no line is unread,
\* the keyboard handler and terminal_read implement LineEditor: a terminal's
\* line is what was typed on it, and its reader gets that line once.
THEOREM LineDiscipline ==
  ASSUME PatientUser
  PROVE  Spec => ImplementsLineEditor
<1>1. Init => LineInv
  BY LineInit
<1>2. LineInv /\ [Next]_vars => LineInv'
  BY LineNext
<1>3. Init => Lines!Init
  BY LinesInit
<1>4. LineInv /\ LineInv' /\ [Next]_vars => [Lines!Next]_(Lines!vars)
  BY LinesNext
<1> QED BY <1>1, <1>2, <1>3, <1>4, PTL DEF Spec, ImplementsLineEditor,
                                           Lines!Spec
=============================================================================

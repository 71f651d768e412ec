--------------------------- MODULE ProgramsProofs ---------------------------
(***************************************************************************)
(* Proofs about Programs: what cat, ls and syserr show and return, for any *)
(* disk that DiskAssumption allows, any size of the buffers and any number *)
(* of processes.                                                           *)
(*                                                                         *)
(* The inductive invariant Rows says of each process at which row of its   *)
(* program it is: what the program counter, the position of the descriptor *)
(* and what has been written have to do with each other.  A step changes   *)
(* the row of one process; the frame lemmas show that it leaves the others *)
(* and the disk alone.                                                     *)
(***************************************************************************)
EXTENDS Programs, FilesProofs

-----------------------------------------------------------------------------
(* A step of one process leaves the others alone. *)

Fields == {"prog", "arg", "pc", "fd", "out", "status", "loc"}

Shaped ==
  /\ DOMAIN task = Proc /\ \A p \in Proc : DOMAIN task[p] = Fields
  /\ DOMAIN file_array = Proc

\* The tables of the other processes stay.
FileFrame(p) ==
  /\ DOMAIN file_array' = Proc
  /\ \A q \in Proc \ {p} : file_array'[q] = file_array[q]

\* The programs of the other processes stay, and p stays in its program.
TaskFrame(p) ==
  /\ DOMAIN task' = Proc /\ DOMAIN task'[p] = Fields
  /\ \A q \in Proc \ {p} : task'[q] = task[q]
  /\ task'[p].prog = task[p].prog /\ task'[p].arg = task[p].arg

LEMMA CallFrames ==
  ASSUME Shaped, NEW p \in Proc
  PROVE  /\ UNCHANGED vars => FileFrame(p)
         /\ \A name : DoOpen(p, name) => FileFrame(p)
         /\ \A fd : DoClose(p, fd) => FileFrame(p)
         /\ \A fd, n : DoRead(p, fd, n) => FileFrame(p)
         /\ sys_halt(p) => FileFrame(p)
<1>1. UNCHANGED vars => FileFrame(p)
  BY DEF vars, FileFrame, Shaped
<1>2. ASSUME NEW name, DoOpen(p, name) PROVE FileFrame(p)
  <2>1. CASE UNCHANGED vars
    BY <1>1, <2>1
  <2>2. CASE sys_open(p, name)
    BY <2>2 DEF sys_open, FileFrame, Shaped
  <2> QED BY <1>2, <2>1, <2>2 DEF DoOpen
<1>3. ASSUME NEW fd, DoClose(p, fd) PROVE FileFrame(p)
  <2>1. CASE UNCHANGED vars
    BY <1>1, <2>1
  <2>2. CASE sys_close(p, fd)
    BY <2>2 DEF sys_close, FileFrame, Shaped
  <2> QED BY <1>3, <2>1, <2>2 DEF DoClose
<1>4. ASSUME NEW fd, NEW n, DoRead(p, fd, n) PROVE FileFrame(p)
  <2>1. CASE UNCHANGED vars
    BY <1>1, <2>1
  <2>2. CASE dir_read(p, fd, n)
    BY <2>2 DEF dir_read, FileFrame, Shaped
  <2>3. CASE file_read(p, fd, n)
    BY <2>3 DEF file_read, FileFrame, Shaped
  <2> QED BY <1>4, <2>1, <2>2, <2>3 DEF DoRead
<1>5. sys_halt(p) => FileFrame(p)
  BY DEF sys_halt, FileFrame, Shaped
<1> QED BY <1>1, <1>2, <1>3, <1>4, <1>5

LEMMA ReturnFrame ==
  ASSUME Shaped, NEW p \in Proc, NEW status, Return(p, status)
  PROVE  TaskFrame(p)
  BY DEF Return, TaskFrame, Shaped, Fields

\* A call of syserr.
LEMMA CallFrame ==
  ASSUME Shaped, NEW p \in Proc, NEW call, DoCall(p, call)
  PROVE  FileFrame(p)
  BY CallFrames DEF DoCall

\* The steps that change parts of loc.
grep_read_moves(p, out, data, last, pc) ==
  task' = [task EXCEPT ![p].out = out, ![p].loc.data = data,
                       ![p].loc.last = last, ![p].pc = pc]

LEMMA grep_read_parts ==
  ASSUME Shaped, NEW p \in Proc, NEW out, NEW data, NEW last, NEW pc,
         grep_read_moves(p, out, data, last, pc)
  PROVE  TaskFrame(p)
<1>1. DOMAIN task' = Proc /\ DOMAIN task'[p] = Fields
  BY DEF Shaped, grep_read_moves
<1>2. \A q \in Proc \ {p} : task'[q] = task[q]
  BY DEF Shaped, grep_read_moves
<1>3. task'[p].prog = task[p].prog
  BY DEF Shaped, Fields, grep_read_moves
<1>4. task'[p].arg = task[p].arg
  BY DEF Shaped, Fields, grep_read_moves
<1> QED BY <1>1, <1>2, <1>3, <1>4 DEF TaskFrame

add_frames_open_moves(p, k, fd, pc) ==
  task' = [task EXCEPT ![p].loc.fd[k] = fd, ![p].pc = pc]

LEMMA add_frames_open_parts ==
  ASSUME Shaped, NEW p \in Proc, NEW k, NEW fd, NEW pc,
         add_frames_open_moves(p, k, fd, pc)
  PROVE  TaskFrame(p)
<1>1. DOMAIN task' = Proc /\ DOMAIN task'[p] = Fields
  BY DEF Shaped, add_frames_open_moves
<1>2. \A q \in Proc \ {p} : task'[q] = task[q]
  BY DEF Shaped, add_frames_open_moves
<1>3. task'[p].prog = task[p].prog
  BY DEF Shaped, Fields, add_frames_open_moves
<1>4. task'[p].arg = task[p].arg
  BY DEF Shaped, Fields, add_frames_open_moves
<1> QED BY <1>1, <1>2, <1>3, <1>4 DEF TaskFrame

add_frames_read0_moves(p, c, eof, pc) ==
  task' = [task EXCEPT ![p].loc.c[1] = c, ![p].loc.eof[1] = eof,
                       ![p].pc = pc]

LEMMA add_frames_read0_parts ==
  ASSUME Shaped, NEW p \in Proc, NEW c, NEW eof, NEW pc,
         add_frames_read0_moves(p, c, eof, pc)
  PROVE  TaskFrame(p)
<1>1. DOMAIN task' = Proc /\ DOMAIN task'[p] = Fields
  BY DEF Shaped, add_frames_read0_moves
<1>2. \A q \in Proc \ {p} : task'[q] = task[q]
  BY DEF Shaped, add_frames_read0_moves
<1>3. task'[p].prog = task[p].prog
  BY DEF Shaped, Fields, add_frames_read0_moves
<1>4. task'[p].arg = task[p].arg
  BY DEF Shaped, Fields, add_frames_read0_moves
<1> QED BY <1>1, <1>2, <1>3, <1>4 DEF TaskFrame

add_frames_read1_moves(p, c, eof, col, out, pc) ==
  task' = [task EXCEPT ![p].loc.c[2] = c, ![p].loc.eof[2] = eof,
                       ![p].loc.col = col, ![p].out = out,
                       ![p].pc = pc]

LEMMA add_frames_read1_parts ==
  ASSUME Shaped, NEW p \in Proc, NEW c, NEW eof, NEW col, NEW out, NEW pc,
         add_frames_read1_moves(p, c, eof, col, out, pc)
  PROVE  TaskFrame(p)
<1>1. DOMAIN task' = Proc /\ DOMAIN task'[p] = Fields
  BY DEF Shaped, add_frames_read1_moves
<1>2. \A q \in Proc \ {p} : task'[q] = task[q]
  BY DEF Shaped, add_frames_read1_moves
<1>3. task'[p].prog = task[p].prog
  BY DEF Shaped, Fields, add_frames_read1_moves
<1>4. task'[p].arg = task[p].arg
  BY DEF Shaped, Fields, add_frames_read1_moves
<1> QED BY <1>1, <1>2, <1>3, <1>4 DEF TaskFrame

add_frames_end_moves(p, k, c, row, pc) ==
  task' = [task EXCEPT ![p].loc.c[k] = c, ![p].loc.row = row,
                       ![p].loc.col = 0, ![p].pc = pc]

LEMMA add_frames_end_parts ==
  ASSUME Shaped, NEW p \in Proc, NEW k, NEW c, NEW row, NEW pc,
         add_frames_end_moves(p, k, c, row, pc)
  PROVE  TaskFrame(p)
<1>1. DOMAIN task' = Proc /\ DOMAIN task'[p] = Fields
  BY DEF Shaped, add_frames_end_moves
<1>2. \A q \in Proc \ {p} : task'[q] = task[q]
  BY DEF Shaped, add_frames_end_moves
<1>3. task'[p].prog = task[p].prog
  BY DEF Shaped, Fields, add_frames_end_moves
<1>4. task'[p].arg = task[p].arg
  BY DEF Shaped, Fields, add_frames_end_moves
<1> QED BY <1>1, <1>2, <1>3, <1>4 DEF TaskFrame

Scans(p, r, data, scan) ==
  task' = [task EXCEPT
             ![p].out = @ \o scan.out,
             ![p].loc.data = Scanned(data, task[p].loc.last + r.ret,
                                     scan.from),
             ![p].loc.last = @ + r.ret - scan.from,
             ![p].pc = IF r.ret = 0 THEN "close" ELSE "read"]

LEMMA grep_read_case ==
  ASSUME NEW p, grep_read(p)
  PROVE  \/ Return(p, 3)
         \/ \E out, data, last, pc : grep_read_moves(p, out, data, last, pc)
<1> SUFFICES ASSUME ~Return(p, 3)
             PROVE  \E out, data, last, pc :
                      grep_read_moves(p, out, data, last, pc)
  OBVIOUS
<1> DEFINE l == task[p].loc
<1>1. PICK r : IF r.ret = -1 THEN Return(p, 3)
               ELSE \E data \in {Stored(l.data, l.last, r.data)} :
                    \E scan \in {ScanLines(data, l.last + r.ret, r.ret,
                                           task[p].arg, l.fname)} :
                      Scans(p, r, data, scan)
  BY Zenon DEF grep_read, Scans
<1>2. PICK data, scan : Scans(p, r, data, scan)
  BY <1>1, Zenon
<1> QED BY <1>2, Zenon DEF grep_read_moves, Scans

LEMMA add_frames_read0_case ==
  ASSUME NEW p, add_frames_read0(p)
  PROVE  \/ task' = [task EXCEPT ![p].pc = "read1"]
         \/ \E c, eof, pc : add_frames_read0_moves(p, c, eof, pc)
<1> DEFINE l == task[p].loc
           r == ReadResult(p, l.fd[1], 1)
<1>1. \/ task' = [task EXCEPT ![p].pc = "read1"]
      \/ add_frames_read0_moves(p, NextChar(l.c[1], r),
                                l.eof[1] \/ r.ret = 0, "read1")
  BY Zenon DEF add_frames_read0, add_frames_read0_moves
<1> QED BY <1>1

LEMMA add_frames_read1_case ==
  ASSUME NEW p, add_frames_read1(p)
  PROVE  \E c, eof, col, out, pc :
           add_frames_read1_moves(p, c, eof, col, out, pc)
<1> DEFINE l    == task[p].loc
           r    == ReadResult(p, l.fd[2], 1)
           read == l.c[2] # LF
           c0   == l.c[1]
           c1   == IF read THEN NextChar(l.c[2], r) ELSE LF
           ends == c0 = LF /\ c1 = LF
           eof  == l.eof[2] \/ (read /\ r.ret = 0)
           col  == IF ends THEN l.col ELSE l.col + 1
           out  == IF Blank(c0) /\ Blank(c1) THEN task[p].out
                   ELSE Append(task[p].out, Blink(l, c0, c1))
<1>1. add_frames_read1_moves(p, c1, eof, col, out,
                             IF ends THEN "end0" ELSE "read0")
  BY Zenon DEF add_frames_read1, add_frames_read1_moves
<1> QED BY <1>1

\* What a step of process p in program prog leaves alone.
Owned(p, prog) ==
  /\ task[p].prog = prog /\ FileFrame(p) /\ TaskFrame(p)
  /\ dblock' = dblock /\ p \in live

LEMMA cat_frame ==
  ASSUME Shaped, NEW p \in Proc,
         \/ cat_open(p) \/ cat_read(p) \/ cat_write(p)
  PROVE  Owned(p, "cat")
<1>1. CASE cat_open(p)
  <2>1. task[p].prog = "cat" /\ dblock' = dblock /\ p \in live
    BY <1>1 DEF cat_open, At
  <2>2. FileFrame(p)
    BY <1>1, CallFrames DEF cat_open
  <2>3. TaskFrame(p)
    BY <1>1, ReturnFrame DEF cat_open, TaskFrame, Shaped, Fields
  <2> QED BY <2>1, <2>2, <2>3 DEF Owned
<1>2. CASE cat_read(p)
  <2>1. task[p].prog = "cat" /\ dblock' = dblock /\ p \in live
    BY <1>2 DEF cat_read, At
  <2>2. FileFrame(p)
    BY <1>2, CallFrames DEF cat_read
  <2>3. TaskFrame(p)
    BY <1>2, ReturnFrame DEF cat_read, TaskFrame, Shaped, Fields
  <2> QED BY <2>1, <2>2, <2>3 DEF Owned
<1>3. CASE cat_write(p)
  <2>1. task[p].prog = "cat" /\ dblock' = dblock /\ p \in live
    BY <1>3 DEF cat_write, At
  <2>2. FileFrame(p)
    BY <1>3, CallFrames DEF cat_write
  <2>3. TaskFrame(p)
    BY <1>3, ReturnFrame DEF cat_write, TaskFrame, Shaped, Fields
  <2> QED BY <2>1, <2>2, <2>3 DEF Owned
<1> QED BY <1>1, <1>2, <1>3

LEMMA ls_frame ==
  ASSUME Shaped, NEW p \in Proc,
         \/ open_dir(p, "ls") \/ ls_read(p) \/ ls_write(p)
  PROVE  Owned(p, "ls")
<1>1. CASE open_dir(p, "ls")
  <2>1. task[p].prog = "ls" /\ dblock' = dblock /\ p \in live
    BY <1>1 DEF open_dir, At
  <2>2. FileFrame(p)
    BY <1>1, CallFrames DEF open_dir
  <2>3. TaskFrame(p)
    BY <1>1, ReturnFrame DEF open_dir, TaskFrame, Shaped, Fields
  <2> QED BY <2>1, <2>2, <2>3 DEF Owned
<1>2. CASE ls_read(p)
  <2>1. task[p].prog = "ls" /\ dblock' = dblock /\ p \in live
    BY <1>2 DEF ls_read, At
  <2>2. FileFrame(p)
    BY <1>2, CallFrames DEF ls_read
  <2>3. TaskFrame(p)
    BY <1>2, ReturnFrame DEF ls_read, TaskFrame, Shaped, Fields
  <2> QED BY <2>1, <2>2, <2>3 DEF Owned
<1>3. CASE ls_write(p)
  <2>1. task[p].prog = "ls" /\ dblock' = dblock /\ p \in live
    BY <1>3 DEF ls_write, At
  <2>2. FileFrame(p)
    BY <1>3, CallFrames DEF ls_write
  <2>3. TaskFrame(p)
    BY <1>3, ReturnFrame DEF ls_write, TaskFrame, Shaped, Fields
  <2> QED BY <2>1, <2>2, <2>3 DEF Owned
<1> QED BY <1>1, <1>2, <1>3

LEMMA grep_frame ==
  ASSUME Shaped, NEW p \in Proc,
         \/ open_dir(p, "grep") \/ grep_next(p) \/ grep_open(p)
         \/ grep_read(p) \/ grep_close(p)
  PROVE  Owned(p, "grep")
<1>1. CASE open_dir(p, "grep")
  <2>1. task[p].prog = "grep" /\ dblock' = dblock /\ p \in live
    BY <1>1 DEF open_dir, At
  <2>2. FileFrame(p)
    BY <1>1, CallFrames DEF open_dir
  <2>3. TaskFrame(p)
    BY <1>1, ReturnFrame DEF open_dir, TaskFrame, Shaped, Fields
  <2> QED BY <2>1, <2>2, <2>3 DEF Owned
<1>2. CASE grep_next(p)
  <2>1. task[p].prog = "grep" /\ dblock' = dblock /\ p \in live
    BY <1>2 DEF grep_next, At
  <2>2. FileFrame(p)
    BY <1>2, CallFrames DEF grep_next
  <2>3. TaskFrame(p)
    BY <1>2, ReturnFrame DEF grep_next, TaskFrame, Shaped, Fields
  <2> QED BY <2>1, <2>2, <2>3 DEF Owned
<1>3. CASE grep_open(p)
  <2>1. task[p].prog = "grep" /\ dblock' = dblock /\ p \in live
    BY <1>3 DEF grep_open, At
  <2>2. FileFrame(p)
    BY <1>3, CallFrames DEF grep_open
  <2>3. TaskFrame(p)
    BY <1>3, ReturnFrame DEF grep_open, TaskFrame, Shaped, Fields
  <2> QED BY <2>1, <2>2, <2>3 DEF Owned
<1>4. CASE grep_read(p)
  <2>1. task[p].prog = "grep" /\ dblock' = dblock /\ p \in live
    BY <1>4 DEF grep_read, At
  <2>2. FileFrame(p)
    BY <1>4, CallFrames DEF grep_read
  <2>3. TaskFrame(p)
    <3>1. \/ Return(p, 3)
          \/ \E out, data, last, pc : grep_read_moves(p, out, data, last, pc)
      BY <1>4, grep_read_case
    <3> QED BY <3>1, ReturnFrame, grep_read_parts
  <2> QED BY <2>1, <2>2, <2>3 DEF Owned
<1>5. CASE grep_close(p)
  <2>1. task[p].prog = "grep" /\ dblock' = dblock /\ p \in live
    BY <1>5 DEF grep_close, At
  <2>2. FileFrame(p)
    BY <1>5, CallFrames DEF grep_close
  <2>3. TaskFrame(p)
    BY <1>5, ReturnFrame DEF grep_close, TaskFrame, Shaped, Fields
  <2> QED BY <2>1, <2>2, <2>3 DEF Owned
<1> QED BY <1>1, <1>2, <1>3, <1>4, <1>5

LEMMA syserr_frame ==
  ASSUME Shaped, NEW p \in Proc,
         \/ syserr_select(p) \/ syserr_call(p) \/ syserr_verdict(p)
         \/ syserr_end(p)
  PROVE  Owned(p, "syserr")
<1>1. CASE syserr_select(p)
  <2>1. task[p].prog = "syserr" /\ dblock' = dblock /\ p \in live
    BY <1>1 DEF syserr_select, At
  <2>2. FileFrame(p)
    BY <1>1, CallFrames DEF syserr_select
  <2>3. TaskFrame(p)
    BY <1>1, ReturnFrame DEF syserr_select, TaskFrame, Shaped, Fields
  <2> QED BY <2>1, <2>2, <2>3 DEF Owned
<1>2. CASE syserr_call(p)
  <2>1. task[p].prog = "syserr" /\ dblock' = dblock /\ p \in live
    BY <1>2 DEF syserr_call, At
  <2>2. FileFrame(p)
    BY <1>2, CallFrame DEF syserr_call
  <2>3. TaskFrame(p)
    BY <1>2, ReturnFrame DEF syserr_call, TaskFrame, Shaped, Fields
  <2> QED BY <2>1, <2>2, <2>3 DEF Owned
<1>3. CASE syserr_verdict(p)
  <2>1. task[p].prog = "syserr" /\ dblock' = dblock /\ p \in live
    BY <1>3 DEF syserr_verdict, At
  <2>2. FileFrame(p)
    BY <1>3, CallFrames DEF syserr_verdict
  <2>3. TaskFrame(p)
    BY <1>3, ReturnFrame DEF syserr_verdict, TaskFrame, Shaped, Fields
  <2> QED BY <2>1, <2>2, <2>3 DEF Owned
<1>4. CASE syserr_end(p)
  <2>1. task[p].prog = "syserr" /\ dblock' = dblock /\ p \in live
    BY <1>4 DEF syserr_end, At
  <2>2. FileFrame(p)
    BY <1>4, CallFrames DEF syserr_end
  <2>3. TaskFrame(p)
    BY <1>4, ReturnFrame DEF syserr_end, TaskFrame, Shaped, Fields
  <2> QED BY <2>1, <2>2, <2>3 DEF Owned
<1> QED BY <1>1, <1>2, <1>3, <1>4

LEMMA fish_frame ==
  ASSUME Shaped, NEW p \in Proc,
         \/ fish_open(p) \/ add_frames_open(p, 1)
         \/ add_frames_open(p, 2) \/ add_frames_read0(p)
         \/ add_frames_read1(p) \/ add_frames_end(p, 1)
         \/ add_frames_end(p, 2) \/ fish_close(p)
  PROVE  Owned(p, "fish")
<1>1. CASE fish_open(p)
  <2>1. task[p].prog = "fish" /\ dblock' = dblock /\ p \in live
    BY <1>1 DEF fish_open, At
  <2>2. FileFrame(p)
    BY <1>1, CallFrames DEF fish_open
  <2>3. TaskFrame(p)
    <3>1. CASE Return(p, 255)
      BY <3>1, ReturnFrame
    <3>2. CASE ~Return(p, 255)
      <4>1. \E fd, loc : task' = [task EXCEPT ![p].fd = fd,
                                   ![p].pc = "open0", ![p].loc = loc]
        BY <1>1, <3>2, Zenon DEF fish_open
      <4> QED BY <4>1 DEF TaskFrame, Shaped, Fields
    <3> QED BY <3>1, <3>2
  <2> QED BY <2>1, <2>2, <2>3 DEF Owned
<1>2. CASE add_frames_open(p, 1)
  <2>1. task[p].prog = "fish" /\ dblock' = dblock /\ p \in live
    BY <1>2 DEF add_frames_open, At
  <2>2. FileFrame(p)
    BY <1>2, CallFrames DEF add_frames_open
  <2>3. TaskFrame(p)
    <3>1. \/ Return(p, 255)
          \/ \E fd, pc : add_frames_open_moves(p, 1, fd, pc)
      BY <1>2, Zenon DEF add_frames_open, add_frames_open_moves
    <3> QED BY <3>1, ReturnFrame, add_frames_open_parts
  <2> QED BY <2>1, <2>2, <2>3 DEF Owned
<1>3. CASE add_frames_open(p, 2)
  <2>1. task[p].prog = "fish" /\ dblock' = dblock /\ p \in live
    BY <1>3 DEF add_frames_open, At
  <2>2. FileFrame(p)
    BY <1>3, CallFrames DEF add_frames_open
  <2>3. TaskFrame(p)
    <3>1. \/ Return(p, 255)
          \/ \E fd, pc : add_frames_open_moves(p, 2, fd, pc)
      BY <1>3, Zenon DEF add_frames_open, add_frames_open_moves
    <3> QED BY <3>1, ReturnFrame, add_frames_open_parts
  <2> QED BY <2>1, <2>2, <2>3 DEF Owned
<1>4. CASE add_frames_read0(p)
  <2>1. task[p].prog = "fish" /\ dblock' = dblock /\ p \in live
    BY <1>4 DEF add_frames_read0, At
  <2>2. FileFrame(p)
    BY <1>4, CallFrames DEF add_frames_read0
  <2>3. TaskFrame(p)
    <3>1. \/ task' = [task EXCEPT ![p].pc = "read1"]
          \/ \E c, eof, pc : add_frames_read0_moves(p, c, eof, pc)
      BY <1>4, add_frames_read0_case
    <3>2. CASE task' = [task EXCEPT ![p].pc = "read1"]
      BY <3>2 DEF TaskFrame, Shaped, Fields
    <3> QED BY <3>1, <3>2, add_frames_read0_parts
  <2> QED BY <2>1, <2>2, <2>3 DEF Owned
<1>5. CASE add_frames_read1(p)
  <2>1. task[p].prog = "fish" /\ dblock' = dblock /\ p \in live
    BY <1>5 DEF add_frames_read1, At
  <2>2. FileFrame(p)
    BY <1>5, CallFrames DEF add_frames_read1
  <2>3. TaskFrame(p)
    <3>1. \E c, eof, col, out, pc :
            add_frames_read1_moves(p, c, eof, col, out, pc)
      BY <1>5, add_frames_read1_case
    <3> QED BY <3>1, add_frames_read1_parts
  <2> QED BY <2>1, <2>2, <2>3 DEF Owned
<1>6. CASE add_frames_end(p, 1)
  <2>1. task[p].prog = "fish" /\ dblock' = dblock /\ p \in live
    BY <1>6 DEF add_frames_end, At
  <2>2. FileFrame(p)
    BY <1>6, CallFrames DEF add_frames_end
  <2>3. TaskFrame(p)
    <3>1. \E c, row, pc : add_frames_end_moves(p, 1, c, row, pc)
      BY <1>6, Zenon DEF add_frames_end, add_frames_end_moves
    <3> QED BY <3>1, add_frames_end_parts
  <2> QED BY <2>1, <2>2, <2>3 DEF Owned
<1>7. CASE add_frames_end(p, 2)
  <2>1. task[p].prog = "fish" /\ dblock' = dblock /\ p \in live
    BY <1>7 DEF add_frames_end, At
  <2>2. FileFrame(p)
    BY <1>7, CallFrames DEF add_frames_end
  <2>3. TaskFrame(p)
    <3>1. \E c, row, pc : add_frames_end_moves(p, 2, c, row, pc)
      BY <1>7, Zenon DEF add_frames_end, add_frames_end_moves
    <3> QED BY <3>1, add_frames_end_parts
  <2> QED BY <2>1, <2>2, <2>3 DEF Owned
<1>8. CASE fish_close(p)
  <2>1. task[p].prog = "fish" /\ dblock' = dblock /\ p \in live
    BY <1>8 DEF fish_close, At
  <2>2. FileFrame(p)
    BY <1>8, CallFrames DEF fish_close
  <2>3. TaskFrame(p)
    BY <1>8, ReturnFrame DEF fish_close, TaskFrame, Shaped, Fields
  <2> QED BY <2>1, <2>2, <2>3 DEF Owned
<1> QED BY <1>1, <1>2, <1>3, <1>4, <1>5, <1>6, <1>7, <1>8

\* A step of process p leaves the other processes and the disk alone.
Frame(p) ==
  /\ Shaped' /\ dblock' = dblock
  /\ \A q \in Proc \ {p} : task'[q] = task[q] /\ file_array'[q] = file_array[q]

LEMMA start_frame ==
  ASSUME Shaped, NEW p \in Proc, start(p)
  PROVE  /\ Frame(p) /\ file_array'[p] = Fresh
         /\ \E prog \in may[p] : \E arg \in Args[prog] :
              task'[p] =
                [Idle EXCEPT !.prog = prog, !.arg = arg, !.pc = "main"]
<1>0. PICK prog \in may[p] : \E arg \in Args[prog] :
        task' = [task EXCEPT ![p] =
                   [Idle EXCEPT !.prog = prog, !.arg = arg, !.pc = "main"]]
  BY Zenon DEF start
<1>1. PICK arg \in Args[prog] :
        task' = [task EXCEPT ![p] =
                   [Idle EXCEPT !.prog = prog, !.arg = arg, !.pc = "main"]]
  BY <1>0
<1> DEFINE t == [Idle EXCEPT !.prog = prog, !.arg = arg, !.pc = "main"]
<1>2. DOMAIN t = Fields
  BY DEF Idle, Fields
<1> HIDE DEF t
<1>3. /\ task'[p] = t /\ DOMAIN task' = Proc
      /\ \A q \in Proc \ {p} : task'[q] = task[q]
  BY <1>1 DEF Shaped, t
<1>4. /\ file_array'[p] = Fresh /\ DOMAIN file_array' = Proc
      /\ \A q \in Proc \ {p} : file_array'[q] = file_array[q]
  BY DEF start, sys_execute, Shaped
<1>5. dblock' = dblock
  BY DEF start
<1>6. Shaped'
  BY <1>2, <1>3, <1>4 DEF Shaped
<1> QED BY <1>3, <1>4, <1>5, <1>6 DEF Frame, t

LEMMA halt_frame ==
  ASSUME Shaped, NEW p \in Proc, halt(p)
  PROVE  /\ FileFrame(p) /\ TaskFrame(p) /\ dblock' = dblock
         /\ task'[p] = [task[p] EXCEPT !.pc = "halted"]
<1>1. FileFrame(p)
  BY CallFrames DEF halt
<1>2. TaskFrame(p) /\ task'[p] = [task[p] EXCEPT !.pc = "halted"]
  BY DEF halt, TaskFrame, Shaped, Fields
<1> QED BY <1>1, <1>2 DEF halt

\* A process halts or takes a step of its program.
LEMMA StepOwned ==
  ASSUME Shaped, NEW p \in Proc, Step(p)
  PROVE  /\ FileFrame(p) /\ TaskFrame(p) /\ dblock' = dblock
         /\ \/ halt(p)
            \/ /\ task[p].prog = "cat"
               /\ cat_open(p) \/ cat_read(p) \/ cat_write(p)
            \/ /\ task[p].prog = "ls"
               /\ open_dir(p, "ls") \/ ls_read(p) \/ ls_write(p)
            \/ /\ task[p].prog = "syserr"
               /\ \/ syserr_select(p) \/ syserr_call(p)
                  \/ syserr_verdict(p) \/ syserr_end(p)
            \/ task[p].prog = "grep" \/ task[p].prog = "fish"
  BY halt_frame, cat_frame, ls_frame, grep_frame, syserr_frame, fish_frame
  DEF Step, Owned

LEMMA StepFrame ==
  ASSUME Shaped, NEW p \in Proc, start(p) \/ Step(p)
  PROVE  Frame(p)
<1>1. CASE Step(p)
  <2>1. FileFrame(p) /\ TaskFrame(p) /\ dblock' = dblock
    BY <1>1, StepOwned
  <2> QED BY <2>1 DEF Frame, FileFrame, TaskFrame, Shaped
<1> QED BY <1>1, start_frame

-----------------------------------------------------------------------------
(* The concatenation of sequences. *)

\* The recursive function of FlattenSeq.
Flatten(seqs) ==
  CHOOSE flatten :
    flatten = [i \in 1 .. Len(seqs) |->
                 IF i = 1 THEN seqs[i] ELSE flatten[i - 1] \o seqs[i]]

\* The first k of the sequences, one behind the other.
FlatTo(seqs, k) == IF k = 0 THEN <<>> ELSE Flatten(seqs)[k]

LEMMA FlattenUnfolds ==
  ASSUME NEW seqs
  PROVE  FlattenSeq(seqs) =
           IF Len(seqs) = 0 THEN seqs ELSE Flatten(seqs)[Len(seqs)]
  BY Zenon DEF FlattenSeq, Flatten

LEMMA FlattenExists ==
  ASSUME NEW S, NEW seqs \in Seq(S)
  PROVE  Flatten(seqs) =
           [i \in 1 .. Len(seqs) |->
              IF i = 1 THEN seqs[i] ELSE Flatten(seqs)[i - 1] \o seqs[i]]
<1> DEFINE It(f, i) == IF i = 1 THEN seqs[i] ELSE f[i - 1] \o seqs[i]
           Upto(f, m) == f = [i \in 1 .. m |-> It(f, i)]
           G == {m \in Nat : \E f : Upto(f, m)}
<1>1. ASSUME NEW i \in Nat \ {0}, NEW f, NEW g,
             \A m \in 1 .. i - 1 : f[m] = g[m]
      PROVE  It(f, i) = It(g, i)
  <2>1. CASE i = 1
    BY <2>1
  <2>2. CASE i # 1
    <3>1. f[i - 1] = g[i - 1]
      BY <1>1, <2>2
    <3> QED BY <3>1, Zenon
  <2> QED BY <2>1, <2>2
<1> HIDE DEF It
<1>2. ASSUME NEW m \in Nat, \A k \in 0 .. m - 1 : k \in G
      PROVE  m \in G
  <2> SUFFICES \E f : Upto(f, m)
    OBVIOUS
  <2>1. CASE m = 0
    <3> DEFINE f == [i \in 1 .. 0 |-> 0]
    <3>1. f = [i \in 1 .. 0 |-> It(f, i)]
      OBVIOUS
    <3> QED BY <2>1, <3>1
  <2>2. CASE m > 0
    <3>1. m - 1 \in 0 .. m - 1
      BY <2>2
    <3>2. PICK f : Upto(f, m - 1)
      BY <1>2, <3>1
    <3> DEFINE g == [i \in 1 .. m |->
                       IF i <= m - 1 THEN f[i] ELSE It(f, m)]
    <3>3. \A i \in 1 .. m - 1 : g[i] = f[i]
      BY <3>1
    <3>4. ASSUME NEW i \in 1 .. m PROVE It(g, i) = It(f, i)
      <4> HIDE DEF g
      <4>1. i \in Nat \ {0} /\ \A k \in 1 .. i - 1 : g[k] = f[k]
        BY <3>3
      <4> QED BY <1>1, <4>1
    <3>5. ASSUME NEW i \in 1 .. m PROVE g[i] = It(g, i)
      <4>1. CASE i \in 1 .. m - 1
        <5>1. f[i] = It(f, i)
          BY <3>2, <4>1
        <5> QED BY <3>3, <3>4, <4>1, <5>1
      <4>2. CASE i = m
        BY <3>1, <3>4, <4>2
      <4> QED BY <4>1, <4>2
    <3>6. g = [i \in 1 .. m |-> It(g, i)]
      BY <3>5
    <3> QED BY <3>6
  <2> QED BY <2>1, <2>2
<1>3. G = Nat
  <2> HIDE DEF G
  <2> QED BY <1>2, StrongInduction, G \in SUBSET Nat DEF G
<1>4. \E f : f = [i \in 1 .. Len(seqs) |-> It(f, i)]
  <2>1. Len(seqs) \in Nat
    OBVIOUS
  <2> QED BY <1>3, <2>1
<1> QED BY <1>4, Zenon DEF Flatten, It

\* One more sequence, in a form that needs no theory of sequences.
LEMMA FlatToStep ==
  ASSUME NEW S, NEW seqs \in Seq(Seq(S))
  PROVE  /\ FlatTo(seqs, 0) = <<>>
         /\ \A k \in 0 .. Len(seqs) : FlatTo(seqs, k) \in Seq(S)
         /\ \A k \in 1 .. Len(seqs) :
              Joined(FlatTo(seqs, k - 1), seqs[k], FlatTo(seqs, k))
<1>0. Len(seqs) \in Nat /\ \A i \in 1 .. Len(seqs) : seqs[i] \in Seq(S)
  OBVIOUS
<1> DEFINE F == Flatten(seqs)
<1>1. \A i \in 1 .. Len(seqs) :
        F[i] = IF i = 1 THEN seqs[i] ELSE F[i - 1] \o seqs[i]
  <2>1. F = [i \in 1 .. Len(seqs) |->
               IF i = 1 THEN seqs[i] ELSE F[i - 1] \o seqs[i]]
    BY FlattenExists, Zenon
  <2> HIDE DEF F
  <2> QED BY <2>1, Zenon
<1> HIDE DEF F
<1> DEFINE G == {k \in Nat : k \in 1 .. Len(seqs) =>
                   /\ FlatTo(seqs, k) \in Seq(S)
                   /\ Joined(FlatTo(seqs, k - 1), seqs[k], FlatTo(seqs, k))}
<1>2. ASSUME NEW k \in Nat, \A m \in 0 .. k - 1 : m \in G
      PROVE  k \in G
  <2> SUFFICES ASSUME k \in 1 .. Len(seqs)
               PROVE  /\ FlatTo(seqs, k) \in Seq(S)
                      /\ Joined(FlatTo(seqs, k - 1), seqs[k],
                                FlatTo(seqs, k))
    OBVIOUS
  <2>1. seqs[k] \in Seq(S) /\ FlatTo(seqs, k) = F[k]
    BY <1>0 DEF FlatTo, F
  <2>2. CASE k = 1
    <3>1. FlatTo(seqs, k) = seqs[k] /\ FlatTo(seqs, k - 1) = <<>>
      BY <1>1, <2>1, <2>2 DEF FlatTo
    <3>2. <<>> \o seqs[k] = seqs[k]
      BY <2>1
    <3> QED BY <2>1, <3>1, <3>2 DEF Joined
  <2>3. CASE k # 1
    <3>1. k - 1 \in 1 .. Len(seqs) /\ k - 1 \in 0 .. k - 1 /\ k - 1 # 0
      BY <1>0, <2>3
    <3>2. FlatTo(seqs, k - 1) = F[k - 1] /\ F[k - 1] \in Seq(S)
      BY <1>2, <3>1 DEF FlatTo, F
    <3>3. F[k] = F[k - 1] \o seqs[k]
      BY <1>1, <2>3
    <3>4. F[k - 1] \o seqs[k] \in Seq(S)
      BY <2>1, <3>2, ConcatProperties
    <3> QED BY <2>1, <3>2, <3>3, <3>4, Zenon DEF Joined
  <2> QED BY <2>2, <2>3
<1>3. G = Nat
  <2> HIDE DEF G
  <2> QED BY <1>2, StrongInduction, G \in SUBSET Nat DEF G
<1>4. FlatTo(seqs, 0) = <<>> /\ <<>> \in Seq(S)
  BY DEF FlatTo
<1>5. \A k \in 1 .. Len(seqs) :
        /\ FlatTo(seqs, k) \in Seq(S)
        /\ Joined(FlatTo(seqs, k - 1), seqs[k], FlatTo(seqs, k))
  <2> SUFFICES ASSUME NEW k \in 1 .. Len(seqs)
               PROVE  /\ FlatTo(seqs, k) \in Seq(S)
                      /\ Joined(FlatTo(seqs, k - 1), seqs[k],
                                FlatTo(seqs, k))
    OBVIOUS
  <2>0. k \in Nat
    BY <1>0
  <2> HIDE DEF G
  <2>1. k \in G
    BY <1>3, <2>0, Zenon
  <2> QED BY <2>1, Zenon DEF G
<1>6. \A k \in 0 .. Len(seqs) : FlatTo(seqs, k) \in Seq(S)
  <2> SUFFICES ASSUME NEW k \in 0 .. Len(seqs)
               PROVE  FlatTo(seqs, k) \in Seq(S)
    OBVIOUS
  <2>1. k = 0 \/ k \in 1 .. Len(seqs)
    OBVIOUS
  <2> QED BY <1>4, <1>5, <2>1
<1> QED BY <1>4, <1>5, <1>6

LEMMA FlatToAll ==
  ASSUME NEW S, NEW seqs \in Seq(Seq(S))
  PROVE  FlatTo(seqs, Len(seqs)) = FlattenSeq(seqs)
<1>1. Len(seqs) = 0 => seqs = <<>>
  OBVIOUS
<1> QED BY <1>1, FlattenUnfolds DEF FlatTo

\* A prefix, by its characters.
LEMMA PrefixByPlace ==
  ASSUME NEW S, NEW s \in Seq(S), NEW t \in Seq(S), Len(s) <= Len(t),
         \A i \in 1 .. Len(s) : s[i] = t[i]
  PROVE  IsPrefix(s, t)
<1>1. /\ SubSeq(s, 1, Len(s)) \in Seq(S) /\ Len(SubSeq(s, 1, Len(s))) = Len(s)
      /\ \A i \in 1 .. Len(s) : SubSeq(s, 1, Len(s))[i] = s[i]
  OBVIOUS
<1>2. /\ SubSeq(t, 1, Len(s)) \in Seq(S) /\ Len(SubSeq(t, 1, Len(s))) = Len(s)
      /\ \A i \in 1 .. Len(s) : SubSeq(t, 1, Len(s))[i] = t[i]
  OBVIOUS
<1> QED BY <1>1, <1>2, SeqEqual DEF IsPrefix

\* What has been put together so far is a prefix of the whole.
LEMMA FlatToPrefix ==
  ASSUME NEW S, NEW seqs \in Seq(Seq(S)), NEW k \in 0 .. Len(seqs)
  PROVE  IsPrefix(FlatTo(seqs, k), FlattenSeq(seqs))
<1>0. Len(seqs) \in Nat
  OBVIOUS
<1> DEFINE F(i) == FlatTo(seqs, i)
           Front_(i) == /\ Len(F(k)) <= Len(F(i))
                        /\ \A j \in 1 .. Len(F(k)) : F(k)[j] = F(i)[j]
           G == {m \in Nat : k + m <= Len(seqs) => Front_(k + m)}
<1>1. /\ \A i \in 0 .. Len(seqs) : F(i) \in Seq(S) /\ Len(F(i)) \in Nat
      /\ \A i \in 1 .. Len(seqs) : Joined(F(i - 1), seqs[i], F(i))
  BY FlatToStep
<1>2. \A i \in 1 .. Len(seqs) : seqs[i] \in Seq(S)
  OBVIOUS
<1> HIDE DEF F
<1>3. ASSUME NEW m \in Nat, \A n \in 0 .. m - 1 : n \in G
      PROVE  m \in G
  <2> SUFFICES ASSUME k + m <= Len(seqs) PROVE Front_(k + m)
    OBVIOUS
  <2>1. CASE m = 0
    <3>1. k + m = k /\ k \in 0 .. Len(seqs)
      BY <2>1
    <3> QED BY <1>1, <3>1
  <2>2. CASE m # 0
    <3>1. PICK i \in 1 .. Len(seqs) : i = k + m
      BY <1>0, <2>2
    <3>2. m - 1 \in 0 .. m - 1 /\ k + (m - 1) = i - 1 /\ i - 1 <= Len(seqs)
          /\ i - 1 \in 0 .. Len(seqs) /\ i \in 0 .. Len(seqs)
      BY <1>0, <2>2, <3>1
    <3>3. Front_(i - 1)
      BY <1>3, <3>2
    <3>4. /\ Len(F(i)) = Len(F(i - 1)) + Len(seqs[i])
          /\ \A j \in 1 .. Len(F(i - 1)) : F(i)[j] = F(i - 1)[j]
      <4>1. F(i - 1) \in Seq(S) /\ seqs[i] \in Seq(S)
            /\ F(i) = F(i - 1) \o seqs[i]
        BY <1>1, <1>2, <3>2 DEF Joined
      <4> HIDE DEF Front_
      <4> QED BY <4>1, ConcatProperties
    <3>5. /\ Len(F(i)) \in Nat /\ Len(F(i - 1)) \in Nat
          /\ Len(F(k)) \in Nat /\ Len(seqs[i]) \in Nat
      BY <1>1, <1>2, <3>2
    <3>6. /\ Len(F(k)) <= Len(F(i - 1))
          /\ \A j \in 1 .. Len(F(k)) : F(k)[j] = F(i - 1)[j]
      BY <3>3, Zenon
    <3> HIDE DEF G, Front_
    <3>7. Len(F(k)) <= Len(F(i))
      <4>1. PICK a \in Nat, b \in Nat, c \in Nat, d \in Nat :
              /\ a = Len(F(k)) /\ b = Len(F(i - 1))
              /\ c = Len(F(i)) /\ d = Len(seqs[i])
        BY <3>5, Zenon
      <4>2. c = b + d /\ a <= b
        BY <3>4, <3>6, <4>1, Zenon
      <4>3. a <= c
        BY <4>2
      <4> QED BY <4>1, <4>3, Zenon
    <3>8. \A j \in 1 .. Len(F(k)) : F(k)[j] = F(i)[j]
      <4> SUFFICES ASSUME NEW j \in 1 .. Len(F(k))
                   PROVE  F(k)[j] = F(i)[j]
        OBVIOUS
      <4>1. j \in 1 .. Len(F(i - 1))
        BY <3>5, <3>6
      <4> QED BY <3>4, <3>6, <4>1
    <3>9. Front_(i)
      BY <3>7, <3>8, Zenon DEF Front_
    <3> QED BY <3>1, <3>9
  <2> QED BY <2>1, <2>2
<1>4. G = Nat
  <2> HIDE DEF G
  <2> QED BY <1>3, StrongInduction, G \in SUBSET Nat DEF G
<1>5. Len(seqs) - k \in Nat /\ k + (Len(seqs) - k) = Len(seqs)
  BY <1>0
<1>6. Front_(Len(seqs))
  <2>1. Len(seqs) - k \in G
    BY <1>4, <1>5
  <2>2. k + (Len(seqs) - k) <= Len(seqs)
    BY <1>0, <1>5
  <2>3. Front_(k + (Len(seqs) - k))
    BY <2>1, <2>2, Zenon
  <2> QED BY <1>5, <2>3, Zenon
<1>7. F(k) \in Seq(S) /\ F(Len(seqs)) \in Seq(S)
  BY <1>0, <1>1
<1>8. IsPrefix(F(k), F(Len(seqs)))
  BY <1>6, <1>7, PrefixByPlace
<1> QED BY <1>8, FlatToAll DEF F

-----------------------------------------------------------------------------
(* The directory. *)

Plain == STRING \ {NUL}

LEMMA NamesPlain ==
  /\ num_dentry \in Nat /\ DOMAIN dir_entry = 0 .. num_dentry - 1
  /\ Names \in Seq(Seq(Plain)) /\ Len(Names) = num_dentry
  /\ \A i \in 1 .. num_dentry :
       /\ i - 1 \in DOMAIN dir_entry
       /\ Names[i] = dir_entry[i - 1].file_name
       /\ Names[i] \in Seq(Plain) /\ Len(Names[i]) \in 1 .. MAXCHAR - 1
<1>1. num_dentry \in Nat /\ DOMAIN dir_entry = 0 .. num_dentry - 1
  BY FilesAssumption
<1>2. ASSUME NEW i \in 1 .. num_dentry
      PROVE  /\ i - 1 \in DOMAIN dir_entry
             /\ Names[i] = dir_entry[i - 1].file_name
             /\ Names[i] \in Seq(Plain) /\ Len(Names[i]) \in 1 .. MAXCHAR - 1
  <2>1. PICK j \in DOMAIN dir_entry : j = i - 1
    BY <1>1
  <2>2. PICK s : s = dir_entry[j].file_name
    OBVIOUS
  <2>3. s \in Seq(STRING)
    BY <2>2, FilesAssumption
  <2>4. Len(s) < MAXCHAR /\ MAXCHAR \in Nat
    BY <2>2, FilesAssumption, ProgramsAssumption
  <2>5. s # <<>> /\ \A k \in DOMAIN s : s[k] # NUL
    BY <2>2, DiskAssumption
  <2>6. s \in Seq(Plain)
    <3>1. DOMAIN s = 1 .. Len(s) /\ Len(s) \in Nat
      BY <2>3
    <3>2. \A k \in 1 .. Len(s) : s[k] \in Plain
      BY <2>3, <2>5, <3>1 DEF Plain
    <3>3. s = [k \in 1 .. Len(s) |-> s[k]]
      BY <2>3
    <3> QED BY <3>1, <3>2, <3>3
  <2>7. Len(s) \in 1 .. MAXCHAR - 1
    BY <2>3, <2>4, <2>5
  <2>8. Names[i] = s
    BY <2>1, <2>2 DEF Names
  <2> QED BY <2>1, <2>2, <2>6, <2>7, <2>8
<1>3. Names \in Seq(Seq(Plain)) /\ Len(Names) = num_dentry
  <2>1. Names = [i \in 1 .. num_dentry |-> Names[i]]
    BY DEF Names
  <2> QED BY <1>1, <1>2, <2>1
<1> QED BY <1>1, <1>2, <1>3

LEMMA ShownPlain ==
  ASSUME NEW s \in Seq(Plain)
  PROVE  Shown(s) = s
<1>1. DOMAIN s = 1 .. Len(s) /\ \A k \in DOMAIN s : s[k] # NUL
  BY DEF Plain
<1>2. s = [k \in DOMAIN s |-> s[k]]
  OBVIOUS
<1>3. Shown(s) = [k \in DOMAIN s |-> s[k]]
  BY <1>1 DEF Shown
<1> QED BY <1>2, <1>3, Zenon

\* A descriptor that stands for the directory, at entry k.
DirAt(table, fd, k) ==
  /\ DOMAIN table = Fd /\ fd \in Fd
  /\ table[fd] = [ops |-> "dir", inode |-> 0, file_pos |-> k, flag |-> 1]

\* A read of the directory that has room for a name.
LEMMA DirRead ==
  ASSUME NEW p \in Proc, NEW fd, NEW k \in 0 .. num_dentry,
         DirAt(file_array[p], fd, k), NEW n \in Nat, MAXCHAR <= n
  PROVE  /\ ReadResult(p, fd, n) =
              IF k = num_dentry THEN [ret |-> 0, data |-> <<>>]
              ELSE [ret |-> Len(Names[k + 1]), data |-> Names[k + 1]]
         /\ DoRead(p, fd, n) => dir_read(p, fd, n)
<1>1. ReadOps(p, fd, n) = "dir"
  BY DEF ReadOps, DirAt
<1>2. ReadResult(p, fd, n) = Listed(p, fd, n)
  BY <1>1 DEF ReadResult
<1>3. DoRead(p, fd, n) => dir_read(p, fd, n)
  BY <1>1 DEF DoRead
<1>4. CASE k = num_dentry
  BY <1>2, <1>3, <1>4, NamesPlain DEF Listed, DirAt
<1>5. CASE k # num_dentry
  <2>1. PICK i \in 1 .. num_dentry : i = k + 1
    BY <1>5, NamesPlain
  <2>2. PICK s : s = Names[i]
    OBVIOUS
  <2>3. /\ s = dir_entry[k].file_name /\ Len(s) \in 1 .. MAXCHAR - 1
        /\ MAXCHAR \in Nat
    BY <2>1, <2>2, NamesPlain, FilesAssumption
  <2>4. NameString(dir_entry[k]) = s /\ Cut(s, n) = s
    <3>1. Len(s) # MAXCHAR /\ Len(s) <= n
      BY <2>3
    <3> QED BY <2>3, <3>1 DEF Cut, NameString
  <2>5. Listed(p, fd, n) = [ret |-> Len(s), data |-> s]
    BY <1>5, <2>3, <2>4, NamesPlain DEF Listed, NameLength, DirAt
  <2> QED BY <1>2, <1>3, <1>5, <2>1, <2>2, <2>5
<1> QED BY <1>4, <1>5

LEMMA DirMoves ==
  ASSUME Shaped, NEW p \in Proc, NEW fd, NEW k \in 0 .. num_dentry,
         DirAt(file_array[p], fd, k), NEW n, dir_read(p, fd, n)
  PROVE  k # num_dentry => DirAt(file_array'[p], fd, k + 1)
<1> SUFFICES ASSUME k # num_dentry PROVE DirAt(file_array'[p], fd, k + 1)
  OBVIOUS
<1>1. ~(k >= num_dentry)
  BY NamesPlain
<1>2. file_array[p][fd].file_pos = k
  BY DEF DirAt
<1>3. file_array' = [file_array EXCEPT ![p][fd].file_pos = @ + 1]
  BY <1>1, <1>2 DEF dir_read
<1> QED BY <1>2, <1>3 DEF DirAt, Shaped

-----------------------------------------------------------------------------
(* Opening, in a process that has just begun. *)

LEMMA FreshFds ==
  ASSUME NEW p \in Proc, file_array[p] = Fresh
  PROVE  FreeFds(p) = UserFd /\ FreeFds(p) # {}
<1>1. \A fd \in Fd : Fresh[fd].flag # 1 <=> fd \in UserFd
  BY Constants DEF Fresh, stdin, stdout, NoFile
<1>2. UserFd \subseteq Fd /\ 2 \in UserFd
  BY ProgramsAssumption, Constants DEF UserFd
<1> QED BY <1>1, <1>2 DEF FreeFds

LEMMA FreshOpen ==
  ASSUME Shaped, NEW p \in Proc, file_array[p] = Fresh, NEW name,
         NEW fd, fd = Opened(p, name), fd # -1, DoOpen(p, name)
  PROVE  /\ Matches(name) # {} /\ fd \in UserFd
         /\ DOMAIN file_array'[p] = Fd
         /\ file_array'[p][fd] =
              [Element(read_dentry_by_name(name)) EXCEPT !.flag = 1]
<1>1. FreeFds(p) # {} /\ FreeFds(p) \in SUBSET Nat /\ FreeFds(p) = UserFd
  BY FreshFds, Constants
<1>2. \E g \in FreeFds(p) : \A other \in FreeFds(p) : g <= other
  BY <1>1, LeastNumber
<1>3. fd \in FreeFds(p) /\ Matches(name) # {}
  BY <1>2 DEF Opened
<1>4. fd \in UserFd /\ fd \in Fd
  BY <1>1, <1>3, Constants
<1>5. file_array' = [file_array EXCEPT ![p][fd] =
                       [Element(read_dentry_by_name(name)) EXCEPT !.flag = 1]]
  BY DEF DoOpen, sys_open
<1>6. DOMAIN Fresh = Fd
  BY DEF Fresh
<1> QED BY <1>3, <1>4, <1>5, <1>6 DEF Shaped

LEMMA DirElement ==
  ASSUME NEW e, e.file_type = DIR_FILETYPE
  PROVE  [Element(e) EXCEPT !.flag = 1] =
           [ops |-> "dir", inode |-> 0, file_pos |-> 0, flag |-> 1]
<1>1. e.file_type # RTC_FILETYPE /\ e.file_type # FILE_FILETYPE
  BY DEF RTC_FILETYPE, DIR_FILETYPE, FILE_FILETYPE
<1>2. Element(e) = [NoFile EXCEPT !.ops = "dir"]
  BY <1>1 DEF Element
<1>3. Element(e) = [ops |-> "dir", inode |-> 0, file_pos |-> 0, flag |-> 0]
  BY <1>2 DEF NoFile
<1> QED BY <1>3

LEMMA OpenDot ==
  ASSUME Shaped, NEW p \in Proc, file_array[p] = Fresh,
         NEW fd, fd = Opened(p, Dot), fd # -1, DoOpen(p, Dot)
  PROVE  DirAt(file_array'[p], fd, 0)
<1>1. PICK e : e = read_dentry_by_name(Dot)
  OBVIOUS
<1>2. e.file_type = DIR_FILETYPE
  BY <1>1, DiskAssumption
<1>3. /\ fd \in UserFd /\ DOMAIN file_array'[p] = Fd
      /\ file_array'[p][fd] = [Element(e) EXCEPT !.flag = 1]
  BY <1>1, FreshOpen
<1> QED BY <1>2, <1>3, DirElement, Constants DEF DirAt

-----------------------------------------------------------------------------
(* ls *)

LsLines == [i \in DOMAIN Names |-> Append(Names[i], LF)]

LEMMA LsLinesPlain ==
  /\ LsLines \in Seq(Seq(Plain)) /\ Len(LsLines) = num_dentry
  /\ \A i \in 1 .. num_dentry :
       LsLines[i] = Append(Names[i], LF) /\ LsLines[i] \in Seq(Plain)
<1>1. DOMAIN Names = 1 .. num_dentry
  BY NamesPlain DEF Names
<1>2. LF \in Plain
  BY DiskAssumption DEF Plain
<1>3. ASSUME NEW i \in 1 .. num_dentry
      PROVE  LsLines[i] = Append(Names[i], LF) /\ LsLines[i] \in Seq(Plain)
  <2>1. PICK s \in Seq(Plain) : s = Names[i]
    BY NamesPlain
  <2>2. Append(s, LF) \in Seq(Plain)
    BY <1>2
  <2>3. LsLines[i] = Append(Names[i], LF)
    BY <1>1 DEF LsLines
  <2> QED BY <2>1, <2>2, <2>3
<1>4. LsLines = [i \in 1 .. num_dentry |-> LsLines[i]]
  BY <1>1 DEF LsLines
<1>5. num_dentry \in Nat
  BY NamesPlain
<1>6. LsLines \in Seq(Seq(Plain)) /\ Len(LsLines) = num_dentry
  BY <1>3, <1>4, <1>5
<1> QED BY <1>3, <1>6

\* How far the listing has come: k names are written.
ls_at(t, table, k) ==
  /\ t.out = FlatTo(LsLines, k)
  /\ \/ t.pc = "main" /\ t.status = Running /\ k = 0 /\ table = Fresh
     \/ t.pc = "dir" /\ t.status = Running /\ DirAt(table, t.fd, k)
     \/ /\ t.pc = "write" /\ t.status = Running
        /\ k # num_dentry /\ t.loc = Names[k + 1]
        /\ DirAt(table, t.fd, k + 1)
     \/ t.pc \in {"exit", "halted"} /\ (t.status = 0 => k = num_dentry)

ls_row(t, table) == \E k \in 0 .. num_dentry : ls_at(t, table, k)

\* Two tasks that agree on what ls_at looks at; Return makes such a one.
LEMMA ReturnRow ==
  ASSUME Shaped, NEW p \in Proc, NEW status, Return(p, status)
  PROVE  /\ task'[p].pc = "exit" /\ task'[p].status = status
         /\ task'[p].out = task[p].out /\ task'[p].loc = task[p].loc
  BY DEF Return, Shaped, Fields

LEMMA open_dir_row ==
  ASSUME Shaped, NEW p \in Proc, ls_row(task[p], file_array[p]),
         open_dir(p, "ls")
  PROVE  ls_row(task'[p], file_array'[p])
<1>1. PICK k \in 0 .. num_dentry : ls_at(task[p], file_array[p], k)
  BY DEF ls_row
<1>2. /\ k = 0 /\ file_array[p] = Fresh /\ task[p].status = Running
      /\ task[p].out = FlatTo(LsLines, k)
  BY <1>1 DEF ls_at, open_dir, At
<1>3. PICK fd : fd = Opened(p, Dot)
  OBVIOUS
<1>4. /\ DoOpen(p, Dot)
      /\ IF fd = -1 THEN Return(p, 2)
         ELSE task' = [task EXCEPT ![p].fd = fd, ![p].pc = "dir"]
  BY <1>3 DEF open_dir
<1>5. CASE fd = -1
  <2>1. task'[p].pc = "exit" /\ task'[p].status = 2
        /\ task'[p].out = task[p].out
    BY <1>4, <1>5, ReturnRow
  <2> QED BY <1>2, <2>1 DEF ls_row, ls_at
<1>6. CASE fd # -1
  <2>1. /\ task'[p].pc = "dir" /\ task'[p].fd = fd
        /\ task'[p].out = task[p].out /\ task'[p].status = task[p].status
    BY <1>4, <1>6 DEF Shaped, Fields
  <2>2. DirAt(file_array'[p], fd, 0)
    BY <1>2, <1>3, <1>4, <1>6, OpenDot
  <2> QED BY <1>2, <2>1, <2>2 DEF ls_row, ls_at
<1> QED BY <1>5, <1>6

LEMMA ls_read_row ==
  ASSUME Shaped, NEW p \in Proc, ls_row(task[p], file_array[p]), ls_read(p)
  PROVE  ls_row(task'[p], file_array'[p])
<1>1. PICK k \in 0 .. num_dentry : ls_at(task[p], file_array[p], k)
  BY DEF ls_row
<1>2. PICK fd, n, r :
        /\ fd = task[p].fd /\ n = SBUFSIZE - 1 /\ r = ReadResult(p, fd, n)
  OBVIOUS
<1>3. /\ DirAt(file_array[p], fd, k) /\ task[p].status = Running
      /\ task[p].out = FlatTo(LsLines, k)
  BY <1>1, <1>2 DEF ls_at, ls_read, At
<1>4. n \in Nat /\ MAXCHAR <= n
  BY <1>2, ProgramsAssumption, FilesAssumption
<1>5. /\ r = IF k = num_dentry THEN [ret |-> 0, data |-> <<>>]
             ELSE [ret |-> Len(Names[k + 1]), data |-> Names[k + 1]]
      /\ DoRead(p, fd, n) => dir_read(p, fd, n)
  BY <1>2, <1>3, <1>4, DirRead
<1>6. /\ DoRead(p, fd, n)
      /\ CASE r.ret = 0  -> Return(p, 0)
           [] r.ret = -1 -> Return(p, 3)
           [] OTHER      -> task' = [task EXCEPT ![p].loc = Buf(r),
                                                 ![p].pc = "write"]
  BY <1>2 DEF ls_read
<1>7. CASE k = num_dentry
  <2>1. Return(p, 0)
    BY <1>5, <1>6, <1>7
  <2>2. task'[p].pc = "exit" /\ task'[p].out = task[p].out
    BY <2>1, ReturnRow
  <2> QED BY <1>3, <1>7, <2>2 DEF ls_row, ls_at
<1>8. CASE k # num_dentry
  <2>1. PICK i \in 1 .. num_dentry : i = k + 1
    BY <1>8, NamesPlain
  <2>2. PICK s \in Seq(Plain) : s = Names[i] /\ Len(s) \in 1 .. MAXCHAR - 1
    BY NamesPlain
  <2>3. r.ret = Len(s) /\ r.data = s /\ r.ret # 0 /\ r.ret # -1
    BY <1>5, <1>8, <2>1, <2>2
  <2>4. Buf(r) = s
    BY <2>2, <2>3 DEF Buf
  <2>5. task' = [task EXCEPT ![p].loc = s, ![p].pc = "write"]
    BY <1>6, <2>3, <2>4
  <2>6. /\ task'[p].pc = "write" /\ task'[p].loc = s /\ task'[p].fd = fd
        /\ task'[p].out = task[p].out /\ task'[p].status = task[p].status
    BY <1>2, <2>5 DEF Shaped, Fields
  <2>7. DirAt(file_array'[p], fd, k + 1)
    BY <1>3, <1>5, <1>6, <1>8, DirMoves
  <2> QED BY <1>3, <1>8, <2>1, <2>2, <2>6, <2>7 DEF ls_row, ls_at
<1> QED BY <1>7, <1>8

LEMMA ls_write_row ==
  ASSUME Shaped, NEW p \in Proc, ls_row(task[p], file_array[p]), ls_write(p)
  PROVE  ls_row(task'[p], file_array'[p])
<1>1. PICK k \in 0 .. num_dentry : ls_at(task[p], file_array[p], k)
  BY DEF ls_row
<1>2. /\ k # num_dentry /\ task[p].loc = Names[k + 1]
      /\ DirAt(file_array[p], task[p].fd, k + 1)
      /\ task[p].status = Running /\ task[p].out = FlatTo(LsLines, k)
  BY <1>1 DEF ls_at, ls_write, At
<1>3. file_array' = file_array
  BY DEF ls_write, vars
<1>4. CASE Return(p, 3)
  <2>1. task'[p].pc = "exit" /\ task'[p].status = 3
        /\ task'[p].out = task[p].out
    BY <1>4, ReturnRow
  <2> QED BY <1>2, <2>1 DEF ls_row, ls_at
<1>5. CASE ~Return(p, 3)
  <2>1. PICK i \in 1 .. num_dentry : i = k + 1 /\ i - 1 = k
    BY <1>2, NamesPlain
  <2>2. PICK more : more = Shown(Append(task[p].loc, LF))
    OBVIOUS
  <2>3. task' = [task EXCEPT ![p].out = @ \o more, ![p].pc = "dir"]
    BY <1>5, <2>2 DEF ls_write
  <2>4. more = LsLines[i]
    BY <1>2, <2>1, <2>2, LsLinesPlain, ShownPlain
  <2>5. /\ task'[p].pc = "dir" /\ task'[p].status = task[p].status
        /\ task'[p].fd = task[p].fd
    BY <2>3 DEF Shaped, Fields
  <2>6. Joined(task[p].out, more, task'[p].out)
    BY <2>3, Zenon DEF Shaped, Fields, Joined
  <2>7. Joined(FlatTo(LsLines, i - 1), LsLines[i], FlatTo(LsLines, i))
    BY FlatToStep, LsLinesPlain
  <2>8. task'[p].out = FlatTo(LsLines, i)
    BY <1>2, <2>1, <2>4, <2>6, <2>7, Zenon DEF Joined
  <2>9. i \in 0 .. num_dentry
    BY <2>1
  <2>10. ls_at(task'[p], file_array'[p], i)
    BY <1>2, <1>3, <2>1, <2>5, <2>8 DEF ls_at
  <2> QED BY <2>9, <2>10 DEF ls_row
<1> QED BY <1>4, <1>5

LEMMA ls_writes ==
  ASSUME NEW t, NEW table, ls_row(t, table)
  PROVE  Writes(t, FlattenSeq(LsLines))
<1>1. PICK k \in 0 .. num_dentry : ls_at(t, table, k)
  BY DEF ls_row
<1>2. IsPrefix(t.out, FlattenSeq(LsLines))
  BY <1>1, LsLinesPlain, FlatToPrefix DEF ls_at
<1>3. t.status = 0 => k = num_dentry
  BY <1>1 DEF ls_at, Running
<1>4. k = num_dentry => t.out = FlattenSeq(LsLines)
  BY <1>1, LsLinesPlain, FlatToAll DEF ls_at
<1> QED BY <1>2, <1>3, <1>4 DEF Writes

-----------------------------------------------------------------------------
(* syserr *)

\* The descriptors that are open, besides the terminal.
OpenFds(table, open) ==
  /\ DOMAIN table = Fd /\ table[0] = stdin /\ table[1] = stdout
  /\ \A fd \in UserFd : /\ "flag" \in DOMAIN table[fd]
                        /\ table[fd].flag = 1 <=> fd \in open

LEMMA Descriptors == Fd = 0 .. 7 /\ UserFd = 2 .. 7
  BY ProgramsAssumption DEF Fd, UserFd

LEMMA FreshOpenFds == OpenFds(Fresh, {})
  BY Descriptors DEF OpenFds, Fresh, NoFile

\* A call that must fail when no descriptor is open.
Wrong(call) ==
  \/ call.op = "read" /\ call.x # 0
  \/ call.op = "write" /\ call.x # 1
  \/ call.op = "close"
  \/ call.op = "open" /\ Matches(call.x) = {}
  \/ call.op = "vidmap" /\ VidmapFails(call.x)
  \/ call.op = "number" /\ NotDispatched(call.x)

LEMMA WrongFails ==
  ASSUME NEW p \in Proc, OpenFds(file_array[p], {}), NEW call, Wrong(call)
  PROVE  Fails(p, call) /\ (DoCall(p, call) => UNCHANGED vars)
<1>1. ASSUME NEW fd \in UserFd
      PROVE  file_array[p][fd].flag # 1
  BY DEF OpenFds
<1>2. \A fd \in Fd : fd = 0 \/ fd = 1 \/ fd \in UserFd
  BY Constants
<1>3. /\ file_array[p][0].ops = "stdin" /\ file_array[p][0].flag = 1
      /\ file_array[p][1].ops = "stdout" /\ file_array[p][1].flag = 1
  BY DEF OpenFds, stdin, stdout, NoFile
<1>4. CASE call.op = "read" /\ call.x # 0
  <2>1. ReadOps(p, call.x, 31) = "none"
    BY <1>1, <1>2, <1>3, <1>4 DEF ReadOps
  <2>2. ReadResult(p, call.x, 31).ret = -1
    BY <2>1 DEF ReadResult, Failed
  <2>3. DoRead(p, call.x, 31) => UNCHANGED vars
    BY <2>1, Zenon DEF DoRead
  <2> QED BY <1>4, <2>2, <2>3 DEF Fails, DoCall
<1>5. CASE call.op = "write" /\ call.x # 1
  <2>1. WriteFails(p, call.x)
    BY <1>1, <1>2, <1>3, <1>5 DEF WriteFails
  <2> QED BY <1>5, <2>1 DEF Fails, DoCall
<1>6. CASE call.op = "close"
  <2>1. ~Closable(p, call.x)
    BY <1>1 DEF Closable
  <2>2. CloseResult(p, call.x) = -1
    BY <2>1 DEF CloseResult
  <2>3. DoClose(p, call.x) => UNCHANGED vars
    BY <2>1 DEF DoClose
  <2> QED BY <1>6, <2>2, <2>3 DEF Fails, DoCall
<1>7. CASE call.op = "open" /\ Matches(call.x) = {}
  <2>1. Opened(p, call.x) = -1
    BY <1>7 DEF Opened
  <2>2. DoOpen(p, call.x) => UNCHANGED vars
    BY <2>1 DEF DoOpen
  <2> QED BY <1>7, <2>1, <2>2 DEF Fails, DoCall
<1>8. CASE call.op = "vidmap" /\ VidmapFails(call.x)
  BY <1>8 DEF Fails, DoCall
<1>9. CASE call.op = "number" /\ NotDispatched(call.x)
  BY <1>9 DEF Fails, DoCall
<1> QED BY <1>4, <1>5, <1>6, <1>7, <1>8, <1>9 DEF Wrong

\* The numbers that the tests use.
LEMMA TestNumbers ==
  /\ NEG_FD # 0 /\ NEG_FD # 1 /\ BIG_FD # 0 /\ BIG_FD # 1
  /\ NotDispatched(BIG_NUM) /\ NotDispatched(NEG_NUM) /\ NotDispatched(0)
  /\ VidmapFails(0) /\ VidmapFails(FOURMB)
  BY SMT
  DEF NEG_FD, BIG_FD, BIG_NUM, NEG_NUM, NotDispatched, VidmapFails, FOURMB,
      PROG_IMAGE

\* No file has an empty name.
LEMMA NoEmptyName == Matches(<<>>) = {}
<1> SUFFICES ASSUME NEW j \in Matches(<<>>) PROVE FALSE
  OBVIOUS
<1>1. j \in DOMAIN dir_entry
  BY DEF Matches
<1>2. PICK i \in 1 .. num_dentry : j = i - 1
  <2>1. j + 1 \in 1 .. num_dentry /\ j = (j + 1) - 1
    BY <1>1, NamesPlain
  <2> QED BY <2>1
<1>3. PICK s \in Seq(Plain) :
        s = dir_entry[j].file_name /\ Len(s) \in 1 .. MAXCHAR - 1
  BY <1>2, NamesPlain
<1>4. MAXCHAR \in Nat
  BY FilesAssumption
<1>5. Cut(s, MAXCHAR - 1) = s
  BY <1>3, <1>4 DEF Cut
<1>6. Cut(<<>>, MAXCHAR - 1) = <<>>
  BY <1>3, <1>4 DEF Cut
<1>7. SameName(<<>>, s, MAXCHAR - 1)
  BY <1>3 DEF Matches
<1> QED BY <1>3, <1>5, <1>6, <1>7 DEF SameName

LEMMA CallFields ==
  ASSUME NEW op, NEW x
  PROVE  Call(op, x).op = op /\ Call(op, x).x = x
  BY DEF Call

CallOps == {"read", "write", "close"}

Calls == {Call(op, x) : op \in CallOps, x \in Int}

LEMMA EachSeq ==
  ASSUME NEW op \in CallOps, NEW from \in {0, 2}
  PROVE  /\ Each(op, from) \in Seq(Calls) /\ Len(Each(op, from)) = 8 - from
         /\ \A k \in 1 .. 8 - from : Each(op, from)[k] = Call(op, from + k - 1)
<1>1. \A k \in 1 .. 8 - from : Call(op, from + k - 1) \in Calls
  BY DEF Calls
<1>2. PICK m \in Nat : m = 8 - from
  OBVIOUS
<1>3. Each(op, from) = [k \in 1 .. m |-> Call(op, from + k - 1)]
  BY <1>2 DEF Each
<1>4. \A k \in 1 .. m : Call(op, from + k - 1) \in Calls
  BY <1>1, <1>2
<1>5. /\ Each(op, from) \in Seq(Calls) /\ Len(Each(op, from)) = m
      /\ \A k \in 1 .. m : Each(op, from)[k] = Call(op, from + k - 1)
  <2>1. PICK f : f = Each(op, from)
    OBVIOUS
  <2>2. /\ f \in [1 .. m -> Calls]
        /\ \A k \in 1 .. m : f[k] = Call(op, from + k - 1)
    BY <1>3, <1>4, <2>1, Zenon
  <2>3. f \in Seq(Calls) /\ Len(f) = m
    BY <2>2
  <2> QED BY <2>1, <2>2, <2>3, Zenon
<1> QED BY <1>2, <1>5

\* Every call of a test, but for err_open_lots, is wrong.
LEMMA TestsWrong ==
  ASSUME NEW n \in 1 .. 8, n # 3, NEW i \in 1 .. Len(Tests[n])
  PROVE  Wrong(Tests[n][i])
<1>1. ASSUME NEW x, x # 0, x # 1,
             NEW j \in 1 .. 3
      PROVE  Wrong(<<Call("read", x), Call("write", x), Call("close", x)>>[j])
  <2>1. j = 1 \/ j = 2 \/ j = 3
    OBVIOUS
  <2> QED BY <1>1, <2>1, CallFields DEF Wrong
<1>2. CASE n = 1
  <2>1. Tests[n] = err_neg_fd
    BY <1>2 DEF Tests
  <2>2. Tests[n] = <<Call("read", NEG_FD), Call("write", NEG_FD),
                     Call("close", NEG_FD)>> /\ i \in 1 .. 3
    BY <2>1 DEF err_neg_fd
  <2> QED BY <1>1, <2>2, TestNumbers
<1>3. CASE n = 2
  <2>1. Tests[n] = err_big_fd
    BY <1>3 DEF Tests
  <2>2. Tests[n] = <<Call("read", BIG_FD), Call("write", BIG_FD),
                     Call("close", BIG_FD)>> /\ i \in 1 .. 3
    BY <2>1 DEF err_big_fd
  <2> QED BY <1>1, <2>2, TestNumbers
<1>4. CASE n = 4
  <2>1. Tests[n] = err_open
    BY <1>4 DEF Tests
  <2>2. PICK a, b : a = Append(hello, "o") /\ b = Front(shell)
    OBVIOUS
  <2>3. Tests[n] = <<Call("open", a), Call("open", b), Call("open", <<>>)>>
        /\ i \in 1 .. 3
    BY <2>1, <2>2 DEF err_open
  <2>4. Matches(a) = {} /\ Matches(b) = {} /\ Matches(<<>>) = {}
    BY <2>2, DiskAssumption, NoEmptyName
  <2>5. i = 1 \/ i = 2 \/ i = 3
    BY <2>3
  <2> QED BY <2>3, <2>4, <2>5, CallFields DEF Wrong
<1>5. CASE n = 5
  <2>1. Tests[n] = err_unopened
    BY <1>5 DEF Tests
  <2>2. PICK a, b, c : /\ a = Each("close", 0) /\ b = Each("read", 2)
                       /\ c = Each("write", 2)
    OBVIOUS
  <2>3. /\ a \in Seq(Calls) /\ Len(a) = 8
        /\ \A k \in 1 .. 8 : a[k] = Call("close", 0 + k - 1)
    <3>1. 8 - 0 = 8 /\ 0 \in {0, 2}
      OBVIOUS
    <3>2. "close" \in CallOps
      BY DEF CallOps
    <3> QED BY <2>2, <3>1, <3>2, EachSeq
  <2>4. /\ b \in Seq(Calls) /\ Len(b) = 6
        /\ \A k \in 1 .. 6 : b[k] = Call("read", 2 + k - 1)
    <3>1. 8 - 2 = 6 /\ 2 \in {0, 2}
      OBVIOUS
    <3>2. "read" \in CallOps
      BY DEF CallOps
    <3> QED BY <2>2, <3>1, <3>2, EachSeq
  <2>5. /\ c \in Seq(Calls) /\ Len(c) = 6
        /\ \A k \in 1 .. 6 : c[k] = Call("write", 2 + k - 1)
    <3>1. 8 - 2 = 6 /\ 2 \in {0, 2}
      OBVIOUS
    <3>2. "write" \in CallOps
      BY DEF CallOps
    <3> QED BY <2>2, <3>1, <3>2, EachSeq
  <2>6. /\ (a \o b) \in Seq(Calls) /\ Len(a \o b) = 14
        /\ \A k \in 1 .. 14 : (a \o b)[k] = IF k <= 8 THEN a[k] ELSE b[k - 8]
    <3>1. /\ (a \o b) \in Seq(Calls) /\ Len(a \o b) = Len(a) + Len(b)
          /\ \A k \in 1 .. Len(a) + Len(b) :
               (a \o b)[k] = IF k <= Len(a) THEN a[k] ELSE b[k - Len(a)]
      BY <2>3, <2>4, ConcatProperties, Zenon
    <3>2. Len(a) + Len(b) = 14
      BY <2>3, <2>4
    <3> QED BY <2>3, <3>1, <3>2, Zenon
  <2>7. PICK ab : ab = a \o b
    OBVIOUS
  <2>8. /\ Len(ab \o c) = 20
        /\ \A k \in 1 .. 20 :
             (ab \o c)[k] = IF k <= 14 THEN ab[k] ELSE c[k - 14]
    <3>1. ab \in Seq(Calls) /\ Len(ab) = 14
      BY <2>6, <2>7
    <3>2. /\ Len(ab \o c) = Len(ab) + Len(c)
          /\ \A k \in 1 .. Len(ab) + Len(c) :
               (ab \o c)[k] = IF k <= Len(ab) THEN ab[k] ELSE c[k - Len(ab)]
      BY <2>5, <3>1, ConcatProperties, Zenon
    <3>3. Len(ab) + Len(c) = 20
      BY <2>5, <3>1
    <3> QED BY <3>1, <3>2, <3>3, Zenon
  <2>9. PICK test : test = ab \o c /\ test = Tests[n]
    BY <2>1, <2>2, <2>7 DEF err_unopened
  <2>10. i \in 1 .. 20
    BY <2>8, <2>9
  <2>11. \/ test[i] = Call("close", 0 + i - 1)
         \/ /\ i - 8 \in 1 .. 6 /\ i > 8
            /\ test[i] = Call("read", 2 + (i - 8) - 1)
         \/ /\ i - 14 \in 1 .. 6 /\ i > 14
            /\ test[i] = Call("write", 2 + (i - 14) - 1)
    <3>1. CASE i <= 8
      <4>1. i \in 1 .. 8 /\ i \in 1 .. 14 /\ i <= 14
        BY <2>10, <3>1
      <4>2. test[i] = ab[i] /\ ab[i] = a[i]
        BY <2>6, <2>7, <2>8, <2>9, <2>10, <3>1, <4>1, Zenon
      <4> QED BY <2>3, <4>1, <4>2, Zenon
    <3>2. CASE i > 8 /\ i <= 14
      <4>1. i - 8 \in 1 .. 6 /\ i \in 1 .. 14 /\ ~(i <= 8)
        BY <2>10, <3>2
      <4>2. test[i] = ab[i] /\ ab[i] = b[i - 8]
        BY <2>6, <2>7, <2>8, <2>9, <2>10, <3>2, <4>1, Zenon
      <4> QED BY <2>4, <3>2, <4>1, <4>2, Zenon
    <3>3. CASE i > 14
      <4>1. i - 14 \in 1 .. 6 /\ ~(i <= 14)
        BY <2>10, <3>3
      <4>2. test[i] = c[i - 14]
        BY <2>8, <2>9, <2>10, <4>1, Zenon
      <4> QED BY <2>5, <3>3, <4>1, <4>2, Zenon
    <3> QED BY <2>10, <3>1, <3>2, <3>3
  <2>12. \/ test[i].op = "close"
         \/ test[i].op = "read" /\ test[i].x # 0
         \/ test[i].op = "write" /\ test[i].x # 1
    BY <2>10, <2>11, CallFields
  <2> QED BY <2>9, <2>12 DEF Wrong
<1>6. CASE n = 6
  <2>1. Tests[n] = err_vidmap
    BY <1>6 DEF Tests
  <2>2. Tests[n] = <<Call("vidmap", 0), Call("vidmap", FOURMB)>>
        /\ i \in 1 .. 2
    BY <2>1 DEF err_vidmap
  <2>3. i = 1 \/ i = 2
    BY <2>2
  <2> QED BY <2>2, <2>3, TestNumbers, CallFields DEF Wrong
<1>7. CASE n = 7
  <2>1. Tests[n] = err_stdin_out
    BY <1>7 DEF Tests
  <2>2. Tests[n] = <<Call("write", 0), Call("read", 1)>> /\ i \in 1 .. 2
    BY <2>1 DEF err_stdin_out
  <2>3. i = 1 \/ i = 2
    BY <2>2
  <2> QED BY <2>2, <2>3, CallFields DEF Wrong
<1>8. CASE n = 8
  <2>1. Tests[n] = err_syscall_num
    BY <1>8 DEF Tests
  <2>2. Tests[n] = <<Call("number", BIG_NUM), Call("number", NEG_NUM),
                     Call("number", 0)>> /\ i \in 1 .. 3
    BY <2>1 DEF err_syscall_num
  <2>3. i = 1 \/ i = 2 \/ i = 3
    BY <2>2
  <2> QED BY <2>2, <2>3, TestNumbers, CallFields DEF Wrong
<1> QED BY <1>2, <1>3, <1>4, <1>5, <1>6, <1>7, <1>8

\* err_open_lots: the descriptors that are open before its i-th call.
Lots(i) == {fd \in UserFd : IF i <= 8 THEN fd <= i ELSE fd >= i - 6}

LEMMA LotsOfTests ==
  /\ Len(Tests[3]) = 13
  /\ \A i \in 1 .. 7 : Tests[3][i] = Call("open", Dot)
  /\ \A i \in 8 .. 13 : Tests[3][i] = Call("close", i - 6)
<1>1. PICK a, b : /\ a = [k \in 1 .. 7 |-> Call("open", Dot)]
                  /\ b = Each("close", 2)
  OBVIOUS
<1>2. Tests[3] = a \o b
  BY <1>1 DEF Tests, err_open_lots
<1> DEFINE S == Calls \cup {Call("open", Dot)}
<1>3. /\ a \in Seq(S) /\ Len(a) = 7
      /\ \A k \in 1 .. 7 : a[k] = Call("open", Dot)
  BY <1>1
<1>4. /\ b \in Seq(Calls) /\ Len(b) = 6
      /\ \A k \in 1 .. 6 : b[k] = Call("close", 2 + k - 1)
  <2>1. 8 - 2 = 6 /\ 2 \in {0, 2}
    OBVIOUS
  <2>2. "close" \in CallOps
    BY DEF CallOps
  <2> QED BY <1>1, <2>1, <2>2, EachSeq
<1>5. b \in Seq(S)
  BY <1>4
<1> HIDE DEF S
<1>6. /\ Len(a \o b) = Len(a) + Len(b)
      /\ \A k \in 1 .. Len(a) + Len(b) :
           (a \o b)[k] = IF k <= Len(a) THEN a[k] ELSE b[k - Len(a)]
  BY <1>3, <1>5, ConcatProperties, Zenon
<1>7. Len(a) + Len(b) = 13
  BY <1>3, <1>4
<1>8. PICK test : test = Tests[3]
  OBVIOUS
<1>9. /\ Len(test) = 13
      /\ \A k \in 1 .. 13 : test[k] = IF k <= 7 THEN a[k] ELSE b[k - 7]
  BY <1>2, <1>3, <1>6, <1>7, <1>8, Zenon
<1>10. ASSUME NEW i \in 1 .. 7 PROVE test[i] = Call("open", Dot)
  <2>1. i \in 1 .. 13 /\ i <= 7
    OBVIOUS
  <2>2. test[i] = a[i]
    BY <1>9, <2>1
  <2> QED BY <1>3, <2>2, Zenon
<1>11. ASSUME NEW i \in 8 .. 13 PROVE test[i] = Call("close", i - 6)
  <2>1. /\ i \in 1 .. 13 /\ ~(i <= 7) /\ i - 7 \in 1 .. 6
        /\ 2 + (i - 7) - 1 = i - 6
    OBVIOUS
  <2>2. test[i] = b[i - 7] /\ b[i - 7] = Call("close", 2 + (i - 7) - 1)
    BY <1>4, <1>9, <2>1, Zenon
  <2> QED BY <2>1, <2>2, Zenon
<1> QED BY <1>8, <1>9, <1>10, <1>11, Zenon

LEMMA LotsValues ==
  /\ Lots(1) = {} /\ Lots(14) = {} /\ Lots(7) = UserFd /\ Lots(8) = UserFd
  /\ \A i \in 1 .. 6 : UserFd \ Lots(i) = {fd \in UserFd : fd > i}
  /\ \A i \in 1 .. 6 : Lots(i + 1) = Lots(i) \cup {i + 1}
  /\ \A i \in 8 .. 13 : Lots(i + 1) = Lots(i) \ {i - 6} /\ i - 6 \in Lots(i)
  BY Descriptors DEF Lots

LEMMA OpenFdsFree ==
  ASSUME NEW p, NEW open \in SUBSET UserFd, OpenFds(file_array[p], open)
  PROVE  FreeFds(p) = UserFd \ open
<1>1. stdin.flag = 1 /\ stdout.flag = 1
  BY DEF stdin, stdout, NoFile
<1>2. \A fd \in Fd : fd \in UserFd <=> fd # 0 /\ fd # 1
  BY Constants
<1>3. UserFd \subseteq Fd
  BY Constants
<1> QED BY <1>1, <1>2, <1>3 DEF FreeFds, OpenFds

\* "." can be opened while there is a free descriptor.
LEMMA OpenedDot ==
  ASSUME NEW p, FreeFds(p) # {}
  PROVE  Opened(p, Dot) =
           CHOOSE fd \in FreeFds(p) : \A other \in FreeFds(p) : fd <= other
<1>1. PICK e : e = read_dentry_by_name(Dot)
  OBVIOUS
<1>2. e.file_type # FILE_FILETYPE
  <2>1. e.file_type = DIR_FILETYPE
    BY <1>1, DiskAssumption
  <2> QED BY <2>1 DEF DIR_FILETYPE, FILE_FILETYPE
<1>3. Matches(Dot) # {}
  BY DiskAssumption
<1> QED BY <1>1, <1>2, <1>3 DEF Opened

LEMMA lots_open ==
  ASSUME Shaped, NEW p \in Proc, NEW i \in 1 .. 6,
         OpenFds(file_array[p], Lots(i))
  PROVE  /\ Opened(p, Dot) # -1
         /\ DoOpen(p, Dot) => OpenFds(file_array'[p], Lots(i + 1))
<1>1. FreeFds(p) = {fd \in UserFd : fd > i}
  BY OpenFdsFree, LotsValues, Lots(i) \in SUBSET UserFd DEF Lots
<1>2. i + 1 \in FreeFds(p) /\ FreeFds(p) \subseteq Int
      /\ \A fd \in FreeFds(p) : i + 1 <= fd
  BY <1>1, Descriptors
<1>3. Opened(p, Dot) = i + 1
  <2>1. PICK fd \in FreeFds(p) :
          /\ \A other \in FreeFds(p) : fd <= other
          /\ fd = CHOOSE g \in FreeFds(p) :
                    \A other \in FreeFds(p) : g <= other
    BY <1>2
  <2>2. fd = i + 1
    BY <1>2, <2>1
  <2>3. FreeFds(p) # {}
    BY <1>2
  <2> QED BY <2>1, <2>2, <2>3, OpenedDot
<1>4. ASSUME DoOpen(p, Dot) PROVE OpenFds(file_array'[p], Lots(i + 1))
  <2>1. PICK e, x : /\ e = read_dentry_by_name(Dot)
                    /\ x = [Element(e) EXCEPT !.flag = 1]
    OBVIOUS
  <2>2. x = [ops |-> "dir", inode |-> 0, file_pos |-> 0, flag |-> 1]
    BY <2>1, DiskAssumption, DirElement
  <2>3. i + 1 # -1
    OBVIOUS
  <2>4. file_array' = [file_array EXCEPT ![p][i + 1] = x]
    BY <1>3, <1>4, <2>1, <2>3 DEF DoOpen, sys_open
  <2>5. i + 1 \in UserFd /\ i + 1 \in Fd /\ i + 1 # 0 /\ i + 1 # 1
    BY Descriptors
  <2>6. /\ DOMAIN file_array'[p] = Fd /\ file_array'[p][i + 1] = x
        /\ \A fd \in Fd : fd # i + 1 => file_array'[p][fd] = file_array[p][fd]
    BY <2>4, <2>5 DEF Shaped, OpenFds
  <2>7. "flag" \in DOMAIN x /\ x.flag = 1
    BY <2>2
  <2>8. \A fd \in UserFd :
          fd \in Lots(i + 1) <=> fd = i + 1 \/ fd \in Lots(i)
    BY <2>5, LotsValues
  <2>9. UserFd \subseteq Fd /\ 0 \in Fd /\ 1 \in Fd
    BY Constants
  <2> QED BY <2>5, <2>6, <2>7, <2>8, <2>9 DEF OpenFds
<1> QED BY <1>3, <1>4

LEMMA lots_full ==
  ASSUME NEW p \in Proc, OpenFds(file_array[p], UserFd)
  PROVE  Opened(p, Dot) = -1 /\ (DoOpen(p, Dot) => UNCHANGED vars)
<1>1. FreeFds(p) = {}
  BY OpenFdsFree
<1>2. Opened(p, Dot) = -1
  BY <1>1 DEF Opened
<1> QED BY <1>2 DEF DoOpen

LEMMA lots_close ==
  ASSUME Shaped, NEW p \in Proc, NEW i \in 8 .. 13,
         OpenFds(file_array[p], Lots(i)), DoClose(p, i - 6)
  PROVE  OpenFds(file_array'[p], Lots(i + 1))
<1>1. PICK fd \in UserFd : fd = i - 6
  BY Descriptors
<1>2. fd \in Lots(i) /\ fd # 0 /\ fd # 1 /\ fd \in Fd
  BY <1>1, LotsValues, Descriptors
<1>3. file_array[p][fd].flag = 1 /\ "flag" \in DOMAIN file_array[p][fd]
  BY <1>2 DEF OpenFds
<1>4. sys_close(p, fd)
  BY <1>1, <1>3 DEF DoClose, Closable
<1>5. PICK x : x = Closed(file_array[p][fd])
  OBVIOUS
<1>6. "flag" \in DOMAIN x /\ x.flag # 1
  BY <1>3, <1>5 DEF Closed
<1>7. file_array' = [file_array EXCEPT ![p][fd] = x]
  BY <1>4, <1>5 DEF sys_close
<1>8. /\ DOMAIN file_array'[p] = Fd /\ file_array'[p][fd] = x
      /\ \A g \in Fd : g # fd => file_array'[p][g] = file_array[p][g]
  BY <1>2, <1>7 DEF Shaped, OpenFds
<1>9. \A g \in UserFd : g \in Lots(i + 1) <=> g \in Lots(i) /\ g # fd
  BY <1>1, LotsValues
<1>10. UserFd \subseteq Fd /\ 0 \in Fd /\ 1 \in Fd
  BY Constants
<1> QED BY <1>2, <1>6, <1>8, <1>9, <1>10 DEF OpenFds

\* The variables of syserr while no test has failed.
TestLoc(tests, i, cnt) ==
  [tests |-> tests, i |-> i, cnt |-> cnt, fail |-> 0]

\* Between the calls of the tests, before the i-th of the first.
Testing(t, table, tests, i) ==
  /\ t.pc = "test" /\ t.status = Running
  /\ tests \in Seq(1 .. 8) /\ i \in Nat
  /\ IF tests # <<>> /\ tests[1] = 3
     THEN /\ t.loc = TestLoc(tests, i, IF i <= 7 THEN 0 ELSE 1)
          /\ OpenFds(table, Lots(i)) /\ i \in 1 .. 14
     ELSE /\ t.loc = TestLoc(tests, i, 0)
          /\ OpenFds(table, {})
          /\ tests # <<>> => i \in 1 .. Len(Tests[tests[1]]) + 1

syserr_row(t, table) ==
  \/ t.pc = "main" /\ t.status = Running /\ table = Fresh
  \/ \E tests \in Seq(1 .. 8), i \in Nat : Testing(t, table, tests, i)
  \/ t.pc \in {"exit", "halted"} /\ t.status = 0

LEMMA TestLengths ==
  ASSUME NEW n \in 1 .. 8
  PROVE  Len(Tests[n]) \in Nat
<1>1. n \in {1, 2, 4, 6, 7, 8} => Len(Tests[n]) \in Nat
  BY DEF Tests, err_neg_fd, err_big_fd, err_open, err_vidmap, err_stdin_out,
         err_syscall_num
<1>2. Tests[5] = err_unopened
  BY DEF Tests
<1>3. /\ Each("close", 0) \in Seq(Calls) /\ Each("read", 2) \in Seq(Calls)
      /\ Each("write", 2) \in Seq(Calls)
  BY EachSeq DEF CallOps
<1>4. \A a, b, c \in Seq(Calls) : a \o b \o c \in Seq(Calls)
  OBVIOUS
<1>5. Tests[5] \in Seq(Calls)
  BY <1>2, <1>3, <1>4, Zenon DEF err_unopened
<1>6. Len(Tests[5]) \in Nat
  BY <1>5
<1>7. n = 3 => Len(Tests[n]) \in Nat
  BY LotsOfTests
<1>8. n \in {1, 2, 4, 6, 7, 8} \/ n = 3 \/ n = 5
  OBVIOUS
<1> QED BY <1>1, <1>6, <1>7, <1>8

\* The first call of a test.
LEMMA TestBegins ==
  ASSUME NEW t, NEW table, NEW tests \in Seq(1 .. 8), OpenFds(table, {}),
         t.pc = "test", t.status = Running,
         t.loc = TestLoc(tests, 1, 0)
  PROVE  Testing(t, table, tests, 1)
<1>1. Lots(1) = {}
  BY LotsValues
<1>2. CASE tests = <<>>
  BY <1>2 DEF Testing
<1>3. CASE tests # <<>>
  <2>1. tests[1] \in 1 .. 8
    BY <1>3
  <2>2. Len(Tests[tests[1]]) \in Nat
    BY <2>1, TestLengths
  <2>3. 1 \in 1 .. Len(Tests[tests[1]]) + 1
    BY <2>2
  <2>4. (IF 1 <= 7 THEN 0 ELSE 1) = 0 /\ 1 \in 1 .. 14 /\ 1 \in Nat
    OBVIOUS
  <2>5. CASE tests[1] = 3
    BY <1>1, <1>3, <2>4, <2>5, Zenon DEF Testing
  <2>6. CASE tests[1] # 3
    BY <1>3, <2>3, <2>4, <2>6, Zenon DEF Testing
  <2> QED BY <2>5, <2>6
<1> QED BY <1>2, <1>3

LEMMA syserr_select_row ==
  ASSUME Shaped, NEW p \in Proc, syserr_row(task[p], file_array[p]),
         syserr_select(p)
  PROVE  syserr_row(task'[p], file_array'[p])
<1>1. task[p].status = Running /\ file_array[p] = Fresh
  BY DEF syserr_row, Testing, syserr_select, At
<1>2. PICK select \in 0 .. 9 :
        task' = [task EXCEPT ![p].pc = "test", ![p].loc =
                   [tests |-> Selected(select), i |-> 1, cnt |-> 0,
                    fail |-> 0]]
  BY DEF syserr_select
<1>3. PICK tests : tests = Selected(select)
  OBVIOUS
<1>4. tests \in Seq(1 .. 8)
  <2>1. \/ tests = <<1, 2, 3, 4, 5, 6, 7, 8>>
        \/ select \in 1 .. 8 /\ tests = <<select>>
        \/ tests = <<>>
    BY <1>3 DEF Selected
  <2>2. <<1, 2, 3, 4, 5, 6, 7, 8>> \in Seq(1 .. 8)
    <3>1. PICK all : all = <<1, 2, 3, 4, 5, 6, 7, 8>>
      OBVIOUS
    <3>2. Len(all) = 8 /\ \A k \in 1 .. 8 : all[k] = k
      BY <3>1
    <3>3. all = [k \in 1 .. 8 |-> k]
      BY <3>1, <3>2
    <3> QED BY <3>1, <3>3
  <2>3. select \in 1 .. 8 => <<select>> \in Seq(1 .. 8)
    OBVIOUS
  <2>4. <<>> \in Seq(1 .. 8)
    OBVIOUS
  <2> QED BY <2>1, <2>2, <2>3, <2>4, Zenon
<1>5. /\ task'[p].pc = "test" /\ task'[p].status = Running
      /\ task'[p].loc = TestLoc(tests, 1, 0)
  BY <1>1, <1>2, <1>3 DEF Shaped, Fields, TestLoc
<1>6. file_array'[p] = Fresh
  BY <1>1 DEF syserr_select, vars
<1>7. PICK t, table : t = task'[p] /\ table = file_array'[p]
  OBVIOUS
<1>8. Testing(t, table, tests, 1)
  BY <1>4, <1>5, <1>6, <1>7, TestBegins, FreshOpenFds
<1> QED BY <1>4, <1>7, <1>8, 1 \in Nat DEF syserr_row

LEMMA syserr_verdict_row ==
  ASSUME Shaped, NEW p \in Proc, syserr_row(task[p], file_array[p]),
         syserr_verdict(p)
  PROVE  syserr_row(task'[p], file_array'[p])
<1>1. PICK tests \in Seq(1 .. 8), i \in Nat :
        Testing(task[p], file_array[p], tests, i)
  BY DEF syserr_row, syserr_verdict, At
<1>2. PICK l : l = task[p].loc
  OBVIOUS
<1>3. l.tests = tests /\ l.i = i /\ l.fail = 0 /\ task[p].status = Running
      /\ task[p].pc = "test"
  BY <1>1, <1>2 DEF Testing, TestLoc
<1>4. tests # <<>> /\ i > Len(Tests[tests[1]])
  BY <1>2, <1>3 DEF syserr_verdict
<1>5. /\ l.cnt = IF tests[1] = 3 THEN 1 ELSE 0
      /\ OpenFds(file_array[p], {})
  <2>1. CASE tests[1] = 3
    <3>1. i = 14
      BY <1>1, <1>4, <2>1, LotsOfTests DEF Testing
    <3>2. l.cnt = 1 /\ OpenFds(file_array[p], Lots(i))
      BY <1>1, <1>2, <1>4, <2>1, <3>1 DEF Testing, TestLoc
    <3> QED BY <2>1, <3>1, <3>2, LotsValues
  <2>2. CASE tests[1] # 3
    BY <1>1, <1>2, <2>2 DEF Testing, TestLoc
  <2> QED BY <2>1, <2>2
<1>6. task' = [task EXCEPT ![p].loc =
                 [tests |-> Tail(tests), i |-> 1, cnt |-> 0, fail |-> 0]]
  <2>1. task' = [task EXCEPT ![p].loc =
                   [tests |-> Tail(l.tests), i |-> 1, cnt |-> 0,
                    fail |-> l.fail + IF l.cnt =
                                           IF l.tests[1] = 3 THEN 1 ELSE 0
                                      THEN 0 ELSE 2]]
    BY <1>2 DEF syserr_verdict
  <2>2. l.fail + (IF l.cnt = IF l.tests[1] = 3 THEN 1 ELSE 0 THEN 0 ELSE 2)
          = 0
    BY <1>3, <1>5
  <2> QED BY <1>3, <2>1, <2>2
<1>7. PICK rest : rest = Tail(tests)
  OBVIOUS
<1>8. rest \in Seq(1 .. 8)
  BY <1>4, <1>7
<1>9. /\ task'[p].pc = "test" /\ task'[p].status = Running
      /\ task'[p].loc = TestLoc(rest, 1, 0)
  BY <1>3, <1>6, <1>7 DEF Shaped, Fields, TestLoc
<1>10. file_array' = file_array
  BY DEF syserr_verdict, vars
<1>11. PICK t, table : t = task'[p] /\ table = file_array'[p]
  OBVIOUS
<1>12. Testing(t, table, rest, 1)
  BY <1>5, <1>8, <1>9, <1>10, <1>11, TestBegins
<1> QED BY <1>8, <1>11, <1>12, 1 \in Nat DEF syserr_row

LEMMA syserr_end_row ==
  ASSUME Shaped, NEW p \in Proc, syserr_row(task[p], file_array[p]),
         syserr_end(p)
  PROVE  syserr_row(task'[p], file_array'[p])
<1>1. PICK tests \in Seq(1 .. 8), i \in Nat :
        Testing(task[p], file_array[p], tests, i)
  BY DEF syserr_row, syserr_end, At
<1>2. task[p].loc.fail = 0
  BY <1>1 DEF Testing, TestLoc
<1>3. Return(p, 0)
  BY <1>2 DEF syserr_end
<1>4. task'[p].pc = "exit" /\ task'[p].status = 0
  BY <1>3, ReturnRow
<1> QED BY <1>4 DEF syserr_row

\* The variables of syserr in the middle of a test, before and behind a call.
Counting(p, tests, i, cnt) == task[p].loc = TestLoc(tests, i, cnt)

Counted(p, tests, i, cnt) ==
  /\ task'[p].pc = "test" /\ task'[p].status = task[p].status
  /\ task'[p].loc = TestLoc(tests, i, cnt)

\* What a call adds to the count of its test.
Counts(p, tests, i, more) ==
  more = IF /\ Fails(p, Tests[tests[1]][i]) = (tests[1] = 3)
            /\ ~(tests[1] = 3 /\ Tests[tests[1]][i].op = "close")
         THEN 1 ELSE 0

LEMMA CallCounts ==
  ASSUME Shaped, NEW p \in Proc, syserr_call(p),
         NEW tests, NEW i \in Nat, NEW cnt \in Nat,
         Counting(p, tests, i, cnt),
         NEW more \in Nat, Counts(p, tests, i, more)
  PROVE  Counted(p, tests, i + 1, cnt + more)
<1>1. PICK l : l = task[p].loc
  OBVIOUS
<1>2. l.tests = tests /\ l.i = i /\ l.cnt = cnt
  BY <1>1 DEF Counting, TestLoc
<1>3. task' = [task EXCEPT ![p].loc.i = l.i + 1, ![p].loc.cnt = l.cnt + more]
  BY <1>1, <1>2, Zenon DEF syserr_call, Counts
<1>4. task[p].pc = "test"
  BY DEF syserr_call, At
<1>5. task'[p].pc = "test" /\ task'[p].status = task[p].status
  BY <1>3, <1>4 DEF Shaped, Fields
<1>6. task'[p].loc = [l EXCEPT !.i = l.i + 1, !.cnt = l.cnt + more]
  BY <1>1, <1>3 DEF Shaped, Fields
<1>7. [l EXCEPT !.i = l.i + 1, !.cnt = l.cnt + more] =
        TestLoc(tests, i + 1, cnt + more)
  <2>1. PICK a, b : a = l.i + 1 /\ b = l.cnt + more
    OBVIOUS
  <2>2. a = i + 1 /\ b = cnt + more
    BY <1>2, <2>1
  <2>3. [l EXCEPT !.i = a, !.cnt = b] = TestLoc(tests, a, b)
    <3>1. l = [tests |-> tests, i |-> i, cnt |-> cnt, fail |-> 0]
      BY <1>1 DEF Counting, TestLoc
    <3>2. [l EXCEPT !.i = a] =
            [tests |-> tests, i |-> a, cnt |-> cnt, fail |-> 0]
      BY <3>1
    <3>3. PICK m : m = [l EXCEPT !.i = a]
      OBVIOUS
    <3>4. m = [tests |-> tests, i |-> a, cnt |-> cnt, fail |-> 0]
      BY <3>2, <3>3
    <3>5. [m EXCEPT !.cnt = b] =
            [tests |-> tests, i |-> a, cnt |-> b, fail |-> 0]
      BY <3>4
    <3> QED BY <3>3, <3>5, Zenon DEF TestLoc
  <2> QED BY <2>1, <2>2, <2>3, Zenon
<1> QED BY <1>5, <1>6, <1>7, Zenon DEF Counted

LEMMA syserr_call_row ==
  ASSUME Shaped, NEW p \in Proc, syserr_row(task[p], file_array[p]),
         syserr_call(p)
  PROVE  syserr_row(task'[p], file_array'[p])
<1>1. PICK tests \in Seq(1 .. 8), i \in Nat :
        Testing(task[p], file_array[p], tests, i)
  BY DEF syserr_row, syserr_call, At
<1>2. PICK n : n = tests[1]
  OBVIOUS
<1>3. task[p].loc.tests = tests /\ task[p].loc.i = i
      /\ task[p].status = Running
  BY <1>1 DEF Testing, TestLoc
<1>4. tests # <<>> /\ i <= Len(Tests[n])
  BY <1>2, <1>3 DEF syserr_call
<1>5. n \in 1 .. 8 /\ Len(Tests[n]) \in Nat
  <2>1. n \in 1 .. 8
    BY <1>2, <1>4
  <2> QED BY <2>1, TestLengths
<1>6. PICK call : call = Tests[n][i]
  OBVIOUS
<1>7. DoCall(p, call)
  BY <1>2, <1>3, <1>6, Zenon DEF syserr_call
<1>8. PICK t, table : t = task'[p] /\ table = file_array'[p]
  OBVIOUS
<1>9. i + 1 \in Nat
  OBVIOUS
<1>10. CASE n # 3
  <2>1. /\ task[p].loc = TestLoc(tests, i, 0)
        /\ OpenFds(file_array[p], {}) /\ i \in 1 .. Len(Tests[n]) + 1
    BY <1>1, <1>2, <1>4, <1>10 DEF Testing
  <2>2. i \in 1 .. Len(Tests[n]) /\ i + 1 \in 1 .. Len(Tests[n]) + 1
    BY <1>4, <1>5, <2>1
  <2>3. Wrong(call)
    BY <1>5, <1>6, <1>10, <2>2, TestsWrong
  <2>4. Fails(p, call) /\ UNCHANGED vars
    BY <1>7, <2>1, <2>3, WrongFails
  <2>5. Fails(p, call) # (n = 3)
    BY <1>10, <2>4
  <2>6. PICK more \in Nat : more = 0
    OBVIOUS
  <2>7. Counts(p, tests, i, more)
    BY <1>2, <1>6, <2>5, <2>6, Zenon DEF Counts
  <2>8. Counted(p, tests, i + 1, 0)
    <3>1. PICK cnt \in Nat : cnt = 0
      OBVIOUS
    <3>2. Counting(p, tests, i, cnt)
      BY <2>1, <3>1, Zenon DEF Counting
    <3>3. Counted(p, tests, i + 1, cnt + more)
      BY <2>7, <3>2, CallCounts
    <3>4. cnt + more = 0
      BY <2>6, <3>1
    <3> QED BY <3>3, <3>4, Zenon
  <2>9. /\ t.pc = "test" /\ t.status = Running /\ OpenFds(table, {})
        /\ t.loc = TestLoc(tests, i + 1, 0)
    BY <1>3, <1>8, <2>1, <2>4, <2>8 DEF vars, Counted
  <2>10. Testing(t, table, tests, i + 1)
    BY <1>2, <1>4, <1>9, <1>10, <2>2, <2>9 DEF Testing
  <2> QED BY <1>8, <1>9, <2>10 DEF syserr_row
<1>11. CASE n = 3
  <2>1. PICK cnt \in Nat : cnt = IF i <= 7 THEN 0 ELSE 1
    OBVIOUS
  <2>2. /\ task[p].loc = TestLoc(tests, i, cnt)
        /\ OpenFds(file_array[p], Lots(i)) /\ i \in 1 .. 14
    BY <1>1, <1>2, <1>4, <1>11, <2>1 DEF Testing
  <2>3. i \in 1 .. 13
    BY <1>4, <1>11, <2>2, LotsOfTests
  <2>4. ASSUME NEW more \in Nat, OpenFds(table, Lots(i + 1)),
               cnt + more = IF i + 1 <= 7 THEN 0 ELSE 1,
               more = IF Fails(p, call) /\ call.op # "close" THEN 1 ELSE 0,
               Fails(p, call) \in BOOLEAN
        PROVE  Testing(t, table, tests, i + 1)
    <3>1. Counts(p, tests, i, more)
      BY <1>2, <1>6, <1>11, <2>4 DEF Counts
    <3>2. Counting(p, tests, i, cnt)
      BY <2>2 DEF Counting
    <3>3. Counted(p, tests, i + 1, cnt + more)
      BY <3>1, <3>2, CallCounts
    <3>4. i + 1 \in 1 .. 14
      BY <2>3
    <3> QED
      BY <1>2, <1>3, <1>4, <1>8, <1>9, <1>11, <2>4, <3>3, <3>4
      DEF Testing, Counted
  <2>5. CASE i \in 1 .. 7
    <3>1. call.op = "open" /\ call.x = Dot
      BY <1>6, <1>11, <2>5, LotsOfTests, CallFields
    <3>2. /\ Fails(p, call) <=> Opened(p, Dot) = -1
          /\ Fails(p, call) \in BOOLEAN /\ DoOpen(p, Dot)
      BY <1>7, <3>1 DEF Fails, DoCall
    <3>3. CASE i \in 1 .. 6
      <4>1. ~Fails(p, call) /\ OpenFds(table, Lots(i + 1))
        BY <1>8, <2>2, <3>2, <3>3, lots_open
      <4>2. cnt + 0 = IF i + 1 <= 7 THEN 0 ELSE 1
        BY <2>1, <3>3
      <4> QED BY <1>8, <1>9, <2>4, <3>2, <4>1, <4>2, 0 \in Nat DEF syserr_row
    <3>4. CASE i = 7
      <4>1. OpenFds(file_array[p], UserFd)
        BY <2>2, <3>4, LotsValues
      <4>2. Fails(p, call) /\ UNCHANGED vars
        BY <3>2, <4>1, lots_full
      <4>3. i + 1 = 8
        BY <3>4
      <4>4. OpenFds(table, Lots(i + 1))
        BY <1>8, <4>1, <4>2, <4>3, LotsValues DEF vars
      <4>5. cnt + 1 = IF i + 1 <= 7 THEN 0 ELSE 1
        BY <2>1, <3>4
      <4>6. call.op # "close"
        BY <3>1
      <4> QED
        BY <1>8, <1>9, <2>4, <3>2, <4>2, <4>4, <4>5, <4>6, 1 \in Nat
        DEF syserr_row
    <3> QED BY <2>5, <3>3, <3>4
  <2>6. CASE i \in 8 .. 13
    <3>1. call.op = "close" /\ call.x = i - 6
      BY <1>6, <1>11, <2>6, LotsOfTests, CallFields
    <3>2. DoClose(p, i - 6) /\ Fails(p, call) \in BOOLEAN
      BY <1>7, <3>1 DEF DoCall, Fails
    <3>3. OpenFds(table, Lots(i + 1))
      BY <1>8, <2>2, <2>6, <3>2, lots_close
    <3>4. cnt + 0 = IF i + 1 <= 7 THEN 0 ELSE 1
      BY <2>1, <2>6
    <3> QED
      BY <1>8, <1>9, <2>4, <3>1, <3>2, <3>3, <3>4, 0 \in Nat DEF syserr_row
  <2> QED BY <2>3, <2>5, <2>6
<1> QED BY <1>10, <1>11

-----------------------------------------------------------------------------
(* When read_data fails. *)

\* The bytes from .. to - 1 of the file are in data blocks that exist.
Clear(node, from, to) ==
  \A k \in from .. to - 1 : ~(node.dblock_idx[k \div BLOCKSIZE] >= num_dblock)

\* What one iteration copies is in one block.
LEMMA ClearChunk ==
  ASSUME NEW node, NEW at \in Nat, NEW left \in Nat \ {0}, NEW n,
         n = Chunk(at, left)
  PROVE  Clear(node, at, at + n) <=>
           ~(node.dblock_idx[at \div BLOCKSIZE] >= num_dblock)
<1>1. n \in 1 .. left /\ (at % BLOCKSIZE) + n <= BLOCKSIZE
  BY ChunkBounds
<1>2. at % BLOCKSIZE \in Nat /\ BLOCKSIZE \in Nat \ {0}
  BY BlockSizeType
<1>3. ASSUME NEW k \in at .. at + n - 1
      PROVE  k \div BLOCKSIZE = at \div BLOCKSIZE
  <2>1. PICK j \in Nat : k = at + j /\ j < n
    BY <1>1
  <2>2. (at % BLOCKSIZE) + j < BLOCKSIZE
    BY <1>1, <1>2, <2>1
  <2> QED BY <1>2, <2>1, <2>2, SameBlock
<1>4. at \in at .. at + n - 1
  BY <1>1
<1>5. PICK b : b = at \div BLOCKSIZE
  OBVIOUS
<1>6. \A k \in at .. at + n - 1 : k \div BLOCKSIZE = b
  BY <1>3, <1>5
<1>7. at + n - 1 = (at + n) - 1
  BY <1>1
<1> QED BY <1>4, <1>5, <1>6, <1>7, Zenon DEF Clear

LEMMA ClearParts ==
  ASSUME NEW node, NEW a \in Nat, NEW b \in Nat, NEW c \in Nat,
         a <= b, b <= c
  PROVE  Clear(node, a, c) <=> Clear(node, a, b) /\ Clear(node, b, c)
<1>1. \A k : k \in a .. c - 1 <=> k \in a .. b - 1 \/ k \in b .. c - 1
  OBVIOUS
<1> QED BY <1>1, Zenon DEF Clear

\* The loop fails when a block that it comes to does not exist.
LEMMA LoopFails ==
  ASSUME NEW node, NEW offset \in Nat, NEW length \in Nat
  PROVE  \A left \in 0 .. length :
           Loop(node, offset, length)[left].ret # -1 <=>
             Clear(node, offset + (length - left), offset + length)
<1> DEFINE loop == Loop(node, offset, length)
           at(left) == offset + (length - left)
           Right(left) ==
             loop[left].ret # -1 <=> Clear(node, at(left), offset + length)
           S == {left \in Nat : left <= length => Right(left)}
<1>1. \A left \in 0 .. length :
        loop[left] = Iteration(node, offset, length, loop, left)
  BY LoopExists
<1>2. \A left \in 0 .. length : loop[left].ret # -1 => loop[left].ret = left
  <2> SUFFICES ASSUME NEW left \in 0 .. length, loop[left].ret # -1
               PROVE  loop[left].ret = left
    OBVIOUS
  <2>1. loop[left] = [ret  |-> left,
                      data |-> Window(ByteAt(node), at(left), left)]
    BY LoopValue, Zenon
  <2> HIDE DEF loop
  <2> QED BY <2>1
<1> HIDE DEF loop
<1>3. ASSUME NEW left \in Nat, \A m \in 0 .. left - 1 : m \in S
      PROVE  left \in S
  <2> SUFFICES ASSUME left <= length PROVE Right(left)
    OBVIOUS
  <2>1. CASE left = 0
    <3>1. loop[left] = [ret |-> 0, data |-> <<>>]
      <4>1. left \in 0 .. length
        OBVIOUS
      <4> QED BY <1>1, <2>1, <4>1, Zenon DEF Iteration
    <3>2. Clear(node, at(left), offset + length)
      BY <2>1 DEF Clear
    <3> QED BY <3>1, <3>2
  <2>2. CASE left # 0
    <3>1. PICK begin : begin = at(left)
      OBVIOUS
    <3>2. PICK n : n = Chunk(begin, left)
      OBVIOUS
    <3>3. PICK block : block = node.dblock_idx[begin \div BLOCKSIZE]
      OBVIOUS
    <3>4. PICK bytes, rest :
            bytes = Copied(block, begin, n) /\ rest = loop[left - n]
      OBVIOUS
    <3>5. begin \in Nat /\ left \in Nat \ {0} /\ left \in 0 .. length
      BY <2>2, <3>1
    <3>6. n \in 1 .. left
      BY <3>2, <3>5, ChunkBounds
    <3>7. loop[left] =
            IF block >= num_dblock THEN Failed(<<>>)
            ELSE IF rest.ret = -1 THEN Failed(bytes \o rest.data)
            ELSE [ret |-> n + rest.ret, data |-> bytes \o rest.data]
      BY <1>1, <2>2, <3>1, <3>2, <3>3, <3>4, <3>5, Zenon DEF Iteration
    <3>8. /\ left - n \in 0 .. left - 1 /\ left - n \in 0 .. length
          /\ at(left - n) = begin + n /\ begin + n <= offset + length
      BY <3>1, <3>5, <3>6
    <3>9. rest.ret # -1 => n + rest.ret # -1
      <4>1. rest.ret # -1 => rest.ret = left - n
        BY <1>2, <3>4, <3>8
      <4> QED BY <3>5, <3>6, <4>1
    <3>10. loop[left].ret # -1 <=> ~(block >= num_dblock) /\ rest.ret # -1
      BY <3>7, <3>9 DEF Failed
    <3>11. rest.ret # -1 <=> Clear(node, begin + n, offset + length)
      <4>1. Right(left - n)
        BY <1>3, <3>8
      <4> QED BY <3>4, <3>8, <4>1
    <3>12. ~(block >= num_dblock) <=> Clear(node, begin, begin + n)
      BY <3>2, <3>3, <3>5, ClearChunk
    <3>13. Clear(node, begin, offset + length) <=>
             Clear(node, begin, begin + n)
             /\ Clear(node, begin + n, offset + length)
      <4>1. PICK b \in Nat, c \in Nat : b = begin + n /\ c = offset + length
        BY <3>5, <3>6
      <4>2. begin <= b /\ b <= c
        BY <3>5, <3>6, <3>8, <4>1
      <4>3. Clear(node, begin, c) <=>
              Clear(node, begin, b) /\ Clear(node, b, c)
        BY <3>5, <4>2, ClearParts
      <4> QED BY <4>1, <4>3
    <3> QED BY <3>1, <3>10, <3>11, <3>12, <3>13
  <2> QED BY <2>1, <2>2
<1>4. S = Nat
  <2> HIDE DEF S
  <2> QED BY <1>3, StrongInduction, S \in SUBSET Nat DEF S
<1>5. \A left \in 0 .. length : Right(left)
  BY <1>4
<1> QED BY <1>5, Zenon DEF loop

\* A read before the end of a file: it gives one byte or more, or it comes to
\* a block that does not exist.
LEMMA read_data_more ==
  ASSUME NEW inode \in DOMAIN inodes, NEW length \in Nat \ {0},
         NEW offset \in Nat, offset < inodes[inode].length
  PROVE  \E n \in 1 .. inodes[inode].length - offset :
           IF Clear(inodes[inode], offset, offset + n)
           THEN read_data(inode, offset, length) =
                  [ret  |-> n,
                   data |-> Window(ByteAt(inodes[inode]), offset, n)]
           ELSE read_data(inode, offset, length).ret = -1
<1>1. PICK node : node = inodes[inode]
  OBVIOUS
<1>2. node.length \in Nat /\ inode < num_inode /\ inode \in Int
      /\ num_inode \in Nat
  BY <1>1, FilesAssumption
<1>3. PICK n : n = IF length + offset >= node.length
                   THEN node.length - offset ELSE length
  OBVIOUS
<1>4. n \in 1 .. node.length - offset /\ n \in Nat
  BY <1>1, <1>2, <1>3
<1>5. read_data(inode, offset, length) = ReadLoop(node, offset, n)
  BY <1>1, <1>2, <1>3 DEF read_data
<1>6. ReadLoop(node, offset, n).ret # -1 <=> Clear(node, offset, offset + n)
  <2>1. ReadLoop(node, offset, n) = Loop(node, offset, n)[n]
    BY ReadLoopUnfolds
  <2>2. n \in 0 .. n /\ offset + (n - n) = offset
    BY <1>4
  <2>3. Loop(node, offset, n)[n].ret # -1 <=>
          Clear(node, offset + (n - n), offset + n)
    BY <1>4, <2>2, LoopFails, Zenon
  <2> QED BY <2>1, <2>2, <2>3
<1>7. ReadLoop(node, offset, n).ret # -1 =>
        ReadLoop(node, offset, n) =
          [ret |-> n, data |-> Window(ByteAt(node), offset, n)]
  BY <1>4, ReadLoopValue
<1> QED BY <1>1, <1>4, <1>5, <1>6, <1>7

-----------------------------------------------------------------------------
(* cat: what there is to show of the i-th file of the directory. *)

IsRtc(i)  == dir_entry[i - 1].file_type = RTC_FILETYPE
IsDir(i)  == dir_entry[i - 1].file_type = DIR_FILETYPE
IsFile(i) == dir_entry[i - 1].file_type = FILE_FILETYPE

Inode(i) == dir_entry[i - 1].inode_idx
Node(i)  == inodes[Inode(i)]

LEMMA Kinds ==
  ASSUME NEW i \in 1 .. num_dentry
  PROVE  /\ IsRtc(i) \/ IsDir(i) \/ IsFile(i)
         /\ ~(IsRtc(i) /\ IsDir(i)) /\ ~(IsRtc(i) /\ IsFile(i))
         /\ ~(IsDir(i) /\ IsFile(i))
         /\ IsFile(i) => Inode(i) \in DOMAIN inodes /\ Node(i).length \in Nat
<1>1. PICK j \in DOMAIN dir_entry : j = i - 1
  BY NamesPlain
<1>2. /\ dir_entry[j].file_type \in {RTC_FILETYPE, DIR_FILETYPE, FILE_FILETYPE}
      /\ dir_entry[j].file_type = FILE_FILETYPE =>
           dir_entry[j].inode_idx \in DOMAIN inodes
  BY DiskAssumption
<1>3. \A n \in DOMAIN inodes : inodes[n].length \in Nat
  BY FilesAssumption
<1> QED
  BY <1>1, <1>2, <1>3
  DEF IsRtc, IsDir, IsFile, Inode, Node, RTC_FILETYPE, DIR_FILETYPE,
      FILE_FILETYPE

\* The characters of a file as they are shown.
ShownAt(blocks, node) ==
  [k \in Nat |->
     IF blocks[ByteAt(node)[k][1]][ByteAt(node)[k][2]] = NUL THEN " "
     ELSE blocks[ByteAt(node)[k][1]][ByteAt(node)[k][2]]]

LEMMA ShownWindow ==
  ASSUME NEW node, NEW k \in Nat, NEW n \in Nat
  PROVE  Shown(Text(Window(ByteAt(node), k, n))) =
           Window(ShownAt(dblock, node), k, n)
<1>1. PICK F : F = ByteAt(node)
  OBVIOUS
<1>2. PICK w : w = Window(F, k, n)
  OBVIOUS
<1>3. DOMAIN w = 1 .. n /\ \A i \in 1 .. n : w[i] = F[k + i - 1]
  BY <1>2 DEF Window
<1>4. PICK t : t = Text(w)
  OBVIOUS
<1>5. /\ DOMAIN t = 1 .. n
      /\ \A i \in 1 .. n : t[i] = dblock[F[k + i - 1][1]][F[k + i - 1][2]]
  BY <1>3, <1>4 DEF Text
<1>6. PICK G : G = ShownAt(dblock, node)
  OBVIOUS
<1>7. \A j \in Nat : G[j] = IF dblock[F[j][1]][F[j][2]] = NUL THEN " "
                            ELSE dblock[F[j][1]][F[j][2]]
  BY <1>1, <1>6 DEF ShownAt
<1>8. \A i \in 1 .. n : k + i - 1 \in Nat
  OBVIOUS
<1>9. \A i \in 1 .. n :
        (IF t[i] = NUL THEN " " ELSE t[i]) = G[k + i - 1]
  BY <1>5, <1>7, <1>8, Zenon
<1>10. Shown(t) = [i \in 1 .. n |-> G[k + i - 1]]
  BY <1>5, <1>9, Zenon DEF Shown
<1> QED BY <1>1, <1>2, <1>4, <1>6, <1>10, Zenon DEF Window

\* How many pieces the file has, and the first k of them: names of the
\* directory, bytes of a file.
Size(i) ==
  IF IsFile(i) THEN Node(i).length ELSE IF IsDir(i) THEN num_dentry ELSE 0

Part(blocks, i, k) ==
  IF IsFile(i) THEN Window(ShownAt(blocks, Node(i)), 0, k)
  ELSE IF IsDir(i) THEN FlatTo(Names, k) ELSE <<>>

LEMMA SizeType ==
  ASSUME NEW i \in 1 .. num_dentry
  PROVE  Size(i) \in Nat
  BY Kinds, NamesPlain DEF Size

LEMMA WindowJoin ==
  ASSUME NEW blocks, NEW node, NEW k \in Nat, NEW n \in Nat, NEW m \in Nat
  PROVE  LET F == ShownAt(blocks, node)
         IN  Joined(Window(F, k, n), Window(F, k + n, m), Window(F, k, n + m))
<1>1. PICK F : F = ShownAt(blocks, node)
  OBVIOUS
<1>2. PICK S : S = {F[j] : j \in Nat}
  OBVIOUS
<1>3. F \in [Nat -> S]
  BY <1>1, <1>2 DEF ShownAt
<1>4. Window(F, k, n) \o Window(F, k + n, m) = Window(F, k, n + m)
  BY ONLY <1>3, k \in Nat, n \in Nat, m \in Nat, WindowConcat
<1> QED BY <1>1, <1>4, Zenon DEF Joined

LEMMA PartEmpty ==
  ASSUME NEW blocks, NEW i \in 1 .. num_dentry
  PROVE  Part(blocks, i, 0) = <<>>
<1>1. CASE IsFile(i)
  BY <1>1 DEF Part, Window
<1>2. CASE ~IsFile(i)
  BY <1>2, FlatToStep, NamesPlain DEF Part
<1> QED BY <1>1, <1>2

LEMMA PartPrefix ==
  ASSUME NEW blocks, NEW i \in 1 .. num_dentry, NEW k \in 0 .. Size(i)
  PROVE  IsPrefix(Part(blocks, i, k), Part(blocks, i, Size(i)))
<1>1. CASE IsFile(i)
  <2>1. PICK F : F = ShownAt(blocks, Node(i))
    OBVIOUS
  <2>2. PICK S : S = {F[j] : j \in Nat}
    OBVIOUS
  <2>3. F \in [Nat -> S]
    BY <2>1, <2>2 DEF ShownAt
  <2>4. PICK n : n = Size(i)
    OBVIOUS
  <2>5. n \in Nat /\ k \in Nat /\ k <= n
    BY <2>4, SizeType
  <2>6. PICK a, b : a = Window(F, 0, k) /\ b = Window(F, 0, n)
    OBVIOUS
  <2>7. /\ a \in Seq(S) /\ Len(a) = k /\ b \in Seq(S) /\ Len(b) = n
    BY <2>3, <2>5, <2>6, WindowSeq
  <2>8. \A j \in 1 .. k : a[j] = b[j]
    BY <2>5, <2>6 DEF Window
  <2>9. IsPrefix(a, b)
    BY <2>5, <2>7, <2>8, PrefixByPlace
  <2> QED BY <1>1, <2>1, <2>4, <2>6, <2>9 DEF Part
<1>2. CASE ~IsFile(i) /\ IsDir(i)
  <2>1. Size(i) = Len(Names) /\ Names \in Seq(Seq(Plain))
    BY <1>2, NamesPlain DEF Size
  <2>2. IsPrefix(FlatTo(Names, k), FlattenSeq(Names))
    BY <2>1, FlatToPrefix
  <2>3. FlatTo(Names, Len(Names)) = FlattenSeq(Names)
    BY <2>1, FlatToAll
  <2> QED BY <1>2, <2>1, <2>2, <2>3 DEF Part
<1>3. CASE ~IsFile(i) /\ ~IsDir(i)
  <2>1. PICK s : s = <<>>
    OBVIOUS
  <2>2. s \in Seq(Plain) /\ Len(s) = 0
    BY <2>1
  <2>3. Len(s) <= Len(s) /\ \A j \in 1 .. Len(s) : s[j] = s[j]
    BY <2>2
  <2>4. IsPrefix(s, s)
    BY <2>2, <2>3, PrefixByPlace
  <2> QED BY <1>3, <2>1, <2>4 DEF Part
<1> QED BY <1>1, <1>2, <1>3

LEMMA UnreadableFile ==
  ASSUME NEW i \in 1 .. num_dentry, IsFile(i)
  PROVE  Unreadable(i) <=> ~Clear(Node(i), 0, Size(i))
<1>1. PICK node, n : node = Node(i) /\ n = node.length
  OBVIOUS
<1>2. n \in Nat /\ n = Size(i)
  BY <1>1, Kinds DEF Size
<1>3. PICK c : c = Content(Inode(i))
  OBVIOUS
<1>4. /\ DOMAIN c = 1 .. n
      /\ \A k \in 1 .. n :
           c[k][1] = node.dblock_idx[(k - 1) \div BLOCKSIZE]
  BY <1>1, <1>3 DEF Content, Node
<1>5. Unreadable(i) <=> \E k \in 1 .. n : c[k][1] >= num_dblock
  BY <1>3, <1>4 DEF Unreadable, IsFile, Inode
<1>6. Clear(node, 0, n) <=>
        \A k \in 0 .. n - 1 :
          ~(node.dblock_idx[k \div BLOCKSIZE] >= num_dblock)
  BY Zenon DEF Clear
<1>7. ASSUME NEW k \in 1 .. n, c[k][1] >= num_dblock
      PROVE  ~Clear(node, 0, n)
  <2>1. k - 1 \in 0 .. n - 1
    BY <1>2
  <2> QED BY <1>4, <1>6, <1>7, <2>1
<1>8. ASSUME NEW k \in 0 .. n - 1,
             node.dblock_idx[k \div BLOCKSIZE] >= num_dblock
      PROVE  \E j \in 1 .. n : c[j][1] >= num_dblock
  <2>1. PICK j \in 1 .. n : j - 1 = k
    BY <1>2
  <2> QED BY <1>4, <1>8, <2>1
<1> QED BY <1>1, <1>2, <1>5, <1>6, <1>7, <1>8

\* All the pieces are what the file holds, when it can be read.
LEMMA PartAll ==
  ASSUME NEW i \in 1 .. num_dentry, ~Unreadable(i)
  PROVE  Shown(Holds(i)) = Part(dblock, i, Size(i))
<1>1. CASE IsFile(i)
  <2>1. PICK node, n : node = Node(i) /\ n = node.length
    OBVIOUS
  <2>2. n \in Nat /\ n = Size(i)
    BY <1>1, <2>1, Kinds DEF Size
  <2>3. Holds(i) = Text(Content(Inode(i)))
    BY <1>1, Kinds DEF Holds, IsRtc, IsDir, IsFile, Inode
  <2>4. \A k \in 1 .. n : 0 + k - 1 = k - 1 /\ k - 1 \in Nat
    BY <2>2
  <2>5. Content(Inode(i)) = Window(ByteAt(node), 0, n)
    BY <2>1, <2>4 DEF Content, Node, Window, ByteAt
  <2>6. Shown(Text(Window(ByteAt(node), 0, n))) =
          Window(ShownAt(dblock, node), 0, n)
    BY <2>2, 0 \in Nat, ShownWindow
  <2> QED BY <1>1, <2>1, <2>2, <2>3, <2>5, <2>6, Zenon DEF Part
<1>2. CASE ~IsFile(i) /\ IsDir(i)
  <2>1. Size(i) = Len(Names) /\ Names \in Seq(Seq(Plain))
    BY <1>2, NamesPlain DEF Size
  <2>2. Holds(i) = FlattenSeq(Names)
    BY <1>2, Kinds DEF Holds, IsRtc, IsDir
  <2>3. FlatTo(Names, Len(Names)) = FlattenSeq(Names)
    BY <2>1, FlatToAll
  <2>4. FlatTo(Names, Len(Names)) \in Seq(Plain)
    <3>1. Len(Names) \in 0 .. Len(Names)
      BY <2>1
    <3> QED BY <2>1, <3>1, FlatToStep
  <2>5. Shown(FlatTo(Names, Len(Names))) = FlatTo(Names, Len(Names))
    BY <2>4, ShownPlain
  <2> QED BY <1>2, <2>1, <2>2, <2>3, <2>5, Zenon DEF Part
<1>3. CASE ~IsFile(i) /\ ~IsDir(i)
  <2>1. Holds(i) = <<>>
    BY <1>3, Kinds DEF Holds, IsRtc, IsDir
  <2>2. <<>> \in Seq(Plain)
    OBVIOUS
  <2>3. Shown(<<>>) = <<>>
    BY <2>2, ShownPlain
  <2> QED BY <1>3, <2>1, <2>3 DEF Part
<1> QED BY <1>1, <1>2, <1>3

-----------------------------------------------------------------------------
(* cat: its descriptor. *)

OpsOf(i) == IF IsFile(i) THEN "file" ELSE IF IsDir(i) THEN "dir" ELSE "rtc"

\* The entry of the table for the i-th file, with k pieces read.
EntryAt(i, k) ==
  [ops |-> OpsOf(i), inode |-> IF IsFile(i) THEN Inode(i) ELSE 0,
   file_pos |-> k, flag |-> 1]

CatFd(table, fd, i, k) ==
  /\ DOMAIN table = Fd /\ fd \in UserFd /\ table[1] = stdout
  /\ table[fd] = EntryAt(i, k)
  /\ k \in 0 .. Size(i)
  /\ IsFile(i) => Clear(Node(i), 0, k)

\* A step that moves the position of one descriptor.
LEMMA PositionMoves ==
  ASSUME Shaped, NEW p \in Proc, NEW fd, NEW i, NEW k, NEW n,
         CatFd(file_array[p], fd, i, k),
         file_array' = [file_array EXCEPT ![p][fd].file_pos = @ + n],
         NEW j, j = k + n, j \in 0 .. Size(i),
         IsFile(i) => Clear(Node(i), 0, j)
  PROVE  CatFd(file_array'[p], fd, i, j)
<1>1. PICK table : table = file_array[p]
  OBVIOUS
<1>2. fd \in Fd /\ fd # 1 /\ 1 \in Fd
  BY Constants DEF CatFd
<1>3. DOMAIN table = Fd /\ table[1] = stdout /\ table[fd] = EntryAt(i, k)
  BY <1>1 DEF CatFd
<1>4. file_array'[p] = [table EXCEPT ![fd].file_pos = @ + n]
  BY <1>1 DEF Shaped
<1>5. PICK after : after = file_array'[p]
  OBVIOUS
<1>6. /\ DOMAIN after = Fd /\ after[1] = stdout
      /\ after[fd] = [EntryAt(i, k) EXCEPT !.file_pos = @ + n]
  BY <1>2, <1>3, <1>4, <1>5
<1>7. [EntryAt(i, k) EXCEPT !.file_pos = @ + n] = EntryAt(i, j)
  BY DEF EntryAt
<1> QED BY <1>5, <1>6, <1>7 DEF CatFd

\* What the read has to do with the pieces of the file.
CatRead(p, fd, i, k, r) ==
  \/ r.ret = 0 /\ k = Size(i) /\ ~Unreadable(i)
  \/ r.ret = -1 /\ Unreadable(i)
  \/ /\ r.ret # 0 /\ r.ret # -1
     /\ \E j : /\ CatFd(file_array'[p], fd, i, j)
               /\ Joined(Part(dblock, i, k), Shown(r.data), Part(dblock, i, j))

LEMMA cat_read_rtc ==
  ASSUME NEW p \in Proc, NEW fd, NEW i \in 1 .. num_dentry, NEW k,
         CatFd(file_array[p], fd, i, k), IsRtc(i),
         NEW r, r = ReadResult(p, fd, BUFSIZE)
  PROVE  CatRead(p, fd, i, k, r)
<1>1. ~IsFile(i) /\ ~IsDir(i)
  BY Kinds
<1>2. ReadOps(p, fd, BUFSIZE) = "rtc"
  BY <1>1, Constants, ProgramsAssumption DEF ReadOps, CatFd, EntryAt, OpsOf
<1>3. r = [ret |-> 0, data |-> <<>>]
  BY <1>2 DEF ReadResult
<1>4. k = Size(i)
  BY <1>1 DEF CatFd, Size
<1>5. ~Unreadable(i)
  BY <1>1 DEF Unreadable, IsFile
<1> QED BY <1>3, <1>4, <1>5 DEF CatRead

LEMMA cat_read_dir ==
  ASSUME Shaped, NEW p \in Proc, NEW fd, NEW i \in 1 .. num_dentry, NEW k,
         CatFd(file_array[p], fd, i, k), IsDir(i), DoRead(p, fd, BUFSIZE),
         NEW r, r = ReadResult(p, fd, BUFSIZE)
  PROVE  CatRead(p, fd, i, k, r)
<1>1. ~IsFile(i) /\ Size(i) = num_dentry /\ num_dentry \in Nat
  BY Kinds, NamesPlain DEF Size
<1>2. ~Unreadable(i)
  BY <1>1 DEF Unreadable, IsFile
<1>3. DirAt(file_array[p], fd, k) /\ k \in 0 .. num_dentry
  BY <1>1, Constants DEF CatFd, DirAt, EntryAt, OpsOf
<1>4. BUFSIZE \in Nat /\ MAXCHAR <= BUFSIZE
  BY ProgramsAssumption, FilesAssumption
<1>5. /\ r = IF k = num_dentry THEN [ret |-> 0, data |-> <<>>]
             ELSE [ret |-> Len(Names[k + 1]), data |-> Names[k + 1]]
      /\ dir_read(p, fd, BUFSIZE)
  BY <1>3, <1>4, DirRead
<1>6. CASE k = num_dentry
  BY <1>1, <1>2, <1>5, <1>6 DEF CatRead
<1>7. CASE k # num_dentry
  <2>1. PICK j \in 1 .. num_dentry : j = k + 1 /\ j - 1 = k
    BY <1>1, <1>3, <1>7
  <2>2. PICK s \in Seq(Plain) : s = Names[j] /\ Len(s) \in 1 .. MAXCHAR - 1
    BY NamesPlain
  <2>3. r.ret = Len(s) /\ r.data = s /\ r.ret # 0 /\ r.ret # -1
    BY <1>5, <1>7, <2>1, <2>2
  <2>4. ~(file_array[p][fd].file_pos >= num_dentry)
    BY <1>1, <1>3, <1>7 DEF DirAt
  <2>5. file_array' = [file_array EXCEPT ![p][fd].file_pos = @ + 1]
    BY <1>5, <2>4 DEF dir_read
  <2>6. j \in 0 .. Size(i)
    BY <1>1
  <2>7. CatFd(file_array'[p], fd, i, j)
    BY <1>1, <2>1, <2>5, <2>6, PositionMoves
  <2>8. Joined(FlatTo(Names, j - 1), Names[j], FlatTo(Names, j))
    BY FlatToStep, NamesPlain
  <2>9. Shown(r.data) = Names[j]
    BY <2>2, <2>3, ShownPlain
  <2>10. Joined(Part(dblock, i, k), Shown(r.data), Part(dblock, i, j))
    BY <1>1, <2>1, <2>8, <2>9, Zenon DEF Part
  <2> QED BY <2>3, <2>7, <2>10, Zenon DEF CatRead
<1> QED BY <1>6, <1>7

LEMMA cat_read_file ==
  ASSUME Shaped, NEW p \in Proc, NEW fd, NEW i \in 1 .. num_dentry, NEW k,
         CatFd(file_array[p], fd, i, k), IsFile(i), DoRead(p, fd, BUFSIZE),
         NEW r, r = ReadResult(p, fd, BUFSIZE)
  PROVE  CatRead(p, fd, i, k, r)
<1>1. PICK inode, node : inode = Inode(i) /\ node = inodes[inode]
  OBVIOUS
<1>2. /\ inode \in DOMAIN inodes /\ node.length \in Nat
      /\ Size(i) = node.length
  BY <1>1, Kinds DEF Size, Node
<1>3. k \in 0 .. node.length /\ k \in Nat /\ Clear(node, 0, k)
  BY <1>1, <1>2 DEF CatFd, Node
<1>4. BUFSIZE \in Nat \ {0}
  BY ProgramsAssumption, FilesAssumption
<1>5. /\ file_array[p][fd].inode = inode /\ file_array[p][fd].file_pos = k
      /\ file_array[p][fd].ops = "file" /\ file_array[p][fd].flag = 1
      /\ fd \in Fd
  BY <1>1, Constants DEF CatFd, EntryAt, OpsOf
<1>6. ReadOps(p, fd, BUFSIZE) = "file"
  BY <1>4, <1>5 DEF ReadOps
<1>7. PICK read : read = read_data(inode, k, BUFSIZE)
  OBVIOUS
<1>8. FileRead(p, fd, BUFSIZE) = read
  BY <1>5, <1>7 DEF FileRead
<1>9. r = [read EXCEPT !.data = Text(@)]
  BY <1>6, <1>8 DEF ReadResult
<1>10. Unreadable(i) <=> ~Clear(node, 0, node.length)
  BY <1>1, <1>2, UnreadableFile DEF Node
<1>11. CASE k = node.length
  <2>1. inode < num_inode /\ inode \in Int /\ num_inode \in Nat
    BY <1>2, FilesAssumption
  <2>2. read = [ret |-> 0, data |-> <<>>]
    BY <1>1, <1>2, <1>7, <1>11, <2>1 DEF read_data
  <2>3. r.ret = 0
    BY <1>9, <2>2
  <2> QED BY <1>2, <1>3, <1>10, <1>11, <2>3 DEF CatRead
<1>12. CASE k # node.length
  <2>1. k < inodes[inode].length
    BY <1>1, <1>2, <1>3, <1>12
  <2>2. PICK n \in 1 .. node.length - k :
          IF Clear(node, k, k + n)
          THEN read = [ret |-> n, data |-> Window(ByteAt(node), k, n)]
          ELSE read.ret = -1
    BY <1>1, <1>2, <1>3, <1>4, <1>7, <2>1, read_data_more
  <2>3. PICK j : j = k + n
    OBVIOUS
  <2>4. /\ j \in Nat /\ n \in Nat /\ n # 0 /\ n # -1 /\ j \in 0 .. node.length
        /\ k <= j /\ j <= node.length /\ 0 <= k
    BY <1>2, <1>3, <2>3
  <2>5. CASE ~Clear(node, k, j)
    <3>1. ~Clear(node, k, node.length)
      BY <1>2, <1>3, <2>4, <2>5, ClearParts
    <3>2. ~Clear(node, 0, node.length)
      BY <1>2, <1>3, <2>4, <3>1, ClearParts
    <3>3. read.ret = -1
      BY <2>2, <2>3, <2>5
    <3>4. FileRead(p, fd, BUFSIZE).ret = -1
      BY <1>8, <3>3
    <3>5. r.ret = -1
      BY <1>9, <3>3
    <3> QED BY <1>10, <3>2, <3>5 DEF CatRead
  <2>6. CASE Clear(node, k, j)
    <3>1. PICK w : w = Window(ByteAt(node), k, n)
      OBVIOUS
    <3>2. read = [ret |-> n, data |-> w]
      BY <2>2, <2>3, <2>6, <3>1
    <3>3. PICK text : text = Text(w)
      OBVIOUS
    <3>4. r.ret = n /\ r.data = text
      BY <1>9, <3>2, <3>3
    <3>5. file_read(p, fd, BUFSIZE)
      <4>1. FileRead(p, fd, BUFSIZE).ret # -1
        BY <1>8, <2>4, <3>2
      <4> QED BY <1>6, <4>1 DEF DoRead
    <3>6. file_array' = [file_array EXCEPT ![p][fd].file_pos = @ + n]
      <4>1. file_array' =
              [file_array EXCEPT ![p][fd].file_pos = @ + read.ret]
        BY <1>5, <1>7, <3>5, Zenon DEF file_read
      <4>2. read.ret = n
        BY <3>2
      <4> QED BY <4>1, <4>2, Zenon
    <3>7. Clear(Node(i), 0, j)
      <4>1. Clear(node, 0, j)
        BY <1>3, <2>4, <2>6, ClearParts
      <4> QED BY <1>1, <4>1 DEF Node
    <3>8. CatFd(file_array'[p], fd, i, j)
      BY <1>2, <2>3, <2>4, <3>6, <3>7, PositionMoves
    <3>9. Shown(text) = Window(ShownAt(dblock, node), k, n)
      BY <1>3, <2>4, <3>1, <3>3, ShownWindow
    <3>10. Joined(Window(ShownAt(dblock, node), 0, k),
                  Window(ShownAt(dblock, node), 0 + k, n),
                  Window(ShownAt(dblock, node), 0, k + n))
      BY <1>3, <2>4, 0 \in Nat, WindowJoin, Zenon
    <3>11. 0 + k = k
      BY <1>3
    <3>12. Joined(Part(dblock, i, k), Shown(r.data), Part(dblock, i, j))
      BY <1>1, <2>3, <3>4, <3>9, <3>10, <3>11, Zenon DEF Part, Node
    <3> QED BY <2>4, <3>4, <3>8, <3>12, Zenon DEF CatRead
  <2> QED BY <2>5, <2>6
<1> QED BY <1>11, <1>12

-----------------------------------------------------------------------------
(* cat: the steps. *)

\* At most one file has the name that the argument of cat stands for.
LEMMA ExactName ==
  ASSUME NEW arg \in Args["cat"]
  PROVE  /\ Matches(arg) = {j \in DOMAIN dir_entry :
                              dir_entry[j].file_name = CutName(arg)}
         /\ \A i \in 1 .. num_dentry : Names[i] = CutName(arg) =>
              /\ Matches(arg) # {} /\ ~Refused(arg)
              /\ read_dentry_by_name(arg) = dir_entry[i - 1]
         /\ Matches(arg) # {} =>
              \E i \in 1 .. num_dentry : Names[i] = CutName(arg)
<1>1. arg \in Seq(STRING) /\ MAXCHAR \in Nat \ {0}
  BY DiskAssumption, FilesAssumption
<1>2. PICK cut : cut = CutName(arg) /\ cut = Cut(arg, MAXCHAR - 1)
  BY DEF CutName
<1>3. ASSUME NEW j \in DOMAIN dir_entry
      PROVE  Cut(dir_entry[j].file_name, MAXCHAR - 1) = dir_entry[j].file_name
  <2>1. PICK s \in Seq(STRING) : s = dir_entry[j].file_name
    BY FilesAssumption
  <2>2. Len(s) < MAXCHAR
    BY <2>1, ProgramsAssumption
  <2>3. Cut(s, MAXCHAR - 1) = s
    BY <1>1, <2>2 DEF Cut
  <2> QED BY <2>1, <2>3
<1>4. Matches(arg) =
        {j \in DOMAIN dir_entry : dir_entry[j].file_name = cut}
  BY <1>2, <1>3 DEF Matches, SameName
<1>5. ASSUME NEW i \in 1 .. num_dentry, Names[i] = cut
      PROVE  /\ Matches(arg) # {} /\ ~Refused(arg)
             /\ read_dentry_by_name(arg) = dir_entry[i - 1]
  <2>1. PICK j \in DOMAIN dir_entry : j = i - 1
    BY NamesPlain
  <2>2. dir_entry[j].file_name = cut
    BY <1>5, <2>1, NamesPlain
  <2>3. /\ cut # <<>> /\ cut[1] # " "
        /\ \A m \in DOMAIN dir_entry : dir_entry[m].file_name = cut => m = j
    BY <2>2, DiskAssumption
  <2>4. j \in Matches(arg) /\ \A m \in Matches(arg) : m = j
    BY <1>4, <2>2, <2>3
  <2>5. PICK m \in Matches(arg) : read_dentry_by_name(arg) = dir_entry[m]
    BY <2>4, read_dentry_by_name_value
  <2>6. arg # <<>> /\ arg[1] = cut[1]
    <3>1. CASE Len(arg) <= MAXCHAR - 1
      BY <1>2, <2>3, <3>1 DEF Cut
    <3>2. CASE ~(Len(arg) <= MAXCHAR - 1)
      <4>1. cut = SubSeq(arg, 1, MAXCHAR - 1)
        BY <1>2, <3>2 DEF Cut
      <4>2. Len(arg) \in Nat /\ MAXCHAR - 1 \in 0 .. Len(arg)
        BY <1>1, <3>2
      <4>3. Len(cut) = MAXCHAR - 1 /\ cut \in Seq(STRING)
        BY <1>1, <4>1, <4>2
      <4>4. Len(cut) >= 1
        <5>1. Len(cut) # 0
          BY <2>3, <4>3, EmptySeq
        <5> QED BY <1>1, <4>3, <5>1
      <4>5. cut[1] = arg[1]
        BY <1>1, <4>1, <4>2, <4>3, <4>4
      <4>6. Len(arg) # 0
        BY <4>2, <4>3, <4>4
      <4> QED BY <1>1, <4>5, <4>6
    <3> QED BY <3>1, <3>2
  <2> QED BY <2>1, <2>3, <2>4, <2>5, <2>6 DEF Refused
<1>6. ASSUME NEW j \in Matches(arg)
      PROVE  \E i \in 1 .. num_dentry : Names[i] = cut
  <2>1. j \in DOMAIN dir_entry /\ dir_entry[j].file_name = cut
    BY <1>4
  <2>2. PICK i \in 1 .. num_dentry : i - 1 = j
    <3>1. num_dentry \in Nat /\ j \in 0 .. num_dentry - 1
      BY <2>1, NamesPlain
    <3>2. j + 1 \in 1 .. num_dentry /\ (j + 1) - 1 = j
      BY <3>1
    <3> QED BY <3>2
  <2> QED BY <2>1, <2>2, NamesPlain
<1> QED BY <1>2, <1>4, <1>5, <1>6

LEMMA DistinctNames ==
  ASSUME NEW i \in 1 .. num_dentry, NEW j \in 1 .. num_dentry,
         Names[i] = Names[j]
  PROVE  i = j
<1>1. PICK a \in DOMAIN dir_entry, b \in DOMAIN dir_entry :
        a = i - 1 /\ b = j - 1
  BY NamesPlain
<1>2. dir_entry[a].file_name = dir_entry[b].file_name
  BY <1>1, NamesPlain
<1>3. a = b
  BY <1>2, DiskAssumption
<1> QED BY <1>1, <1>3

LEMMA NewEntry ==
  ASSUME NEW i \in 1 .. num_dentry
  PROVE  [Element(dir_entry[i - 1]) EXCEPT !.flag = 1] = EntryAt(i, 0)
<1>1. PICK e : e = dir_entry[i - 1]
  OBVIOUS
<1>2. Element(e) = [ops |-> OpsOf(i),
                    inode |-> IF IsFile(i) THEN Inode(i) ELSE 0,
                    file_pos |-> 0, flag |-> 0]
  <2>1. CASE IsRtc(i)
    <3>1. ~IsDir(i) /\ ~IsFile(i)
      BY <2>1, Kinds
    <3>2. Element(e) = [NoFile EXCEPT !.ops = "rtc"]
      BY <1>1, <2>1, <3>1 DEF Element, IsRtc, IsDir, IsFile
    <3> QED BY <3>1, <3>2 DEF NoFile, OpsOf
  <2>2. CASE IsDir(i)
    <3>1. ~IsRtc(i) /\ ~IsFile(i)
      BY <2>2, Kinds
    <3>2. Element(e) = [NoFile EXCEPT !.ops = "dir"]
      BY <1>1, <2>2, <3>1 DEF Element, IsRtc, IsDir, IsFile
    <3> QED BY <2>2, <3>1, <3>2 DEF NoFile, OpsOf
  <2>3. CASE IsFile(i)
    <3>1. ~IsRtc(i) /\ ~IsDir(i)
      BY <2>3, Kinds
    <3>2. Element(e) = [NoFile EXCEPT !.ops = "file", !.inode = Inode(i)]
      BY <1>1, <2>3, <3>1 DEF Element, IsRtc, IsDir, IsFile, Inode
    <3> QED BY <2>3, <3>2 DEF NoFile, OpsOf
  <2> QED BY <2>1, <2>2, <2>3, Kinds
<1>3. PICK element : element = Element(e)
  OBVIOUS
<1>4. [element EXCEPT !.flag = 1] = EntryAt(i, 0)
  BY <1>2, <1>3 DEF EntryAt
<1> QED BY <1>1, <1>3, <1>4

\* How far cat has come with the i-th file.
cat_at(t, table, blocks, i) ==
  \/ /\ t.pc = "read" /\ t.status = Running
     /\ \E k : CatFd(table, t.fd, i, k) /\ t.out = Part(blocks, i, k)
  \/ /\ t.pc = "write" /\ t.status = Running
     /\ \E j \in 0 .. Size(i) : t.out = Part(blocks, i, j)
     /\ \E k : /\ CatFd(table, t.fd, i, k)
               /\ Joined(t.out, Shown(t.loc), Part(blocks, i, k))
  \/ /\ t.pc \in {"exit", "halted"} /\ t.status = 0 /\ ~Unreadable(i)
     /\ t.out = Part(blocks, i, Size(i))

cat_row(t, table, blocks) ==
  \/ /\ t.pc = "main" /\ t.status = Running /\ table = Fresh
     /\ t.out = <<>> /\ t.arg \in Args["cat"]
  \/ /\ t.pc \in {"exit", "halted"} /\ t.status # 0
     /\ \A i \in 1 .. num_dentry : Names[i] = CutName(t.arg) => Unreadable(i)
  \/ \E i \in 1 .. num_dentry : /\ Names[i] = CutName(t.arg)
                                /\ cat_at(t, table, blocks, i)

LEMMA cat_open_row ==
  ASSUME Shaped, NEW p \in Proc, cat_row(task[p], file_array[p], dblock),
         cat_open(p), task'[p].arg = task[p].arg
  PROVE  cat_row(task'[p], file_array'[p], dblock)
<1>1. PICK arg, fd : arg = task[p].arg /\ fd = Opened(p, arg)
  OBVIOUS
<1>2. /\ file_array[p] = Fresh /\ task[p].status = Running
      /\ task[p].out = <<>> /\ arg \in Args["cat"]
  BY <1>1 DEF cat_row, cat_at, cat_open, At
<1>3. CASE GetargsFails(p)
  <2>1. arg = <<>> /\ Return(p, 3)
    BY <1>1, <1>3 DEF GetargsFails, cat_open
  <2>2. task'[p].pc = "exit" /\ task'[p].status = 3
    BY <2>1, ReturnRow
  <2>3. \A i \in 1 .. num_dentry : Names[i] # CutName(arg)
    <3>1. CutName(<<>>) = <<>>
      <4>1. MAXCHAR - 1 \in Nat /\ Len(<<>>) = 0
        BY FilesAssumption
      <4> QED BY <4>1 DEF CutName, Cut
    <3> QED BY <2>1, <3>1, NamesPlain
  <2> QED BY <1>1, <2>2, <2>3 DEF cat_row
<1>4. CASE ~GetargsFails(p)
  <2>1. /\ DoOpen(p, arg)
        /\ IF fd = -1 THEN Return(p, 2)
           ELSE task' = [task EXCEPT ![p].fd = fd, ![p].pc = "read"]
    BY <1>1, <1>4 DEF cat_open
  <2>2. CASE fd = -1
    <3>1. task'[p].pc = "exit" /\ task'[p].status = 2
      BY <2>1, <2>2, ReturnRow
    <3>2. \A i \in 1 .. num_dentry : Names[i] # CutName(arg)
      <4> SUFFICES ASSUME NEW i \in 1 .. num_dentry, Names[i] = CutName(arg)
                   PROVE  FALSE
        OBVIOUS
      <4>1. Matches(arg) # {} /\ ~Refused(arg)
        BY <1>2, ExactName
      <4>2. FreeFds(p) # {} /\ FreeFds(p) \in SUBSET Nat
        BY <1>2, FreshFds, Constants
      <4>3. \E g \in FreeFds(p) : \A other \in FreeFds(p) : g <= other
        BY <4>2, LeastNumber
      <4>4. fd \in FreeFds(p)
        BY <1>1, <4>1, <4>2, <4>3 DEF Opened
      <4> QED BY <2>2, <4>2, <4>4
    <3> QED BY <1>1, <3>1, <3>2 DEF cat_row
  <2>3. CASE fd # -1
    <3>1. /\ Matches(arg) # {} /\ fd \in UserFd
          /\ DOMAIN file_array'[p] = Fd
          /\ file_array'[p][fd] =
               [Element(read_dentry_by_name(arg)) EXCEPT !.flag = 1]
      BY <1>1, <1>2, <2>1, <2>3, FreshOpen
    <3>2. PICK i \in 1 .. num_dentry : Names[i] = CutName(arg)
      BY <1>2, <3>1, ExactName
    <3>3. read_dentry_by_name(arg) = dir_entry[i - 1]
      BY <1>2, <3>2, ExactName
    <3>4. file_array'[p][fd] = EntryAt(i, 0)
      BY <3>1, <3>3, NewEntry
    <3>5. file_array'[p][1] = stdout
      <4>1. fd # 1 /\ 1 \in Fd
        BY <3>1, Constants
      <4>2. PICK element :
              file_array' = [file_array EXCEPT ![p][fd] = element]
        BY <1>1, <2>1, <2>3 DEF DoOpen, sys_open
      <4>3. file_array'[p][1] = Fresh[1]
        BY <1>2, <4>1, <4>2 DEF Shaped
      <4>4. Fresh[1] = stdout
        BY <4>1 DEF Fresh
      <4> QED BY <4>3, <4>4
    <3>6. 0 \in 0 .. Size(i) /\ Clear(Node(i), 0, 0)
      BY SizeType DEF Clear
    <3>7. CatFd(file_array'[p], fd, i, 0)
      BY <3>1, <3>4, <3>5, <3>6 DEF CatFd
    <3>8. /\ task'[p].pc = "read" /\ task'[p].fd = fd
          /\ task'[p].out = task[p].out /\ task'[p].status = task[p].status
      BY <2>1, <2>3 DEF Shaped, Fields
    <3>9. task'[p].out = Part(dblock, i, 0)
      BY <1>2, <3>8, PartEmpty
    <3>10. cat_at(task'[p], file_array'[p], dblock, i)
      BY <1>2, <3>7, <3>8, <3>9, Zenon DEF cat_at
    <3> QED BY <1>1, <3>2, <3>10 DEF cat_row
  <2> QED BY <2>2, <2>3
<1> QED BY <1>3, <1>4

LEMMA cat_read_row ==
  ASSUME Shaped, NEW p \in Proc, cat_row(task[p], file_array[p], dblock),
         cat_read(p), task'[p].arg = task[p].arg
  PROVE  cat_row(task'[p], file_array'[p], dblock)
<1>1. PICK i \in 1 .. num_dentry :
        /\ Names[i] = CutName(task[p].arg)
        /\ cat_at(task[p], file_array[p], dblock, i)
  BY DEF cat_row, cat_read, At
<1>2. task[p].status = Running /\ task[p].pc = "read"
  BY <1>1 DEF cat_at, cat_read, At
<1>3. PICK fd, r : fd = task[p].fd /\ r = ReadResult(p, fd, BUFSIZE)
  OBVIOUS
<1>4. PICK k : /\ CatFd(file_array[p], fd, i, k)
               /\ task[p].out = Part(dblock, i, k)
  BY <1>1, <1>2, <1>3 DEF cat_at
<1>5. /\ DoRead(p, fd, BUFSIZE)
      /\ CASE r.ret = 0  -> Return(p, 0)
           [] r.ret = -1 -> Return(p, 3)
           [] OTHER      -> task' = [task EXCEPT ![p].loc = r.data,
                                                 ![p].pc = "write"]
  BY <1>3 DEF cat_read
<1>6. CatRead(p, fd, i, k, r)
  BY <1>3, <1>4, <1>5, Kinds, cat_read_rtc, cat_read_dir, cat_read_file
<1>7. CASE r.ret = 0
  <2>1. k = Size(i) /\ ~Unreadable(i)
    BY <1>6, <1>7 DEF CatRead
  <2>2. /\ task'[p].pc = "exit" /\ task'[p].status = 0
        /\ task'[p].out = task[p].out
    BY <1>5, <1>7, ReturnRow
  <2>3. cat_at(task'[p], file_array'[p], dblock, i)
    BY <1>4, <2>1, <2>2 DEF cat_at
  <2> QED BY <1>1, <2>3 DEF cat_row
<1>8. CASE r.ret = -1
  <2>1. Unreadable(i)
    BY <1>6, <1>8 DEF CatRead
  <2>2. task'[p].pc = "exit" /\ task'[p].status = 3
    BY <1>5, <1>8, ReturnRow
  <2>3. \A j \in 1 .. num_dentry : Names[j] = CutName(task'[p].arg) => j = i
    BY <1>1, DistinctNames
  <2> QED BY <2>1, <2>2, <2>3 DEF cat_row
<1>9. CASE r.ret # 0 /\ r.ret # -1
  <2>1. PICK j : /\ CatFd(file_array'[p], fd, i, j)
                 /\ Joined(Part(dblock, i, k), Shown(r.data),
                           Part(dblock, i, j))
    BY <1>6, <1>9 DEF CatRead
  <2>2. task' = [task EXCEPT ![p].loc = r.data, ![p].pc = "write"]
    BY <1>5, <1>9
  <2>3. /\ task'[p].pc = "write" /\ task'[p].fd = fd
        /\ task'[p].loc = r.data
        /\ task'[p].out = task[p].out /\ task'[p].status = task[p].status
    BY <1>3, <2>2 DEF Shaped, Fields
  <2>4. k \in 0 .. Size(i)
    BY <1>4 DEF CatFd
  <2>5. Joined(task'[p].out, Shown(task'[p].loc), Part(dblock, i, j))
    BY <1>4, <2>1, <2>3, Zenon
  <2>6. cat_at(task'[p], file_array'[p], dblock, i)
    BY <1>2, <1>4, <2>1, <2>3, <2>4, <2>5, Zenon DEF cat_at
  <2> QED BY <1>1, <2>6 DEF cat_row
<1> QED BY <1>7, <1>8, <1>9

LEMMA cat_write_row ==
  ASSUME Shaped, NEW p \in Proc, cat_row(task[p], file_array[p], dblock),
         cat_write(p), task'[p].arg = task[p].arg
  PROVE  cat_row(task'[p], file_array'[p], dblock)
<1>1. PICK i \in 1 .. num_dentry :
        /\ Names[i] = CutName(task[p].arg)
        /\ cat_at(task[p], file_array[p], dblock, i)
  BY DEF cat_row, cat_write, At
<1>2. task[p].status = Running /\ task[p].pc = "write"
  BY <1>1 DEF cat_at, cat_write, At
<1>3. PICK k : /\ CatFd(file_array[p], task[p].fd, i, k)
               /\ Joined(task[p].out, Shown(task[p].loc), Part(dblock, i, k))
  BY <1>1, <1>2 DEF cat_at
<1>4. ~WriteFails(p, 1)
  <2>1. 1 \in Fd /\ file_array[p][1] = stdout
    BY <1>3, Constants DEF CatFd
  <2>2. stdout.flag = 1 /\ stdout.ops = "stdout"
    BY DEF stdout, NoFile
  <2> QED BY <2>1, <2>2 DEF WriteFails
<1>5. PICK more : more = Shown(task[p].loc)
  OBVIOUS
<1>6. task' = [task EXCEPT ![p].out = @ \o more, ![p].pc = "read"]
  BY <1>4, <1>5, Zenon DEF cat_write
<1>7. /\ task'[p].pc = "read" /\ task'[p].status = task[p].status
      /\ task'[p].fd = task[p].fd
  BY <1>6 DEF Shaped, Fields
<1>8. Joined(task[p].out, more, task'[p].out)
  BY <1>6, Zenon DEF Shaped, Fields, Joined
<1>9. task'[p].out = Part(dblock, i, k)
  BY <1>3, <1>5, <1>8, Zenon DEF Joined
<1>10. file_array' = file_array
  BY DEF cat_write, vars
<1>11. cat_at(task'[p], file_array'[p], dblock, i)
  BY <1>2, <1>3, <1>7, <1>9, <1>10, Zenon DEF cat_at
<1> QED BY <1>1, <1>11 DEF cat_row

\* What the rows say of cat.
LEMMA cat_prints ==
  ASSUME NEW t, NEW table, NEW i \in 1 .. num_dentry,
         Names[i] = CutName(t.arg), cat_row(t, table, dblock)
  PROVE  IF Unreadable(i) THEN t.status # 0
         ELSE Writes(t, Shown(Holds(i))) /\ t.status \in {Running, 0}
<1>1. PICK all : all = Part(dblock, i, Size(i))
  OBVIOUS
<1>2. \A k \in 0 .. Size(i) : IsPrefix(Part(dblock, i, k), all)
  BY <1>1, PartPrefix
<1>3. Running # 0 /\ 0 \in 0 .. Size(i) /\ Size(i) \in 0 .. Size(i)
  BY SizeType DEF Running
<1>4. CASE Unreadable(i)
  <2>1. \A j \in 1 .. num_dentry : Names[j] = CutName(t.arg) => j = i
    BY DistinctNames
  <2> QED BY <1>3, <1>4, <2>1 DEF cat_row, cat_at
<1>5. CASE ~Unreadable(i)
  <2>1. Shown(Holds(i)) = all
    BY <1>1, <1>5, PartAll
  <2>2. CASE t.pc = "main"
    <3>1. t.status = Running /\ t.out = <<>>
      BY <2>2 DEF cat_row, cat_at
    <3>2. t.out = Part(dblock, i, 0)
      BY <3>1, PartEmpty
    <3> QED BY <1>2, <1>3, <1>5, <2>1, <3>1, <3>2 DEF Writes
  <2>3. CASE t.pc # "main"
    <3>1. PICK j \in 1 .. num_dentry :
            Names[j] = CutName(t.arg) /\ cat_at(t, table, dblock, j)
      BY <1>5, <2>3 DEF cat_row
    <3>2. j = i
      BY <3>1, DistinctNames
    <3>3. /\ \E k \in 0 .. Size(i) : t.out = Part(dblock, i, k)
          /\ t.status \in {Running, 0}
          /\ t.status = 0 => t.out = all
      BY <1>1, <1>3, <3>1, <3>2, Zenon DEF cat_at, CatFd
    <3> QED BY <1>2, <1>5, <2>1, <3>3 DEF Writes
  <2> QED BY <2>2, <2>3
<1> QED BY <1>4, <1>5

-----------------------------------------------------------------------------
(* The invariant: the row that the program of each process is at. *)

RowOf(t, table, blocks) ==
  /\ t.prog = "cat" => cat_row(t, table, blocks)
  /\ t.prog = "ls" => ls_row(t, table)
  /\ t.prog = "syserr" => syserr_row(t, table)

Rows == Shaped /\ \A p \in Proc : RowOf(task[p], file_array[p], dblock)

LEMMA RowsInit ==
  ASSUME PInit
  PROVE  Rows
<1>1. Shaped
  BY DEF PInit, Init, Shaped, Idle, Fields
<1>2. \A p \in Proc : task[p].prog = "none"
  BY DEF PInit, Idle
<1> QED BY <1>1, <1>2 DEF Rows, RowOf

\* A program begins with a fresh table and has written nothing.
LEMMA start_row ==
  ASSUME NEW prog, NEW arg \in Args[prog], NEW blocks, NEW t,
         t = [Idle EXCEPT !.prog = prog, !.arg = arg, !.pc = "main"]
  PROVE  RowOf(t, Fresh, blocks)
<1>1. t.pc = "main" /\ t.status = Running /\ t.out = <<>>
  BY DEF Idle
<1>2. LsLines \in Seq(Seq(Plain)) /\ num_dentry \in Nat
  BY LsLinesPlain, NamesPlain
<1>3. FlatTo(LsLines, 0) = <<>>
  BY <1>2, FlatToStep
<1>4. 0 \in 0 .. num_dentry
  BY <1>2
<1>5. ls_at(t, Fresh, 0)
  BY <1>1, <1>3, Zenon DEF ls_at
<1>6. ls_row(t, Fresh)
  BY <1>4, <1>5 DEF ls_row
<1>7. syserr_row(t, Fresh)
  BY <1>1, Zenon DEF syserr_row
<1>8. t.prog = prog /\ t.arg = arg
  BY DEF Idle
<1>9. t.prog = "cat" => cat_row(t, Fresh, blocks)
  BY <1>1, <1>8, Zenon DEF cat_row
<1> QED BY <1>6, <1>7, <1>9 DEF RowOf

\* The process is gone: what its program has written stays.
LEMMA halt_row ==
  ASSUME NEW t, NEW table, NEW s, NEW after, DOMAIN t = Fields,
         NEW blocks, RowOf(t, table, blocks), t.pc = "exit",
         s = [t EXCEPT !.pc = "halted"]
  PROVE  RowOf(s, after, blocks)
<1>1. /\ s.pc = "halted" /\ s.status = t.status /\ s.out = t.out
      /\ s.prog = t.prog /\ s.arg = t.arg
  BY DEF Fields
<1>2. ASSUME t.prog = "ls" PROVE ls_row(s, after)
  <2>1. PICK k \in 0 .. num_dentry : ls_at(t, table, k)
    BY <1>2 DEF RowOf, ls_row
  <2>2. ls_at(s, after, k)
    BY <1>1, <2>1 DEF ls_at
  <2> QED BY <2>2 DEF ls_row
<1>3. ASSUME t.prog = "syserr" PROVE syserr_row(s, after)
  BY <1>1, <1>3 DEF RowOf, syserr_row, Testing
<1>4. ASSUME t.prog = "cat" PROVE cat_row(s, after, blocks)
  <2>1. cat_row(t, table, blocks)
    BY <1>4 DEF RowOf
  <2> QED BY <1>1, <2>1 DEF cat_row, cat_at
<1> QED BY <1>1, <1>2, <1>3, <1>4 DEF RowOf

LEMMA StepRow ==
  ASSUME Shaped, NEW p \in Proc, RowOf(task[p], file_array[p], dblock), Step(p)
  PROVE  RowOf(task'[p], file_array'[p], dblock)
<1>1. task'[p].prog = task[p].prog /\ task'[p].arg = task[p].arg
  BY StepOwned DEF TaskFrame
<1>2. CASE halt(p)
  <2>1. /\ task'[p] = [task[p] EXCEPT !.pc = "halted"]
        /\ task[p].pc = "exit" /\ DOMAIN task[p] = Fields
    BY <1>2, halt_frame DEF halt, Shaped
  <2>2. PICK t, table, s, after, blocks :
          /\ t = task[p] /\ table = file_array[p] /\ blocks = dblock
          /\ s = task'[p] /\ after = file_array'[p]
    OBVIOUS
  <2>3. RowOf(s, after, blocks)
    BY <2>1, <2>2, halt_row
  <2> QED BY <2>2, <2>3
<1>3. CASE /\ task[p].prog = "ls"
           /\ open_dir(p, "ls") \/ ls_read(p) \/ ls_write(p)
  <2>1. ls_row(task[p], file_array[p])
    BY <1>3 DEF RowOf
  <2>2. ls_row(task'[p], file_array'[p])
    BY <1>3, <2>1, open_dir_row, ls_read_row, ls_write_row
  <2> QED BY <1>1, <1>3, <2>2 DEF RowOf
<1>4. CASE /\ task[p].prog = "syserr"
           /\ \/ syserr_select(p) \/ syserr_call(p)
              \/ syserr_verdict(p) \/ syserr_end(p)
  <2>1. syserr_row(task[p], file_array[p])
    BY <1>4 DEF RowOf
  <2>2. syserr_row(task'[p], file_array'[p])
    BY <1>4, <2>1, syserr_select_row, syserr_call_row, syserr_verdict_row,
       syserr_end_row
  <2> QED BY <1>1, <1>4, <2>2 DEF RowOf
<1>5. CASE /\ task[p].prog = "cat"
           /\ cat_open(p) \/ cat_read(p) \/ cat_write(p)
  <2>1. cat_row(task[p], file_array[p], dblock)
    BY <1>5 DEF RowOf
  <2>2. cat_row(task'[p], file_array'[p], dblock)
    BY <1>1, <1>5, <2>1, cat_open_row, cat_read_row, cat_write_row
  <2> QED BY <1>1, <1>5, <2>2 DEF RowOf
<1>6. CASE task[p].prog \in {"grep", "fish"}
  BY <1>1, <1>6 DEF RowOf
<1> QED BY <1>2, <1>3, <1>4, <1>5, <1>6, StepOwned

LEMMA RowsNext ==
  ASSUME Rows, [PNext]_pvars
  PROVE  Rows'
<1>1. CASE UNCHANGED pvars
  <2>1. task' = task /\ file_array' = file_array /\ dblock' = dblock
    BY <1>1 DEF pvars, vars
  <2> QED BY <2>1 DEF Rows, Shaped
<1>2. ASSUME NEW p \in Proc, start(p) \/ Step(p) PROVE Rows'
  <2>1. Frame(p)
    BY <1>2, StepFrame DEF Rows
  <2>2. RowOf(task'[p], file_array'[p], dblock)
    <3>1. CASE Step(p)
      BY <3>1, StepRow DEF Rows
    <3>2. CASE start(p)
      <4>1. PICK prog \in may[p] : \E arg \in Args[prog] :
              task'[p] =
                [Idle EXCEPT !.prog = prog, !.arg = arg, !.pc = "main"]
        BY <3>2, start_frame DEF Rows
      <4>2. PICK arg \in Args[prog] :
              task'[p] =
                [Idle EXCEPT !.prog = prog, !.arg = arg, !.pc = "main"]
        BY <4>1
      <4>3. PICK t, blocks : t = task'[p] /\ blocks = dblock
        OBVIOUS
      <4>4. RowOf(t, Fresh, blocks)
        BY <4>2, <4>3, start_row
      <4>5. file_array'[p] = Fresh
        BY <3>2, start_frame DEF Rows
      <4> QED BY <4>3, <4>4, <4>5
    <3> QED BY <1>2, <3>1, <3>2
  <2>3. \A q \in Proc : RowOf(task'[q], file_array'[q], dblock)
    BY <2>1, <2>2 DEF Rows, Frame
  <2>4. dblock' = dblock /\ Shaped'
    BY <2>1 DEF Frame
  <2> QED BY <2>3, <2>4 DEF Rows
<1> QED BY <1>1, <1>2 DEF PNext

\* ls with dir_read: for every directory whose names end in their fields, as
\* createfs makes them, and any number of processes, a listing has the names of
\* the directory in order, each once and on a line of its own.
THEOREM ListingComplete == PSpec => []ListsEveryName
<1>1. Rows => ListsEveryName
  <2> SUFFICES ASSUME Rows, NEW p \in Proc, task[p].prog = "ls"
               PROVE  Writes(task[p], FlattenSeq(LsLines))
    BY Zenon DEF ListsEveryName, LsLines
  <2>1. PICK t, table : t = task[p] /\ table = file_array[p]
    OBVIOUS
  <2>2. ls_row(t, table)
    BY <2>1 DEF Rows, RowOf
  <2> QED BY <2>1, <2>2, ls_writes
<1> QED BY <1>1, RowsInit, RowsNext, PTL DEF PSpec

\* syserr: the tests of the system calls' errors pass, one alone or all in one
\* process, beside any other processes and whatever ran in the PCB before.
THEOREM SyserrAlwaysPasses == PSpec => []SyserrPasses
<1>1. Rows => SyserrPasses
  BY DEF Rows, RowOf, syserr_row, Testing, SyserrPasses
<1> QED BY <1>1, RowsInit, RowsNext, PTL DEF PSpec

\* cat: for every disk whose names end in their fields, as createfs makes them,
\* every argument, size of the buffer and number of processes, what cat has
\* written is the beginning of the file that it is given, and all of it when
\* cat ends well; it ends well for a file whose blocks exist, and says so when
\* there is no such file or a block of it does not exist.
THEOREM CatComplete == PSpec => []CatPrintsFile
<1>1. Rows => CatPrintsFile
  <2> SUFFICES ASSUME Rows, NEW p \in Proc, task[p].prog = "cat"
               PROVE  LET found == {k \in DOMAIN Names :
                                      Names[k] = CutName(task[p].arg)}
                      IN  IF found = {} \/ \E k \in found : Unreadable(k)
                          THEN task[p].status # 0
                          ELSE \E k \in found :
                                 /\ Writes(task[p], Shown(Holds(k)))
                                 /\ task[p].status \in {Running, 0}
    BY Zenon DEF CatPrintsFile
  <2>1. PICK t, table : t = task[p] /\ table = file_array[p]
    OBVIOUS
  <2>2. cat_row(t, table, dblock)
    BY <2>1 DEF Rows, RowOf
  <2>3. PICK found : found = {k \in DOMAIN Names : Names[k] = CutName(t.arg)}
    OBVIOUS
  <2>4. found = {k \in 1 .. num_dentry : Names[k] = CutName(t.arg)}
    BY <2>3, NamesPlain
  <2>5. CASE found = {}
    <3>1. t.status # 0
      BY <2>2, <2>4, <2>5 DEF cat_row, Running
    <3> QED BY <2>1, <2>3, <2>5, <3>1
  <2>6. CASE found # {}
    <3>1. PICK i \in 1 .. num_dentry : i \in found /\ Names[i] = CutName(t.arg)
      BY <2>4, <2>6
    <3>2. \A k \in found : k = i
      BY <2>4, <3>1, DistinctNames
    <3>3. IF Unreadable(i) THEN t.status # 0
          ELSE Writes(t, Shown(Holds(i))) /\ t.status \in {Running, 0}
      BY <2>2, <3>1, cat_prints
    <3> QED BY <2>1, <2>3, <2>6, <3>1, <3>2, <3>3
  <2> QED BY <2>5, <2>6
<1> QED BY <1>1, RowsInit, RowsNext, PTL DEF PSpec
=============================================================================

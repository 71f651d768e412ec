------------------------------ MODULE Programs ------------------------------
(***************************************************************************)
(* The programs under syscalls/ and fish/ as clients of the descriptor     *)
(* calls of Files: cat, ls, grep, syserr, and the part of fish that reads  *)
(* its frames.  Processes interleave; every system call that uses a        *)
(* descriptor is a step, with what the program computes from the result    *)
(* and what it writes because of it.  Failure messages are left out: the   *)
(* status tells them apart.                                                *)
(***************************************************************************)
EXTENDS Files, SequencesExt

CONSTANTS
  BUFSIZE,     \* size of the buffers of cat and grep
  SBUFSIZE,    \* size of the buffers for names in ls and grep
  LF, NUL,     \* the characters '\n' and '\0'
  Uninit,      \* what a byte of an uninitialised array may hold
  Args,        \* Args[prog]: the arguments a program is given
  hello, shell, file0, file1,    \* names that programs know
  Setup        \* disks, and the programs that processes run with each

\* createfs, the tool that makes the disk, ends every name with '\0' in its
\* field: filesys_img has "verylargetxtwithverylongname.tx" for the file of 32
\* characters in fsdir.  ls and grep have no room for a name that fills it.
ASSUME ProgramsAssumption ==
  /\ FDSIZE = 8                            \* syserr counts on it
  /\ BUFSIZE \in Nat /\ BUFSIZE >= MAXCHAR /\ SBUFSIZE = MAXCHAR + 1
  /\ \A i \in DOMAIN dir_entry : Len(dir_entry[i].file_name) < MAXCHAR

VARIABLES
  dblock,      \* dblock[b][i]: the characters of the data blocks
  may,         \* may[p]: the programs that process p is given to run
  task         \* task[p]: the program of process p, and its variables

pvars == <<vars, dblock, may, task>>

Running == 256     \* no status yet

Idle == [prog |-> "none", arg |-> <<>>, pc |-> "halted", fd |-> -1,
         out |-> <<>>, status |-> Running, loc |-> <<>>]

PInit ==
  /\ Init
  /\ \E s \in Setup : dblock = s.dblock /\ may = s.may
  /\ task = [p \in Proc |-> Idle]

At(p, prog, pc) == p \in live /\ task[p].prog = prog /\ task[p].pc = pc

\* main returns: _start goes on to halt the process with the status.
Return(p, status) ==
  task' = [task EXCEPT ![p].pc = "exit", ![p].status = status]

-----------------------------------------------------------------------------
(* System calls of process p: what they return and what they change. *)

Text(bytes) == [k \in DOMAIN bytes |-> dblock[bytes[k][1]][bytes[k][2]]]

DoOpen(p, filename) ==
  IF Opened(p, filename) = -1 THEN UNCHANGED vars ELSE sys_open(p, filename)

CloseResult(p, fd) == IF Closable(p, fd) THEN 1 ELSE -1

DoClose(p, fd) ==
  IF Closable(p, fd) THEN sys_close(p, fd) ELSE UNCHANGED vars

\* The operations sys_read finds for the descriptor; "none": it returns -1.
ReadOps(p, fd, count) ==
  IF \/ fd \notin Fd \/ count < 0
     \/ file_array[p][fd].flag # 1 \/ file_array[p][fd].ops = "stdout"
  THEN "none" ELSE file_array[p][fd].ops

FileRead(p, fd, count) ==
  read_data(file_array[p][fd].inode, file_array[p][fd].file_pos, count)

\* read_rtc returns 0.  No program modelled here reads the keyboard, but for
\* the number that syserr asks for: that read is the choice of syserr_select.
ReadResult(p, fd, count) ==
  LET ops == ReadOps(p, fd, count)
  IN  CASE ops = "dir"  -> Listed(p, fd, count)
        [] ops = "file" -> [FileRead(p, fd, count) EXCEPT !.data = Text(@)]
        [] ops = "rtc"  -> [ret |-> 0, data |-> <<>>]
        [] OTHER        -> Failed(<<>>)

DoRead(p, fd, count) ==
  LET ops == ReadOps(p, fd, count)
  IN  CASE ops = "dir" -> dir_read(p, fd, count)
        [] ops = "file" /\ FileRead(p, fd, count).ret # -1 ->
             file_read(p, fd, count)
        [] OTHER -> UNCHANGED vars

\* sys_write finds no write operation, or one that returns -1.
WriteFails(p, fd) ==
  \/ fd \notin Fd
  \/ file_array[p][fd].flag # 1
  \/ file_array[p][fd].ops \notin {"stdout", "rtc"}

\* terminal_write shows a '\0' as a blank.
Shown(bytes) ==
  [k \in DOMAIN bytes |-> IF bytes[k] = NUL THEN " " ELSE bytes[k]]

PROG_IMAGE == 128 * 1024 * 1024
FOURMB     == 4 * 1024 * 1024

\* sys_vidmap returns -1; one of the three terminals is always scheduled.
VidmapFails(screen_start) ==
  screen_start < PROG_IMAGE \/ screen_start >= PROG_IMAGE + FOURMB

\* The numbers that syscall_handler turns away.
NotDispatched(num) == num < 1 \/ num > 12

\* sys_getargs returns -1; arguments are shorter than the programs' buffers.
GetargsFails(p) == task[p].arg = <<>>

\* sys_execute starts one of the programs with one of its arguments.
start(p) ==
  /\ sys_execute(p)
  /\ \E prog \in may[p] : \E arg \in Args[prog] :
       task' = [task EXCEPT ![p] =
                  [Idle EXCEPT !.prog = prog, !.arg = arg, !.pc = "main"]]
  /\ UNCHANGED <<dblock, may>>

halt(p) ==
  /\ p \in live /\ task[p].pc = "exit"
  /\ sys_halt(p)
  /\ task' = [task EXCEPT ![p].pc = "halted"]
  /\ UNCHANGED <<dblock, may>>

-----------------------------------------------------------------------------
(* cat *)

cat_open(p) ==
  LET fd == Opened(p, task[p].arg)
  IN  /\ At(p, "cat", "main")
      /\ IF GetargsFails(p) THEN Return(p, 3) /\ UNCHANGED vars
         ELSE /\ DoOpen(p, task[p].arg)
              /\ IF fd = -1 THEN Return(p, 2)
                 ELSE task' = [task EXCEPT ![p].fd = fd, ![p].pc = "read"]
      /\ UNCHANGED <<dblock, may>>

\* Mutant: a read that does not fill the buffer is taken for the last.
cat_read_short(p) ==
  LET r == ReadResult(p, task[p].fd, BUFSIZE)
  IN  /\ At(p, "cat", "read")
      /\ DoRead(p, task[p].fd, BUFSIZE)
      /\ CASE r.ret \in 0 .. BUFSIZE - 1 -> Return(p, 0)
           [] r.ret = -1 -> Return(p, 3)
           [] OTHER      -> task' = [task EXCEPT ![p].loc = r.data,
                                                 ![p].pc = "write"]
      /\ UNCHANGED <<dblock, may>>

cat_read(p) ==
  LET r == ReadResult(p, task[p].fd, BUFSIZE)
  IN  /\ At(p, "cat", "read")
      /\ DoRead(p, task[p].fd, BUFSIZE)
      /\ CASE r.ret = 0  -> Return(p, 0)
           [] r.ret = -1 -> Return(p, 3)
           [] OTHER      -> task' = [task EXCEPT ![p].loc = r.data,
                                                 ![p].pc = "write"]
      /\ UNCHANGED <<dblock, may>>

cat_write(p) ==
  /\ At(p, "cat", "write")
  /\ IF WriteFails(p, 1) THEN Return(p, 3)
     ELSE task' = [task EXCEPT ![p].out = @ \o Shown(task[p].loc),
                               ![p].pc = "read"]
  /\ UNCHANGED <<vars, dblock, may>>

-----------------------------------------------------------------------------
(* ls *)

Dot == <<".">>

\* What programs and users count on.  The disk: "." is its directory, names
\* are distinct, not empty and of characters that can be shown, every file has
\* an inode, and there are no files with the names that syserr takes for wrong.
\* The user: the name cat is given fits into the dentry_t it is copied to.
ASSUME DiskAssumption ==
  /\ LF \in STRING /\ LF # NUL
  /\ Matches(Dot) # {} /\ read_dentry_by_name(Dot).file_type = DIR_FILETYPE
  /\ \A i \in DOMAIN dir_entry :
       LET name == dir_entry[i].file_name
       IN  /\ name # <<>> /\ name[1] # " "
           /\ \A k \in DOMAIN name : name[k] # NUL
           /\ \A j \in DOMAIN dir_entry :
                dir_entry[j].file_name = name => j = i
           /\ dir_entry[i].file_type \in
                {RTC_FILETYPE, DIR_FILETYPE, FILE_FILETYPE}
           /\ dir_entry[i].file_type = FILE_FILETYPE =>
                dir_entry[i].inode_idx \in DOMAIN inodes
  /\ Matches(Append(hello, "o")) = {} /\ Matches(Front(shell)) = {}
  /\ \A arg \in Args["cat"] : arg \in Seq(STRING) /\ Len(arg) < DentrySize

\* ls and grep open the directory; grep needs an argument.
open_dir(p, prog) ==
  LET fd == Opened(p, Dot)
  IN  /\ At(p, prog, "main")
      /\ IF prog = "grep" /\ GetargsFails(p)
         THEN Return(p, 3) /\ UNCHANGED vars
         ELSE /\ DoOpen(p, Dot)
              /\ IF fd = -1 THEN Return(p, 2)
                 ELSE task' = [task EXCEPT ![p].fd = fd, ![p].pc = "dir"]
      /\ UNCHANGED <<dblock, may>>

\* The first cnt bytes of buf: dir_read's strncpy fills it up with '\0'.
Buf(r) == [k \in 1 .. r.ret |-> IF k <= Len(r.data) THEN r.data[k] ELSE NUL]

ls_read(p) ==
  LET r == ReadResult(p, task[p].fd, SBUFSIZE - 1)
  IN  /\ At(p, "ls", "dir")
      /\ DoRead(p, task[p].fd, SBUFSIZE - 1)
      /\ CASE r.ret = 0  -> Return(p, 0)
           [] r.ret = -1 -> Return(p, 3)
           [] OTHER      -> task' = [task EXCEPT ![p].loc = Buf(r),
                                                 ![p].pc = "write"]
      /\ UNCHANGED <<dblock, may>>

ls_write(p) ==
  /\ At(p, "ls", "write")
  /\ IF WriteFails(p, 1) THEN Return(p, 3)
     ELSE task' = [task EXCEPT ![p].out = @ \o Shown(Append(task[p].loc, LF)),
                               ![p].pc = "dir"]
  /\ UNCHANGED <<vars, dblock, may>>

-----------------------------------------------------------------------------
(* grep: data is the buffer of do_one_file, last the bytes in use. *)

\* Mutant: the read is at the end of the loop, and continue passes over it.
grep_next_continue(p) ==
  LET r == ReadResult(p, task[p].fd, SBUFSIZE - 1)
  IN  /\ At(p, "grep", "dir")
      /\ CASE r.ret = 0  -> Return(p, 0) /\ UNCHANGED vars
           [] r.ret = -1 -> Return(p, 3) /\ UNCHANGED vars
           [] OTHER      -> IF Buf(r)[1] = "." THEN UNCHANGED <<task, vars>>
                            ELSE /\ DoRead(p, task[p].fd, SBUFSIZE - 1)
                                 /\ task' = [task EXCEPT ![p].loc = Buf(r),
                                                         ![p].pc = "open"]
      /\ UNCHANGED <<dblock, may>>

\* The next name; one that begins with '.' is passed over.
grep_next(p) ==
  LET r == ReadResult(p, task[p].fd, SBUFSIZE - 1)
  IN  /\ At(p, "grep", "dir")
      /\ DoRead(p, task[p].fd, SBUFSIZE - 1)
      /\ CASE r.ret = 0  -> Return(p, 0)
           [] r.ret = -1 -> Return(p, 3)
           [] OTHER      -> IF Buf(r)[1] = "." THEN UNCHANGED task
                            ELSE task' = [task EXCEPT ![p].loc = Buf(r),
                                                      ![p].pc = "open"]
      /\ UNCHANGED <<dblock, may>>

\* data is not initialised.
grep_open(p) ==
  LET fname == task[p].loc
      fd    == Opened(p, fname)
  IN  /\ At(p, "grep", "open")
      /\ DoOpen(p, fname)
      /\ IF fd = -1 THEN Return(p, 3)
         ELSE \E byte \in Uninit :
                task' = [task EXCEPT ![p].pc = "read", ![p].loc =
                  [fname |-> fname, fd |-> fd, last |-> 0,
                   data |-> [i \in 0 .. BUFSIZE |-> byte]]]
      /\ UNCHANGED <<dblock, may>>

Stored(data, at, bytes) ==
  [i \in DOMAIN data |-> IF i - at \in 0 .. Len(bytes) - 1
                         THEN bytes[i - at + 1] ELSE data[i]]

LineEnd(data, last, line_start) ==
  CHOOSE e \in line_start .. last :
    /\ e = last \/ data[e] = LF
    /\ \A i \in line_start .. e - 1 : data[i] # LF

Slice(data, from, to) == [k \in 1 .. to - from |-> data[from + k - 1]]

\* The search of one line; its end is '\0', so that no match goes beyond it.
Found(line, s) ==
  \E check \in 1 .. Len(line) - Len(s) + 1 :
    SubSeq(line, check, check + Len(s) - 1) = s

\* Mutant: a line that goes on in the next read is searched as it is.
KeepsLine_never(data, cnt, line_start, line_end) == FALSE

\* The rest of the buffer is a line that the next read goes on with.
KeepsLine(data, cnt, line_start, line_end) ==
  data[line_end] # LF /\ cnt # 0 /\ line_start # 0

\* The loop over the lines in the buffer: what it writes, and where the line
\* begins that it keeps (last: none).
ScanLines(data, last, cnt, s, fname) ==
  LET loop[line_start \in 0 .. BUFSIZE] ==
        LET line_end == LineEnd(data, last, line_start)
            line     == Slice(data, line_start, line_end)
            shown    == IF Found(line, s)
                        THEN fname \o <<":">> \o line \o <<LF>> ELSE <<>>
        IN  IF KeepsLine(data, cnt, line_start, line_end)
            THEN [out |-> <<>>, from |-> line_start]
            ELSE IF line_end + 1 >= last THEN [out |-> shown, from |-> last]
            ELSE LET rest == loop[line_end + 1]
                 IN  [rest EXCEPT !.out = shown \o @]
  IN  loop[0]

\* The buffer behind the loop: line ends have become '\0', and strcpy has
\* moved the line that is kept to the beginning.
Scanned(data, last, from) ==
  LET ended(i) == \/ i < last /\ data[i] = LF
                  \/ i = last /\ (last = 0 \/ data[last - 1] # LF)
      cleared  == [i \in DOMAIN data |-> IF ended(i) THEN NUL ELSE data[i]]
  IN  IF from = last THEN cleared
      ELSE Stored(cleared, 0, Slice(cleared, from, last + 1))

\* One turn of the loop of do_one_file.
grep_read(p) ==
  LET l == task[p].loc
  IN  /\ At(p, "grep", "read")
      /\ DoRead(p, l.fd, BUFSIZE - l.last)
      /\ \E r \in {ReadResult(p, l.fd, BUFSIZE - l.last)} :
           IF r.ret = -1 THEN Return(p, 3)
           ELSE \E data \in {Stored(l.data, l.last, r.data)} :
                \E scan \in {ScanLines(data, l.last + r.ret, r.ret,
                                       task[p].arg, l.fname)} :
                  task' = [task EXCEPT
                    ![p].out = @ \o scan.out,
                    ![p].loc.data = Scanned(data, l.last + r.ret, scan.from),
                    ![p].loc.last = @ + r.ret - scan.from,
                    ![p].pc = IF r.ret = 0 THEN "close" ELSE "read"]
      /\ UNCHANGED <<dblock, may>>

grep_close(p) ==
  /\ At(p, "grep", "close")
  /\ DoClose(p, task[p].loc.fd)
  /\ IF CloseResult(p, task[p].loc.fd) = -1 THEN Return(p, 3)
     ELSE task' = [task EXCEPT ![p].pc = "dir", ![p].loc = <<>>]
  /\ UNCHANGED <<dblock, may>>

-----------------------------------------------------------------------------
(* syserr: each test is the sequence of its calls. *)

NEG_FD  == -1073741823
BIG_FD  == 1073741823
BIG_NUM == 1073741823
NEG_NUM == -1073741823

Call(op, x) == [op |-> op, x |-> x]

\* Calls on the descriptors from .. 7.
Each(op, from) == [k \in 1 .. 8 - from |-> Call(op, from + k - 1)]

err_neg_fd == <<Call("read", NEG_FD), Call("write", NEG_FD),
                Call("close", NEG_FD)>>

err_big_fd == <<Call("read", BIG_FD), Call("write", BIG_FD),
                Call("close", BIG_FD)>>

err_open_lots == [k \in 1 .. 7 |-> Call("open", Dot)] \o Each("close", 2)

err_open == <<Call("open", Append(hello, "o")), Call("open", Front(shell)),
              Call("open", <<>>)>>

err_unopened == Each("close", 0) \o Each("read", 2) \o Each("write", 2)

err_vidmap == <<Call("vidmap", 0), Call("vidmap", FOURMB)>>

err_stdin_out == <<Call("write", 0), Call("read", 1)>>

err_syscall_num == <<Call("number", BIG_NUM), Call("number", NEG_NUM),
                     Call("number", 0)>>

Tests == <<err_neg_fd, err_big_fd, err_open_lots, err_open, err_unopened,
           err_vidmap, err_stdin_out, err_syscall_num>>

\* The call returns -1.
Fails(p, call) ==
  CASE call.op = "read"   -> ReadResult(p, call.x, 31).ret = -1
    [] call.op = "write"  -> WriteFails(p, call.x)
    [] call.op = "close"  -> CloseResult(p, call.x) = -1
    [] call.op = "open"   -> Opened(p, call.x) = -1
    [] call.op = "vidmap" -> VidmapFails(call.x)
    [] call.op = "number" -> NotDispatched(call.x)

DoCall(p, call) ==
  CASE call.op = "read"  -> DoRead(p, call.x, 31)
    [] call.op = "close" -> DoClose(p, call.x)
    [] call.op = "open"  -> DoOpen(p, call.x)
    [] OTHER             -> UNCHANGED vars

\* The tests that a typed number selects; 0 selects all, one that is not
\* between 0 and 8 none.
Selected(select) ==
  CASE select = 0        -> <<1, 2, 3, 4, 5, 6, 7, 8>>
    [] select \in 1 .. 8 -> <<select>>
    [] OTHER             -> <<>>

syserr_select(p) ==
  /\ At(p, "syserr", "main")
  /\ \E select \in 0 .. 9 :
       task' = [task EXCEPT ![p].pc = "test", ![p].loc =
                  [tests |-> Selected(select), i |-> 1, cnt |-> 0, fail |-> 0]]
  /\ UNCHANGED <<vars, dblock, may>>

\* The next call of the test.  err_open_lots counts the opens that fail, the
\* others the calls that do not.
syserr_call(p) ==
  LET l    == task[p].loc
      call == Tests[l.tests[1]][l.i]
      lots == l.tests[1] = 3
  IN  /\ At(p, "syserr", "test")
      /\ l.tests # <<>> /\ l.i <= Len(Tests[l.tests[1]])
      /\ DoCall(p, call)
      /\ task' = [task EXCEPT ![p].loc.i = @ + 1, ![p].loc.cnt = @ +
           IF /\ Fails(p, call) = lots
              /\ ~(lots /\ call.op = "close")
           THEN 1 ELSE 0]
      /\ UNCHANGED <<dblock, may>>

\* The end of a test: err_open_lots passes when one open failed, the others
\* when every call did.
syserr_verdict(p) ==
  LET l      == task[p].loc
      passed == l.cnt = IF l.tests[1] = 3 THEN 1 ELSE 0
  IN  /\ At(p, "syserr", "test")
      /\ l.tests # <<>> /\ l.i > Len(Tests[l.tests[1]])
      /\ task' = [task EXCEPT ![p].loc =
           [tests |-> Tail(l.tests), i |-> 1, cnt |-> 0,
            fail |-> l.fail + IF passed THEN 0 ELSE 2]]
      /\ UNCHANGED <<vars, dblock, may>>

syserr_end(p) ==
  /\ At(p, "syserr", "test") /\ task[p].loc.tests = <<>>
  /\ Return(p, task[p].loc.fail)
  /\ UNCHANGED <<vars, dblock, may>>

-----------------------------------------------------------------------------
(* fish: the two frames are read side by side, a character at a time.  What  *)
(* it does with the clock behind add_frames is left out.                     *)

RtcName == <<"r", "t", "c">>
OFFSET  == 40

\* A variable of the program: programs are linked for 0x08048000.
vmem_base_addr == PROG_IMAGE + 294912

\* mp1_set_video_mode, then the clock is opened.
fish_open(p) ==
  LET fd == Opened(p, RtcName)
  IN  /\ At(p, "fish", "main")
      /\ IF VidmapFails(vmem_base_addr) THEN Return(p, 255) /\ UNCHANGED vars
         ELSE /\ DoOpen(p, RtcName)
              /\ task' = [task EXCEPT ![p].fd = fd, ![p].pc = "open0",
                   ![p].loc = [fd |-> <<-1, -1>>, c |-> <<"0", "0">>,
                               eof |-> <<FALSE, FALSE>>, row |-> 0, col |-> 0]]
      /\ UNCHANGED <<dblock, may>>

\* ece391_halt(-1) when a frame cannot be opened.
add_frames_open(p, k) ==
  LET file == IF k = 1 THEN file0 ELSE file1
      fd   == Opened(p, file)
  IN  /\ At(p, "fish", IF k = 1 THEN "open0" ELSE "open1")
      /\ DoOpen(p, file)
      /\ IF fd = -1 THEN Return(p, 255)
         ELSE task' = [task EXCEPT ![p].loc.fd[k] = fd,
                         ![p].pc = IF k = 1 THEN "open1" ELSE "read0"]
      /\ UNCHANGED <<dblock, may>>

\* The next character of frame k, unless its line has ended.
NextChar(c, r) ==
  CASE r.ret = 0 -> LF [] r.ret = -1 -> c [] OTHER -> r.data[1]

Blank(c) == c \in {" ", LF}

\* The cell that blinks between the two characters.
Blink(l, c0, c1) ==
  [location |-> l.row * 80 + l.col + OFFSET,
   on_char  |-> IF c0 = LF THEN " " ELSE c0,
   off_char |-> IF c1 = LF THEN " " ELSE c1]

add_frames_read0(p) ==
  LET l == task[p].loc
      r == ReadResult(p, l.fd[1], 1)
  IN  /\ At(p, "fish", "read0")
      /\ IF l.c[1] = LF
         THEN task' = [task EXCEPT ![p].pc = "read1"] /\ UNCHANGED vars
         ELSE /\ DoRead(p, l.fd[1], 1)
              /\ task' = [task EXCEPT ![p].loc.c[1] = NextChar(@, r),
                                      ![p].loc.eof[1] = @ \/ r.ret = 0,
                                      ![p].pc = "read1"]
      /\ UNCHANGED <<dblock, may>>

\* Behind the second character the cell is added, or the row ends.
add_frames_read1(p) ==
  LET l    == task[p].loc
      r    == ReadResult(p, l.fd[2], 1)
      read == l.c[2] # LF
      c0   == l.c[1]
      c1   == IF read THEN NextChar(l.c[2], r) ELSE LF
      ends == c0 = LF /\ c1 = LF
  IN  /\ At(p, "fish", "read1")
      /\ IF read THEN DoRead(p, l.fd[2], 1) ELSE UNCHANGED vars
      /\ task' = [task EXCEPT
           ![p].loc.c[2] = c1,
           ![p].loc.eof[2] = @ \/ (read /\ r.ret = 0),
           ![p].loc.col = IF ends THEN @ ELSE @ + 1,
           ![p].out = IF Blank(c0) /\ Blank(c1) THEN @
                      ELSE Append(@, Blink(l, c0, c1)),
           ![p].pc = IF ends THEN "end0" ELSE "read0"]
      /\ UNCHANGED <<dblock, may>>

\* Mutant: the next row of a frame that has ended is read.
RowStart_again(eof) == "0"

RowStart(eof) == IF eof THEN LF ELSE "0"

\* The end of a row: a frame that has ended is closed (again).
add_frames_end(p, k) ==
  LET l == task[p].loc
  IN  /\ At(p, "fish", IF k = 1 THEN "end0" ELSE "end1")
      /\ IF l.eof[k] THEN DoClose(p, l.fd[k]) ELSE UNCHANGED vars
      /\ task' = [task EXCEPT
           ![p].loc.c[k] = RowStart(l.eof[k]),
           ![p].loc.row = IF k = 2 THEN @ + 1 ELSE @,
           ![p].loc.col = 0,
           ![p].pc = CASE k = 1 -> "end1"
                       [] k = 2 /\ l.eof[1] /\ l.eof[2] -> "close"
                       [] OTHER -> "read0"]
      /\ UNCHANGED <<dblock, may>>

fish_close(p) ==
  /\ At(p, "fish", "close")
  /\ DoClose(p, task[p].fd)
  /\ Return(p, 0)
  /\ UNCHANGED <<dblock, may>>

-----------------------------------------------------------------------------
Step(p) ==
  \/ halt(p)
  \/ cat_open(p) \/ cat_read(p) \/ cat_write(p)
  \/ open_dir(p, "ls") \/ ls_read(p) \/ ls_write(p)
  \/ open_dir(p, "grep") \/ grep_next(p) \/ grep_open(p) \/ grep_read(p)
  \/ grep_close(p)
  \/ syserr_select(p) \/ syserr_call(p) \/ syserr_verdict(p) \/ syserr_end(p)
  \/ fish_open(p) \/ add_frames_open(p, 1) \/ add_frames_open(p, 2)
  \/ add_frames_read0(p) \/ add_frames_read1(p)
  \/ add_frames_end(p, 1) \/ add_frames_end(p, 2) \/ fish_close(p)

PNext == \E p \in Proc : start(p) \/ Step(p)

\* The clock's interrupt gives every terminal its turn, and with it the
\* process that runs there.
PSpec == PInit /\ [][PNext]_pvars /\ \A p \in Proc : WF_pvars(Step(p))

-----------------------------------------------------------------------------
\* What a program has written is the beginning of what it should write, and
\* all of it when the program ends well.
Writes(t, expected) ==
  /\ IsPrefix(t.out, expected)
  /\ t.status = 0 => t.out = expected

\* The files of the directory, in order, as the characters of their names and
\* of what they hold.
Names == [i \in 1 .. num_dentry |-> dir_entry[i - 1].file_name]

Unreadable(i) ==
  /\ dir_entry[i - 1].file_type = FILE_FILETYPE
  /\ \E k \in DOMAIN Content(dir_entry[i - 1].inode_idx) :
       Content(dir_entry[i - 1].inode_idx)[k][1] >= num_dblock

Holds(i) ==
  CASE dir_entry[i - 1].file_type = RTC_FILETYPE -> <<>>
    [] dir_entry[i - 1].file_type = DIR_FILETYPE -> FlattenSeq(Names)
    [] OTHER -> IF Unreadable(i) THEN <<>>
                ELSE Text(Content(dir_entry[i - 1].inode_idx))

\* The name that an argument stands for: createfs has cut the names alike.
CutName(arg) == Cut(arg, MAXCHAR - 1)

\* cat (main): it shows every byte of the file it is given, once and in order,
\* whatever the size of its buffer and what other processes do; and it says so
\* when there is no such file or a block of it cannot be read.  A name that is
\* too long for a directory entry means the file with as much of it.
CatPrintsFile ==
  \A p \in Proc : task[p].prog = "cat" =>
    LET i == {k \in DOMAIN Names : Names[k] = CutName(task[p].arg)}
    IN  IF i = {} \/ \E k \in i : Unreadable(k)
        THEN task[p].status # 0
        ELSE \E k \in i : /\ Writes(task[p], Shown(Holds(k)))
                          /\ task[p].status \in {Running, 0}

\* ls (main) with dir_read: a listing has every name of the directory once, in
\* order, each on a line of its own.
ListsEveryName ==
  \A p \in Proc : task[p].prog = "ls" =>
    Writes(task[p], FlattenSeq([i \in DOMAIN Names |-> Append(Names[i], LF)]))

\* The lines of a text, in order.
Lines(text) ==
  FoldLeft(LAMBDA lines, c : IF c = LF THEN Append(lines, <<>>)
                             ELSE [lines EXCEPT ![Len(lines)] = Append(@, c)],
           << <<>> >>, text)

HasInfix(line, s) ==
  \E k \in 1 .. Len(line) : IsPrefix(s, SubSeq(line, k, Len(line)))

\* grep (main, do_one_file): it shows each line that contains the argument, in
\* every file whose name does not begin with '.', once, however the reads cut
\* the lines: for text without '\0', lines shorter than the buffer, and a last
\* byte of the uninitialised buffer that is not a line end.
GrepFindsLines ==
  \A p \in Proc : task[p].prog = "grep" =>
    LET s       == task[p].arg
        files   == SelectSeq([i \in 1 .. num_dentry |-> i],
                             LAMBDA i : Names[i][1] # ".")
        hits(i) == SelectSeq(Lines(Holds(i)), LAMBDA line : HasInfix(line, s))
        shown(i) == FlattenSeq([k \in DOMAIN hits(i) |->
                      Names[i] \o <<":">> \o hits(i)[k] \o <<LF>>])
    IN  /\ Writes(task[p],
                  FlattenSeq([k \in DOMAIN files |-> shown(files[k])]))
        /\ task[p].status \in {Running, 0} \/ s = <<>>

\* syserr (main): the tests of the system calls' errors pass, each alone and
\* all in one process, beside other processes and in a reused PCB.
SyserrPasses ==
  \A p \in Proc : task[p].prog = "syserr" => task[p].status \in {Running, 0}

\* The character of a text at a row and a column; a blank where there is none.
CellOf(lines, row, col) ==
  IF row < Len(lines) /\ col < Len(lines[row + 1])
  THEN lines[row + 1][col + 1] ELSE " "

\* fish (add_frames): the characters that blink in a cell are those of the two
\* frames at its row and column, for every cell where one of them is not
\* blank, also when one frame has fewer or shorter lines than the other.
FramesPaired ==
  \A p \in Proc : task[p].prog = "fish" =>
    LET index(name) == CHOOSE i \in DOMAIN Names : Names[i] = name
        lines0 == Lines(Holds(index(file0)))
        lines1 == Lines(Holds(index(file1)))
        cells  == {cell \in (0 .. Len(lines0) + Len(lines1))
                              \X (0 .. OFFSET - 1) :
                     \/ CellOf(lines0, cell[1], cell[2]) # " "
                     \/ CellOf(lines1, cell[1], cell[2]) # " "}
        all    == {[location |-> cell[1] * 80 + cell[2] + OFFSET,
                    on_char  |-> CellOf(lines0, cell[1], cell[2]),
                    off_char |-> CellOf(lines1, cell[1], cell[2])] :
                   cell \in cells}
    IN  /\ ToSet(task[p].out) \subseteq all
        /\ task[p].status = 0 => ToSet(task[p].out) = all

\* Every program that is started ends: its loops end with what they read, and
\* no descriptor is missing after another program in the same PCB.
ProgramsFinish == \A p \in Proc : p \in live ~> p \notin live
=============================================================================

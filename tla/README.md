# ChairmanOS in TLA+

ChairmanOS (`student-distrib/`) is a small 32-bit kernel: three virtual
terminals, up to six processes, a round-robin scheduler driven by the PIT, ten
system calls, a read-only file system, a keyboard, a real-time clock and a text
screen. This directory models the parts of it in which several actors touch the
same state, its library and the user programs that exercise its calls, checks
them with TLC, and proves with TLAPS, for every size of the instance, the safety
properties of all eight models, their three refinements included, but for three
properties of `printf`, `grep` and `fish` (see "What stays with TLC").

## Inventory

| Component | State | Operations | Interacts through |
|---|---|---|---|
| Processes, scheduler (`syscall.c`, `pit.c`) | `pidlist`, `current_pid`, `scheduled_terminal`, PCBs at fixed addresses, `tss.esp0`, the page at 128 MB | `sys_execute`, `sys_halt`, `schedule`, `context_switch` | interrupts inside system calls, `terminals[]`, `flag_initialize_terminal` |
| Terminals (`keyboard.c`) | `disp_terminal`, `keyboard_buffer`, `terminal_buffer`, `terminals[]`, `terminal_read_flag` | keys, `terminal_read`, `terminal_write`, `switch_terminal` | the keyboard handler writes what `terminal_read` polls; Esc calls `sys_halt`; `sys_execute` reads `disp_terminal` |
| Clock (`rtc.c`) | registers behind an index and a data port, `curr_interrupt[3]` | `open_rtc`, `read_rtc`, `write_rtc`, `do_rtc_handler` | the handler and `init_rtc` share the index port; all terminals share the device |
| Descriptors and files (`syscall.c`, `filesys.c`) | `file_array` in every PCB, the constant image | `sys_open/close/read/write`, `read_data`, `file_read`, `dir_read` | `sys_execute` sets the table up, `sys_halt` closes it |
| Screen (`lib.c`) | video memory, three copies, `screen_x/y` | `putc`, `scroll`, `clear`, `backspace` | keyboard echo and `terminal_write` of every terminal |
| Interrupt controller (`i8259.c`) | two mask registers | `enable_irq`, `disable_irq`, `send_eoi` | every section that masks interrupts |
| Library (`lib.c`) | memory, the direction flag | `memset...`, `memcpy`, `memmove`, string functions, `itoa`, `printf` | used by all of the kernel; the file system relies on `strncmp`, `strncpy`, `strlen` |
| User programs (`syscalls/`, `fish/`) | their buffers and descriptors | `shell`, `cat`, `ls`, `grep`, `syserr`, `fish` | system calls |
| Paging, boot, IDT, traps | page directory, tables | `allocatePage`, `vidmem_alloc`, handlers that spin | used by all of the above |

What is hard here is that nothing protects a system call. `syscall_handler.S`
executes `sti` before it dispatches, so the timer may switch to another
terminal, and a key may halt a process or change the displayed terminal,
between any two instructions of `sys_execute`, `sys_halt`, `init_rtc` or
`terminal_read`. The kernel finds "the current process" again and again through
`current_pid`, and "the terminal" through `disp_terminal` in some places and
through `scheduled_terminal` in others.

What makes each part correct:

* Processes: the running process is the one `current_pid`, the mapped page,
  `tss.esp0` and its terminal's `shell_pid` name; the processes of a terminal
  form a chain that `sys_halt` walks back; nobody writes a live process's PCB;
  every terminal keeps running and every call ends.
* Terminals: a key has the effect that it had when it was pressed; a line that
  is typed on a terminal reaches a reader of that terminal, unchanged and once.
* Clock and interrupt lines: it runs at the frequency asked for, readers return,
  and not before an event; a line that a driver disables comes back.
* Files: a descriptor stands for what was named and delivers it in order.
* Library: a call changes the bytes it should, and no other, at every alignment.
* Programs: what they show is what the disk holds, and they end.
* Screen: every terminal has a screen of its own, shown or not; what a program
  writes and what the user types appear on it and on no other; characters can
  be taken back without leaving the screen.

## Modules

| Module | Models | Properties |
|---|---|---|
| `Processes` | process life cycle, scheduler, boot, keys that act on processes, exceptions | `TypeOK`, `ContextAgree`, `JobChains`, `LivePcbStable`, `EveryTerminalRuns`, `LineIsRead`, `CallsComplete`, `ImplementsJobControl`, and the two that the code violates |
| `JobControl` | abstract: one line of jobs per terminal | |
| `ProcessesInvariant` | the inductive invariant of `Processes` | `Inductive` |
| `ProcessesProofs` | its proof, what follows from it, and that `Processes` implements `JobControl` | theorems below |
| `LineEditor` | abstract: one line editor per terminal | |
| `Terminals` | the line discipline of `keyboard.c` | `TypeOK`, `ImplementsLineEditor` |
| `TerminalsProofs` | its types, and that it implements `LineEditor` | theorems below |
| `Keyboard` | scan codes and modifiers, in front of `Terminals` | `HandledAsMeant` |
| `KeyboardProofs` | the proof of `HandledAsMeant` | theorem below |
| `Rtc` | the clock driver, the device and the interrupt masks | `TypeOK`, `FrequencySet`, `LinesBack`, `ReadWaits`, `ReadReturns`, and `ReadBlocks`, which the code violates |
| `RtcProofs` | the proofs of its four safety properties | theorems below |
| `Files` | descriptors and file system | `TypeOK`, `FileReadInOrder`, `DirectoryListed`, `OpensNamed` |
| `FilesProofs` | the proofs of its four invariants | theorems below |
| `Programs` | `cat`, `ls`, `grep`, `syserr`, `fish` on top of `Files` | `CatPrintsFile`, `ListsEveryName`, `GrepFindsLines`, `SyserrPasses`, `FramesPaired`, `ProgramsFinish` |
| `ProgramsProofs` | the proofs for `cat`, `ls` and `syserr` | theorems below |
| `Library` | `lib.c` without the screen | `MemoryRight`, `StringsRight`, `ItoaRight`, `PrintsDirectives` |
| `LibraryProofs` | the proofs for the memory and string routines and `itoa` | theorems below |
| `VirtualConsoles` | abstract: one screen per terminal | |
| `Screen` | output, echo, terminal switching and direct drawing | `TypeOK`, `CursorAhead`, `CursorShown`, `ImplementsConsoles` |
| `ScreenProofs` | the proofs of its three invariants, and that it implements `VirtualConsoles` | theorems below |
| `MC...` | the instances for TLC | |

Definitions whose comment begins with "Mutant" are deliberately wrong versions
of the definition that follows; no specification uses them. Putting one in the
place of the right one must break the property that `PROJECT.json` lists with
it.

### Processes

There is one CPU and one thread of control per terminal: the chain of processes
started there, of which only the last one runs. `pc[t]` is the point thread `t`
has reached. Only the thread of `scheduled_terminal` moves; a timer interrupt
leaves it where it is and resumes the next one. `sys_execute` is split into
picking an entry, taking it, reading the parent, `modify_terminal_curr_pid`,
mapping the page, loading, filling the PCB, and setting `tss.esp0` with the
`iret`; `sys_halt` into reading the PCB, freeing the entry,
`recover_terminal_curr_pid`, passing `current_pid` to the parent or asking for a
new first shell, mapping the page, and the jump to `halt_ret`. The split is at
every access to state that an interrupt handler reads or writes. A handler runs
through an interrupt gate with IF clear and is one action; this holds for
`sys_execute` and `sys_halt` too when a handler calls them (`LaunchBase`,
`esc_child`, `esc_base`).

Data is reduced to what the properties distinguish. An address that the code
computes from a pid (kernel stack, PCB, physical page) is that pid; a saved
`esp` is the process whose frame it points into; a program is "shell" or "app";
a command line is one of those, "bad", "exit" or empty. `proc` (the process a
thread really runs) and `home` (the terminal a process was started on) are
history variables: the code has neither, and the properties compare them with
what it derives. The status of `sys_halt` is left out because the code drops it:
`sys_execute` returns 0 after `halt_ret` whatever the status, and also when the
process list is full.

Two constants state hypotheses. `Masked` is the set of points at which no
interrupt is delivered: `{}` is the code, `Critical` is the code with `cli` and
`sti` around `sys_execute`, `sys_halt` and the end of `entry()`. `PatientUser`
says that the user presses Alt-Fn only when no line waits to be executed. With
both (`Masked = Critical`, `PatientUser = TRUE`) the properties hold; the
violation runs drop one hypothesis each and show what happens. So the passing
run and the theorems say which discipline is enough, and the violation runs say
that each part of it is needed.

* `processes_preempt` masks the point "boot" only. The shell of terminal 0 runs
  `sys_execute`; behind `current_pid = i` the timer goes to terminal 1 and back.
  `context_switch` sets `current_pid` to `shell_pid[0]`, which
  `modify_terminal_curr_pid` has not changed yet and which is the calling shell;
  `sys_execute` goes on and finds the PCB it fills (syscall.c:159) through
  `current_pid`: the shell's own and not the new process's.
* `processes_display` masks all points but has an impatient user. Both shells
  are running; a command is entered on terminal 0, its shell has read the line,
  and Alt-F2 is pressed. `sys_execute` takes the parent from the terminal on
  display (syscall.c:137): the process of terminal 0 gets the shell of terminal
  1 as its parent.

The point "boot" belongs to `Masked` for the same reason: `entry()` executes
`sti` before `sys_execute("shell")` (kernel.c:210), with
`flag_initialize_terminal` already set. Left open, a timer interrupt there
starts terminal 1's shell, which consumes the flag, and terminal 0's first shell
is started as a child of a process 0 that does not exist.

`Jobs` maps this state to `JobControl`, where every terminal has one line of
jobs: a shell, started anew when it ends, and behind it jobs each started by the
shell before it, of which only the last works. The jobs are the processes that
are `Live`; most steps of a call are stutters. `JobControl` knows
nothing of pids that are reused, of pages or of stacks. The refinement needs
the discipline above. In particular `sys_halt` frees the pid (syscall.c:378)
and reads the PCB at lines 379 to 399, "restore esp and ebp using info in
pcb_t": with interrupts delivered in `sys_halt` only, another terminal takes the
entry in between, and the refinement fails.

First shells that a handler starts inherit EFLAGS with IF clear, but every
system call enables interrupts, and a shell is always in `terminal_read` or
`terminal_write`; so the point "user" is interruptible.

### Terminals and LineEditor

`Terminals` has the one `keyboard_buffer`, the one `terminal_buffer`, the copies
kept for hidden terminals, the counts and flags, and `terminal_read` split at
every access to what a key changes. A key is one action: IRQ1 stays in service
until the handler returns, and the timer, which may nest after `putc` has
executed `sti`, changes nothing of the line. `Lines` maps this state to
`LineEditor`: the line of terminal `t` is the first `input_count[t]` characters
of its buffer, a completed line is `terminal_buffer` up to its first NUL.

The mapping is a refinement only if the user presses Enter when no line is
unread, because all terminals share `terminal_buffer`, and Esc when the line is
empty, because the reset of `input_count` behind `sys_halt(0)` (keyboard.c:238)
is never reached. Without the first, Enter overwrites a line that was completed
and not yet read, although keyboard.c:263 says "if the read func haven't
finished reading, stay". Everything else (typing on several terminals, switching in
the middle of a line or of a read, Ctrl-L, killing a reader) is unrestricted.
`terminal_read` also stores its newline behind the `limit` bytes it was asked
for; the model does so too, and the refinement strips it.

### Keyboard

The user presses and releases keys at any time, and a key held down repeats; the
controller keeps up to `Capacity` codes while the keyboard's line is masked or
IF is clear, and loses what does not fit. `Meaning` says what a key means with
the keys that are down at that moment; every code carries it through the queue,
and `HandledAsMeant` compares it with the effect that
`printable_char_generate` gives the code under its own four flags, which it
knows from earlier codes only. The effects themselves are in `Terminals`,
`Screen` and `Processes`. Three hypotheses are in the user and the controller:
one key of a modifier is held at a time (there is one `kbd_shift` for two keys,
so that the release of one ends the effect of the other), caps lock is not held
until it repeats (every press code toggles it), and after a loss the meaning is
unknown until the next code of that modifier, for caps lock for ever.

### Rtc

The device (an MC146818) is external: an index, registers A, B and C as sets of
bits, a periodic tick while the divider, the rate and PIE allow it, and a
request that the i8259 holds. `init_rtc` is one action per port access, since
`sys_open` runs with interrupts enabled; `write_rtc` is atomic between `cli` and
`sti`; `read_rtc` is split at the flag. `OpenMasked = TRUE` is the hypothesis
that `init_rtc` is protected as `write_rtc` is. Frequency 1 is left out of
`FreqValid`: its rate, 16, is cut to 0, which stops the clock. `init_rtc` resets
the flags of all terminals (rtc.c:49), so that an open wakes the readers of the
other terminals without an interrupt, although `read_rtc` is described as "block
rtc until the next interrupt arrives" (rtc.c:108). `served` collects what has
reset a reader's flag since it was set. `ReadBlocks` is what the comment says,
that a read returns only if an interrupt is among it; the run `rtc_wait` shows
that the code does not do so. `ReadWaits` is what the code does: a read returns
only after an interrupt or an open by a process of another terminal.

A frequency that `write_rtc` turns away changes nothing of the device. The
message it then prints goes through `putc`, with the mask changes of the putc's
in `terminal_write`, which the model has at the same place of a process: it is
not a step of its own.

`master` and `slave` are the lines masked in the two controllers, each changed
by `enable_irq` and `disable_irq` as in the code: the slave's mask is computed
from the master's (i8259.c:68), which leaves lines 9 and 10 in the state of lines 1
and 2. Both functions end with `sti`, and `terminal_write`, `putc` and `scroll`
nest without remembering what was masked before. So a key that is typed between the
masking of the timer and that of the keyboard enables the timer again, another
process enters the same section, and the inner `putc` opens what the outer
`terminal_write` has closed. Esc halts a process inside the section; its lines
stay masked until the shell writes its prompt. `LinesBack` says that whenever no
process is in a driver the three lines that are used are enabled, and
`ReadReturns` that no reader waits for ever for a masked clock or timer.

### Files

A call works on its own PCB's table and on constant data, so it is one action.
A byte is the pair of its block and its place in it, which makes a wrong block
or a wrong offset visible. `read_data` is the loop of the code as a recursive
function; `Content` is the reference. Calls that return -1 change nothing and
are no step. A name may fill its field, which then has no terminator: the
string that `strncpy` copies and `strlen` measures (filesys.c:327, 335) goes on
with the first byte of `file_type` (`NameString`, with `chr` for the character
of a byte), and a read of more than `MAXCHAR` bytes gets that byte too.
`DirectoryListed` therefore speaks of the first `MAXCHAR` characters of what
each read has copied. `read_dentry_by_name` compares `MAXCHAR - 1` characters,
so that two names of 32 characters that differ in the last one would be the
same file, and copies the name it is asked for to a `dentry_t` without a limit
(filesys.c:63): names asked for are shorter than `DentrySize`.

### Programs

`Programs` extends `Files`: a process runs one of the programs, each of its
calls on a descriptor is a step, and the steps of two processes interleave.
`start` sets the PCB up again, so that a program finds the table that
`sys_execute` leaves. What a program writes is kept in `out` and compared with
references that look at the disk directly: the content of a file for `cat`, the
names of the directory for `ls`, the lines that contain the argument for `grep`,
the cells of the two frames for `fish`. `syserr` is the repository's own test of
the error returns of the calls: each of its eight tests is a sequence of calls,
run alone or all in one process, and `SyserrPasses` says that none of them
reports a failure.

`read_data` and `dir_read` decide how a text is cut. `grep` keeps an unfinished
line at the front of its buffer, tests a byte behind what it has read
(ece391grep.c:33), which nothing has initialised (`Uninit`), and replaces line
ends by NUL on the way; the model has its buffer byte by byte. The properties
are stated for lines shorter than grep's buffer, and `fish` for frames that can
be read: it takes a failed read for a character and would not end. The file that cannot be read has a name that begins
with a dot, so that `cat` meets it and `grep` passes over it. `DiskAssumption`
says what the programs count on: "." is the directory, names are distinct, not
empty and of characters that can be shown, every regular file has an inode, the
two misspelt names of `syserr` do not exist, and the name that `cat` is given
fits into a `dentry_t`. It may be longer than a name on the disk can be: then it
means the file with as much of it as there is room for (`CutName`).

Names on the disk are shorter than `MAXCHAR` (`ProgramsAssumption`), because
`createfs`, the tool that makes the disk (external: only its binary is in the
repository), copies at most 31 characters of a name and ends it with '\0'. The
one file of `fsdir/` whose name has 32 characters,
`verylargetxtwithverylongname.txt`, is stored in the image
`student-distrib/filesys_img` (offset 1024) as
`verylargetxtwithverylongname.tx`, a NUL, and the type 2; the test at
filesys.c:178, which asks for it by its full name, finds it because 31
characters are compared. With a disk that another tool had made, a name that
fills its field would give `dir_read` a length of 33, for which `ls` has no room
behind its buffer for the newline; what `dir_read` returns for such a disk is
covered by `Files`, and what `ls` then overwrites is not modelled.

`ProgramsFinish` assumes weak fairness of every process's steps: the rotation of
the scheduler (`EveryTerminalRuns`) gives each its turn. The read by which
`syserr` asks for a number is a choice of the number.

### Library

A step is one call on a memory of `MEMSIZE` bytes, from what its instructions
do: the string instructions go up or down with the direction flag, `memset` and
`memcpy` do single bytes to a boundary of four, then units of four, then the
rest. A second call (`MaxCalls`) comes behind one that has left the flag set.
The reference definitions say byte by byte what the memory must be. For
`memset_word` and `memset_dword` that is an area of `n` words and of `n` double
words, as the instructions do it; the comments on both (lib.c:494, 521) call `n`
the "number of bytes to set" and are wrong by a factor of two and four. Nothing
in the repository calls them. Bytes are unsigned but in `strncmp`, whose
difference is that of `int8_t` values (`SignedByte`). The values
that are filled in have no two bytes alike, and `memset` is given one that does
not fit a byte. `ItoaRight` reads the string back: `NumberOf` takes its digits
from the first on, and the result must be the value, with no leading zero.
Words have `HEXDIGITS` digits, so that `%d` meets the smallest number and `%#x`
its full width; what a directive must show is given with it by the instance.
Excluded are areas outside the memory, `memcpy` to a destination inside its
source, overlapping strings, and a format that ends in '%', which makes `printf`
step over its terminator. The run may stop, since `MaxCalls` bounds the calls in
a row; its cfg says so.

### Screen and VirtualConsoles

The terminal on display is drawn in the video memory, the others in a buffer
each. `putc` gets a flag that says which of the two to use and, for the video
memory, reads `disp_terminal` itself; `terminal_write` computes the flag once.
`switch_terminal` copies the video memory to the old terminal's buffer and the
new one's to the video memory, moves the hardware cursor, and maps the pages
through which programs draw directly (`sys_vidmap`).

`putc`, `scroll`, `clear`, `backspace` and `terminal_write` each disable three
interrupt lines and enable them at their end, with `sti`, whoever called them.
So an interrupt is possible before every character of a text but the first,
between the reading of `disp_terminal` in `putc` and its work, behind `scroll`
in the middle of `putc`, behind the loop of `clear`, and between Enter's newline
and the reset of its count. `Window` names these five points; `Masked` is the
set of those at which interrupts are held off, `{}` in the code. Because `sti`
is executed in the keyboard handler too, the timer can take the CPU away from a
key: the handler is an actor of its own, `KBD`, that runs on the stack of the
thread it interrupted (`kbd`), and no other key arrives before it is done.
The few assignments that follow a window (row, column, cursor; in Ctrl-L the
count) are one step: the timer could also separate them, and a program of
another terminal could then write between them.

`Consoles` maps this to `VirtualConsoles`, a screen, a position and a count of
typed characters per terminal. The screen of `t` is the video memory if `t` is
shown and its buffer if not; the position is row and column, corrected at the
two points where `putc` and `clear` have changed the memory and not yet the
coordinates. The mapping is a refinement if interrupts are held off in the
windows; in the code the rest of a text goes to whatever terminal is shown
meanwhile. `CursorAhead` needs no such hypothesis.

Characters are a small set in which NUL and space are one `BLANK`; colours are
left out. The buffers start blank, as the firmware leaves text memory. An offset
behind the last row, which `putc` can compute after Esc has halted a process
behind `scroll` (screen_y stays `NUM_ROWS`), is memory that nobody shows.
`MaxRow` bounds how often that happens in TLC; nothing else limits `screen_y`,
and no proof uses the bound.

## Runs

| Run | Instance | Shows |
|---|---|---|
| `processes` | 2 terminals, 4 processes, `Masked = Critical`, patient, fair | the safety properties, `Inductive`, the refinement of `JobControl` and the three liveness properties; 69 thousand states |
| `processes_preempt` | 2, 4, only "boot" masked | the PCB of the calling shell is filled instead of the new process's (`PcbOfNewProcess`) |
| `processes_display` | 2, 4, impatient | the parent is the shell of the other terminal (`ParentIsCaller`) |
| `terminals` | 2 terminals, lines of 2, 2 characters, reads of 1 | the refinement of `LineEditor` |
| `keyboard` | 9 keys, 2 codes kept, 2 keys held | `HandledAsMeant`; 4.5 million states |
| `rtc` | 2 terminals, frequencies 0, 2, 3, 1024, 2048, fair | `FrequencySet`, `LinesBack`, `ReadWaits`, `ReadReturns`; 321 thousand states |
| `rtc_open` | the same, `init_rtc` not protected | the rate is written to no register (`FrequencySet`) |
| `rtc_wait` | as `rtc` | a read returns without an interrupt (`ReadBlocks`) |
| `files` | 2 processes, 2 free descriptors, blocks of 2 bytes | order, listing and names; 257 thousand states |
| `programs` | 2 processes, 8 descriptors, 7 names, blocks of 2 and buffers of 4 bytes, fair | what the programs show, and that they end; 115 thousand states |
| `library` | 9 bytes, words of 8 bits, 2 calls | every call against its reference; 0.86 million states |
| `screen` | 2 terminals, 2 by 2 cells, lines of 2, all windows masked | the refinement of `VirtualConsoles`, `CursorShown`, `CursorAhead`; 0.6 million states |

The bounds are chosen for the cases that matter. Four processes on two
terminals allow a chain of three on one terminal, two terminals with a child
each, and a full process list. The code has three terminals and six processes;
for these, as for all others, the safety properties and the refinement are
theorems. Two characters and lines of two show every order and
a full line, and reads of one cut a line. Two terminals suffice in `Rtc`, where
terminals differ only in their index. A file of two and a half blocks and reads
of 1 and 4 bytes start and end at every place of a block; one file ends with its
block, and its name fills its field, and one has a block number out of range. A screen of two rows and two
columns wraps, scrolls and holds a line that fills a row. The windows of the
screen are closed in its run; that `CursorAhead` holds with them open, as in the
code, is a theorem below. The nine keys have both keys of a modifier, one with a
prefix, a letter with two effects, a digit and a function key; two codes are
enough for one to wait while another is lost. In `programs` one process alone
meets every text of six characters with lines of at most three in `cat` and
`grep` and 729 pairs of frames in `fish`, and two processes run all programs
beside each other on one text; the texts span three blocks in reverse order.
Nine bytes hold a misaligned head, a unit of four and a tail. Symmetry is used for characters
and for processes of `Files`, which no definition tells apart, and in no run
with liveness.

Fairness. The PIT runs freely and the i8259 latches a request that arrives
while it is masked, so a timer interrupt that is enabled again and again is
delivered: strong fairness of `do_pit_handler` (and of `schedule` and
`do_rtc_handler` in `Rtc`). A thread that is scheduled again and again executes
instructions each time: strong fairness of its kernel steps and of the shell's.
Nothing is assumed of programs or of the user. The clock's tick is weakly fair
while the clock runs. `Rtc` also assumes that Esc is not pressed for ever:
each press may halt a process between the masking and the unmasking of the
timer, and a user who always does so keeps it masked. `Programs` assumes weak
fairness of each process, as said above.

## Proofs

Every theorem holds for every value of the constants that satisfies the named
assumption of the module; hypotheses that go beyond it are part of the theorem's
statement and listed here.

| Theorem | Statement | Hypotheses beyond the assumption |
|---|---|---|
| `InductiveInvariant` | `Spec => []Inductive` | `Discipline` |
| `TypeCorrect`, `ContextCorrect`, `JobChainsCorrect` | `[]TypeOK`, `[]ContextAgree`, `[]JobChains` | `Discipline` |
| `LivePcbCorrect` | `LivePcbStable` | `Discipline` |
| `JobControlImplemented` | `ImplementsJobControl` | `Discipline` |
| `TerminalsTypeCorrect` | `[]TypeOK` | |
| `LineDiscipline` | `ImplementsLineEditor` | `PatientUser` |
| `HandledAsPressed` | `[]HandledAsMeant` | |
| `RtcTypeCorrect`, `LinesComeBack` | `[]TypeOK`, `[]LinesBack` | |
| `ReadsWait` | `ReadWaits` | |
| `FrequencyKept` | `[]FrequencySet` | `OpenMasked`, `1 \notin Freq` |
| `FilesTypeCorrect`, `FilesReadInOrder`, `DirectoriesListed` | `[]TypeOK`, `[]FileReadInOrder`, `[]DirectoryListed` | |
| `OpensTheNamed` | `[]OpensNamed` | names asked for are shorter than `MAXCHAR - 1` |
| `CatComplete`, `ListingComplete`, `SyserrAlwaysPasses` | `[]CatPrintsFile`, `[]ListsEveryName`, `[]SyserrPasses` | |
| `MemoryIsRight`, `StringsAreRight`, `ItoaIsRight` | `[]MemoryRight`, `[]StringsRight`, `[]ItoaRight` | |
| `ScreenInvariant`, `ScreenTypeCorrect`, `CursorStaysAhead` | `[]Inv`, `[]TypeOK`, `[]CursorAhead` | |
| `CursorFollows` | `[]CursorShown` | `Held` |
| `ConsolesImplemented` | `ImplementsConsoles` | `Held` |

`Discipline` (`Critical \subseteq Masked`, `PatientUser = TRUE`), `OpenMasked` and
`Held` (`Masked = Window`) are not met by the code: they say that interrupts are
held off where the code lets them through. What the violation runs and the
sections above report is what happens without them. The theorems with an empty
last column hold of the code as it is, on the disks and for the calls that the
named assumptions describe: for `CatComplete` and `ListingComplete` a disk whose
names end in their fields, as `createfs` makes them, while `DirectoriesListed`
includes names that fill theirs. `ReadsWait` states what the code does, which is
less than its comment says (`rtc_wait`).

### Processes

The assumption is `ConstantsAssumption`: at least one terminal, at least as many
processes as terminals. `ContextAgree` and `JobChains` are not inductive:
between the steps of `sys_execute` and `sys_halt` the kernel's variables
disagree. `Inductive` (module `ProcessesInvariant`) therefore adds
what holds at every point of a call: which of `current_pid`, `page`, `tss_esp0`
and `shell_pid` are already the new process's and which still the caller's; that
threads that are not scheduled are at rest; that the first shell of a started
terminal is process `t`; and that no two processes have the same parent. The
proof has one lemma per action, below it one step per conjunct that the action
can disturb; `LivePcbStable` follows from the invariant and a case split on the
actions that write PCBs or images.

The refinement needs more, because `JobControl` asks whose job is last in
its line and which program started it. `Lineage` adds to `Inductive` that there
is a rank which falls from a child to its parent (`Ranked`, so that no chain of
parents is a cycle, and the last job of a line is the terminal's top), that a
thread in `sys_execute` got there from a shell (`AllAsked`), and that first
shells run the shell (`Shells`). The map `LiveJobs` changes in three ways only:
a child becomes live at the end of `sys_execute`, a process ends in `sys_halt`,
and a first shell starts, each in a call or in a handler; every other step is
shown to leave it unchanged.

### Terminals

The assumption is `TerminalsAssumption`. `LineInv` says that at most one
terminal has a line in the shared `terminal_buffer` and that the buffer is empty
when none has (`OneReader`); that such a line has no NUL before its end
(`WholeLine`); that what a reader has copied is the front of it (`CopiedLine`);
and that a line being typed has no gap (`NoGap`), wherever its buffer is kept.
`OneReader` is the part that an impatient user breaks.

### Keyboard

The assumptions are `KeyboardAssumption` and `KeyAssumption` (the keys are ones
whose codes the model knows). The handler lags behind the user by the
codes in the queue, so that no relation between its flags and the keys that are
down now is inductive. `Follows` says that there is a run of flags through the
queue, from the handler's own to ones that agree with the keys, under which
every code that waits has the effect it was meant to have.

### Rtc

The assumption is `RtcAssumption`. `LinesBack` speaks of states in
which nobody is in a driver; `Masks` says, for each line that is masked, which
points of which thread still lead to the step that enables it. The timer's line
can be masked only by the scheduled thread, while the keyboard's and the clock's
may be held by one that was interrupted. `ReadWaits` follows from `Served`: a
reader whose flag is clear has had an event. For `FrequencySet`, `Setting` says
how far `init_rtc` has come with the two registers, and that the index port
selects the one it is about to write, which only `OpenMasked` guarantees; the
lemma `calculate_rate_value` gives the rate of every valid frequency.

### Files

`FilesAssumption` types the image, and `EntryAssumption` says that a name is no
longer than its field and a type one byte; nothing is assumed of block numbers,
which `read_data` checks. For listings, `FieldRead` shows that the byte behind a
name without a terminator is never among the first `MAXCHAR` that are copied.
`Places` says of every open descriptor what its reads have
returned. That a read returns the next bytes is a statement about the loop
of `read_data`, of any length. The library's induction theorems take a predicate
as a parameter and cannot be used; `FilesProofs` derives induction for a set of
numbers instead (`LeastNumber` from the well-foundedness of `<`, then
`StrongInduction`), and each use defines the set of lengths for which the claim
holds. In the same way it shows that the recursive function of the loop
satisfies its equation. `OpensNamed` needs its hypothesis because
`read_dentry_by_name` compares `MAXCHAR - 1` characters.

### Programs

The assumptions are `FilesAssumption`, `ProgramsAssumption` (the sizes of the
buffers, and names with a terminator in their field, as `createfs` writes them)
and `DiskAssumption`. The properties
speak of what has been written; what makes them true is
how far the descriptor has moved. `Rows` says of every process at which row of
its program it is. For `cat` (`cat_row`), at each program counter: how many
bytes of the file have been read, that all of them, or all but those in the
buffer, have been written, and that the table of the process holds the
descriptor at that place. For `ls` (`ls_row`): the same with the number of names.
For `syserr` (`syserr_row`): the test that is running, the call it is at, which
descriptors are open there, and that none of the tests so far has failed. Only
`err_open_lots` has descriptors open, and closes every one of them before it
ends, which the tests behind it in the same process depend on. Nothing is said
of `grep` and `fish` but the shape of their records.

A step changes the row of one process. The frame lemmas show once and for all
that no step of a process touches the table, the task or the disk of another
one; each step of each program then has one lemma about its own row. `cat` also
needs to know exactly when `read_data` fails: when one of the bytes that it would
return lies in a block that is out of range. So `cat` ends with status 3 for a
file of which one block is bad, however many reads succeed before it.

### Library

The assumption is `LibraryAssumption`: the memory consists of bytes, and the
radices are from 2 to 36, for which `lookup` has digits. The inductive invariant
is the properties with `Typed`, that the memory consists of bytes as long as
another call can follow.
The work is in one lemma per routine. `rep movs` is a loop in which a later
unit reads what an earlier one wrote; by induction over the units, going up
copies an area when the destination does not begin inside the source, and going
down when it begins above the source, which is how `memmove` chooses. `memcpy`
and `memset` put three such loops together at a boundary of four. The direction
flag, which `memmove` leaves set, does not occur in any result: each routine
clears it or steps by single instructions.

For `itoa`, one induction shows that the loop is defined (each turn goes on with
a smaller value) and that its digits, read from the last to the first, make up
the value with the highest not zero; one shows that `strrev`, which exchanges
the ends and stops at `len / 2`, reverses; and one that reading a numeral with
one digit more multiplies by the radix and adds. No digit is '\0', so that the
string ends where `itoa` ends it.

### Screen

The assumption is `ScreenAssumption`; its one condition of substance is that a
line of `INPUT_SIZE` characters fits above the last row (128 characters and 24
rows of 80 in the code). `TypeOK` and `CursorAhead` are proved for every
`Masked`, the code's `{}` included. `CursorAhead` is not inductive: a scroll moves the
cursor up, and Ctrl-L moves the cursor of the terminal that `clear` has read
earlier but resets the count of the terminal that is on display by then, with the
timer possible in between. `Inv` therefore adds `ClearPhase`, that the terminal
whose cursor `clear` has read is still the one on display, because no key
arrives while the handler is at work. A scroll leaves the cursor in the last
row, where the assumption on lines suffices; Enter's step back by a row is
matched by the newline that follows it in the same critical section.
`TypeOK` in turn needs `CursorAhead`: a row below 0 is excluded because a
character that is taken back lies behind the cursor.

The refinement adds `HeldInv`: only the running actor is inside an
operation (`Settled`), what it has read of `disp_terminal` is still true
(`Looked`), a row behind the screen occurs only between `scroll` and the rest of
`putc` (`Rows`), the cursor register is that of the terminal on display except
inside `scroll` and `clear` (`CursorKept`), and the pages of `sys_vidmap` lead to
the memory of their terminal (`Pages`). Every action is then matched with the
abstract one whose effect it has on `Screens`, `Positions` and `TypedCount`;
`switch_terminal` exchanges memories, changes which terminal is shown and leaves
all three as they are.

### What stays with TLC

* The liveness properties (`EveryTerminalRuns`, `LineIsRead`, `CallsComplete`,
  `ReadReturns`, `ProgramsFinish`): fairness is beyond the prover. The
  refinements that are proved are of specifications without fairness.
* `GrepFindsLines` and `FramesPaired`. Their references cut a text into lines
  with `FoldLeft` and filter with `SelectSeq`, operators that take an operator as
  a parameter: nothing the provers can use relates them to a loop over a buffer
  or over single characters. Rewritten as recursive functions they would be
  copies of the loops they are meant to judge.
* `PrintsDirectives`. What a directive must show is given with it by the instance
  (`shows`), not computed from it. A proof would have to assume it, and the width
  of `%#x` rests on a fact about powers of 16, of which the provers know none.
* That the assumptions on constants are met is evaluated by TLC in every run.
* The violation runs are counterexamples and need no proof.

## Findings

Where the code and its own text disagree, each with the run that shows it:

* `processes_preempt` (syscall.c:159): the PCB of the new process is found
  through `current_pid`, which an interrupt has changed.
* `processes_display` (syscall.c:137): the parent is the top process of the
  terminal on display and not the caller.
* `rtc_open` (rtc.c:48): the clock's handler selects another register between
  the two port accesses of `init_rtc`.
* `rtc_wait` (rtc.c:49 and the comment at 108): an open of the clock ends the
  reads of the other terminals.
* `library` (lib.c:507, 533 and the comments at 494 and 521): `memset_word` and
  `memset_dword` count words and double words, not bytes. `MemoryRight` states
  what the code does, so this run passes.

## Not modelled

* `kmalloc.c` and `mouse.c` are called but are not in the repository.
* `temp/` holds earlier drafts of kernel files that are not compiled.
* Descriptor tables, IDT, boot code and the static page tables are constant data.
* `fish` behind its reading of the frames (loops that wait for the clock and
  redraw, `blink.S`); `hello`, `counter`, `pingpong` and `testprint`, which only
  print; `sigtest`, which needs signals, and the kernel has none;
  `ece391emulate.c`, which emulates the calls on another system.
* System calls 11 and 12, which the entry dispatches behind the end of its table.
* `test_interrupts` and the test functions of `filesys.c`, which print.

## Plan

The order was: processes first, because everything runs on them; then the
terminals, the clock, the files and the screen; then the abstract job control,
the keyboard, the interrupt masks, the programs and the library; then the
proofs, of the processes and the screen first and of the programs and the
library last. What could be added:

1. In `Screen`, one step per assignment behind `scroll` and `clear`.
2. `GrepFindsLines` and `FramesPaired` as theorems, with references over sets of
   positions instead of sequences of lines.
3. `fish` behind its reading of the frames, with the clock of `Rtc`.

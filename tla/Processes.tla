------------------------------ MODULE Processes ------------------------------
(***************************************************************************)
(* Processes, terminals and the scheduler of the kernel: sys_execute,      *)
(* sys_halt, schedule and context_switch (student-distrib/syscall.c), the  *)
(* keys that act on processes (keyboard.c) and the state they share.       *)
(*                                                                         *)
(* The machine has one CPU.  Every terminal has one thread of control: the *)
(* chain of processes started on it, of which only the last one runs.  The *)
(* timer interrupt rotates the CPU between the terminals; a thread that is *)
(* not scheduled is suspended inside context_switch.  System calls run     *)
(* with interrupts enabled (syscall_handler.S executes sti before it       *)
(* dispatches), so the timer and the keyboard may also interrupt           *)
(* sys_execute and sys_halt: each of them is split at the accesses to      *)
(* shared state, and pc[t] is the point thread t has reached.              *)
(***************************************************************************)
EXTENDS Integers, FiniteSets

CONSTANTS
  TERMINAL_NUM, \* terminals; terminal t's first shell is process t
  MAXPROC,      \* size of pidlist
  Masked,       \* points at which no interrupt is delivered; {} in the code
  PatientUser   \* the user leaves a terminal only when its command has started

Term  == 0 .. TERMINAL_NUM - 1
Pid   == 0 .. MAXPROC - 1
NoPid == -1
Slot  == Pid \cup {NoPid}

Command == {"none", "shell", "app", "bad", "exit"}

(***************************************************************************)
(* Control points.  "x_..." are inside sys_execute and "h_..." inside      *)
(* sys_halt; a point is named for what the next step does.                 *)
(*   off     no shell was started on the terminal yet                      *)
(*   boot    entry() is about to call sys_execute("shell")                 *)
(*   user    the process runs; a shell is in terminal_read or terminal_write *)
(*   cmd     the shell has read a line and acts on it                      *)
(*   hung    the thread spins in an exception handler or in the hlt loop   *)
(***************************************************************************)
Launching == {"x_parent", "x_top", "x_page", "x_load", "x_pcb", "x_tss"}
Halting   == {"h_free", "h_top", "h_cur", "h_page", "h_ret"}
Critical  == {"boot", "x_take", "h_exec"} \cup Launching \cup Halting
Running   == {"user", "cmd", "hung"}
Point     == {"off"} \cup Running \cup Critical

ASSUME ConstantsAssumption ==
  /\ TERMINAL_NUM \in Nat \ {0}
  /\ MAXPROC \in Nat /\ MAXPROC >= TERMINAL_NUM
  /\ Masked \subseteq Point
  /\ PatientUser \in BOOLEAN

VARIABLES
  \* kernel globals
  flag,                     \* pidlist[p].flag
  current_pid,
  scheduled_terminal,
  disp_terminal,
  flag_initialize_terminal,
  shell_pid,                \* terminals[t].shell_pid, the top process
  terminal_read_flag,
  \* process control blocks, at an address computed from the pid
  parent_pid,
  esp,                      \* the process whose frame in sys_execute is saved
  esp0,                     \* the process whose kernel stack the saved esp0 is
  \* hardware: tss.esp0, the 4MB page at 128MB, and the memory behind it
  tss_esp0,
  page,
  image,
  \* threads
  pc,
  local,                    \* local variables of sys_execute and sys_halt
  ret,                      \* the last value sys_execute returned to the shell
  \* history: the process a thread runs, the terminal a process belongs to
  proc,
  home

kernel  == <<flag, current_pid, flag_initialize_terminal, shell_pid>>
pcb     == <<parent_pid, esp, esp0>>
machine == <<tss_esp0, page, image>>
input   == <<disp_terminal, terminal_read_flag>>
threads == <<pc, local, ret, proc, home>>
vars    == <<kernel, pcb, machine, input, threads, scheduled_terminal>>

NoLocal == [command |-> "none", i |-> NoPid, parent |-> NoPid,
            cur |-> NoPid]

init_pid ==
  /\ flag = [p \in Pid |-> 0]
  /\ scheduled_terminal = 0

\* No terminal but the first has a shell, and that one is about to get it.
terminal_init ==
  /\ shell_pid = [t \in Term |-> IF t = 0 THEN 0 ELSE NoPid]
  /\ flag_initialize_terminal = 1
  /\ terminal_read_flag = [t \in Term |-> 0]
  /\ disp_terminal = 0

\* entry() after sti, before sys_execute("shell").  Memory is zero; tss.esp0 is
\* the boot stack, which no process owns.
entry ==
  /\ current_pid = 0
  /\ parent_pid = [p \in Pid |-> 0]
  /\ esp = [p \in Pid |-> NoPid]
  /\ esp0 = [p \in Pid |-> NoPid]
  /\ tss_esp0 = NoPid
  /\ page = NoPid
  /\ image = [p \in Pid |-> [owner |-> NoPid, prog |-> "none"]]
  /\ pc = [t \in Term |-> IF t = 0 THEN "boot" ELSE "off"]
  /\ local = [t \in Term |-> NoLocal]
  /\ ret = [t \in Term |-> 0]
  /\ proc = [t \in Term |-> NoPid]
  /\ home = [p \in Pid |-> 0]

Init == terminal_init /\ init_pid /\ entry

-----------------------------------------------------------------------------
(* Which threads and which interrupts may take a step. *)

At(t, point) == scheduled_terminal = t /\ pc[t] = point

\* IF is set and the interrupt is not held off at this point.
Interruptible == pc[scheduled_terminal] \notin Masked

Goto(t, point) == pc' = [pc EXCEPT ![t] = point]

RunsShell == page \in Pid /\ image[page].prog = "shell"

-----------------------------------------------------------------------------
(* The shell of a terminal: read a line, then execute it or exit. *)

\* Mutant: the flag is not cleared.
terminal_read_keeps_flag(t, line) ==
  /\ At(t, "user") /\ RunsShell
  /\ terminal_read_flag[t] = 1
  /\ local' = [local EXCEPT ![t].command = line]
  /\ ret' = [ret EXCEPT ![t] = 0]
  /\ Goto(t, IF line = "none" THEN "user" ELSE "cmd")
  /\ UNCHANGED <<kernel, pcb, machine, input, proc, home, scheduled_terminal>>

\* terminal_read returns when the terminal's flag is set and clears it.  The
\* line names a program, is not a program, is "exit", or is empty ("none").
terminal_read(t, line) ==
  /\ At(t, "user") /\ RunsShell
  /\ terminal_read_flag[t] = 1
  /\ terminal_read_flag' = [terminal_read_flag EXCEPT ![t] = 0]
  /\ local' = [local EXCEPT ![t].command = line]
  /\ ret' = [ret EXCEPT ![t] = 0]
  /\ Goto(t, IF line = "none" THEN "user" ELSE "cmd")
  /\ UNCHANGED <<kernel, pcb, machine, proc, home, disp_terminal,
                 scheduled_terminal>>

-----------------------------------------------------------------------------
(* sys_execute *)

\* Mutant: the scan starts at the entries of the first shells.
FreePids_all == {p \in Pid : flag[p] # 1}

FreePids == {p \in Pid : p >= TERMINAL_NUM /\ flag[p] # 1}

\* Where the callers of sys_execute continue when it returns without having
\* started a process: the shell, sys_halt, and entry()'s hlt loop.
ReturnPoint(point) ==
  CASE point = "cmd"    -> "user"
    [] point = "h_exec" -> "h_page"
    [] point = "boot"   -> "hung"

AtEntry(t) == \/ At(t, "boot") \/ At(t, "h_exec")
              \/ At(t, "cmd") /\ local[t].command \in {"shell", "app"}

\* The command names no executable file.
sys_execute_reject(t) ==
  /\ At(t, "cmd") /\ local[t].command = "bad"
  /\ ret' = [ret EXCEPT ![t] = -1]
  /\ local' = [local EXCEPT ![t] = NoLocal]
  /\ Goto(t, "user")
  /\ UNCHANGED <<kernel, pcb, machine, input, proc, home, scheduled_terminal>>

\* Mutant: the first shell is given no parent.
sys_execute_base_no_parent(t) ==
  /\ AtEntry(t) /\ flag_initialize_terminal = 1
  /\ flag_initialize_terminal' = 0
  /\ flag' = [flag EXCEPT ![scheduled_terminal] = 1]
  /\ current_pid' = scheduled_terminal
  /\ local' = [local EXCEPT ![t].i = scheduled_terminal]
  /\ home' = [home EXCEPT ![scheduled_terminal] = t]
  /\ Goto(t, "x_page")
  /\ UNCHANGED <<shell_pid, pcb, machine, input, ret, proc,
                 scheduled_terminal>>

\* flag_initialize_terminal asks for the first shell of the terminal.
sys_execute_base(t) ==
  /\ AtEntry(t) /\ flag_initialize_terminal = 1
  /\ flag_initialize_terminal' = 0
  /\ flag' = [flag EXCEPT ![scheduled_terminal] = 1]
  /\ current_pid' = scheduled_terminal
  /\ local' = [local EXCEPT ![t].i = scheduled_terminal,
                            ![t].parent = scheduled_terminal]
  /\ home' = [home EXCEPT ![scheduled_terminal] = t]
  /\ Goto(t, "x_page")
  /\ UNCHANGED <<shell_pid, pcb, machine, input, ret, proc,
                 scheduled_terminal>>

\* The scan of pidlist stops at the first free entry.
sys_execute_pick(t) ==
  /\ AtEntry(t) /\ flag_initialize_terminal # 1
  /\ \E p \in FreePids :
       /\ \A q \in FreePids : p <= q
       /\ local' = [local EXCEPT ![t].i = p]
  /\ Goto(t, "x_take")
  /\ UNCHANGED <<kernel, pcb, machine, input, ret, proc, home,
                 scheduled_terminal>>

\* Mutant: a full list is waited out.
sys_execute_full_waits(t) ==
  /\ AtEntry(t) /\ flag_initialize_terminal # 1 /\ FreePids = {}
  /\ UNCHANGED vars

\* "Process list full": sys_execute returns 0.
sys_execute_full(t) ==
  /\ AtEntry(t) /\ flag_initialize_terminal # 1 /\ FreePids = {}
  /\ ret' = [ret EXCEPT ![t] = 0]
  /\ local' = IF pc[t] = "h_exec" THEN local ELSE [local EXCEPT ![t] = NoLocal]
  /\ Goto(t, ReturnPoint(pc[t]))
  /\ UNCHANGED <<kernel, pcb, machine, input, proc, home, scheduled_terminal>>

\* Take the entry and become the current process.
sys_execute_take(t) ==
  /\ At(t, "x_take")
  /\ flag' = [flag EXCEPT ![local[t].i] = 1]
  /\ current_pid' = local[t].i
  /\ home' = [home EXCEPT ![local[t].i] = t]
  /\ Goto(t, "x_parent")
  /\ UNCHANGED <<flag_initialize_terminal, shell_pid, pcb, machine, input,
                 local, ret, proc, scheduled_terminal>>

\* The parent is the top process of the terminal on display.
sys_execute_parent(t) ==
  /\ At(t, "x_parent")
  /\ local' = [local EXCEPT ![t].parent = shell_pid[disp_terminal]]
  /\ Goto(t, "x_top")
  /\ UNCHANGED <<kernel, pcb, machine, input, ret, proc, home,
                 scheduled_terminal>>

\* The new process becomes the top of the terminal on display.
modify_terminal_curr_pid(t) ==
  /\ At(t, "x_top")
  /\ shell_pid' = [shell_pid EXCEPT ![disp_terminal] = local[t].i]
  /\ Goto(t, "x_page")
  /\ UNCHANGED <<flag, current_pid, flag_initialize_terminal, pcb, machine,
                 input, local, ret, proc, home, scheduled_terminal>>

\* Map the new process's 4MB at 128MB.
sys_execute_page(t) ==
  /\ At(t, "x_page")
  /\ page' = local[t].i
  /\ Goto(t, "x_load")
  /\ UNCHANGED <<kernel, pcb, tss_esp0, image, input, local, ret, proc, home,
                 scheduled_terminal>>

\* The program sys_execute was asked for.
Loaded(t) ==
  [owner |-> local[t].i,
   prog  |-> IF local[t].command = "app" THEN "app" ELSE "shell"]

\* Mutant: the copy runs over the end of the page into the next process's.
sys_execute_load_overrun(t) ==
  /\ At(t, "x_load")
  /\ image' = [image EXCEPT ![page] = Loaded(t), ![page + 1] = Loaded(t)]
  /\ Goto(t, "x_pcb")
  /\ UNCHANGED <<kernel, pcb, tss_esp0, page, input, local, ret, proc, home,
                 scheduled_terminal>>

\* Copy the program to 128MB, whatever memory is mapped there now.
sys_execute_load(t) ==
  /\ At(t, "x_load")
  /\ image' = [image EXCEPT ![page] = Loaded(t)]
  /\ Goto(t, "x_pcb")
  /\ UNCHANGED <<kernel, pcb, tss_esp0, page, input, local, ret, proc, home,
                 scheduled_terminal>>

\* Mutant: esp0 is not saved.
sys_execute_pcb_no_esp0(t) ==
  /\ At(t, "x_pcb")
  /\ parent_pid' = [parent_pid EXCEPT ![current_pid] = local[t].parent]
  /\ esp'  = [esp EXCEPT ![current_pid] = proc[t]]
  /\ Goto(t, "x_tss")
  /\ UNCHANGED <<kernel, esp0, machine, input, local, ret, proc, home,
                 scheduled_terminal>>

\* Fill the PCB of current_pid: parent, the frame to return to, esp0.
sys_execute_pcb(t) ==
  /\ At(t, "x_pcb")
  /\ parent_pid' = [parent_pid EXCEPT ![current_pid] = local[t].parent]
  /\ esp'  = [esp EXCEPT ![current_pid] = proc[t]]
  /\ esp0' = [esp0 EXCEPT ![current_pid] = tss_esp0]
  /\ Goto(t, "x_tss")
  /\ UNCHANGED <<kernel, machine, input, local, ret, proc, home,
                 scheduled_terminal>>

\* Point tss.esp0 at current_pid's kernel stack and iret into the program.
sys_execute_iret(t) ==
  /\ At(t, "x_tss")
  /\ tss_esp0' = current_pid
  /\ proc' = [proc EXCEPT ![t] = local[t].i]
  /\ local' = [local EXCEPT ![t] = NoLocal]
  /\ Goto(t, "user")
  /\ UNCHANGED <<kernel, pcb, page, image, input, ret, home,
                 scheduled_terminal>>

-----------------------------------------------------------------------------
(* sys_halt *)

\* recover_terminal_curr_pid(p, parent): the first terminal whose top is p.
Recovered(p, parent) ==
  [t \in Term |-> IF /\ shell_pid[t] = p
                     /\ \A u \in Term : u < t => shell_pid[u] # p
                  THEN parent ELSE shell_pid[t]]

\* Enter sys_halt, which ignores its status: find the PCB of current_pid, close
\* its files, compute the parent's page and restore tss.esp0.
sys_halt(t) ==
  /\ tss_esp0' = esp0[current_pid]
  /\ local' = [local EXCEPT ![t].cur = current_pid,
                            ![t].parent = parent_pid[current_pid]]
  /\ Goto(t, "h_free")
  /\ UNCHANGED <<kernel, pcb, page, image, input, ret, proc, home,
                 scheduled_terminal>>

\* The two callers: the shell on "exit", and any other program.
shell_exit(t) ==
  /\ At(t, "cmd") /\ local[t].command = "exit"
  /\ sys_halt(t)

program_halt(t) ==
  /\ At(t, "user") /\ ~RunsShell
  /\ sys_halt(t)

sys_halt_free(t) ==
  /\ At(t, "h_free")
  /\ flag' = [flag EXCEPT ![current_pid] = 0]
  /\ Goto(t, "h_top")
  /\ UNCHANGED <<current_pid, flag_initialize_terminal, shell_pid, pcb,
                 machine, input, local, ret, proc, home, scheduled_terminal>>

\* Mutant: the terminal keeps the halted process as its top.
recover_terminal_curr_pid_skip(t) ==
  /\ At(t, "h_top")
  /\ Goto(t, "h_cur")
  /\ UNCHANGED <<kernel, pcb, machine, input, local, ret, proc, home,
                 scheduled_terminal>>

recover_terminal_curr_pid(t) ==
  /\ At(t, "h_top")
  /\ shell_pid' = Recovered(current_pid, parent_pid[local[t].cur])
  /\ Goto(t, "h_cur")
  /\ UNCHANGED <<flag, current_pid, flag_initialize_terminal, pcb, machine,
                 input, local, ret, proc, home, scheduled_terminal>>

\* A child passes the CPU to its parent.
sys_halt_parent(t) ==
  /\ At(t, "h_cur") /\ current_pid >= TERMINAL_NUM
  /\ current_pid' = parent_pid[local[t].cur]
  /\ Goto(t, "h_page")
  /\ UNCHANGED <<flag, flag_initialize_terminal, shell_pid, pcb, machine,
                 input, local, ret, proc, home, scheduled_terminal>>

\* A first shell asks for its own replacement and calls sys_execute.
sys_halt_restart(t) ==
  /\ At(t, "h_cur") /\ current_pid < TERMINAL_NUM
  /\ flag_initialize_terminal' = 1
  /\ proc' = [proc EXCEPT ![t] = NoPid]
  /\ Goto(t, "h_exec")
  /\ UNCHANGED <<flag, current_pid, shell_pid, pcb, machine, input, local, ret,
                 home, scheduled_terminal>>

sys_halt_page(t) ==
  /\ At(t, "h_page")
  /\ page' = local[t].parent
  /\ Goto(t, "h_ret")
  /\ UNCHANGED <<kernel, pcb, tss_esp0, image, input, local, ret, proc, home,
                 scheduled_terminal>>

\* Continue in the frame saved in the PCB, after halt_ret, which returns 0.
\* A frame that no process owns leads to the hlt loop of entry().
sys_halt_return(t) ==
  /\ At(t, "h_ret")
  /\ proc' = [proc EXCEPT ![t] = esp[local[t].cur]]
  /\ ret' = [ret EXCEPT ![t] = 0]
  /\ local' = [local EXCEPT ![t] = NoLocal]
  /\ Goto(t, IF esp[local[t].cur] = NoPid THEN "hung" ELSE "user")
  /\ UNCHANGED <<kernel, pcb, machine, input, home, scheduled_terminal>>

\* An exception handler prints its message and spins.
do_exception(t) ==
  /\ At(t, "user") /\ ~RunsShell
  /\ Goto(t, "hung")
  /\ UNCHANGED <<kernel, pcb, machine, input, local, ret, proc, home,
                 scheduled_terminal>>

-----------------------------------------------------------------------------
(* Interrupt handlers: they run to completion with IF clear. *)

\* sys_execute("shell") in the branch for a terminal's first shell, as called
\* from an interrupt handler for terminal n: fl, sp, stack are the values of
\* flag, shell_pid and tss_esp0 at the call.
LaunchBase(n, fl, sp, stack) ==
  /\ flag_initialize_terminal' = 0
  /\ flag' = [fl EXCEPT ![n] = 1]
  /\ shell_pid' = sp
  /\ current_pid' = n
  /\ page' = n
  /\ image' = [image EXCEPT ![n] = [owner |-> n, prog |-> "shell"]]
  /\ parent_pid' = [parent_pid EXCEPT ![n] = n]
  /\ esp' = [esp EXCEPT ![n] = NoPid]
  /\ esp0' = [esp0 EXCEPT ![n] = stack]
  /\ tss_esp0' = n
  /\ pc' = [pc EXCEPT ![n] = "user"]
  /\ proc' = [proc EXCEPT ![n] = n]
  /\ home' = [home EXCEPT ![n] = n]
  /\ local' = [local EXCEPT ![n] = NoLocal]

\* Mutant: one terminal too few.
NextTerminal_short == (scheduled_terminal + 1) % (TERMINAL_NUM - 1)

\* schedule: round robin over the terminals.
NextTerminal == (scheduled_terminal + 1) % TERMINAL_NUM

\* The timer reaches a terminal that has no shell yet.
context_switch_init ==
  /\ Interruptible /\ shell_pid[NextTerminal] = NoPid
  /\ scheduled_terminal' = NextTerminal
  /\ LaunchBase(NextTerminal, flag,
                [shell_pid EXCEPT ![NextTerminal] = NextTerminal], tss_esp0)
  /\ UNCHANGED <<input, ret>>

\* Mutant: tss.esp0 is left as it was.
context_switch_resume_keep_tss ==
  /\ Interruptible /\ shell_pid[NextTerminal] # NoPid
  /\ scheduled_terminal' = NextTerminal
  /\ current_pid' = shell_pid[NextTerminal]
  /\ page' = shell_pid[NextTerminal]
  /\ UNCHANGED <<flag, flag_initialize_terminal, shell_pid, pcb, tss_esp0,
                 image, input, threads>>

\* The timer resumes a suspended terminal.
context_switch_resume ==
  /\ Interruptible /\ shell_pid[NextTerminal] # NoPid
  /\ scheduled_terminal' = NextTerminal
  /\ current_pid' = shell_pid[NextTerminal]
  /\ page' = shell_pid[NextTerminal]
  /\ tss_esp0' = shell_pid[NextTerminal]
  /\ UNCHANGED <<flag, flag_initialize_terminal, shell_pid, pcb, image, input,
                 threads>>

do_pit_handler == context_switch_init \/ context_switch_resume

\* Enter completes the line of the terminal on display.
enter_pressed ==
  /\ Interruptible
  /\ terminal_read_flag' = [terminal_read_flag EXCEPT ![disp_terminal] = 1]
  /\ UNCHANGED <<kernel, pcb, machine, threads, disp_terminal,
                 scheduled_terminal>>

\* A line was completed on some terminal and has not been acted on.
CommandPending == \E t \in Term : terminal_read_flag[t] = 1 \/ pc[t] = "cmd"

\* Alt-Fn.
switch_terminal(n) ==
  /\ Interruptible
  /\ PatientUser => ~CommandPending
  /\ n # disp_terminal
  /\ disp_terminal' = n
  /\ UNCHANGED <<kernel, pcb, machine, threads, terminal_read_flag,
                 scheduled_terminal>>

\* Esc calls sys_halt(0) from the keyboard handler: the current process, of
\* whatever terminal is scheduled, is halted.
esc_child ==
  /\ Interruptible /\ current_pid >= TERMINAL_NUM
  /\ flag' = [flag EXCEPT ![current_pid] = 0]
  /\ shell_pid' = Recovered(current_pid, parent_pid[current_pid])
  /\ current_pid' = parent_pid[current_pid]
  /\ page' = parent_pid[current_pid]
  /\ tss_esp0' = esp0[current_pid]
  /\ proc' = [proc EXCEPT ![scheduled_terminal] = esp[current_pid]]
  /\ ret' = [ret EXCEPT ![scheduled_terminal] = 0]
  /\ local' = [local EXCEPT ![scheduled_terminal] = NoLocal]
  /\ Goto(scheduled_terminal,
          IF esp[current_pid] = NoPid THEN "hung" ELSE "user")
  /\ UNCHANGED <<flag_initialize_terminal, pcb, image, input, home,
                 scheduled_terminal>>

esc_base ==
  /\ Interruptible /\ current_pid < TERMINAL_NUM
  /\ LaunchBase(scheduled_terminal, [flag EXCEPT ![current_pid] = 0],
                Recovered(current_pid, parent_pid[current_pid]),
                esp0[current_pid])
  /\ UNCHANGED <<input, ret, scheduled_terminal>>

-----------------------------------------------------------------------------
\* What a thread does without waiting for the user or for its program.
KernelStep(t) ==
  \/ sys_execute_reject(t) \/ sys_execute_base(t) \/ sys_execute_pick(t)
  \/ sys_execute_full(t) \/ sys_execute_take(t) \/ sys_execute_parent(t)
  \/ modify_terminal_curr_pid(t) \/ sys_execute_page(t) \/ sys_execute_load(t)
  \/ sys_execute_pcb(t) \/ sys_execute_iret(t)
  \/ sys_halt_free(t) \/ recover_terminal_curr_pid(t) \/ sys_halt_parent(t)
  \/ sys_halt_restart(t) \/ sys_halt_page(t) \/ sys_halt_return(t)

ShellStep(t) ==
  \/ \E line \in Command : terminal_read(t, line)
  \/ shell_exit(t)

ProgramStep(t) ==
  \/ program_halt(t)
  \/ do_exception(t)

UserInput ==
  \/ enter_pressed
  \/ \E n \in Term : switch_terminal(n)
  \/ esc_child
  \/ esc_base

Next ==
  \/ \E t \in Term : KernelStep(t) \/ ShellStep(t) \/ ProgramStep(t)
  \/ do_pit_handler
  \/ UserInput

Spec == Init /\ [][Next]_vars

\* The PIT keeps raising IRQ0 and the i8259 holds a request that is masked, so
\* the timer cannot be missed forever; a thread that is scheduled again and
\* again executes instructions each time.  Programs and the user owe nothing.
Fairness ==
  /\ SF_vars(do_pit_handler)
  /\ \A t \in Term : SF_vars(KernelStep(t) \/ ShellStep(t))

FairSpec == Spec /\ Fairness

-----------------------------------------------------------------------------
(* Safety *)

\* Every variable has its type: pids where pids are used as indices, -1 only
\* where the code has a "no process" value.
TypeOK ==
  /\ flag \in [Pid -> {0, 1}]
  /\ current_pid \in Pid
  /\ scheduled_terminal \in Term
  /\ disp_terminal \in Term
  /\ flag_initialize_terminal \in {0, 1}
  /\ shell_pid \in [Term -> Slot]
  /\ terminal_read_flag \in [Term -> {0, 1}]
  /\ parent_pid \in [Pid -> Pid]
  /\ esp \in [Pid -> Slot]
  /\ esp0 \in [Pid -> Slot]
  /\ tss_esp0 \in Slot
  /\ page \in Slot
  /\ image \in [Pid -> [owner : Slot, prog : {"none", "shell", "app"}]]
  /\ pc \in [Term -> Point]
  /\ local \in [Term -> [command : Command, i : Slot, parent : Slot,
                         cur : Slot]]
  /\ ret \in [Term -> {0, -1}]
  /\ proc \in [Term -> Slot]
  /\ home \in [Pid -> Term]

\* A process that has been started and has not been halted.
Live(p) ==
  /\ flag[p] = 1
  /\ \A t \in Term : pc[t] \in Launching => local[t].i # p

\* While a process runs, everything the kernel derives from "the current
\* process" is that process: current_pid, the mapped memory, the program in
\* it, the kernel stack the next interrupt uses, and the top of its terminal.
\* A suspended process is the top of its terminal, so that context_switch
\* restores exactly it.
ContextAgree ==
  /\ \A t \in Term : pc[t] \in Running => shell_pid[t] = proc[t]
  /\ pc[scheduled_terminal] \in Running =>
       /\ current_pid = proc[scheduled_terminal]
       /\ page = current_pid /\ tss_esp0 = current_pid
       /\ image[current_pid].owner = current_pid

\* The live processes of a terminal form one chain, each waiting in the
\* sys_execute that started the next: the PCB of a live child names a live
\* parent of its own terminal in all three places sys_halt uses, no two
\* children share a parent, and no parent is at the same time a top.
JobChains ==
  \A p \in Pid : p >= TERMINAL_NUM /\ Live(p) =>
    LET q == parent_pid[p]
    IN  /\ Live(q) /\ home[q] = home[p]
        /\ esp[p] = q /\ esp0[p] = q
        /\ \A t \in Term : pc[t] \in Running => proc[t] # q
        /\ \A r \in Pid :
             r >= TERMINAL_NUM /\ Live(r) /\ parent_pid[r] = q => r = p

\* No step of any other process changes the PCB or the memory of a child that
\* is live before and after it.
LivePcbStable ==
  [][\A p \in Pid : p >= TERMINAL_NUM /\ Live(p) /\ Live(p)' =>
       /\ parent_pid'[p] = parent_pid[p]
       /\ esp'[p] = esp[p] /\ esp0'[p] = esp0[p]
       /\ image'[p] = image[p]]_vars

\* The job that process p is, and those of all live processes.
JobOf(p) == [id |-> p, terminal |-> home[p], parent |-> parent_pid[p],
             program |-> image[p].prog]
LiveJobs == {JobOf(p) : p \in {q \in Pid : Live(q)}}

\* sys_execute, sys_halt and the keyboard implement JobControl: a process
\* comes to be only as the child of its terminal's last shell and ends only as
\* the last of its line, whatever happens at its terminal in between; a first
\* shell that ends is started again before anything else runs there.
Jobs == INSTANCE JobControl WITH
  Terminal <- Term, Id <- Pid, MaxJobs <- MAXPROC,
  running  <- scheduled_terminal,
  jobs     <- LiveJobs

ImplementsJobControl == Jobs!Spec

-----------------------------------------------------------------------------
(* Liveness *)

\* schedule and context_switch: every terminal gets a shell and then the CPU
\* again and again, whatever the processes of the other terminals do.
EveryTerminalRuns ==
  \A t \in Term : []<>(scheduled_terminal = t /\ pc[t] \in Running)

\* A line completed with Enter on a terminal whose top process is a shell is
\* read, unless that shell is halted first.
LineIsRead ==
  \A t \in Term : \A p \in Pid :
    /\ terminal_read_flag[t] = 1
    /\ proc[t] = p /\ image[p].prog = "shell"
    ~> terminal_read_flag[t] = 0 \/ proc[t] # p

\* sys_execute and sys_halt come to an end: after a command was read or a
\* process started to halt, some process of the terminal runs again.
CallsComplete ==
  \A t \in Term : pc[t] \in {"cmd"} \cup Critical ~> pc[t] \in {"user", "hung"}

-----------------------------------------------------------------------------
(* What the comments, the user library and the shell say, and the code does  *)
(* not do.                                                                   *)

\* syscall.h calls current_pid "the current pid running", and sys_execute
\* writes the PCB of the process it starts through it.
PcbOfNewProcess ==
  \A t \in Term : At(t, "x_pcb") => current_pid = local[t].i

\* syscall.h: parent_pid stores "the parent of current process": the process
\* that called sys_execute, which is waiting on the same terminal.  (A parent
\* that is no process at all, because the terminal on display has no shell yet,
\* is left aside, so that the run shows a process of another terminal.)
ParentIsCaller ==
  \A p \in Pid : p >= TERMINAL_NUM /\ Live(p) /\ parent_pid[p] # NoPid =>
    home[parent_pid[p]] = home[p]
=============================================================================

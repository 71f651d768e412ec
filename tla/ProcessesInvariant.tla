-------------------------- MODULE ProcessesInvariant --------------------------
(***************************************************************************)
(* The inductive invariant of Processes, for the case that no interrupt is *)
(* delivered at a Critical point and the user is patient.  It says at      *)
(* every point of sys_execute and sys_halt how far the kernel's tables     *)
(* have moved from one process to the next.                                *)
(***************************************************************************)
EXTENDS Processes

s == scheduled_terminal

\* The points at which terminal s is to get a first shell again.
Restarting == {"boot", "h_exec"}

\* Only the scheduled thread is inside a critical section, and the flag that
\* selects the branch for a first shell is set exactly for its own call.
OnlyScheduled ==
  /\ \A t \in Term : t # s => pc[t] \in {"off"} \cup Running
  /\ pc[s] # "off"
  /\ flag_initialize_terminal = 1 <=> pc[s] \in Restarting

\* A terminal without a thread has no top process and no first shell.
Started ==
  \A t \in Term : /\ pc[t] = "off" => shell_pid[t] = NoPid /\ flag[t] = 0
                  /\ pc[t] # "off" => shell_pid[t] # NoPid

\* p is a live process of terminal t.
LiveOn(p, t) == p \in Pid /\ Live(p) /\ home[p] = t

\* No live child was started by p: p is not waiting in sys_execute.
Childless(p) ==
  \A r \in Pid : r >= TERMINAL_NUM /\ Live(r) => parent_pid[r] # p

\* The process a terminal runs is its top, and the last of its chain.
Tops ==
  \A t \in Term : pc[t] \in Running =>
    /\ shell_pid[t] = proc[t]
    /\ LiveOn(proc[t], t) /\ Childless(proc[t])

Context ==
  pc[s] \in Running \cup {"x_take"} =>
    current_pid = proc[s] /\ page = proc[s] /\ tss_esp0 = proc[s]

\* The first shell of a terminal belongs to it and is its own parent.
Bases ==
  \A p \in Pid : p < TERMINAL_NUM /\ Live(p) =>
    home[p] = p /\ parent_pid[p] = p

\* A live process's memory holds the program that was loaded for it.
Images == \A p \in Pid : Live(p) => image[p].owner = p

Children ==
  \A p \in Pid : p >= TERMINAL_NUM /\ Live(p) =>
    LET q == parent_pid[p]
    IN  /\ Live(q) /\ home[q] = home[p]
        /\ esp[p] = q /\ esp0[p] = q
        /\ \A r \in Pid :
             r >= TERMINAL_NUM /\ Live(r) /\ parent_pid[r] = q => r = p

\* A completed line, and the command made of it, belong to the terminal on
\* display until the new process is its top.
Displayed ==
  /\ \A t \in Term : terminal_read_flag[t] = 1 \/ pc[t] = "cmd" =>
       disp_terminal = t
  /\ pc[s] \in {"x_take", "x_parent", "x_top"} => disp_terminal = s

RestartPhase ==
  pc[s] \in Restarting =>
    shell_pid[s] = s /\ proc[s] = NoPid /\ flag[s] = 0

TakePhase ==
  pc[s] = "x_take" =>
    /\ local[s].i \in Pid /\ local[s].i >= TERMINAL_NUM /\ flag[local[s].i] = 0
    /\ shell_pid[s] = proc[s] /\ LiveOn(proc[s], s) /\ Childless(proc[s])

LaunchPhase ==
  pc[s] \in Launching =>
    LET i == local[s].i
    IN  /\ i \in Pid /\ flag[i] = 1 /\ home[i] = s /\ current_pid = i
        /\ pc[s] \in {"x_load", "x_pcb", "x_tss"} => page = i
        /\ pc[s] \in {"x_pcb", "x_tss"} => image[i].owner = i
        /\ pc[s] = "x_tss" => parent_pid[i] = local[s].parent
        /\ i >= TERMINAL_NUM =>
             /\ proc[s] # i /\ LiveOn(proc[s], s) /\ Childless(proc[s])
             /\ tss_esp0 = proc[s]
             /\ pc[s] # "x_parent" => local[s].parent = proc[s]
             /\ shell_pid[s] = IF pc[s] \in {"x_parent", "x_top"}
                               THEN proc[s] ELSE i
             /\ pc[s] = "x_tss" => esp[i] = proc[s] /\ esp0[i] = proc[s]
        /\ i < TERMINAL_NUM =>
             /\ pc[s] \notin {"x_parent", "x_top"}
             /\ i = s /\ local[s].parent = s
             /\ shell_pid[s] = s /\ proc[s] = NoPid

HaltPhase ==
  pc[s] \in Halting =>
    LET cur == local[s].cur
        q   == parent_pid[cur]
    IN  /\ cur \in Pid /\ proc[s] = cur /\ home[cur] = s
        /\ local[s].parent = q
        /\ Childless(cur)
        /\ flag[cur] = IF pc[s] = "h_free" THEN 1 ELSE 0
        /\ current_pid = IF pc[s] \in {"h_page", "h_ret"} THEN q ELSE cur
        /\ shell_pid[s] = IF pc[s] \in {"h_free", "h_top"} THEN cur ELSE q
        /\ pc[s] = "h_ret" => page = q
        /\ cur >= TERMINAL_NUM =>
             /\ LiveOn(q, s) /\ esp[cur] = q /\ esp0[cur] = q /\ tss_esp0 = q
             /\ \A r \in Pid :
                  r >= TERMINAL_NUM /\ Live(r) /\ parent_pid[r] = q => r = cur
        /\ cur < TERMINAL_NUM =>
             /\ pc[s] \notin {"h_page", "h_ret"}
             /\ cur = s /\ q = s

\* Together: what sys_execute, sys_halt and context_switch keep true of the
\* kernel's tables at each of their points.
Inductive ==
  /\ TypeOK /\ OnlyScheduled /\ Started /\ Tops /\ Context
  /\ Bases /\ Images /\ Children /\ Displayed
  /\ RestartPhase /\ TakePhase /\ LaunchPhase /\ HaltPhase
=============================================================================

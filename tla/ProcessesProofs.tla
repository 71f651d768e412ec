--------------------------- MODULE ProcessesProofs ---------------------------
(***************************************************************************)
(* The invariant of ProcessesInvariant is inductive, for every number of   *)
(* terminals and processes: one lemma per action, then the theorems.       *)
(***************************************************************************)
EXTENDS ProcessesInvariant, TLAPS, FiniteSetTheorems,
        WellFoundedInduction

\* The hypothesis of the theorems.  The code has neither part: the runs that
\* allow an interrupt at one of these points, or an impatient user, end in
\* violations.
Discipline == Critical \subseteq Masked /\ PatientUser = TRUE

\* The first TERMINAL_NUM entries of pidlist are the terminals' first shells,
\* and -1 is none of them.
LEMMA Sizes ==
  /\ TERMINAL_NUM \in Int
  /\ Pid \subseteq Int /\ Term \subseteq Pid
  /\ \A t \in Pid : t \in Term <=> t < TERMINAL_NUM
  /\ \A p \in Pid : p >= TERMINAL_NUM <=> ~(p < TERMINAL_NUM)
  /\ \A t, u \in Term : u < t => u # t
  /\ NoPid \notin Pid /\ 0 \in Term
BY ConstantsAssumption DEF Term, Pid, NoPid

\* Apart from x, the same processes are live before and after the step, with
\* the same PCBs and programs.
SameExcept(x) ==
  \A p \in Pid : p # x =>
    /\ Live(p)' <=> Live(p)
    /\ Live(p) => /\ home'[p] = home[p]
                  /\ parent_pid'[p] = parent_pid[p]
                  /\ image'[p].owner = image[p].owner
                  /\ p >= TERMINAL_NUM =>
                       esp'[p] = esp[p] /\ esp0'[p] = esp0[p]

\* Only the scheduled thread can be inside sys_execute, so a process is live
\* when its flag is set and the scheduled thread is not still starting it.
LEMMA LiveNow ==
  ASSUME TypeOK, OnlyScheduled
  PROVE  \A p \in Pid : Live(p) <=> /\ flag[p] = 1
                                    /\ pc[s] \in Launching => local[s].i # p
BY DEF TypeOK, OnlyScheduled, Live, Launching, Running, s

\* The same after a step.
LEMMA LiveNext ==
  ASSUME TypeOK', OnlyScheduled'
  PROVE  \A p \in Pid : Live(p)' <=> /\ flag'[p] = 1
                                     /\ pc'[s'] \in Launching =>
                                          local'[s'].i # p
BY DEF TypeOK, OnlyScheduled, Live, Launching, Running, s

\* The tree of processes that sys_execute builds in the PCBs stays a tree when
\* no process starts or ends and no PCB of a live one is written.
LEMMA TreeKept ==
  ASSUME TypeOK, Bases, Images, Children, SameExcept(NoPid)
  PROVE  Bases' /\ Images' /\ Children'
<1> USE ConstantsAssumption DEF NoPid, Pid
<1>1. Bases'
  BY DEF Bases, SameExcept
<1>2. Images'
  BY DEF Images, SameExcept
<1>3. \A p \in Pid : parent_pid[p] \in Pid
  BY DEF TypeOK
<1>4. Children'
  BY <1>3 DEF Children, SameExcept
<1> QED
  BY <1>1, <1>2, <1>4

\* It stays a tree when sys_halt ends a process that nobody waits for.
LEMMA TreeShrinks ==
  ASSUME TypeOK, Bases, Images, Children, NEW x \in Pid, SameExcept(x),
         Childless(x), ~Live(x)'
  PROVE  Bases' /\ Images' /\ Children'
<1> USE ConstantsAssumption DEF Pid
<1>1. Bases'
  BY DEF Bases, SameExcept
<1>2. Images'
  BY DEF Images, SameExcept
<1>3. \A p \in Pid : parent_pid[p] \in Pid
  BY DEF TypeOK
<1>4. Children'
  BY <1>3 DEF Children, SameExcept, Childless
<1> QED
  BY <1>1, <1>2, <1>4

\* It stays a tree when sys_execute starts a first shell, or a child of a
\* process that had none.
LEMMA TreeGrows ==
  ASSUME TypeOK, Bases, Images, Children, NEW x \in Pid, SameExcept(x),
         Childless(x), image'[x].owner = x,
         x < TERMINAL_NUM => home'[x] = x /\ parent_pid'[x] = x,
         x >= TERMINAL_NUM => /\ LiveOn(parent_pid'[x], home'[x])
                              /\ Childless(parent_pid'[x])
                              /\ esp'[x] = parent_pid'[x]
                              /\ esp0'[x] = parent_pid'[x]
  PROVE  Bases' /\ Images' /\ Children'
<1> USE ConstantsAssumption DEF Pid
<1>1. Bases'
  BY DEF Bases, SameExcept
<1>2. Images'
  BY DEF Images, SameExcept
<1>3. \A p \in Pid : parent_pid[p] \in Pid
  BY DEF TypeOK
<1>4. ASSUME NEW p \in Pid, p >= TERMINAL_NUM, Live(p), p # x
      PROVE  /\ parent_pid'[p] = parent_pid[p] /\ parent_pid[p] # x
             /\ Live(parent_pid[p])' /\ home'[parent_pid[p]] = home'[p]
             /\ esp'[p] = parent_pid[p] /\ esp0'[p] = parent_pid[p]
  BY <1>3, <1>4 DEF Children, SameExcept, Childless
<1>5. Children'
  BY <1>3, <1>4 DEF Children, SameExcept, Childless, LiveOn
<1> QED
  BY <1>1, <1>2, <1>5

\* A terminal that goes on running keeps its top process, unless the step
\* ends that process or gives it a child.
LEMMA TopsKept ==
  ASSUME TypeOK, Tops, NEW x, SameExcept(x),
         \A t \in Term : pc'[t] \in Running =>
           /\ pc[t] \in Running
           /\ shell_pid'[t] = shell_pid[t] /\ proc'[t] = proc[t]
           /\ proc[t] # x
           /\ x \in Pid /\ x >= TERMINAL_NUM /\ Live(x)' =>
                parent_pid'[x] # proc[t]
  PROVE  Tops'
<1> SUFFICES ASSUME NEW t \in Term, pc'[t] \in Running
             PROVE  /\ shell_pid'[t] = proc'[t] /\ proc'[t] \in Pid
                    /\ Live(proc[t])' /\ home'[proc[t]] = t
                    /\ \A r \in Pid : r >= TERMINAL_NUM /\ Live(r)' =>
                         parent_pid'[r] # proc[t]
  BY DEF Tops, LiveOn, Childless
<1>1. /\ shell_pid[t] = proc[t] /\ proc[t] \in Pid /\ proc'[t] = proc[t]
      /\ Live(proc[t])
      /\ home[proc[t]] = t
      /\ proc[t] # x
      /\ shell_pid'[t] = shell_pid[t]
      /\ \A r \in Pid : r >= TERMINAL_NUM /\ Live(r) => parent_pid[r] # proc[t]
  BY DEF Tops, LiveOn, Childless
<1> QED
  BY <1>1 DEF SameExcept


\* What sys_halt has done when it reaches each of its points.
LEMMA HaltFacts ==
  ASSUME Inductive, pc[s] \in Halting
  PROVE  /\ local[s].cur \in Pid
         /\ proc[s] = local[s].cur
         /\ home[local[s].cur] = s
         /\ local[s].parent = parent_pid[local[s].cur]
         /\ Childless(local[s].cur)
         /\ pc[s] \in {"h_page", "h_ret"} =>
              /\ local[s].cur >= TERMINAL_NUM
              /\ current_pid = parent_pid[local[s].cur]
         /\ pc[s] \notin {"h_page", "h_ret"} => current_pid = local[s].cur
         /\ pc[s] \in {"h_free", "h_top"} => shell_pid[s] = local[s].cur
         /\ pc[s] \notin {"h_free", "h_top"} =>
              shell_pid[s] = parent_pid[local[s].cur]
         /\ flag[local[s].cur] = IF pc[s] = "h_free" THEN 1 ELSE 0
         /\ pc[s] = "h_ret" => page = parent_pid[local[s].cur]
         /\ local[s].cur >= TERMINAL_NUM =>
              /\ LiveOn(parent_pid[local[s].cur], s)
              /\ esp[local[s].cur] = parent_pid[local[s].cur]
              /\ esp0[local[s].cur] = parent_pid[local[s].cur]
              /\ tss_esp0 = parent_pid[local[s].cur]
              /\ \A r \in Pid :
                   r >= TERMINAL_NUM /\ Live(r)
                     /\ parent_pid[r] = parent_pid[local[s].cur]
                   => r = local[s].cur
         /\ local[s].cur < TERMINAL_NUM =>
              local[s].cur = s /\ parent_pid[local[s].cur] = s
<1>1. HaltPhase
  BY DEF Inductive
<1> QED
  BY <1>1, Sizes DEF HaltPhase

\* Taking the pidlist entry that the scan has found.
LEMMA sys_execute_take_step ==
  ASSUME Inductive, NEW t \in Term, sys_execute_take(t)
  PROVE  Inductive'
<1> USE DEF s
<1>1. /\ t = s /\ s \in Term /\ pc[s] = "x_take"
      /\ pc' = [pc EXCEPT ![s] = "x_parent"]
      /\ flag' = [flag EXCEPT ![local[s].i] = 1]
      /\ current_pid' = local[s].i
      /\ home' = [home EXCEPT ![local[s].i] = s]
      /\ UNCHANGED <<flag_initialize_terminal, shell_pid, parent_pid, esp,
                     esp0, tss_esp0, page, image, disp_terminal,
                     terminal_read_flag, local, ret, proc,
                     scheduled_terminal>>
  BY DEF Inductive, TypeOK, sys_execute_take, At, Goto, kernel, pcb, machine,
         input
<1>2. /\ local[s].i \in Pid
      /\ local[s].i >= TERMINAL_NUM
      /\ flag[local[s].i] = 0
      /\ disp_terminal = s
      /\ shell_pid[s] = proc[s] /\ proc[s] # local[s].i
      /\ LiveOn(proc[s], s) /\ Childless(proc[s]) /\ tss_esp0 = proc[s]
  BY <1>1, Sizes
  DEF Inductive, TypeOK, Displayed, LiveOn, TakePhase, Context, Running, Live
<1>3. TypeOK'
  BY <1>1, <1>2, Sizes
  DEF Inductive, TypeOK, Slot, Point, Critical, Running, Launching, Halting,
      NoLocal, Command, LiveOn
<1>4. OnlyScheduled'
  BY <1>1 DEF Inductive, TypeOK, OnlyScheduled, Running, Restarting
<1>5. Started'
  <2>1. flag \in [Pid -> {0, 1}] /\ pc \in [Term -> Point]
    BY DEF Inductive, TypeOK
  <2>2. \A u \in Term : /\ flag'[u] = flag[u]
                        /\ pc'[u] = "off" <=> pc[u] = "off"
    BY <1>1, <1>2, <2>1, Sizes
  <2> QED
    BY <1>1, <2>2 DEF Inductive, Started
<1>6. \A p \in Pid : Live(p)' <=> Live(p)
  BY <1>1, <1>2, <1>3, <1>4, LiveNow, LiveNext DEF Inductive, TypeOK, Launching
<1>7. SameExcept(NoPid)
  BY <1>1, <1>2, <1>6, LiveNow, Sizes
  DEF Inductive, TypeOK, Launching, SameExcept
<1>8. Bases' /\ Images' /\ Children'
  BY <1>7, TreeKept DEF Inductive
<1>9. ASSUME NEW u \in Term, pc'[u] \in Running
      PROVE  /\ pc[u] \in Running /\ shell_pid'[u] = shell_pid[u]
             /\ proc'[u] = proc[u] /\ proc[u] # NoPid
  BY <1>1, <1>2, <1>9, Sizes DEF Inductive, TypeOK, Running, Tops, LiveOn
<1>10. Tops'
  BY <1>2, <1>6, <1>7, <1>9, TopsKept, Sizes DEF Inductive
<1>11. Context' /\ Displayed'
  BY <1>1, <1>2 DEF Inductive, TypeOK, Context, Displayed, Running
<1>12. RestartPhase' /\ TakePhase'
  BY <1>1, <1>2 DEF Inductive, TypeOK, RestartPhase, Restarting, TakePhase
<1>13. LaunchPhase'
  <2>1. LiveOn(proc[s], s)' /\ Childless(proc[s])'
    BY <1>1, <1>2, <1>6, <1>7, Sizes DEF LiveOn, Childless, SameExcept
  <2>2. /\ pc'[s] = "x_parent" /\ s' = s /\ local'[s] = local[s]
        /\ flag'[local[s].i] = 1
        /\ home'[local[s].i] = s
        /\ current_pid' = local[s].i
    BY <1>1, <1>2 DEF Inductive, TypeOK
  <2> QED
    BY <1>1, <1>2, <2>1, <2>2, Sizes DEF LaunchPhase
<1>14. HaltPhase'
  BY <1>1, <1>2, <1>6, Sizes
  DEF Inductive, TypeOK, HaltPhase, Halting, LiveOn, Childless
<1> QED
  BY <1>3, <1>4, <1>5, <1>8, <1>10, <1>11, <1>12, <1>13, <1>14 DEF Inductive

\* sys_execute finds its parent: the caller, as its terminal is on display.
LEMMA sys_execute_parent_step ==
  ASSUME Inductive, NEW t \in Term, sys_execute_parent(t)
  PROVE  Inductive'
<1> USE DEF s
<1>1. /\ t = s /\ s \in Term /\ pc[s] = "x_parent"
      /\ pc' = [pc EXCEPT ![s] = "x_top"]
      /\ local' = [local EXCEPT ![s].parent = shell_pid[disp_terminal]]
      /\ UNCHANGED <<flag, current_pid, flag_initialize_terminal, shell_pid,
                     parent_pid, esp, esp0, tss_esp0, page, image,
                     disp_terminal, terminal_read_flag, ret, proc, home,
                     scheduled_terminal>>
  BY DEF Inductive, TypeOK, sys_execute_parent, At, Goto, kernel, pcb, machine,
         input
<1>2. /\ local[s].i \in Pid /\ flag[local[s].i] = 1 /\ home[local[s].i] = s
      /\ current_pid = local[s].i
      /\ local[s].i >= TERMINAL_NUM
      /\ disp_terminal = s
      /\ proc[s] # local[s].i
      /\ shell_pid[s] = proc[s]
      /\ LiveOn(proc[s], s)
      /\ Childless(proc[s])
      /\ tss_esp0 = proc[s]
  BY <1>1, Sizes
  DEF Inductive, TypeOK, Displayed, LiveOn, LaunchPhase, Launching
<1>3. TypeOK'
  <2>1. shell_pid[disp_terminal] \in Slot
    BY DEF Inductive, TypeOK
  <2>2. local' \in [Term -> [command : Command, i : Slot, parent : Slot,
                           cur : Slot]]
    <3>1. local \in [Term -> [command : Command, i : Slot, parent : Slot,
                             cur : Slot]]
      BY DEF Inductive, TypeOK
    <3> QED
      BY <1>1, <2>1, <3>1
  <2>3. pc' \in [Term -> Point]
    BY <1>1 DEF Inductive, TypeOK, Point, Critical, Launching
  <2> QED
    BY <1>1, <2>2, <2>3 DEF Inductive, TypeOK
<1>4. OnlyScheduled'
  BY <1>1 DEF Inductive, TypeOK, OnlyScheduled, Running, Restarting
<1>5. Started'
  BY <1>1, <1>2, Sizes DEF Inductive, TypeOK, Started, LiveOn
<1>6. \A p \in Pid : Live(p)' <=> Live(p)
  BY <1>1, <1>2, <1>3, <1>4, LiveNow, LiveNext DEF Inductive, TypeOK, Launching
<1>7. SameExcept(NoPid)
  BY <1>1, <1>2, <1>6, LiveNow, Sizes
  DEF Inductive, TypeOK, Launching, SameExcept
<1>8. Bases' /\ Images' /\ Children'
  BY <1>7, TreeKept DEF Inductive
<1>9. ASSUME NEW u \in Term, pc'[u] \in Running
      PROVE  /\ pc[u] \in Running /\ shell_pid'[u] = shell_pid[u]
             /\ proc'[u] = proc[u] /\ proc[u] # NoPid
  BY <1>1, <1>2, <1>9, Sizes DEF Inductive, TypeOK, Running, Tops, LiveOn
<1>10. Tops'
  BY <1>2, <1>6, <1>7, <1>9, TopsKept, Sizes DEF Inductive
<1>11. Context' /\ Displayed'
  BY <1>1, <1>2 DEF Inductive, TypeOK, Context, Displayed, Running
<1>12. RestartPhase' /\ TakePhase'
  BY <1>1, <1>2 DEF Inductive, TypeOK, RestartPhase, Restarting, TakePhase
<1>13. LaunchPhase'
  BY <1>1, <1>2, <1>6, Sizes
  DEF Inductive, TypeOK, LaunchPhase, Launching, LiveOn, Childless
<1>14. HaltPhase'
  BY <1>1, <1>2, <1>6, Sizes
  DEF Inductive, TypeOK, HaltPhase, Halting, LiveOn, Childless
<1> QED
  BY <1>3, <1>4, <1>5, <1>8, <1>10, <1>11, <1>12, <1>13, <1>14 DEF Inductive

\* The new process becomes the top of the caller's terminal.
LEMMA modify_terminal_curr_pid_step ==
  ASSUME Inductive, NEW t \in Term, modify_terminal_curr_pid(t)
  PROVE  Inductive'
<1> USE DEF s
<1>1. /\ t = s /\ s \in Term /\ pc[s] = "x_top"
      /\ pc' = [pc EXCEPT ![s] = "x_page"]
      /\ shell_pid' = [shell_pid EXCEPT ![disp_terminal] = local[s].i]
      /\ UNCHANGED <<flag, current_pid, flag_initialize_terminal, parent_pid,
                     esp, esp0, tss_esp0, page, image, disp_terminal,
                     terminal_read_flag, local, ret, proc, home,
                     scheduled_terminal>>
  BY DEF Inductive, TypeOK, modify_terminal_curr_pid, At, Goto, kernel, pcb,
         machine, input
<1>2. /\ local[s].i \in Pid /\ flag[local[s].i] = 1 /\ home[local[s].i] = s
      /\ current_pid = local[s].i
      /\ local[s].i >= TERMINAL_NUM
      /\ disp_terminal = s /\ local[s].parent = proc[s]
      /\ proc[s] # local[s].i
      /\ shell_pid[s] = proc[s]
      /\ LiveOn(proc[s], s)
      /\ Childless(proc[s])
      /\ tss_esp0 = proc[s]
  BY <1>1, Sizes
  DEF Inductive, TypeOK, Displayed, LiveOn, LaunchPhase, Launching
<1>3. TypeOK'
  BY <1>1, <1>2, Sizes
  DEF Inductive, TypeOK, Slot, Point, Critical, Running, Launching, Halting,
      NoLocal, Command, LiveOn
<1>4. OnlyScheduled'
  BY <1>1 DEF Inductive, TypeOK, OnlyScheduled, Running, Restarting
<1>5. Started'
  BY <1>1, <1>2, Sizes DEF Inductive, TypeOK, Started, LiveOn
<1>6. \A p \in Pid : Live(p)' <=> Live(p)
  BY <1>1, <1>2, <1>3, <1>4, LiveNow, LiveNext DEF Inductive, TypeOK, Launching
<1>7. SameExcept(NoPid)
  BY <1>1, <1>2, <1>6, LiveNow, Sizes
  DEF Inductive, TypeOK, Launching, SameExcept
<1>8. Bases' /\ Images' /\ Children'
  BY <1>7, TreeKept DEF Inductive
<1>9. ASSUME NEW u \in Term, pc'[u] \in Running
      PROVE  /\ pc[u] \in Running /\ shell_pid'[u] = shell_pid[u]
             /\ proc'[u] = proc[u] /\ proc[u] # NoPid
  BY <1>1, <1>2, <1>9, Sizes DEF Inductive, TypeOK, Running, Tops, LiveOn
<1>10. Tops'
  BY <1>2, <1>6, <1>7, <1>9, TopsKept, Sizes DEF Inductive
<1>11. Context' /\ Displayed'
  BY <1>1, <1>2 DEF Inductive, TypeOK, Context, Displayed, Running
<1>12. RestartPhase' /\ TakePhase'
  BY <1>1, <1>2 DEF Inductive, TypeOK, RestartPhase, Restarting, TakePhase
<1>13. LaunchPhase'
  BY <1>1, <1>2, <1>6, Sizes
  DEF Inductive, TypeOK, LaunchPhase, Launching, LiveOn, Childless
<1>14. HaltPhase'
  BY <1>1, <1>2, <1>6, Sizes
  DEF Inductive, TypeOK, HaltPhase, Halting, LiveOn, Childless
<1> QED
  BY <1>3, <1>4, <1>5, <1>8, <1>10, <1>11, <1>12, <1>13, <1>14 DEF Inductive

\* Mapping the new process's memory.
LEMMA sys_execute_page_step ==
  ASSUME Inductive, NEW t \in Term, sys_execute_page(t)
  PROVE  Inductive'
<1> USE DEF s
<1>1. /\ t = s /\ s \in Term /\ pc[s] = "x_page"
      /\ pc' = [pc EXCEPT ![s] = "x_load"]
      /\ page' = local[s].i
      /\ UNCHANGED <<flag, current_pid, flag_initialize_terminal, shell_pid,
                     parent_pid, esp, esp0, tss_esp0, image, disp_terminal,
                     terminal_read_flag, local, ret, proc, home,
                     scheduled_terminal>>
  BY DEF Inductive, TypeOK, sys_execute_page, At, Goto, kernel, pcb, machine,
         input
<1>2. /\ local[s].i \in Pid /\ flag[local[s].i] = 1 /\ home[local[s].i] = s
      /\ current_pid = local[s].i
      /\ local[s].i >= TERMINAL_NUM =>
           /\ proc[s] # local[s].i /\ LiveOn(proc[s], s) /\ Childless(proc[s])
           /\ tss_esp0 = proc[s] /\ local[s].parent = proc[s]
           /\ shell_pid[s] = local[s].i
      /\ local[s].i < TERMINAL_NUM =>
           local[s].i = s /\ local[s].parent = s
             /\ shell_pid[s] = s /\ proc[s] = NoPid
  BY <1>1, Sizes
  DEF Inductive, TypeOK, Displayed, LiveOn, LaunchPhase, Launching
<1>3. TypeOK'
  BY <1>1, <1>2, Sizes
  DEF Inductive, TypeOK, Slot, Point, Critical, Running, Launching, Halting,
      NoLocal, Command, LiveOn
<1>4. OnlyScheduled'
  BY <1>1 DEF Inductive, TypeOK, OnlyScheduled, Running, Restarting
<1>5. Started'
  BY <1>1, <1>2, Sizes DEF Inductive, TypeOK, Started, LiveOn
<1>6. \A p \in Pid : Live(p)' <=> Live(p)
  BY <1>1, <1>2, <1>3, <1>4, LiveNow, LiveNext DEF Inductive, TypeOK, Launching
<1>7. SameExcept(NoPid)
  BY <1>1, <1>2, <1>6, LiveNow, Sizes
  DEF Inductive, TypeOK, Launching, SameExcept
<1>8. Bases' /\ Images' /\ Children'
  BY <1>7, TreeKept DEF Inductive
<1>9. ASSUME NEW u \in Term, pc'[u] \in Running
      PROVE  /\ pc[u] \in Running /\ shell_pid'[u] = shell_pid[u]
             /\ proc'[u] = proc[u] /\ proc[u] # NoPid
  BY <1>1, <1>2, <1>9, Sizes DEF Inductive, TypeOK, Running, Tops, LiveOn
<1>10. Tops'
  BY <1>2, <1>6, <1>7, <1>9, TopsKept, Sizes DEF Inductive
<1>11. Context' /\ Displayed'
  BY <1>1, <1>2 DEF Inductive, TypeOK, Context, Displayed, Running
<1>12. RestartPhase' /\ TakePhase'
  BY <1>1, <1>2 DEF Inductive, TypeOK, RestartPhase, Restarting, TakePhase
<1>13. LaunchPhase'
  BY <1>1, <1>2, <1>6, Sizes
  DEF Inductive, TypeOK, LaunchPhase, Launching, LiveOn, Childless
<1>14. HaltPhase'
  BY <1>1, <1>2, <1>6, Sizes
  DEF Inductive, TypeOK, HaltPhase, Halting, LiveOn, Childless
<1> QED
  BY <1>3, <1>4, <1>5, <1>8, <1>10, <1>11, <1>12, <1>13, <1>14 DEF Inductive

\* Loading the program into the memory just mapped.
LEMMA sys_execute_load_step ==
  ASSUME Inductive, NEW t \in Term, sys_execute_load(t)
  PROVE  Inductive'
<1> USE DEF s
<1>1. /\ t = s /\ s \in Term /\ pc[s] = "x_load"
      /\ pc' = [pc EXCEPT ![s] = "x_pcb"]
      /\ image' = [image EXCEPT ![page] = Loaded(s)]
      /\ UNCHANGED <<flag, current_pid, flag_initialize_terminal, shell_pid,
                     parent_pid, esp, esp0, tss_esp0, page, disp_terminal,
                     terminal_read_flag, local, ret, proc, home,
                     scheduled_terminal>>
  BY DEF Inductive, TypeOK, sys_execute_load, At, Goto, kernel, pcb, machine,
         input
<1>2. /\ local[s].i \in Pid /\ flag[local[s].i] = 1 /\ home[local[s].i] = s
      /\ current_pid = local[s].i
      /\ page = local[s].i
      /\ local[s].i >= TERMINAL_NUM =>
           /\ proc[s] # local[s].i /\ LiveOn(proc[s], s) /\ Childless(proc[s])
           /\ tss_esp0 = proc[s] /\ local[s].parent = proc[s]
           /\ shell_pid[s] = local[s].i
      /\ local[s].i < TERMINAL_NUM =>
           local[s].i = s /\ local[s].parent = s
             /\ shell_pid[s] = s /\ proc[s] = NoPid
  BY <1>1, Sizes
  DEF Inductive, TypeOK, Displayed, LiveOn, LaunchPhase, Launching
<1>a. /\ Loaded(s).owner = local[s].i
      /\ Loaded(s) \in [owner : Slot, prog : {"none", "shell", "app"}]
  BY <1>2 DEF Loaded, Slot
<1>3. TypeOK'
  BY <1>1, <1>2, <1>a DEF Inductive, TypeOK, Point, Critical, Launching
<1>4. OnlyScheduled'
  BY <1>1 DEF Inductive, TypeOK, OnlyScheduled, Running, Restarting
<1>5. Started'
  BY <1>1, <1>2, Sizes DEF Inductive, TypeOK, Started, LiveOn
<1>6. \A p \in Pid : Live(p)' <=> Live(p)
  BY <1>1, <1>2, <1>3, <1>4, LiveNow, LiveNext DEF Inductive, TypeOK, Launching
<1>7. SameExcept(NoPid)
  BY <1>1, <1>2, <1>6, LiveNow, Sizes
  DEF Inductive, TypeOK, Launching, SameExcept
<1>8. Bases' /\ Images' /\ Children'
  BY <1>7, TreeKept DEF Inductive
<1>9. ASSUME NEW u \in Term, pc'[u] \in Running
      PROVE  /\ pc[u] \in Running /\ shell_pid'[u] = shell_pid[u]
             /\ proc'[u] = proc[u] /\ proc[u] # NoPid
  BY <1>1, <1>2, <1>9, Sizes DEF Inductive, TypeOK, Running, Tops, LiveOn
<1>10. Tops'
  BY <1>2, <1>6, <1>7, <1>9, TopsKept, Sizes DEF Inductive
<1>11. Context' /\ Displayed'
  BY <1>1, <1>2 DEF Inductive, TypeOK, Context, Displayed, Running
<1>12. RestartPhase' /\ TakePhase'
  BY <1>1, <1>2 DEF Inductive, TypeOK, RestartPhase, Restarting, TakePhase
<1>13. LaunchPhase'
  BY <1>1, <1>2, <1>a, <1>6, Sizes
  DEF Inductive, TypeOK, LaunchPhase, Launching, LiveOn, Childless
<1>14. HaltPhase'
  BY <1>1, <1>2, <1>6, Sizes
  DEF Inductive, TypeOK, HaltPhase, Halting, LiveOn, Childless
<1> QED
  BY <1>3, <1>4, <1>5, <1>8, <1>10, <1>11, <1>12, <1>13, <1>14 DEF Inductive

\* Filling the PCB: current_pid is still the new process, tss.esp0 still the
\* caller's kernel stack.
LEMMA sys_execute_pcb_step ==
  ASSUME Inductive, NEW t \in Term, sys_execute_pcb(t)
  PROVE  Inductive'
<1> USE DEF s
<1>1. /\ t = s /\ s \in Term /\ pc[s] = "x_pcb"
      /\ pc' = [pc EXCEPT ![s] = "x_tss"]
      /\ parent_pid' = [parent_pid EXCEPT ![current_pid] = local[s].parent]
      /\ esp' = [esp EXCEPT ![current_pid] = proc[s]]
      /\ esp0' = [esp0 EXCEPT ![current_pid] = tss_esp0]
      /\ UNCHANGED <<flag, current_pid, flag_initialize_terminal, shell_pid,
                     tss_esp0, page, image, disp_terminal, terminal_read_flag,
                     local, ret, proc, home, scheduled_terminal>>
  BY DEF Inductive, TypeOK, sys_execute_pcb, At, Goto, kernel, pcb, machine,
         input
<1>2. /\ local[s].i \in Pid /\ flag[local[s].i] = 1 /\ home[local[s].i] = s
      /\ current_pid = local[s].i
      /\ page = local[s].i /\ image[local[s].i].owner = local[s].i
      /\ local[s].parent \in Pid
      /\ local[s].i >= TERMINAL_NUM =>
           /\ proc[s] # local[s].i /\ LiveOn(proc[s], s) /\ Childless(proc[s])
           /\ tss_esp0 = proc[s] /\ local[s].parent = proc[s]
           /\ shell_pid[s] = local[s].i
      /\ local[s].i < TERMINAL_NUM =>
           local[s].i = s /\ local[s].parent = s
             /\ shell_pid[s] = s /\ proc[s] = NoPid
  BY <1>1, Sizes
  DEF Inductive, TypeOK, Displayed, LiveOn, LaunchPhase, Launching
<1>3. TypeOK'
  BY <1>1, <1>2, Sizes
  DEF Inductive, TypeOK, Slot, Point, Critical, Running, Launching, Halting,
      NoLocal, Command, LiveOn
<1>4. OnlyScheduled'
  BY <1>1 DEF Inductive, TypeOK, OnlyScheduled, Running, Restarting
<1>5. Started'
  BY <1>1, <1>2, Sizes DEF Inductive, TypeOK, Started, LiveOn
<1>6. \A p \in Pid : Live(p)' <=> Live(p)
  BY <1>1, <1>2, <1>3, <1>4, LiveNow, LiveNext DEF Inductive, TypeOK, Launching
<1>7. SameExcept(NoPid)
  BY <1>1, <1>2, <1>6, LiveNow, Sizes
  DEF Inductive, TypeOK, Launching, SameExcept
<1>8. Bases' /\ Images' /\ Children'
  BY <1>7, TreeKept DEF Inductive
<1>9. ASSUME NEW u \in Term, pc'[u] \in Running
      PROVE  /\ pc[u] \in Running /\ shell_pid'[u] = shell_pid[u]
             /\ proc'[u] = proc[u] /\ proc[u] # NoPid
  BY <1>1, <1>2, <1>9, Sizes DEF Inductive, TypeOK, Running, Tops, LiveOn
<1>10. Tops'
  BY <1>2, <1>6, <1>7, <1>9, TopsKept, Sizes DEF Inductive
<1>11. Context' /\ Displayed'
  BY <1>1, <1>2 DEF Inductive, TypeOK, Context, Displayed, Running
<1>12. RestartPhase' /\ TakePhase'
  BY <1>1, <1>2 DEF Inductive, TypeOK, RestartPhase, Restarting, TakePhase
<1>13. LaunchPhase'
  <2>1. local[s].i >= TERMINAL_NUM =>
             LiveOn(proc[s], s)' /\ Childless(proc[s])'
    BY <1>1, <1>2, <1>6, <1>7, Sizes DEF LiveOn, Childless, SameExcept
  <2>2. /\ pc'[s] = "x_tss" /\ s' = s
        /\ parent_pid'[local[s].i] = local[s].parent
        /\ esp'[local[s].i] = proc[s] /\ esp0'[local[s].i] = tss_esp0
    BY <1>1, <1>2 DEF Inductive, TypeOK
  <2> QED
    BY <1>1, <1>2, <2>1, <2>2, Sizes DEF LaunchPhase
<1>14. HaltPhase'
  BY <1>1, <1>2, <1>6, Sizes
  DEF Inductive, TypeOK, HaltPhase, Halting, LiveOn, Childless
<1> QED
  BY <1>3, <1>4, <1>5, <1>8, <1>10, <1>11, <1>12, <1>13, <1>14 DEF Inductive

\* The new process becomes live and runs.
LEMMA sys_execute_iret_step ==
  ASSUME Inductive, NEW t \in Term, sys_execute_iret(t)
  PROVE  Inductive'
<1> USE DEF s
<1>1. /\ t = s /\ s \in Term /\ pc[s] = "x_tss"
      /\ pc' = [pc EXCEPT ![s] = "user"]
      /\ tss_esp0' = current_pid
      /\ proc' = [proc EXCEPT ![s] = local[s].i]
      /\ local' = [local EXCEPT ![s] = NoLocal]
      /\ UNCHANGED <<flag, current_pid, flag_initialize_terminal, shell_pid,
                     parent_pid, esp, esp0, page, image, disp_terminal,
                     terminal_read_flag, ret, home, scheduled_terminal>>
  BY DEF Inductive, TypeOK, sys_execute_iret, At, Goto, kernel, pcb, machine,
         input
<1>2. /\ local[s].i \in Pid /\ flag[local[s].i] = 1 /\ home[local[s].i] = s
      /\ current_pid = local[s].i
      /\ page = local[s].i /\ image[local[s].i].owner = local[s].i
      /\ parent_pid[local[s].i] = local[s].parent /\ ~Live(local[s].i)
      /\ local[s].i >= TERMINAL_NUM =>
           esp[local[s].i] = proc[s] /\ esp0[local[s].i] = proc[s]
      /\ local[s].i >= TERMINAL_NUM =>
           /\ proc[s] # local[s].i /\ LiveOn(proc[s], s) /\ Childless(proc[s])
           /\ tss_esp0 = proc[s] /\ local[s].parent = proc[s]
           /\ shell_pid[s] = local[s].i
      /\ local[s].i < TERMINAL_NUM =>
           local[s].i = s /\ local[s].parent = s
             /\ shell_pid[s] = s /\ proc[s] = NoPid
  BY <1>1, Sizes
  DEF Inductive, TypeOK, Displayed, LiveOn, LaunchPhase, Launching, Live
<1>3. TypeOK'
  BY <1>1, <1>2, Sizes
  DEF Inductive, TypeOK, Slot, Point, Critical, Running, Launching, Halting,
      NoLocal, Command, LiveOn
<1>4. OnlyScheduled'
  BY <1>1 DEF Inductive, TypeOK, OnlyScheduled, Running, Restarting
<1>5. Started'
  BY <1>1, <1>2, Sizes DEF Inductive, TypeOK, Started, LiveOn
<1>6. \A p \in Pid : Live(p)' <=> Live(p) \/ p = local[s].i
  BY <1>1, <1>2, <1>3, <1>4, LiveNow, LiveNext DEF Inductive, TypeOK, Launching
<1>7. SameExcept(local[s].i)
  BY <1>1, <1>2, <1>6, LiveNow, Sizes
  DEF Inductive, TypeOK, Launching, SameExcept
<1>8. Bases' /\ Images' /\ Children'
  <2>1. Childless(local[s].i)
    BY <1>2 DEF Inductive, Children, Childless
  <2> QED
    BY <1>1, <1>2, <1>7, <2>1, TreeGrows DEF Inductive
<1>9. LiveOn(proc[s], s)' /\ Childless(proc[s])' /\ shell_pid'[s] = proc'[s]
  <2>1. /\ proc'[s] = local[s].i /\ s' = s /\ shell_pid[s] = local[s].i
        /\ parent_pid[local[s].i] # local[s].i \/ local[s].i < TERMINAL_NUM
    BY <1>1, <1>2, Sizes DEF Inductive, TypeOK
  <2>2. \A r \in Pid : r >= TERMINAL_NUM /\ Live(r) =>
             parent_pid[r] # local[s].i
    BY <1>2 DEF Inductive, Children
  <2> QED
    BY <1>1, <1>2, <1>6, <2>1, <2>2, Sizes DEF LiveOn, Childless
<1>10. Tops'
  <2>1. ASSUME NEW u \in Term, pc'[u] \in Running, u # s
        PROVE  /\ shell_pid'[u] = proc'[u] /\ proc'[u] = proc[u]
               /\ LiveOn(proc[u], u) /\ Childless(proc[u])
               /\ proc[u] # local[s].i
               /\ local[s].i >= TERMINAL_NUM =>
                    parent_pid[local[s].i] # proc[u]
    BY <1>1, <1>2, <2>1 DEF Inductive, TypeOK, Tops, LiveOn
  <2>2. ASSUME NEW u \in Term, pc'[u] \in Running, u # s
        PROVE  LiveOn(proc[u], u)' /\ Childless(proc[u])'
    BY <1>1, <1>6, <2>1, <2>2 DEF LiveOn, Childless
  <2> QED
    BY <1>1, <1>9, <2>1, <2>2 DEF Tops
<1>11. Context' /\ Displayed'
  BY <1>1, <1>2 DEF Inductive, TypeOK, Context, Displayed, Running
<1>12. RestartPhase' /\ TakePhase'
  BY <1>1, <1>2 DEF Inductive, TypeOK, RestartPhase, Restarting, TakePhase
<1>13. LaunchPhase'
  BY <1>1, <1>2, <1>6, Sizes
  DEF Inductive, TypeOK, LaunchPhase, Launching, LiveOn, Childless
<1>14. HaltPhase'
  BY <1>1, <1>2, <1>6, Sizes
  DEF Inductive, TypeOK, HaltPhase, Halting, LiveOn, Childless
<1> QED
  BY <1>3, <1>4, <1>5, <1>8, <1>10, <1>11, <1>12, <1>13, <1>14 DEF Inductive

\* sys_halt frees the pidlist entry: the process is no longer live.
LEMMA sys_halt_free_step ==
  ASSUME Inductive, NEW t \in Term, sys_halt_free(t)
  PROVE  Inductive'
<1> USE DEF s
<1>1. /\ t = s /\ s \in Term /\ pc[s] = "h_free"
      /\ pc' = [pc EXCEPT ![s] = "h_top"]
      /\ flag' = [flag EXCEPT ![current_pid] = 0]
      /\ UNCHANGED <<current_pid, flag_initialize_terminal, shell_pid,
                     parent_pid, esp, esp0, tss_esp0, page, image,
                     disp_terminal, terminal_read_flag, local, ret, proc,
                     home, scheduled_terminal>>
  BY DEF Inductive, TypeOK, sys_halt_free, At, Goto, kernel, pcb, machine,
         input
<1>2. /\ local[s].cur \in Pid
      /\ proc[s] = local[s].cur
      /\ home[local[s].cur] = s
      /\ local[s].parent = parent_pid[local[s].cur]
      /\ Childless(local[s].cur)
      /\ current_pid = local[s].cur
      /\ shell_pid[s] = local[s].cur
      /\ flag[local[s].cur] = 1
      /\ local[s].cur >= TERMINAL_NUM =>
           /\ LiveOn(parent_pid[local[s].cur], s)
           /\ esp[local[s].cur] = parent_pid[local[s].cur]
           /\ esp0[local[s].cur] = parent_pid[local[s].cur]
           /\ tss_esp0 = parent_pid[local[s].cur]
           /\ \A r \in Pid :
                r >= TERMINAL_NUM /\ Live(r)
                  /\ parent_pid[r] = parent_pid[local[s].cur]
                => r = local[s].cur
      /\ local[s].cur < TERMINAL_NUM =>
           local[s].cur = s /\ parent_pid[local[s].cur] = s
  BY <1>1, HaltFacts DEF Halting
<1>3. TypeOK'
  BY <1>1, <1>2, Sizes
  DEF Inductive, TypeOK, Slot, Point, Critical, Running, Launching, Halting,
      NoLocal, Command, LiveOn
<1>4. OnlyScheduled'
  BY <1>1 DEF Inductive, TypeOK, OnlyScheduled, Running, Restarting
<1>5. Started'
  BY <1>1, <1>2, Sizes DEF Inductive, TypeOK, Started, LiveOn
<1>6. \A p \in Pid : Live(p)' <=> Live(p) /\ p # local[s].cur
  BY <1>1, <1>2, <1>3, <1>4, LiveNow, LiveNext DEF Inductive, TypeOK, Launching
<1>7. SameExcept(local[s].cur)
  BY <1>1, <1>2, <1>6, Sizes DEF SameExcept
<1>8. Bases' /\ Images' /\ Children'
  BY <1>2, <1>6, <1>7, TreeShrinks DEF Inductive
<1>9. ASSUME NEW u \in Term, pc'[u] \in Running
      PROVE  /\ pc[u] \in Running /\ shell_pid'[u] = shell_pid[u]
             /\ proc'[u] = proc[u] /\ proc[u] # local[s].cur
  BY <1>1, <1>2, <1>9, Sizes DEF Inductive, TypeOK, Running, Tops, LiveOn
<1>10. Tops'
  <2>1. \A p \in Pid : p = local[s].cur => ~Live(p)'
    BY <1>6
  <2> QED
    BY <1>2, <1>7, <1>9, <2>1, TopsKept DEF Inductive
<1>11. Context' /\ Displayed'
  BY <1>1, <1>2 DEF Inductive, TypeOK, Context, Displayed, Running
<1>12. RestartPhase' /\ TakePhase'
  BY <1>1, <1>2 DEF Inductive, TypeOK, RestartPhase, Restarting, TakePhase
<1>13. LaunchPhase'
  BY <1>1, <1>2, <1>6, Sizes
  DEF Inductive, TypeOK, LaunchPhase, Launching, LiveOn, Childless
<1>14. HaltPhase'
  BY <1>1, <1>2, <1>6, Sizes
  DEF Inductive, TypeOK, HaltPhase, Halting, LiveOn, Childless
<1> QED
  BY <1>3, <1>4, <1>5, <1>8, <1>10, <1>11, <1>12, <1>13, <1>14 DEF Inductive

\* The parent becomes the top of the terminal again.
LEMMA recover_terminal_curr_pid_step ==
  ASSUME Inductive, NEW t \in Term, recover_terminal_curr_pid(t)
  PROVE  Inductive'
<1> USE DEF s
<1>1. /\ t = s /\ s \in Term /\ pc[s] = "h_top"
      /\ pc' = [pc EXCEPT ![s] = "h_cur"]
      /\ shell_pid' = Recovered(current_pid, parent_pid[local[s].cur])
      /\ UNCHANGED <<flag, current_pid, flag_initialize_terminal, parent_pid,
                     esp, esp0, tss_esp0, page, image, disp_terminal,
                     terminal_read_flag, local, ret, proc, home,
                     scheduled_terminal>>
  BY DEF Inductive, TypeOK, recover_terminal_curr_pid, At, Goto, kernel, pcb,
         machine, input
<1>2. /\ local[s].cur \in Pid
      /\ proc[s] = local[s].cur
      /\ home[local[s].cur] = s
      /\ local[s].parent = parent_pid[local[s].cur]
      /\ Childless(local[s].cur)
      /\ current_pid = local[s].cur
      /\ shell_pid[s] = local[s].cur
      /\ flag[local[s].cur] = 0
      /\ local[s].cur >= TERMINAL_NUM =>
           /\ LiveOn(parent_pid[local[s].cur], s)
           /\ esp[local[s].cur] = parent_pid[local[s].cur]
           /\ esp0[local[s].cur] = parent_pid[local[s].cur]
           /\ tss_esp0 = parent_pid[local[s].cur]
           /\ \A r \in Pid :
                r >= TERMINAL_NUM /\ Live(r)
                  /\ parent_pid[r] = parent_pid[local[s].cur]
                => r = local[s].cur
      /\ local[s].cur < TERMINAL_NUM =>
           local[s].cur = s /\ parent_pid[local[s].cur] = s
  BY <1>1, HaltFacts DEF Halting
<1>a. \A u \in Term : u # s => shell_pid[u] # local[s].cur
  BY <1>1, <1>2, Sizes DEF Inductive, OnlyScheduled, Started, Tops, LiveOn
<1>b. shell_pid' = [shell_pid EXCEPT ![s] = parent_pid[local[s].cur]]
  <2>1. \A u \in Term : Recovered(current_pid, parent_pid[local[s].cur])[u] =
                          IF u = s THEN parent_pid[local[s].cur]
                                   ELSE shell_pid[u]
    BY <1>1, <1>2, <1>a, Sizes DEF Recovered
  <2>2. DOMAIN shell_pid = Term
    BY DEF Inductive, TypeOK
  <2> QED
    BY <1>1, <2>1, <2>2 DEF Inductive, TypeOK, Recovered
<1>3. TypeOK'
  BY <1>1, <1>b, <1>2, Sizes
  DEF Inductive, TypeOK, Slot, Point, Critical, Running, Launching, Halting,
      NoLocal, Command, LiveOn
<1>4. OnlyScheduled'
  BY <1>1 DEF Inductive, TypeOK, OnlyScheduled, Running, Restarting
<1>5. Started'
  BY <1>1, <1>b, <1>2, Sizes DEF Inductive, TypeOK, Started, LiveOn
<1>6. \A p \in Pid : Live(p)' <=> Live(p)
  BY <1>1, <1>b, <1>2, <1>3, <1>4, LiveNow, LiveNext
  DEF Inductive, TypeOK, Launching
<1>7. SameExcept(NoPid)
  BY <1>1, <1>b, <1>2, <1>6, Sizes DEF SameExcept
<1>8. Bases' /\ Images' /\ Children'
  BY <1>7, TreeKept DEF Inductive
<1>9. ASSUME NEW u \in Term, pc'[u] \in Running
      PROVE  /\ pc[u] \in Running /\ shell_pid'[u] = shell_pid[u]
             /\ proc'[u] = proc[u] /\ proc[u] # NoPid
  BY <1>1, <1>b, <1>2, <1>9, Sizes DEF Inductive, TypeOK, Running, Tops, LiveOn
<1>10. Tops'
  BY <1>2, <1>6, <1>7, <1>9, TopsKept, Sizes DEF Inductive
<1>11. Context' /\ Displayed'
  BY <1>1, <1>b, <1>2 DEF Inductive, TypeOK, Context, Displayed, Running
<1>12. RestartPhase' /\ TakePhase'
  BY <1>1, <1>b, <1>2
  DEF Inductive, TypeOK, RestartPhase, Restarting, TakePhase
<1>13. LaunchPhase'
  BY <1>1, <1>b, <1>2, <1>6, Sizes
  DEF Inductive, TypeOK, LaunchPhase, Launching, LiveOn, Childless
<1>14. HaltPhase'
  BY <1>1, <1>b, <1>2, <1>6, Sizes
  DEF Inductive, TypeOK, HaltPhase, Halting, LiveOn, Childless
<1> QED
  BY <1>3, <1>4, <1>5, <1>8, <1>10, <1>11, <1>12, <1>13, <1>14 DEF Inductive

\* The parent becomes the current process.
LEMMA sys_halt_parent_step ==
  ASSUME Inductive, NEW t \in Term, sys_halt_parent(t)
  PROVE  Inductive'
<1> USE DEF s
<1>1. /\ t = s /\ s \in Term /\ pc[s] = "h_cur"
      /\ pc' = [pc EXCEPT ![s] = "h_page"]
      /\ current_pid' = parent_pid[local[s].cur]
      /\ current_pid >= TERMINAL_NUM
      /\ UNCHANGED <<flag, flag_initialize_terminal, shell_pid, parent_pid,
                     esp, esp0, tss_esp0, page, image, disp_terminal,
                     terminal_read_flag, local, ret, proc, home,
                     scheduled_terminal>>
  BY DEF Inductive, TypeOK, sys_halt_parent, At, Goto, kernel, pcb, machine,
         input
<1>2. /\ local[s].cur \in Pid
      /\ proc[s] = local[s].cur
      /\ home[local[s].cur] = s
      /\ local[s].parent = parent_pid[local[s].cur]
      /\ Childless(local[s].cur)
      /\ current_pid = local[s].cur
      /\ shell_pid[s] = parent_pid[local[s].cur]
      /\ flag[local[s].cur] = 0
      /\ local[s].cur >= TERMINAL_NUM =>
           /\ LiveOn(parent_pid[local[s].cur], s)
           /\ esp[local[s].cur] = parent_pid[local[s].cur]
           /\ esp0[local[s].cur] = parent_pid[local[s].cur]
           /\ tss_esp0 = parent_pid[local[s].cur]
           /\ \A r \in Pid :
                r >= TERMINAL_NUM /\ Live(r)
                  /\ parent_pid[r] = parent_pid[local[s].cur]
                => r = local[s].cur
      /\ local[s].cur < TERMINAL_NUM =>
           local[s].cur = s /\ parent_pid[local[s].cur] = s
  BY <1>1, HaltFacts DEF Halting
<1>3. TypeOK'
  BY <1>1, <1>2, Sizes
  DEF Inductive, TypeOK, Slot, Point, Critical, Running, Launching, Halting,
      NoLocal, Command, LiveOn
<1>4. OnlyScheduled'
  BY <1>1 DEF Inductive, TypeOK, OnlyScheduled, Running, Restarting
<1>5. Started'
  BY <1>1, <1>2, Sizes DEF Inductive, TypeOK, Started, LiveOn
<1>6. \A p \in Pid : Live(p)' <=> Live(p)
  BY <1>1, <1>2, <1>3, <1>4, LiveNow, LiveNext DEF Inductive, TypeOK, Launching
<1>7. SameExcept(NoPid)
  BY <1>1, <1>2, <1>6, Sizes DEF SameExcept
<1>8. Bases' /\ Images' /\ Children'
  BY <1>7, TreeKept DEF Inductive
<1>9. ASSUME NEW u \in Term, pc'[u] \in Running
      PROVE  /\ pc[u] \in Running /\ shell_pid'[u] = shell_pid[u]
             /\ proc'[u] = proc[u] /\ proc[u] # NoPid
  BY <1>1, <1>2, <1>9, Sizes DEF Inductive, TypeOK, Running, Tops, LiveOn
<1>10. Tops'
  BY <1>2, <1>6, <1>7, <1>9, TopsKept, Sizes DEF Inductive
<1>11. Context' /\ Displayed'
  BY <1>1, <1>2 DEF Inductive, TypeOK, Context, Displayed, Running
<1>12. RestartPhase' /\ TakePhase'
  BY <1>1, <1>2 DEF Inductive, TypeOK, RestartPhase, Restarting, TakePhase
<1>13. LaunchPhase'
  BY <1>1, <1>2, <1>6, Sizes
  DEF Inductive, TypeOK, LaunchPhase, Launching, LiveOn, Childless
<1>14. HaltPhase'
  BY <1>1, <1>2, <1>6, Sizes
  DEF Inductive, TypeOK, HaltPhase, Halting, LiveOn, Childless
<1> QED
  BY <1>3, <1>4, <1>5, <1>8, <1>10, <1>11, <1>12, <1>13, <1>14 DEF Inductive

\* A first shell that exits asks for its replacement.
LEMMA sys_halt_restart_step ==
  ASSUME Inductive, NEW t \in Term, sys_halt_restart(t)
  PROVE  Inductive'
<1> USE DEF s
<1>1. /\ t = s /\ s \in Term /\ pc[s] = "h_cur"
      /\ pc' = [pc EXCEPT ![s] = "h_exec"]
      /\ flag_initialize_terminal' = 1
      /\ proc' = [proc EXCEPT ![s] = NoPid]
      /\ current_pid < TERMINAL_NUM
      /\ UNCHANGED <<flag, current_pid, shell_pid, parent_pid, esp, esp0,
                     tss_esp0, page, image, disp_terminal, terminal_read_flag,
                     local, ret, home, scheduled_terminal>>
  BY DEF Inductive, TypeOK, sys_halt_restart, At, Goto, kernel, pcb, machine,
         input
<1>2. /\ local[s].cur \in Pid
      /\ proc[s] = local[s].cur
      /\ home[local[s].cur] = s
      /\ local[s].parent = parent_pid[local[s].cur]
      /\ Childless(local[s].cur)
      /\ current_pid = local[s].cur
      /\ shell_pid[s] = parent_pid[local[s].cur]
      /\ flag[local[s].cur] = 0
      /\ local[s].cur >= TERMINAL_NUM =>
           /\ LiveOn(parent_pid[local[s].cur], s)
           /\ esp[local[s].cur] = parent_pid[local[s].cur]
           /\ esp0[local[s].cur] = parent_pid[local[s].cur]
           /\ tss_esp0 = parent_pid[local[s].cur]
           /\ \A r \in Pid :
                r >= TERMINAL_NUM /\ Live(r)
                  /\ parent_pid[r] = parent_pid[local[s].cur]
                => r = local[s].cur
      /\ local[s].cur < TERMINAL_NUM =>
           local[s].cur = s /\ parent_pid[local[s].cur] = s
  BY <1>1, HaltFacts DEF Halting
<1>3. TypeOK'
  BY <1>1, <1>2, Sizes
  DEF Inductive, TypeOK, Slot, Point, Critical, Running, Launching, Halting,
      NoLocal, Command, LiveOn
<1>4. OnlyScheduled'
  BY <1>1 DEF Inductive, TypeOK, OnlyScheduled, Running, Restarting
<1>5. Started'
  BY <1>1, <1>2, Sizes DEF Inductive, TypeOK, Started, LiveOn
<1>6. \A p \in Pid : Live(p)' <=> Live(p)
  BY <1>1, <1>2, <1>3, <1>4, LiveNow, LiveNext DEF Inductive, TypeOK, Launching
<1>7. SameExcept(NoPid)
  BY <1>1, <1>2, <1>6, Sizes DEF SameExcept
<1>8. Bases' /\ Images' /\ Children'
  BY <1>7, TreeKept DEF Inductive
<1>9. ASSUME NEW u \in Term, pc'[u] \in Running
      PROVE  /\ pc[u] \in Running /\ shell_pid'[u] = shell_pid[u]
             /\ proc'[u] = proc[u] /\ proc[u] # NoPid
  BY <1>1, <1>2, <1>9, Sizes DEF Inductive, TypeOK, Running, Tops, LiveOn
<1>10. Tops'
  BY <1>2, <1>6, <1>7, <1>9, TopsKept, Sizes DEF Inductive
<1>11. Context' /\ Displayed'
  BY <1>1, <1>2 DEF Inductive, TypeOK, Context, Displayed, Running
<1>12. RestartPhase' /\ TakePhase'
  BY <1>1, <1>2 DEF Inductive, TypeOK, RestartPhase, Restarting, TakePhase
<1>13. LaunchPhase'
  BY <1>1, <1>2, <1>6, Sizes
  DEF Inductive, TypeOK, LaunchPhase, Launching, LiveOn, Childless
<1>14. HaltPhase'
  BY <1>1, <1>2, <1>6, Sizes
  DEF Inductive, TypeOK, HaltPhase, Halting, LiveOn, Childless
<1> QED
  BY <1>3, <1>4, <1>5, <1>8, <1>10, <1>11, <1>12, <1>13, <1>14 DEF Inductive

\* Mapping the parent's memory.
LEMMA sys_halt_page_step ==
  ASSUME Inductive, NEW t \in Term, sys_halt_page(t)
  PROVE  Inductive'
<1> USE DEF s
<1>1. /\ t = s /\ s \in Term /\ pc[s] = "h_page"
      /\ pc' = [pc EXCEPT ![s] = "h_ret"]
      /\ page' = local[s].parent
      /\ UNCHANGED <<flag, current_pid, flag_initialize_terminal, shell_pid,
                     parent_pid, esp, esp0, tss_esp0, image, disp_terminal,
                     terminal_read_flag, local, ret, proc, home,
                     scheduled_terminal>>
  BY DEF Inductive, TypeOK, sys_halt_page, At, Goto, kernel, pcb, machine,
         input
<1>2. /\ local[s].cur \in Pid
      /\ proc[s] = local[s].cur
      /\ home[local[s].cur] = s
      /\ local[s].parent = parent_pid[local[s].cur]
      /\ Childless(local[s].cur)
      /\ local[s].cur >= TERMINAL_NUM
      /\ current_pid = parent_pid[local[s].cur]
      /\ shell_pid[s] = parent_pid[local[s].cur]
      /\ flag[local[s].cur] = 0
      /\ LiveOn(parent_pid[local[s].cur], s)
      /\ esp[local[s].cur] = parent_pid[local[s].cur]
      /\ esp0[local[s].cur] = parent_pid[local[s].cur]
      /\ tss_esp0 = parent_pid[local[s].cur]
      /\ \A r \in Pid :
           r >= TERMINAL_NUM /\ Live(r)
             /\ parent_pid[r] = parent_pid[local[s].cur]
           => r = local[s].cur
  BY <1>1, HaltFacts DEF Halting
<1>3. TypeOK'
  BY <1>1, <1>2, Sizes
  DEF Inductive, TypeOK, Slot, Point, Critical, Running, Launching, Halting,
      NoLocal, Command, LiveOn
<1>4. OnlyScheduled'
  BY <1>1 DEF Inductive, TypeOK, OnlyScheduled, Running, Restarting
<1>5. Started'
  BY <1>1, <1>2, Sizes DEF Inductive, TypeOK, Started, LiveOn
<1>6. \A p \in Pid : Live(p)' <=> Live(p)
  BY <1>1, <1>2, <1>3, <1>4, LiveNow, LiveNext DEF Inductive, TypeOK, Launching
<1>7. SameExcept(NoPid)
  BY <1>1, <1>2, <1>6, Sizes DEF SameExcept
<1>8. Bases' /\ Images' /\ Children'
  BY <1>7, TreeKept DEF Inductive
<1>9. ASSUME NEW u \in Term, pc'[u] \in Running
      PROVE  /\ pc[u] \in Running /\ shell_pid'[u] = shell_pid[u]
             /\ proc'[u] = proc[u] /\ proc[u] # NoPid
  BY <1>1, <1>2, <1>9, Sizes DEF Inductive, TypeOK, Running, Tops, LiveOn
<1>10. Tops'
  BY <1>2, <1>6, <1>7, <1>9, TopsKept, Sizes DEF Inductive
<1>11. Context' /\ Displayed'
  BY <1>1, <1>2 DEF Inductive, TypeOK, Context, Displayed, Running
<1>12. RestartPhase' /\ TakePhase'
  BY <1>1, <1>2 DEF Inductive, TypeOK, RestartPhase, Restarting, TakePhase
<1>13. LaunchPhase'
  BY <1>1, <1>2, <1>6, Sizes
  DEF Inductive, TypeOK, LaunchPhase, Launching, LiveOn, Childless
<1>14. HaltPhase'
  BY <1>1, <1>2, <1>6, Sizes
  DEF Inductive, TypeOK, HaltPhase, Halting, LiveOn, Childless
<1> QED
  BY <1>3, <1>4, <1>5, <1>8, <1>10, <1>11, <1>12, <1>13, <1>14 DEF Inductive

\* The parent continues in its sys_execute.
LEMMA sys_halt_return_step ==
  ASSUME Inductive, NEW t \in Term, sys_halt_return(t)
  PROVE  Inductive'
<1> USE DEF s
<1>1. /\ t = s /\ s \in Term /\ pc[s] = "h_ret"
      /\ pc' = [pc EXCEPT ![s] = IF esp[local[s].cur] = NoPid
                                 THEN "hung" ELSE "user"]
      /\ proc' = [proc EXCEPT ![s] = esp[local[s].cur]]
      /\ ret' = [ret EXCEPT ![s] = 0]
      /\ local' = [local EXCEPT ![s] = NoLocal]
      /\ UNCHANGED <<flag, current_pid, flag_initialize_terminal, shell_pid,
                     parent_pid, esp, esp0, tss_esp0, page, image,
                     disp_terminal, terminal_read_flag, home,
                     scheduled_terminal>>
  BY DEF Inductive, TypeOK, sys_halt_return, At, Goto, kernel, pcb, machine,
         input
<1>2. /\ local[s].cur \in Pid
      /\ proc[s] = local[s].cur
      /\ home[local[s].cur] = s
      /\ local[s].parent = parent_pid[local[s].cur]
      /\ Childless(local[s].cur)
      /\ local[s].cur >= TERMINAL_NUM
      /\ current_pid = parent_pid[local[s].cur]
      /\ shell_pid[s] = parent_pid[local[s].cur]
      /\ flag[local[s].cur] = 0
      /\ page = parent_pid[local[s].cur]
      /\ LiveOn(parent_pid[local[s].cur], s)
      /\ esp[local[s].cur] = parent_pid[local[s].cur]
      /\ esp0[local[s].cur] = parent_pid[local[s].cur]
      /\ tss_esp0 = parent_pid[local[s].cur]
      /\ \A r \in Pid :
           r >= TERMINAL_NUM /\ Live(r)
             /\ parent_pid[r] = parent_pid[local[s].cur]
           => r = local[s].cur
  BY <1>1, HaltFacts DEF Halting
<1>3. TypeOK'
  BY <1>1, <1>2, Sizes
  DEF Inductive, TypeOK, Slot, Point, Critical, Running, Launching, Halting,
      NoLocal, Command, LiveOn
<1>4. OnlyScheduled'
  BY <1>1 DEF Inductive, TypeOK, OnlyScheduled, Running, Restarting
<1>5. Started'
  BY <1>1, <1>2, Sizes DEF Inductive, TypeOK, Started, LiveOn
<1>6. \A p \in Pid : Live(p)' <=> Live(p)
  BY <1>1, <1>2, <1>3, <1>4, LiveNow, LiveNext DEF Inductive, TypeOK, Launching
<1>7. SameExcept(NoPid)
  BY <1>1, <1>2, <1>6, Sizes DEF SameExcept
<1>8. Bases' /\ Images' /\ Children'
  BY <1>7, TreeKept DEF Inductive
<1>9. Tops'
  <2>1. /\ proc'[s] = parent_pid[local[s].cur] /\ s' = s
        /\ LiveOn(parent_pid[local[s].cur], s)
        /\ Childless(parent_pid[local[s].cur])
    <3>1. proc'[s] = parent_pid[local[s].cur] /\ s' = s
      BY <1>1, <1>2 DEF Inductive, TypeOK
    <3>2. ~Live(local[s].cur)
      BY <1>2 DEF Live
    <3>3. Childless(parent_pid[local[s].cur])
      BY <1>2, <3>2 DEF Childless
    <3> QED
      BY <1>2, <3>1, <3>3
  <2>2. ASSUME NEW u \in Term, pc'[u] \in Running
        PROVE  /\ shell_pid'[u] = proc'[u]
               /\ LiveOn(proc'[u], u) /\ Childless(proc'[u])
    BY <1>1, <1>2, <2>1, <2>2 DEF Inductive, TypeOK, Tops
  <2>3. ASSUME NEW u \in Term, pc'[u] \in Running
        PROVE  LiveOn(proc[u], u)' /\ Childless(proc[u])'
    BY <1>1, <1>6, <2>2, <2>3 DEF LiveOn, Childless
  <2> QED
    BY <2>2, <2>3 DEF Tops
<1>11. Context' /\ Displayed'
  BY <1>1, <1>2 DEF Inductive, TypeOK, Context, Displayed, Running
<1>12. RestartPhase' /\ TakePhase'
  BY <1>1, <1>2 DEF Inductive, TypeOK, RestartPhase, Restarting, TakePhase
<1>13. LaunchPhase'
  BY <1>1, <1>2, <1>6, Sizes
  DEF Inductive, TypeOK, LaunchPhase, Launching, LiveOn, Childless
<1>14. HaltPhase'
  BY <1>1, <1>2, <1>6, Sizes
  DEF Inductive, TypeOK, HaltPhase, Halting, LiveOn, Childless
<1> QED
  BY <1>3, <1>4, <1>5, <1>8, <1>9, <1>11, <1>12, <1>13, <1>14 DEF Inductive

-----------------------------------------------------------------------------
(* Steps that leave the process in place: it reads a line, is refused a      *)
(* command or faults, and the user presses Enter or Alt-Fn.                  *)

\* A step that changes neither tables nor PCBs nor the hardware, and keeps the
\* scheduled thread running, keeps the invariant.
LEMMA QuietStep ==
  ASSUME Inductive, TypeOK', Displayed', pc[s] \in Running, pc'[s] \in Running,
         \A t \in Term : t # s => pc'[t] = pc[t],
         UNCHANGED <<flag, current_pid, flag_initialize_terminal, shell_pid,
                     parent_pid, esp, esp0, tss_esp0, page, image, proc, home,
                     scheduled_terminal>>
  PROVE  Inductive'
<1>1. s' = s /\ s \in Term
  BY DEF s, Inductive, TypeOK
<1>2. OnlyScheduled' /\ Started'
  BY <1>1 DEF Inductive, OnlyScheduled, Started, Running, Restarting
<1>3. \A p \in Pid : Live(p)' <=> Live(p)
  BY <1>1, <1>2, LiveNow, LiveNext DEF Inductive, Running, Launching
<1>4. SameExcept(NoPid)
  BY <1>3 DEF SameExcept
<1>5. Bases' /\ Images' /\ Children'
  BY <1>4, TreeKept DEF Inductive
<1>6. ASSUME NEW u \in Term, pc'[u] \in Running
      PROVE  pc[u] \in Running /\ proc[u] # NoPid
  BY <1>1, <1>6, Sizes DEF Inductive, Tops, LiveOn
<1>7. Tops'
  BY <1>4, <1>6, TopsKept, Sizes DEF Inductive
<1>8. Context'
  BY <1>1 DEF Inductive, Context
<1>9. RestartPhase' /\ TakePhase' /\ LaunchPhase' /\ HaltPhase'
  BY <1>1 DEF Running, RestartPhase, Restarting, TakePhase, LaunchPhase,
              Launching, HaltPhase, Halting
<1> QED
  BY <1>2, <1>5, <1>7, <1>8, <1>9 DEF Inductive

\* The shell takes a completed line.
LEMMA terminal_read_step ==
  ASSUME Inductive, NEW t \in Term, NEW line \in Command,
         terminal_read(t, line)
  PROVE  Inductive'
<1> USE DEF s
<1>1. /\ t = s /\ s \in Term /\ pc[s] = "user" /\ terminal_read_flag[s] = 1
      /\ pc' = [pc EXCEPT ![s] = IF line = "none" THEN "user" ELSE "cmd"]
      /\ terminal_read_flag' = [terminal_read_flag EXCEPT ![s] = 0]
      /\ local' = [local EXCEPT ![s].command = line]
      /\ ret' = [ret EXCEPT ![s] = 0]
      /\ UNCHANGED <<flag, current_pid, flag_initialize_terminal, shell_pid,
                     parent_pid, esp, esp0, tss_esp0, page, image,
                     disp_terminal, proc, home, scheduled_terminal>>
  BY DEF Inductive, TypeOK, terminal_read, At, Goto, kernel, pcb, machine
<1>2. TypeOK'
  <2>1. local' \in [Term -> [command : Command, i : Slot, parent : Slot,
                           cur : Slot]]
    <3>1. local \in [Term -> [command : Command, i : Slot, parent : Slot,
                             cur : Slot]]
      BY DEF Inductive, TypeOK
    <3> QED
      BY <1>1, <3>1
  <2>2. pc' \in [Term -> Point]
    BY <1>1 DEF Inductive, TypeOK, Point, Running
  <2> QED
    BY <1>1, <2>1, <2>2 DEF Inductive, TypeOK
<1>3. Displayed'
  BY <1>1 DEF Inductive, TypeOK, Displayed
<1> QED
  BY <1>1, <1>2, <1>3, QuietStep DEF Inductive, TypeOK, Running

\* sys_execute refuses a file that is no executable.
LEMMA sys_execute_reject_step ==
  ASSUME Inductive, NEW t \in Term, sys_execute_reject(t)
  PROVE  Inductive'
<1> USE DEF s
<1>1. /\ t = s /\ s \in Term /\ pc[s] = "cmd"
      /\ pc' = [pc EXCEPT ![s] = "user"]
      /\ local' = [local EXCEPT ![s] = NoLocal]
      /\ ret' = [ret EXCEPT ![s] = -1]
      /\ UNCHANGED <<flag, current_pid, flag_initialize_terminal, shell_pid,
                     parent_pid, esp, esp0, tss_esp0, page, image,
                     disp_terminal, terminal_read_flag, proc, home,
                     scheduled_terminal>>
  BY DEF Inductive, TypeOK, sys_execute_reject, At, Goto, kernel, pcb, machine,
         input
<1>2. TypeOK'
  BY <1>1 DEF Inductive, TypeOK, NoLocal, Command, Slot, Point, Running
<1>3. Displayed'
  BY <1>1 DEF Inductive, TypeOK, Displayed
<1> QED
  BY <1>1, <1>2, <1>3, QuietStep DEF Inductive, TypeOK, Running

\* sys_execute finds the process list full.
LEMMA sys_execute_full_step ==
  ASSUME Inductive, NEW t \in Term, sys_execute_full(t)
  PROVE  Inductive'
<1> USE DEF s
<1>1. t = s /\ s \in Term /\ pc[s] = "cmd"
  BY DEF Inductive, TypeOK, OnlyScheduled, Restarting, sys_execute_full,
         AtEntry, At
<1>2. /\ pc' = [pc EXCEPT ![s] = "user"]
      /\ local' = [local EXCEPT ![s] = NoLocal]
      /\ ret' = [ret EXCEPT ![s] = 0]
      /\ UNCHANGED <<flag, current_pid, flag_initialize_terminal, shell_pid,
                     parent_pid, esp, esp0, tss_esp0, page, image,
                     disp_terminal, terminal_read_flag, proc, home,
                     scheduled_terminal>>
  BY <1>1 DEF sys_execute_full, ReturnPoint, Goto, kernel, pcb, machine, input
<1>3. TypeOK'
  BY <1>1, <1>2 DEF Inductive, TypeOK, NoLocal, Command, Slot, Point, Running
<1>4. Displayed'
  BY <1>1, <1>2 DEF Inductive, TypeOK, Displayed
<1> QED
  BY <1>1, <1>2, <1>3, <1>4, QuietStep DEF Inductive, TypeOK, Running

\* A program faults.
LEMMA do_exception_step ==
  ASSUME Inductive, NEW t \in Term, do_exception(t)
  PROVE  Inductive'
<1> USE DEF s
<1>1. /\ t = s /\ s \in Term /\ pc[s] = "user"
      /\ pc' = [pc EXCEPT ![s] = "hung"]
      /\ UNCHANGED <<flag, current_pid, flag_initialize_terminal, shell_pid,
                     parent_pid, esp, esp0, tss_esp0, page, image,
                     disp_terminal, terminal_read_flag, local, ret, proc, home,
                     scheduled_terminal>>
  BY DEF Inductive, TypeOK, do_exception, At, Goto, kernel, pcb, machine, input
<1>2. TypeOK' /\ Displayed'
  BY <1>1 DEF Inductive, TypeOK, Displayed, Point, Running
<1> QED
  BY <1>1, <1>2, QuietStep DEF Inductive, TypeOK, Running

\* An interrupt finds the scheduled process at a point where it runs.
LEMMA InterruptPoint ==
  ASSUME Discipline, Inductive, Interruptible
  PROVE  s \in Term /\ pc[s] \in Running
BY DEF Discipline, Inductive, TypeOK, OnlyScheduled, Interruptible, s, Point

\* Enter completes a line.
LEMMA enter_pressed_step ==
  ASSUME Discipline, Inductive, enter_pressed
  PROVE  Inductive'
<1>1. s \in Term /\ pc[s] \in Running
  BY InterruptPoint DEF enter_pressed
<1>2. /\ terminal_read_flag' = [terminal_read_flag EXCEPT ![disp_terminal] = 1]
      /\ UNCHANGED <<flag, current_pid, flag_initialize_terminal, shell_pid,
                     parent_pid, esp, esp0, tss_esp0, page, image, pc, local,
                     disp_terminal, ret, proc, home, scheduled_terminal>>
  BY DEF enter_pressed, kernel, pcb, machine, threads
<1>3. TypeOK' /\ Displayed'
  BY <1>2 DEF Inductive, TypeOK, Displayed, s
<1> QED
  BY <1>1, <1>2, <1>3, QuietStep

\* Alt-Fn, by a patient user.
LEMMA switch_terminal_step ==
  ASSUME Discipline, Inductive, NEW n \in Term, switch_terminal(n)
  PROVE  Inductive'
<1>1. s \in Term /\ pc[s] \in Running
  BY InterruptPoint DEF switch_terminal
<1>2. /\ disp_terminal' = n
      /\ \A t \in Term : terminal_read_flag[t] # 1 /\ pc[t] # "cmd"
      /\ UNCHANGED <<flag, current_pid, flag_initialize_terminal, shell_pid,
                     parent_pid, esp, esp0, tss_esp0, page, image, pc, local,
                     terminal_read_flag, ret, proc, home, scheduled_terminal>>
  BY DEF switch_terminal, CommandPending, Discipline, kernel, pcb, machine,
         threads
<1>3. TypeOK' /\ Displayed'
  BY <1>1, <1>2 DEF Inductive, TypeOK, Displayed, s, Running
<1> QED
  BY <1>1, <1>2, <1>3, QuietStep

-----------------------------------------------------------------------------
(* Entering sys_execute and sys_halt. *)

\* The scan of pidlist finds a free entry.
LEMMA sys_execute_pick_step ==
  ASSUME Inductive, NEW t \in Term, sys_execute_pick(t)
  PROVE  Inductive'
<1> USE DEF s
<1>1. t = s /\ s \in Term /\ pc[s] = "cmd"
  BY DEF Inductive, TypeOK, OnlyScheduled, Restarting, sys_execute_pick,
         AtEntry, At
<1>2. PICK p \in FreePids : local' = [local EXCEPT ![s].i = p]
  BY <1>1 DEF sys_execute_pick
<1>3. /\ pc' = [pc EXCEPT ![s] = "x_take"]
      /\ p \in Pid /\ p >= TERMINAL_NUM /\ flag[p] = 0
      /\ UNCHANGED <<flag, current_pid, flag_initialize_terminal, shell_pid,
                     parent_pid, esp, esp0, tss_esp0, page, image,
                     disp_terminal, terminal_read_flag, ret, proc, home,
                     scheduled_terminal>>
  BY <1>1 DEF Inductive, TypeOK, sys_execute_pick, FreePids, Goto, kernel, pcb,
              machine, input
<1>4. TypeOK'
  <2>1. local' \in [Term -> [command : Command, i : Slot, parent : Slot,
                           cur : Slot]]
    <3>1. p \in Slot
      BY <1>3 DEF Slot
    <3>2. local \in [Term -> [command : Command, i : Slot, parent : Slot,
                             cur : Slot]]
      BY DEF Inductive, TypeOK
    <3> QED
      BY <1>2, <3>1, <3>2
  <2>2. pc' \in [Term -> Point]
    BY <1>3 DEF Inductive, TypeOK, Point, Critical
  <2> QED
    BY <1>3, <2>1, <2>2 DEF Inductive, TypeOK
<1>5. pc'[s] = "x_take" /\ local'[s].i = p /\ \A u \in Term : u # s =>
           pc'[u] = pc[u]
  BY <1>1, <1>2, <1>3 DEF Inductive, TypeOK
<1>6. OnlyScheduled' /\ Started'
  BY <1>1, <1>3, <1>5 DEF Inductive, OnlyScheduled, Started, Restarting
<1>7. \A q \in Pid : Live(q)' <=> Live(q)
  BY <1>1, <1>3, <1>4, <1>5, <1>6, LiveNow, LiveNext DEF Inductive, Launching
<1>8. SameExcept(NoPid)
  BY <1>3, <1>7 DEF SameExcept
<1>9. Bases' /\ Images' /\ Children'
  BY <1>8, TreeKept DEF Inductive
<1>10. ASSUME NEW u \in Term, pc'[u] \in Running
       PROVE  pc[u] \in Running /\ proc[u] # NoPid
  BY <1>1, <1>5, <1>10, Sizes DEF Inductive, Tops, LiveOn, Running
<1>11. Tops'
  BY <1>3, <1>8, <1>10, TopsKept, Sizes DEF Inductive
<1>12. Context' /\ Displayed'
  BY <1>1, <1>3, <1>5 DEF Inductive, Context, Displayed, Running
<1>13. TakePhase'
  <2>1. shell_pid[s] = proc[s] /\ LiveOn(proc[s], s) /\ Childless(proc[s])
    BY <1>1 DEF Inductive, Tops, Running
  <2>2. LiveOn(proc[s], s)' /\ Childless(proc[s])'
    BY <1>3, <1>7, <2>1 DEF LiveOn, Childless
  <2> QED
    BY <1>3, <1>5, <2>1, <2>2 DEF TakePhase
<1>14. RestartPhase' /\ LaunchPhase' /\ HaltPhase'
  BY <1>3, <1>5
  DEF RestartPhase, Restarting, LaunchPhase, Launching, HaltPhase,
                    Halting
<1> QED
  BY <1>4, <1>6, <1>9, <1>11, <1>12, <1>13, <1>14 DEF Inductive

\* sys_execute takes the branch for a terminal's first shell.
LEMMA sys_execute_base_step ==
  ASSUME Inductive, NEW t \in Term, sys_execute_base(t)
  PROVE  Inductive'
<1> USE DEF s
<1>1. t = s /\ s \in Term /\ pc[s] \in Restarting
  BY DEF Inductive, TypeOK, OnlyScheduled, Restarting, sys_execute_base,
         AtEntry, At
<1>2. /\ shell_pid[s] = s /\ proc[s] = NoPid /\ flag[s] = 0
      /\ s \in Pid /\ s < TERMINAL_NUM
  BY <1>1, Sizes DEF Inductive, RestartPhase
<1>3. /\ pc' = [pc EXCEPT ![s] = "x_page"]
      /\ flag_initialize_terminal' = 0
      /\ flag' = [flag EXCEPT ![s] = 1]
      /\ current_pid' = s
      /\ local' = [local EXCEPT ![s].i = s, ![s].parent = s]
      /\ home' = [home EXCEPT ![s] = s]
      /\ UNCHANGED <<shell_pid, parent_pid, esp, esp0, tss_esp0, page, image,
                     disp_terminal, terminal_read_flag, ret, proc,
                     scheduled_terminal>>
  BY <1>1 DEF sys_execute_base, Goto, pcb, machine, input
<1>4. TypeOK'
  <2>1. local' \in [Term -> [command : Command, i : Slot, parent : Slot,
                           cur : Slot]]
    <3>1. s \in Slot
      BY <1>2 DEF Slot
    <3>2. local \in [Term -> [command : Command, i : Slot, parent : Slot,
                             cur : Slot]]
      BY DEF Inductive, TypeOK
    <3> QED
      BY <1>3, <3>1, <3>2
  <2>2. pc' \in [Term -> Point]
    BY <1>3 DEF Inductive, TypeOK, Point, Critical, Launching
  <2> QED
    BY <1>1, <1>2, <1>3, <2>1, <2>2 DEF Inductive, TypeOK
<1>5. /\ pc'[s] = "x_page" /\ local'[s].i = s /\ local'[s].parent = s
      /\ flag'[s] = 1 /\ home'[s] = s
      /\ \A u \in Term : u # s => pc'[u] = pc[u]
      /\ \A p \in Pid : p # s => flag'[p] = flag[p] /\ home'[p] = home[p]
  BY <1>1, <1>2, <1>3 DEF Inductive, TypeOK
<1>6. OnlyScheduled' /\ Started'
  BY <1>1, <1>3, <1>5, Sizes DEF Inductive, OnlyScheduled, Started, Restarting
<1>7. ~Live(s)
  BY <1>2 DEF Live
<1>8. \A p \in Pid : Live(p)' <=> Live(p)
  <2>1. pc[s] \notin Launching
    BY <1>1 DEF Restarting, Launching
  <2>2. \A p \in Pid : Live(p) <=> flag[p] = 1
    BY <2>1, LiveNow DEF Inductive
  <2>3. \A p \in Pid : Live(p)' <=> flag'[p] = 1 /\ s # p
    BY <1>3, <1>4, <1>5, <1>6, LiveNext DEF Launching
  <2> QED
    BY <1>2, <1>5, <2>2, <2>3
<1>9. SameExcept(NoPid)
  BY <1>3, <1>5, <1>7, <1>8 DEF SameExcept
<1>10. Bases' /\ Images' /\ Children'
  BY <1>9, TreeKept DEF Inductive
<1>11. ASSUME NEW u \in Term, pc'[u] \in Running
       PROVE  pc[u] \in Running /\ proc[u] # NoPid
  BY <1>1, <1>5, <1>11, Sizes DEF Inductive, Tops, LiveOn, Running
<1>12. Tops'
  BY <1>3, <1>9, <1>11, TopsKept, Sizes DEF Inductive
<1>13. Context' /\ Displayed'
  BY <1>3, <1>5 DEF Inductive, Context, Displayed, Running
<1>14. LaunchPhase'
  BY <1>2, <1>3, <1>5, Sizes DEF LaunchPhase
<1>15. RestartPhase' /\ TakePhase' /\ HaltPhase'
  BY <1>3, <1>5 DEF RestartPhase, Restarting, TakePhase, HaltPhase, Halting
<1> QED
  BY <1>4, <1>6, <1>10, <1>12, <1>13, <1>14, <1>15 DEF Inductive

\* The parent of the process a terminal runs, when it is a child and when not.
LEMMA TopParent ==
  ASSUME Inductive, NEW t \in Term, pc[t] \in Running
  PROVE  LET p == proc[t]
             q == parent_pid[proc[t]]
         IN  /\ p \in Pid /\ q \in Pid /\ shell_pid[t] = p
             /\ flag[p] = 1 /\ Live(p) /\ home[p] = t /\ Childless(p)
             /\ p >= TERMINAL_NUM =>
                  /\ LiveOn(q, t) /\ q # p /\ esp[p] = q /\ esp0[p] = q
                  /\ \A r \in Pid : r >= TERMINAL_NUM /\ Live(r)
                                    /\ parent_pid[r] = q => r = p
             /\ p < TERMINAL_NUM => p = t /\ q = t
<1>1. /\ proc[t] \in Pid /\ shell_pid[t] = proc[t] /\ Live(proc[t])
      /\ home[proc[t]] = t /\ Childless(proc[t])
  BY DEF Inductive, Tops, LiveOn
<1>2. parent_pid[proc[t]] \in Pid /\ flag[proc[t]] = 1
  BY <1>1 DEF Inductive, TypeOK, Live
<1>3. proc[t] >= TERMINAL_NUM => parent_pid[proc[t]] # proc[t]
  BY <1>1 DEF Childless
<1>4. proc[t] >= TERMINAL_NUM =>
        /\ LiveOn(parent_pid[proc[t]], t)
        /\ esp[proc[t]] = parent_pid[proc[t]]
        /\ esp0[proc[t]] = parent_pid[proc[t]]
        /\ \A r \in Pid : r >= TERMINAL_NUM /\ Live(r)
                          /\ parent_pid[r] = parent_pid[proc[t]] => r = proc[t]
  BY <1>1, <1>2 DEF Inductive, Children, LiveOn
<1>5. proc[t] < TERMINAL_NUM => proc[t] = t /\ parent_pid[proc[t]] = t
  BY <1>1 DEF Inductive, Bases
<1> QED
  BY <1>1, <1>2, <1>3, <1>4, <1>5

\* The locals of sys_halt have their types.
LEMMA HaltLocals ==
  ASSUME NEW x \in Term, NEW a \in Slot, NEW b \in Slot,
         local \in [Term -> [command : Command, i : Slot, parent : Slot,
                            cur : Slot]],
         local' = [local EXCEPT ![x].cur = a, ![x].parent = b]
  PROVE  local' \in [Term -> [command : Command, i : Slot, parent : Slot,
                             cur : Slot]]
OBVIOUS

\* Entering sys_halt, from the shell or from a program.
LEMMA sys_halt_step ==
  ASSUME Inductive, pc[s] \in {"user", "cmd"}, s \in Term, sys_halt(s)
  PROVE  Inductive'
<1>1. /\ current_pid = proc[s] /\ pc[s] \in Running
      /\ proc[s] \in Pid /\ parent_pid[proc[s]] \in Pid
  BY TopParent DEF Inductive, Context, Running
<1>2. /\ tss_esp0' = esp0[proc[s]]
      /\ local' = [local EXCEPT ![s].cur = proc[s],
                                ![s].parent = parent_pid[proc[s]]]
      /\ pc' = [pc EXCEPT ![s] = "h_free"]
      /\ UNCHANGED <<flag, current_pid, flag_initialize_terminal, shell_pid,
                     parent_pid, esp, esp0, page, image, disp_terminal,
                     terminal_read_flag, ret, proc, home, scheduled_terminal>>
      /\ s' = s
  BY <1>1 DEF sys_halt, Goto, kernel, pcb, input, s
<1>3. TypeOK'
  <2>1. local' \in [Term -> [command : Command, i : Slot, parent : Slot,
                           cur : Slot]]
    <3>1. proc[s] \in Slot /\ parent_pid[proc[s]] \in Slot
      BY <1>1 DEF Slot
    <3>2. local \in [Term -> [command : Command, i : Slot, parent : Slot,
                             cur : Slot]]
      BY DEF Inductive, TypeOK
    <3>3. local' = [local EXCEPT ![s].cur = proc[s],
                                 ![s].parent = parent_pid[proc[s]]]
      BY <1>2
    <3> QED
      BY <3>1, <3>2, <3>3, HaltLocals
  <2>2. pc' \in [Term -> Point] /\ tss_esp0' \in Slot
    BY <1>1, <1>2 DEF Inductive, TypeOK, Point, Critical, Halting
  <2> QED
    BY <1>2, <2>1, <2>2 DEF Inductive, TypeOK
<1>4. /\ pc'[s] = "h_free" /\ local'[s].cur = proc[s]
      /\ local'[s].parent = parent_pid[proc[s]]
      /\ \A u \in Term : u # s => pc'[u] = pc[u]
  BY <1>1, <1>2 DEF Inductive, TypeOK
<1>5. OnlyScheduled' /\ Started'
  BY <1>1, <1>2, <1>4
  DEF Inductive, OnlyScheduled, Started, Restarting, Running
<1>6. \A q \in Pid : Live(q)' <=> Live(q)
  BY <1>1, <1>2, <1>3, <1>4, <1>5, LiveNow, LiveNext
  DEF Inductive, Launching, Running
<1>7. SameExcept(NoPid)
  BY <1>2, <1>6 DEF SameExcept
<1>8. Bases' /\ Images' /\ Children'
  BY <1>7, TreeKept DEF Inductive
<1>9. ASSUME NEW u \in Term, pc'[u] \in Running
      PROVE  pc[u] \in Running /\ proc[u] # NoPid
  BY <1>1, <1>4, <1>9, Sizes DEF Inductive, Tops, LiveOn
<1>10. Tops'
  BY <1>2, <1>7, <1>9, TopsKept, Sizes DEF Inductive
<1>11. Context' /\ Displayed' /\ RestartPhase' /\ TakePhase' /\ LaunchPhase'
  BY <1>2, <1>4 DEF Inductive, Context, Displayed, Running, RestartPhase,
                    Restarting, TakePhase, LaunchPhase, Launching
<1>12. HaltPhase'
  <2>1. /\ shell_pid[s] = proc[s] /\ flag[proc[s]] = 1 /\ home[proc[s]] = s
        /\ Childless(proc[s])
        /\ proc[s] >= TERMINAL_NUM =>
             /\ LiveOn(parent_pid[proc[s]], s)
             /\ esp[proc[s]] = parent_pid[proc[s]]
             /\ esp0[proc[s]] = parent_pid[proc[s]]
             /\ \A r \in Pid : r >= TERMINAL_NUM /\ Live(r)
                   /\ parent_pid[r] = parent_pid[proc[s]] => r = proc[s]
        /\ proc[s] < TERMINAL_NUM => proc[s] = s /\ parent_pid[proc[s]] = s
    BY <1>1, TopParent
  <2>2. PICK cur, q : cur = proc[s] /\ q = parent_pid[cur]
    OBVIOUS
  <2>3. LiveOn(q, s)' <=> LiveOn(q, s)
    BY <1>2, <1>6 DEF LiveOn
  <2>4. Childless(cur)' <=> Childless(cur)
    BY <1>2, <1>6 DEF Childless
  <2>5. ASSUME cur >= TERMINAL_NUM, NEW r \in Pid, r >= TERMINAL_NUM,
               Live(r)', parent_pid'[r] = q
        PROVE  r = cur
    BY <1>2, <1>6, <2>1, <2>2, <2>5
  <2>6. /\ local'[s'].cur = cur /\ proc'[s'] = cur /\ parent_pid'[cur] = q
        /\ local'[s'].parent = q /\ home'[cur] = s' /\ pc'[s'] = "h_free"
        /\ flag'[cur] = 1 /\ current_pid' = cur /\ shell_pid'[s'] = cur
        /\ cur \in Pid /\ Childless(cur)'
        /\ cur < TERMINAL_NUM => cur = s' /\ q = s'
        /\ cur >= TERMINAL_NUM => /\ LiveOn(q, s') /\ LiveOn(q, s)'
                                 /\ esp'[cur] = q /\ esp0'[cur] = q
                                 /\ tss_esp0' = q
    BY <1>1, <1>2, <1>4, <2>1, <2>2, <2>3, <2>4
  <2> QED
    BY <2>5, <2>6 DEF HaltPhase, LiveOn
<1> QED
  BY <1>3, <1>5, <1>8, <1>10, <1>11, <1>12 DEF Inductive

\* The shell calls sys_halt.
LEMMA shell_exit_step ==
  ASSUME Inductive, NEW t \in Term, shell_exit(t)
  PROVE  Inductive'
BY sys_halt_step DEF shell_exit, At, s

\* A program calls sys_halt.
LEMMA program_halt_step ==
  ASSUME Inductive, NEW t \in Term, program_halt(t)
  PROVE  Inductive'
BY sys_halt_step DEF program_halt, At, s

-----------------------------------------------------------------------------
(* Interrupts that change the process: the timer and Esc. *)

\* schedule stays within the terminals.
LEMMA NextTerminalType ==
  ASSUME TypeOK
  PROVE  NextTerminal \in Term
BY ConstantsAssumption DEF TypeOK, NextTerminal, Term

\* Starting terminal n's first shell from an interrupt handler, when no live
\* process waits for it.
LEMMA BaseStarts ==
  ASSUME Inductive, pc[s] \in Running, NEW n \in Term, scheduled_terminal' = n,
         Childless(n),
         \A u \in Term : u # n /\ pc[u] \in Running => proc[u] # n,
         NEW stack \in Slot,
         LaunchBase(n, flag, [shell_pid EXCEPT ![n] = n], stack),
         UNCHANGED <<disp_terminal, terminal_read_flag, ret>>
  PROVE  Inductive'
<1>1. /\ flag_initialize_terminal' = 0
      /\ flag' = [flag EXCEPT ![n] = 1]
      /\ shell_pid' = [shell_pid EXCEPT ![n] = n]
      /\ current_pid' = n /\ page' = n /\ tss_esp0' = n
      /\ image' = [image EXCEPT ![n] = [owner |-> n, prog |-> "shell"]]
      /\ parent_pid' = [parent_pid EXCEPT ![n] = n]
      /\ esp' = [esp EXCEPT ![n] = NoPid]
      /\ esp0' = [esp0 EXCEPT ![n] = stack]
      /\ pc' = [pc EXCEPT ![n] = "user"]
      /\ proc' = [proc EXCEPT ![n] = n]
      /\ home' = [home EXCEPT ![n] = n]
      /\ local' = [local EXCEPT ![n] = NoLocal]
  BY DEF LaunchBase
<1>2. /\ n \in Pid /\ n < TERMINAL_NUM /\ n # NoPid
      /\ n \in Slot /\ NoPid \in Slot
  BY Sizes DEF Slot
<1>3. TypeOK'
  <2>1. NoLocal \in [command : Command, i : Slot, parent : Slot, cur : Slot]
    BY <1>2 DEF NoLocal, Command
  <2>2. "user" \in Point
    BY DEF Point, Running
  <2> QED
    BY <1>1, <1>2, <2>1, <2>2 DEF Inductive, TypeOK
<1>4. /\ s' = n /\ s \in Term
      /\ pc'[n] = "user" /\ proc'[n] = n /\ shell_pid'[n] = n
      /\ flag'[n] = 1 /\ home'[n] = n /\ parent_pid'[n] = n
      /\ image'[n].owner = n
      /\ \A u \in Term : u # n => /\ pc'[u] = pc[u] /\ proc'[u] = proc[u]
                                  /\ shell_pid'[u] = shell_pid[u]
      /\ \A p \in Pid : p # n =>
           /\ flag'[p] = flag[p] /\ home'[p] = home[p] /\ image'[p] = image[p]
           /\ parent_pid'[p] = parent_pid[p]
           /\ esp'[p] = esp[p] /\ esp0'[p] = esp0[p]
  BY <1>1, <1>2 DEF Inductive, TypeOK, s
<1>5. OnlyScheduled' /\ Started'
  BY <1>1, <1>2, <1>4, Sizes
  DEF Inductive, OnlyScheduled, Started, Running, Restarting
<1>6. \A p \in Pid : Live(p)' <=> Live(p) \/ p = n
  <2>1. \A p \in Pid : Live(p) <=> flag[p] = 1
    BY LiveNow DEF Inductive, Running, Launching
  <2>2. \A p \in Pid : Live(p)' <=> flag'[p] = 1
    BY <1>3, <1>4, <1>5, LiveNext DEF Launching
  <2> QED
    BY <1>2, <1>4, <2>1, <2>2
<1>7. SameExcept(n)
  BY <1>4, <1>6 DEF SameExcept
<1>8. Bases' /\ Images' /\ Children'
  BY <1>2, <1>4, <1>7, TreeGrows, Sizes DEF Inductive
<1>9. Tops'
  <2>1. ASSUME NEW u \in Term, pc'[u] \in Running
        PROVE  /\ proc'[u] \in Pid /\ shell_pid'[u] = proc'[u]
               /\ home'[proc'[u]] = u /\ Childless(proc'[u])
               /\ Live(proc'[u]) \/ proc'[u] = n
    BY <1>2, <1>4, <2>1 DEF Inductive, Tops, LiveOn
  <2>2. ASSUME NEW u \in Term, pc'[u] \in Running
        PROVE  LiveOn(proc[u], u)' /\ Childless(proc[u])'
    BY <1>2, <1>4, <1>6, <2>1, <2>2, Sizes DEF LiveOn, Childless
  <2> QED
    BY <2>1, <2>2 DEF Tops
<1>10. Context' /\ Displayed'
  BY <1>1, <1>4 DEF Inductive, Context, Displayed
<1>11. RestartPhase' /\ TakePhase' /\ LaunchPhase' /\ HaltPhase'
  BY <1>4 DEF RestartPhase, Restarting, TakePhase, LaunchPhase, Launching,
              HaltPhase, Halting
<1> QED
  BY <1>3, <1>5, <1>8, <1>9, <1>10, <1>11 DEF Inductive

\* The timer starts the first shell of the next terminal.
LEMMA context_switch_init_step ==
  ASSUME Discipline, Inductive, context_switch_init
  PROVE  Inductive'
<1> DEFINE n == NextTerminal
<1>1. n \in Term /\ s \in Term /\ pc[s] \in Running /\ shell_pid[n] = NoPid
  BY InterruptPoint, NextTerminalType DEF Inductive, context_switch_init
<1>2. flag[n] = 0
  BY <1>1 DEF Inductive, Started
<1>3. n \in Pid /\ ~Live(n)
  BY <1>1, <1>2, Sizes DEF Live
<1>4. Childless(n) /\ \A u \in Term : pc[u] \in Running => proc[u] # n
  BY <1>3 DEF Inductive, Children, Childless, Tops, LiveOn
<1>5. tss_esp0 \in Slot
  BY DEF Inductive, TypeOK
<1>6. /\ LaunchBase(n, flag, [shell_pid EXCEPT ![n] = n], tss_esp0)
      /\ scheduled_terminal' = n
      /\ UNCHANGED <<disp_terminal, terminal_read_flag, ret>>
  BY DEF context_switch_init, input
<1> HIDE DEF n
<1> QED
  BY <1>1, <1>4, <1>5, <1>6, BaseStarts

\* The timer resumes the top process of the next terminal.
LEMMA context_switch_resume_step ==
  ASSUME Discipline, Inductive, context_switch_resume
  PROVE  Inductive'
<1> DEFINE n == NextTerminal
<1>1. /\ n \in Term /\ s \in Term /\ pc[s] \in Running
      /\ shell_pid[n] # NoPid
  BY InterruptPoint, NextTerminalType DEF Inductive, context_switch_resume
<1>2. pc[n] \in Running /\ shell_pid[n] = proc[n] /\ proc[n] \in Pid
  BY <1>1 DEF Inductive, OnlyScheduled, Started, Tops, LiveOn
<1>3. /\ scheduled_terminal' = n /\ s' = n
      /\ current_pid' = proc[n] /\ page' = proc[n] /\ tss_esp0' = proc[n]
      /\ UNCHANGED <<flag, flag_initialize_terminal, shell_pid, parent_pid,
                     esp, esp0, image, disp_terminal, terminal_read_flag, pc,
                     local, ret, proc, home>>
  BY <1>2 DEF context_switch_resume, pcb, input, threads, s
<1> HIDE DEF n
<1>4. TypeOK'
  BY <1>1, <1>2, <1>3 DEF Inductive, TypeOK, Slot
<1>5. OnlyScheduled' /\ Started'
  BY <1>1, <1>2, <1>3
  DEF Inductive, OnlyScheduled, Started, Running, Restarting
<1>6. \A p \in Pid : Live(p)' <=> Live(p)
  BY <1>1, <1>2, <1>3, <1>4, <1>5, LiveNow, LiveNext
  DEF Inductive, Running, Launching
<1>7. SameExcept(NoPid)
  BY <1>3, <1>6 DEF SameExcept
<1>8. Bases' /\ Images' /\ Children'
  BY <1>7, TreeKept DEF Inductive
<1>9. ASSUME NEW u \in Term, pc'[u] \in Running
      PROVE  pc[u] \in Running /\ proc[u] # NoPid
  BY <1>3, <1>9, Sizes DEF Inductive, Tops, LiveOn
<1>10. Tops'
  BY <1>3, <1>7, <1>9, TopsKept, Sizes DEF Inductive
<1>11. Context' /\ Displayed'
  BY <1>1, <1>2, <1>3 DEF Inductive, Context, Displayed, Running
<1>12. RestartPhase' /\ TakePhase' /\ LaunchPhase' /\ HaltPhase'
  BY <1>2, <1>3 DEF Running, RestartPhase, Restarting, TakePhase, LaunchPhase,
                    Launching, HaltPhase, Halting
<1> QED
  BY <1>4, <1>5, <1>8, <1>10, <1>11, <1>12 DEF Inductive

\* recover_terminal_curr_pid changes the top of the halting terminal only.
LEMMA RecoveredTop ==
  ASSUME Inductive, pc[s] \in Running, s \in Term, NEW q \in Pid
  PROVE  Recovered(proc[s], q) = [shell_pid EXCEPT ![s] = q]
<1>1. shell_pid[s] = proc[s] /\ proc[s] \in Pid /\ home[proc[s]] = s
  BY DEF Inductive, Tops, LiveOn
<1>2. \A u \in Term : u # s => shell_pid[u] # proc[s]
  BY <1>1, Sizes DEF Inductive, OnlyScheduled, Started, Tops, LiveOn
<1>3. \A u \in Term : Recovered(proc[s], q)[u] =
                        IF u = s THEN q ELSE shell_pid[u]
  BY <1>1, <1>2, Sizes DEF Recovered
<1>4. DOMAIN shell_pid = Term /\ shell_pid \in [Term -> Slot]
  BY DEF Inductive, TypeOK
<1> QED
  BY <1>3, <1>4 DEF Recovered

\* Esc replaces a first shell.
LEMMA esc_base_step ==
  ASSUME Discipline, Inductive, esc_base
  PROVE  Inductive'
<1>1. s \in Term /\ pc[s] \in Running
  BY InterruptPoint DEF esc_base
<1>2. /\ current_pid = proc[s] /\ proc[s] \in Pid /\ proc[s] < TERMINAL_NUM
      /\ flag[proc[s]] = 1 /\ shell_pid[s] = proc[s]
      /\ Childless(proc[s]) /\ proc[s] = s /\ parent_pid[proc[s]] = s
  BY <1>1, TopParent DEF Inductive, Context, esc_base
<1>3. \A u \in Term : u # s /\ pc[u] \in Running => proc[u] # s
  BY <1>1, <1>2 DEF Inductive, Tops, LiveOn
<1>4. esp0[s] \in Slot
  BY <1>2 DEF Inductive, TypeOK
<1>5. Recovered(s, s) = [shell_pid EXCEPT ![s] = s]
  BY <1>1, <1>2, RecoveredTop
<1>6. [[flag EXCEPT ![s] = 0] EXCEPT ![s] = 1] = [flag EXCEPT ![s] = 1]
  BY <1>2 DEF Inductive, TypeOK
<1>7. LaunchBase(s, flag, [shell_pid EXCEPT ![s] = s], esp0[s])
  BY <1>2, <1>5, <1>6 DEF esc_base, LaunchBase, s
<1>8. /\ scheduled_terminal' = s
      /\ UNCHANGED <<disp_terminal, terminal_read_flag, ret>>
  BY DEF esc_base, input, s
<1> QED
  BY <1>1, <1>2, <1>3, <1>4, <1>7, <1>8, BaseStarts

\* Esc halts a child.
LEMMA esc_child_step ==
  ASSUME Discipline, Inductive, esc_child
  PROVE  Inductive'
<1> DEFINE p == proc[s]
           q == parent_pid[proc[s]]
<1>1. s \in Term /\ pc[s] \in Running
  BY InterruptPoint DEF esc_child
<1>2. /\ current_pid = p /\ p \in Pid /\ p >= TERMINAL_NUM /\ q \in Pid
      /\ Childless(p) /\ LiveOn(q, s) /\ q # p /\ esp[p] = q /\ esp0[p] = q
      /\ home[p] = s
      /\ \A r \in Pid : r >= TERMINAL_NUM /\ Live(r) /\ parent_pid[r] = q =>
           r = p
  BY <1>1, TopParent DEF Inductive, Context, esc_child
<1>3. q # NoPid
  BY <1>2, Sizes
<1>4. shell_pid' = [shell_pid EXCEPT ![s] = q]
  BY <1>1, <1>2, RecoveredTop DEF esc_child
<1>5. /\ flag' = [flag EXCEPT ![p] = 0]
      /\ current_pid' = q /\ page' = q /\ tss_esp0' = q
      /\ proc' = [proc EXCEPT ![s] = q]
      /\ ret' = [ret EXCEPT ![s] = 0]
      /\ local' = [local EXCEPT ![s] = NoLocal]
      /\ pc' = [pc EXCEPT ![s] = "user"]
      /\ s' = s
      /\ UNCHANGED <<flag_initialize_terminal, parent_pid, esp, esp0, image,
                     disp_terminal, terminal_read_flag, home,
                     scheduled_terminal>>
  BY <1>2, <1>3 DEF esc_child, Goto, pcb, input, s
<1> HIDE DEF p, q
<1>6. TypeOK'
  <2>1. q \in Slot /\ NoPid \in Slot
    BY <1>2 DEF Slot
  <2>2. NoLocal \in [command : Command, i : Slot, parent : Slot, cur : Slot]
    BY <2>1 DEF NoLocal, Command
  <2>3. "user" \in Point
    BY DEF Point, Running
  <2> QED
    BY <1>2, <1>4, <1>5, <2>1, <2>2, <2>3 DEF Inductive, TypeOK
<1>7. /\ pc'[s] = "user" /\ proc'[s] = q /\ shell_pid'[s] = q
      /\ flag'[p] = 0 /\ \A r \in Pid : r # p => flag'[r] = flag[r]
      /\ \A u \in Term : u # s => /\ pc'[u] = pc[u] /\ proc'[u] = proc[u]
                                  /\ shell_pid'[u] = shell_pid[u]
      /\ \A u \in Term : flag'[u] = flag[u]
  BY <1>1, <1>2, <1>4, <1>5, Sizes DEF Inductive, TypeOK
<1>8. OnlyScheduled' /\ Started'
  BY <1>1, <1>3, <1>5, <1>7
  DEF Inductive, OnlyScheduled, Started, Running, Restarting
<1>9. \A r \in Pid : Live(r)' <=> Live(r) /\ r # p
  <2>1. \A r \in Pid : Live(r) <=> flag[r] = 1
    BY <1>1, LiveNow DEF Inductive, Running, Launching
  <2>2. \A r \in Pid : Live(r)' <=> flag'[r] = 1
    BY <1>5, <1>6, <1>7, <1>8, LiveNext DEF Launching
  <2> QED
    BY <1>2, <1>7, <2>1, <2>2
<1>10. SameExcept(p)
  BY <1>5, <1>9 DEF SameExcept
<1>11. Bases' /\ Images' /\ Children'
  BY <1>2, <1>9, <1>10, TreeShrinks DEF Inductive
<1>12. Tops'
  <2>1. ASSUME NEW u \in Term, pc'[u] \in Running
        PROVE  /\ proc'[u] \in Pid /\ shell_pid'[u] = proc'[u]
               /\ home[proc'[u]] = u /\ Live(proc'[u]) /\ proc'[u] # p
               /\ \A r \in Pid : r >= TERMINAL_NUM /\ Live(r) /\ r # p =>
                                   parent_pid[r] # proc'[u]
    <3>1. CASE u = s
      BY <1>2, <1>7, <3>1 DEF LiveOn
    <3>2. CASE u # s
      BY <1>2, <1>7, <2>1, <3>2 DEF Inductive, Tops, LiveOn, Childless
    <3> QED
      BY <3>1, <3>2
  <2>2. ASSUME NEW u \in Term, pc'[u] \in Running
        PROVE  LiveOn(proc[u], u)' /\ Childless(proc[u])'
    BY <1>5, <1>9, <2>1, <2>2 DEF LiveOn, Childless
  <2> QED
    BY <2>1, <2>2 DEF Tops
<1>13. Context' /\ Displayed'
  BY <1>1, <1>5, <1>7 DEF Inductive, Context, Displayed
<1>14. RestartPhase' /\ TakePhase' /\ LaunchPhase' /\ HaltPhase'
  BY <1>5, <1>7
  DEF RestartPhase, Restarting, TakePhase, LaunchPhase, Launching,
                    HaltPhase, Halting
<1> QED
  BY <1>6, <1>8, <1>11, <1>12, <1>13, <1>14 DEF Inductive

-----------------------------------------------------------------------------
(* The invariant holds initially and is kept by every step. *)

\* The state in which entry() enables interrupts satisfies the invariant.
LEMMA InitInductive == Init => Inductive
<1> SUFFICES ASSUME Init
             PROVE  Inductive
  OBVIOUS
<1> USE ConstantsAssumption DEF Init, terminal_init, init_pid, entry, s
<1>1. 0 \in Term /\ 0 \in Pid /\ NoPid \in Slot /\ \A t \in Term : t \in Slot
  BY Sizes DEF Slot
<1>2. TypeOK
  <2>1. NoLocal \in [command : Command, i : Slot, parent : Slot, cur : Slot]
    BY <1>1 DEF NoLocal, Command
  <2>2. {"boot", "off"} \subseteq Point
    BY DEF Point, Critical
  <2> QED
    BY <1>1, <2>1, <2>2 DEF TypeOK
<1>3. \A p \in Pid : ~Live(p)
  BY DEF Live
<1>4. OnlyScheduled /\ Started
  BY <1>1, Sizes DEF OnlyScheduled, Started, Restarting, Running
<1>5. Tops /\ Context
  BY <1>1 DEF Tops, Context, Running
<1>6. Bases /\ Images /\ Children
  BY <1>3 DEF Bases, Images, Children
<1>7. Displayed /\ RestartPhase
  BY <1>1 DEF Displayed, RestartPhase
<1>8. TakePhase /\ LaunchPhase /\ HaltPhase
  BY <1>1 DEF TakePhase, LaunchPhase, Launching, HaltPhase, Halting
<1> QED
  BY <1>2, <1>4, <1>5, <1>6, <1>7, <1>8 DEF Inductive

\* A step that changes nothing keeps the invariant.
LEMMA StutterInductive ==
  ASSUME Inductive, UNCHANGED vars
  PROVE  Inductive'
<1>1. UNCHANGED <<flag, current_pid, flag_initialize_terminal, shell_pid,
                  parent_pid, esp, esp0, tss_esp0, page, image, disp_terminal,
                  terminal_read_flag, pc, local, ret, proc, home,
                  scheduled_terminal>>
  BY DEF vars, kernel, pcb, machine, input, threads
<1> USE DEF s
<1>2. TypeOK' /\ OnlyScheduled' /\ Started'
  BY <1>1 DEF Inductive, TypeOK, OnlyScheduled, Started
<1>3. \A p \in Pid : Live(p)' <=> Live(p)
  BY <1>1 DEF Live
<1>4. \A p, t : /\ LiveOn(p, t)' <=> LiveOn(p, t)
                /\ Childless(p)' <=> Childless(p)
  BY <1>1, <1>3 DEF LiveOn, Childless
<1>5. Tops' /\ Context' /\ Displayed'
  BY <1>1, <1>4 DEF Inductive, Tops, Context, Displayed
<1>6. SameExcept(NoPid)
  BY <1>1, <1>3 DEF SameExcept
<1>7. Bases' /\ Images' /\ Children'
  BY <1>6, TreeKept DEF Inductive
<1>8. RestartPhase' /\ TakePhase' /\ LaunchPhase'
  BY <1>1, <1>4 DEF Inductive, RestartPhase, TakePhase, LaunchPhase
<1>9. HaltPhase'
  BY <1>1, <1>3, <1>4 DEF Inductive, HaltPhase
<1> QED
  BY <1>2, <1>5, <1>7, <1>8, <1>9 DEF Inductive

\* Every step inside sys_execute and sys_halt keeps the invariant.
LEMMA KernelStepInductive ==
  ASSUME Inductive, NEW t \in Term, KernelStep(t)
  PROVE  Inductive'
BY sys_execute_reject_step, sys_execute_base_step, sys_execute_pick_step,
   sys_execute_full_step, sys_execute_take_step, sys_execute_parent_step,
   modify_terminal_curr_pid_step, sys_execute_page_step, sys_execute_load_step,
   sys_execute_pcb_step, sys_execute_iret_step, sys_halt_free_step,
   recover_terminal_curr_pid_step, sys_halt_parent_step, sys_halt_restart_step,
   sys_halt_page_step, sys_halt_return_step
DEF KernelStep

\* Every step of a thread, the timer or the user keeps the invariant.
LEMMA NextInductive ==
  ASSUME Discipline, Inductive, Next
  PROVE  Inductive'
<1>1. ASSUME NEW t \in Term, KernelStep(t)
      PROVE  Inductive'
  BY <1>1, KernelStepInductive
<1>2. ASSUME NEW t \in Term, ShellStep(t)
      PROVE  Inductive'
  BY <1>2, terminal_read_step, shell_exit_step DEF ShellStep
<1>3. ASSUME NEW t \in Term, ProgramStep(t)
      PROVE  Inductive'
  BY <1>3, program_halt_step, do_exception_step DEF ProgramStep
<1>4. CASE do_pit_handler
  BY <1>4, context_switch_init_step, context_switch_resume_step
  DEF do_pit_handler
<1>5. CASE UserInput
  BY <1>5, enter_pressed_step, switch_terminal_step, esc_child_step,
     esc_base_step
  DEF UserInput
<1> QED
  BY <1>1, <1>2, <1>3, <1>4, <1>5 DEF Next

\* The invariant implies what the runs check.
LEMMA InductiveImplies ==
  Inductive => TypeOK /\ ContextAgree /\ JobChains
<1> SUFFICES ASSUME Inductive
             PROVE  TypeOK /\ ContextAgree /\ JobChains
  OBVIOUS
<1>1. TypeOK
  BY DEF Inductive
<1>2. ContextAgree
  <2>1. \A t \in Term : pc[t] \in Running => shell_pid[t] = proc[t]
    BY DEF Inductive, Tops
  <2>2. ASSUME pc[s] \in Running
        PROVE  /\ current_pid = proc[s] /\ page = proc[s] /\ tss_esp0 = proc[s]
               /\ image[proc[s]].owner = proc[s]
    BY <1>1, <2>2 DEF Inductive, TypeOK, Context, Tops, LiveOn, Images, s
  <2> QED
    BY <2>1, <2>2 DEF ContextAgree, s
<1>3. JobChains
  <2> SUFFICES ASSUME NEW p \in Pid, p >= TERMINAL_NUM, Live(p)
               PROVE  /\ Live(parent_pid[p]) /\ home[parent_pid[p]] = home[p]
                      /\ esp[p] = parent_pid[p] /\ esp0[p] = parent_pid[p]
                      /\ \A t \in Term : pc[t] \in Running =>
                                           proc[t] # parent_pid[p]
                      /\ \A r \in Pid :
                           r >= TERMINAL_NUM /\ Live(r)
                             /\ parent_pid[r] = parent_pid[p] => r = p
    BY DEF JobChains
  <2>1. \A t \in Term : pc[t] \in Running => proc[t] # parent_pid[p]
    BY DEF Inductive, Tops, Childless
  <2> QED
    BY <2>1 DEF Inductive, Children
<1> QED
  BY <1>1, <1>2, <1>3

\* If no interrupt is delivered inside sys_execute and sys_halt, and the user
\* is patient, the invariant holds in every reachable state, for any number of
\* terminals and processes.
THEOREM InductiveInvariant == Discipline => (Spec => []Inductive)
<1> SUFFICES ASSUME Discipline
             PROVE  Spec => []Inductive
  OBVIOUS
<1>1. Inductive /\ [Next]_vars => Inductive'
  BY NextInductive, StutterInductive
<1> QED
  BY <1>1, InitInductive, PTL DEF Spec

\* Under the same conditions no pid used as an index is -1 or out of range.
THEOREM TypeCorrect == Discipline => (Spec => []TypeOK)
BY InductiveInvariant, InductiveImplies, PTL

\* Under the same conditions a running process always has its own memory,
\* kernel stack and pid, and is the top of its terminal.
THEOREM ContextCorrect == Discipline => (Spec => []ContextAgree)
BY InductiveInvariant, InductiveImplies, PTL

\* Under the same conditions the processes that sys_execute starts and sys_halt
\* ends form one chain per terminal.
THEOREM JobChainsCorrect == Discipline => (Spec => []JobChains)
BY InductiveInvariant, InductiveImplies, PTL

-----------------------------------------------------------------------------
(* The PCB of a live child. *)

\* The step that LivePcbStable speaks of.
PcbKept ==
  \A p \in Pid : p >= TERMINAL_NUM /\ Live(p) /\ Live(p)' =>
    /\ parent_pid'[p] = parent_pid[p]
    /\ esp'[p] = esp[p] /\ esp0'[p] = esp0[p]
    /\ image'[p] = image[p]

\* Starting a first shell writes no child's PCB or memory.
LEMMA BasePcb ==
  ASSUME TypeOK, NEW n \in Term, NEW fl, NEW sp, NEW stack,
         LaunchBase(n, fl, sp, stack)
  PROVE  PcbKept
BY Sizes DEF TypeOK, LaunchBase, PcbKept

\* sys_execute_load and sys_execute_pcb write the memory and the PCB of a
\* process that is not live yet.
LEMMA LaunchPcb ==
  ASSUME Inductive, NEW t \in Term, sys_execute_load(t) \/ sys_execute_pcb(t)
  PROVE  PcbKept
<1>1. /\ t = s /\ pc[s] \in {"x_load", "x_pcb"} /\ s \in Term
  BY DEF sys_execute_load, sys_execute_pcb, At, s
<1>2. /\ current_pid = local[s].i /\ ~Live(local[s].i)
      /\ pc[s] = "x_load" => page = local[s].i
  BY <1>1 DEF Inductive, LaunchPhase, Launching, Live
<1>3. CASE sys_execute_load(t)
  <2>1. /\ image' = [image EXCEPT ![local[s].i] = Loaded(s)]
        /\ UNCHANGED <<parent_pid, esp, esp0>>
    BY <1>1, <1>2, <1>3 DEF sys_execute_load, pcb, At, s
  <2> QED
    BY <1>2, <2>1 DEF Inductive, TypeOK, PcbKept
<1>4. CASE sys_execute_pcb(t)
  <2>1. /\ parent_pid' = [parent_pid EXCEPT ![local[s].i] = local[s].parent]
        /\ esp' = [esp EXCEPT ![local[s].i] = proc[s]]
        /\ esp0' = [esp0 EXCEPT ![local[s].i] = tss_esp0]
        /\ UNCHANGED image
    BY <1>1, <1>2, <1>4 DEF sys_execute_pcb, machine
  <2> QED
    BY <1>2, <2>1 DEF Inductive, TypeOK, PcbKept
<1> QED
  BY <1>3, <1>4

\* No step writes the PCB or the memory of a live child.
LEMMA NextPcb ==
  ASSUME Inductive, Next
  PROVE  PcbKept
<1>1. ASSUME UNCHANGED <<parent_pid, esp, esp0, image>>
      PROVE  PcbKept
  BY <1>1 DEF PcbKept
<1>2. NextTerminal \in Term /\ scheduled_terminal \in Term /\ TypeOK
  BY NextTerminalType DEF Inductive, TypeOK
<1>3. ASSUME NEW t \in Term, KernelStep(t)
      PROVE  PcbKept
  <2>1. CASE sys_execute_load(t) \/ sys_execute_pcb(t)
    BY <2>1, LaunchPcb
  <2>2. CASE ~(sys_execute_load(t) \/ sys_execute_pcb(t))
    BY <1>1, <1>3, <2>2 DEF KernelStep, sys_execute_reject, sys_execute_base,
       sys_execute_pick, sys_execute_full, sys_execute_take,
       sys_execute_parent, modify_terminal_curr_pid, sys_execute_page,
       sys_execute_iret, sys_halt_free, recover_terminal_curr_pid,
       sys_halt_parent, sys_halt_restart, sys_halt_page, sys_halt_return,
       pcb, machine
  <2> QED
    BY <2>1, <2>2
<1>4. ASSUME NEW t \in Term, ShellStep(t) \/ ProgramStep(t)
      PROVE  PcbKept
  BY <1>1, <1>4 DEF ShellStep, ProgramStep, terminal_read, shell_exit,
     program_halt, sys_halt, do_exception, pcb, machine
<1>5. CASE do_pit_handler
  BY <1>1, <1>2, <1>5, BasePcb
  DEF do_pit_handler, context_switch_init, context_switch_resume, pcb
<1>6. CASE UserInput
  BY <1>1, <1>2, <1>6, BasePcb
  DEF UserInput, enter_pressed, switch_terminal, esc_child, esc_base, pcb,
      machine
<1> QED
  BY <1>3, <1>4, <1>5, <1>6 DEF Next

\* Under the same conditions nothing sys_execute stored for a live child is
\* overwritten before sys_halt uses it.
THEOREM LivePcbCorrect == Discipline => (Spec => LivePcbStable)
<1> SUFFICES ASSUME Discipline
             PROVE  Spec => LivePcbStable
  OBVIOUS
<1>1. Inductive /\ [Next]_vars => [PcbKept]_vars
  BY NextPcb
<1>2. Spec => [][PcbKept]_vars
  BY <1>1, InductiveInvariant, PTL DEF Spec
<1> QED
  BY <1>2 DEF LivePcbStable, PcbKept

-----------------------------------------------------------------------------
(***************************************************************************)
(* Processes implements JobControl, under the Discipline.  To the          *)
(* invariant proved above this part adds what the abstract actions ask     *)
(* for: every line of jobs leads to the terminal's first shell and has no  *)
(* cycle, a process is started only by a shell, and a first shell is one.  *)
(***************************************************************************)

Child(p) == p >= TERMINAL_NUM

\* No chain of parents comes back to where it began.
Ranked ==
  \E depth \in [Pid -> Nat] :
    \A p \in Pid : Child(p) /\ Live(p) => depth[parent_pid[p]] < depth[p]

\* The command that sys_execute is called for, and the program that calls it.
Asked(t) ==
  /\ pc[t] \in {"off", "user", "boot"} => local[t].command = "none"
  /\ pc[t] \in Halting \cup {"h_exec"} =>
       local[t].command \in {"none", "exit"}
  /\ pc[t] \in Launching /\ ~Child(local[t].i) => local[t].command # "app"
  /\ \/ pc[t] \in {"cmd", "x_take"}
     \/ pc[t] \in Launching /\ Child(local[t].i)
     => image[proc[t]].prog = "shell"
  /\ pc[t] \in {"x_pcb", "x_tss"} =>
       /\ image[local[t].i].prog \in {"shell", "app"}
       /\ ~Child(local[t].i) => image[local[t].i].prog = "shell"

AllAsked == \A t \in Term : Asked(t)

Shells == \A p \in Pid : ~Child(p) /\ Live(p) => image[p].prog = "shell"

Lineage == Inductive /\ Ranked /\ AllAsked /\ Shells

-----------------------------------------------------------------------------
(* The jobs before and after a step. *)

\* Apart from x, the same jobs before and after the step.
SameJobs(x) ==
  \A p \in Pid : p # x => /\ Live(p)' <=> Live(p)
                          /\ Live(p) => /\ home'[p] = home[p]
                                        /\ parent_pid'[p] = parent_pid[p]
                                        /\ image'[p].prog = image[p].prog

LEMMA JobsKept ==
  ASSUME SameJobs(NoPid)
  PROVE  LiveJobs' = LiveJobs
<1>1. \A p \in Pid : p # NoPid
  BY Sizes
<1>2. \A p \in Pid : /\ Live(p)' <=> Live(p)
                     /\ Live(p) => JobOf(p)' = JobOf(p)
  BY <1>1 DEF SameJobs, JobOf
<1> QED BY <1>2 DEF LiveJobs

LEMMA JobsEnd ==
  ASSUME NEW x \in Pid, SameJobs(x), Live(x), ~Live(x)'
  PROVE  LiveJobs' = LiveJobs \ {JobOf(x)}
<1>1. \A p \in Pid \ {x} : /\ Live(p)' <=> Live(p)
                           /\ Live(p) => JobOf(p)' = JobOf(p)
  BY DEF SameJobs, JobOf
<1>2. \A p \in Pid : JobOf(p) = JobOf(x) => p = x
  BY DEF JobOf
<1> QED BY <1>1, <1>2 DEF LiveJobs

LEMMA JobsBegin ==
  ASSUME NEW x \in Pid, SameJobs(x), ~Live(x), Live(x)'
  PROVE  LiveJobs' = LiveJobs \cup {JobOf(x)'}
<1>1. \A p \in Pid \ {x} : /\ Live(p)' <=> Live(p)
                           /\ Live(p) => JobOf(p)' = JobOf(p)
  BY DEF SameJobs, JobOf
<1> QED BY <1>1 DEF LiveJobs

\* A set of numbers that is not empty has a least one.
LEMMA LeastNumber ==
  ASSUME NEW S \in SUBSET Nat, S # {}
  PROVE  \E least \in S : \A n \in S : least <= n
<1> DEFINE R == OpToRel(<, Nat)
<1>1. \A x, y \in Nat : <<x, y>> \in R <=> x < y
  BY DEF OpToRel
<1>2. IsWellFoundedOn(R, Nat)
  BY NatLessThanWellFounded
<1>3. S \subseteq Nat
  OBVIOUS
<1> HIDE DEF R
<1>4. PICK least \in S : \A n \in S : ~(<<n, least>> \in R)
  BY <1>2, <1>3, WFMin
<1>5. ASSUME NEW n \in S PROVE least <= n
  <2>1. n \in Nat /\ least \in Nat /\ ~(<<n, least>> \in R)
    BY <1>4
  <2>2. ~(n < least)
    BY <1>1, <2>1
  <2> QED BY <2>1, <2>2
<1> QED BY <1>5

\* A terminal whose first shell is not live has no job.
LEMMA NoJobs ==
  ASSUME Inductive, Ranked, NEW t \in Term, ~Live(t)
  PROVE  \A p \in Pid : Live(p) => home[p] # t
<1>1. PICK depth \in [Pid -> Nat] :
        \A p \in Pid : Child(p) /\ Live(p) => depth[parent_pid[p]] < depth[p]
  BY DEF Ranked
<1> DEFINE D == {n \in Nat : \E p \in Pid :
                               Live(p) /\ home[p] = t /\ depth[p] = n}
<1>2. SUFFICES ASSUME D # {} PROVE FALSE
  BY <1>1
<1>3. PICK n \in D : \A m \in D : n <= m
  BY <1>2, LeastNumber
<1>4. PICK p \in Pid : Live(p) /\ home[p] = t /\ depth[p] = n
  BY <1>3
<1>5. CASE ~Child(p)
  BY <1>4, <1>5, Sizes DEF Child, Inductive, Bases
<1>6. CASE Child(p)
  <2>1. /\ parent_pid[p] \in Pid /\ Live(parent_pid[p])
        /\ home[parent_pid[p]] = t
    BY <1>4, <1>6 DEF Child, Inductive, Children, TypeOK
  <2>2. depth[parent_pid[p]] \in D
    BY <1>1, <2>1
  <2> QED BY <1>1, <1>3, <1>4, <1>6, <2>1, <2>2
<1> QED BY <1>5, <1>6

-----------------------------------------------------------------------------
(* The three kinds of steps, and what each is in JobControl. *)

\* No process starts or ends.
Keeps == SameJobs(NoPid)

\* Process x, the last one of the scheduled terminal, ends.
Ends(x) ==
  /\ SameJobs(x) /\ Live(x) /\ ~Live(x)'
  /\ home[x] = s /\ Childless(x) /\ s' = s

\* Process x starts on the terminal that is now scheduled: its first shell,
\* or a child of the shell that was the last one.
Begins(x) ==
  /\ SameJobs(x) /\ ~Live(x) /\ Live(x)' /\ home'[x] = s'
  /\ image'[x].prog \in {"shell", "app"}
  /\ ~Child(x) => x = s' /\ parent_pid'[x] = x /\ image'[x].prog = "shell"
  /\ Child(x) => LET q == parent_pid'[x]
                 IN  /\ s' = s /\ q # x
                     /\ LiveOn(q, s) /\ Childless(q)
                     /\ image[q].prog = "shell"

JobStep == Keeps \/ \E x \in Pid : Ends(x) \/ Begins(x)

LEMMA JobStepKeeps ==
  ASSUME Inductive, Ranked, Shells, JobStep
  PROVE  Ranked' /\ Shells'
<1> USE Sizes
<1>0. \A p \in Pid : p # NoPid /\ parent_pid[p] \in Pid
  BY DEF Inductive, TypeOK
<1>1. PICK depth \in [Pid -> Nat] :
        \A p \in Pid : Child(p) /\ Live(p) => depth[parent_pid[p]] < depth[p]
  BY DEF Ranked
<1>2. CASE Keeps
  <2>1. \A p \in Pid : Child(p) /\ Live(p)' =>
                         depth[parent_pid'[p]] < depth[p]
    BY <1>0, <1>1, <1>2 DEF Keeps, SameJobs
  <2>2. Shells'
    BY <1>0, <1>2 DEF Keeps, SameJobs, Shells
  <2> QED BY <2>1, <2>2 DEF Ranked
<1>3. ASSUME NEW x \in Pid, Ends(x)
      PROVE  Ranked' /\ Shells'
  <2>1. \A p \in Pid : Child(p) /\ Live(p)' =>
                         depth[parent_pid'[p]] < depth[p]
    BY <1>1, <1>3 DEF Ends, SameJobs
  <2>2. Shells'
    BY <1>3 DEF Ends, SameJobs, Shells
  <2> QED BY <2>1, <2>2 DEF Ranked
<1>4. ASSUME NEW x \in Pid, Begins(x)
      PROVE  Ranked' /\ Shells'
  <2>1. Shells'
    BY <1>4 DEF Begins, SameJobs, Shells
  <2>2. CASE ~Child(x)
    <3>1. \A p \in Pid : Child(p) /\ Live(p)' =>
                           depth[parent_pid'[p]] < depth[p]
      BY <1>1, <1>4, <2>2 DEF Begins, SameJobs
    <3> QED BY <2>1, <3>1 DEF Ranked
  <2>3. CASE Child(x)
    <3> PICK q : q = parent_pid'[x]
      OBVIOUS
    <3>1. q \in Pid /\ q # x /\ depth[q] \in Nat
      BY <1>4, <2>3 DEF Begins, LiveOn
    <3>2. Childless(x)
      BY <1>4 DEF Begins, Inductive, Children, Childless
    <3>3. PICK deeper : deeper = [depth EXCEPT ![x] = depth[q] + 1]
      OBVIOUS
    <3>4. deeper \in [Pid -> Nat]
      BY ONLY depth \in [Pid -> Nat], <3>1, <3>3
    <3>5. ASSUME NEW p \in Pid, Child(p), Live(p)'
          PROVE  deeper[parent_pid'[p]] < deeper[p]
      <4>1. CASE p = x
        <5>1. deeper[x] = depth[q] + 1 /\ deeper[q] = depth[q]
          BY ONLY depth \in [Pid -> Nat], x \in Pid, <3>1, <3>3
        <5> QED BY ONLY <3>1, <4>1, <5>1, q = parent_pid'[x]
      <4>2. CASE p # x
        <5>1. Live(p) /\ parent_pid'[p] = parent_pid[p]
          BY <1>4, <3>5, <4>2 DEF Begins, SameJobs
        <5>2. parent_pid[p] \in Pid /\ parent_pid[p] # x
          BY <1>0, <3>2, <3>5, <5>1 DEF Childless, Child
        <5> QED BY <1>1, <3>3, <3>5, <4>2, <5>1, <5>2
      <4> QED BY <4>1, <4>2
    <3> QED BY <2>1, <3>4, <3>5 DEF Ranked
  <2> QED BY <2>2, <2>3
<1> QED BY <1>2, <1>3, <1>4 DEF JobStep

\* The last job of a line.
LEMMA LastJob ==
  ASSUME Inductive, NEW x \in Pid, Live(x), home[x] = s, Childless(x)
  PROVE  JobOf(x) \in Jobs!Last(s)
<1>1. JobOf(x) \in Jobs!JobsOf(s)
  BY DEF Jobs!JobsOf, LiveJobs, JobOf
<1>2. ASSUME NEW k \in Jobs!JobsOf(s), k.parent = x
      PROVE  k = JobOf(x)
  <2>1. PICK p \in Pid : Live(p) /\ k = JobOf(p)
    BY DEF Jobs!JobsOf, LiveJobs
  <2>2. parent_pid[p] = x
    BY <1>2, <2>1 DEF JobOf
  <2>3. ~Child(p)
    BY <2>1, <2>2 DEF Childless, Child
  <2>4. parent_pid[p] = p
    BY <2>1, <2>3, Sizes DEF Inductive, Bases, Child
  <2> QED BY <2>1, <2>2, <2>4
<1>3. JobOf(x).id = x
  BY DEF JobOf
<1> QED BY <1>1, <1>2, <1>3 DEF Jobs!Last

LEMMA EndsIsEnd ==
  ASSUME Inductive, NEW x \in Pid, Ends(x)
  PROVE  Jobs!End(s)
<1>1. JobOf(x) \in Jobs!Last(s)
  BY LastJob DEF Ends
<1>2. LiveJobs' = LiveJobs \ {JobOf(x)}
  BY JobsEnd DEF Ends
<1>3. scheduled_terminal = s /\ scheduled_terminal' = scheduled_terminal
  BY DEF Ends, s
<1> QED BY <1>1, <1>2, <1>3 DEF Jobs!End

LEMMA BeginsIsBoot ==
  ASSUME Inductive, Ranked, Inductive', NEW x \in Pid, Begins(x), ~Child(x)
  PROVE  Jobs!Boot(s')
<1>1. /\ x = s' /\ parent_pid'[x] = x /\ image'[x].prog = "shell"
      /\ home'[x] = s' /\ ~Live(x)
  BY DEF Begins
<1>2. x \in Term
  BY Sizes DEF Child
<1>3. \A p \in Pid : Live(p) => home[p] # x
  BY <1>1, <1>2, NoJobs
<1>4. Jobs!JobsOf(s') = {}
  BY <1>1, <1>3 DEF Jobs!JobsOf, LiveJobs, JobOf
<1>5. LiveJobs' = LiveJobs \cup {JobOf(x)'}
  BY JobsBegin DEF Begins
<1>6. JobOf(x)' = Jobs!Job(s', s', s', "shell")
  BY <1>1 DEF JobOf, Jobs!Job
<1> QED BY <1>4, <1>5, <1>6 DEF Jobs!Boot, s

\* A process that is not live leaves room for its job.
LEMMA RoomForJob ==
  ASSUME NEW x \in Pid, ~Live(x)
  PROVE  Cardinality(LiveJobs) < MAXPROC
<1> DEFINE L == {p \in Pid : Live(p)}
<1>1. MAXPROC \in Nat /\ Pid = 0 .. MAXPROC - 1
  BY ConstantsAssumption DEF Pid
<1>2. IsFiniteSet(Pid) /\ Cardinality(Pid) = MAXPROC
  <2>1. x \in 0 .. MAXPROC - 1
    BY <1>1
  <2>2. 0 \in Int /\ MAXPROC - 1 \in Int /\ 0 <= MAXPROC - 1
    BY <1>1, <2>1
  <2> QED BY <1>1, <2>2, FS_Interval
<1>3. /\ IsFiniteSet(Pid \ {x})
      /\ Cardinality(Pid \ {x}) = Cardinality(Pid) - 1
  BY <1>2, FS_RemoveElement
<1>4. L \subseteq Pid \ {x}
  OBVIOUS
<1>5. IsFiniteSet(L) /\ Cardinality(L) <= Cardinality(Pid \ {x})
  BY <1>3, <1>4, FS_Subset
<1>6. PICK f : f = [p \in L |-> JobOf(p)]
  OBVIOUS
<1>7. LiveJobs = {f[p] : p \in L}
  BY <1>6 DEF LiveJobs
<1>8. f \in Surjection(L, LiveJobs)
  BY <1>6, <1>7 DEF Surjection
<1>9. IsFiniteSet(LiveJobs) /\ Cardinality(LiveJobs) <= Cardinality(L)
  BY <1>5, <1>8, FS_Surjection
<1>10. /\ Cardinality(L) \in Nat /\ Cardinality(LiveJobs) \in Nat
  BY <1>5, <1>9, FS_CardinalityType
<1> HIDE DEF L
<1> QED BY <1>1, <1>2, <1>3, <1>5, <1>9, <1>10

LEMMA BeginsIsStart ==
  ASSUME Inductive, Inductive', NEW x \in Pid, Begins(x), Child(x)
  PROVE  Jobs!Start(s, x, image'[x].prog)
<1> DEFINE q == parent_pid'[x]
<1>1. /\ s' = s /\ LiveOn(q, s) /\ Childless(q) /\ image[q].prog = "shell"
      /\ home'[x] = s /\ ~Live(x)
  BY DEF Begins
<1>2. q \in Pid /\ Live(q) /\ home[q] = s
  BY <1>1 DEF LiveOn
<1>3. JobOf(q) \in Jobs!Last(s)
  BY <1>1, <1>2, LastJob
<1>4. JobOf(q).program = "shell" /\ JobOf(q).id = q
  BY <1>1 DEF JobOf
<1>5. LiveJobs' = LiveJobs \cup {JobOf(x)'}
  BY JobsBegin DEF Begins
<1>6. JobOf(x)' = Jobs!Job(x, s, q, image'[x].prog)
  BY <1>1 DEF JobOf, Jobs!Job
<1>7. x \notin Jobs!Ids \cup Term
  <2>1. x \notin Jobs!Ids
    BY <1>1 DEF Jobs!Ids, LiveJobs, JobOf
  <2> QED BY <2>1, Sizes DEF Child
<1>8. Cardinality(LiveJobs) < MAXPROC
  BY <1>1, RoomForJob
<1>9. scheduled_terminal = s /\ scheduled_terminal' = scheduled_terminal
  BY <1>1 DEF s
<1>10. \E j \in Jobs!Last(s) :
         /\ j.program = "shell"
         /\ LiveJobs' = LiveJobs \cup
                          {Jobs!Job(x, s, j.id, image'[x].prog)}
  <2> HIDE DEF q
  <2> QED BY <1>3, <1>4, <1>5, <1>6
<1>11. Jobs!Cardinality(LiveJobs) = Cardinality(LiveJobs)
  BY DEF Jobs!Cardinality, Cardinality, Jobs!IsFiniteSet, IsFiniteSet
<1> QED BY <1>7, <1>8, <1>9, <1>10, <1>11 DEF Jobs!Start

LEMMA JobStepIsNext ==
  ASSUME Inductive, Inductive', Ranked, JobStep
  PROVE  Jobs!Next
<1>1. s \in Term /\ s' \in Term
  BY DEF Inductive, TypeOK, s
<1>2. CASE Keeps
  <2>1. Jobs!Switch(s')
    BY <1>2, JobsKept DEF Keeps, Jobs!Switch, s
  <2> QED BY <1>1, <2>1 DEF Jobs!Next
<1>3. ASSUME NEW x \in Pid, Ends(x)
      PROVE  Jobs!Next
  BY <1>1, <1>3, EndsIsEnd DEF Jobs!Next
<1>4. ASSUME NEW x \in Pid, Begins(x)
      PROVE  Jobs!Next
  <2>1. CASE ~Child(x)
    BY <1>1, <1>4, <2>1, BeginsIsBoot DEF Jobs!Next
  <2>2. CASE Child(x)
    <3>1. Jobs!Start(s, x, image'[x].prog)
      BY <1>4, <2>2, BeginsIsStart
    <3>2. image'[x].prog \in {"shell", "app"}
      BY <1>4 DEF Begins
    <3> QED BY <1>1, <3>1, <3>2 DEF Jobs!Next
  <2> QED BY <2>1, <2>2
<1> QED BY <1>2, <1>3, <1>4 DEF JobStep

-----------------------------------------------------------------------------
(* The steps of a thread. *)

\* No program of a live process is overwritten.
ProgramsKept == \A p \in Pid : Live(p) => image'[p].prog = image[p].prog

\* A thread outside of sys_execute and sys_halt that takes no step.
LEMMA AskedKept ==
  ASSUME Inductive, AllAsked, ProgramsKept, NEW u \in Term,
         pc[u] \in {"off"} \cup Running,
         pc'[u] = pc[u], local'[u] = local[u], proc'[u] = proc[u]
  PROVE  Asked(u)'
<1>1. Asked(u)
  BY DEF AllAsked
<1>2. pc[u] \in Running => proc[u] \in Pid /\ Live(proc[u])
  BY DEF Inductive, Tops, LiveOn
<1>3. pc[u] = "cmd" => image'[proc[u]].prog = "shell"
  BY <1>1, <1>2 DEF Asked, ProgramsKept, Running
<1> QED BY <1>1, <1>3 DEF Asked, Running, Halting, Launching

\* A step of the scheduled thread.
ThreadStep ==
  /\ s' = s
  /\ \A u \in Term : u # s => /\ pc'[u] = pc[u] /\ local'[u] = local[u]
                              /\ proc'[u] = proc[u]

LEMMA ThreadAsked ==
  ASSUME Inductive, AllAsked, ProgramsKept, ThreadStep, Asked(s)'
  PROVE  AllAsked'
<1>1. ASSUME NEW u \in Term, u # s
      PROVE  Asked(u)'
  BY <1>1, AskedKept DEF Inductive, OnlyScheduled, ThreadStep
<1>2. s' = s
  BY DEF ThreadStep
<1> QED BY <1>1, <1>2 DEF AllAsked

\* A step that changes neither pidlist nor what belongs to a process.
LEMMA QuietJobs ==
  ASSUME Inductive, Inductive', UNCHANGED <<flag, home, parent_pid, image>>,
         pc'[s'] \in Launching <=> pc[s] \in Launching,
         pc[s] \in Launching => local'[s'].i = local[s].i
  PROVE  Keeps /\ ProgramsKept
<1>1. \A p \in Pid : Live(p) <=> /\ flag[p] = 1
                                 /\ pc[s] \in Launching => local[s].i # p
  BY LiveNow DEF Inductive
<1>2. \A p \in Pid : Live(p)' <=> /\ flag'[p] = 1
                                  /\ pc'[s'] \in Launching =>
                                       local'[s'].i # p
  BY LiveNext DEF Inductive
<1>3. \A p \in Pid : Live(p)' <=> Live(p)
  BY <1>1, <1>2
<1> QED BY <1>3 DEF Keeps, SameJobs, ProgramsKept

\* A quiet step of the scheduled thread from one point to another.
Moves(from, to, line) ==
  /\ s' = s /\ pc[s] = from /\ pc' = [pc EXCEPT ![s] = to]
  /\ UNCHANGED <<flag, home, parent_pid, image>>
  /\ \A u \in Term \ {s} : local'[u] = local[u] /\ proc'[u] = proc[u]
  /\ local'[s].command = line

LEMMA MovesOutside ==
  ASSUME Inductive, Inductive', AllAsked, NEW from, NEW to, NEW line,
         Moves(from, to, line),
         from \notin Launching, to \notin Launching,
         to # "x_take",
         to \in {"user", "boot"} => line = "none",
         to \in Halting \cup {"h_exec"} => line \in {"none", "exit"},
         to = "cmd" => image[proc'[s]].prog = "shell", to # "off"
  PROVE  JobStep /\ AllAsked'
<1>1. pc'[s] = to /\ s \in Term /\ s' = s
  BY DEF Moves, Inductive, TypeOK, s
<1>2. Keeps /\ ProgramsKept
  BY <1>1, QuietJobs DEF Moves
<1>3. ThreadStep
  BY <1>1 DEF ThreadStep, Moves, Inductive, TypeOK
<1>4. Asked(s)'
  BY <1>1 DEF Asked, Moves, Launching
<1> QED BY <1>2, <1>3, <1>4, ThreadAsked DEF JobStep

LEMMA terminal_read_job ==
  ASSUME Inductive, Inductive', AllAsked, NEW t \in Term, NEW line \in Command,
         terminal_read(t, line)
  PROVE  JobStep /\ AllAsked'
<1> DEFINE to == IF line = "none" THEN "user" ELSE "cmd"
<1>1. t = s /\ pc[s] = "user" /\ RunsShell
  BY DEF terminal_read, At, s
<1>2. page = proc[s] /\ image[proc[s]].prog = "shell"
  BY <1>1 DEF Inductive, Context, Running, RunsShell
<1>3. Moves("user", to, line)
  BY <1>1 DEF Inductive, TypeOK, terminal_read, Goto, kernel, pcb, machine,
              Moves, s
<1>4. proc' = proc
  BY DEF terminal_read
<1> QED BY <1>2, <1>3, <1>4, MovesOutside DEF Launching, Halting

LEMMA sys_execute_reject_job ==
  ASSUME Inductive, Inductive', AllAsked, NEW t \in Term,
         sys_execute_reject(t)
  PROVE  JobStep /\ AllAsked'
<1>1. Moves("cmd", "user", "none")
  BY DEF Inductive, TypeOK, sys_execute_reject, At, Goto, kernel, pcb, machine,
         Moves, s, NoLocal
<1> QED BY <1>1, MovesOutside DEF Launching, Halting

LEMMA sys_execute_full_job ==
  ASSUME Inductive, Inductive', AllAsked, NEW t \in Term, sys_execute_full(t)
  PROVE  JobStep /\ AllAsked'
<1>1. t = s /\ pc[s] = "cmd"
  BY DEF Inductive, TypeOK, OnlyScheduled, Restarting, sys_execute_full,
         AtEntry, At, s
<1>2. Moves("cmd", "user", "none")
  BY <1>1 DEF Inductive, TypeOK, sys_execute_full, Goto, ReturnPoint, kernel,
              pcb, machine, Moves, s, NoLocal
<1> QED BY <1>2, MovesOutside DEF Launching, Halting

LEMMA sys_halt_job ==
  ASSUME Inductive, Inductive', AllAsked, s \in Term, sys_halt(s),
         \/ pc[s] = "user"
         \/ pc[s] = "cmd" /\ local[s].command = "exit"
  PROVE  JobStep /\ AllAsked'
<1>1. local[s].command \in {"none", "exit"}
  BY DEF AllAsked, Asked
<1>2. Moves(pc[s], "h_free", local[s].command)
  BY DEF Inductive, TypeOK, sys_halt, Goto, kernel, pcb, Moves, s
<1>3. PICK from, line : from = pc[s] /\ line = local[s].command
  OBVIOUS
<1>4. Moves(from, "h_free", line)
  BY <1>2, <1>3
<1> QED BY <1>1, <1>3, <1>4, MovesOutside DEF Launching, Halting

LEMMA do_exception_job ==
  ASSUME Inductive, Inductive', AllAsked, NEW t \in Term, do_exception(t)
  PROVE  JobStep /\ AllAsked'
<1>1. PICK line : line = local[s].command
  OBVIOUS
<1>2. Moves("user", "hung", line)
  BY <1>1 DEF Inductive, TypeOK, do_exception, At, Goto, kernel, pcb, machine,
         Moves, s
<1> QED BY <1>2, MovesOutside DEF Launching, Halting

\* The steps of sys_halt after it has freed the entry of pidlist.
LEMMA sys_halt_moves_job ==
  ASSUME Inductive, Inductive', AllAsked, NEW t \in Term,
         \/ recover_terminal_curr_pid(t) \/ sys_halt_parent(t)
         \/ sys_halt_restart(t) \/ sys_halt_page(t)
  PROVE  JobStep /\ AllAsked'
<1> DEFINE to == CASE pc[s] = "h_top"  -> "h_cur"
                   [] pc[s] = "h_cur"  -> IF current_pid >= TERMINAL_NUM
                                          THEN "h_page" ELSE "h_exec"
                   [] pc[s] = "h_page" -> "h_ret"
<1>1. pc[s] \in {"h_top", "h_cur", "h_page"} /\ s \in Term
  BY DEF recover_terminal_curr_pid, sys_halt_parent, sys_halt_restart,
         sys_halt_page, At, s
<1>2. local[s].command \in {"none", "exit"}
  BY <1>1 DEF AllAsked, Asked, Halting
<1>3. Moves(pc[s], to, local[s].command)
  BY <1>1, Sizes
  DEF Inductive, TypeOK, recover_terminal_curr_pid, sys_halt_parent,
      sys_halt_restart, sys_halt_page, At, Goto, kernel, pcb, machine, Moves, s
<1>4. PICK from, dest, line :
        from = pc[s] /\ dest = to /\ line = local[s].command
  OBVIOUS
<1>5. Moves(from, dest, line)
  BY <1>3, <1>4
<1>6. dest \in {"h_cur", "h_page", "h_exec", "h_ret"}
  BY <1>1, <1>4
<1> HIDE DEF to
<1> QED BY <1>1, <1>2, <1>4, <1>5, <1>6, MovesOutside DEF Launching, Halting

LEMMA sys_halt_return_job ==
  ASSUME Inductive, Inductive', AllAsked, NEW t \in Term, sys_halt_return(t)
  PROVE  JobStep /\ AllAsked'
<1>1. PICK dest : dest = IF esp[local[s].cur] = NoPid THEN "hung" ELSE "user"
  OBVIOUS
<1>2. Moves("h_ret", dest, "none")
  BY <1>1 DEF Inductive, TypeOK, sys_halt_return, At, Goto, kernel, pcb,
              machine, Moves, s, NoLocal
<1> QED BY <1>1, <1>2, MovesOutside DEF Launching, Halting

\* The scan of pidlist: the caller is a shell.
LEMMA sys_execute_pick_job ==
  ASSUME Inductive, Inductive', AllAsked, NEW t \in Term, sys_execute_pick(t)
  PROVE  JobStep /\ AllAsked'
<1>1. t = s /\ s \in Term /\ pc[s] = "cmd"
  BY DEF Inductive, TypeOK, OnlyScheduled, Restarting, sys_execute_pick,
         AtEntry, At, s
<1>2. PICK p : local' = [local EXCEPT ![s].i = p]
  BY <1>1 DEF sys_execute_pick
<1>3. /\ s' = s /\ pc' = [pc EXCEPT ![s] = "x_take"]
      /\ UNCHANGED <<flag, home, parent_pid, image, proc>>
  BY <1>1 DEF sys_execute_pick, Goto, kernel, pcb, machine, s
<1>4. /\ pc'[s] = "x_take"
      /\ \A u \in Term : u # s => pc'[u] = pc[u] /\ local'[u] = local[u]
  BY <1>1, <1>2, <1>3 DEF Inductive, TypeOK
<1>5. Keeps /\ ProgramsKept
  BY <1>1, <1>3, <1>4, QuietJobs DEF Launching
<1>6. ThreadStep
  BY <1>3, <1>4 DEF ThreadStep
<1>7. Asked(s)'
  BY <1>1, <1>3, <1>4 DEF AllAsked, Asked, Launching, Halting
<1> QED BY <1>5, <1>6, <1>7, ThreadAsked DEF JobStep

\* A new process has its entry of pidlist, and is not started yet.
LEMMA sys_execute_take_job ==
  ASSUME Inductive, Inductive', AllAsked, NEW t \in Term, sys_execute_take(t)
  PROVE  JobStep /\ AllAsked'
<1>1. /\ t = s /\ s \in Term /\ s' = s /\ pc[s] = "x_take"
      /\ pc' = [pc EXCEPT ![s] = "x_parent"]
      /\ flag' = [flag EXCEPT ![local[s].i] = 1]
      /\ home' = [home EXCEPT ![local[s].i] = s]
      /\ UNCHANGED <<parent_pid, image, local, proc>>
  BY DEF sys_execute_take, At, Goto, pcb, machine, s
<1>2. /\ local[s].i \in Pid /\ flag[local[s].i] = 0 /\ Child(local[s].i)
      /\ LiveOn(proc[s], s)
  BY <1>1 DEF Inductive, TakePhase, Child
<1>3. /\ pc'[s] = "x_parent"
      /\ \A u \in Term : u # s => pc'[u] = pc[u]
      /\ \A p \in Pid : p # local[s].i => flag'[p] = flag[p]
                                          /\ home'[p] = home[p]
  BY <1>1 DEF Inductive, TypeOK
<1>4. \A p \in Pid : Live(p)' <=> Live(p)
  BY <1>1, <1>2, <1>3, LiveNow, LiveNext DEF Inductive, Launching
<1>5. ~Live(local[s].i)
  BY <1>2 DEF Live
<1>6. Keeps /\ ProgramsKept
  BY <1>1, <1>3, <1>4, <1>5 DEF Keeps, SameJobs, ProgramsKept
<1>7. ThreadStep
  BY <1>1, <1>3 DEF ThreadStep
<1>8. Asked(s)'
  BY <1>1, <1>2, <1>3 DEF AllAsked, Asked, Launching, Halting
<1> QED BY <1>6, <1>7, <1>8, ThreadAsked DEF JobStep

\* The steps of sys_execute that write neither memory nor PCB.
LEMMA sys_execute_moves_job ==
  ASSUME Inductive, Inductive', AllAsked, NEW t \in Term,
         \/ sys_execute_parent(t) \/ modify_terminal_curr_pid(t)
         \/ sys_execute_page(t)
  PROVE  JobStep /\ AllAsked'
<1>1. /\ t = s /\ s \in Term /\ s' = s
      /\ pc[s] \in {"x_parent", "x_top", "x_page"}
      /\ UNCHANGED <<flag, home, parent_pid, image, proc>>
  BY DEF sys_execute_parent, modify_terminal_curr_pid, sys_execute_page, At,
         kernel, pcb, machine, s
<1>2. /\ pc'[s] \in {"x_top", "x_page", "x_load"}
      /\ local'[s].i = local[s].i /\ local'[s].command = local[s].command
      /\ \A u \in Term : u # s => pc'[u] = pc[u] /\ local'[u] = local[u]
  BY <1>1
  DEF Inductive, TypeOK, sys_execute_parent, modify_terminal_curr_pid,
      sys_execute_page, At, Goto, s
<1>3. Keeps /\ ProgramsKept
  BY <1>1, <1>2, QuietJobs DEF Launching
<1>4. ThreadStep
  BY <1>1, <1>2 DEF ThreadStep
<1>5. Asked(s)'
  BY <1>1, <1>2 DEF AllAsked, Asked, Launching, Halting
<1> QED BY <1>3, <1>4, <1>5, ThreadAsked DEF JobStep

\* The branch for a first shell: the terminal has none.
LEMMA sys_execute_base_job ==
  ASSUME Inductive, Inductive', AllAsked, NEW t \in Term, sys_execute_base(t)
  PROVE  JobStep /\ AllAsked'
<1>1. t = s /\ s \in Term /\ pc[s] \in Restarting
  BY DEF Inductive, TypeOK, OnlyScheduled, Restarting, sys_execute_base,
         AtEntry, At, s
<1>2. /\ s' = s /\ pc' = [pc EXCEPT ![s] = "x_page"]
      /\ flag' = [flag EXCEPT ![s] = 1]
      /\ home' = [home EXCEPT ![s] = s]
      /\ local' = [local EXCEPT ![s].i = s, ![s].parent = s]
      /\ UNCHANGED <<parent_pid, image, proc>>
  BY <1>1 DEF sys_execute_base, Goto, pcb, machine, s
<1>3. flag[s] = 0 /\ s \in Pid /\ ~Child(s)
  BY <1>1, Sizes DEF Inductive, RestartPhase, Child
<1>4. /\ pc'[s] = "x_page" /\ local'[s].i = s
      /\ local'[s].command = local[s].command
      /\ \A u \in Term : u # s => pc'[u] = pc[u] /\ local'[u] = local[u]
      /\ \A p \in Pid : p # s => flag'[p] = flag[p] /\ home'[p] = home[p]
  BY <1>1, <1>2 DEF Inductive, TypeOK
<1>5. \A p \in Pid : Live(p)' <=> Live(p)
  <2>1. \A p \in Pid : Live(p) <=> flag[p] = 1
    BY <1>1, LiveNow DEF Inductive, Launching, Restarting
  <2>2. \A p \in Pid : Live(p)' <=> flag'[p] = 1 /\ p # s
    BY <1>2, <1>4, LiveNext DEF Inductive, Launching
  <2> QED BY <1>3, <1>4, <2>1, <2>2
<1>6. ~Live(s)
  BY <1>3 DEF Live
<1>7. Keeps /\ ProgramsKept
  BY <1>2, <1>4, <1>5, <1>6 DEF Keeps, SameJobs, ProgramsKept
<1>8. ThreadStep
  BY <1>2, <1>4 DEF ThreadStep
<1>9. Asked(s)'
  BY <1>1, <1>2, <1>3, <1>4
  DEF AllAsked, Asked, Launching, Halting, Restarting
<1> QED BY <1>7, <1>8, <1>9, ThreadAsked DEF JobStep

\* The program is loaded into the memory of the new process.
LEMMA sys_execute_load_job ==
  ASSUME Inductive, Inductive', AllAsked, NEW t \in Term, sys_execute_load(t)
  PROVE  JobStep /\ AllAsked'
<1>1. /\ t = s /\ s \in Term /\ s' = s /\ pc[s] = "x_load"
      /\ pc' = [pc EXCEPT ![s] = "x_pcb"]
      /\ image' = [image EXCEPT ![page] = Loaded(s)]
      /\ UNCHANGED <<flag, home, parent_pid, local, proc>>
  BY DEF sys_execute_load, At, Goto, kernel, pcb, s
<1>2. /\ local[s].i \in Pid /\ page = local[s].i
      /\ Child(local[s].i) => LiveOn(proc[s], s) /\ proc[s] # local[s].i
  BY <1>1 DEF Inductive, LaunchPhase, Launching, Child
<1>3. /\ pc'[s] = "x_pcb"
      /\ \A u \in Term : u # s => pc'[u] = pc[u]
      /\ image'[local[s].i] = Loaded(s)
      /\ \A p \in Pid : p # local[s].i => image'[p] = image[p]
  BY <1>1, <1>2 DEF Inductive, TypeOK
<1>4. \A p \in Pid : Live(p)' <=> Live(p)
  BY <1>1, <1>3, LiveNow, LiveNext DEF Inductive, Launching
<1>5. ~Live(local[s].i)
  BY <1>1, <1>2, LiveNow DEF Inductive, Launching
<1>6. Keeps /\ ProgramsKept
  BY <1>1, <1>3, <1>4, <1>5 DEF Keeps, SameJobs, ProgramsKept
<1>7. ThreadStep
  BY <1>1, <1>3 DEF ThreadStep
<1>8. Asked(s)
  BY <1>1 DEF AllAsked
<1>9. Asked(s)'
  <2>1. Loaded(s).prog \in {"shell", "app"}
    BY DEF Loaded
  <2>2. local[s].command # "app" => Loaded(s).prog = "shell"
    BY DEF Loaded
  <2>3. Child(local[s].i) => image'[proc[s]] = image[proc[s]]
    BY <1>2, <1>3 DEF LiveOn
  <2> QED
    BY <1>1, <1>2, <1>3, <1>8, <2>1, <2>2, <2>3
    DEF Asked, Launching, Halting
<1> QED BY <1>6, <1>7, <1>9, ThreadAsked DEF JobStep

\* The PCB of the new process is filled.
LEMMA sys_execute_pcb_job ==
  ASSUME Inductive, Inductive', AllAsked, NEW t \in Term, sys_execute_pcb(t)
  PROVE  JobStep /\ AllAsked'
<1>1. /\ t = s /\ s \in Term /\ s' = s /\ pc[s] = "x_pcb"
      /\ pc' = [pc EXCEPT ![s] = "x_tss"]
      /\ parent_pid' = [parent_pid EXCEPT ![current_pid] = local[s].parent]
      /\ UNCHANGED <<flag, home, image, local, proc>>
  BY DEF sys_execute_pcb, At, Goto, kernel, machine, s
<1>2. local[s].i \in Pid /\ current_pid = local[s].i
  BY <1>1 DEF Inductive, LaunchPhase, Launching
<1>3. /\ pc'[s] = "x_tss"
      /\ \A u \in Term : u # s => pc'[u] = pc[u]
      /\ \A p \in Pid : p # local[s].i => parent_pid'[p] = parent_pid[p]
  BY <1>1, <1>2 DEF Inductive, TypeOK
<1>4. \A p \in Pid : Live(p)' <=> Live(p)
  BY <1>1, <1>3, LiveNow, LiveNext DEF Inductive, Launching
<1>5. ~Live(local[s].i)
  BY <1>1, <1>2, LiveNow DEF Inductive, Launching
<1>6. Keeps /\ ProgramsKept
  BY <1>1, <1>3, <1>4, <1>5 DEF Keeps, SameJobs, ProgramsKept
<1>7. ThreadStep
  BY <1>1, <1>3 DEF ThreadStep
<1>8. Asked(s)'
  BY <1>1, <1>3 DEF AllAsked, Asked, Launching, Halting
<1> QED BY <1>6, <1>7, <1>8, ThreadAsked DEF JobStep

\* iret: the new process runs, on the terminal of its parent.
LEMMA sys_execute_iret_job ==
  ASSUME Inductive, Inductive', AllAsked, NEW t \in Term, sys_execute_iret(t)
  PROVE  JobStep /\ AllAsked'
<1>1. /\ t = s /\ s \in Term /\ s' = s /\ pc[s] = "x_tss"
      /\ pc' = [pc EXCEPT ![s] = "user"]
      /\ proc' = [proc EXCEPT ![s] = local[s].i]
      /\ local' = [local EXCEPT ![s] = NoLocal]
      /\ UNCHANGED <<flag, home, parent_pid, image>>
  BY DEF sys_execute_iret, At, Goto, kernel, pcb, s
<1>2. PICK i : i = local[s].i
  OBVIOUS
<1>3. /\ i \in Pid /\ flag[i] = 1 /\ home[i] = s
      /\ parent_pid[i] = local[s].parent
      /\ Child(i) => /\ parent_pid[i] = proc[s] /\ proc[s] # i
                     /\ LiveOn(proc[s], s) /\ Childless(proc[s])
      /\ ~Child(i) => i = s /\ parent_pid[i] = i
  BY <1>1, <1>2, Sizes DEF Inductive, LaunchPhase, Launching, Child
<1>4. /\ image[i].prog \in {"shell", "app"}
      /\ ~Child(i) => image[i].prog = "shell"
      /\ Child(i) => image[proc[s]].prog = "shell"
  BY <1>1, <1>2 DEF AllAsked, Asked, Launching
<1>5. /\ pc'[s] = "user" /\ local'[s] = NoLocal
      /\ \A u \in Term : u # s => /\ pc'[u] = pc[u] /\ local'[u] = local[u]
                                  /\ proc'[u] = proc[u]
  BY <1>1 DEF Inductive, TypeOK
<1>6. \A p \in Pid : /\ Live(p)' <=> flag[p] = 1
                     /\ Live(p) <=> flag[p] = 1 /\ p # i
  BY <1>1, <1>2, <1>5, LiveNow, LiveNext DEF Inductive, Launching
<1>7. Begins(i)
  BY <1>1, <1>3, <1>4, <1>6 DEF Begins, SameJobs
<1>8. ProgramsKept /\ ThreadStep
  BY <1>1, <1>5 DEF ProgramsKept, ThreadStep
<1>9. Asked(s)'
  BY <1>1, <1>5 DEF Asked, NoLocal, Launching, Halting
<1> QED BY <1>3, <1>7, <1>8, <1>9, ThreadAsked DEF JobStep

\* sys_halt frees the entry of a process that no other waits for.
LEMMA sys_halt_free_job ==
  ASSUME Inductive, Inductive', AllAsked, NEW t \in Term, sys_halt_free(t)
  PROVE  JobStep /\ AllAsked'
<1>1. /\ t = s /\ s \in Term /\ s' = s /\ pc[s] = "h_free"
      /\ pc' = [pc EXCEPT ![s] = "h_top"]
      /\ flag' = [flag EXCEPT ![current_pid] = 0]
      /\ UNCHANGED <<home, parent_pid, image, local, proc>>
  BY DEF sys_halt_free, At, Goto, pcb, machine, s
<1>2. PICK x : x = current_pid
  OBVIOUS
<1>3. x \in Pid /\ home[x] = s /\ Childless(x) /\ flag[x] = 1
  BY <1>1, <1>2, HaltFacts DEF Halting
<1>4. /\ pc'[s] = "h_top" /\ flag'[x] = 0
      /\ \A u \in Term : u # s => pc'[u] = pc[u]
      /\ \A p \in Pid : p # x => flag'[p] = flag[p]
  BY <1>1, <1>2, <1>3 DEF Inductive, TypeOK
<1>5. \A p \in Pid : /\ Live(p)' <=> flag'[p] = 1
                     /\ Live(p) <=> flag[p] = 1
  BY <1>1, <1>4, LiveNow, LiveNext DEF Inductive, Launching
<1>6. Ends(x)
  BY <1>1, <1>3, <1>4, <1>5 DEF Ends, SameJobs
<1>7. ProgramsKept /\ ThreadStep
  BY <1>1, <1>4 DEF ProgramsKept, ThreadStep
<1>8. Asked(s)'
  BY <1>1, <1>4 DEF AllAsked, Asked, Launching, Halting
<1> QED BY <1>3, <1>6, <1>7, <1>8, ThreadAsked DEF JobStep

-----------------------------------------------------------------------------
(* The steps of the interrupt handlers. *)

\* A handler interrupts no thread inside sys_execute or sys_halt, so only the
\* thread x whose frame it changes has anything new to answer for.
LEMMA InterruptAsked ==
  ASSUME Inductive, AllAsked, ProgramsKept, s \in Term, pc[s] \in Running,
         NEW x, x \in Term => Asked(x)',
         \A u \in Term : u # x => /\ pc'[u] = pc[u] /\ local'[u] = local[u]
                                  /\ proc'[u] = proc[u]
  PROVE  AllAsked'
<1>1. ASSUME NEW u \in Term, u # x
      PROVE  Asked(u)'
  BY <1>1, AskedKept DEF Inductive, OnlyScheduled
<1> QED BY <1>1 DEF AllAsked

\* No handler runs while a process is being started, so that a process is live
\* when its entry of pidlist says so.
LEMMA InterruptLive ==
  ASSUME Inductive, Inductive', pc[s] \in Running, pc'[s'] \in Running
  PROVE  \A p \in Pid : /\ Live(p) <=> flag[p] = 1
                        /\ Live(p)' <=> flag'[p] = 1
BY LiveNow, LiveNext DEF Inductive, Running, Launching

\* Enter and Alt-Fn.
LEMMA display_job ==
  ASSUME Discipline, Inductive, Inductive', AllAsked,
         enter_pressed \/ \E n \in Term : switch_terminal(n)
  PROVE  JobStep /\ AllAsked'
<1>1. /\ Interruptible /\ s' = s
      /\ UNCHANGED <<flag, home, parent_pid, image, pc, local, proc>>
  BY DEF enter_pressed, switch_terminal, kernel, pcb, machine, threads, s
<1>2. s \in Term /\ pc[s] \in Running
  BY <1>1, InterruptPoint
<1>3. Keeps /\ ProgramsKept
  BY <1>1, QuietJobs
<1>4. AllAsked'
  BY <1>1, <1>2, <1>3, InterruptAsked, Sizes
<1> QED BY <1>3, <1>4 DEF JobStep

LEMMA context_switch_resume_job ==
  ASSUME Discipline, Inductive, Inductive', AllAsked, context_switch_resume
  PROVE  JobStep /\ AllAsked'
<1> PICK n : n = NextTerminal
  OBVIOUS
<1>1. n \in Term /\ s \in Term /\ pc[s] \in Running /\ shell_pid[n] # NoPid
  BY InterruptPoint, NextTerminalType DEF Inductive, context_switch_resume
<1>2. pc[n] \in Running
  BY <1>1 DEF Inductive, OnlyScheduled, Started
<1>3. /\ s' = n
      /\ UNCHANGED <<flag, home, parent_pid, image, pc, local, proc>>
  BY DEF context_switch_resume, pcb, threads, s
<1>4. Keeps /\ ProgramsKept
  BY <1>1, <1>2, <1>3, QuietJobs DEF Running, Launching
<1>5. AllAsked'
  BY <1>1, <1>3, <1>4, InterruptAsked, Sizes
<1> QED BY <1>4, <1>5 DEF JobStep

\* The timer starts the first shell of a terminal that had none.
LEMMA context_switch_init_job ==
  ASSUME Discipline, Inductive, Inductive', AllAsked, context_switch_init
  PROVE  JobStep /\ AllAsked'
<1> PICK n : n = NextTerminal
  OBVIOUS
<1>1. n \in Term /\ s \in Term /\ pc[s] \in Running /\ shell_pid[n] = NoPid
  BY InterruptPoint, NextTerminalType DEF Inductive, context_switch_init
<1>2. n \in Pid /\ ~Child(n) /\ flag[n] = 0
  BY <1>1, Sizes DEF Inductive, Started, Child
<1>3. /\ s' = n
      /\ flag' = [flag EXCEPT ![n] = 1]
      /\ image' = [image EXCEPT ![n] = [owner |-> n, prog |-> "shell"]]
      /\ parent_pid' = [parent_pid EXCEPT ![n] = n]
      /\ pc' = [pc EXCEPT ![n] = "user"]
      /\ proc' = [proc EXCEPT ![n] = n]
      /\ home' = [home EXCEPT ![n] = n]
      /\ local' = [local EXCEPT ![n] = NoLocal]
  BY DEF context_switch_init, LaunchBase, s
<1>4. /\ flag'[n] = 1 /\ image'[n].prog = "shell" /\ parent_pid'[n] = n
      /\ home'[n] = n /\ pc'[n] = "user" /\ local'[n].command = "none"
      /\ \A p \in Pid : p # n => /\ flag'[p] = flag[p] /\ home'[p] = home[p]
                                 /\ image'[p] = image[p]
                                 /\ parent_pid'[p] = parent_pid[p]
      /\ \A u \in Term : u # n => /\ pc'[u] = pc[u] /\ local'[u] = local[u]
                                  /\ proc'[u] = proc[u]
  BY <1>1, <1>2, <1>3 DEF Inductive, TypeOK, NoLocal
<1>5. \A p \in Pid : /\ Live(p) <=> flag[p] = 1
                     /\ Live(p)' <=> flag'[p] = 1
  BY <1>1, <1>3, <1>4, InterruptLive DEF Running
<1>6. Begins(n) /\ ProgramsKept
  BY <1>2, <1>3, <1>4, <1>5 DEF Begins, SameJobs, ProgramsKept
<1>7. Asked(n)'
  BY <1>4 DEF Asked, Launching, Halting
<1>8. AllAsked'
  BY <1>1, <1>4, <1>6, <1>7, InterruptAsked
<1> QED BY <1>2, <1>6, <1>8 DEF JobStep

\* Esc halts the last process of a terminal.
LEMMA esc_child_job ==
  ASSUME Discipline, Inductive, Inductive', AllAsked, esc_child
  PROVE  JobStep /\ AllAsked'
<1>1. s \in Term /\ pc[s] \in Running
  BY InterruptPoint DEF esc_child
<1>2. PICK x : x = current_pid
  OBVIOUS
<1>3. /\ x = proc[s] /\ x \in Pid /\ home[x] = s /\ Childless(x) /\ flag[x] = 1
      /\ esp[x] \in Pid /\ esp[x] # NoPid
  BY <1>1, <1>2, TopParent, Sizes DEF Inductive, Context, esc_child
<1>4. /\ s' = s
      /\ flag' = [flag EXCEPT ![x] = 0]
      /\ proc' = [proc EXCEPT ![s] = esp[x]]
      /\ local' = [local EXCEPT ![s] = NoLocal]
      /\ pc' = [pc EXCEPT ![s] = "user"]
      /\ UNCHANGED <<parent_pid, image, home>>
  BY <1>2, <1>3 DEF esc_child, Goto, pcb, s
<1>5. /\ pc'[s] = "user" /\ flag'[x] = 0 /\ local'[s].command = "none"
      /\ \A u \in Term : u # s => /\ pc'[u] = pc[u] /\ local'[u] = local[u]
                                  /\ proc'[u] = proc[u]
      /\ \A p \in Pid : p # x => flag'[p] = flag[p]
  BY <1>1, <1>3, <1>4 DEF Inductive, TypeOK, NoLocal
<1>6. \A p \in Pid : /\ Live(p) <=> flag[p] = 1
                     /\ Live(p)' <=> flag'[p] = 1
  BY <1>1, <1>4, <1>5, InterruptLive DEF Running
<1>7. Ends(x) /\ ProgramsKept
  BY <1>3, <1>4, <1>5, <1>6 DEF Ends, SameJobs, ProgramsKept
<1>8. Asked(s)'
  BY <1>4, <1>5 DEF Asked, Launching, Halting
<1>9. AllAsked'
  <2>1. PICK u : u = s
    OBVIOUS
  <2> QED BY <1>1, <1>4, <1>5, <1>7, <1>8, <2>1, InterruptAsked
<1> QED BY <1>3, <1>7, <1>9 DEF JobStep

\* Esc halts a first shell, and the same call starts it again.
LEMMA esc_base_job ==
  ASSUME Discipline, Inductive, Inductive', AllAsked, Shells, esc_base
  PROVE  JobStep /\ AllAsked'
<1> PICK n : n = s
  OBVIOUS
<1>1. n \in Term /\ pc[n] \in Running
  BY InterruptPoint DEF esc_base
<1>2. /\ current_pid = n /\ n \in Pid /\ ~Child(n) /\ flag[n] = 1
      /\ Live(n) /\ home[n] = n /\ parent_pid[n] = n /\ image[n].prog = "shell"
  BY <1>1, TopParent, Sizes
  DEF Inductive, Context, esc_base, Child, Shells
<1>3. /\ s' = n
      /\ flag' = [[flag EXCEPT ![n] = 0] EXCEPT ![n] = 1]
      /\ image' = [image EXCEPT ![n] = [owner |-> n, prog |-> "shell"]]
      /\ parent_pid' = [parent_pid EXCEPT ![n] = n]
      /\ pc' = [pc EXCEPT ![n] = "user"]
      /\ proc' = [proc EXCEPT ![n] = n]
      /\ home' = [home EXCEPT ![n] = n]
      /\ local' = [local EXCEPT ![n] = NoLocal]
  BY <1>2 DEF esc_base, LaunchBase, s
<1>4. /\ pc'[n] = "user" /\ local'[n].command = "none"
      /\ \A p \in Pid : /\ flag'[p] = flag[p] /\ home'[p] = home[p]
                        /\ image'[p].prog = image[p].prog
                        /\ parent_pid'[p] = parent_pid[p]
      /\ \A u \in Term : u # n => /\ pc'[u] = pc[u] /\ local'[u] = local[u]
                                  /\ proc'[u] = proc[u]
  BY <1>1, <1>2, <1>3 DEF Inductive, TypeOK, NoLocal
<1>5. \A p \in Pid : /\ Live(p) <=> flag[p] = 1
                     /\ Live(p)' <=> flag'[p] = 1
  BY <1>1, <1>3, <1>4, InterruptLive DEF Running
<1>6. Keeps /\ ProgramsKept
  BY <1>4, <1>5 DEF Keeps, SameJobs, ProgramsKept
<1>7. Asked(n)'
  BY <1>4 DEF Asked, Launching, Halting
<1>8. AllAsked'
  BY <1>1, <1>4, <1>6, <1>7, InterruptAsked
<1> QED BY <1>6, <1>8 DEF JobStep

-----------------------------------------------------------------------------
(* The refinement. *)

LEMMA InitLineage == Init => Lineage /\ Jobs!Init
<1> SUFFICES ASSUME Init
             PROVE  Lineage /\ Jobs!Init
  OBVIOUS
<1>1. Inductive
  BY InitInductive
<1>2. \A p \in Pid : ~Live(p)
  BY DEF Init, init_pid, Live
<1>3. Ranked
  <2>1. [p \in Pid |-> 0] \in [Pid -> Nat]
    OBVIOUS
  <2> QED BY <1>2, <2>1 DEF Ranked
<1>4. Shells
  BY <1>2 DEF Shells
<1>5. AllAsked
  <2>1. \A t \in Term : /\ pc[t] \in {"off", "boot"}
                        /\ local[t].command = "none"
    BY DEF Init, entry, NoLocal
  <2> QED BY <2>1 DEF AllAsked, Asked, Launching, Halting
<1>6. Jobs!Init
  BY <1>2 DEF Jobs!Init, LiveJobs, Init, init_pid
<1> QED BY <1>1, <1>3, <1>4, <1>5, <1>6 DEF Lineage

LEMMA KernelStepJob ==
  ASSUME Inductive, Inductive', AllAsked, NEW t \in Term, KernelStep(t)
  PROVE  JobStep /\ AllAsked'
BY sys_execute_reject_job, sys_execute_base_job, sys_execute_pick_job,
   sys_execute_full_job, sys_execute_take_job, sys_execute_moves_job,
   sys_execute_load_job, sys_execute_pcb_job, sys_execute_iret_job,
   sys_halt_free_job, sys_halt_moves_job, sys_halt_return_job
DEF KernelStep

LEMMA NextJob ==
  ASSUME Discipline, Lineage, Inductive', Next
  PROVE  JobStep /\ AllAsked'
<1>0. Inductive /\ AllAsked /\ Shells
  BY DEF Lineage
<1>1. ASSUME NEW t \in Term, KernelStep(t)
      PROVE  JobStep /\ AllAsked'
  BY <1>0, <1>1, KernelStepJob
<1>2. ASSUME NEW t \in Term, shell_exit(t) \/ program_halt(t)
      PROVE  JobStep /\ AllAsked'
  BY <1>0, <1>2, sys_halt_job DEF shell_exit, program_halt, At, s
<1>3. ASSUME NEW t \in Term, ShellStep(t) \/ ProgramStep(t)
      PROVE  JobStep /\ AllAsked'
  BY <1>0, <1>2, <1>3, terminal_read_job, do_exception_job
  DEF ShellStep, ProgramStep
<1>4. CASE do_pit_handler
  BY <1>0, <1>4, context_switch_init_job, context_switch_resume_job
  DEF do_pit_handler
<1>5. CASE UserInput
  BY <1>0, <1>5, display_job, esc_child_job, esc_base_job DEF UserInput
<1> QED BY <1>1, <1>3, <1>4, <1>5 DEF Next

\* Every step of the kernel is a step of JobControl, and keeps what the next
\* step needs.
LEMMA StepRefines ==
  ASSUME Discipline, Lineage, [Next]_vars
  PROVE  Lineage' /\ [Jobs!Next]_(Jobs!vars)
<1>0. Inductive /\ Ranked /\ AllAsked /\ Shells
  BY DEF Lineage
<1>1. CASE Next
  <2>1. Inductive'
    BY <1>0, <1>1, NextInductive
  <2>2. JobStep /\ AllAsked'
    BY <1>1, <2>1, NextJob
  <2>3. Ranked' /\ Shells'
    BY <1>0, <2>2, JobStepKeeps
  <2>4. Jobs!Next
    BY <1>0, <2>1, <2>2, JobStepIsNext
  <2> QED BY <2>1, <2>2, <2>3, <2>4 DEF Lineage
<1>2. CASE UNCHANGED vars
  <2>1. Inductive'
    BY <1>0, <1>2, StutterInductive
  <2>2. UNCHANGED <<flag, home, parent_pid, image, pc, local, proc,
                    scheduled_terminal>> /\ s' = s
    BY <1>2 DEF vars, kernel, pcb, machine, threads, s
  <2>3. Keeps
    BY <1>0, <2>1, <2>2, QuietJobs
  <2>4. Ranked' /\ Shells'
    BY <1>0, <2>3, JobStepKeeps DEF JobStep
  <2>5. AllAsked'
    BY <1>0, <2>2 DEF AllAsked, Asked
  <2>6. UNCHANGED Jobs!vars
    BY <2>2, <2>3, JobsKept DEF Keeps, Jobs!vars
  <2> QED BY <2>1, <2>4, <2>5, <2>6 DEF Lineage
<1> QED BY <1>1, <1>2

\* With interrupts held off in sys_execute and sys_halt, and a user who leaves
\* a terminal only when its command has started, the kernel implements
\* JobControl for every number of terminals and of processes.
THEOREM JobControlImplemented == Discipline => (Spec => ImplementsJobControl)
<1> SUFFICES ASSUME Discipline
             PROVE  Spec => ImplementsJobControl
  OBVIOUS
<1>1. Lineage /\ [Next]_vars => Lineage' /\ [Jobs!Next]_(Jobs!vars)
  BY StepRefines
<1> QED
  BY <1>1, InitLineage, PTL DEF Spec, ImplementsJobControl, Jobs!Spec
=============================================================================

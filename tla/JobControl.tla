----------------------------- MODULE JobControl -----------------------------
(***************************************************************************)
(* What the kernel promises about processes: every terminal has one line   *)
(* of jobs.  The first is a shell, started anew when it ends, each other   *)
(* was started by the shell before it, and only the last one works, when   *)
(* its terminal has the CPU.                                               *)
(***************************************************************************)
EXTENDS Integers, FiniteSets

CONSTANTS Terminal, Id, MaxJobs

VARIABLES
  jobs,        \* records: id, terminal, parent, program
  running      \* the terminal that has the CPU

vars == <<jobs, running>>

Ids       == {j.id : j \in jobs}
JobsOf(t) == {j \in jobs : j.terminal = t}

\* The job that waits for no other.
Last(t) == {j \in JobsOf(t) : \A k \in JobsOf(t) : k.parent = j.id => k = j}

Job(id, t, parent, program) ==
  [id |-> id, terminal |-> t, parent |-> parent, program |-> program]

Init == jobs = {} /\ running = 0

\* A terminal without a job gets its shell, which has the terminal's number.
Boot(t) ==
  /\ JobsOf(t) = {}
  /\ jobs' = jobs \cup {Job(t, t, t, "shell")}
  /\ running' = t

\* The shell at the end of a line starts a program, under an id of no job.
Start(t, id, program) ==
  /\ running = t
  /\ Cardinality(jobs) < MaxJobs
  /\ id \notin Ids \cup Terminal
  /\ \E j \in Last(t) :
       /\ j.program = "shell"
       /\ jobs' = jobs \cup {Job(id, t, j.id, program)}
  /\ UNCHANGED running

\* The job at the end of a line ends.
End(t) ==
  /\ running = t
  /\ \E j \in Last(t) : jobs' = jobs \ {j}
  /\ UNCHANGED running

Switch(t) == running' = t /\ UNCHANGED jobs

Next ==
  \E t \in Terminal :
    \/ Boot(t) \/ End(t) \/ Switch(t)
    \/ \E id \in Id, program \in {"shell", "app"} : Start(t, id, program)

Spec == Init /\ [][Next]_vars
=============================================================================

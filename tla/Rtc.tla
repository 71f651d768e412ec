--------------------------------- MODULE Rtc ---------------------------------
(***************************************************************************)
(* The real-time clock driver (student-distrib/rtc.c) and the device it    *)
(* programs through an index port and a data port.  Processes of different *)
(* terminals share the device; the timer interleaves their system calls    *)
(* and the clock's own interrupt uses the same index port.  They share the *)
(* masks of the i8259 (i8259.c) too, which read_rtc and every putc change  *)
(* without looking at what they were.                                      *)
(*                                                                         *)
(* A register is the set of its bits that are 1, so "|" is union.          *)
(***************************************************************************)
EXTENDS Integers

CONSTANTS
  TERMINAL_NUM,
  Freq,        \* frequencies that programs write
  OpenMasked   \* no interrupt is delivered inside init_rtc; FALSE in the code

Term == 0 .. TERMINAL_NUM - 1

ASSUME RtcAssumption ==
  /\ TERMINAL_NUM \in Nat \ {0}
  /\ Freq \subseteq Nat
  /\ OpenMasked \in BOOLEAN

VARIABLES
  \* the device
  index,           \* register selected with port 0x70
  reg,             \* registers A, B and C
  irq,             \* the i8259 holds a request of the clock
  \* the driver
  curr_interrupt,
  master, slave,   \* lines that are masked in the two chips of the i8259
  scheduled_terminal,
  pc,              \* where the process of terminal t is in the driver
  prev,            \* its local variable in init_rtc
  \* history
  opened,          \* the process of terminal t has the clock open
  served,          \* while t waits: what has reset its flag
  asked            \* the frequency the last successful call asked for, or 0

device  == <<index, reg, irq>>
threads == <<pc, prev, scheduled_terminal>>
masks   == <<master, slave>>
history == <<opened, served, asked>>
vars == <<device, curr_interrupt, masks, threads, history>>

PIT_IRQ == 0
KEYBOARD_IRQ == 1
RTC_IRQ == 8

INIT_RATE == 2
MAGIC     == 32768

Bits(n) == {b \in 0 .. 3 : (n \div 2^b) % 2 = 1}

\* Divider 010 in bits 4-6 of register A, which the firmware sets; rate 6.
\* The masks are those that the last clear of the kernel's start leaves.
Init ==
  /\ index = "A"
  /\ reg = [A |-> {5} \cup Bits(6), B |-> {1}, C |-> {}]
  /\ irq = FALSE
  /\ curr_interrupt = [t \in Term |-> -1]
  /\ master = 3 .. 7 /\ slave = {1} \cup 3 .. 7
  /\ scheduled_terminal = 0
  /\ pc = [t \in Term |-> "user"]
  /\ prev = [t \in Term |-> {}]
  /\ opened = [t \in Term |-> FALSE]
  /\ served = [t \in Term |-> {}]
  /\ asked = 0

-----------------------------------------------------------------------------
\* freq << shift = MAGIC; the rate is one more, cut to four bits.
calculate_rate(freq) ==
  ((CHOOSE shift \in 0 .. 15 : freq * 2^shift = MAGIC) + 1) % 16

\* A power of two; write_rtc has already bounded it by LARGEST_FREQ = 1024.
check_param(freq) == \E i \in 0 .. 10 : freq = 2^i

\* The frequency the device runs at: 0 when the divider or the rate stops it.
Running   == 6 \in reg.B /\ reg.A \cap 4 .. 6 = {5} /\ reg.A \cap 0 .. 3 # {}
Frequency ==
  IF Running
  THEN MAGIC \div 2^((CHOOSE n \in 1 .. 15 : Bits(n) = reg.A \cap 0 .. 3) - 1)
  ELSE 0

-----------------------------------------------------------------------------
(* The masks.  Both read the mask of the master, whichever they then write. *)

enable_irq(irq_num) ==
  IF irq_num <= 7
  THEN master' = master \ {irq_num} /\ UNCHANGED slave
  ELSE slave' = master \ {irq_num - 8} /\ UNCHANGED master

disable_irq(irq_num) ==
  IF irq_num <= 7
  THEN master' = master \cup {irq_num} /\ UNCHANGED slave
  ELSE slave' = master \cup {irq_num - 8} /\ UNCHANGED master

Delivered(irq_num) ==
  IF irq_num <= 7 THEN irq_num \notin master ELSE irq_num - 8 \notin slave

-----------------------------------------------------------------------------
(* Port accesses of init_rtc by the process of terminal t. *)

At(t, point) == scheduled_terminal = t /\ pc[t] = point

Goto(t, point) == pc' = [pc EXCEPT ![t] = point]

\* outb(r, PORT0)
Select(t, from, r, to) ==
  /\ At(t, from) /\ Goto(t, to)
  /\ index' = r
  /\ UNCHANGED <<reg, irq, curr_interrupt, masks, prev,
                 scheduled_terminal, history>>

\* prev = inb(PORT1); reading register C clears it.
Fetch(t, from, to) ==
  /\ At(t, from) /\ Goto(t, to)
  /\ prev' = [prev EXCEPT ![t] = reg[index]]
  /\ reg' = [reg EXCEPT !.C = IF index = "C" THEN {} ELSE @]
  /\ UNCHANGED <<index, irq, curr_interrupt, masks, scheduled_terminal,
                 history>>

\* outb(prev | bits, PORT1); register C is read only.
Store(t, from, bits, to) ==
  /\ At(t, from) /\ Goto(t, to)
  /\ reg' = IF index = "C" THEN reg
            ELSE [reg EXCEPT ![index] = prev[t] \cup bits]
  /\ UNCHANGED <<index, irq, curr_interrupt, masks, prev,
                 scheduled_terminal, history>>

Opening == {"b_fetch", "b_again", "b_store", "a_select", "a_fetch", "a_again",
            "a_last", "a_store", "o_flags"}

init_rtc(t) ==
  \/ Select(t, "user", "B", "b_fetch")
  \/ Fetch(t, "b_fetch", "b_again")
  \/ Select(t, "b_again", "B", "b_store")
  \/ Store(t, "b_store", {6}, "a_select")
  \/ Select(t, "a_select", "A", "a_fetch")
  \/ Fetch(t, "a_fetch", "a_again")
  \/ Select(t, "a_again", "A", "a_last")
  \/ Select(t, "a_last", "A", "a_store")
  \/ Store(t, "a_store", Bits(calculate_rate(INIT_RATE)), "o_flags")

Reset(event) ==
  /\ curr_interrupt' = [t \in Term |-> 0]
  /\ served' = [t \in Term |->
       IF pc[t] = "r_wait" THEN served[t] \cup {event} ELSE {}]

\* init_rtc ends by resetting the flags of all terminals, which wakes their
\* readers as the clock would.
open_rtc(t) ==
  /\ At(t, "o_flags") /\ Goto(t, "user")
  /\ Reset("open")
  /\ prev' = [prev EXCEPT ![t] = {}]
  /\ enable_irq(RTC_IRQ)
  /\ opened' = [opened EXCEPT ![t] = TRUE]
  /\ asked' = INIT_RATE
  /\ UNCHANGED <<device, scheduled_terminal>>

-----------------------------------------------------------------------------
(* read_rtc: disable the keyboard, set the flag, wait, enable the keyboard. *)

read_rtc_mask(t) ==
  /\ At(t, "user") /\ opened[t] /\ Goto(t, "r_flag")
  /\ disable_irq(KEYBOARD_IRQ)
  /\ UNCHANGED <<device, curr_interrupt, prev, scheduled_terminal, history>>

\* Mutant: the flag is not set, so it is only clear before the first read.
read_rtc_flag_once(t) ==
  /\ At(t, "r_flag") /\ Goto(t, "r_wait")
  /\ UNCHANGED <<device, curr_interrupt, masks, prev, scheduled_terminal,
                 history>>

read_rtc_flag(t) ==
  /\ At(t, "r_flag") /\ Goto(t, "r_wait")
  /\ curr_interrupt' = [curr_interrupt EXCEPT ![scheduled_terminal] = 1]
  /\ UNCHANGED <<device, masks, prev, scheduled_terminal, history>>

\* Mutant: the keyboard stays disabled.
read_rtc_return_masked(t) ==
  /\ At(t, "r_wait") /\ curr_interrupt[scheduled_terminal] # 1
  /\ Goto(t, "user")
  /\ served' = [served EXCEPT ![t] = {}]
  /\ UNCHANGED <<device, curr_interrupt, masks, prev, scheduled_terminal,
                 opened, asked>>

read_rtc_return(t) ==
  /\ At(t, "r_wait") /\ curr_interrupt[scheduled_terminal] # 1
  /\ Goto(t, "user")
  /\ enable_irq(KEYBOARD_IRQ)
  /\ served' = [served EXCEPT ![t] = {}]
  /\ UNCHANGED <<device, curr_interrupt, prev, scheduled_terminal, opened,
                 asked>>

\* Mutant: the bits of register A above the rate are lost.
write_rtc_drop_divider(t, freq) ==
  /\ At(t, "user") /\ opened[t]
  /\ freq <= 1024 /\ freq > 0 /\ check_param(freq)
  /\ index' = "A"
  /\ reg' = [reg EXCEPT !.A = Bits(calculate_rate(freq))]
  /\ asked' = freq
  /\ UNCHANGED <<irq, curr_interrupt, masks, threads, opened,
                 served>>

\* write_rtc runs between cli and sti.  With an invalid frequency it changes
\* nothing of the device and prints a message, by putc as in terminal_write.
write_rtc(t, freq) ==
  /\ At(t, "user") /\ opened[t]
  /\ freq <= 1024 /\ freq > 0 /\ check_param(freq)
  /\ index' = "A"
  /\ reg' = [reg EXCEPT !.A = (@ \cap 4 .. 7) \cup Bits(calculate_rate(freq))]
  /\ asked' = freq
  /\ UNCHANGED <<irq, curr_interrupt, masks, threads, opened,
                 served>>

-----------------------------------------------------------------------------
(* terminal_write, and the putc of each of its characters, disable the three
   lines and enable them again.  disable_irq and enable_irq end with sti, so
   an interrupt of a line that is still or again enabled comes in between. *)

Mask(t, from, irq_num, to) ==
  /\ At(t, from) /\ Goto(t, to)
  /\ disable_irq(irq_num)
  /\ UNCHANGED <<device, curr_interrupt, prev, scheduled_terminal, history>>

Unmask(t, from, irq_num, to) ==
  /\ At(t, from) /\ Goto(t, to)
  /\ enable_irq(irq_num)
  /\ UNCHANGED <<device, curr_interrupt, prev, scheduled_terminal, history>>

Writing == {"w_irq0", "w_irq1", "w_irq8", "p_irq0", "p_irq1", "p_irq8",
            "s_irq0", "s_irq1", "s_irq8", "s_end8", "s_end1", "s_end0",
            "p_end8", "p_end1", "p_end0", "w_end8", "w_end1", "w_end0"}

write_called(t) ==
  /\ At(t, "user") /\ Goto(t, "w_irq0")
  /\ UNCHANGED <<device, curr_interrupt, masks, prev, scheduled_terminal,
                 history>>

terminal_write(t) ==
  \/ Mask(t, "w_irq0", PIT_IRQ, "w_irq1")
  \/ Mask(t, "w_irq1", KEYBOARD_IRQ, "w_irq8")
  \/ Mask(t, "w_irq8", RTC_IRQ, "p_irq0")
  \/ Unmask(t, "w_end8", RTC_IRQ, "w_end1")
  \/ Unmask(t, "w_end1", KEYBOARD_IRQ, "w_end0")
  \/ Unmask(t, "w_end0", PIT_IRQ, "user")

putc(t) ==
  \/ Mask(t, "p_irq0", PIT_IRQ, "p_irq1")
  \/ Mask(t, "p_irq1", KEYBOARD_IRQ, "p_irq8")
  \/ \E next \in {"p_end8", "s_irq0"} : Mask(t, "p_irq8", RTC_IRQ, next)
  \/ Unmask(t, "p_end8", RTC_IRQ, "p_end1")
  \/ Unmask(t, "p_end1", KEYBOARD_IRQ, "p_end0")
  \/ \E next \in {"p_irq0", "w_end8"} : Unmask(t, "p_end0", PIT_IRQ, next)

\* Inside the section of putc, when the cursor leaves the last row.
scroll(t) ==
  \/ Mask(t, "s_irq0", PIT_IRQ, "s_irq1")
  \/ Mask(t, "s_irq1", KEYBOARD_IRQ, "s_irq8")
  \/ Mask(t, "s_irq8", RTC_IRQ, "s_end8")
  \/ Unmask(t, "s_end8", RTC_IRQ, "s_end1")
  \/ Unmask(t, "s_end1", KEYBOARD_IRQ, "s_end0")
  \/ Unmask(t, "s_end0", PIT_IRQ, "p_end8")

-----------------------------------------------------------------------------
(* The device and the interrupts. *)

Interruptible(irq_num) ==
  /\ Delivered(irq_num)
  /\ OpenMasked => pc[scheduled_terminal] \notin Opening

\* A period has passed: register C holds the cause until it is read.
tick ==
  /\ Running /\ reg.C = {}
  /\ reg' = [reg EXCEPT !.C = {6, 7}]
  /\ irq' = TRUE
  /\ UNCHANGED <<index, curr_interrupt, masks, threads, history>>

\* Mutant: only the first terminal is woken.
do_rtc_handler_one ==
  /\ irq /\ Interruptible(RTC_IRQ)
  /\ irq' = FALSE
  /\ index' = "C"
  /\ reg' = [reg EXCEPT !.C = {}]
  /\ curr_interrupt' = [curr_interrupt EXCEPT ![0] = 0]
  /\ UNCHANGED <<masks, threads, history>>

\* Flush register C and wake the readers of all terminals.
do_rtc_handler ==
  /\ irq /\ Interruptible(RTC_IRQ)
  /\ irq' = FALSE
  /\ index' = "C"
  /\ reg' = [reg EXCEPT !.C = {}]
  /\ Reset("interrupt")
  /\ UNCHANGED <<masks, threads, opened, asked>>

\* Mutant: the rotation does not start again.
schedule_no_wrap ==
  /\ Interruptible(PIT_IRQ)
  /\ scheduled_terminal' = scheduled_terminal + 1
  /\ UNCHANGED <<device, curr_interrupt, masks, pc, prev, history>>

schedule ==
  /\ Interruptible(PIT_IRQ)
  /\ scheduled_terminal' = (scheduled_terminal + 1) % TERMINAL_NUM
  /\ UNCHANGED <<device, curr_interrupt, masks, pc, prev, history>>

\* Esc halts the scheduled process, wherever it is in the driver; the shell
\* that started it, or the new one, writes its prompt.
esc_pressed ==
  /\ Interruptible(KEYBOARD_IRQ)
  /\ Goto(scheduled_terminal, "w_irq0")
  /\ prev' = [prev EXCEPT ![scheduled_terminal] = {}]
  /\ opened' = [opened EXCEPT ![scheduled_terminal] = FALSE]
  /\ served' = [served EXCEPT ![scheduled_terminal] = {}]
  /\ UNCHANGED <<device, curr_interrupt, masks, scheduled_terminal, asked>>

\* A character is typed and its putc, in the handler, enables the three lines.
key_pressed ==
  /\ Interruptible(KEYBOARD_IRQ)
  /\ master' = master \ {PIT_IRQ, KEYBOARD_IRQ}
  /\ slave' = (master \cup {PIT_IRQ, KEYBOARD_IRQ}) \ {RTC_IRQ - 8}
  /\ UNCHANGED <<device, curr_interrupt, threads, history>>

-----------------------------------------------------------------------------
DriverStep(t) ==
  \/ open_rtc(t) \/ read_rtc_flag(t) \/ read_rtc_return(t)
  \/ pc[t] # "user" /\ init_rtc(t)
  \/ terminal_write(t) \/ putc(t) \/ scroll(t)

Call(t) ==
  \/ pc[t] = "user" /\ init_rtc(t)
  \/ read_rtc_mask(t) \/ write_called(t)
  \/ \E freq \in Freq : write_rtc(t, freq)

Next ==
  \/ \E t \in Term : DriverStep(t) \/ Call(t)
  \/ tick \/ do_rtc_handler \/ schedule \/ esc_pressed \/ key_pressed

Spec == Init /\ [][Next]_vars

\* The clock ticks and its request is held until it is served; the timer keeps
\* rotating the terminals, and a process that is scheduled makes progress.
\* Esc is not pressed for ever: no key repeats fast enough to be always there
\* before the shell's prompt has enabled the timer.
Fairness ==
  /\ WF_vars(tick) /\ SF_vars(do_rtc_handler) /\ SF_vars(schedule)
  /\ \A t \in Term : SF_vars(DriverStep(t))
  /\ <>[][~esc_pressed]_vars

FairSpec == Spec /\ Fairness

-----------------------------------------------------------------------------
\* Every variable has its type.
TypeOK ==
  /\ index \in {"A", "B", "C"}
  /\ reg \in [A : SUBSET (0 .. 7), B : SUBSET (0 .. 7), C : SUBSET (0 .. 7)]
  /\ irq \in BOOLEAN
  /\ master \subseteq 0 .. 7 /\ slave \subseteq 0 .. 7
  /\ curr_interrupt \in [Term -> {-1, 0, 1}]
  /\ scheduled_terminal \in Term
  /\ pc \in [Term -> {"user", "r_flag", "r_wait"} \cup Opening \cup Writing]
  /\ prev \in [Term -> SUBSET (0 .. 7)]
  /\ opened \in [Term -> BOOLEAN]
  /\ served \in [Term -> SUBSET {"interrupt", "open"}]
  /\ asked \in Freq \cup {0, INIT_RATE}

Quiet == \A t \in Term : pc[t] \notin Opening

\* init_rtc and write_rtc: between calls the clock runs at the frequency that
\* the last call to succeed has asked for.
FrequencySet == asked # 0 /\ Quiet => Frequency = asked

\* read_rtc, terminal_write and putc: when no process is in one of them, the
\* timer, the keyboard and the clock are enabled, whatever interrupted them.
LinesBack ==
  (\A t \in Term : pc[t] = "user")
    => \A irq_num \in {PIT_IRQ, KEYBOARD_IRQ, RTC_IRQ} : Delivered(irq_num)

\* If read_rtc returns to t, one of the events in S has reset its flag.
ReturnsAfter(t, S) ==
  pc[t] = "r_wait" /\ pc'[t] = "user" => served[t] \cap S # {}

\* read_rtc: a reader waits until its flag is reset by an event that came after
\* it set it, however the readers, openers and terminals interleave.  The event
\* is an interrupt of the clock, or else an open of the clock by a process of
\* another terminal: rtc.c promises the first only, see ReadBlocks.
ReadWaits ==
  [][\A t \in Term : ReturnsAfter(t, {"interrupt", "open"})]_vars

\* A process in read_rtc leaves it: the interrupt of the clock reaches it, on
\* whatever terminal it waits, and whatever others do with the masks.
ReadReturns == \A t \in Term : pc[t] = "r_wait" ~> pc[t] # "r_wait"

\* What the comment on read_rtc says, and the code does not do: it blocks
\* "until the next interrupt arrives".
ReadBlocks == [][\A t \in Term : ReturnsAfter(t, {"interrupt"})]_vars
=============================================================================

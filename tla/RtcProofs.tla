------------------------------ MODULE RtcProofs ------------------------------
(***************************************************************************)
(* Proofs about Rtc.  The masks of the i8259 do not nest, and an interrupt *)
(* or the Esc key can come between any two steps: Masks says, for each of  *)
(* the three lines, which points of which thread still lead to the step    *)
(* that enables it.  Setting says how far init_rtc has programmed the      *)
(* device, for the case that it is not interrupted (OpenMasked).           *)
(***************************************************************************)
EXTENDS Rtc, TLAPS

USE RtcAssumption

\* The points from which a thread still gets to the step that enables the
\* keyboard, and to the one that enables the clock.
KeyboardPoints == {"r_flag", "r_wait"} \cup (Writing \ {"w_end0"})
ClockPoints == Writing \ {"w_end1", "w_end0"}

\* Whoever holds the timer back is scheduled.  The other two lines may be held
\* back by a thread that the timer has interrupted.
TimerHeld    == PIT_IRQ \in master => pc[scheduled_terminal] \in Writing
KeyboardHeld ==
  KEYBOARD_IRQ \in master => \E t \in Term : pc[t] \in KeyboardPoints
ClockHeld    == RTC_IRQ - 8 \in slave => \E t \in Term : pc[t] \in ClockPoints

Masks == TimerHeld /\ KeyboardHeld /\ ClockHeld

\* A reader that need not wait any longer has been served.
Served ==
  \A t \in Term : pc[t] = "r_wait" /\ curr_interrupt[t] # 1 => served[t] # {}

-----------------------------------------------------------------------------
(* Types. *)

Points == {"user", "r_flag", "r_wait"} \cup Opening \cup Writing

LEMMA BitsType == \A n : Bits(n) \subseteq 0 .. 7
  BY DEF Bits

LEMMA TypeInit == Init => TypeOK
<1> SUFFICES ASSUME Init PROVE TypeOK
  OBVIOUS
<1>1. 0 \in Term
  BY DEF Term
<1>2. reg \in [A : SUBSET (0 .. 7), B : SUBSET (0 .. 7), C : SUBSET (0 .. 7)]
  BY BitsType DEF Init
<1>3. master \subseteq 0 .. 7 /\ slave \subseteq 0 .. 7
  BY DEF Init
<1> QED
  BY <1>1, <1>2, <1>3 DEF Init, TypeOK

LEMMA enable_irq_type ==
  ASSUME TypeOK, NEW irq_num \in {PIT_IRQ, KEYBOARD_IRQ, RTC_IRQ},
         enable_irq(irq_num)
  PROVE  master' \subseteq 0 .. 7 /\ slave' \subseteq 0 .. 7
  BY DEF TypeOK, enable_irq

\* A mask with one more line is a mask.
LEMMA LineAdded ==
  ASSUME NEW lines \in SUBSET (0 .. 7), NEW n \in 0 .. 7
  PROVE  lines \cup {n} \subseteq 0 .. 7
  OBVIOUS

LEMMA disable_irq_type ==
  ASSUME TypeOK, NEW irq_num \in {PIT_IRQ, KEYBOARD_IRQ, RTC_IRQ},
         disable_irq(irq_num)
  PROVE  master' \subseteq 0 .. 7 /\ slave' \subseteq 0 .. 7
<1>1. irq_num \in {0, 1, 8}
  BY DEF PIT_IRQ, KEYBOARD_IRQ, RTC_IRQ
<1>2. master \in SUBSET (0 .. 7) /\ slave \in SUBSET (0 .. 7)
  BY DEF TypeOK
<1>3. CASE irq_num = 8
  BY <1>2, <1>3, LineAdded, 0 \in 0 .. 7 DEF disable_irq
<1>4. CASE irq_num \in {0, 1}
  BY <1>2, <1>4, LineAdded, irq_num \in 0 .. 7 DEF disable_irq
<1> QED BY <1>1, <1>3, <1>4

LEMMA Select_type ==
  ASSUME TypeOK, NEW t \in Term, NEW from, NEW r \in {"A", "B", "C"},
         NEW to \in Points, Select(t, from, r, to)
  PROVE  TypeOK'
  BY DEF TypeOK, Select, Goto, masks, history, Points

LEMMA Fetch_type ==
  ASSUME TypeOK, NEW t \in Term, NEW from, NEW to \in Points,
         Fetch(t, from, to)
  PROVE  TypeOK'
  BY DEF TypeOK, Fetch, Goto, masks, history, Points

LEMMA Store_type ==
  ASSUME TypeOK, NEW t \in Term, NEW from, NEW bits \in SUBSET (0 .. 7),
         NEW to \in Points, Store(t, from, bits, to)
  PROVE  TypeOK'
  BY DEF TypeOK, Store, Goto, masks, history, Points

LEMMA Mask_type ==
  ASSUME TypeOK, NEW t \in Term, NEW from,
         NEW irq_num \in {PIT_IRQ, KEYBOARD_IRQ, RTC_IRQ},
         NEW to \in Points, Mask(t, from, irq_num, to)
  PROVE  TypeOK'
  BY disable_irq_type DEF TypeOK, Mask, Goto, device, history, Points

LEMMA Unmask_type ==
  ASSUME TypeOK, NEW t \in Term, NEW from,
         NEW irq_num \in {PIT_IRQ, KEYBOARD_IRQ, RTC_IRQ},
         NEW to \in Points, Unmask(t, from, irq_num, to)
  PROVE  TypeOK'
  BY enable_irq_type DEF TypeOK, Unmask, Goto, device, history, Points

LEMMA init_rtc_type ==
  ASSUME TypeOK, NEW t \in Term, init_rtc(t)
  PROVE  TypeOK'
<1>1. Opening \subseteq Points
  BY DEF Points
<1>2. {6} \in SUBSET (0 .. 7)
  OBVIOUS
<1>3. Bits(calculate_rate(INIT_RATE)) \in SUBSET (0 .. 7)
  BY BitsType
<1> QED
  BY <1>1, <1>2, <1>3, Select_type, Fetch_type, Store_type
  DEF init_rtc, Opening

LEMMA writing_type ==
  ASSUME TypeOK, NEW t \in Term, terminal_write(t) \/ putc(t) \/ scroll(t)
  PROVE  TypeOK'
<1>1. Writing \subseteq Points /\ "user" \in Points
  BY DEF Points
<1>2. CASE terminal_write(t)
  BY <1>1, <1>2, Mask_type, Unmask_type DEF terminal_write, Writing
<1>3. CASE putc(t)
  BY <1>1, <1>3, Mask_type, Unmask_type DEF putc, Writing
<1>4. CASE scroll(t)
  BY <1>1, <1>4, Mask_type, Unmask_type DEF scroll, Writing
<1> QED BY <1>2, <1>3, <1>4

LEMMA Reset_type ==
  ASSUME TypeOK, NEW event \in {"interrupt", "open"}, Reset(event)
  PROVE  /\ curr_interrupt' \in [Term -> {-1, 0, 1}]
         /\ served' \in [Term -> SUBSET {"interrupt", "open"}]
  BY DEF TypeOK, Reset

LEMMA NextType == TypeOK /\ [Next]_vars => TypeOK'
<1> SUFFICES ASSUME TypeOK, [Next]_vars PROVE TypeOK'
  OBVIOUS
<1>a. RTC_IRQ \in {PIT_IRQ, KEYBOARD_IRQ, RTC_IRQ}
  /\ KEYBOARD_IRQ \in {PIT_IRQ, KEYBOARD_IRQ, RTC_IRQ}
  OBVIOUS
<1>1. ASSUME NEW t \in Term, open_rtc(t) PROVE TypeOK'
  BY <1>1, <1>a, enable_irq_type, Reset_type
  DEF TypeOK, open_rtc, Goto, device, INIT_RATE
<1>2. ASSUME NEW t \in Term, read_rtc_flag(t) PROVE TypeOK'
  BY <1>2 DEF TypeOK, read_rtc_flag, Goto, device, masks, history
<1>3. ASSUME NEW t \in Term, read_rtc_return(t) PROVE TypeOK'
  BY <1>3, <1>a, enable_irq_type
  DEF TypeOK, read_rtc_return, Goto, device
<1>4. ASSUME NEW t \in Term, read_rtc_mask(t) PROVE TypeOK'
  BY <1>4, <1>a, disable_irq_type
  DEF TypeOK, read_rtc_mask, Goto, device, history
<1>5. ASSUME NEW t \in Term, write_called(t) PROVE TypeOK'
  BY <1>5 DEF TypeOK, write_called, Goto, device, masks, history, Writing
<1>6. ASSUME NEW t \in Term, NEW freq \in Freq, write_rtc(t, freq)
      PROVE  TypeOK'
  BY <1>6, BitsType DEF TypeOK, write_rtc, masks, threads
<1>7. CASE tick
  BY <1>7 DEF TypeOK, tick, masks, threads, history
<1>8. CASE do_rtc_handler
  BY <1>8, Reset_type DEF TypeOK, do_rtc_handler, masks, threads
<1>9. CASE schedule
  <2>1. scheduled_terminal' \in Term
    BY <1>9 DEF TypeOK, schedule, Term
  <2> QED BY <1>9, <2>1 DEF TypeOK, schedule, device, masks, history
<1>10. CASE esc_pressed
  BY <1>10 DEF TypeOK, esc_pressed, Goto, device, masks, Writing
<1>11. CASE key_pressed
  <2>1. master' \subseteq 0 .. 7 /\ slave' \subseteq 0 .. 7
    <3>1. master \in SUBSET (0 .. 7)
      BY DEF TypeOK
    <3> QED
      BY <1>11, <3>1 DEF key_pressed, PIT_IRQ, KEYBOARD_IRQ, RTC_IRQ
  <2> QED BY <1>11, <2>1 DEF TypeOK, key_pressed, device, threads, history
<1>12. CASE UNCHANGED vars
  BY <1>12 DEF TypeOK, vars, device, masks, threads, history
<1> QED
  BY <1>1, <1>2, <1>3, <1>4, <1>5, <1>6, <1>7, <1>8, <1>9, <1>10, <1>11,
     <1>12, init_rtc_type, writing_type
  DEF Next, DriverStep, Call

\* The registers, the masks and the threads of the driver keep their types,
\* for any number of terminals and any frequencies that programs write.
THEOREM RtcTypeCorrect == Spec => []TypeOK
<1> QED BY TypeInit, NextType, PTL DEF Spec

-----------------------------------------------------------------------------
(* The masks. *)

\* A thread that arrives at a point before both enabling steps keeps Masks,
\* whatever the step does to the masks.
LEMMA ArrivesEarly ==
  ASSUME TypeOK, NEW t \in Term, NEW to \in ClockPoints,
         Goto(t, to), scheduled_terminal = t, UNCHANGED scheduled_terminal
  PROVE  Masks'
<1>1. pc'[t] = to
  BY DEF TypeOK, Goto
<1>2. to \in Writing /\ to \in KeyboardPoints
  BY DEF ClockPoints, KeyboardPoints
<1> QED
  BY <1>1, <1>2 DEF Masks, TimerHeld, KeyboardHeld, ClockHeld

\* A step that leaves the masks alone, and by which the scheduled thread does
\* not leave the points that Masks is about, keeps Masks.
LEMMA MasksKept ==
  ASSUME TypeOK, Masks, NEW t \in Term, scheduled_terminal = t, NEW to,
         Goto(t, to), UNCHANGED scheduled_terminal, UNCHANGED masks,
         pc[t] \notin Writing,
         pc[t] \in KeyboardPoints => to \in KeyboardPoints
  PROVE  Masks'
<1>1. /\ pc'[t] = to
      /\ \A u \in Term \ {t} : pc'[u] = pc[u]
      /\ master' = master /\ slave' = slave
  BY DEF TypeOK, Goto, masks
<1>2. pc[t] \notin ClockPoints
  BY DEF ClockPoints
<1>3. TimerHeld'
  BY <1>1 DEF Masks, TimerHeld
<1>4. KeyboardHeld'
  BY <1>1 DEF Masks, KeyboardHeld
<1>5. ClockHeld'
  BY <1>1, <1>2 DEF Masks, ClockHeld
<1> QED BY <1>3, <1>4, <1>5 DEF Masks

LEMMA terminal_write_masks ==
  ASSUME TypeOK, Masks, NEW t \in Term, terminal_write(t)
  PROVE  Masks'
<1>1. ASSUME NEW from, NEW irq_num, NEW to \in ClockPoints,
             Mask(t, from, irq_num, to)
      PROVE  Masks'
  BY <1>1, ArrivesEarly DEF Mask, At
<1>2. {"w_irq1", "w_irq8", "p_irq0"} \subseteq ClockPoints
  BY DEF ClockPoints, Writing
<1>3. CASE Unmask(t, "w_end8", RTC_IRQ, "w_end1")
  <2>1. /\ pc'[t] = "w_end1" /\ scheduled_terminal' = t
        /\ "w_end1" \in Writing /\ "w_end1" \in KeyboardPoints
    BY <1>3 DEF TypeOK, Unmask, At, Goto, Writing, KeyboardPoints
  <2>2. RTC_IRQ - 8 \notin slave'
    BY <1>3 DEF Unmask, enable_irq, RTC_IRQ
  <2> QED BY <2>1, <2>2 DEF Masks, TimerHeld, KeyboardHeld, ClockHeld
<1>4. CASE Unmask(t, "w_end1", KEYBOARD_IRQ, "w_end0")
  <2>1. /\ pc'[t] = "w_end0" /\ scheduled_terminal' = t
        /\ "w_end0" \in Writing /\ "w_end1" \notin ClockPoints
        /\ pc[t] = "w_end1" /\ \A u \in Term \ {t} : pc'[u] = pc[u]
    BY <1>4 DEF TypeOK, Unmask, At, Goto, Writing, ClockPoints
  <2>2. KEYBOARD_IRQ \notin master' /\ slave' = slave
    BY <1>4 DEF Unmask, enable_irq, KEYBOARD_IRQ
  <2> QED BY <2>1, <2>2 DEF Masks, TimerHeld, KeyboardHeld, ClockHeld
<1>5. CASE Unmask(t, "w_end0", PIT_IRQ, "user")
  <2>1. /\ "w_end0" \notin ClockPoints /\ "w_end0" \notin KeyboardPoints
        /\ pc[t] = "w_end0" /\ \A u \in Term \ {t} : pc'[u] = pc[u]
    BY <1>5 DEF TypeOK, Unmask, At, Goto, ClockPoints, KeyboardPoints
  <2>2. /\ PIT_IRQ \notin master' /\ slave' = slave
        /\ KEYBOARD_IRQ \in master' => KEYBOARD_IRQ \in master
    BY <1>5 DEF Unmask, enable_irq, PIT_IRQ
  <2> QED BY <2>1, <2>2 DEF Masks, TimerHeld, KeyboardHeld, ClockHeld
<1> QED
  BY <1>1, <1>2, <1>3, <1>4, <1>5 DEF terminal_write

LEMMA putc_masks ==
  ASSUME TypeOK, Masks, NEW t \in Term, putc(t) \/ scroll(t)
  PROVE  Masks'
<1>1. ASSUME NEW from, NEW irq_num, NEW to \in ClockPoints,
             Mask(t, from, irq_num, to) \/ Unmask(t, from, irq_num, to)
      PROVE  Masks'
  BY <1>1, ArrivesEarly DEF Mask, Unmask, At
<1>2. {"p_irq0", "p_irq1", "p_irq8", "p_end8", "p_end1", "p_end0", "w_end8",
       "s_irq0", "s_irq1", "s_irq8", "s_end8", "s_end1", "s_end0"}
        \subseteq ClockPoints
  BY DEF ClockPoints, Writing
<1> QED
  BY <1>1, <1>2 DEF putc, scroll

LEMMA init_rtc_masks ==
  ASSUME TypeOK, Masks, NEW t \in Term, init_rtc(t)
  PROVE  Masks'
<1>1. PICK to \in Opening :
        /\ Goto(t, to) /\ scheduled_terminal = t
        /\ pc[t] \in {"user"} \cup Opening
        /\ UNCHANGED <<scheduled_terminal, masks>>
  BY DEF init_rtc, Select, Fetch, Store, At, Opening
<1>2. pc[t] \notin Writing /\ pc[t] \notin KeyboardPoints
  BY <1>1 DEF Opening, Writing, KeyboardPoints
<1> QED
  BY <1>1, <1>2, MasksKept

LEMMA NextMasks == TypeOK /\ Masks /\ [Next]_vars => Masks'
<1> SUFFICES ASSUME TypeOK, Masks, [Next]_vars PROVE Masks'
  OBVIOUS
<1>1. ASSUME NEW t \in Term, open_rtc(t) PROVE Masks'
  <2>1. /\ pc[t] = "o_flags"
        /\ scheduled_terminal' = t /\ scheduled_terminal = t
        /\ \A u \in Term \ {t} : pc'[u] = pc[u]
        /\ pc[t] \notin Writing /\ pc[t] \notin KeyboardPoints
    BY <1>1 DEF TypeOK, open_rtc, At, Goto, Writing, KeyboardPoints
  <2>2. master' = master /\ RTC_IRQ - 8 \notin slave'
    BY <1>1 DEF open_rtc, enable_irq, RTC_IRQ
  <2> QED BY <2>1, <2>2 DEF Masks, TimerHeld, KeyboardHeld, ClockHeld
<1>2. ASSUME NEW t \in Term, read_rtc_flag(t) PROVE Masks'
  BY <1>2, MasksKept, "r_wait" \in KeyboardPoints, "r_flag" \notin Writing
  DEF read_rtc_flag, At, KeyboardPoints, Writing
<1>3. ASSUME NEW t \in Term, read_rtc_return(t) PROVE Masks'
  <2>1. /\ pc[t] = "r_wait" /\ scheduled_terminal = t
        /\ \A u \in Term \ {t} : pc'[u] = pc[u]
        /\ pc[t] \notin Writing /\ pc[t] \notin ClockPoints
    BY <1>3 DEF TypeOK, read_rtc_return, At, Goto, Writing, ClockPoints
  <2>2. /\ KEYBOARD_IRQ \notin master' /\ slave' = slave
        /\ PIT_IRQ \in master' => PIT_IRQ \in master
    BY <1>3 DEF read_rtc_return, enable_irq, KEYBOARD_IRQ
  <2> QED BY <2>1, <2>2 DEF Masks, TimerHeld, KeyboardHeld, ClockHeld
<1>4. ASSUME NEW t \in Term, read_rtc_mask(t) PROVE Masks'
  <2>1. /\ pc[t] = "user" /\ scheduled_terminal = t
        /\ pc'[t] = "r_flag" /\ "r_flag" \in KeyboardPoints
        /\ \A u \in Term \ {t} : pc'[u] = pc[u]
        /\ pc[t] \notin Writing /\ pc[t] \notin ClockPoints
    BY <1>4
    DEF TypeOK, read_rtc_mask, At, Goto, Writing, ClockPoints, KeyboardPoints
  <2>2. /\ slave' = slave
        /\ PIT_IRQ \in master' => PIT_IRQ \in master
    BY <1>4 DEF read_rtc_mask, disable_irq, KEYBOARD_IRQ, PIT_IRQ
  <2> QED BY <2>1, <2>2 DEF Masks, TimerHeld, KeyboardHeld, ClockHeld
<1>5. ASSUME NEW t \in Term, write_called(t) PROVE Masks'
  BY <1>5, ArrivesEarly, "w_irq0" \in ClockPoints
  DEF write_called, At, ClockPoints, Writing
<1>6. ASSUME NEW t \in Term, NEW freq \in Freq, write_rtc(t, freq)
      PROVE  Masks'
  BY <1>6
  DEF write_rtc, masks, threads, Masks, TimerHeld, KeyboardHeld, ClockHeld
<1>7. CASE tick \/ do_rtc_handler
  BY <1>7 DEF tick, do_rtc_handler, masks, threads, Masks, TimerHeld,
              KeyboardHeld, ClockHeld
<1>8. CASE schedule
  <2>1. PIT_IRQ \notin master /\ UNCHANGED <<master, slave, pc>>
    BY <1>8 DEF schedule, Interruptible, Delivered, PIT_IRQ, masks
  <2> QED BY <2>1 DEF Masks, TimerHeld, KeyboardHeld, ClockHeld
<1>9. CASE esc_pressed
  BY <1>9, ArrivesEarly, "w_irq0" \in ClockPoints, scheduled_terminal \in Term
  DEF esc_pressed, ClockPoints, Writing, TypeOK
<1>10. CASE key_pressed
  <2>1. /\ PIT_IRQ \notin master' /\ KEYBOARD_IRQ \notin master'
        /\ RTC_IRQ - 8 \notin slave'
    BY <1>10 DEF key_pressed
  <2> QED BY <2>1 DEF Masks, TimerHeld, KeyboardHeld, ClockHeld
<1>11. CASE UNCHANGED vars
  BY <1>11
  DEF vars, masks, threads, Masks, TimerHeld, KeyboardHeld, ClockHeld
<1> QED
  BY <1>1, <1>2, <1>3, <1>4, <1>5, <1>6, <1>7, <1>8, <1>9, <1>10, <1>11,
     init_rtc_masks, terminal_write_masks, putc_masks
  DEF Next, DriverStep, Call

\* Whatever interrupts read_rtc, terminal_write or putc, and though their
\* masks do not nest, the timer, the keyboard and the clock are all enabled
\* when no process is inside one of them.
THEOREM LinesComeBack == Spec => []LinesBack
<1>1. Init => Masks
  BY DEF Init, Masks, TimerHeld, KeyboardHeld, ClockHeld, PIT_IRQ,
         KEYBOARD_IRQ, RTC_IRQ
<1>2. TypeOK /\ Masks => LinesBack
  BY DEF TypeOK, LinesBack, Masks, TimerHeld, KeyboardHeld, ClockHeld,
         KeyboardPoints, ClockPoints, Writing, Delivered, PIT_IRQ,
         KEYBOARD_IRQ, RTC_IRQ
<1> QED BY TypeInit, NextType, <1>1, <1>2, NextMasks, PTL DEF Spec

-----------------------------------------------------------------------------
(* read_rtc. *)

LEMMA NextServed == TypeOK /\ Served /\ [Next]_vars => Served'
<1> SUFFICES ASSUME TypeOK, Served, [Next]_vars PROVE Served'
  OBVIOUS
<1>1. ASSUME NEW t \in Term, NEW to, to # "r_wait", Goto(t, to),
             UNCHANGED curr_interrupt,
             \A u \in Term \ {t} : served'[u] = served[u]
      PROVE  Served'
  BY <1>1 DEF TypeOK, Served, Goto
<1>2. ASSUME NEW t \in Term, init_rtc(t) PROVE Served'
  BY <1>1, <1>2 DEF init_rtc, Select, Fetch, Store, history
<1>3. ASSUME NEW t \in Term, terminal_write(t) \/ putc(t) \/ scroll(t)
      PROVE  Served'
  BY <1>1, <1>3 DEF terminal_write, putc, scroll, Mask, Unmask, history
<1>4. ASSUME NEW t \in Term, read_rtc_flag(t) PROVE Served'
  BY <1>4 DEF TypeOK, Served, read_rtc_flag, At, Goto, history
<1>5. ASSUME NEW t \in Term,
             read_rtc_mask(t) \/ read_rtc_return(t) \/ write_called(t)
      PROVE  Served'
  BY <1>1, <1>5
  DEF TypeOK, read_rtc_mask, read_rtc_return, write_called, history
<1>6. ASSUME NEW t \in Term, open_rtc(t) PROVE Served'
  BY <1>6 DEF TypeOK, Served, open_rtc, Goto, Reset
<1>7. ASSUME NEW t \in Term, NEW freq \in Freq, write_rtc(t, freq)
      PROVE  Served'
  BY <1>7 DEF Served, write_rtc, threads
<1>8. CASE do_rtc_handler
  BY <1>8 DEF Served, do_rtc_handler, Reset, threads
<1>9. CASE tick \/ schedule \/ key_pressed \/ UNCHANGED vars
  BY <1>9 DEF Served, tick, schedule, key_pressed, vars, threads, history
<1>10. CASE esc_pressed
  BY <1>1, <1>10 DEF TypeOK, esc_pressed
<1> QED
  BY <1>2, <1>3, <1>4, <1>5, <1>6, <1>7, <1>8, <1>9, <1>10
  DEF Next, DriverStep, Call

\* Only read_rtc itself takes a waiting reader back to its program.
LEMMA OnlyReturns ==
  ASSUME TypeOK, [Next]_vars, NEW t \in Term,
         pc[t] = "r_wait", pc'[t] = "user"
  PROVE  curr_interrupt[t] # 1
<1>1. ASSUME NEW u \in Term, NEW from, NEW to, from # "r_wait",
             At(u, from), Goto(u, to)
      PROVE  FALSE
  BY <1>1 DEF TypeOK, At, Goto
<1>2. ASSUME NEW u \in Term, init_rtc(u) PROVE FALSE
  BY <1>1, <1>2 DEF init_rtc, Select, Fetch, Store
<1>3. ASSUME NEW u \in Term, terminal_write(u) \/ putc(u) \/ scroll(u)
      PROVE  FALSE
  BY <1>1, <1>3 DEF terminal_write, putc, scroll, Mask, Unmask
<1>4. ASSUME NEW u \in Term,
             \/ read_rtc_mask(u) \/ read_rtc_flag(u) \/ write_called(u)
             \/ open_rtc(u)
      PROVE  FALSE
  BY <1>1, <1>4 DEF read_rtc_mask, read_rtc_flag, write_called, open_rtc
<1>5. ASSUME NEW u \in Term, read_rtc_return(u)
      PROVE  curr_interrupt[t] # 1
  BY <1>5 DEF TypeOK, read_rtc_return, At, Goto
<1>6. CASE \/ UNCHANGED pc \/ esc_pressed
  BY <1>6 DEF TypeOK, esc_pressed, Goto
<1>7. ASSUME \/ tick \/ do_rtc_handler \/ schedule \/ key_pressed
             \/ UNCHANGED vars
             \/ \E u \in Term : \E freq \in Freq : write_rtc(u, freq)
      PROVE  UNCHANGED pc
  BY <1>7
  DEF tick, do_rtc_handler, schedule, key_pressed, write_rtc, threads, vars
<1> QED
  BY <1>2, <1>3, <1>4, <1>5, <1>6, <1>7 DEF Next, DriverStep, Call

\* read_rtc never returns before an interrupt of the clock, or an open of it on
\* another terminal, that came after its flag was set, on any terminal and
\* however it was preempted.  The interrupt alone, which rtc.c promises, is
\* refuted by a run (ReadBlocks).
THEOREM ReadsWait == Spec => ReadWaits
<1>1. Init => Served
  BY DEF Init, Served
<1>2. TypeOK /\ Served /\ [Next]_vars =>
        [\A t \in Term : ReturnsAfter(t, {"interrupt", "open"})]_vars
  BY OnlyReturns DEF TypeOK, Served, ReturnsAfter
<1> QED
  BY TypeInit, NextType, <1>1, NextServed, <1>2, PTL DEF Spec, ReadWaits

-----------------------------------------------------------------------------
(* The frequency, when no interrupt is delivered inside init_rtc. *)

\* A name for the powers of two, which the provers do not unfold.
Pow(n) == 2^n

LEMMA Powers ==
  /\ Pow(0) = 1 /\ Pow(1) = 2 /\ Pow(2) = 4 /\ Pow(3) = 8 /\ Pow(4) = 16
  /\ Pow(5) = 32 /\ Pow(6) = 64 /\ Pow(7) = 128 /\ Pow(8) = 256
  /\ Pow(9) = 512 /\ Pow(10) = 1024 /\ Pow(11) = 2048 /\ Pow(12) = 4096
  /\ Pow(13) = 8192 /\ Pow(14) = 16384 /\ Pow(15) = 32768
  BY DEF Pow

LEMMA calculate_rate_pow ==
  ASSUME NEW freq
  PROVE  calculate_rate(freq) =
           ((CHOOSE shift \in 0 .. 15 : freq * Pow(shift) = MAGIC) + 1) % 16
  BY Zenon DEF calculate_rate, Pow

\* calculate_rate of a frequency that works is between 6 and 15.
LEMMA calculate_rate_value ==
  ASSUME NEW i \in 1 .. 10
  PROVE  calculate_rate(Pow(i)) = 16 - i
<1>1. \/ i = 1 \/ i = 2 \/ i = 3 \/ i = 4 \/ i = 5
      \/ i = 6 \/ i = 7 \/ i = 8 \/ i = 9 \/ i = 10
  OBVIOUS
<1>2. \A n \in 0 .. 15 : Pow(i) * Pow(n) = 32768 <=> n = 15 - i
  BY <1>1, Powers
<1>3. (CHOOSE n \in 0 .. 15 : Pow(i) * Pow(n) = 32768) = 15 - i
  BY <1>2
<1> QED
  BY <1>3, calculate_rate_pow DEF MAGIC

LEMMA BitsOf ==
  ASSUME NEW n \in 0 .. 15
  PROVE  /\ 0 \in Bits(n) <=> n % 2 = 1
         /\ 1 \in Bits(n) <=> (n \div 2) % 2 = 1
         /\ 2 \in Bits(n) <=> (n \div 4) % 2 = 1
         /\ 3 \in Bits(n) <=> (n \div 8) % 2 = 1
         /\ Bits(n) \subseteq 0 .. 3
<1>1. Bits(n) = {b \in 0 .. 3 : (n \div Pow(b)) % 2 = 1}
  BY Zenon DEF Bits, Pow
<1> QED
  BY <1>1, Powers, n \div 1 = n

\* The four bits of a rate determine it.
LEMMA BitsInjective ==
  ASSUME NEW n \in 0 .. 15, NEW m \in 0 .. 15, Bits(n) = Bits(m)
  PROVE  n = m
  BY BitsOf

\* The device divides MAGIC as often as calculate_rate has doubled.
LEMMA RateInverse ==
  ASSUME NEW i \in 1 .. 10, Running,
         reg.A \cap 0 .. 3 = Bits(calculate_rate(Pow(i)))
  PROVE  Frequency = Pow(i)
<1> DEFINE rate == CHOOSE n \in 1 .. 15 : Bits(n) = reg.A \cap 0 .. 3
<1>1. calculate_rate(Pow(i)) = 16 - i /\ 16 - i \in 1 .. 15
  BY calculate_rate_value
<1>2. rate \in 1 .. 15 /\ Bits(rate) = Bits(16 - i)
  BY <1>1
<1>3. rate = 16 - i
  BY <1>1, <1>2, BitsInjective, 1 .. 15 \subseteq 0 .. 15
<1>4. Frequency = MAGIC \div Pow(rate - 1)
  BY Zenon DEF Frequency, Pow
<1>5. MAGIC \div Pow(rate - 1) = Pow(i)
  <2> HIDE DEF rate
  <2>1. rate - 1 = 15 - i
    BY <1>3
  <2>2. \/ i = 1 \/ i = 2 \/ i = 3 \/ i = 4 \/ i = 5
        \/ i = 6 \/ i = 7 \/ i = 8 \/ i = 9 \/ i = 10
    OBVIOUS
  <2> QED
    BY <2>1, <2>2, Powers DEF MAGIC
<1> QED
  BY <1>4, <1>5

\* A process that has the clock open, or any other, has asked for a frequency.
Opened == \A t \in Term : opened[t] => asked # 0

LEMMA NextOpened == TypeOK /\ Opened /\ [Next]_vars => Opened'
<1> SUFFICES ASSUME TypeOK, Opened, [Next]_vars PROVE Opened'
  OBVIOUS
<1>1. ASSUME NEW t \in Term, open_rtc(t) PROVE Opened'
  BY <1>1 DEF Opened, open_rtc, INIT_RATE
<1>2. ASSUME NEW t \in Term, NEW freq \in Freq, write_rtc(t, freq)
      PROVE  Opened'
  BY <1>2 DEF Opened, write_rtc
<1>3. CASE esc_pressed
  BY <1>3 DEF TypeOK, Opened, esc_pressed
<1>4. CASE UNCHANGED <<opened, asked>>
  BY <1>4 DEF Opened
<1>5. ASSUME NEW t \in Term,
             \/ init_rtc(t) \/ terminal_write(t) \/ putc(t) \/ scroll(t)
             \/ read_rtc_mask(t) \/ read_rtc_flag(t) \/ read_rtc_return(t)
             \/ write_called(t)
      PROVE  UNCHANGED <<opened, asked>>
  BY <1>5
  DEF init_rtc, Select, Fetch, Store, terminal_write, putc, scroll, Mask,
      Unmask, read_rtc_mask, read_rtc_flag, read_rtc_return, write_called,
      history
<1>6. ASSUME tick \/ do_rtc_handler \/ schedule \/ key_pressed
               \/ UNCHANGED vars
      PROVE  UNCHANGED <<opened, asked>>
  BY <1>6 DEF tick, do_rtc_handler, schedule, key_pressed, vars, history
<1> QED
  BY <1>1, <1>2, <1>3, <1>4, <1>5, <1>6 DEF Next, DriverStep, Call

\* Where the scheduled thread has set the interrupt bit of register B.
BSet == {"a_select", "a_fetch", "a_again", "a_last", "a_store", "o_flags"}

\* Only the scheduled thread is in init_rtc.
Alone == \A t \in Term : pc[t] \in Opening => t = scheduled_terminal

\* What init_rtc has read, and which register it is about to use.
Selected ==
  LET point == pc[scheduled_terminal]
      value == prev[scheduled_terminal]
  IN  /\ point \in {"b_fetch", "b_store"} => index = "B"
      /\ point \in {"b_again", "b_store"} => value = reg.B
      /\ point \in {"a_fetch", "a_last", "a_store"} => index = "A"
      /\ point \in {"a_again", "a_last", "a_store"} => value = reg.A

Rate ==
  IF pc[scheduled_terminal] = "o_flags"
  THEN reg.A \cap 0 .. 3 = Bits(calculate_rate(INIT_RATE))
  ELSE asked # 0 => reg.A \cap 0 .. 3 = Bits(calculate_rate(asked))

Setting ==
  /\ Alone /\ Selected /\ Rate
  /\ reg.A \cap 4 .. 6 = {5}
  /\ asked # 0 \/ pc[scheduled_terminal] \in BSet => 6 \in reg.B
  /\ asked # 0 => \E i \in 1 .. 10 : asked = Pow(i)

LEMMA INIT_RATE_bits == Bits(calculate_rate(INIT_RATE)) = 0 .. 3
<1>1. INIT_RATE = Pow(1) /\ 1 \in 1 .. 10
  BY Powers DEF INIT_RATE
<1>2. calculate_rate(INIT_RATE) = 15
  BY <1>1, calculate_rate_value
<1> QED
  BY <1>2, BitsOf, 15 \in 0 .. 15

\* A step of the scheduled thread that stays in init_rtc, or enters it.
LEMMA OpeningStep ==
  ASSUME TypeOK, Setting, NEW t \in Term, NEW from, NEW to,
         At(t, from), Goto(t, to), UNCHANGED scheduled_terminal
  PROVE  /\ Alone' /\ scheduled_terminal' = t
         /\ pc[scheduled_terminal] = from
         /\ pc'[scheduled_terminal'] = to
  BY DEF TypeOK, Setting, Alone, At, Goto

LEMMA Select_setting ==
  ASSUME TypeOK, Setting, NEW t \in Term,
         \/ Select(t, "user", "B", "b_fetch")
         \/ Select(t, "b_again", "B", "b_store")
         \/ Select(t, "a_select", "A", "a_fetch")
         \/ Select(t, "a_again", "A", "a_last")
         \/ Select(t, "a_last", "A", "a_store")
  PROVE  Setting'
<1>1. UNCHANGED <<reg, asked, prev, scheduled_terminal>>
  BY DEF Select, history
<1>2. PICK from, to, r :
        /\ Select(t, from, r, to)
        /\ <<from, r, to>> \in {<<"user", "B", "b_fetch">>,
             <<"b_again", "B", "b_store">>, <<"a_select", "A", "a_fetch">>,
             <<"a_again", "A", "a_last">>, <<"a_last", "A", "a_store">>}
  OBVIOUS
<1>3. /\ Alone' /\ scheduled_terminal' = t /\ scheduled_terminal = t
      /\ pc[t] = from /\ pc'[t] = to /\ index' = r
  BY <1>2, OpeningStep DEF Select, At
<1> QED
  BY <1>1, <1>2, <1>3 DEF Setting, Selected, Rate, BSet

LEMMA Fetch_setting ==
  ASSUME TypeOK, Setting, NEW t \in Term,
         \/ Fetch(t, "b_fetch", "b_again")
         \/ Fetch(t, "a_fetch", "a_again")
  PROVE  Setting'
<1>1. PICK from, to :
        /\ Fetch(t, from, to)
        /\ <<from, to>> \in {<<"b_fetch", "b_again">>,
                               <<"a_fetch", "a_again">>}
  OBVIOUS
<1>2. /\ Alone' /\ scheduled_terminal' = t /\ scheduled_terminal = t
      /\ pc[t] = from /\ pc'[t] = to
  BY <1>1, OpeningStep DEF Fetch, At
<1>3. /\ reg' = reg /\ asked' = asked /\ prev'[t] = reg[index]
      /\ index = IF from = "b_fetch" THEN "B" ELSE "A"
  BY <1>1, <1>2 DEF TypeOK, Fetch, Setting, Selected, history
<1> QED
  BY <1>1, <1>2, <1>3 DEF Setting, Selected, Rate, BSet

LEMMA Store_setting ==
  ASSUME TypeOK, Setting, NEW t \in Term,
         \/ Store(t, "b_store", {6}, "a_select")
         \/ Store(t, "a_store", Bits(calculate_rate(INIT_RATE)), "o_flags")
  PROVE  Setting'
<1>1. CASE Store(t, "b_store", {6}, "a_select")
  <2>1. /\ Alone' /\ scheduled_terminal' = t /\ scheduled_terminal = t
        /\ pc[t] = "b_store" /\ pc'[t] = "a_select"
    BY <1>1, OpeningStep DEF Store, At
  <2>2. index = "B" /\ prev[t] = reg.B
    BY <2>1 DEF Setting, Selected
  <2>3. reg'.A = reg.A /\ reg'.B = reg.B \cup {6} /\ asked' = asked
    BY <1>1, <2>2 DEF TypeOK, Store, history
  <2> QED BY <2>1, <2>3 DEF Setting, Selected, Rate
<1>2. CASE Store(t, "a_store", Bits(calculate_rate(INIT_RATE)), "o_flags")
  <2>1. /\ Alone' /\ scheduled_terminal' = t /\ scheduled_terminal = t
        /\ pc[t] = "a_store" /\ pc'[t] = "o_flags"
    BY <1>2, OpeningStep DEF Store, At
  <2>2. index = "A" /\ prev[t] = reg.A
    BY <2>1 DEF Setting, Selected
  <2>3. reg'.A = reg.A \cup 0 .. 3 /\ reg'.B = reg.B /\ asked' = asked
    BY <1>2, <2>2, INIT_RATE_bits DEF TypeOK, Store, history
  <2>4. reg'.A \cap 0 .. 3 = 0 .. 3 /\ reg'.A \cap 4 .. 6 = {5}
    BY <2>3 DEF Setting
  <2>5. Selected' /\ Rate'
    BY <2>1, <2>4, INIT_RATE_bits DEF Selected, Rate
  <2> QED BY <2>1, <2>3, <2>4, <2>5 DEF Setting, BSet
<1> QED BY <1>1, <1>2

\* A step that leaves the device, the local variables and the record of the
\* last call alone, and by which no thread enters or leaves init_rtc.
LEMMA OutsideOpening ==
  ASSUME TypeOK, Setting, NEW t \in Term, NEW to,
         scheduled_terminal = t, pc[t] \notin Opening, to \notin Opening,
         Goto(t, to), UNCHANGED <<index, reg, scheduled_terminal, asked>>
  PROVE  Setting'
<1>1. pc'[t] = to /\ \A u \in Term \ {t} : pc'[u] = pc[u]
  BY DEF TypeOK, Goto
<1>2. Alone'
  BY <1>1 DEF Setting, Alone
<1>3. Selected' /\ Rate'
  BY <1>1 DEF Setting, Selected, Rate, Opening
<1> QED
  BY <1>1, <1>2, <1>3 DEF Setting, BSet, Opening

LEMMA write_rtc_setting ==
  ASSUME TypeOK, Opened, Setting, 1 \notin Freq, NEW t \in Term,
         NEW freq \in Freq, write_rtc(t, freq)
  PROVE  Setting'
<1>1. PICK i \in 0 .. 10 : freq = Pow(i)
  BY Zenon DEF write_rtc, check_param, Pow
<1>2. i \in 1 .. 10
  BY <1>1, Powers
<1>3. freq # 0
  BY DEF write_rtc
<1>4. /\ reg'.A = (reg.A \cap 4 .. 7) \cup Bits(calculate_rate(freq))
      /\ reg'.B = reg.B /\ asked' = freq
      /\ UNCHANGED <<pc, prev, scheduled_terminal>>
      /\ pc[scheduled_terminal] = "user"
  BY DEF TypeOK, write_rtc, threads, At
<1>5. Bits(calculate_rate(freq)) \subseteq 0 .. 3
  BY DEF Bits
<1>6. /\ reg'.A \cap 4 .. 6 = {5}
      /\ reg'.A \cap 0 .. 3 = Bits(calculate_rate(freq))
  BY <1>4, <1>5 DEF Setting
<1>7. Alone' /\ Selected' /\ Rate'
  BY <1>4, <1>6 DEF Setting, Alone, Selected, Rate
<1>8. 6 \in reg.B
  BY DEF Opened, Setting, write_rtc
<1> QED
  BY <1>1, <1>2, <1>4, <1>6, <1>7, <1>8 DEF Setting, BSet

LEMMA NextSetting ==
  ASSUME OpenMasked, 1 \notin Freq, TypeOK, Opened, Setting, [Next]_vars
  PROVE  Setting'
<1>1. ASSUME NEW t \in Term, open_rtc(t) PROVE Setting'
  <2>1. /\ scheduled_terminal = t /\ scheduled_terminal' = t
        /\ pc[t] = "o_flags" /\ pc'[t] = "user"
        /\ reg' = reg /\ asked' = INIT_RATE
    BY <1>1 DEF TypeOK, open_rtc, At, Goto, device
  <2>2. Alone'
    BY <1>1, <2>1 DEF TypeOK, open_rtc, Goto, Setting, Alone, Opening
  <2>3. Selected' /\ Rate'
    BY <2>1 DEF Setting, Selected, Rate
  <2>4. INIT_RATE = Pow(1) /\ 1 \in 1 .. 10
    BY Powers DEF INIT_RATE
  <2> QED BY <2>1, <2>2, <2>3, <2>4 DEF Setting, BSet
<1>2. ASSUME NEW t \in Term, terminal_write(t) \/ putc(t) \/ scroll(t)
      PROVE  Setting'
  <2>1. \E from, to \in Writing \cup {"user"} :
          /\ At(t, from) /\ Goto(t, to)
          /\ UNCHANGED <<index, reg, scheduled_terminal, asked>>
    BY <1>2
    DEF terminal_write, putc, scroll, Mask, Unmask, device, history, Writing
  <2> QED BY <2>1, OutsideOpening DEF At, Writing, Opening
<1>3. ASSUME NEW t \in Term,
             \/ read_rtc_mask(t) \/ read_rtc_flag(t) \/ read_rtc_return(t)
             \/ write_called(t)
      PROVE  Setting'
  <2>1. \E from, to \in {"user", "r_flag", "r_wait", "w_irq0"} :
          /\ At(t, from) /\ Goto(t, to)
          /\ UNCHANGED <<index, reg, scheduled_terminal, asked>>
    BY <1>3
    DEF read_rtc_mask, read_rtc_flag, read_rtc_return, write_called, device,
        history
  <2> QED BY <2>1, OutsideOpening DEF At, Opening
<1>4. ASSUME NEW t \in Term, init_rtc(t) PROVE Setting'
  BY <1>4, Select_setting, Fetch_setting, Store_setting DEF init_rtc
<1>5. CASE tick
  BY <1>5 DEF TypeOK, tick, threads, history, Setting, Alone, Selected, Rate
<1>6. CASE do_rtc_handler
  <2>1. /\ pc[scheduled_terminal] \notin Opening
        /\ reg'.A = reg.A /\ reg'.B = reg.B
        /\ UNCHANGED <<pc, prev, scheduled_terminal, asked>>
    BY <1>6 DEF TypeOK, do_rtc_handler, Interruptible, threads
  <2> QED
    BY <2>1 DEF Setting, Alone, Selected, Rate, Opening
<1>7. CASE schedule
  <2>1. /\ scheduled_terminal \in Term /\ scheduled_terminal' \in Term
        /\ pc[scheduled_terminal] \notin Opening
        /\ UNCHANGED <<reg, pc, prev, asked>>
    BY <1>7, NextType
    DEF TypeOK, schedule, Interruptible, device, history
  <2>2. \A t \in Term : pc[t] \notin Opening
    BY <2>1 DEF Setting, Alone
  <2> QED
    BY <2>1, <2>2 DEF Setting, Alone, Selected, Rate, Opening, BSet
<1>8. CASE esc_pressed
  <2>1. /\ pc[scheduled_terminal] \notin Opening /\ "w_irq0" \notin Opening
        /\ UNCHANGED <<index, reg, scheduled_terminal, asked>>
    BY <1>8 DEF esc_pressed, Interruptible, device, Opening
  <2> QED BY <1>8, <2>1, OutsideOpening DEF TypeOK, esc_pressed
<1>9. CASE key_pressed \/ UNCHANGED vars
  BY <1>9 DEF key_pressed, vars, device, threads, history, Setting, Alone,
              Selected, Rate
<1> QED
  BY <1>1, <1>2, <1>3, <1>4, <1>5, <1>6, <1>7, <1>8, <1>9, write_rtc_setting
  DEF Next, DriverStep, Call

\* If no interrupt is delivered inside init_rtc, the clock runs between calls
\* at the frequency that the last successful call asked for: for any number
\* of terminals and any frequencies but 1, whose rate does not fit four bits.
THEOREM FrequencyKept ==
  ASSUME OpenMasked, 1 \notin Freq
  PROVE  Spec => []FrequencySet
<1>1. Init => Opened /\ Setting
  <2> SUFFICES ASSUME Init PROVE Opened /\ Setting
    OBVIOUS
  <2>1. 0 \in Term /\ pc[0] = "user" /\ scheduled_terminal = 0
    BY DEF Init, Term
  <2>2. reg.A \cap 4 .. 6 = {5}
    BY DEF Init, Bits
  <2> QED
    BY <2>1, <2>2
    DEF Init, Opened, Setting, Alone, Selected, Rate, Opening, BSet
<1>2. TypeOK /\ Opened /\ Setting /\ [Next]_vars => Setting'
  BY NextSetting
<1>3. TypeOK /\ Setting => FrequencySet
  <2> SUFFICES ASSUME TypeOK, Setting, asked # 0, Quiet
               PROVE  Frequency = asked
    BY DEF FrequencySet
  <2>1. PICK i \in 1 .. 10 : asked = Pow(i)
    BY DEF Setting
  <2>2. reg.A \cap 0 .. 3 = Bits(calculate_rate(Pow(i)))
    BY <2>1 DEF TypeOK, Quiet, Opening, Setting, Rate
  <2>3. reg.A \cap 0 .. 3 # {}
    BY <2>2, calculate_rate_value, BitsOf, 16 - i \in 0 .. 15
  <2>4. Running
    BY <2>3 DEF Running, Setting
  <2> QED BY <2>1, <2>2, <2>4, RateInverse
<1> QED
  BY TypeInit, NextType, NextOpened, <1>1, <1>2, <1>3, PTL DEF Spec
=============================================================================

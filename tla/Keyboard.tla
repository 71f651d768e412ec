------------------------------ MODULE Keyboard ------------------------------
(***************************************************************************)
(* From keys to effects: handle_keyboard_interrupt and                     *)
(* printable_char_generate (student-distrib/keyboard.c).                   *)
(*                                                                         *)
(* The user presses and releases keys at any time; the controller keeps    *)
(* their scan codes while interrupts are off or IRQ 1 is masked, and loses *)
(* those that come when it is full.  The handler sees only codes and its   *)
(* flags.  What the effects do is in Terminals, Screen and Processes.      *)
(***************************************************************************)
EXTENDS Integers, Sequences, FiniteSets

CONSTANTS
  Key,         \* keys that the user has
  Capacity,    \* codes that the controller keeps
  MaxHeld      \* bound: keys held at a time

ASSUME KeyboardAssumption == Capacity \in Nat /\ MaxHeld \in Nat

(* Scan codes.  Set 1: the code of a release is 128 above that of a press.  *)

PREFIX == 224                \* sent before the codes of some keys

code == [esc |-> 1, one |-> 2, backspace |-> 14, enter |-> 28, ctrl |-> 29,
         ctrl_right |-> 29, a |-> 30, l |-> 38, shift_left |-> 42,
         shift_right |-> 54, alt |-> 56, space |-> 57, caps |-> 58,
         f1 |-> 59, f2 |-> 60, f3 |-> 61, up |-> 72]

ASSUME KeyAssumption == Key \subseteq DOMAIN code

Prefixed == {"ctrl_right", "up"}

Released(c) == c + 128

\* The entries of kbdus and kbdus_shift that are not 0, for these keys.
kbdus       == [one |-> "1", a |-> "a", l |-> "l", space |-> " "]
kbdus_shift == [one |-> "!", a |-> "A", l |-> "L", space |-> " "]

Upper == [a |-> "A", l |-> "L"]      \* a letter - lower_upper_case_diff
Lower == [A |-> "a", L |-> "l"]      \* a letter + lower_upper_case_diff

VARIABLES
  held,        \* the keys that are down
  caps,        \* caps lock is on, as the user counts
  queue,       \* what the controller keeps: codes, and what they mean
  synced,      \* modifiers of which no code was lost since the last one kept
  kbd_shift, kbd_ctrl, kbd_alt, kbd_caps_lock

flags == <<kbd_shift, kbd_ctrl, kbd_alt, kbd_caps_lock>>
vars  == <<held, caps, queue, synced, flags>>

Modifiers == {"shift", "ctrl", "alt", "caps"}

Keys(mod) == CASE mod = "shift" -> {"shift_left", "shift_right"}
               [] mod = "ctrl"  -> {"ctrl", "ctrl_right"}
               [] mod = "alt"   -> {"alt"}
               [] mod = "caps"  -> {"caps"}

None    == <<"none">>
Unknown == <<"unknown">>

Init ==
  /\ held = {} /\ caps = FALSE /\ queue = <<>> /\ synced = Modifiers
  /\ kbd_shift = 0 /\ kbd_ctrl = 0 /\ kbd_alt = 0 /\ kbd_caps_lock = 0

-----------------------------------------------------------------------------
(* The user and the controller. *)

Down(mod) == held \cap Keys(mod) # {}

Letters == {"a", "l"}

\* What a key means when it is pressed: a letter is a capital with shift or
\* caps lock but not with both, another character has its second form with
\* shift alone.
Meaning(k) ==
  CASE k = "l" /\ Down("ctrl")       -> <<"clear">>
    [] k = "esc"                     -> <<"halt">>
    [] k = "backspace"               -> <<"backspace">>
    [] k = "enter"                   -> <<"enter">>
    [] k = "f1" /\ Down("alt")       -> <<"switch", 0>>
    [] k = "f2" /\ Down("alt")       -> <<"switch", 1>>
    [] k = "f3" /\ Down("alt")       -> <<"switch", 2>>
    [] k \in Letters /\ ~(k = "l" /\ Down("ctrl")) ->
         <<"type", IF Down("shift") # caps THEN Upper[k] ELSE k>>
    [] k \in {"one", "space"} ->
         <<"type", IF Down("shift") THEN kbdus_shift[k] ELSE kbdus[k]>>
    [] OTHER -> None

\* Codes with what they mean, if that can be known; a code that does not fit
\* is lost, and with it what the handler knows of a modifier.  A later code
\* tells it again, but not whether caps lock is on.
Send(k, c, meant) ==
  LET codes  == IF k \in Prefixed THEN <<PREFIX, c>> ELSE <<c>>
      entry(b) == [code  |-> b,
                   meant |-> IF b = PREFIX THEN None
                             ELSE IF synced = Modifiers THEN meant
                             ELSE Unknown]
      mods   == {m \in Modifiers : k \in Keys(m)}
  IN  IF Len(queue) + Len(codes) <= Capacity
      THEN /\ queue' = queue \o [i \in DOMAIN codes |-> entry(codes[i])]
           /\ synced' = synced \cup (mods \ {"caps"})
      ELSE /\ UNCHANGED queue
           /\ synced' = synced \ mods

\* One key of a modifier is held at a time.
press(k) ==
  /\ k \notin held /\ Cardinality(held) < MaxHeld
  /\ \A m \in Modifiers : k \in Keys(m) => ~Down(m)
  /\ held' = held \cup {k}
  /\ caps' = IF k = "caps" THEN ~caps ELSE caps
  /\ Send(k, code[k], Meaning(k))
  /\ UNCHANGED flags

release(k) ==
  /\ k \in held
  /\ held' = held \ {k}
  /\ Send(k, Released(code[k]), None)
  /\ UNCHANGED <<caps, flags>>

\* A key that is held down is sent again; caps lock is not held that long.
repeat(k) ==
  /\ k \in held \ {"caps"}
  /\ Send(k, code[k], Meaning(k))
  /\ UNCHANGED <<held, caps, flags>>

-----------------------------------------------------------------------------
(* The handler. *)

\* The keys that have the code.
Of(buffer) == {k \in DOMAIN code : code[k] = buffer}

\* Mutant: the release of the right shift key is not looked for.
Shift_left(buffer) ==
  IF buffer \in {code.shift_right, code.shift_left} THEN 1
  ELSE IF buffer = Released(code.shift_left) THEN 0 ELSE kbd_shift

\* The flags behind the code; a code of a modifier has no other effect.
Shift(buffer) ==
  IF buffer \in {code.shift_right, code.shift_left} THEN 1
  ELSE IF buffer \in {Released(code.shift_right), Released(code.shift_left)}
  THEN 0 ELSE kbd_shift

Ctrl(buffer) ==
  IF buffer = code.ctrl THEN 1
  ELSE IF buffer = Released(code.ctrl) THEN 0 ELSE kbd_ctrl

Alt(buffer) ==
  IF buffer = code.alt THEN 1
  ELSE IF buffer = Released(code.alt) THEN 0 ELSE kbd_alt

CapsLock(buffer) ==
  IF buffer = code.caps THEN (kbd_caps_lock + 1) % 2 ELSE kbd_caps_lock

ModifierCodes ==
  LET keys == UNION {Keys(m) : m \in Modifiers}
  IN  {code[k] : k \in keys} \cup {Released(code[k]) : k \in keys \ {"caps"}}

\* The character of a key, with shift and caps lock as the flags have them.
Character(k) ==
  LET c == IF kbd_shift = 0 THEN kbdus[k] ELSE kbdus_shift[k]
  IN  IF kbd_caps_lock = 1 /\ kbd_shift = 0 /\ c \in DOMAIN Upper
      THEN Upper[c]
      ELSE IF kbd_caps_lock = 1 /\ kbd_shift # 0 /\ c \in DOMAIN Lower
      THEN Lower[c] ELSE c

\* printable_char_generate, in the order of its tests.
Effect(buffer) ==
  LET typed == Of(buffer) \cap DOMAIN kbdus
  IN  CASE buffer \in ModifierCodes -> None
        [] buffer = code.l /\ kbd_ctrl = 1 -> <<"clear">>
        [] buffer = code.esc -> <<"halt">>
        [] buffer = code.backspace -> <<"backspace">>
        [] buffer = code.enter -> <<"enter">>
        [] kbd_alt = 1 /\ buffer \in {code.f1, code.f2, code.f3} ->
             <<"switch", buffer - code.f1>>
        [] typed # {} /\ ~(buffer = code.l /\ kbd_ctrl = 1) ->
             <<"type", Character(CHOOSE k \in typed : TRUE)>>
        [] OTHER -> None

\* The effect itself, that of the code under the flags before it, is in the
\* modules named above.
handle_keyboard_interrupt ==
  /\ queue # <<>>
  /\ queue' = Tail(queue)
  /\ LET buffer == Head(queue).code
     IN  /\ kbd_shift' = Shift(buffer)
         /\ kbd_ctrl' = Ctrl(buffer)
         /\ kbd_alt' = Alt(buffer)
         /\ kbd_caps_lock' = CapsLock(buffer)
  /\ UNCHANGED <<held, caps, synced>>

Next ==
  \/ \E k \in Key : press(k) \/ release(k) \/ repeat(k)
  \/ handle_keyboard_interrupt

Spec == Init /\ [][Next]_vars

-----------------------------------------------------------------------------
\* handle_keyboard_interrupt: a code has the effect that its key had for the
\* user at the time it was pressed, however late the code is handled and
\* whatever keys were pressed and released in between; also after codes were
\* lost, once another code of each modifier they belong to has been kept (caps
\* lock: never, because its codes do not tell whether it is on).
HandledAsMeant ==
  \/ queue = <<>>
  \/ Head(queue).meant \in {Unknown, Effect(Head(queue).code)}
=============================================================================

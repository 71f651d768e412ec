--------------------------- MODULE KeyboardProofs ---------------------------
(***************************************************************************)
(* Proofs about Keyboard.  The handler lags behind the user by the codes   *)
(* in the queue.  The inductive invariant follows the flags through them:  *)
(* there is a sequence of flags, from the handler's own to those it will   *)
(* have behind the last code, such that every code meant the effect it has *)
(* under the flags at its place, and the last ones agree with the keys     *)
(* that are down now.                                                      *)
(***************************************************************************)
EXTENDS Keyboard, SequenceTheorems, TLAPS

Bit == {0, 1}

Flags == [shift : Bit, ctrl : Bit, alt : Bit, caps : Bit]

\* The flags of the handler.
Own == [shift |-> kbd_shift, ctrl |-> kbd_ctrl, alt |-> kbd_alt,
        caps |-> kbd_caps_lock]

\* Shift, Ctrl, Alt and CapsLock for flags f.
After(f, b) ==
  [shift |-> IF b \in {42, 54} THEN 1
             ELSE IF b \in {170, 182} THEN 0 ELSE f.shift,
   ctrl  |-> IF b = 29 THEN 1 ELSE IF b = 157 THEN 0 ELSE f.ctrl,
   alt   |-> IF b = 56 THEN 1 ELSE IF b = 184 THEN 0 ELSE f.alt,
   caps  |-> IF b = 58 THEN (f.caps + 1) % 2 ELSE f.caps]

\* The characters of the keys that have one, under flags f.
TypedOf(f, b) ==
  LET shift == f.shift = 1
      upper == f.shift # f.caps
  IN  CASE b = 2  -> IF shift THEN "!" ELSE "1"
        [] b = 30 -> IF upper THEN "A" ELSE "a"
        [] b = 38 -> IF upper THEN "L" ELSE "l"
        [] b = 57 -> " "

\* Effect for flags f.
EffectOf(f, b) ==
  IF b = 38 /\ f.ctrl = 1 THEN <<"clear">>
  ELSE IF b = 1 THEN <<"halt">>
  ELSE IF b = 14 THEN <<"backspace">>
  ELSE IF b = 28 THEN <<"enter">>
  ELSE IF b \in {59, 60, 61} /\ f.alt = 1 THEN <<"switch", b - 59>>
  ELSE IF b \in {2, 30, 38, 57} THEN <<"type", TypedOf(f, b)>>
  ELSE None

-----------------------------------------------------------------------------
(* The tables. *)

LEMMA Codes ==
  /\ DOMAIN code =
       {"esc", "one", "backspace", "enter", "ctrl", "ctrl_right", "a", "l",
        "shift_left", "shift_right", "alt", "space", "caps", "f1", "f2",
        "f3", "up"}
  /\ code["esc"] = 1 /\ code["one"] = 2 /\ code["backspace"] = 14
  /\ code["enter"] = 28 /\ code["ctrl"] = 29 /\ code["ctrl_right"] = 29
  /\ code["a"] = 30 /\ code["l"] = 38 /\ code["shift_left"] = 42
  /\ code["shift_right"] = 54 /\ code["alt"] = 56 /\ code["space"] = 57
  /\ code["caps"] = 58 /\ code["f1"] = 59 /\ code["f2"] = 60
  /\ code["f3"] = 61 /\ code["up"] = 72
  BY DEF code

LEMMA ModifierKeys ==
  /\ Keys("shift") = {"shift_left", "shift_right"}
  /\ Keys("ctrl") = {"ctrl", "ctrl_right"}
  /\ Keys("alt") = {"alt"} /\ Keys("caps") = {"caps"}
  BY DEF Keys

LEMMA ModifierCodesValue ==
  ModifierCodes = {29, 42, 54, 56, 58, 157, 170, 182, 184}
<1> DEFINE keys == UNION {Keys(m) : m \in Modifiers}
<1>1. keys = {"shift_left", "shift_right", "ctrl", "ctrl_right", "alt",
              "caps"}
  BY ModifierKeys DEF Modifiers
<1>2. {code[k] : k \in keys} = {29, 42, 54, 56, 58}
  BY <1>1, Codes
<1>3. {Released(code[k]) : k \in keys \ {"caps"}} = {157, 170, 182, 184}
  BY <1>1, Codes DEF Released
<1> QED BY <1>2, <1>3 DEF ModifierCodes

LEMMA AfterOwn ==
  ASSUME NEW b
  PROVE  After(Own, b) = [shift |-> Shift(b), ctrl |-> Ctrl(b),
                          alt |-> Alt(b), caps |-> CapsLock(b)]
  BY Codes DEF After, Own, Shift, Ctrl, Alt, CapsLock, Released

LEMMA TypedKeys ==
  ASSUME NEW b
  PROVE  Of(b) \cap DOMAIN kbdus =
           IF b = 2 THEN {"one"} ELSE IF b = 30 THEN {"a"}
           ELSE IF b = 38 THEN {"l"} ELSE IF b = 57 THEN {"space"} ELSE {}
<1>1. DOMAIN kbdus = {"one", "a", "l", "space"}
  BY DEF kbdus
<1> QED BY <1>1, Codes DEF Of

LEMMA EffectOwn ==
  ASSUME kbd_shift \in Bit, kbd_ctrl \in Bit, kbd_alt \in Bit,
         kbd_caps_lock \in Bit, NEW b \in Nat
  PROVE  Effect(b) = EffectOf(Own, b)
<1> DEFINE typed == Of(b) \cap DOMAIN kbdus
<1>1. CASE b = 2
  <2>1. typed = {"one"} /\ b \notin ModifierCodes
    BY <1>1, TypedKeys, ModifierCodesValue
  <2>2. (CHOOSE k \in typed : TRUE) = "one"
    BY <2>1
  <2>3. Character("one") = TypedOf(Own, 2)
    BY DEF Character, TypedOf, Own, kbdus, kbdus_shift, Upper, Lower, Bit
  <2> QED BY <1>1, <2>1, <2>2, <2>3, Codes DEF Effect, EffectOf
<1>2. CASE b = 30
  <2>1. typed = {"a"} /\ b \notin ModifierCodes
    BY <1>2, TypedKeys, ModifierCodesValue
  <2>2. (CHOOSE k \in typed : TRUE) = "a"
    BY <2>1
  <2>3. Character("a") = TypedOf(Own, 30)
    BY DEF Character, TypedOf, Own, kbdus, kbdus_shift, Upper, Lower, Bit
  <2> QED BY <1>2, <2>1, <2>2, <2>3, Codes DEF Effect, EffectOf
<1>3. CASE b = 38
  <2>1. typed = {"l"} /\ b \notin ModifierCodes
    BY <1>3, TypedKeys, ModifierCodesValue
  <2>2. (CHOOSE k \in typed : TRUE) = "l"
    BY <2>1
  <2>3. Character("l") = TypedOf(Own, 38)
    BY DEF Character, TypedOf, Own, kbdus, kbdus_shift, Upper, Lower, Bit
  <2> QED BY <1>3, <2>1, <2>2, <2>3, Codes DEF Effect, EffectOf, Own
<1>4. CASE b = 57
  <2>1. typed = {"space"} /\ b \notin ModifierCodes
    BY <1>4, TypedKeys, ModifierCodesValue
  <2>2. (CHOOSE k \in typed : TRUE) = "space"
    BY <2>1
  <2>3. Character("space") = TypedOf(Own, 57)
    BY DEF Character, TypedOf, Own, kbdus, kbdus_shift, Upper, Lower, Bit
  <2> QED BY <1>4, <2>1, <2>2, <2>3, Codes DEF Effect, EffectOf
<1>5. CASE b \notin {2, 30, 38, 57}
  <2>1. typed = {}
    BY <1>5, TypedKeys
  <2> QED BY <1>5, <2>1, ModifierCodesValue, Codes
          DEF Effect, EffectOf, Own
<1> QED BY <1>1, <1>2, <1>3, <1>4, <1>5

-----------------------------------------------------------------------------
(* The flags along the queue. *)

Meant == {None, Unknown} \cup {EffectOf(f, b) : f \in Flags, b \in Nat}

Entries == [code : Nat, meant : Meant]

\* An entry that means what its code does under flags f.
Fits(f, e) == e.meant \in {Unknown, EffectOf(f, e.code)}

\* The codes of q take the flags from f to g, each with its own effect.
Leads(q, f, g) ==
  \E F \in [1 .. Len(q) + 1 -> Flags] :
    /\ F[1] = f /\ F[Len(q) + 1] = g
    /\ \A i \in 1 .. Len(q) :
         F[i + 1] = After(F[i], q[i].code) /\ Fits(F[i], q[i])

LEMMA AfterType ==
  ASSUME NEW f \in Flags, NEW b
  PROVE  After(f, b) \in Flags
<1>1. f.shift \in Bit /\ f.ctrl \in Bit /\ f.alt \in Bit /\ f.caps \in Bit
  BY DEF Flags
<1>2. (f.caps + 1) % 2 \in Bit
  BY <1>1 DEF Bit
<1> QED BY <1>1, <1>2 DEF After, Flags, Bit

LEMMA LeadsEmpty ==
  ASSUME NEW f \in Flags
  PROVE  Leads(<<>>, f, f)
<1>1. Len(<<>>) = 0 /\ 1 .. 0 = {}
  OBVIOUS
<1> DEFINE F == [i \in 1 .. 0 + 1 |-> f]
<1>2. F \in [1 .. 0 + 1 -> Flags] /\ F[1] = f /\ F[0 + 1] = f
  OBVIOUS
<1> HIDE DEF F
<1>3. \E G \in [1 .. 0 + 1 -> Flags] :
        /\ G[1] = f /\ G[0 + 1] = f
        /\ \A i \in 1 .. 0 :
             G[i + 1] = After(G[i], <<>>[i].code) /\ Fits(G[i], <<>>[i])
  BY ONLY <1>1, <1>2
<1> QED BY <1>1, <1>3 DEF Leads

LEMMA LeadsAppend ==
  ASSUME NEW q \in Seq(Entries), NEW f \in Flags, NEW g \in Flags,
         NEW e \in Entries, Leads(q, f, g), Fits(g, e)
  PROVE  Leads(Append(q, e), f, After(g, e.code))
<1> DEFINE n == Len(q)
           h == After(g, e.code)
           r == Append(q, e)
<1>1. n \in Nat /\ h \in Flags
  BY AfterType
<1>2. Len(r) = n + 1 /\ r[n + 1] = e /\ \A i \in 1 .. n : r[i] = q[i]
  OBVIOUS
<1>3. PICK F \in [1 .. n + 1 -> Flags] :
        /\ F[1] = f /\ F[n + 1] = g
        /\ \A i \in 1 .. n :
             F[i + 1] = After(F[i], q[i].code) /\ Fits(F[i], q[i])
  BY DEF Leads
<1> DEFINE G == [i \in 1 .. (n + 1) + 1 |-> IF i = n + 2 THEN h ELSE F[i]]
<1> HIDE DEF n, h, r
<1>4. G \in [1 .. (n + 1) + 1 -> Flags]
  BY <1>1, <1>3
<1>5. G[1] = f /\ G[(n + 1) + 1] = h
  BY <1>1, <1>3
<1>6. ASSUME NEW i \in 1 .. n + 1
      PROVE  G[i + 1] = After(G[i], r[i].code) /\ Fits(G[i], r[i])
  <2>1. CASE i = n + 1
    BY <1>1, <1>2, <1>3, <2>1 DEF h
  <2>2. CASE i # n + 1
    <3>1. i \in 1 .. n /\ G[i] = F[i] /\ G[i + 1] = F[i + 1]
      BY <1>1, <2>2
    <3>2. F[i + 1] = After(F[i], q[i].code) /\ Fits(F[i], q[i])
      BY <1>3, <3>1
    <3>3. r[i] = q[i]
      BY <1>2, <3>1
    <3> QED BY ONLY <3>1, <3>2, <3>3
  <2> QED BY <2>1, <2>2
<1> HIDE DEF G
<1>7. Len(r) + 1 = (n + 1) + 1 /\ 1 .. Len(r) = 1 .. n + 1
  BY <1>2
<1>8. Leads(r, f, h)
  BY <1>4, <1>5, <1>6, <1>7 DEF Leads
<1> QED BY <1>8 DEF r, h

LEMMA LeadsTail ==
  ASSUME NEW q \in Seq(Entries), NEW f \in Flags, NEW g \in Flags,
         q # <<>>, Leads(q, f, g)
  PROVE  /\ Fits(f, Head(q))
         /\ Leads(Tail(q), After(f, Head(q).code), g)
<1> DEFINE n == Len(q)
           r == Tail(q)
<1>1. n \in Nat /\ n >= 1
  OBVIOUS
<1>2. /\ Len(r) = n - 1 /\ Head(q) = q[1]
      /\ \A i \in 1 .. n - 1 : r[i] = q[i + 1]
  OBVIOUS
<1>3. PICK F \in [1 .. n + 1 -> Flags] :
        /\ F[1] = f /\ F[n + 1] = g
        /\ \A i \in 1 .. n :
             F[i + 1] = After(F[i], q[i].code) /\ Fits(F[i], q[i])
  BY DEF Leads
<1> DEFINE G == [i \in 1 .. (n - 1) + 1 |-> F[i + 1]]
<1> HIDE DEF n, r
<1>4. G \in [1 .. (n - 1) + 1 -> Flags]
  BY <1>1, <1>3
<1>5. G[1] = After(f, Head(q).code) /\ G[(n - 1) + 1] = g
  BY <1>1, <1>2, <1>3
<1>6. ASSUME NEW i \in 1 .. n - 1
      PROVE  G[i + 1] = After(G[i], r[i].code) /\ Fits(G[i], r[i])
  <2>1. i + 1 \in 1 .. n /\ G[i] = F[i + 1] /\ G[i + 1] = F[(i + 1) + 1]
    BY <1>1
  <2> QED BY <1>2, <1>3, <2>1
<1>7. Fits(f, Head(q))
  BY <1>1, <1>2, <1>3
<1> QED BY <1>2, <1>4, <1>5, <1>6, <1>7 DEF Leads, r

-----------------------------------------------------------------------------
(* The inductive invariant. *)

\* What can be known of the keys that are down is what flags g say.
Agrees(g) ==
  /\ "shift" \in synced => (g.shift = 1 <=> Down("shift"))
  /\ "ctrl" \in synced => (g.ctrl = 1 <=> Down("ctrl"))
  /\ "alt" \in synced => (g.alt = 1 <=> Down("alt"))
  /\ "caps" \in synced => (g.caps = 1 <=> caps)

\* One key of a modifier is down at a time.
OneHeld ==
  /\ ~({"shift_left", "shift_right"} \subseteq held)
  /\ ~({"ctrl", "ctrl_right"} \subseteq held)

KeyTypes ==
  /\ held \subseteq DOMAIN code
  /\ caps \in BOOLEAN
  /\ queue \in Seq(Entries)
  /\ synced \subseteq Modifiers
  /\ kbd_shift \in Bit /\ kbd_ctrl \in Bit
  /\ kbd_alt \in Bit /\ kbd_caps_lock \in Bit

Follows ==
  /\ KeyTypes
  /\ OneHeld
  /\ \E g \in Flags : Leads(queue, Own, g) /\ Agrees(g)

\* The meaning of a key is its effect under flags that agree with the keys.
LEMMA MeaningIsEffect ==
  ASSUME NEW g \in Flags, Agrees(g), synced = Modifiers,
         caps \in BOOLEAN, NEW k \in DOMAIN code
  PROVE  Meaning(k) = EffectOf(g, code[k])
<1>1. /\ g.shift = 1 <=> Down("shift")
      /\ g.ctrl = 1 <=> Down("ctrl")
      /\ g.alt = 1 <=> Down("alt")
      /\ g.caps = 1 <=> caps
  BY DEF Agrees, Modifiers
<1>2. g.shift \in {0, 1} /\ g.caps \in {0, 1}
  BY DEF Flags, Bit
<1>3. (Down("shift") # caps) <=> g.shift # g.caps
  <2>1. (Down("shift") # caps) <=> ~(Down("shift") <=> caps)
    <3>1. Down("shift") \in BOOLEAN
      BY DEF Down
    <3> QED BY <3>1
  <2>2. (g.shift = 1 <=> g.caps = 1) <=> g.shift = g.caps
    BY <1>2
  <2> QED BY <1>1, <2>1, <2>2
<1>4. CASE k = "one"
  BY <1>1, <1>4, Codes
     DEF Meaning, EffectOf, TypedOf, kbdus, kbdus_shift, Letters
<1>5. CASE k = "space"
  <2>1. Meaning(k) = <<"type", " ">>
    BY <1>5 DEF Meaning, kbdus, kbdus_shift, Letters
  <2>2. EffectOf(g, 57) = <<"type", " ">>
    <3>1. TypedOf(g, 57) = " "
      BY DEF TypedOf
    <3>2. EffectOf(g, 57) = <<"type", TypedOf(g, 57)>>
      BY DEF EffectOf
    <3> QED BY ONLY <3>1, <3>2
  <2> QED BY <1>5, <2>1, <2>2, Codes
<1>6. CASE k = "a"
  BY <1>3, <1>6, Codes DEF Meaning, EffectOf, TypedOf, Upper, Letters
<1>7. CASE k = "l"
  BY <1>1, <1>3, <1>7, Codes DEF Meaning, EffectOf, TypedOf, Upper, Letters
<1>8. CASE k \in {"f1", "f2", "f3"}
  BY <1>1, <1>8, Codes DEF Meaning, EffectOf, Letters
<1>9. CASE k \notin {"one", "space", "a", "l", "f1", "f2", "f3"}
  BY <1>9, Codes DEF Meaning, EffectOf, Letters
<1> QED BY <1>4, <1>5, <1>6, <1>7, <1>8, <1>9

LEMMA ConcatTwo ==
  ASSUME NEW S, NEW q \in Seq(S), NEW a \in S, NEW b \in S
  PROVE  q \o <<a, b>> = Append(Append(q, a), b)
<1>1. /\ <<a, b>> \in Seq(S) /\ Len(<<a, b>>) = 2
      /\ <<a, b>>[1] = a /\ <<a, b>>[2] = b
  OBVIOUS
<1>2. Append(q, a) \in Seq(S) /\ Append(Append(q, a), b) \in Seq(S)
  OBVIOUS
<1>3. /\ q \o <<a, b>> \in Seq(S)
      /\ Len(q \o <<a, b>>) = Len(Append(Append(q, a), b))
  BY <1>1, <1>2
<1>4. ASSUME NEW i \in 1 .. Len(q \o <<a, b>>)
      PROVE  (q \o <<a, b>>)[i] = Append(Append(q, a), b)[i]
  BY <1>1, <1>2
<1> QED BY <1>2, <1>3, <1>4, SeqEqual

\* A code with what it means, kept or lost.
Mods(k) == {m \in Modifiers : k \in Keys(m)}

LEMMA SendLeads ==
  ASSUME KeyTypes, NEW g \in Flags, Leads(queue, Own, g),
         NEW k, NEW c \in Nat, c # PREFIX, NEW meant,
         synced = Modifiers => meant = EffectOf(g, c),
         Send(k, c, meant)
  PROVE  \/ /\ queue' \in Seq(Entries)
            /\ Leads(queue', Own, After(g, c))
            /\ synced' = synced \cup (Mods(k) \ {"caps"})
         \/ /\ queue' = queue
            /\ synced' = synced \ Mods(k)
<1> DEFINE codes == IF k \in Prefixed THEN <<PREFIX, c>> ELSE <<c>>
           entry(b) == [code  |-> b,
                        meant |-> IF b = PREFIX THEN None
                                  ELSE IF synced = Modifiers THEN meant
                                  ELSE Unknown]
           put == [i \in DOMAIN codes |-> entry(codes[i])]
<1>1. CASE ~(Len(queue) + Len(codes) <= Capacity)
  BY <1>1 DEF Send, Mods
<1>2. CASE Len(queue) + Len(codes) <= Capacity
  <2>1. /\ queue' = queue \o put
        /\ synced' = synced \cup (Mods(k) \ {"caps"})
    BY <1>2 DEF Send, Mods
  <2>2. entry(c) \in Entries /\ Fits(g, entry(c)) /\ entry(c).code = c
    <3>1. entry(c).meant = IF synced = Modifiers THEN EffectOf(g, c)
                           ELSE Unknown
      OBVIOUS
    <3> QED BY <3>1 DEF Entries, Meant, Fits
  <2>3. /\ entry(PREFIX) \in Entries /\ Fits(g, entry(PREFIX))
        /\ entry(PREFIX).code = PREFIX
    <3>1. EffectOf(g, PREFIX) = None
      BY DEF EffectOf, PREFIX
    <3>2. entry(PREFIX) = [code |-> PREFIX, meant |-> None]
      OBVIOUS
    <3> HIDE DEF entry
    <3> QED BY <3>1, <3>2 DEF Entries, Meant, Fits, PREFIX
  <2>4. After(g, PREFIX) = g
    BY DEF After, PREFIX, Flags
  <2> HIDE DEF entry
  <2>5. Own \in Flags /\ queue \in Seq(Entries)
    BY DEF KeyTypes, Own, Flags
  <2> PICK q : q = queue
    OBVIOUS
  <2> PICK own : own = Own
    OBVIOUS
  <2> PICK pre : pre = entry(PREFIX)
    OBVIOUS
  <2> PICK e : e = entry(c)
    OBVIOUS
  <2>6. /\ q \in Seq(Entries) /\ own \in Flags /\ Leads(q, own, g)
        /\ e \in Entries /\ Fits(g, e) /\ e.code = c
        /\ pre \in Entries /\ Fits(g, pre) /\ pre.code = PREFIX
    BY <2>2, <2>3, <2>5
  <2>7. CASE k \in Prefixed
    <3>1. put = <<pre, e>>
      <4>1. codes = <<PREFIX, c>> /\ DOMAIN codes = {1, 2}
        BY <2>7
      <4>2. codes[1] = PREFIX /\ codes[2] = c
        BY <4>1
      <4> HIDE DEF codes
      <4> QED BY <4>1, <4>2
    <3>2. q \o <<pre, e>> = Append(Append(q, pre), e)
      BY <2>6, ConcatTwo
    <3>3. Append(q, pre) \in Seq(Entries) /\ Leads(Append(q, pre), own, g)
      BY <2>4, <2>6, LeadsAppend
    <3>4. /\ Append(Append(q, pre), e) \in Seq(Entries)
          /\ Leads(Append(Append(q, pre), e), own, After(g, c))
      <4> PICK r : r = Append(q, pre)
        OBVIOUS
      <4>1. r \in Seq(Entries) /\ Leads(r, own, g)
        BY <3>3
      <4>2. Append(r, e) \in Seq(Entries)
        BY <2>6, <4>1
      <4>3. Leads(Append(r, e), own, After(g, e.code))
        BY <2>6, <4>1, LeadsAppend
      <4> QED BY <2>6, <4>2, <4>3
    <3> QED BY <2>1, <3>1, <3>2, <3>4
  <2>8. CASE k \notin Prefixed
    <3>1. put = <<e>>
      <4>1. codes = <<c>> /\ DOMAIN codes = {1} /\ codes[1] = c
        BY <2>8
      <4> HIDE DEF codes
      <4> QED BY <4>1
    <3>2. q \o <<e>> = Append(q, e)
      BY <2>6, AppendIsConcat
    <3>3. /\ Append(q, e) \in Seq(Entries)
          /\ Leads(Append(q, e), own, After(g, c))
      BY <2>6, LeadsAppend
    <3> QED BY <2>1, <3>1, <3>2, <3>3
  <2> QED BY <2>7, <2>8
<1> QED BY <1>1, <1>2

-----------------------------------------------------------------------------
(* The codes of a key and its modifier. *)

LEMMA KeyModifier ==
  ASSUME NEW k \in DOMAIN code
  PROVE  /\ "shift" \in Mods(k) <=> k \in {"shift_left", "shift_right"}
         /\ "ctrl" \in Mods(k) <=> k \in {"ctrl", "ctrl_right"}
         /\ "alt" \in Mods(k) <=> k = "alt"
         /\ "caps" \in Mods(k) <=> k = "caps"
         /\ Mods(k) \subseteq Modifiers
  BY ModifierKeys DEF Mods, Modifiers

\* A press, and a press again, of a key other than caps lock.
LEMMA AfterPress ==
  ASSUME NEW k \in DOMAIN code, NEW g \in Flags
  PROVE  LET h == After(g, code[k]) IN
         /\ h.shift = IF k \in {"shift_left", "shift_right"}
                      THEN 1 ELSE g.shift
         /\ h.ctrl = IF k \in {"ctrl", "ctrl_right"} THEN 1 ELSE g.ctrl
         /\ h.alt = IF k = "alt" THEN 1 ELSE g.alt
         /\ h.caps = IF k = "caps" THEN (g.caps + 1) % 2 ELSE g.caps
         /\ code[k] \in Nat /\ code[k] # PREFIX
<1> DEFINE h == After(g, code[k])
<1>1. /\ h.shift = IF code[k] \in {42, 54} THEN 1
                   ELSE IF code[k] \in {170, 182} THEN 0 ELSE g.shift
      /\ h.ctrl = IF code[k] = 29 THEN 1
                  ELSE IF code[k] = 157 THEN 0 ELSE g.ctrl
      /\ h.alt = IF code[k] = 56 THEN 1
                 ELSE IF code[k] = 184 THEN 0 ELSE g.alt
      /\ h.caps = IF code[k] = 58 THEN (g.caps + 1) % 2 ELSE g.caps
  BY DEF After
<1>2. /\ code[k] \in {42, 54} <=> k \in {"shift_left", "shift_right"}
      /\ code[k] = 29 <=> k \in {"ctrl", "ctrl_right"}
      /\ code[k] = 56 <=> k = "alt"
      /\ code[k] = 58 <=> k = "caps"
      /\ code[k] \in 1 .. 72
  BY Codes
<1> HIDE DEF h
<1> QED BY <1>1, <1>2 DEF PREFIX, h

LEMMA AfterRelease ==
  ASSUME NEW k \in DOMAIN code, NEW g \in Flags
  PROVE  LET c == Released(code[k])
             h == After(g, c) IN
         /\ h.shift = IF k \in {"shift_left", "shift_right"}
                      THEN 0 ELSE g.shift
         /\ h.ctrl = IF k \in {"ctrl", "ctrl_right"} THEN 0 ELSE g.ctrl
         /\ h.alt = IF k = "alt" THEN 0 ELSE g.alt
         /\ h.caps = g.caps
         /\ c \in Nat /\ c # PREFIX /\ EffectOf(g, c) = None
<1> DEFINE c == Released(code[k])
           h == After(g, c)
<1>1. /\ h.shift = IF c \in {42, 54} THEN 1
                   ELSE IF c \in {170, 182} THEN 0 ELSE g.shift
      /\ h.ctrl = IF c = 29 THEN 1 ELSE IF c = 157 THEN 0 ELSE g.ctrl
      /\ h.alt = IF c = 56 THEN 1 ELSE IF c = 184 THEN 0 ELSE g.alt
      /\ h.caps = IF c = 58 THEN (g.caps + 1) % 2 ELSE g.caps
  BY DEF After
<1>2. /\ c \in {170, 182} <=> k \in {"shift_left", "shift_right"}
      /\ c = 157 <=> k \in {"ctrl", "ctrl_right"}
      /\ c = 184 <=> k = "alt"
      /\ c \in 129 .. 200
  BY Codes DEF Released
<1> HIDE DEF c
<1>3. EffectOf(g, c) = None
  BY <1>2 DEF EffectOf
<1> HIDE DEF h
<1> QED BY <1>1, <1>2, <1>3 DEF PREFIX, h, c

-----------------------------------------------------------------------------
(* Every step keeps the invariant. *)

LEMMA FollowsPress ==
  ASSUME Follows, NEW k \in DOMAIN code, press(k)
  PROVE  Follows'
<1>1. PICK g \in Flags : Leads(queue, Own, g) /\ Agrees(g)
  BY DEF Follows
<1> DEFINE c == code[k]
           h == After(g, c)
<1>2. KeyTypes /\ OneHeld
  BY DEF Follows
<1>3. synced = Modifiers => Meaning(k) = EffectOf(g, c)
  BY <1>1, <1>2, MeaningIsEffect DEF KeyTypes
<1>4. c \in Nat /\ c # PREFIX /\ h \in Flags
  BY AfterPress, AfterType
<1>5. \/ /\ queue' \in Seq(Entries)
         /\ Leads(queue', Own, h)
         /\ synced' = synced \cup (Mods(k) \ {"caps"})
      \/ /\ queue' = queue
         /\ synced' = synced \ Mods(k)
  <2>1. Send(k, c, Meaning(k))
    BY DEF press
  <2> QED BY <1>1, <1>2, <1>3, <1>4, <2>1, SendLeads
<1>6. Own' = Own
  BY DEF press, Own, flags
<1>7. /\ held' = held \cup {k} /\ caps' = IF k = "caps" THEN ~caps ELSE caps
      /\ \A m \in Modifiers : k \in Keys(m) => ~Down(m)
  BY DEF press
<1>8. KeyTypes'
  BY <1>2, <1>5, <1>7, KeyModifier DEF KeyTypes, press, flags
<1>9. OneHeld'
  BY <1>2, <1>7, ModifierKeys DEF OneHeld, Down, Modifiers
<1>10. /\ Down("shift")' <=>
            Down("shift") \/ k \in {"shift_left", "shift_right"}
       /\ Down("ctrl")' <=> Down("ctrl") \/ k \in {"ctrl", "ctrl_right"}
       /\ Down("alt")' <=> Down("alt") \/ k = "alt"
  BY <1>7, ModifierKeys DEF Down
<1>11. CASE queue' = queue /\ synced' = synced \ Mods(k)
  <2>1. Agrees(g)'
    BY <1>1, <1>7, <1>10, <1>11, KeyModifier DEF Agrees
  <2> QED BY <1>1, <1>6, <1>8, <1>9, <1>11, <2>1 DEF Follows
<1>12. CASE /\ Leads(queue', Own, h)
            /\ synced' = synced \cup (Mods(k) \ {"caps"})
  <2>1. Agrees(h)'
    <3>1. g.caps \in {0, 1}
      BY DEF Flags, Bit
    <3>2. (g.caps + 1) % 2 = 1 <=> g.caps # 1
      BY <3>1
    <3> HIDE DEF h, c
    <3>3. /\ h.shift = IF k \in {"shift_left", "shift_right"}
                       THEN 1 ELSE g.shift
          /\ h.ctrl = IF k \in {"ctrl", "ctrl_right"} THEN 1 ELSE g.ctrl
          /\ h.alt = IF k = "alt" THEN 1 ELSE g.alt
          /\ h.caps = IF k = "caps" THEN (g.caps + 1) % 2 ELSE g.caps
      BY AfterPress DEF h, c
    <3>4. /\ "shift" \in synced' =>
               "shift" \in synced \/ k \in {"shift_left", "shift_right"}
          /\ "ctrl" \in synced' =>
               "ctrl" \in synced \/ k \in {"ctrl", "ctrl_right"}
          /\ "alt" \in synced' => "alt" \in synced \/ k = "alt"
          /\ "caps" \in synced' => "caps" \in synced
      BY <1>12, KeyModifier
    <3>5. /\ "shift" \in synced' => (h.shift = 1 <=> Down("shift")')
          /\ "ctrl" \in synced' => (h.ctrl = 1 <=> Down("ctrl")')
          /\ "alt" \in synced' => (h.alt = 1 <=> Down("alt")')
      BY <1>1, <1>10, <3>3, <3>4 DEF Agrees
    <3>6. "caps" \in synced' => (h.caps = 1 <=> caps')
      <4>1. CASE k = "caps"
        <5>1. caps' <=> ~caps
          BY <1>7, <4>1, Zenon
        <5>2. h.caps = 1 <=> g.caps # 1
          BY <3>2, <3>3, <4>1
        <5>3. "caps" \in synced => (g.caps = 1 <=> caps)
          BY <1>1 DEF Agrees
        <5> QED BY ONLY <3>4, <5>1, <5>2, <5>3
      <4>2. CASE k # "caps"
        BY <1>1, <1>7, <3>3, <3>4, <4>2 DEF Agrees
      <4> QED BY <4>1, <4>2
    <3> QED BY <3>5, <3>6 DEF Agrees
  <2>2. Leads(queue', Own', h)
    BY <1>6, <1>12
  <2> QED BY <1>4, <1>8, <1>9, <2>1, <2>2 DEF Follows
<1> QED BY <1>5, <1>11, <1>12

LEMMA FollowsRepeat ==
  ASSUME Follows, NEW k \in DOMAIN code, repeat(k)
  PROVE  Follows'
<1>1. PICK g \in Flags : Leads(queue, Own, g) /\ Agrees(g)
  BY DEF Follows
<1> DEFINE c == code[k]
           h == After(g, c)
<1>2. KeyTypes /\ OneHeld
  BY DEF Follows
<1>3. synced = Modifiers => Meaning(k) = EffectOf(g, c)
  BY <1>1, <1>2, MeaningIsEffect DEF KeyTypes
<1>4. c \in Nat /\ c # PREFIX /\ h \in Flags
  BY AfterPress, AfterType
<1>5. \/ /\ queue' \in Seq(Entries)
         /\ Leads(queue', Own, h)
         /\ synced' = synced \cup (Mods(k) \ {"caps"})
      \/ /\ queue' = queue
         /\ synced' = synced \ Mods(k)
  <2>1. Send(k, c, Meaning(k))
    BY DEF repeat
  <2> QED BY <1>1, <1>2, <1>3, <1>4, <2>1, SendLeads
<1>6. Own' = Own
  BY DEF repeat, Own, flags
<1>7. held' = held /\ caps' = caps /\ k \in held /\ k # "caps"
  BY DEF repeat
<1>8. KeyTypes'
  BY <1>2, <1>5, <1>7, KeyModifier DEF KeyTypes, repeat, flags
<1>9. OneHeld'
  BY <1>2, <1>7 DEF OneHeld
<1>10. /\ Down("shift")' <=> Down("shift")
       /\ Down("ctrl")' <=> Down("ctrl")
       /\ Down("alt")' <=> Down("alt")
       /\ k \in {"shift_left", "shift_right"} => Down("shift")
       /\ k \in {"ctrl", "ctrl_right"} => Down("ctrl")
       /\ k = "alt" => Down("alt")
  BY <1>7, ModifierKeys DEF Down
<1>11. CASE queue' = queue /\ synced' = synced \ Mods(k)
  <2>1. Agrees(g)'
    BY <1>1, <1>7, <1>10, <1>11 DEF Agrees
  <2> QED BY <1>1, <1>6, <1>8, <1>9, <1>11, <2>1 DEF Follows
<1>12. CASE /\ Leads(queue', Own, h)
            /\ synced' = synced \cup (Mods(k) \ {"caps"})
  <2> HIDE DEF h, c
  <2>1. /\ h.shift = IF k \in {"shift_left", "shift_right"}
                     THEN 1 ELSE g.shift
        /\ h.ctrl = IF k \in {"ctrl", "ctrl_right"} THEN 1 ELSE g.ctrl
        /\ h.alt = IF k = "alt" THEN 1 ELSE g.alt
        /\ h.caps = g.caps
    BY <1>7, AfterPress DEF h, c
  <2>2. /\ "shift" \in synced' =>
             "shift" \in synced \/ k \in {"shift_left", "shift_right"}
        /\ "ctrl" \in synced' =>
             "ctrl" \in synced \/ k \in {"ctrl", "ctrl_right"}
        /\ "alt" \in synced' => "alt" \in synced \/ k = "alt"
        /\ "caps" \in synced' => "caps" \in synced
    BY <1>12, KeyModifier
  <2>3. Agrees(h)'
    BY <1>1, <1>7, <1>10, <2>1, <2>2 DEF Agrees
  <2>4. Leads(queue', Own', h)
    BY <1>6, <1>12
  <2> QED BY <1>4, <1>8, <1>9, <2>3, <2>4 DEF Follows
<1> QED BY <1>5, <1>11, <1>12

LEMMA FollowsRelease ==
  ASSUME Follows, NEW k \in DOMAIN code, release(k)
  PROVE  Follows'
<1>1. PICK g \in Flags : Leads(queue, Own, g) /\ Agrees(g)
  BY DEF Follows
<1> DEFINE c == Released(code[k])
           h == After(g, c)
<1>2. KeyTypes /\ OneHeld
  BY DEF Follows
<1>3. EffectOf(g, c) = None
  BY AfterRelease
<1>4. c \in Nat /\ c # PREFIX /\ h \in Flags
  BY AfterRelease, AfterType
<1>5. \/ /\ queue' \in Seq(Entries)
         /\ Leads(queue', Own, h)
         /\ synced' = synced \cup (Mods(k) \ {"caps"})
      \/ /\ queue' = queue
         /\ synced' = synced \ Mods(k)
  <2>1. Send(k, c, None)
    BY DEF release
  <2> QED BY <1>1, <1>2, <1>3, <1>4, <2>1, SendLeads
<1>6. Own' = Own
  BY DEF release, Own, flags
<1>7. held' = held \ {k} /\ caps' = caps /\ k \in held
  BY DEF release
<1>8. KeyTypes'
  BY <1>2, <1>5, <1>7, KeyModifier DEF KeyTypes, release, flags
<1>9. OneHeld'
  BY <1>2, <1>7 DEF OneHeld
<1>10. /\ Down("shift")' <=>
            Down("shift") /\ k \notin {"shift_left", "shift_right"}
       /\ Down("ctrl")' <=> Down("ctrl") /\ k \notin {"ctrl", "ctrl_right"}
       /\ Down("alt")' <=> Down("alt") /\ k # "alt"
  BY <1>2, <1>7, ModifierKeys DEF Down, OneHeld
<1>11. CASE queue' = queue /\ synced' = synced \ Mods(k)
  <2>1. Agrees(g)'
    BY <1>1, <1>7, <1>10, <1>11, KeyModifier DEF Agrees
  <2> QED BY <1>1, <1>6, <1>8, <1>9, <1>11, <2>1 DEF Follows
<1>12. CASE /\ Leads(queue', Own, h)
            /\ synced' = synced \cup (Mods(k) \ {"caps"})
  <2> HIDE DEF h, c
  <2>1. /\ h.shift = IF k \in {"shift_left", "shift_right"}
                     THEN 0 ELSE g.shift
        /\ h.ctrl = IF k \in {"ctrl", "ctrl_right"} THEN 0 ELSE g.ctrl
        /\ h.alt = IF k = "alt" THEN 0 ELSE g.alt
        /\ h.caps = g.caps
    BY AfterRelease DEF h, c
  <2>2. /\ "shift" \in synced' =>
             "shift" \in synced \/ k \in {"shift_left", "shift_right"}
        /\ "ctrl" \in synced' =>
             "ctrl" \in synced \/ k \in {"ctrl", "ctrl_right"}
        /\ "alt" \in synced' => "alt" \in synced \/ k = "alt"
        /\ "caps" \in synced' => "caps" \in synced
    BY <1>12, KeyModifier
  <2>3. Agrees(h)'
    BY <1>1, <1>7, <1>10, <2>1, <2>2 DEF Agrees
  <2>4. Leads(queue', Own', h)
    BY <1>6, <1>12
  <2> QED BY <1>4, <1>8, <1>9, <2>3, <2>4 DEF Follows
<1> QED BY <1>5, <1>11, <1>12

LEMMA FollowsHandle ==
  ASSUME Follows, handle_keyboard_interrupt
  PROVE  Follows'
<1>1. PICK g \in Flags : Leads(queue, Own, g) /\ Agrees(g)
  BY DEF Follows
<1>2. /\ KeyTypes /\ OneHeld
      /\ queue # <<>> /\ queue' = Tail(queue)
      /\ held' = held /\ caps' = caps /\ synced' = synced
  BY DEF Follows, handle_keyboard_interrupt
<1>3. Own \in Flags
  BY <1>2 DEF KeyTypes, Own, Flags
<1> DEFINE b == Head(queue).code
<1>4. Own' = After(Own, b)
  BY AfterOwn DEF handle_keyboard_interrupt, Own
<1>5. Own' \in Flags
  BY <1>3, <1>4, AfterType
<1>6. Leads(queue', Own', g)
  BY <1>1, <1>2, <1>3, <1>4, LeadsTail DEF KeyTypes
<1>7. KeyTypes'
  <2>1. queue' \in Seq(Entries)
    BY <1>2 DEF KeyTypes
  <2>2. /\ kbd_shift' \in Bit /\ kbd_ctrl' \in Bit
        /\ kbd_alt' \in Bit /\ kbd_caps_lock' \in Bit
    BY <1>5 DEF Own, Flags
  <2> QED BY <1>2, <2>1, <2>2 DEF KeyTypes
<1>8. OneHeld' /\ Agrees(g)'
  BY <1>1, <1>2 DEF OneHeld, Agrees, Down
<1> QED BY <1>6, <1>7, <1>8 DEF Follows

LEMMA FollowsInit ==
  ASSUME Init
  PROVE  Follows
<1>1. KeyTypes /\ OneHeld
  <2>1. caps \in BOOLEAN
    BY Zenon DEF Init
  <2> QED BY <2>1 DEF Init, KeyTypes, OneHeld, Bit
<1>2. Own \in Flags /\ Leads(queue, Own, Own)
  BY <1>1, LeadsEmpty DEF Init, KeyTypes, Own, Flags
<1>3. Agrees(Own)
  BY DEF Init, Agrees, Own, Down
<1> QED BY <1>1, <1>2, <1>3 DEF Follows

LEMMA FollowsStutter ==
  ASSUME Follows, UNCHANGED vars
  PROVE  Follows'
<1>1. PICK g \in Flags : Leads(queue, Own, g) /\ Agrees(g)
  BY DEF Follows
<1>2. /\ queue' = queue /\ Own' = Own /\ held' = held /\ caps' = caps
      /\ synced' = synced
  BY DEF vars, flags, Own
<1>3. KeyTypes' /\ OneHeld'
  BY DEF Follows, KeyTypes, OneHeld, vars, flags
<1>4. Leads(queue', Own', g) /\ Agrees(g)'
  BY <1>1, <1>2 DEF Agrees, Down
<1> QED BY <1>3, <1>4 DEF Follows

LEMMA FollowsHandled ==
  ASSUME Follows
  PROVE  HandledAsMeant
<1>1. PICK g \in Flags : Leads(queue, Own, g) /\ Agrees(g)
  BY DEF Follows
<1>2. KeyTypes
  BY DEF Follows
<1>3. SUFFICES ASSUME queue # <<>>
               PROVE  Head(queue).meant \in {Unknown,
                                             Effect(Head(queue).code)}
  BY DEF HandledAsMeant
<1>4. queue \in Seq(Entries) /\ Own \in Flags
  BY <1>2 DEF KeyTypes, Own, Flags
<1>5. Fits(Own, Head(queue))
  BY <1>1, <1>3, <1>4, LeadsTail
<1>6. Head(queue) \in Entries
  BY <1>3, <1>4
<1>7. Head(queue).code \in Nat
  BY <1>6 DEF Entries
<1>8. Effect(Head(queue).code) = EffectOf(Own, Head(queue).code)
  BY <1>2, <1>7, EffectOwn DEF KeyTypes
<1> QED BY <1>5, <1>8 DEF Fits

\* The theorem of the run, for every set of keys, every size of the queue and
\* every number of keys held: handle_keyboard_interrupt gives each code the
\* effect that its key had for the user when it was pressed.
THEOREM HandledAsPressed == Spec => []HandledAsMeant
<1>1. Init => Follows
  BY FollowsInit
<1>2. Follows /\ [Next]_vars => Follows'
  BY FollowsPress, FollowsRelease, FollowsRepeat, FollowsHandle,
     FollowsStutter, KeyAssumption DEF Next
<1>3. Follows => HandledAsMeant
  BY FollowsHandled
<1> QED BY <1>1, <1>2, <1>3, PTL DEF Spec
=============================================================================

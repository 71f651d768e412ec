------------------------------ MODULE Library ------------------------------
(***************************************************************************)
(* The library of the kernel (student-distrib/lib.c): the memory and       *)
(* string routines, itoa and printf, each from what its instructions do.   *)
(*                                                                         *)
(* A step is one call.  Calls share the memory and the processor's         *)
(* direction flag, which memmove leaves set.  A word of the machine has    *)
(* HEXDIGITS hexadecimal digits (8 in the code).                           *)
(***************************************************************************)
EXTENDS Integers, Sequences, SequencesExt

CONSTANTS
  MEMSIZE,     \* size of the memory
  Memory,      \* what it may hold at first
  HEXDIGITS,
  Radix,       \* radices that itoa is called with
  Format,      \* sequences of directives that make up formats
  MaxCalls     \* bound: calls in a row

Addr   == 0 .. MEMSIZE - 1
WORD   == 16 ^ HEXDIGITS
Number == 0 .. WORD - 1
Byte   == 0 .. 255
Len4   == 4                     \* bytes that stosl and movsl move

ASSUME LibraryAssumption ==
  /\ HEXDIGITS \in Nat \ {0} /\ WORD \in Nat /\ MaxCalls \in Nat
  /\ MEMSIZE \in Nat /\ Memory \subseteq [Addr -> Byte]
  /\ \A r \in Radix : r \in 2 .. 36

VARIABLES
  mem,         \* mem[a]: the byte at address a
  df,          \* the direction flag is set
  call,        \* history: the last call,
  before,      \*   the memory before it,
  ret,         \*   and what it returned or printed
  calls        \* calls so far

vars == <<mem, df, call, before, ret, calls>>

Init ==
  /\ mem \in Memory /\ before = mem
  /\ df = FALSE
  /\ call = [fn |-> "none"] /\ ret = <<>> /\ calls = 0

\* What every call does besides its work on the memory.
Called(c) ==
  /\ calls' = calls + 1
  /\ call' = c /\ before' = mem

\* A call that nothing later depends on: the last in a row.
CalledLast(c) ==
  /\ calls = 0 /\ calls' = MaxCalls
  /\ call' = c /\ before' = mem

-----------------------------------------------------------------------------
(* String instructions: size bytes, ecx times, upwards or downwards. *)

\* The address of the k-th unit (from 0).
UnitAt(reg, size, k, down) == IF down THEN reg - k * size ELSE reg + k * size

\* rep stos: value[i] is byte i of the register.
RepStos(m, edi, value, size, ecx, down) ==
  [a \in Addr |->
     LET hit == {k \in 0 .. ecx - 1 :
                   a - UnitAt(edi, size, k, down) \in 0 .. size - 1}
     IN  IF hit = {} THEN m[a]
         ELSE value[a - UnitAt(edi, size, CHOOSE k \in hit : TRUE, down) + 1]]

\* rep movs: each unit is read before it is written, one after the other.
RepMovs(m, edi, esi, size, ecx, down) ==
  LET move[k \in 0 .. ecx] ==
        IF k = 0 THEN m
        ELSE LET done == move[k - 1]
                 to   == UnitAt(edi, size, k - 1, down)
                 from == UnitAt(esi, size, k - 1, down)
             IN  [a \in Addr |-> IF a - to \in 0 .. size - 1
                                 THEN done[from + a - to] ELSE done[a]]
  IN  move[ecx]

\* The bytes before the next address that is a multiple of 4, of n at most.
Head_(addr, n) ==
  LET toAligned == (Len4 - (addr % Len4)) % Len4
  IN  IF n < toAligned THEN n ELSE toAligned

\* What a byte of a register counts, the lowest first.
PlaceValue == <<1, 256, 65536, 16777216>>

\* The low size bytes of a value, the lowest first.
Bytes(c, size) == [i \in 1 .. size |-> (c \div PlaceValue[i]) % 256]

-----------------------------------------------------------------------------
(* Memory routines. *)

\* Mutant: the direction flag is not cleared.
memset_no_cld(s, c, n) ==
  LET head  == Head_(s, n)
      words == (n - head) \div Len4
      tail  == (n - head) % Len4
      al    == [i \in 1 .. Len4 |-> c % 256]
      m1    == RepStos(mem, s, al, 1, head, FALSE)
      m2    == RepStos(m1, s + head, al, Len4, words, df)
  IN  /\ mem' = RepStos(m2, s + head + Len4 * words, al, 1, tail, FALSE)
      /\ UNCHANGED <<df, ret>>
      /\ Called([fn |-> "memset", s |-> s, c |-> c, n |-> n])

\* Single bytes up to an aligned address, then stosl, then single bytes.  The
\* flag is cleared (cld) on the way to stosl.
memset(s, c, n) ==
  LET head  == Head_(s, n)
      words == (n - head) \div Len4
      tail  == (n - head) % Len4
      al    == [i \in 1 .. Len4 |-> c % 256]
      m1    == RepStos(mem, s, al, 1, head, FALSE)
      m2    == RepStos(m1, s + head, al, Len4, words, FALSE)
  IN  /\ mem' = RepStos(m2, s + head + Len4 * words, al, 1, tail, FALSE)
      /\ df' = IF n = head THEN df ELSE FALSE
      /\ UNCHANGED ret
      /\ Called([fn |-> "memset", s |-> s, c |-> c, n |-> n])

memset_word(s, c, n) ==
  /\ mem' = RepStos(mem, s, Bytes(c, 2), 2, n, FALSE)
  /\ df' = FALSE
  /\ UNCHANGED ret
  /\ Called([fn |-> "memset_word", s |-> s, c |-> c, n |-> n])

memset_dword(s, c, n) ==
  /\ mem' = RepStos(mem, s, Bytes(c, 4), Len4, n, FALSE)
  /\ df' = FALSE
  /\ UNCHANGED ret
  /\ Called([fn |-> "memset_dword", s |-> s, c |-> c, n |-> n])

\* Single bytes up to an aligned destination, then movsl, then single bytes.
memcpy(dest, src, n) ==
  LET head  == Head_(dest, n)
      words == (n - head) \div Len4
      tail  == (n - head) % Len4
      past  == head + Len4 * words
      m1    == RepMovs(mem, dest, src, 1, head, FALSE)
      m2    == RepMovs(m1, dest + head, src + head, Len4, words, FALSE)
  IN  /\ mem' = RepMovs(m2, dest + past, src + past, 1, tail, FALSE)
      /\ df' = IF n = head THEN df ELSE FALSE
      /\ UNCHANGED ret
      /\ Called([fn |-> "memcpy", s |-> src, d |-> dest, n |-> n])

\* Downwards from the last byte when the destination lies above the source;
\* nothing clears the flag again.
memmove(dest, src, n) ==
  LET down == src < dest
      last == IF down THEN n - 1 ELSE 0
  IN  /\ mem' = RepMovs(mem, dest + last, src + last, 1, n, down)
      /\ df' = down
      /\ UNCHANGED ret
      /\ Called([fn |-> "memmove", s |-> src, d |-> dest, n |-> n])

-----------------------------------------------------------------------------
(* Strings. *)

\* The address where the string at s ends; there is one.
EndOf(m, s) ==
  CHOOSE e \in Addr : /\ e >= s /\ m[e] = 0
                      /\ \A a \in s .. e - 1 : m[a] # 0

IsString(m, s) == \E e \in Addr : e >= s /\ m[e] = 0

StringAt(m, s) == [k \in 1 .. EndOf(m, s) - s |-> m[s + k - 1]]

Put(m, at, bytes) ==
  [a \in Addr |-> IF a - at \in 0 .. Len(bytes) - 1
                  THEN bytes[a - at + 1] ELSE m[a]]

strlen(s) ==
  /\ IsString(mem, s)
  /\ ret' = EndOf(mem, s) - s
  /\ UNCHANGED <<mem, df>>
  /\ Called([fn |-> "strlen", s |-> s])

\* The value of a byte as int8_t.
SignedByte(b) == IF b < 128 THEN b ELSE b - 256

\* The first of n places where the strings differ, or end.
strncmp(s1, s2, n) ==
  LET stops == {k \in 0 .. n - 1 : \/ mem[s1 + k] # mem[s2 + k]
                                   \/ mem[s1 + k] = 0}
      i     == CHOOSE k \in stops : \A j \in stops : k <= j
  IN  /\ ret' = IF stops = {} THEN 0
                ELSE SignedByte(mem[s1 + i]) - SignedByte(mem[s2 + i])
      /\ UNCHANGED <<mem, df>>
      /\ Called([fn |-> "strncmp", s |-> s1, d |-> s2, n |-> n])

strcpy(dest, src) ==
  /\ IsString(mem, src)
  /\ mem' = Put(mem, dest, Append(StringAt(mem, src), 0))
  /\ UNCHANGED <<df, ret>>
  /\ Called([fn |-> "strcpy", s |-> src, d |-> dest])

\* Mutant: the rest of the area is not filled.
strncpy_no_fill(dest, src, n) ==
  LET i == CHOOSE k \in 0 .. n : /\ k = n \/ mem[src + k] = 0
                                 /\ \A j \in 0 .. k - 1 : mem[src + j] # 0
  IN  /\ mem' = Put(mem, dest, [k \in 1 .. i |-> mem[src + k - 1]])
      /\ UNCHANGED <<df, ret>>
      /\ Called([fn |-> "strncpy", s |-> src, d |-> dest, n |-> n])

\* The string, cut or filled up to n bytes.
strncpy(dest, src, n) ==
  LET i == CHOOSE k \in 0 .. n : /\ k = n \/ mem[src + k] = 0
                                 /\ \A j \in 0 .. k - 1 : mem[src + j] # 0
  IN  /\ mem' = Put(mem, dest, [k \in 1 .. n |->
                  IF k <= i THEN mem[src + k - 1] ELSE 0])
      /\ UNCHANGED <<df, ret>>
      /\ Called([fn |-> "strncpy", s |-> src, d |-> dest, n |-> n])

\* strrev swaps the ends and goes inwards.
Swapped(s) ==
  LET swap[beg \in 0 .. Len(s)] ==
        IF beg = 0 THEN s
        ELSE LET end  == Len(s) - beg + 1
                 done == swap[beg - 1]
             IN  IF beg >= end THEN done
                 ELSE [done EXCEPT ![beg] = done[end], ![end] = done[beg]]
  IN  swap[Len(s) \div 2]

\* lookup[i], as ASCII.
Lookup(i) == IF i < 10 THEN 48 + i ELSE 55 + i

\* Mutant: zero has no digits.
Digits_no_zero(value, radix) ==
  LET low[v \in Number] ==
        IF v = 0 THEN <<>> ELSE <<Lookup(v % radix)>> \o low[v \div radix]
  IN  Swapped(low[value])

\* The string that itoa makes: the digits from the lowest on, reversed.
Digits(value, radix) ==
  LET low[v \in Number] ==
        IF v = 0 THEN <<>> ELSE <<Lookup(v % radix)>> \o low[v \div radix]
  IN  IF value = 0 THEN <<Lookup(0)>> ELSE Swapped(low[value])

itoa(value, buf, radix) ==
  /\ mem' = Put(mem, buf, Append(Digits(value, radix), 0))
  /\ UNCHANGED <<df, ret>>
  /\ CalledLast([fn |-> "itoa", s |-> buf, v |-> value, r |-> radix])
-----------------------------------------------------------------------------
(* printf.  A directive is what a format is made of: the characters that    *)
(* stand for it in the format, and its argument.                             *)

PERCENT == 37
HASH    == 35
MINUS   == 45

\* Mutant: the padding is one digit short.
Padded_short(digits) ==
  LET conv_buf(i) == IF i < HEXDIGITS THEN Lookup(0)
                     ELSE digits[i - HEXDIGITS + 1]
      start == Len(digits) + 1
  IN  [k \in 1 .. HEXDIGITS + Len(digits) - start |-> conv_buf(start + k - 1)]

\* %#x: the digits lie behind a row of zeros in conv_buf, and as many of the
\* zeros as there are digits are passed over.
Padded(digits) ==
  LET conv_buf(i) == IF i < HEXDIGITS THEN Lookup(0)
                     ELSE digits[i - HEXDIGITS + 1]
      start == Len(digits)
  IN  [k \in 1 .. HEXDIGITS + Len(digits) - start |-> conv_buf(start + k - 1)]

\* %d: the argument is taken as signed, and its negation as unsigned.
Signed(value) ==
  IF value >= WORD \div 2 THEN <<MINUS>> \o Digits(WORD - value, 10)
  ELSE Digits(value, 10)

Ascii(c) == CASE c = "x" -> 120 [] c = "u" -> 117 [] c = "d" -> 100
              [] c = "c" -> 99 [] c = "s" -> 115

\* What the conversion c prints of its argument, and of no argument.
Converted(c, alternate, arg) ==
  CASE c = Ascii("x") -> IF alternate THEN Padded(Digits(arg, 16))
                         ELSE Digits(arg, 16)
    [] c = Ascii("u") -> Digits(arg, 10)
    [] c = Ascii("d") -> Signed(arg)
    [] c = Ascii("c") -> <<arg>>
    [] c = Ascii("s") -> arg

TakesArgument(c) == c \in {Ascii(k) : k \in {"x", "u", "d", "c", "s"}}

\* The loop of printf over the format f, with esp at the next argument.  The
\* format does not end within a directive.
Printed(f, args) ==
  LET loop[buf \in 1 .. Len(f) + 1, esp \in 1 .. Len(args) + 1] ==
        IF buf > Len(f) THEN <<>>
        ELSE IF f[buf] # PERCENT THEN <<f[buf]>> \o loop[buf + 1, esp]
        ELSE LET at == CHOOSE k \in buf + 1 .. Len(f) :
                         /\ f[k] # HASH
                         /\ \A j \in buf + 1 .. k - 1 : f[j] = HASH
                 c  == f[at]
             IN  IF TakesArgument(c)
                 THEN Converted(c, at > buf + 1, args[esp])
                      \o loop[at + 1, esp + 1]
                 ELSE (IF c = PERCENT THEN <<PERCENT>> ELSE <<>>)
                      \o loop[at + 1, esp]
  IN  loop[1, 1]

printf(dirs) ==
  LET f    == FlattenSeq([k \in DOMAIN dirs |-> dirs[k].format])
      args == FlattenSeq([k \in DOMAIN dirs |-> dirs[k].args])
  IN  /\ ret' = Printed(f, args)
      /\ UNCHANGED <<mem, df>>
      /\ CalledLast([fn |-> "printf", dirs |-> dirs])

-----------------------------------------------------------------------------
\* The n bytes at s and the n bytes at d do not overlap.
Apart(s, d, n) == s + n <= d \/ d + n <= s

\* Values to fill with: no two bytes of a unit are the same, and memset is
\* given more than a byte.
FillByte  == 300
FillWord  == 770
FillDword == 67305985

\* Calls with areas inside the memory.
MemoryCall ==
  \/ \E s \in Addr : \E n \in 0 .. MEMSIZE - s :
       \/ memset(s, FillByte, n)
       \/ 2 * n <= MEMSIZE - s /\ memset_word(s, FillWord, n)
       \/ 4 * n <= MEMSIZE - s /\ memset_dword(s, FillDword, n)
  \/ \E s, d \in Addr : \E n \in 0 .. MEMSIZE - (IF s > d THEN s ELSE d) :
       memcpy(d, s, n) \/ memmove(d, s, n)

StringCall ==
  \/ \E s \in Addr : strlen(s)
  \/ \E s, d \in Addr :
       /\ IsString(mem, s) /\ Apart(s, d, EndOf(mem, s) - s + 1)
       /\ EndOf(mem, s) - s < MEMSIZE - d
       /\ strcpy(d, s)
  \/ \E s, d \in Addr : \E n \in 0 .. MEMSIZE - (IF s > d THEN s ELSE d) :
       \/ strncmp(s, d, n)
       \/ s + n < MEMSIZE /\ Apart(s, d, n + 1) /\ strncpy(d, s, n)

Conversion ==
  \/ \E v \in Number, r \in Radix :
       Len(Digits(v, r)) < MEMSIZE /\ itoa(v, 0, r)
  \/ \E dirs \in Format : printf(dirs)

Next == calls < MaxCalls /\ (MemoryCall \/ StringCall \/ Conversion)

Spec == Init /\ [][Next]_vars

-----------------------------------------------------------------------------
\* Byte k of the area at d is byte k of the area at s as it was before.
Copied(d, s, n) ==
  mem = [a \in Addr |-> IF a - d \in 0 .. n - 1
                        THEN before[s + a - d] ELSE before[a]]

\* memset, memset_word, memset_dword, memcpy, memmove: exactly the bytes of the
\* area change, and they become what the call says, for every alignment, every
\* overlap (memcpy: unless the destination begins inside the source), and also
\* behind a memmove that has left the direction flag set.  The area of
\* memset_word has n words and that of memset_dword n double words: the code
\* contradicts the comments on them, where n is a number of bytes.
MemoryRight ==
  CASE call.fn = "memset" ->
         mem = [a \in Addr |-> IF a - call.s \in 0 .. call.n - 1
                               THEN call.c % 256 ELSE before[a]]
    [] call.fn \in {"memset_word", "memset_dword"} ->
         LET size == IF call.fn = "memset_word" THEN 2 ELSE 4
         IN  mem = [a \in Addr |->
                      IF a - call.s \in 0 .. size * call.n - 1
                      THEN Bytes(call.c, 4)[((a - call.s) % size) + 1]
                      ELSE before[a]]
    [] call.fn = "memmove" -> Copied(call.d, call.s, call.n)
    [] call.fn = "memcpy" ->
         call.d - call.s \notin 1 .. call.n - 1 =>
           Copied(call.d, call.s, call.n)
    [] OTHER -> TRUE

\* strlen, strncmp, strcpy, strncpy: strings are measured, compared and copied
\* up to their '\0', and nothing behind it changes or counts.
StringsRight ==
  CASE call.fn = "strlen" -> Len(StringAt(mem, call.s)) = ret
    [] call.fn = "strncmp" ->
         LET upto(s) == {k \in 0 .. call.n - 1 :
                           \A j \in 0 .. k - 1 : before[s + j] # 0}
             cut(s)  == [k \in upto(s) |-> before[s + k]]
         IN  (ret = 0) <=> (cut(call.s) = cut(call.d))
    [] call.fn = "strcpy" ->
         /\ StringAt(mem, call.d) = StringAt(before, call.s)
         /\ \A a \in Addr : a < call.d \/ a > EndOf(mem, call.d)
                            => mem[a] = before[a]
    [] call.fn = "strncpy" ->
         LET area == call.d .. call.d + call.n - 1
         IN  /\ \A a \in Addr \ area : mem[a] = before[a]
             /\ \A a \in area :
                  mem[a] = IF \E e \in call.s .. call.s + a - call.d :
                                before[e] = 0
                           THEN 0 ELSE before[call.s + a - call.d]
    [] OTHER -> TRUE

\* The digit that a character of lookup stands for.
DigitOf(c) == IF c < 58 THEN c - 48 ELSE c - 55

\* The number that a numeral stands for, read from the first digit on.
NumberOf(s, radix) ==
  LET read[k \in 0 .. Len(s)] ==
        IF k = 0 THEN 0 ELSE read[k - 1] * radix + DigitOf(s[k])
  IN  read[Len(s)]

\* itoa, strrev: the string is the numeral of the value in the radix: of its
\* digits only, the highest first, with no leading zero but for zero itself.
ItoaRight ==
  call.fn = "itoa" =>
    LET s == StringAt(mem, call.s)
    IN  /\ NumberOf(s, call.r) = call.v
        /\ s # <<>> /\ (s[1] = Lookup(0) => Len(s) = 1)
        /\ \A k \in DOMAIN s : \E d \in 0 .. call.r - 1 : s[k] = Lookup(d)

\* printf: each directive prints its own argument as its comment says, and the
\* next one the next argument.
PrintsDirectives ==
  call.fn = "printf" =>
    ret = FlattenSeq([k \in DOMAIN call.dirs |-> call.dirs[k].shows])
=============================================================================

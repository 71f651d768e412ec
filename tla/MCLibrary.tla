----------------------------- MODULE MCLibrary ------------------------------
(* Small instances of the library's calls. *)
EXTENDS Library

Memories == {[a \in Addr |-> IF a \in {3, 8} THEN 0 ELSE a + 1],
             [a \in Addr |-> IF a = 8 THEN 0 ELSE (a % 3) + 1]}

Values == {0, 9, 10, 127, 128, 200, 255}

Directive(format, args, shows) ==
  [format |-> format, args |-> args, shows |-> shows]

\* The numeral of a value in a radix with n digits.
Numeral(value, radix, n) ==
  [k \in 1 .. n |-> Lookup((value \div radix ^ (n - k)) % radix)]

\* With as many digits as it needs, and one for zero.
Shortest(value, radix) ==
  Numeral(value, radix, CHOOSE n \in 1 .. 4 * HEXDIGITS :
            /\ value < radix ^ n
            /\ n = 1 \/ value >= radix ^ (n - 1))

Negated(v) == <<MINUS>> \o Shortest(256 - v, 10)

Directives ==
  {Directive(<<PERCENT, Ascii("x")>>, <<v>>, Shortest(v, 16)) : v \in Values}
  \cup {Directive(<<PERCENT, HASH, Ascii("x")>>, <<v>>, Numeral(v, 16, 2)) :
          v \in Values}
  \cup {Directive(<<PERCENT, Ascii("u")>>, <<v>>, Shortest(v, 10)) :
          v \in Values}
  \cup {Directive(<<PERCENT, Ascii("d")>>, <<v>>,
                  IF v < 128 THEN Shortest(v, 10) ELSE Negated(v)) :
          v \in Values}
  \cup {Directive(<<PERCENT, PERCENT>>, <<>>, <<PERCENT>>),
        Directive(<<PERCENT, Ascii("c")>>, << 65 >>, <<65>>),
        Directive(<<PERCENT, Ascii("s")>>, << <<66, PERCENT>> >>,
                  <<66, PERCENT>>),
        Directive(<<Ascii("d")>>, <<>>, <<Ascii("d")>>)}

Formats == {<<a>> : a \in Directives}
           \cup {<<a, b>> : a \in Directives, b \in Directives}
=============================================================================

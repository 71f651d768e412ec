------------------------------ MODULE LineEditor ------------------------------
(***************************************************************************)
(* What the keyboard and terminal_read promise together: every terminal    *)
(* has a line of its own that is edited while the terminal is shown, and a *)
(* completed line is handed once, unchanged or cut to the size asked for,  *)
(* to a reader of the terminal it was typed on.                            *)
(***************************************************************************)
EXTENDS Naturals, Sequences

CONSTANTS Terminal, Char, MaxLine

VARIABLES shown,     \* the terminal on display
          line,      \* line[t]: what has been typed and not completed
          complete,  \* complete[t]: <<l>> when line l waits for a reader
          delivered  \* delivered[t]: <<l>> when the reader has been handed l

vars == <<shown, line, complete, delivered>>

Init ==
  /\ shown \in Terminal
  /\ line = [t \in Terminal |-> <<>>]
  /\ complete = [t \in Terminal |-> <<>>]
  /\ delivered = [t \in Terminal |-> <<>>]

Edit(l) ==
  /\ line' = [line EXCEPT ![shown] = l]
  /\ UNCHANGED <<shown, complete, delivered>>

Insert(c) == Len(line[shown]) < MaxLine /\ Edit(Append(line[shown], c))

Erase ==
  line[shown] # <<>> /\ Edit(SubSeq(line[shown], 1, Len(line[shown]) - 1))

Wipe == Edit(<<>>)

Complete ==
  /\ complete[shown] = <<>>
  /\ complete' = [complete EXCEPT ![shown] = <<line[shown]>>]
  /\ line' = [line EXCEPT ![shown] = <<>>]
  /\ UNCHANGED <<shown, delivered>>

\* A reader that asked for n characters gets the line of terminal t...
Deliver(t, n) ==
  /\ complete[t] # <<>>
  /\ LET l == complete[t][1]
     IN  delivered' = [delivered EXCEPT ![t] =
                         <<IF Len(l) <= n THEN l ELSE SubSeq(l, 1, n)>>]
  /\ complete' = [complete EXCEPT ![t] = <<>>]
  /\ UNCHANGED <<shown, line>>

\* ... and returns with it, or is killed.
Return(t) ==
  /\ delivered' = [delivered EXCEPT ![t] = <<>>]
  /\ UNCHANGED <<shown, line, complete>>

Show(t) == shown' = t /\ UNCHANGED <<line, complete, delivered>>

Next ==
  \/ \E c \in Char : Insert(c)
  \/ Erase \/ Wipe \/ Complete
  \/ \E t \in Terminal : \/ Show(t) \/ Return(t)
                         \/ \E n \in 1 .. MaxLine : Deliver(t, n)

Spec == Init /\ [][Next]_vars
=============================================================================

----------------------------- MODULE LogChannel -----------------------------
(***************************************************************************)
(* What the Logger component promises to the tasks that log through it: an *)
(* unbounded first-in first-out channel.  A message that the channel took  *)
(* is shown exactly once, whole, in the order the channel took it, as one  *)
(* line: its text without the line ends it finished with.                  *)
(*                                                                         *)
(* Logger.tla is shown to implement this specification.                    *)
(***************************************************************************)
EXTENDS Sequences, Naturals

CONSTANTS Messages,  \* the log messages there are: records with a field text
          LineEnds   \* the characters that end a line

VARIABLES pending,   \* the messages taken and not yet shown, oldest first
          shown      \* the lines on the console, oldest first

vars == <<pending, shown>>

\* The text of m up to the last character that does not end a line.
Line(m) ==
  LET body == {i \in DOMAIN m.text : m.text[i] \notin LineEnds}
      last == IF body = {} THEN 0 ELSE CHOOSE i \in body : \A j \in body : j <= i
  IN  [m EXCEPT !.text = SubSeq(m.text, 1, last)]

Init == pending = <<>> /\ shown = <<>>

Submit == \E m \in Messages : pending' = Append(pending, m) /\ UNCHANGED shown

Show == /\ pending # <<>>
        /\ shown' = Append(shown, Line(Head(pending)))
        /\ pending' = Tail(pending)

Next == Submit \/ Show

Spec == Init /\ [][Next]_vars /\ WF_vars(Show)
=============================================================================

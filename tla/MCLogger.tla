------------------------------ MODULE MCLogger ------------------------------
(***************************************************************************)
(* Instances of Logger for TLC: the texts, and two uses of the logger with *)
(* bounds of their own, MaxTextCalls calls with texts of every kind        *)
(* ("texts") and a burst of MaxCalls calls with simple ones ("burst").     *)
(***************************************************************************)
EXTENDS Logger

MCLineEnds == {"n", "r"}

\* An ordinary line, a line with a line end inside and two behind it, a text
\* that is only a line end, and the empty text.
MCTexts == {<<"x", "n">>, <<"x", "n", "x", "r", "n">>, <<"n">>, <<>>}
MCShortTexts == {<<"x", "n">>, <<>>}

MaxTextCalls == 3

VARIABLE use

Burst == INSTANCE Logger WITH Texts <- MCShortTexts

MCInit == Init /\ use \in {"texts", "burst"}

MCNext ==
  /\ UNCHANGED use
  /\ \/ use = "texts" /\ Next /\ calls' <= MaxTextCalls
     \/ use = "burst" /\ Burst!Next

MCSpec == MCInit /\ [][MCNext]_<<use, vars>> /\ Fairness
=============================================================================

------------------------------- MODULE Texts --------------------------------
(***************************************************************************)
(* Texts, as the modules about what is read see them: sequences of         *)
(* characters, or of words where their characters do not matter.           *)
(***************************************************************************)
EXTENDS Integers, Sequences

CONSTANTS
  NULL,        \* no text
  Initial(_),  \* the first character of a word
  strtol(_)    \* the number a text begins with, 0 when it begins with none

\* The longest part of a text in front of any of the characters.
UpTo(s, chars) ==
  LET ends == {j \in 1..Len(s) : s[j] \in chars}
  IN  IF ends = {} THEN s
      ELSE SubSeq(s, 1, (CHOOSE j \in ends : \A m \in ends : j <= m) - 1)

\* What is behind the first of them.
After(s, char) == SubSeq(s, Len(UpTo(s, {char})) + 2, Len(s))

From(s, p) == SubSeq(s, p, Len(s))

StartsWith(s, front) == Len(front) <= Len(s) /\ SubSeq(s, 1, Len(front)) = front

=============================================================================

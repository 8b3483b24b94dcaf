------------------------------- MODULE Texts --------------------------------
(***************************************************************************)
(* Texts, as the file tools and the skill loader take them apart: a text   *)
(* is a sequence of tokens, words and the three tokens of white space.     *)
(***************************************************************************)
EXTENDS Naturals, SequencesExt

CONSTANT Words

ASSUME WordsAssumption == Words \cap {"sp", "cr", "nl"} = {}

Blank == {"sp", "cr", "nl"}

Text == Seq(Words \cup Blank)

OccursAt(t, s, i) == i + Len(t) - 1 <= Len(s) /\ SubSeq(s, i, i + Len(t) - 1) = t

TrimSpace(s) ==
  LET kept == {i \in 1..Len(s) : s[i] \notin Blank}
  IN  IF kept = {} THEN <<>> ELSE SubSeq(s, Min(kept), Max(kept))

(* strings.Split and strings.Join at newlines.                             *)
Lines(s) ==
  FoldLeft(LAMBDA ls, x : IF x = "nl" THEN Append(ls, <<>>)
                          ELSE [ls EXCEPT ![Len(ls)] = Append(@, x)],
           << <<>> >>, s)

Joined(ls) ==
  FoldLeft(LAMBDA s, l : s \o <<"nl">> \o l, Head(ls), Tail(ls))

=============================================================================

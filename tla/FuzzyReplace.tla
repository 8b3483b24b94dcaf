---------------------------- MODULE FuzzyReplace -----------------------------
(***************************************************************************)
(* fuzzyReplace of edit_file: where old_text is found in a file, and what  *)
(* the file becomes.  A result is the new text with ok = TRUE, or the      *)
(* error's text, cut into phrases, with ok = FALSE.                        *)
(***************************************************************************)
EXTENDS Texts

(* strings.Count: occurrences from the left that do not overlap.           *)
Count(s, t) ==
  LET from[i \in 1..(Len(s) + 1)] ==
        IF i + Len(t) - 1 > Len(s) THEN 0
        ELSE IF OccursAt(t, s, i) THEN 1 + from[i + Len(t)]
        ELSE from[i + 1]
  IN  IF t = <<>> THEN Len(s) + 1 ELSE from[1]

(* strings.ReplaceAll(s, "\r\n", "\n").                                    *)
Normalized(s) ==
  FoldLeft(LAMBDA t, x : IF x = "nl" /\ t # <<>> /\ Last(t) = "cr"
                           THEN Append(Front(t), x) ELSE Append(t, x),
           <<>>, s)

NotFound      == <<"not found in the file: old_text", "read it first">>
NoSuchSnippet == <<"no such snippet">>
TooMany       == <<"old_text", "matched", "N", "places", "give more", "of the", "context">>
Similar       == <<"loosely", "matched", "N", "places", "give more", "lines around">>

Error(text) == [ok |-> FALSE, text |-> text]

Success(s) == [ok |-> TRUE, text |-> s]

(* The line numbers at which the trimmed lines of old match.               *)
Windows(content, old) ==
  {i \in 1..(Len(content) - Len(old) + 1) :
     \A j \in 1..Len(old) : TrimSpace(content[i + j - 1]) = TrimSpace(old[j])}

(* Bug: at level 4 everything from the match on is replaced.               *)
ReplaceToEnd(content, oldText, newText) ==
  LET lines == Lines(content)
      found == Windows(lines, Lines(TrimSpace(oldText)))
  IN  IF Cardinality(found) # 1 THEN Error(NotFound)
      ELSE Success(Joined(SubSeq(lines, 1, Min(found) - 1) \o <<newText>>))

(* Level 4: whole lines, with the white space around each left aside.      *)
LineByLineReplace(content, oldText, newText) ==
  LET lines == Lines(content)
      old   == Lines(TrimSpace(oldText))
      found == Windows(lines, old)
  IN  IF Len(lines) < Len(old) THEN Error(NoSuchSnippet)
      ELSE IF found = {} THEN Error(NotFound)
      ELSE IF Cardinality(found) > 1 THEN Error(Similar)
      ELSE LET i == Min(found)
           IN  Success(Joined(SubSeq(lines, 1, i - 1) \o <<newText>>
                                \o SubSeq(lines, i + Len(old), Len(lines))))

(* Bug: several exact matches are left to the fuzzier levels, as several   *)
(* matches at level 2 or 3 are.                                            *)
FallThrough(content, oldText, newText) ==
  LET normal == Normalized(content)
      old    == Normalized(oldText)
  IN  IF Count(content, oldText) = 1
        THEN Success(ReplaceFirstSubSeq(newText, oldText, content))
      ELSE LineByLineReplace(normal, old, newText)

(* The four levels of fuzzyReplace.                                        *)
Replaced(content, oldText, newText) ==
  LET normal  == Normalized(content)
      old     == Normalized(oldText)
      trimmed == TrimSpace(old)
  IN  IF Count(content, oldText) = 1
        THEN Success(ReplaceFirstSubSeq(newText, oldText, content))
      ELSE IF Count(content, oldText) > 1
        THEN Error(TooMany)
      ELSE IF Count(normal, old) = 1
        THEN Success(ReplaceFirstSubSeq(newText, old, normal))
      ELSE IF trimmed # <<>> /\ Count(normal, trimmed) = 1
        THEN Success(ReplaceFirstSubSeq(newText, trimmed, normal))
      ELSE LineByLineReplace(normal, old, newText)

-----------------------------------------------------------------------------
(* A text without its white space.                                         *)
Squashed(s) ==
  FoldLeft(LAMBDA t, x : IF x \in Blank THEN t ELSE Append(t, x), <<>>, s)

(* Outside one region the new text is the old one, or the old one with its *)
(* newlines normalized, and the region that went was old_text, up to       *)
(* white space.                                                            *)
OneRegionReplaced(content, oldText, newText, result) ==
  \E base \in {content, Normalized(content)} :
    \E i \in 0..Len(base) : \E j \in i..Len(base) :
      /\ Squashed(SubSeq(base, i + 1, j)) = Squashed(oldText)
      /\ result = SubSeq(base, 1, i) \o newText \o SubSeq(base, j + 1, Len(base))

(* old_text occurs, literally, in two places that do not overlap.          *)
Ambiguous(content, oldText) ==
  \E i, j \in 1..Len(content) :
    /\ i + Len(oldText) <= j
    /\ OccursAt(oldText, content, i)
    /\ OccursAt(oldText, content, j)

=============================================================================

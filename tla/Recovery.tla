------------------------------ MODULE Recovery -------------------------------
(***************************************************************************)
(* RecoveryManager: the advice appended to the error of a tool call before *)
(* the model sees it.  The manager searches the error's text for fixed     *)
(* phrases, so what it says depends on the wording of the tools.  A text   *)
(* is a sequence of phrases, cut where the code's markers begin and end.   *)
(*                                                                         *)
(* Two kinds of rule never apply.  No text with which fuzzyReplace refuses *)
(* an ambiguous old_text holds a marker of the rule meant for it, and      *)
(* BashTool returns its failures as ordinary output, without the flag that *)
(* brings a result here.                                                   *)
(***************************************************************************)
EXTENDS FuzzyReplace

NoSuchFile == <<"no_such_file">>

Denied == <<"permission_denied">>

PathRules ==
  <<[marks |-> {NoSuchFile}, hint |-> "find_the_path"],
    [marks |-> {Denied},     hint |-> "mind_the_permissions"]>>

(* Bug: one of the tool's two wordings is not known here.                  *)
EditRulesOneWording ==
  <<[marks |-> {NoSuchSnippet}, hint |-> "read_the_file_again"],
    [marks |-> {<<"give more", "context">>}, hint |-> "make_it_unique"]>>

EditRules ==
  <<[marks |-> {<<"not found in the file: old_text">>, NoSuchSnippet},
     hint  |-> "read_the_file_again"],
    [marks |-> {<<"matched", "many", "places">>, <<"give more", "context">>},
     hint  |-> "make_it_unique"]>>

BashRules ==
  <<[marks |-> {<<"command not found">>}, hint |-> "install it"],
    [marks |-> {<<"timed out">>, <<"DeadlineExceeded">>}, hint |-> "use the background"],
    [marks |-> {<<"syntax error">>}, hint |-> "check the quotes"]>>

Rules(toolName) ==
  CASE toolName = "edit_file" -> EditRules
    [] toolName \in {"read_file", "write_file"} -> PathRules
    [] toolName = "bash" -> BashRules
    [] OTHER -> <<>>

Mentions(text, mark) == \E i \in 1..Len(text) : OccursAt(mark, text, i)

(* Nothing is added if no rule applies, else the first one's hint.         *)
AnalyzeAndInject(toolName, rawError) ==
  LET rules == Rules(toolName)
      hits  == {i \in DOMAIN rules : \E m \in rules[i].marks : Mentions(rawError, m)}
  IN  IF hits = {} THEN rawError ELSE Append(rawError, rules[Min(hits)].hint)

(* What the registry makes of a tool's error, and the loop of that.        *)
Observation(toolName, err) ==
  AnalyzeAndInject(toolName, <<"error_executing", toolName>> \o err)

=============================================================================

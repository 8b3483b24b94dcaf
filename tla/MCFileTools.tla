---------------------------- MODULE MCFileTools ------------------------------
(***************************************************************************)
(* A small instance of FileTools for TLC.                                  *)
(***************************************************************************)
EXTENDS FileTools

AbsoluteDir == [abs |-> TRUE, segs |-> <<"w">>]

(* The parent of where the process runs.                                   *)
ParentDir == [abs |-> FALSE, segs |-> <<"..">>]

Nowhere == <<>>

Beneath == <<"w", "d">>

Main == <<"w", "f">>

Outside == <<"f">>

TwoPaths == {Main, Outside}

(* The same file by a relative and by an absolute path, and three ways     *)
(* out of the workspace, one of which passes through it.                   *)
AllInputs ==
  {[abs |-> FALSE, segs |-> <<"f">>],
   [abs |-> TRUE,  segs |-> <<"w", "d", "..", "f">>],
   [abs |-> FALSE, segs |-> <<"..", "f">>],
   [abs |-> TRUE,  segs |-> <<"f">>],
   [abs |-> TRUE,  segs |-> <<"w", "..", "..", "f">>]}

(* Two lines, the second indented; the same line twice; Windows newlines;  *)
(* a word alone in a line and within another.                              *)
SomeContents ==
  {<<"a", "nl", "sp", "b">>,
   <<"a", "nl", "a", "nl">>,
   <<"a", "cr", "nl", "b", "cr", "nl">>,
   <<"b", "a", "nl", "a", "nl", "sp", "nl", "b">>}

(* For each level of fuzzyReplace an old_text that needs it, one that is   *)
(* white space only and an empty one.                                      *)
SomeEdits ==
  {[old |-> <<"a">>,                  new |-> <<"b", "b">>],
   [old |-> <<"a", "nl", "b">>,       new |-> <<"a">>],
   [old |-> <<"nl", "b", "sp">>,      new |-> <<>>],
   [old |-> <<"sp", "a", "sp", "nl", "sp", "b">>, new |-> <<"b">>],
   [old |-> <<"sp", "sp">>,           new |-> <<"a">>],
   [old |-> <<>>,                     new |-> <<"a">>]}

SomeWrites == {<<"b">>}

=============================================================================

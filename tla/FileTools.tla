----------------------------- MODULE FileTools -------------------------------
(***************************************************************************)
(* read_file, write_file and edit_file on the files of the workspace.      *)
(*                                                                         *)
(* The tool calls of a turn run in parallel, and nothing but the operating *)
(* system is between them.  os.WriteFile opens and empties the file and    *)
(* then writes at offset 0 of its own descriptor: what another writer left *)
(* beyond the end of a shorter text stays.  The process may die between    *)
(* any two steps, and the files survive it.                                *)
(*                                                                         *)
(* A path is a sequence of names.  What a caller passes has abs and segs,  *)
(* the names between the slashes, ".." among them; "." and "" are dropped  *)
(* by Clean and not written.  The workspace is what -workdir says, which   *)
(* may be relative too; a file is told apart by where it is in the end,    *)
(* its names from "/".  Symbolic links are not modelled, and a missing     *)
(* directory is made by write_file without being seen here.                *)
(***************************************************************************)
EXTENDS Recovery

CONSTANTS
  Calls,    (* the tool calls                                              *)
  WorkDir,  (* workDir, as -workdir gives it                               *)
  Cwd,      (* the names of the directory the process runs in              *)
  Paths,    (* the places of files that calls can name                     *)
  Inputs,   (* the values of the argument path                             *)
  Contents, (* what a file may hold at the start                           *)
  Edits,    (* records [old, new]: old_text and new_text                   *)
  Writes,   (* values of the argument content                              *)
  MaxLen,   (* read_file returns so many tokens, 8000 bytes in the code    *)
  Absent,   (* no file                                                     *)
  NoPath

Name == STRING

Path == [abs : BOOLEAN, segs : Seq(Name)]

ASSUME FilesAssumption ==
  /\ Absent \notin Text
  /\ WorkDir \in Path /\ Inputs \subseteq Path
  /\ Cwd \in Seq(Name \ {".."})
  /\ NoPath \notin Paths
  /\ Contents \cup Writes \subseteq Text
  /\ Edits \subseteq [old : Text, new : Text]
  /\ MaxLen \in Nat

VARIABLES
  files,     (* the file at each path                                      *)
  pc,        (* where each call is                                         *)
  tool,      (* what it executes                                           *)
  path,      (* fullPath                                                   *)
  edit,      (* its old_text and new_text                                  *)
  seen,      (* what it read, Absent if nothing                            *)
  out,       (* what it is to write, or the observation that came of it    *)
  initial,   (* history: the files at the start                            *)
  disturbed  (* history: whether another call changed the file of a call   *)
             (* after that call began                                      *)

vars == <<files, pc, tool, path, edit, seen, out, initial, disturbed>>

-----------------------------------------------------------------------------
(* filepath.Clean.  ".." takes the name before it away; where there is     *)
(* none it goes at the root, and stays in a relative path.                 *)
Clean(p) ==
  [p EXCEPT !.segs =
     FoldLeft(LAMBDA q, x :
                IF x # ".." \/ (~p.abs /\ (q = <<>> \/ Last(q) = "..")) THEN Append(q, x)
                ELSE IF q = <<>> THEN q ELSE Front(q),
              <<>>, p.segs)]

Under(p, q) == [abs |-> p.abs, segs |-> p.segs \o q.segs]

(* Where the operating system finds a path.                                *)
Place(p) ==
  Clean(IF p.abs THEN p ELSE Under([abs |-> TRUE, segs |-> Cwd], p)).segs

Workspace == Place(Clean(WorkDir))

(* The path an input stands for: an absolute one itself.                   *)
Meant(in) == IF in.abs THEN in ELSE Under(Clean(WorkDir), in)

(* Bug: the path is checked before it is cleaned.                          *)
FullPathUncleaned(in) ==
  LET root == Clean(WorkDir)
      full == Meant(in)
  IN  IF full.abs = root.abs /\ IsPrefix(root.segs, full.segs) THEN Place(full) ELSE NoPath

(* ResolvePath, and where what it returns is; NoPath stands for its error. *)
(* Nothing is strictly beneath "/" or ".", for the code asks for the       *)
(* prefixes "//" and "./".                                                 *)
FullPath(in) ==
  LET root == Clean(WorkDir)
      full == Clean(Meant(in))
      beneath == /\ root.segs # <<>>
                 /\ full.abs = root.abs /\ IsPrefix(root.segs, full.segs)
  IN  IF full = root \/ beneath THEN Place(full) ELSE NoPath

ASSUME PathsAssumption == \A in \in Inputs : FullPath(in) \in Paths \cup {NoPath}

Active(c) == pc[c] \in {"read", "open", "write"}

(* files[p] becomes s at the hands of call c.                              *)
Change(c, p, s) ==
  /\ files' = [files EXCEPT ![p] = s]
  /\ disturbed' = [d \in Calls |->
                     disturbed[d] \/ (d # c /\ Active(d) /\ path[d] = p)]

Finish(c, how) == pc' = [pc EXCEPT ![c] = how]

(* The call returns an error: the model is shown it with the advice.       *)
Fail(c, toolName, err) ==
  /\ Finish(c, "error")
  /\ out' = [out EXCEPT ![c] = Observation(toolName, err)]

Init ==
  /\ files \in [Paths -> Contents \cup {Absent}]
  /\ initial = files
  /\ pc = [c \in Calls |-> "idle"]
  /\ tool = [c \in Calls |-> "none"]
  /\ path = [c \in Calls |-> NoPath]
  /\ edit = [c \in Calls |-> [old |-> <<>>, new |-> <<>>]]
  /\ seen = [c \in Calls |-> Absent]
  /\ out = [c \in Calls |-> <<>>]
  /\ disturbed = [c \in Calls |-> FALSE]

-----------------------------------------------------------------------------
Escapes == <<"path escapes the workspace">>

BadJson == <<"arguments do not parse">>

(* The arguments do not parse, for any of the three tools.                 *)
ArgumentsFail(c, toolName) ==
  /\ pc[c] = "idle"
  /\ tool' = [tool EXCEPT ![c] = toolName]
  /\ Fail(c, toolName, BadJson)
  /\ UNCHANGED <<files, path, edit, seen, initial, disturbed>>

(* Execute starts: the path is resolved, and if it is refused that is all. *)
Begin(c, toolName, in, next, s) ==
  /\ pc[c] = "idle"
  /\ path' = [path EXCEPT ![c] = FullPath(in)]
  /\ tool' = [tool EXCEPT ![c] = toolName]
  /\ \/ /\ FullPath(in) = NoPath
        /\ Fail(c, toolName, Escapes)
     \/ /\ FullPath(in) # NoPath
        /\ Finish(c, next)
        /\ out' = [out EXCEPT ![c] = s]
  /\ UNCHANGED <<files, seen, initial, disturbed>>

BeginRead(c, in) ==
  /\ Begin(c, "read_file", in, "read", <<>>)
  /\ UNCHANGED edit

BeginEdit(c, in, e) ==
  /\ Begin(c, "edit_file", in, "read", <<>>)
  /\ edit' = [edit EXCEPT ![c] = e]

BeginWrite(c, in, s) ==
  /\ Begin(c, "write_file", in, "open", s)
  /\ UNCHANGED edit

(* Opening or reading fails, always if there is no file.                   *)
ReadFails(c) ==
  /\ pc[c] = "read"
  /\ \E err \in IF files[path[c]] = Absent THEN {NoSuchFile}
                                          ELSE {Denied, <<"io_error">>} :
       Fail(c, tool[c], <<"failed_to_read">> \o err)
  /\ UNCHANGED <<files, tool, path, edit, seen, initial, disturbed>>

(* read_file returns the content, or so much of it as it may.              *)
ReadFile(c) ==
  /\ pc[c] = "read" /\ tool[c] = "read_file"
  /\ files[path[c]] # Absent
  /\ seen' = [seen EXCEPT ![c] = files[path[c]]]
  /\ out' = [out EXCEPT ![c] = SubSeq(seen'[c], 1, Min({Len(seen'[c]), MaxLen}))]
  /\ Finish(c, "ok")
  /\ UNCHANGED <<files, tool, path, edit, initial, disturbed>>

(* edit_file reads the file and computes the new content.                  *)
ReadForEdit(c) ==
  LET res == Replaced(files[path[c]], edit[c].old, edit[c].new) IN
  /\ pc[c] = "read" /\ tool[c] = "edit_file"
  /\ files[path[c]] # Absent
  /\ seen' = [seen EXCEPT ![c] = files[path[c]]]
  /\ \/ res.ok /\ Finish(c, "open") /\ out' = [out EXCEPT ![c] = res.text]
     \/ ~res.ok /\ Fail(c, "edit_file", res.text)
  /\ UNCHANGED <<files, tool, path, edit, initial, disturbed>>

(* os.WriteFile cannot make the directory or open the file.                *)
OpenFails(c) ==
  /\ pc[c] = "open"
  /\ Fail(c, tool[c], <<"failed_to_write">> \o Denied)
  /\ UNCHANGED <<files, tool, path, edit, seen, initial, disturbed>>

(* Bug: the file is opened without O_TRUNC.                                *)
OpenKeeping(c) ==
  /\ pc[c] = "open"
  /\ Change(c, path[c], IF files[path[c]] = Absent THEN <<>> ELSE files[path[c]])
  /\ Finish(c, "write")
  /\ UNCHANGED <<tool, path, edit, seen, out, initial>>

(* os.WriteFile opens the file and with that empties it.                   *)
Open(c) ==
  /\ pc[c] = "open"
  /\ Change(c, path[c], <<>>)
  /\ Finish(c, "write")
  /\ UNCHANGED <<tool, path, edit, seen, out, initial>>

Overlaid(s, t) == t \o SubSeq(s, Len(t) + 1, Len(s))

(* And writes from offset 0.                                               *)
Write(c) ==
  /\ pc[c] = "write"
  /\ Change(c, path[c], Overlaid(files[path[c]], out[c]))
  /\ Finish(c, "ok")
  /\ UNCHANGED <<tool, path, edit, seen, out, initial>>

(* The disk is full: a part may have been written.                         *)
WriteFails(c) ==
  /\ pc[c] = "write"
  /\ \E n \in 0..Len(out[c]) :
       n < Len(out[c])
         /\ Change(c, path[c], Overlaid(files[path[c]], SubSeq(out[c], 1, n)))
  /\ Fail(c, tool[c], <<"failed_to_write", "no space left on device">>)
  /\ UNCHANGED <<tool, path, edit, seen, initial>>

(* The process dies.                                                       *)
Crash ==
  /\ \E c \in Calls : Active(c)
  /\ pc' = [c \in Calls |-> IF pc[c] \in {"ok", "error"} THEN pc[c] ELSE "dead"]
  /\ UNCHANGED <<files, tool, path, edit, seen, out, initial, disturbed>>

Next ==
  \/ \E c \in Calls, t \in {"read_file", "edit_file", "write_file"} : ArgumentsFail(c, t)
  \/ \E c \in Calls, in \in Inputs :
       \/ BeginRead(c, in)
       \/ \E e \in Edits : BeginEdit(c, in, e)
       \/ \E s \in Writes : BeginWrite(c, in, s)
  \/ \E c \in Calls :
       \/ ReadFails(c) \/ ReadFile(c) \/ ReadForEdit(c)
       \/ OpenFails(c) \/ Open(c) \/ Write(c) \/ WriteFails(c)
  \/ Crash

Spec == Init /\ [][Next]_vars

-----------------------------------------------------------------------------
(* Types; a call that works on a file has a path, and what it is about to  *)
(* write is a text, never a refusal or an advice.                          *)
TypeOK ==
  /\ files \in [Paths -> Text \cup {Absent}]
  /\ pc \in [Calls -> {"idle", "read", "open", "write", "ok", "error", "dead"}]
  /\ tool \in [Calls -> {"none", "read_file", "edit_file", "write_file"}]
  /\ path \in [Calls -> Paths \cup {NoPath}]
  /\ edit \in [Calls -> [old : Text, new : Text]]
  /\ seen \in [Calls -> Text \cup {Absent}]
  /\ disturbed \in [Calls -> BOOLEAN]
  /\ \A c \in Calls : Active(c) => path[c] \in Paths
  /\ \A c \in Calls : pc[c] \in {"open", "write"} => out[c] \in Text

(* The workspace does not begin above the directory the process runs in.  *)
Descends == ".." \notin ToSet(Clean(WorkDir).segs)

(* "guarantees the result never escapes workDir" (path.go:11).  Whatever   *)
(* path a call was given, relative or absolute and with however many "..", *)
(* no file outside the workspace changes or is read.                       *)
NeverEscapes ==
  /\ \A p \in Paths : ~IsPrefix(Workspace, p) => files[p] = initial[p]
  /\ \A c \in Calls : Active(c) \/ pc[c] = "ok" => IsPrefix(Workspace, path[c])

(* This is so for every workspace but one given as a relative path that    *)
(* goes up: there "../.." passes for something beneath "..".               *)
SandboxKept == Descends => NeverEscapes

(* An edit that goes through, at whichever of the four levels, changes one *)
(* region of what it read, the one old_text describes.                     *)
EditIsLocal ==
  \A c \in Calls :
    tool[c] = "edit_file" /\ pc[c] \in {"open", "write", "ok"} =>
      OneRegionReplaced(seen[c], edit[c].old, edit[c].new, out[c])

(* An old_text that is found twice is refused, and no later level decides  *)
(* for one of the places.                                                  *)
AmbiguousRefused ==
  \A c \in Calls :
    tool[c] = "edit_file" /\ pc[c] \in {"open", "write", "ok"} =>
      ~Ambiguous(seen[c], edit[c].old)

(* A call that reports success, and whose file nobody else touched since   *)
(* it began, leaves in the file what it meant to write: no rest of an      *)
(* older and longer content.                                               *)
SoleWriterExact ==
  [][\A c \in Calls :
       pc[c] = "write" /\ pc'[c] = "ok" /\ ~disturbed[c]
         => files'[path[c]] = out[c]]_vars

(* What edit_file is told of an old_text that it did not find: to read the *)
(* file again, never if old_text stands in what it has read, and always if *)
(* it does not even up to white space.                                     *)
EditAdviceFits(c) ==
  pc[c] = "error" /\ tool[c] = "edit_file" /\ seen[c] # Absent =>
    LET rereads == Last(out[c]) = "read_the_file_again"
    IN  /\ rereads => \A i \in 1..Len(seen[c]) : ~OccursAt(edit[c].old, seen[c], i)
        /\ ~Mentions(Append(Squashed(seen[c]), "end"), Squashed(edit[c].old)) => rereads

(* The advice for an error is that for what happened: of edit_file's as    *)
(* above, and read_file is told to find the path exactly if there was no   *)
(* file when it came to read.                                              *)
AdviceFits ==
  [][\A c \in Calls :
       pc[c] = "read" /\ pc'[c] = "error" =>
         /\ EditAdviceFits(c)'
         /\ tool[c] = "read_file" =>
              (Last(out'[c]) = "find_the_path" <=> files[path[c]] = Absent)]_vars

-----------------------------------------------------------------------------
(* What comments claim and the code does not keep.                         *)

(* "Match the fixed error message thrown by fuzzyReplace" (recovery.go:36) *)
(* and give the hint that old_text is not unique (recovery.go:39).         *)
AmbiguousIsAdvised ==
  \A c \in Calls :
    /\ pc[c] = "error" /\ tool[c] = "edit_file" /\ seen[c] # Absent
    /\ edit[c].old # <<>>
    /\ \/ Ambiguous(seen[c], edit[c].old)
       \/ Ambiguous(Normalized(seen[c]), Normalized(edit[c].old))
    => Last(out[c]) = "make_it_unique"

=============================================================================

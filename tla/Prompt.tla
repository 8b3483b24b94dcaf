------------------------------- MODULE Prompt -------------------------------
(***************************************************************************)
(* PromptComposer and the skill loader: what a run tells the model before  *)
(* anything else.  Build puts the fixed rules, the rules of Plan Mode, the *)
(* project's AGENTS.md and the skills under .agent/skills one after        *)
(* another, as the sections of one system message.                         *)
(*                                                                         *)
(* What is on the disk is the content of AGENTS.md and what the walk of    *)
(* the skills' directory comes upon, in lexical order: SKILL.md files that *)
(* can or cannot be read, directories that cannot be listed ("locked"),    *)
(* and other files.                                                        *)
(***************************************************************************)
EXTENDS Texts

CONSTANTS
  PlanMode,   (* AgentEngine.PlanMode                                     *)
  NoFile      (* in place of the content of a file that cannot be read    *)

ASSUME PromptAssumption ==
  /\ PlanMode \in BOOLEAN
  /\ {"---", "name:", "description:", "${SKILL_DIR}"} \subseteq Words

-----------------------------------------------------------------------------
(* strings.HasPrefix and TrimPrefix, of a line that starts with a key.     *)
HasKey(line, key) == IsPrefix(<<key>>, TrimSpace(line))

Value(line) == TrimSpace(Tail(TrimSpace(line)))

(* The value of the last line with the key.                                *)
Metadata(lines, key, default) ==
  LET keyed == {i \in DOMAIN lines : HasKey(lines[i], key)}
  IN  IF keyed = {} THEN default ELSE Value(lines[Max(keyed)])

WithDir(body, dir) ==
  [i \in DOMAIN body |-> IF body[i] = "${SKILL_DIR}" THEN dir ELSE body[i]]

Delimiters(content) == {i \in DOMAIN content : content[i] = "---"}

Opens(content) ==
  \E eol \in {<<"nl">>, <<"cr", "nl">>} : IsPrefix(<<"---">> \o eol, content)

Skill(name, description, body, dir) ==
  [part |-> "skill", name |-> name, description |-> description,
   body |-> WithDir(body, dir), dir |-> dir]

Unnamed == <<"Unknow SKill">>

Undescribed == <<"No description provided">>

(* Bug: the text is split at every delimiter, not in three.                *)
ParseSkillMDSplit(content, dir) ==
  IF Opens(content) /\ Cardinality(Delimiters(content)) = 2
    THEN LET close == Max(Delimiters(content))
             lines == Lines(SubSeq(content, 2, close - 1))
         IN  Skill(Metadata(lines, "name:", Unnamed),
                   Metadata(lines, "description:", Undescribed),
                   TrimSpace(SubSeq(content, close + 1, Len(content))), dir)
    ELSE Skill(Unnamed, Undescribed, content, dir)

(* The frontmatter ends at the second delimiter, wherever that stands.     *)
ParseSkillMD(content, dir) ==
  IF Opens(content) /\ Cardinality(Delimiters(content)) > 1
    THEN LET close == Min(Delimiters(content) \ {1})
             lines == Lines(SubSeq(content, 2, close - 1))
         IN  Skill(Metadata(lines, "name:", Unnamed),
                   Metadata(lines, "description:", Undescribed),
                   TrimSpace(SubSeq(content, close + 1, Len(content))), dir)
    ELSE Skill(Unnamed, Undescribed, content, dir)

-----------------------------------------------------------------------------
(* Bug: a file that cannot be read ends the walk.                          *)
ReachedReadable(tree) ==
  LET bad == {i \in DOMAIN tree : tree[i].kind \in {"locked", "unreadable"}}
  IN  IF bad = {} THEN tree ELSE SubSeq(tree, 1, Min(bad) - 1)

(* A directory that cannot be listed ends the walk for all that follows,   *)
(* and its error is dropped.                                               *)
Reached(tree) ==
  LET locked == {i \in DOMAIN tree : tree[i].kind = "locked"}
  IN  IF locked = {} THEN tree ELSE SubSeq(tree, 1, Min(locked) - 1)

(* The walk collects a skill for each SKILL.md it can read.  No skills, no *)
(* header.                                                                 *)
LoadSkillsFrom(tree) ==
  LET skills == FoldLeft(LAMBDA p, f : IF f.kind = "skill"
                                         THEN Append(p, ParseSkillMD(f.content, f.dir))
                                         ELSE p,
                         <<>>, Reached(tree))
  IN  IF skills = <<>> THEN <<>> ELSE <<[part |-> "skills header"]>> \o skills

Build(disk) ==
  <<[part |-> "identity"]>>
    \o (IF PlanMode THEN <<[part |-> "plan mode"]>> ELSE <<>>)
    \o (IF disk.agents = NoFile THEN <<>>
        ELSE <<[part |-> "agents", body |-> disk.agents]>>)
    \o LoadSkillsFrom(disk.tree)

-----------------------------------------------------------------------------
(* The rule by lines: a frontmatter is what stands between a first line    *)
(* that is a delimiter and the next such line.                             *)
Fences(lines) == {i \in DOMAIN lines : lines[i] \in {<<"---">>, <<"---", "cr">>}}

HasFrontmatter(lines) == 1 \in Fences(lines) /\ Cardinality(Fences(lines)) > 1

CloseFence(lines) == Min(Fences(lines) \ {1})

(* No delimiter stands within a line of the head; without a frontmatter,   *)
(* within none at all.                                                     *)
CleanHead(lines) ==
  \A i \in DOMAIN lines :
    \/ HasFrontmatter(lines) /\ i >= CloseFence(lines)
    \/ i = 1
    \/ Delimiters(lines[i]) = {}

Described(skill, lines) ==
  LET head == SubSeq(lines, 2, CloseFence(lines) - 1)
      rest == SubSeq(lines, CloseFence(lines) + 1, Len(lines))
  IN  /\ skill.name = Metadata(head, "name:", Unnamed)
      /\ skill.description = Metadata(head, "description:", Undescribed)
      /\ skill.body = WithDir(IF rest = <<>> THEN <<>> ELSE TrimSpace(Joined(rest)), skill.dir)

(* "Simple parsing of the YAML Frontmatter (wrapped by ---)" (skill.go:101)*)
(* agrees with the rule by lines on every file in whose head no delimiter  *)
(* stands within a line; and on every other file too the instructions are  *)
(* all that follows the head, with nothing cut off at their end.           *)
FrontmatterFaithful(disk, prompt) ==
  \A p \in ToSet(prompt), f \in ToSet(disk.tree) :
    p.part = "skill" /\ f.kind = "skill" /\ p.dir = f.dir =>
      LET lines == Lines(f.content)
      IN  /\ CleanHead(lines) /\ HasFrontmatter(lines) => Described(p, lines)
          /\ CleanHead(lines) /\ ~HasFrontmatter(lines) =>
               p = Skill(Unnamed, Undescribed, f.content, f.dir)
          /\ IsSuffix(TrimSpace(p.body), WithDir(TrimSpace(f.content), f.dir))

(* One bad file costs only itself: every SKILL.md that can be read is in   *)
(* the prompt, in lexical order and under one header, unless a directory   *)
(* before it cannot be listed; and no bad file costs the prompt anything   *)
(* else ("surface only real access/IO problems so they're diagnosable      *)
(* instead of silently dropping a skill", skill.go:60).                    *)
SkillsKept(disk, prompt) ==
  LET told == {k \in DOMAIN prompt : prompt[k].part = "skill"}
      due  == {i \in DOMAIN disk.tree :
                 /\ disk.tree[i].kind = "skill"
                 /\ \A j \in 1..i : disk.tree[j].kind # "locked"}
  IN  /\ {prompt[k].dir : k \in told} = {disk.tree[i].dir : i \in due}
      /\ Cardinality(told) = Cardinality(due)
      /\ \A i, j \in due : i < j =>
           \E k, l \in told :
             k < l /\ prompt[k].dir = disk.tree[i].dir /\ prompt[l].dir = disk.tree[j].dir
      /\ Len(prompt) = Cardinality(told) + 1
           + (IF PlanMode THEN 1 ELSE 0)
           + (IF disk.agents = NoFile THEN 0 ELSE 1)
           + (IF due = {} THEN 0 ELSE 1)

=============================================================================

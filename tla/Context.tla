------------------------------- MODULE Context -------------------------------
(***************************************************************************)
(* What the model is sent: the tail of a session's history behind the      *)
(* system prompt, compacted, and translated for the API of the provider;   *)
(* and how its answer becomes a message again.                             *)
(*                                                                         *)
(* A message has a role, the ids of the tool calls it makes, the id of the *)
(* call it answers, and lengths in place of texts: len of its content and  *)
(* args of the names and arguments of its calls.  form says what the       *)
(* compactor made of the content.                                          *)
(***************************************************************************)
EXTENDS Integers, SequencesExt

CONSTANTS
  Limit,        (* size of the working memory                             *)
  MaxChars,     (* the compactor's watermark                              *)
  RetainLast,   (* RetainLastMsgs, the messages it protects               *)
  MaskAbove,    (* older contents longer than this are masked             *)
  MaskNote,     (* length of what replaces them                           *)
  MaxKeep,      (* so much of a protected tool output is kept             *)
  TrimNote,     (* length of the note in its middle                       *)
  Prompt,       (* length of the system prompt                            *)
  Lengths,      (* lengths of contents and arguments                      *)
  MaxCalls,     (* bounds the tool calls of one turn                      *)
  MaxHistory    (* bounds the history                                     *)

ASSUME ContextAssumption ==
  /\ Limit \in Nat \ {0}
  /\ {MaxChars, RetainLast, MaskAbove, MaskNote, MaxKeep, TrimNote, Prompt,
      MaxCalls, MaxHistory} \subseteq Nat
  /\ RetainLast <= Limit
  /\ Lengths \subseteq Nat

VARIABLES
  history,  (* Session.history                                            *)
  phase,    (* what the run does next                                     *)
  request,  (* the messages it last gave to the provider                  *)
  ids       (* tool calls made so far; the next has the id ids + 1        *)

contextVars == <<history, phase, request, ids>>

-----------------------------------------------------------------------------
Message == [role : {"system", "user", "assistant"}, calls : Seq(Nat), answers : Nat,
            len : Nat, args : Nat,
            form : {"full", "masked", "trimmed", "collapsed"}]

Msg(role, calls, answers, len, args) ==
  [role |-> role, calls |-> calls, answers |-> answers, len |-> len,
   args |-> args, form |-> "full"]

System == Msg("system", <<>>, 0, Prompt, 0)

(* A tool's answer has the user's role and the id of its call.             *)
IsObservation(m) == m.role = "user" /\ m.answers # 0

WorkingMemory(h) ==
  LET tail == SubSeq(h, Len(h) - Limit + 1, Len(h))
      kept == {i \in 1..Limit : \E j \in 1..i : ~IsObservation(tail[j])}
  IN  IF Len(h) <= Limit THEN h
      ELSE IF kept = {} THEN <<>>
      ELSE SubSeq(tail, Min(kept), Limit)

-----------------------------------------------------------------------------
(* The compactor.                                                          *)

EstimateLength(msgs) == FoldLeft(LAMBDA n, m : n + m.len + m.args, 0, msgs)

(* Bug: protection comes too late, and a recent output is masked.          *)
CompactedUnprotected(m, recent) ==
  IF IsObservation(m) /\ m.len > MaskAbove
    THEN [m EXCEPT !.len = MaskNote, !.form = "masked"]
  ELSE IF m.role = "assistant" /\ ~recent /\ m.len > MaskAbove
    THEN [m EXCEPT !.len = MaskNote, !.form = "collapsed"]
  ELSE m

(* Bug: in the protected zone nothing is trimmed.                          *)
CompactedUntrimmed(m, recent) ==
  IF IsObservation(m) /\ ~recent /\ m.len > MaskAbove
    THEN [m EXCEPT !.len = MaskNote, !.form = "masked"]
  ELSE IF m.role = "assistant" /\ ~recent /\ m.len > MaskAbove
    THEN [m EXCEPT !.len = MaskNote, !.form = "collapsed"]
  ELSE m

(* What becomes of one message; recent says that it is protected.          *)
Compacted(m, recent) ==
  IF IsObservation(m) /\ ~recent /\ m.len > MaskAbove
    THEN [m EXCEPT !.len = MaskNote, !.form = "masked"]
  ELSE IF IsObservation(m) /\ recent /\ m.len > MaxKeep
    THEN [m EXCEPT !.len = MaxKeep + TrimNote, !.form = "trimmed"]
  ELSE IF m.role = "assistant" /\ ~recent /\ m.len > MaskAbove
    THEN [m EXCEPT !.len = MaskNote, !.form = "collapsed"]
  ELSE m

Compact(msgs) ==
  IF EstimateLength(msgs) < MaxChars THEN msgs
  ELSE [i \in 1..Len(msgs) |-> Compacted(msgs[i], i > Len(msgs) - RetainLast)]

-----------------------------------------------------------------------------
(* The providers.  An API message has a role and blocks.                   *)

TextBlock(m) == IF m.len > 0 THEN << <<"text", 0>> >> ELSE <<>>

Uses(m) == [i \in 1..Len(m.calls) |-> <<"use", m.calls[i]>>]

(* Bug: an assistant that only calls tools is left out.                    *)
ClaudeBlocksOfText(m) ==
  IF IsObservation(m) THEN << <<"result", m.answers>> >>
  ELSE IF m.role = "user" THEN << <<"text", 0>> >>
  ELSE IF m.role = "assistant" /\ m.len > 0 THEN TextBlock(m) \o Uses(m) ELSE <<>>

(* For Claude the system prompt is not a message.                          *)
ClaudeBlocks(m) ==
  IF IsObservation(m) THEN << <<"result", m.answers>> >>
  ELSE IF m.role = "user" THEN << <<"text", 0>> >>
  ELSE IF m.role = "assistant" THEN TextBlock(m) \o Uses(m)
  ELSE <<>>

(* And a message without blocks is left out.                               *)
Claude(msgs) ==
  FoldLeft(LAMBDA api, m : IF ClaudeBlocks(m) = <<>> THEN api
                           ELSE Append(api, [role |-> m.role, blocks |-> ClaudeBlocks(m)]),
           <<>>, msgs)

OpenAIRole(m) == IF IsObservation(m) THEN "tool" ELSE m.role

OpenAIBlocks(m) ==
  IF IsObservation(m) THEN << <<"result", m.answers>> >>
  ELSE IF m.role = "assistant" THEN TextBlock(m) \o Uses(m)
  ELSE << <<"text", 0>> >>

OpenAI(msgs) ==
  [i \in 1..Len(msgs) |-> [role |-> OpenAIRole(msgs[i]), blocks |-> OpenAIBlocks(msgs[i])]]

-----------------------------------------------------------------------------
ContextInit ==
  /\ history = <<>>
  /\ phase = "idle"
  /\ request = <<>>
  /\ ids = 0

Append1(m) ==
  /\ Len(history) < MaxHistory
  /\ history' = Append(history, m)

UserSays(l) ==
  /\ phase = "idle"
  /\ Append1(Msg("user", <<>>, 0, l, 0))
  /\ phase' = "ask"
  /\ UNCHANGED <<request, ids>>

Ask ==
  /\ phase = "ask"
  /\ request' = Compact(<<System>> \o WorkingMemory(history))
  /\ phase' = "answer"
  /\ UNCHANGED <<history, ids>>

(* The API fails, or answers with nothing at all.                          *)
AnswerFails ==
  /\ phase = "answer"
  /\ phase' = "idle"
  /\ UNCHANGED <<history, request, ids>>

(* The answer's texts become one content and its n tool calls are kept in  *)
(* order; with OpenAI both may be missing.                                 *)
Answer(l, n, a) ==
  /\ phase = "answer"
  /\ n = 0 => a = 0
  /\ Append1(Msg("assistant", [i \in 1..n |-> ids + i], 0, l, a))
  /\ ids' = ids + n
  /\ phase' = IF n = 0 THEN "idle" ELSE "observe"
  /\ UNCHANGED request

(* The observations of the turn, one for each call, in the order of calls. *)
Observe(ls) ==
  LET calls == Last(history).calls
  IN  /\ phase = "observe"
      /\ Len(ls) = Len(calls)
      /\ history' = history \o [i \in 1..Len(calls) |-> Msg("user", <<>>, calls[i], ls[i], 0)]
      /\ phase' = "remind"
      /\ UNCHANGED <<request, ids>>

(* The reminder injector may add a user message of its own.                *)
Remind(l) ==
  /\ phase = "remind"
  /\ IF l = 0 THEN history' = history
              ELSE history' = Append(history, Msg("user", <<>>, 0, l, 0))
  /\ phase' = "ask"
  /\ UNCHANGED <<request, ids>>

ContextNext ==
  \/ \E l \in Lengths \ {0} : UserSays(l)
  \/ Ask \/ AnswerFails
  \/ \E l, a \in Lengths, n \in 0..MaxCalls : Answer(l, n, a)
  \/ \E n \in 1..MaxCalls : \E ls \in [1..n -> Lengths] : Observe(ls)
  \/ \E l \in Lengths : Remind(l)

ContextSpec == ContextInit /\ [][ContextNext]_contextVars

-----------------------------------------------------------------------------
(* Every message is one; a run that waits for tools has called some, and   *)
(* no message answers a call that was not made.                            *)
ContextTypeOK ==
  /\ history \in Seq(Message) /\ request \in Seq(Message)
  /\ phase \in {"idle", "ask", "answer", "observe", "remind"}
  /\ ids \in Nat
  /\ \A i \in 1..Len(history) : history[i].answers <= ids
  /\ phase = "observe" => history # <<>> /\ Last(history).calls # <<>>

(* What the history calls for when a request is made; the answer has not   *)
(* been recorded yet.                                                      *)
Asked == <<System>> \o WorkingMemory(history)

(* Compaction never costs the model the evidence of what was done: the     *)
(* request has all messages of the window, in order, with their roles, the *)
(* calls they make and answer, and their arguments ("ToolCalls are fully   *)
(* preserved", compactor.go:24).  The system prompt and what users said    *)
(* arrive word for word, and so does every protected message that is not   *)
(* an oversized tool output.                                               *)
EvidenceKept ==
  phase = "answer" =>
    /\ Len(request) = Len(Asked)
    /\ \A i \in 1..Len(request) :
         LET sent == request[i]
             said == Asked[i]
         IN  /\ [sent EXCEPT !.len = said.len, !.form = "full"] = said
             /\ \/ said.role = "system"
                \/ said.role = "user" /\ ~IsObservation(said)
                \/ i > Len(request) - RetainLast
                   /\ (IsObservation(said) => said.len <= MaxKeep)
                => sent = said

(* What a request carries of the tools' outputs.                           *)
OutputLength(msgs) ==
  FoldLeft(LAMBDA n, m : IF IsObservation(m) THEN n + m.len ELSE n, 0, msgs)

(* However much tools put out, what a request carries of it is bounded: by *)
(* the watermark where nothing was compacted, and otherwise by what is     *)
(* left of the protected outputs and of the masked ones.                   *)
OutputsBounded ==
  phase = "answer" =>
    OutputLength(request) <=
      Max({MaxChars, RetainLast * (MaxKeep + TrimNote)
                       + (Limit - RetainLast) * Max({MaskAbove, MaskNote})})

Blocks(api) == FoldLeft(LAMBDA blocks, a : blocks \o a.blocks, <<>>, api)

(* The rule both APIs enforce: each use is answered, once, before anything *)
(* but uses and results follows it, and nothing else is answered.          *)
WellPaired(blocks) ==
  LET at(kind, id) == {i \in 1..Len(blocks) : blocks[i] = <<kind, id>>}
  IN  \A id \in {blocks[i][2] : i \in 1..Len(blocks)} \ {0} :
        \E u, r \in 1..Len(blocks) :
          /\ at("use", id) = {u} /\ at("result", id) = {r} /\ u < r
          /\ \A i \in u..r : blocks[i][1] # "text"

(* Both providers accept the request made of a window that was cut and     *)
(* compacted: its calls and results are paired, it is not empty, no        *)
(* message for Claude is without content.                                  *)
RequestAccepted ==
  phase = "answer" =>
    /\ WellPaired(Blocks(Claude(request)))
    /\ WellPaired(Blocks(OpenAI(request)))
    /\ Claude(request) # <<>>
    /\ \A i \in 1..Len(Claude(request)) : Claude(request)[i].blocks # <<>>

=============================================================================

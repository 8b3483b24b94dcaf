----------------------------- MODULE RingBuffer -----------------------------
(***************************************************************************)
(* The buffer behind each output stream of a background task: it keeps the *)
(* last maxSize bytes and counts all of them.  One goroutine writes, calls *)
(* of task_logs read; each method holds the mutex, but task_logs calls     *)
(* String and Total one after the other.                                   *)
(***************************************************************************)
EXTENDS Integers, Sequences

CONSTANTS
  Bytes,     (* what a stream is made of                    *)
  maxSize,   (* bytes retained                              *)
  MaxChunk,  (* bounds the length of one Write              *)
  MaxTotal   (* bounds the bytes written in all             *)

ASSUME RingAssumption == maxSize \in Nat /\ MaxChunk \in Nat /\ MaxTotal \in Nat

VARIABLES
  log,    (* history: all that was ever written             *)
  buf,    (* ringBuffer.buf                                 *)
  total,  (* ringBuffer.total                               *)
  text,   (* what a reader got from String                  *)
  count,  (* what it then got from Total, -1 before         *)
  mark    (* history: bytes written when it called String   *)

ringVars == <<log, buf, total, text, count, mark>>

Chunks == UNION {[1..n -> Bytes] : n \in 0..MaxChunk}

RingInit ==
  /\ log = <<>>
  /\ buf = <<>>
  /\ total = 0
  /\ text = <<>>
  /\ count = -1
  /\ mark = 0

(* Bug: only what was there before is trimmed, not the new chunk.          *)
TrimLate(s) == IF Len(s) > maxSize + 1 THEN SubSeq(s, Len(s) - maxSize, Len(s)) ELSE s

(* if len(r.buf) > r.maxSize { r.buf = r.buf[len(r.buf)-r.maxSize:] }      *)
Trim(s) == IF Len(s) > maxSize THEN SubSeq(s, Len(s) - maxSize + 1, Len(s)) ELSE s

(* Bug: the head is kept and the tail dropped.                             *)
RingWriteKeepingHead(p) ==
  /\ Len(log) + Len(p) <= MaxTotal
  /\ log' = log \o p
  /\ total' = total + Len(p)
  /\ buf' = SubSeq(buf \o p, 1, Len(Trim(buf \o p)))
  /\ UNCHANGED <<text, count, mark>>

RingWrite(p) ==
  /\ Len(log) + Len(p) <= MaxTotal
  /\ log' = log \o p
  /\ total' = total + Len(p)
  /\ buf' = Trim(buf \o p)
  /\ UNCHANGED <<text, count, mark>>

(* task_logs copies the content ...                                        *)
String ==
  /\ text' = buf
  /\ mark' = Len(log)
  /\ count' = -1
  /\ UNCHANGED <<log, buf, total>>

(* Bug: the count of what is retained passes for the count of all.         *)
TotalRetained ==
  /\ count = -1
  /\ count' = Len(buf)
  /\ UNCHANGED <<log, buf, total, text, mark>>

(* ... and reads the count after other work.                               *)
Total ==
  /\ count = -1
  /\ count' = total
  /\ UNCHANGED <<log, buf, total, text, mark>>

RingNext == (\E p \in Chunks : RingWrite(p)) \/ String \/ Total

RingSpec == RingInit /\ [][RingNext]_ringVars

-----------------------------------------------------------------------------
(* s is the last maxSize of the first n elements of stream l.              *)
IsTail(s, l, n) ==
  /\ Len(s) = (IF n < maxSize THEN n ELSE maxSize)
  /\ \A i \in 1..Len(s) : s[i] = l[n - Len(s) + i]

(* Types; memory stays within the limit (ringbuffer.go: "cap memory usage").*)
RingTypeOK ==
  /\ log \in Seq(Bytes)
  /\ buf \in Seq(Bytes) /\ Len(buf) <= maxSize
  /\ total \in Nat
  /\ text \in Seq(Bytes)
  /\ count \in Nat \cup {-1}
  /\ mark \in 0..Len(log)

(* The buffer is the tail of everything written and the count is of all of *)
(* it, whatever the sizes of the writes.                                   *)
KeepsTheTail == IsTail(buf, log, Len(log)) /\ total = Len(log)

(* What a reader reports is the tail of the stream at one moment, and the  *)
(* count printed with it covers at least all that was written by then.     *)
ReportIsATail == IsTail(text, log, mark) /\ (count # -1 => count >= mark)

=============================================================================

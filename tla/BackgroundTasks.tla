--------------------------- MODULE BackgroundTasks --------------------------
(***************************************************************************)
(* Background bash processes: process.Manager, the operating system under  *)
(* it, and the tools that spawn, kill and read tasks from several          *)
(* goroutines at once.                                                     *)
(*                                                                         *)
(* A task's leader is the bash the manager starts, in a process group of   *)
(* its own.  It may fork a child.  A program says how the two react: trap, *)
(* the leader ignores SIGTERM; stubborn, the child does; grouped, the child*)
(* stays in the group (no setsid); holds, it keeps the output pipe open.   *)
(* Output is counted in writes; the ring buffer's loss of old output is    *)
(* the subject of module RingBuffer.                                       *)
(***************************************************************************)
EXTENDS Naturals, FiniteSets

CONSTANTS
  Tasks,     (* the tasks Spawn creates; their random ids never collide *)
  Programs,  (* records [trap, stubborn, grouped, holds] of BOOLEANs    *)
  MaxTasks,  (* maxTasks, the limit on running tasks                    *)
  Killers,   (* calls of Kill, each for one task; KillAll is several    *)
  Readers,   (* calls of task_logs                                      *)
  MaxWrites, (* bounds the writes of each task                          *)
  NoTask, NoProgram

ASSUME BackgroundAssumption ==
  /\ IsFiniteSet(Tasks)
  /\ NoTask \notin Tasks
  /\ NoProgram \notin Programs
  /\ Programs \subseteq [trap : BOOLEAN, stubborn : BOOLEAN,
                         grouped : BOOLEAN, holds : BOOLEAN]
  /\ MaxTasks \in Nat \ {0}
  /\ MaxWrites \in Nat

VARIABLES
  status,        (* Task.status, "none" before Spawn             *)
  killRequested, (* Task.killRequested                           *)
  program,       (* what each task runs                          *)
  leader,        (* the bash process of each task                *)
  forked,        (* the process it forked                        *)
  emitted,       (* writes of the task's processes so far        *)
  buffered,      (* those that have reached the ring buffer      *)
  kpc,           (* where each call of Kill is                   *)
  victim,        (* the task it is for                           *)
  lpc,           (* where each call of task_logs is              *)
  subject,       (* the task it is for                           *)
  shown,         (* the output it has read                       *)
  said           (* the status it reports                        *)

taskVars == <<status, killRequested, program>>
osVars   == <<leader, forked, emitted, buffered>>
killVars == <<kpc, victim>>
logVars  == <<lpc, subject, shown, said>>
managerVars == <<taskVars, osVars, killVars, logVars>>

-----------------------------------------------------------------------------
Statuses == {"none", "running", "exited", "killed", "failed"}

Ended(t) == status[t] \in {"exited", "killed"}

Running == {t \in Tasks : status[t] = "running"}

(* Somebody can still write to the output pipe of the task.                *)
PipeOpen(t) ==
  \/ leader[t] = "alive"
  \/ forked[t] = "alive" /\ program[t].holds

ManagerInit ==
  /\ status = [t \in Tasks |-> "none"]
  /\ killRequested = [t \in Tasks |-> FALSE]
  /\ program = [t \in Tasks |-> NoProgram]
  /\ leader = [t \in Tasks |-> "none"]
  /\ forked = [t \in Tasks |-> "none"]
  /\ emitted = [t \in Tasks |-> 0]
  /\ buffered = [t \in Tasks |-> 0]
  /\ kpc = [k \in Killers |-> "idle"]
  /\ victim = [k \in Killers |-> NoTask]
  /\ lpc = [r \in Readers |-> "idle"]
  /\ subject = [r \in Readers |-> NoTask]
  /\ shown = [r \in Readers |-> 0]
  /\ said = [r \in Readers |-> "none"]

-----------------------------------------------------------------------------
(* Spawn, under the manager's lock.  Its scan of the statuses counts as    *)
(* one step: none but Spawn, which the lock excludes, makes a task running.*)

(* Bug: the limit is off by one.                                           *)
SpawnOneMore(t, p) ==
  /\ status[t] = "none" /\ Cardinality(Running) <= MaxTasks
  /\ status' = [status EXCEPT ![t] = "running"]
  /\ program' = [program EXCEPT ![t] = p]
  /\ leader' = [leader EXCEPT ![t] = "alive"]
  /\ UNCHANGED <<killRequested, forked, emitted, buffered, killVars, logVars>>

(* The command starts in a process group of its own.                       *)
Spawn(t, p) ==
  /\ status[t] = "none"
  /\ Cardinality(Running) < MaxTasks
  /\ status' = [status EXCEPT ![t] = "running"]
  /\ program' = [program EXCEPT ![t] = p]
  /\ leader' = [leader EXCEPT ![t] = "alive"]
  /\ UNCHANGED <<killRequested, forked, emitted, buffered, killVars, logVars>>

(* cmd.Start fails; the task is kept, never running.                       *)
SpawnFails(t) ==
  /\ status[t] = "none"
  /\ Cardinality(Running) < MaxTasks
  /\ status' = [status EXCEPT ![t] = "failed"]
  /\ UNCHANGED <<killRequested, program, osVars, killVars, logVars>>

-----------------------------------------------------------------------------
(* The processes and the goroutine that copies their output.               *)

Fork(t) ==
  /\ leader[t] = "alive"
  /\ forked[t] = "none"
  /\ forked' = [forked EXCEPT ![t] = "alive"]
  /\ UNCHANGED <<taskVars, leader, emitted, buffered, killVars, logVars>>

Emit(t) ==
  /\ PipeOpen(t)
  /\ emitted[t] < MaxWrites
  /\ emitted' = [emitted EXCEPT ![t] = @ + 1]
  /\ UNCHANGED <<taskVars, leader, forked, buffered, killVars, logVars>>

Copy(t) ==
  /\ buffered[t] < emitted[t]
  /\ buffered' = [buffered EXCEPT ![t] = @ + 1]
  /\ UNCHANGED <<taskVars, leader, forked, emitted, killVars, logVars>>

LeaderExits(t) ==
  /\ leader[t] = "alive"
  /\ leader' = [leader EXCEPT ![t] = "zombie"]
  /\ UNCHANGED <<taskVars, forked, emitted, buffered, killVars, logVars>>

ChildExits(t) ==
  /\ forked[t] = "alive"
  /\ forked' = [forked EXCEPT ![t] = "dead"]
  /\ UNCHANGED <<taskVars, leader, emitted, buffered, killVars, logVars>>

(* reap: cmd.Wait collects the leader ...                                  *)
Wait(t) ==
  /\ leader[t] = "zombie"
  /\ leader' = [leader EXCEPT ![t] = "reaped"]
  /\ UNCHANGED <<taskVars, forked, emitted, buffered, killVars, logVars>>

(* Bug: the process is waited for, not the copies of its output.           *)
RecordUndrained(t) ==
  /\ status[t] = "running" /\ leader[t] = "reaped"
  /\ status' = [status EXCEPT ![t] = IF killRequested[t] THEN "killed" ELSE "exited"]
  /\ UNCHANGED <<killRequested, program, osVars, killVars, logVars>>

(* ... and returns once the pipe is closed and copied to its end; then the *)
(* result is recorded under the task's lock.                               *)
Record(t) ==
  /\ status[t] = "running"
  /\ leader[t] = "reaped"
  /\ ~PipeOpen(t)
  /\ buffered[t] = emitted[t]
  /\ status' = [status EXCEPT ![t] = IF killRequested[t] THEN "killed" ELSE "exited"]
  /\ UNCHANGED <<killRequested, program, osVars, killVars, logVars>>

-----------------------------------------------------------------------------
(* Kill.                                                                   *)

(* Under the task's lock: a task that is not running is left alone.        *)
KillRefused(k, t) ==
  /\ kpc[k] = "idle"
  /\ status[t] # "running"
  /\ kpc' = [kpc EXCEPT ![k] = "refused"]
  /\ victim' = [victim EXCEPT ![k] = t]
  /\ UNCHANGED <<taskVars, osVars, logVars>>

(* Bug: the request is not noted on the task.                              *)
KillRequestUnnoted(k, t) ==
  /\ kpc[k] = "idle" /\ status[t] = "running"
  /\ kpc' = [kpc EXCEPT ![k] = "requested"]
  /\ victim' = [victim EXCEPT ![k] = t]
  /\ UNCHANGED <<taskVars, osVars, logVars>>

KillRequest(k, t) ==
  /\ kpc[k] = "idle"
  /\ status[t] = "running"
  /\ killRequested' = [killRequested EXCEPT ![t] = TRUE]
  /\ kpc' = [kpc EXCEPT ![k] = "requested"]
  /\ victim' = [victim EXCEPT ![k] = t]
  /\ UNCHANGED <<status, program, osVars, logVars>>

(* A signal to the group reaches what is alive and in the group.           *)
Signalled(t, fatalToLeader, fatalToChild) ==
  /\ leader' = IF leader[t] = "alive" /\ fatalToLeader
                 THEN [leader EXCEPT ![t] = "zombie"] ELSE leader
  /\ forked' = IF forked[t] = "alive" /\ program[t].grouped /\ fatalToChild
                 THEN [forked EXCEPT ![t] = "dead"] ELSE forked
  /\ UNCHANGED <<emitted, buffered>>

(* SIGTERM, outside every lock; Kill returns and its goroutine sleeps.     *)
SigTerm(k) ==
  LET t == victim[k] IN
  /\ kpc[k] = "requested"
  /\ Signalled(t, ~program[t].trap, ~program[t].stubborn)
  /\ kpc' = [kpc EXCEPT ![k] = "grace"]
  /\ UNCHANGED <<taskVars, victim, logVars>>

(* Bug: nothing follows SIGTERM.                                           *)
GraceOverGently(k) ==
  /\ kpc[k] = "grace"
  /\ kpc' = [kpc EXCEPT ![k] = "done"]
  /\ UNCHANGED <<taskVars, osVars, victim, logVars>>

(* The grace period is over and the status is read.                        *)
GraceOver(k) ==
  /\ kpc[k] = "grace"
  /\ kpc' = [kpc EXCEPT ![k] = IF status[victim[k]] = "running" THEN "insist" ELSE "done"]
  /\ UNCHANGED <<taskVars, osVars, victim, logVars>>

SigKill(k) ==
  /\ kpc[k] = "insist"
  /\ Signalled(victim[k], TRUE, TRUE)
  /\ kpc' = [kpc EXCEPT ![k] = "done"]
  /\ UNCHANGED <<taskVars, victim, logVars>>

-----------------------------------------------------------------------------
(* task_logs copies the buffers first and takes the snapshot afterwards.   *)

ReadBuffers(r, t) ==
  /\ lpc[r] = "idle"
  /\ status[t] # "none"
  /\ subject' = [subject EXCEPT ![r] = t]
  /\ shown' = [shown EXCEPT ![r] = buffered[t]]
  /\ lpc' = [lpc EXCEPT ![r] = "read"]
  /\ UNCHANGED <<taskVars, osVars, killVars, said>>

Snapshot(r) ==
  /\ lpc[r] = "read"
  /\ said' = [said EXCEPT ![r] = status[subject[r]]]
  /\ lpc' = [lpc EXCEPT ![r] = "done"]
  /\ UNCHANGED <<taskVars, osVars, killVars, subject, shown>>

-----------------------------------------------------------------------------
OSStep(t) == Fork(t) \/ Emit(t) \/ LeaderExits(t) \/ ChildExits(t)

ReaperStep(t) == Copy(t) \/ Wait(t) \/ Record(t)

KillStep(k) == SigTerm(k) \/ GraceOver(k) \/ SigKill(k)

ManagerNext ==
  \/ \E t \in Tasks : SpawnFails(t) \/ \E p \in Programs : Spawn(t, p)
  \/ \E t \in Tasks : OSStep(t) \/ ReaperStep(t)
  \/ \E k \in Killers, t \in Tasks : KillRefused(k, t) \/ KillRequest(k, t)
  \/ \E k \in Killers : KillStep(k)
  \/ \E r \in Readers, t \in Tasks : ReadBuffers(r, t)
  \/ \E r \in Readers : Snapshot(r)

ManagerSpec == ManagerInit /\ [][ManagerNext]_managerVars

(* Goroutines run; no process is obliged to exit, write or fork.           *)
Fairness ==
  /\ \A t \in Tasks : WF_managerVars(ReaperStep(t))
  /\ \A k \in Killers : WF_managerVars(KillStep(k))

FairSpec == ManagerSpec /\ Fairness

-----------------------------------------------------------------------------
(* Types; a task that is or was running has a process, and the buffer      *)
(* holds no output that was not written.                                   *)
ManagerTypeOK ==
  /\ status \in [Tasks -> Statuses]
  /\ killRequested \in [Tasks -> BOOLEAN]
  /\ program \in [Tasks -> Programs \cup {NoProgram}]
  /\ leader \in [Tasks -> {"none", "alive", "zombie", "reaped"}]
  /\ forked \in [Tasks -> {"none", "alive", "dead"}]
  /\ emitted \in [Tasks -> Nat]
  /\ buffered \in [Tasks -> Nat]
  /\ kpc \in [Killers -> {"idle", "refused", "requested", "grace", "insist", "done"}]
  /\ victim \in [Killers -> Tasks \cup {NoTask}]
  /\ lpc \in [Readers -> {"idle", "read", "done"}]
  /\ subject \in [Readers -> Tasks \cup {NoTask}]
  /\ shown \in [Readers -> Nat]
  /\ said \in [Readers -> Statuses]
  /\ \A t \in Tasks :
       /\ status[t] = "running" \/ Ended(t)
            => program[t] \in Programs /\ leader[t] # "none"
       /\ buffered[t] <= emitted[t]
  /\ \A k \in Killers : kpc[k] # "idle" => victim[k] \in Tasks
  /\ \A r \in Readers : lpc[r] # "idle" => subject[r] \in Tasks

(* Never more bash processes than the limit exist, counted by the          *)
(* operating system and not by the statuses Spawn counts.                  *)
LimitRespected ==
  Cardinality({t \in Tasks : leader[t] \in {"alive", "zombie"}}) <= MaxTasks

(* A task reported as exited or killed has no bash left, nobody writes to  *)
(* its pipe any more and all its output is in the buffer.                  *)
EndedMeansEnded ==
  \A t \in Tasks :
    Ended(t) => leader[t] = "reaped" /\ ~PipeOpen(t) /\ buffered[t] = emitted[t]

(* A Kill that was accepted is never forgotten: its task does not end as   *)
(* "exited", however the exit and the signals interleave.                  *)
AcceptedKillIsReported ==
  \A k \in Killers :
    kpc[k] \notin {"idle", "refused"} => status[victim[k]] \in {"running", "killed"}

(* A child that left its group with the output pipe open is out of reach.  *)
Escaped(t) ==
  program[t] # NoProgram /\ ~program[t].grouped /\ program[t].holds

(* A killed task ends, unless a process of it left its group with the pipe *)
(* open: SIGKILL follows where SIGTERM was ignored.                        *)
KillEnds ==
  \A t \in Tasks :
    killRequested[t] ~> status[t] = "killed" \/ Escaped(t)

-----------------------------------------------------------------------------
(* What a tool description and a comment claim and the code does not keep. *)

(* task_kill: "child processes spawned by the task are also terminated".   *)
(* After the grace period no child is left in the group.                   *)
ChildrenTerminated ==
  \A k \in Killers :
    kpc[k] = "done" => forked[victim[k]] # "alive" \/ ~program[victim[k]].grouped

=============================================================================

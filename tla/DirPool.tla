------------------------------ MODULE DirPool -------------------------------
(***************************************************************************)
(* The worker pool of one sample file directory (server/db/dir/mod.rs):    *)
(* its lifecycle, its queue of commands, the condition variable its        *)
(* workers sleep on, and the count of active write streams that keeps the  *)
(* pool from closing under an open file (server/db/dir/writer.rs).         *)
(*                                                                         *)
(* What a WakeWriter command does to recordings is in module Recordings;   *)
(* here a stream is reduced to whether its Writer has a growing recording, *)
(* how many recordings the pool has not finished, and whether the pool     *)
(* holds a file open for it.  The database is open for writing.            *)
(***************************************************************************)
EXTENDS Integers, Sequences, FiniteSets

CONSTANTS
  Workers,        \* the pool's threads
  Streams,        \* streams that record to the directory
  Callers,        \* other threads that send commands to the pool
  JoinsFirst,     \* whether close waits for the Writers to be closed
  MaxUnwritten,   \* bound: unfinished recordings of a stream
  MaxWork,        \* bound: queue length at which no more is submitted
  MaxOpens        \* bound: calls of open

\* Commands other than WakeWriter: complete_open_for_write, mark_deleted, and
\* the ones that leave this state alone (garbage collection, reads, run).
Runs     == {"stage2", "delete", "other"}
Resting  == {"none", "starting", "ready", "finished", "waiting"}
Commands == Runs \cup Streams

ASSUME DirPoolAssumption ==
  /\ IsFiniteSet(Workers) /\ Workers # {}
  /\ IsFiniteSet(Streams) /\ Streams \cap (Runs \cup Resting) = {}
  /\ IsFiniteSet(Callers) /\ Callers \cap Streams = {}
  /\ JoinsFirst \in BOOLEAN
  /\ MaxUnwritten \in Nat /\ MaxWork \in Nat /\ MaxOpens \in Nat

VARIABLES
  (* Inner, behind the pool's lock *)
  state,
  work,             \* queue of commands; a stream stands for WakeWriter
  live_workers,
  active_workers,
  write_streams,
  (* threads *)
  worker,           \* what each worker is doing
  notifying,        \* threads inside send that have yet to call notify_one
  (* streams, each behind its own lock: [pc, file, growing, unwritten] *)
  stream,
  (* opening *)
  reported,         \* open's failure has been sent to its caller
  opens

vars == <<state, work, live_workers, active_workers, write_streams, worker,
          notifying, stream, reported, opens>>

-----------------------------------------------------------------------------

States == {"Closed", "OpeningStage1", "OpenStage1", "OpeningStage2", "Open",
           "Deleting", "Closing"}

\* wake runs through "waking", "sending" and perhaps "failed"; the command is
\* then "queued" until a worker is "writing"; "ending" is dec_write_streams.
\* The code's on_worker is TRUE from "waking" to "writing", "failed" excepted.
Places == {"idle", "waking", "sending", "failed", "queued", "writing", "ending"}

StreamState == [pc : Places, file : BOOLEAN, growing : BOOLEAN,
                unwritten : 0..MaxUnwritten]

\* A stream stands for the thread that feeds its Writer.
Senders == Streams \cup Callers

TypeOK ==
  /\ state \in States
  /\ work \in Seq(Commands)
  /\ live_workers \in Nat
  /\ active_workers \in Nat
  /\ write_streams \in Nat
  /\ worker \in [Workers -> Resting \cup Commands]
  /\ notifying \subseteq Senders
  /\ stream \in [Streams -> StreamState]
  /\ reported \in BOOLEAN
  /\ opens \in 0..MaxOpens

Init ==
  /\ state = "Closed"
  /\ work = << >>
  /\ live_workers = 0
  /\ active_workers = 0
  /\ write_streams = 0
  /\ worker = [w \in Workers |-> "none"]
  /\ notifying = {}
  /\ stream = [s \in Streams |-> [pc |-> "idle", file |-> FALSE,
                                  growing |-> FALSE, unwritten |-> 0]]
  /\ reported = FALSE
  /\ opens = 0

-----------------------------------------------------------------------------
(* The condition variable worker_notify.                                   *)

Waiting == {w \in Workers : worker[w] = "waiting"}

\* Mutation of NotifyOne: the call is left out.
NotifyNone == UNCHANGED worker

NotifyOne ==
  IF Waiting = {} THEN UNCHANGED worker
  ELSE \E w \in Waiting : worker' = [worker EXCEPT ![w] = "ready"]

\* Mutation of AllNotified: notify_one is called instead of notify_all.
OneNotified ==
  IF Waiting = {} THEN worker
  ELSE [worker EXCEPT ![CHOOSE w \in Waiting : TRUE] = "ready"]

AllNotified == [w \in Workers |-> IF w \in Waiting THEN "ready" ELSE worker[w]]

\* send by a thread, once its check of the state has passed: it queues the
\* command, and has released the lock when it gets to notify_one.
Push(sender, cmd) ==
  /\ sender \notin notifying
  /\ work' = Append(work, cmd)
  /\ notifying' = notifying \cup {sender}

Notify(sender) ==
  /\ sender \in notifying
  /\ notifying' = notifying \ {sender}
  /\ NotifyOne
  /\ UNCHANGED <<state, work, live_workers, active_workers, write_streams,
                 stream, reported, opens>>

-----------------------------------------------------------------------------
(* Calls made on the pool's handle.                                        *)

Open ==
  /\ state = "Closed"
  /\ opens < MaxOpens
  /\ opens' = opens + 1
  /\ state' = "OpeningStage1"
  /\ live_workers' = Cardinality(Workers)
  /\ worker' = [w \in Workers |-> "starting"]
  /\ reported' = FALSE
  /\ UNCHANGED <<work, active_workers, write_streams, notifying, stream>>

\* Worker::create, which the first worker runs while the others wait for it.
CreateSucceeds ==
  /\ state = "OpeningStage1"
  /\ ~reported
  /\ state' = "OpenStage1"
  /\ worker' = [w \in Workers |-> "ready"]
  /\ UNCHANGED <<work, live_workers, active_workers, write_streams,
                 notifying, stream, reported, opens>>

CreateReports ==
  /\ state = "OpeningStage1"
  /\ ~reported
  /\ reported' = TRUE
  /\ UNCHANGED <<state, work, live_workers, active_workers, write_streams,
                 worker, notifying, stream, opens>>

CreateFails ==
  /\ state = "OpeningStage1"
  /\ reported
  /\ state' = "Closed"
  /\ worker' = [w \in Workers |-> "none"]
  /\ UNCHANGED <<work, live_workers, active_workers, write_streams,
                 notifying, stream, reported, opens>>

\* Two holds of the lock; no other step changes the state between them.
CompleteOpenForWrite(c) ==
  /\ state = "OpenStage1"
  /\ state' = "OpeningStage2"
  /\ Push(c, "stage2")
  /\ UNCHANGED <<live_workers, active_workers, write_streams, worker, stream,
                 reported, opens>>

\* A Writer has no growing recording and is not inside wake.
Joined(s) ==
  /\ ~stream[s].growing
  /\ stream[s].pc \notin {"waking", "sending", "failed"} /\ s \notin notifying

\* Mutation of Closable: a pool that is still being opened can be closed.
ClosableEarly == {"OpenStage1", "OpeningStage2", "Open"}

Closable == {"OpenStage1", "Open"}

Close ==
  /\ state \in Closable
  /\ JoinsFirst => \A s \in Streams : Joined(s)
  /\ state' = "Closing"
  /\ worker' = IF write_streams = 0 THEN AllNotified ELSE worker
  /\ UNCHANGED <<work, live_workers, active_workers, write_streams,
                 notifying, stream, reported, opens>>

\* Mutation of Quiescent: open files are not looked at.
QuiescentButFiles == work = << >> /\ active_workers = 0

Quiescent == work = << >> /\ active_workers = 0 /\ write_streams = 0

MarkDeleted ==
  /\ state = "Open"
  /\ Quiescent
  /\ state' = "Deleting"
  /\ work' = Append(work, "delete")
  /\ UNCHANGED <<live_workers, active_workers, write_streams, worker,
                 notifying, stream, reported, opens>>

\* collect_garbage, run, open_for_reading or a reader's next chunk.
Submit(c) ==
  /\ state = "Open"
  /\ Len(work) < MaxWork
  /\ Push(c, "other")
  /\ UNCHANGED <<state, live_workers, active_workers, write_streams, worker,
                 stream, reported, opens>>

Handle ==
  \/ Open \/ CreateSucceeds \/ CreateReports \/ CreateFails
  \/ Close \/ MarkDeleted
  \/ \E c \in Callers : CompleteOpenForWrite(c) \/ Submit(c)

-----------------------------------------------------------------------------
(* A stream's Writer.  It holds the stream's lock throughout, and takes    *)
(* the pool's lock up to three times for wake.                             *)

\* Pushes a frame, which may open a recording, and perhaps closes it.
WriterStep(s, close, wake) ==
  LET r == stream[s]
  IN  /\ r.pc \in {"idle", "queued", "writing"} /\ s \notin notifying
      /\ JoinsFirst => state # "Closing"
      /\ close => wake
      /\ ~r.growing => r.unwritten < MaxUnwritten
      /\ stream' =
           [stream EXCEPT ![s] =
              [pc |-> IF ~wake \/ r.pc # "idle" THEN r.pc
                      ELSE IF r.file THEN "sending" ELSE "waking",
               file |-> r.file,
               growing |-> ~close,
               unwritten |-> IF r.growing THEN r.unwritten ELSE r.unwritten + 1]]
      /\ UNCHANGED <<state, work, live_workers, active_workers,
                     write_streams, worker, notifying, reported, opens>>

WakeCounts(s) ==
  /\ stream[s].pc = "waking"
  /\ write_streams' = write_streams + 1
  /\ stream' = [stream EXCEPT ![s].pc = "sending"]
  /\ UNCHANGED <<state, work, live_workers, active_workers, worker,
                 notifying, reported, opens>>

WakeSends(s) ==
  /\ stream[s].pc = "sending"
  /\ stream[s].file \/ state = "Open"
  /\ Push(s, s)
  /\ stream' = [stream EXCEPT ![s].pc = "queued"]
  /\ UNCHANGED <<state, live_workers, active_workers, write_streams, worker,
                 reported, opens>>

WakeIsRefused(s) ==
  /\ stream[s].pc = "sending"
  /\ ~(stream[s].file \/ state = "Open")
  /\ stream' = [stream EXCEPT ![s].pc = "failed"]
  /\ UNCHANGED <<state, work, live_workers, active_workers, write_streams,
                 worker, notifying, reported, opens>>

\* Mutation of WakeUncounts: the count is left as it is.
WakeKeepsCount(s) ==
  /\ stream[s].pc = "failed"
  /\ stream' = [stream EXCEPT ![s].pc = "idle"]
  /\ UNCHANGED <<state, work, live_workers, active_workers, write_streams,
                 worker, notifying, reported, opens>>

WakeUncounts(s) ==
  /\ stream[s].pc = "failed"
  /\ write_streams' = write_streams - 1
  /\ stream' = [stream EXCEPT ![s].pc = "idle"]
  /\ UNCHANGED <<state, work, live_workers, active_workers, worker,
                 notifying, reported, opens>>

Wake(s) == WakeCounts(s) \/ WakeSends(s) \/ WakeIsRefused(s) \/ WakeUncounts(s)

-----------------------------------------------------------------------------
(* Worker::run.                                                            *)

\* Mutations of Relocked: active_now is always, or never, TRUE.
AlwaysActive(w) == active_workers - 1
NeverActive(w)  == active_workers

\* active_workers once a worker that returns from a command has taken the lock.
Relocked(w) == IF worker[w] = "finished" THEN active_workers - 1
               ELSE active_workers

\* Mutation of MayExit: open files are not looked at.
MayExitAtOnce == state = "Closing"

MayExit == state = "Closing" /\ write_streams = 0

TakeCommand(w) ==
  /\ worker[w] \in {"ready", "finished"}
  /\ work # << >>
  /\ work' = Tail(work)
  /\ worker' = [worker EXCEPT ![w] = Head(work)]
  /\ active_workers' = Relocked(w) + 1
  /\ stream' = IF Head(work) \in Streams
               THEN [stream EXCEPT ![Head(work)].pc = "writing"]
               ELSE stream
  /\ UNCHANGED <<state, live_workers, write_streams, notifying, reported,
                 opens>>

Wait(w) ==
  /\ worker[w] \in {"ready", "finished"}
  /\ work = << >> /\ ~MayExit
  /\ worker' = [worker EXCEPT ![w] = "waiting"]
  /\ active_workers' = Relocked(w)
  /\ UNCHANGED <<state, work, live_workers, write_streams, notifying, stream,
                 reported, opens>>

Exit(w) ==
  /\ worker[w] \in {"ready", "finished"}
  /\ work = << >> /\ MayExit
  /\ worker' = [worker EXCEPT ![w] = "none"]
  /\ active_workers' = Relocked(w)
  /\ live_workers' = live_workers - 1
  /\ state' = IF live_workers = 1 THEN "Closed" ELSE state
  /\ UNCHANGED <<work, write_streams, notifying, stream, reported, opens>>

\* std::sync::Condvar may wake a thread that was not notified.
WakeSpuriously(w) ==
  /\ worker[w] = "waiting"
  /\ worker' = [worker EXCEPT ![w] = "ready"]
  /\ UNCHANGED <<state, work, live_workers, active_workers, write_streams,
                 notifying, stream, reported, opens>>

\* The closure of a Run command.  stage2 leaves the state as it is when
\* write_meta fails, or when the caller has dropped its future.
RunCommand(w) ==
  /\ worker[w] \in Runs
  /\ worker' = [worker EXCEPT ![w] = "finished"]
  /\ state' \in CASE worker[w] = "stage2" -> {"Open", state}
                  [] worker[w] = "delete" -> {"OpenStage1", "Open"}
                  [] OTHER -> {state}
  /\ UNCHANGED <<work, live_workers, active_workers, write_streams,
                 notifying, stream, reported, opens>>

-----------------------------------------------------------------------------
(* Worker::write, for the stream whose WakeWriter the worker w runs.       *)

CreateFile(w) ==
  /\ worker[w] \in Streams
  /\ LET r == stream[worker[w]]
     IN  r.pc = "writing" /\ ~r.file /\ r.unwritten > 0
  /\ stream' = [stream EXCEPT ![worker[w]].file = TRUE]
  /\ UNCHANGED <<state, work, live_workers, active_workers, write_streams,
                 worker, notifying, reported, opens>>

\* The recording is synced or aborted, or passed over with no file at all.
FinishRecording(w) ==
  /\ worker[w] \in Streams
  /\ LET r == stream[worker[w]]
     IN  /\ r.pc = "writing" /\ r.unwritten > 0
         /\ stream' = [stream EXCEPT ![worker[w]] =
                          [r EXCEPT !.file = FALSE,
                                    !.unwritten = r.unwritten - 1]]
  /\ UNCHANGED <<state, work, live_workers, active_workers, write_streams,
                 worker, notifying, reported, opens>>

\* Nothing left to do but for a growing recording, whose file stays open.
EndWriteOpen(w) ==
  /\ worker[w] \in Streams
  /\ LET r == stream[worker[w]]
     IN  r.pc = "writing" /\ r.file /\ r.unwritten = 1 /\ r.growing
  /\ stream' = [stream EXCEPT ![worker[w]].pc = "idle"]
  /\ worker' = [worker EXCEPT ![w] = "finished"]
  /\ UNCHANGED <<state, work, live_workers, active_workers, write_streams,
                 notifying, reported, opens>>

EndWrite(w) ==
  /\ worker[w] \in Streams
  /\ LET r == stream[worker[w]]
     IN  r.pc = "writing" /\ ~r.file /\ r.unwritten = 0
  /\ stream' = [stream EXCEPT ![worker[w]].pc = "ending"]
  /\ UNCHANGED <<state, work, live_workers, active_workers, write_streams,
                 worker, notifying, reported, opens>>

DecWriteStreams(w) ==
  /\ worker[w] \in Streams
  /\ stream[worker[w]].pc = "ending"
  /\ write_streams' = write_streams - 1
  /\ stream' = [stream EXCEPT ![worker[w]].pc = "idle"]
  /\ worker' = [(IF write_streams = 1 /\ state = "Closing"
                 THEN AllNotified ELSE worker) EXCEPT ![w] = "finished"]
  /\ UNCHANGED <<state, work, live_workers, active_workers, notifying,
                 reported, opens>>

\* The Writer that woke the worker keeps the stream's lock until it has notified.
WriteFiles(w) ==
  /\ worker[w] \notin notifying
  /\ \/ CreateFile(w) \/ FinishRecording(w)
     \/ EndWriteOpen(w) \/ EndWrite(w) \/ DecWriteStreams(w)

\* What a worker does of its own accord.
Work(w) == TakeCommand(w) \/ Wait(w) \/ Exit(w) \/ RunCommand(w) \/ WriteFiles(w)

-----------------------------------------------------------------------------

Next ==
  \/ Handle
  \/ \E s \in Streams : \/ \E close, wake \in BOOLEAN : WriterStep(s, close, wake)
                        \/ Wake(s)
  \/ \E sender \in Senders : Notify(sender)
  \/ \E w \in Workers : Work(w) \/ WakeSpuriously(w)

Spec == Init /\ [][Next]_vars

\* Threads that can run do; nobody has to call, and no wakeup is spurious.
Fairness ==
  /\ WF_vars(CreateSucceeds \/ CreateReports \/ CreateFails)
  /\ \A s \in Streams : WF_vars(Wake(s))
  /\ \A sender \in Senders : WF_vars(Notify(sender))
  /\ \A w \in Workers : WF_vars(Work(w))

FairSpec == Spec /\ Fairness

-----------------------------------------------------------------------------
(* Properties.                                                             *)

\* A stream that write_streams counts: one on a worker or with a file (the
\* comment on write_streams), but for the steps of wake and dec_write_streams
\* that are on their way to the pool's lock.
IsActive(r) ==
  r.pc \in {"sending", "failed", "queued", "writing", "ending"} \/ r.file

Active == {s \in Streams : IsActive(stream[s])}

\* Streams that are counted.
WriteStreamsBalanced == write_streams = Cardinality(Active)

Busy  == {w \in Workers : worker[w] \in Commands \cup {"finished"}}
Alive == {w \in Workers : worker[w] # "none"}

\* Workers that are counted.  A failed open leaves live_workers stale.
WorkersBalanced ==
  /\ active_workers = Cardinality(Busy)
  /\ state # "Closed" => live_workers = Cardinality(Alive)

(***************************************************************************)
(* The pool's counters are exactly what they stand for, although a stream  *)
(* is counted and uncounted in separate holds of the lock and on different *)
(* threads: checked_sub never fails, the last worker to exit knows that it *)
(* is the last, and mark_deleted sees a command that still runs.           *)
(***************************************************************************)
CountersBalanced == WriteStreamsBalanced /\ WorkersBalanced

\* A stream that is not on a worker and has no file.
Untouched(r) == ~r.file /\ r.pc \in {"idle", "waking", "sending", "failed"}

(***************************************************************************)
(* While a directory is being deleted nothing else touches it: no command  *)
(* but the deletion's is queued or running, and no file is open or about   *)
(* to be, so that its check for an empty directory stays true until the    *)
(* metadata is written.                                                    *)
(***************************************************************************)
DeletionIsExclusive ==
  state = "Deleting" =>
    /\ \A i \in DOMAIN work : work[i] = "delete"
    /\ \A w \in Workers : worker[w] \in Commands => worker[w] = "delete"
    /\ \A s \in Streams : Untouched(stream[s])

(***************************************************************************)
(* A closed pool has let nothing fall: no command is left in its queue, no *)
(* worker runs, and no stream has a file that nobody will ever sync.       *)
(***************************************************************************)
ClosedIsQuiet ==
  state = "Closed" =>
    /\ work = << >>
    /\ \A w \in Workers : worker[w] = "none"
    /\ \A s \in Streams : Untouched(stream[s])

(***************************************************************************)
(* No wakeup is lost: while a worker sleeps there are at least as many     *)
(* workers on their way to the queue, or notifications on their way to a   *)
(* worker, as there are commands in the queue.  The deletion, which is     *)
(* queued with no notification, is left out.                               *)
(***************************************************************************)
NoSleepOverWork ==
  state # "Deleting" /\ Waiting # {} =>
    Len(work) <= Cardinality({w \in Workers : worker[w] \in {"ready", "finished"}})
                   + Cardinality(notifying)

(***************************************************************************)
(* The assertions in the closures of complete_open_for_write and of        *)
(* mark_deleted: the state is still the one the caller left.               *)
(***************************************************************************)
ClosuresFindTheirState ==
  \A w \in Workers :
    /\ worker[w] = "stage2" => state = "OpeningStage2"
    /\ worker[w] = "delete" => state = "Deleting"

(***************************************************************************)
(* close returns, provided the Writers were closed first, as the shutdown  *)
(* sequence of cmds/run/mod.rs does.                                       *)
(***************************************************************************)
CloseCompletes == state = "Closing" ~> state = "Closed"

(***************************************************************************)
(* Every stream that is woken is written: it does not stay on the queue.   *)
(***************************************************************************)
WokenIsWritten ==
  \A s \in Streams : stream[s].pc = "queued" ~> stream[s].pc = "writing"
=============================================================================

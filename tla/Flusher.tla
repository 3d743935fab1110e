------------------------------ MODULE Flusher -------------------------------
(***************************************************************************)
(* When the database is flushed (server/db/lifecycle.rs): the flusher's    *)
(* loop over notifications, commands, completed flushes and its timer, the *)
(* flush it plans, retries and drops, and what is left when the program    *)
(* ends.  Several streams share the one plan.                              *)
(*                                                                         *)
(* What a flush does to rows and files, and the deletion that              *)
(* handle_notify also queues, are in module Recordings.  Here a recording  *)
(* is a length in seconds and whether it was aborted; its id is its place  *)
(* in its stream's sequence.  Completing and syncing it is one step, and   *)
(* a flush, which holds the database lock throughout, is one step.         *)
(***************************************************************************)
EXTENDS Integers, Sequences, FiniteSetsExt

CONSTANTS
  Streams,
  FlushIfSec,     \* stream -> its flush_if_sec
  RetrySec,       \* wait after a failed flush, 60 in the program
  Prompt,         \* whether the flusher's steps take no time
  Awaits,         \* whether await_idle is called
  MaxRecordings,  \* bound: recordings of all streams
  MaxSec,         \* bound: length of a recording, longer ones count as this
  MaxFaults,      \* bound: flushes that fail
  MaxOthers       \* bound: flushes that do not come from the flusher

ASSUME FlusherAssumption ==
  /\ FlushIfSec \in [Streams -> Nat]
  /\ RetrySec \in Nat
  /\ Prompt \in BOOLEAN /\ Awaits \in BOOLEAN
  /\ MaxRecordings \in Nat /\ MaxSec \in Nat
  /\ MaxFaults \in Nat /\ MaxOthers \in Nat

VARIABLES
  (* the streams *)
  age,            \* seconds the growing recording has lasted, or NotGrowing
  recordings,     \* those behind writer_state: sequence of [sec, deleted]
  flush_ready,    \* how many of them the flusher has examined
  committed,      \* ids of those with a row
  (* the flusher *)
  notified,       \* the permit of flusher_notify
  planned_flush,  \* [when, flush_count, senders] or NoPlan
  seen,           \* the flush count it last saw on the watch channel
  ended,          \* its task has returned
  (* the rest of the program *)
  flush_count,
  caller,         \* await_idle's caller: "idle", "sent" or "waiting"
  owed,           \* what was synced when it called: stream -> ids
  process,        \* "running", "stopping" or "exited"
  faults,
  others,
  (* history *)
  retrying        \* the last flush failed

streamVars == <<age, recordings, flush_ready, committed>>
callVars   == <<caller, owed>>
vars == <<streamVars, notified, planned_flush, seen, ended, flush_count,
          callVars, process, faults, others, retrying>>

NotGrowing == -1

\* A recording behind writer_state.
Recording == [sec : 0..MaxSec, deleted : BOOLEAN]

\* A PlannedFlush, whose `when` counts down, and its absence.
Plan   == [when : Nat, flush_count : Nat, senders : BOOLEAN]
NoPlan == [when |-> 0, flush_count |-> -1, senders |-> FALSE]

TypeOK ==
  /\ age \in [Streams -> {NotGrowing} \cup 0..MaxSec]
  /\ recordings \in [Streams -> Seq(Recording)]
  /\ flush_ready \in [Streams -> Nat]
  /\ \A s \in Streams : flush_ready[s] <= Len(recordings[s])
  /\ committed \in [Streams -> SUBSET Nat]
  /\ notified \in BOOLEAN
  /\ planned_flush \in {NoPlan} \cup Plan
  /\ seen \in Nat /\ flush_count \in Nat
  /\ ended \in BOOLEAN
  /\ caller \in {"idle", "sent", "waiting"}
  /\ owed \in [Streams -> SUBSET Nat]
  /\ process \in {"running", "stopping", "exited"}
  /\ faults \in 0..MaxFaults /\ others \in 0..MaxOthers
  /\ retrying \in BOOLEAN

Init ==
  /\ age = [s \in Streams |-> NotGrowing]
  /\ recordings = [s \in Streams |-> << >>]
  /\ flush_ready = [s \in Streams |-> 0]
  /\ committed = [s \in Streams |-> {}]
  /\ notified = FALSE
  /\ planned_flush = NoPlan
  /\ seen = 0 /\ flush_count = 0
  /\ ended = FALSE
  /\ caller = "idle"
  /\ owed = [s \in Streams |-> {}]
  /\ process = "running"
  /\ faults = 0 /\ others = 0
  /\ retrying = FALSE

-----------------------------------------------------------------------------
(* Recordings.                                                             *)

\* The recordings of s with ids in from..to that were not aborted.
Kept(s, from, to) == {id \in from..to : ~recordings[s][id].deleted}

\* Synced recordings; those among them a flush would insert.
Synced(s) == Kept(s, 1, Len(recordings[s]))
Ready(s)  == Kept(s, 1, flush_ready[s]) \ committed[s]

\* How many recordings there are, growing ones included.
Begun == MapThenSumSet(LAMBDA s : Len(recordings[s]), Streams)
           + Cardinality({s \in Streams : age[s] # NotGrowing})

Begin(s) ==
  /\ process = "running"
  /\ age[s] = NotGrowing
  /\ Begun < MaxRecordings
  /\ age' = [age EXCEPT ![s] = 0]
  /\ UNCHANGED <<recordings, flush_ready, committed, notified, planned_flush,
                 seen, ended, flush_count, callVars, process, faults, others,
                 retrying>>

\* The worker syncs or aborts the recording; only the former notifies.
Complete(s, deleted) ==
  /\ age[s] # NotGrowing
  /\ age' = [age EXCEPT ![s] = NotGrowing]
  /\ recordings' = [recordings EXCEPT ![s] =
                      Append(@, [sec |-> age[s], deleted |-> deleted])]
  /\ notified' = (notified \/ ~deleted)
  /\ UNCHANGED <<flush_ready, committed, planned_flush, seen, ended,
                 flush_count, callVars, process, faults, others, retrying>>

-----------------------------------------------------------------------------
(* Flushes.                                                                *)

Flushed ==
  /\ committed' = [s \in Streams |-> committed[s] \cup Ready(s)]
  /\ flush_count' = flush_count + 1
  /\ retrying' = FALSE

\* A rotation's flush (do_rotation).
OtherFlush ==
  /\ process = "running"
  /\ others < MaxOthers
  /\ others' = others + 1
  /\ Flushed
  /\ UNCHANGED <<age, recordings, flush_ready, notified, planned_flush, seen,
                 ended, callVars, process, faults>>

-----------------------------------------------------------------------------
(* The flusher's loop, one action per branch of its biased select!.        *)

\* A plan made before the last flush is obsolete.
Obsolete(plan) == plan # NoPlan /\ plan.flush_count < flush_count

\* Mutation of StillPlanned: an obsolete plan is taken for a good one.
EverPlanned == planned_flush

StillPlanned == IF Obsolete(planned_flush) THEN NoPlan ELSE planned_flush

\* The ids of s that are about to become ready.
Newly(s) == Kept(s, flush_ready[s] + 1, Len(recordings[s]))

\* Mutations of HowSoon: counted from the end of the recording; not saturated.
HowSoonFromEnd(s)     == FlushIfSec[s]
HowSoonUnsaturated(s) == FlushIfSec[s] - recordings[s][Min(Newly(s))].sec

\* How soon s wants a flush: flush_if_sec after the start of the first of them.
HowSoon(s) ==
  LET sec == recordings[s][Min(Newly(s))].sec
  IN  IF FlushIfSec[s] > sec THEN FlushIfSec[s] - sec ELSE 0

\* Mutation of Replaced: the senders of the plan it replaces are dropped.
ReplacedAlone(plan, when) ==
  [when |-> when, flush_count |-> flush_count, senders |-> FALSE]

Replaced(plan, when) ==
  [when |-> when, flush_count |-> flush_count, senders |-> plan.senders]

\* Flusher::handle_notify: the earliest of the plan there is and the flushes
\* the streams want.
HandleNotify ==
  /\ ~ended
  /\ notified
  /\ notified' = FALSE
  /\ flush_ready' = [s \in Streams |-> Len(recordings[s])]
  /\ LET plan   == StillPlanned
         wanted == {HowSoon(s) : s \in {t \in Streams : Newly(t) # {}}}
     IN  planned_flush' =
           IF wanted # {} /\ (plan = NoPlan \/ Min(wanted) < plan.when)
           THEN Replaced(plan, Min(wanted))
           ELSE plan
  /\ UNCHANGED <<age, recordings, committed, seen, ended, flush_count,
                 callVars, process, faults, others, retrying>>

\* The sender of await_idle is kept with the plan, or dropped at once.
HandleAwaitIdle ==
  /\ ~ended /\ ~notified
  /\ caller = "sent"
  /\ caller' = "waiting"
  /\ planned_flush' = IF planned_flush = NoPlan THEN NoPlan
                      ELSE [planned_flush EXCEPT !.senders = TRUE]
  /\ UNCHANGED <<streamVars, notified, seen, ended, flush_count, owed, process,
                 faults, others, retrying>>

\* Mutation of MayEnd: the branches are not taken in their order.
MayEndAtOnce == process # "running"

MayEnd == process # "running" /\ ~notified

\* The last FlusherChannel is gone.  Nothing is flushed here.
End ==
  /\ ~ended
  /\ MayEnd
  /\ ended' = TRUE
  /\ UNCHANGED <<streamVars, notified, planned_flush, seen, flush_count,
                 callVars, process, faults, others, retrying>>

\* No branch before that of completed flushes is taken.
NoCommand == ~ended /\ ~notified /\ caller # "sent" /\ process = "running"

\* A flush has completed: garbage is collected and the plan reconsidered.
HandleFlushed ==
  /\ NoCommand
  /\ seen # flush_count
  /\ seen' = flush_count
  /\ planned_flush' = StillPlanned
  /\ UNCHANGED <<streamVars, notified, ended, flush_count, callVars, process,
                 faults, others, retrying>>

Due ==
  /\ NoCommand /\ seen = flush_count
  /\ planned_flush # NoPlan /\ planned_flush.when = 0

\* Mutation of Retry: a failed flush is not planned again.
NoRetry == NoPlan

Retry == [planned_flush EXCEPT !.when = RetrySec]

\* Flusher::flush.
PlannedFlush ==
  /\ Due
  /\ Flushed
  /\ planned_flush' = NoPlan
  /\ UNCHANGED <<age, recordings, flush_ready, notified, seen, ended,
                 callVars, process, faults, others>>

PlannedFlushFails ==
  /\ Due
  /\ faults < MaxFaults
  /\ faults' = faults + 1
  /\ planned_flush' = Retry
  /\ retrying' = TRUE
  /\ UNCHANGED <<streamVars, notified, seen, ended, flush_count, callVars,
                 process, others>>

\* The timer was taken, and then another flush completed before this one.
PlannedFlushObsolete ==
  /\ NoCommand
  /\ Obsolete(planned_flush) /\ planned_flush.when = 0
  /\ planned_flush' = NoPlan
  /\ UNCHANGED <<streamVars, notified, seen, ended, flush_count, callVars,
                 process, faults, others, retrying>>

Iter ==
  \/ HandleNotify \/ HandleAwaitIdle \/ End \/ HandleFlushed
  \/ PlannedFlush \/ PlannedFlushFails \/ PlannedFlushObsolete

-----------------------------------------------------------------------------
(* Callers, the clock and the end of the program.                          *)

\* FlusherChannel::await_idle.
AwaitIdle ==
  /\ Awaits
  /\ process = "running"
  /\ caller = "idle"
  /\ caller' = "sent"
  /\ owed' = [s \in Streams |-> Synced(s)]
  /\ UNCHANGED <<streamVars, notified, planned_flush, seen, ended, flush_count,
                 process, faults, others, retrying>>

\* Its sender has been dropped.
Answered == caller = "waiting" /\ ~planned_flush.senders

Return ==
  /\ Answered
  /\ caller' = "idle"
  /\ owed' = [s \in Streams |-> {}]
  /\ UNCHANGED <<streamVars, notified, planned_flush, seen, ended, flush_count,
                 process, faults, others, retrying>>

\* The flusher is waiting for its timer, if for anything.
Idle ==
  /\ NoCommand
  /\ seen = flush_count
  /\ planned_flush = NoPlan \/ planned_flush.when > 0

Tick ==
  /\ process = "running"
  /\ Prompt => Idle
  /\ age' = [s \in Streams |-> IF age[s] \in {NotGrowing, MaxSec} THEN age[s]
                               ELSE age[s] + 1]
  /\ planned_flush' = IF planned_flush.when = 0 THEN planned_flush
                      ELSE [planned_flush EXCEPT !.when = @ - 1]
  /\ UNCHANGED <<recordings, flush_ready, committed, notified, seen, ended,
                 flush_count, callVars, process, faults, others, retrying>>

\* Streamers have ended and pools are closed; the channel is dropped.
DropChannel ==
  /\ process = "running"
  /\ \A s \in Streams : age[s] = NotGrowing
  /\ caller = "idle"
  /\ process' = "stopping"
  /\ UNCHANGED <<streamVars, notified, planned_flush, seen, ended, flush_count,
                 callVars, faults, others, retrying>>

\* run returns and the process exits.  Tasks that still hold the database are
\* shut down in the background, so that its Drop, which flushes, may or may
\* not have run by then.
Exit ==
  /\ process = "stopping"
  /\ ended
  /\ process' = "exited"
  /\ \/ Flushed
     \/ UNCHANGED <<committed, flush_count, retrying>>
  /\ UNCHANGED <<age, recordings, flush_ready, notified, planned_flush, seen,
                 ended, callVars, faults, others>>

-----------------------------------------------------------------------------

Next ==
  \/ \E s \in Streams : \/ Begin(s)
                        \/ \E deleted \in BOOLEAN : Complete(s, deleted)
  \/ OtherFlush
  \/ Iter
  \/ AwaitIdle
  \/ Return
  \/ Tick
  \/ DropChannel
  \/ Exit

Spec == Init /\ [][Next]_vars

\* The flusher runs when it can and time passes; nobody has to record or call.
Fairness == WF_vars(Iter) /\ WF_vars(Tick)

FairSpec == Spec /\ Fairness

-----------------------------------------------------------------------------
(* Properties.                                                             *)

(***************************************************************************)
(* No recording is left without a plan: while the flusher runs, whatever   *)
(* it has examined and no flush has inserted is covered by a planned flush *)
(* that is not obsolete, however plans merge, fail and become obsolete.    *)
(***************************************************************************)
PlanCoversReady ==
  ~ended /\ (\E s \in Streams : Ready(s) # {}) =>
    planned_flush # NoPlan /\ ~Obsolete(planned_flush)

(***************************************************************************)
(* await_idle returns only when whatever was synced when it was called     *)
(* has been inserted, which the tests of the crates rely on.               *)
(***************************************************************************)
AnswerIsHonest == Answered => \A s \in Streams : owed[s] \subseteq committed[s]

(***************************************************************************)
(* When the flusher ends, it has examined all that was synced, so that a   *)
(* last flush would insert it: the channel's end is not seen before the    *)
(* notifications that came first.                                          *)
(***************************************************************************)
EndedHasExamined ==
  ended => \A s \in Streams : Synced(s) \subseteq Ready(s) \cup committed[s]

(***************************************************************************)
(* "At most x sec of completed but unflushed recordings per stream"        *)
(* (server/db/json.rs:231), for x the stream's flush_if_sec, while flushes *)
(* succeed and the flusher is prompt.                                      *)
(***************************************************************************)
UnflushedIsBounded ==
  Prompt /\ Idle /\ ~retrying =>
    \A s \in Streams :
      MapThenSumSet(LAMBDA id : recordings[s][id].sec,
                    Synced(s) \ committed[s]) <= FlushIfSec[s]

(***************************************************************************)
(* Every synced recording is inserted, unless the program stops: a failed  *)
(* flush is tried again and no plan is dropped for nothing.                *)
(***************************************************************************)
SyncedIsFlushed ==
  \A s \in Streams : \A id \in 1..MaxRecordings :
    id \in 1..Len(recordings[s]) /\ id \in Synced(s)
      ~> id \in committed[s] \/ process # "running"
=============================================================================

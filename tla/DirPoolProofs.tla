--------------------------- MODULE DirPoolProofs ----------------------------
(***************************************************************************)
(* Proofs about the pool of a sample file directory (module DirPool), for  *)
(* any number of workers and streams.  The invariants come in layers, each *)
(* inductive relative to the ones before it:                               *)
(*                                                                         *)
(*   Shape       types, the queue, which places exclude an open file       *)
(*   Balance     the three counters are the cardinalities they stand for   *)
(*   Exclusion   nothing happens in a pool that is closed or deleting      *)
(*   Expectation the commands that expect a state are alone of their kind  *)
(*   Wakeups     who sleeps is not needed                                  *)
(***************************************************************************)
EXTENDS DirPool, FiniteSetTheorems, TLAPS

-----------------------------------------------------------------------------
(* Shape.                                                                  *)

\* TypeOK but for the counters, which are natural numbers by Balance.
Typed ==
  /\ state \in States
  /\ work \in Seq(Commands)
  /\ worker \in [Workers -> Resting \cup Commands]
  /\ notifying \subseteq Senders
  /\ stream \in [Streams -> StreamState]
  /\ reported \in BOOLEAN
  /\ opens \in 0..MaxOpens

LEMMA NotifyTyped ==
  ASSUME worker \in [Workers -> Resting \cup Commands], NotifyOne
  PROVE  worker' \in [Workers -> Resting \cup Commands]
BY DEF NotifyOne, Waiting, Resting

LEMMA AllNotifiedTyped ==
  ASSUME worker \in [Workers -> Resting \cup Commands]
  PROVE  AllNotified \in [Workers -> Resting \cup Commands]
BY DEF AllNotified, Waiting, Resting

\* The types are invariant: every handler leaves each variable in its range.
THEOREM TypesHold == Spec => []Typed
<1>1. Init => Typed
  <2> SUFFICES ASSUME Init PROVE Typed
    OBVIOUS
  <2> USE DirPoolAssumption DEF DirPoolAssumption, Init
  <2>1. work \in Seq(Commands)
    OBVIOUS
  <2>2. worker \in [Workers -> Resting \cup Commands]
    BY DEF Resting
  <2>3. stream \in [Streams -> StreamState]
    BY DEF StreamState, Places
  <2>4. state \in States /\ opens \in 0..MaxOpens
    BY DEF States
  <2>5. reported \in BOOLEAN /\ notifying \subseteq Senders
    OBVIOUS
  <2> QED BY <2>1, <2>2, <2>3, <2>4, <2>5 DEF Typed
<1>2. Typed /\ [Next]_vars => Typed'
  <2> SUFFICES ASSUME Typed, [Next]_vars PROVE Typed'
    OBVIOUS
  <2> USE DirPoolAssumption DEF DirPoolAssumption, Typed
  <2>1. ASSUME Handle PROVE Typed'
    <3>1. CASE Open
      <4>1. opens' \in 0..MaxOpens BY <3>1 DEF Open
      <4>2. worker' \in [Workers -> Resting \cup Commands] BY <3>1 DEF Open, Resting
      <4> QED BY <3>1, <4>1, <4>2 DEF Open, States
    <3>2. CASE CreateSucceeds BY <3>2 DEF CreateSucceeds, States, Resting
    <3>3. CASE CreateReports BY <3>3 DEF CreateReports
    <3>4. CASE CreateFails BY <3>4 DEF CreateFails, States, Resting
    <3>5. ASSUME NEW c \in Callers, CompleteOpenForWrite(c) PROVE Typed'
      BY <3>5 DEF CompleteOpenForWrite, Push, States, Commands, Runs, Senders
    <3>6. CASE Close BY <3>6, AllNotifiedTyped DEF Close, States
    <3>7. CASE MarkDeleted BY <3>7 DEF MarkDeleted, States, Commands, Runs
    <3>8. ASSUME NEW c \in Callers, Submit(c) PROVE Typed'
      BY <3>8 DEF Submit, Push, Commands, Runs, Senders
    <3> QED BY <2>1, <3>1, <3>2, <3>3, <3>4, <3>5, <3>6, <3>7, <3>8 DEF Handle
  <2>2. ASSUME NEW s \in Streams, NEW close \in BOOLEAN, NEW wake \in BOOLEAN,
               WriterStep(s, close, wake)
        PROVE  Typed'
    BY <2>2 DEF WriterStep, StreamState, Places
  <2>3. ASSUME NEW s \in Streams, Wake(s) PROVE Typed'
    <3>1. CASE WakeCounts(s) BY <3>1 DEF WakeCounts, StreamState, Places
    <3>2. CASE WakeSends(s)
      <4>1. work' \in Seq(Commands) BY <3>2 DEF WakeSends, Push, Commands
      <4>2. notifying' \subseteq Senders BY <3>2 DEF WakeSends, Push, Senders
      <4> QED BY <3>2, <4>1, <4>2 DEF WakeSends, StreamState, Places
    <3>3. CASE WakeIsRefused(s) BY <3>3 DEF WakeIsRefused, StreamState, Places
    <3>4. CASE WakeUncounts(s) BY <3>4 DEF WakeUncounts, StreamState, Places
    <3> QED BY <2>3, <3>1, <3>2, <3>3, <3>4 DEF Wake
  <2>4. ASSUME NEW w \in Workers, Work(w) PROVE Typed'
    <3>1. CASE TakeCommand(w)
      <4> Head(work) \in Commands /\ Tail(work) \in Seq(Commands)
        BY <3>1 DEF TakeCommand
      <4> QED BY <3>1 DEF TakeCommand, StreamState, Places
    <3>2. CASE Wait(w) BY <3>2 DEF Wait, Resting
    <3>3. CASE Exit(w) BY <3>3 DEF Exit, Resting, States
    <3>4. CASE RunCommand(w) BY <3>4 DEF RunCommand, Resting, States, Runs
    <3>5. CASE CreateFile(w) BY <3>5 DEF CreateFile, StreamState
    <3>6. CASE FinishRecording(w)
      <4> DEFINE s == worker[w]
      <4>1. s \in Streams /\ stream[s].unwritten - 1 \in 0..MaxUnwritten
        BY <3>6 DEF FinishRecording, StreamState
      <4>2. [stream[s] EXCEPT !.file = FALSE,
                              !.unwritten = stream[s].unwritten - 1] \in StreamState
        BY <4>1 DEF StreamState
      <4> QED BY <3>6, <4>1, <4>2 DEF FinishRecording
    <3>7. CASE EndWriteOpen(w) BY <3>7 DEF EndWriteOpen, StreamState, Places, Resting
    <3>8. CASE EndWrite(w) BY <3>8 DEF EndWrite, StreamState, Places
    <3>9. CASE DecWriteStreams(w)
      BY ZenonT(30), <3>9, AllNotifiedTyped DEF DecWriteStreams, StreamState, Places, Resting
    <3> QED BY <2>4, <3>1, <3>2, <3>3, <3>4, <3>5, <3>6, <3>7, <3>8, <3>9
            DEF Work, WriteFiles
  <2>5. ASSUME NEW w \in Workers, WakeSpuriously(w) PROVE Typed'
    BY <2>5 DEF WakeSpuriously, Resting
  <2>6. CASE UNCHANGED vars BY <2>6 DEF vars
  <2>7. ASSUME NEW sender \in Senders, Notify(sender) PROVE Typed'
    BY <2>7, NotifyTyped DEF Notify
  <2> QED BY <2>1, <2>2, <2>3, <2>4, <2>5, <2>6, <2>7 DEF Next
<1> QED BY <1>1, <1>2, PTL DEF Spec

\* A stream has no file where it is counted, or about to be, for no file.
FilesPlaced ==
  \A s \in Streams :
    stream[s].pc \in {"waking", "failed", "ending"} => ~stream[s].file

\* The queue holds each stream that is queued, once, and no other stream.
QueuePlaced ==
  /\ \A i \in 1..Len(work) :
       work[i] \in Streams => stream[work[i]].pc = "queued"
  /\ \A i, j \in 1..Len(work) : work[i] \in Streams /\ work[i] = work[j] => i = j

Placed == FilesPlaced /\ QueuePlaced

\* Appending a command that is not a stream's disturbs neither.
LEMMA PushPlaced ==
  ASSUME Typed, QueuePlaced, NEW cmd \in Runs, DirPoolAssumption,
         work' = Append(work, cmd), UNCHANGED stream
  PROVE  QueuePlaced'
<1>1. work \in Seq(Commands) /\ cmd \in Commands /\ cmd \notin Streams
  BY DEF Typed, Commands, DirPoolAssumption
<1>2. /\ Len(work') = Len(work) + 1
      /\ \A i \in 1..Len(work) : work'[i] = work[i]
      /\ work'[Len(work) + 1] = cmd
      /\ Len(work) \in Nat
  BY <1>1
<1> QED BY <1>1, <1>2 DEF QueuePlaced

\* A stream's place changes, and neither from nor to the queue.
LEMMA MovePlaced ==
  ASSUME Typed, QueuePlaced, UNCHANGED work,
         \A s \in Streams : stream[s].pc = "queued" => stream'[s].pc = "queued"
  PROVE  QueuePlaced'
BY DEF QueuePlaced

\* The places are invariant.
THEOREM PlacesHold == Spec => []Placed
<1>1. Init => Placed
  BY DEF Init, Placed, FilesPlaced, QueuePlaced
<1>2. Typed /\ Placed /\ [Next]_vars => Placed'
  <2> SUFFICES ASSUME Typed, Placed, [Next]_vars PROVE Placed'
    OBVIOUS
  <2> USE DirPoolAssumption
  <2>0. FilesPlaced /\ QueuePlaced /\ stream \in [Streams -> StreamState]
    BY DEF Placed, Typed
  <2>1. ASSUME Handle PROVE Placed'
    <3>1. UNCHANGED stream
      BY <2>1 DEF Handle, Open, CreateSucceeds, CreateReports, CreateFails,
                  CompleteOpenForWrite, Close, MarkDeleted, Submit
    <3>2. FilesPlaced'
      BY <2>0, <3>1 DEF FilesPlaced
    <3>3. \/ UNCHANGED work
          \/ \E cmd \in Runs : work' = Append(work, cmd)
      BY <2>1 DEF Handle, Open, CreateSucceeds, CreateReports, CreateFails,
                  CompleteOpenForWrite, Close, MarkDeleted, Submit, Push, Runs
    <3>4. CASE UNCHANGED work
      BY <2>0, <3>1, <3>2, <3>4 DEF Placed, QueuePlaced
    <3>5. CASE \E cmd \in Runs : work' = Append(work, cmd)
      BY <2>0, <3>1, <3>2, <3>5, PushPlaced DEF Placed
    <3> QED BY <3>3, <3>4, <3>5
  <2>2. ASSUME NEW s \in Streams, NEW close \in BOOLEAN, NEW wake \in BOOLEAN,
               WriterStep(s, close, wake)
        PROVE  Placed'
    <3>1. FilesPlaced' BY <2>0, <2>2 DEF FilesPlaced, WriterStep
    <3>2. QueuePlaced' BY <2>0, <2>2, MovePlaced DEF WriterStep
    <3> QED BY <3>1, <3>2 DEF Placed
  <2>3. ASSUME NEW s \in Streams, Wake(s) PROVE Placed'
    <3>1. FilesPlaced'
      BY <2>0, <2>3 DEF FilesPlaced, StreamState, Wake, WakeCounts, WakeSends,
                        WakeIsRefused, WakeUncounts
    <3>2. CASE WakeSends(s)
      <4>1. /\ Len(work') = Len(work) + 1
            /\ \A i \in 1..Len(work) : work'[i] = work[i]
            /\ work'[Len(work) + 1] = s
            /\ Len(work) \in Nat
        BY <3>2 DEF WakeSends, Push, Typed, Commands
      <4>2. \A i \in 1..Len(work) : work[i] # s
        BY <2>0, <3>2 DEF QueuePlaced, WakeSends
      <4>3. /\ stream'[s].pc = "queued"
            /\ \A t \in Streams : t # s => stream'[t] = stream[t]
        BY <2>0, <3>2 DEF WakeSends, StreamState
      <4> QED BY <2>0, <3>1, <4>1, <4>2, <4>3 DEF Placed, QueuePlaced
    <3>3. CASE WakeCounts(s) \/ WakeIsRefused(s) \/ WakeUncounts(s)
      <4>1. QueuePlaced'
        BY <2>0, <3>3, MovePlaced DEF WakeCounts, WakeIsRefused, WakeUncounts, StreamState
      <4> QED BY <3>1, <4>1 DEF Placed
    <3> QED BY <2>3, <3>2, <3>3 DEF Wake
  <2>4. ASSUME NEW w \in Workers, Work(w) PROVE Placed'
    <3>1. CASE TakeCommand(w)
      <4>1. /\ Len(work) \in Nat \ {0}
            /\ Len(work') = Len(work) - 1
            /\ \A i \in 1..Len(work') : work'[i] = work[i + 1]
            /\ Head(work) = work[1]
        BY <3>1 DEF TakeCommand, Typed
      <4>2. \A s \in Streams : s # Head(work) => stream'[s] = stream[s]
        BY <2>0, <3>1 DEF TakeCommand
      <4>3. \A i \in 1..Len(work') : work'[i] \in Streams => work'[i] # Head(work)
        BY <2>0, <4>1 DEF QueuePlaced
      <4>4. QueuePlaced'
        BY SMTT(30), <2>0, <4>1, <4>2, <4>3 DEF QueuePlaced
      <4>5. FilesPlaced'
        BY <2>0, <3>1 DEF FilesPlaced, TakeCommand, StreamState
      <4> QED BY <4>4, <4>5 DEF Placed
    <3>2. CASE Wait(w) \/ Exit(w) \/ RunCommand(w)
      BY <2>0, <3>2 DEF Wait, Exit, RunCommand, Placed, FilesPlaced, QueuePlaced
    <3>3. CASE WriteFiles(w)
      <4>1. FilesPlaced'
        <5> USE <2>0 DEF FilesPlaced
        <5>1. CASE CreateFile(w) BY <5>1 DEF CreateFile, StreamState
        <5>2. CASE FinishRecording(w) BY <5>2 DEF FinishRecording, StreamState
        <5>3. CASE EndWriteOpen(w) BY <5>3 DEF EndWriteOpen, StreamState
        <5>4. CASE EndWrite(w) BY <5>4 DEF EndWrite, StreamState
        <5>5. CASE DecWriteStreams(w) BY <5>5 DEF DecWriteStreams, StreamState
        <5> QED BY <3>3, <5>1, <5>2, <5>3, <5>4, <5>5 DEF WriteFiles
      <4>2. QueuePlaced'
        BY <2>0, <3>3, MovePlaced DEF StreamState, WriteFiles, CreateFile,
             FinishRecording, EndWriteOpen, EndWrite, DecWriteStreams
      <4> QED BY <4>1, <4>2 DEF Placed
    <3> QED BY <2>4, <3>1, <3>2, <3>3 DEF Work
  <2>5. ASSUME NEW w \in Workers, WakeSpuriously(w) PROVE Placed'
    BY <2>0, <2>5 DEF WakeSpuriously, Placed, FilesPlaced, QueuePlaced
  <2>6. CASE UNCHANGED vars
    BY <2>0, <2>6 DEF vars, Placed, FilesPlaced, QueuePlaced
  <2>7. ASSUME NEW sender \in Senders, Notify(sender) PROVE Placed'
    BY <2>0, <2>7 DEF Notify, Placed, FilesPlaced, QueuePlaced
  <2> QED BY <2>1, <2>2, <2>3, <2>4, <2>5, <2>6, <2>7 DEF Next
<1> QED BY <1>1, <1>2, TypesHold, PTL DEF Spec

-----------------------------------------------------------------------------
(* Balance of write_streams.                                               *)

LEMMA ActiveIsFinite ==
  ASSUME DirPoolAssumption
  PROVE  IsFiniteSet(Active) /\ Cardinality(Active) \in Nat
BY FS_Subset, FS_CardinalityType DEF DirPoolAssumption, Active

\* Of two states of the streams the later has one more that is active.
LEMMA OneMoreActive ==
  ASSUME DirPoolAssumption, NEW s \in Streams,
         ~IsActive(stream[s]), IsActive(stream'[s]),
         \A t \in Streams \ {s} : stream'[t] = stream[t]
  PROVE  Cardinality(Active') = Cardinality(Active) + 1
<1>1. Active' = Active \cup {s} /\ s \notin Active
  BY DEF Active
<1> QED BY <1>1, ActiveIsFinite, FS_AddElement

\* Of two states of the streams the later has one fewer that is active.
LEMMA OneFewerActive ==
  ASSUME DirPoolAssumption, NEW s \in Streams,
         IsActive(stream[s]), ~IsActive(stream'[s]),
         \A t \in Streams \ {s} : stream'[t] = stream[t]
  PROVE  Cardinality(Active') = Cardinality(Active) - 1
<1>1. Active' = Active \ {s} /\ s \in Active
  BY DEF Active
<1> QED BY <1>1, ActiveIsFinite, FS_RemoveElement

\* A step that neither makes a stream active nor inactive.
LEMMA SameActive ==
  ASSUME WriteStreamsBalanced, UNCHANGED write_streams,
         \A s \in Streams : IsActive(stream'[s]) <=> IsActive(stream[s])
  PROVE  WriteStreamsBalanced'
<1>1. Active' = Active
  BY DEF Active
<1> QED BY <1>1 DEF WriteStreamsBalanced

(***************************************************************************)
(* write_streams always is the number of active streams, for any number of *)
(* streams and workers: wake and dec_write_streams are balanced whatever   *)
(* runs between their holds of the locks.                                  *)
(***************************************************************************)
THEOREM WriteStreamsStayBalanced == Spec => []WriteStreamsBalanced
<1>1. ASSUME Init PROVE WriteStreamsBalanced
  <2>1. Active = {} BY <1>1 DEF Init, Active, IsActive
  <2> QED BY <1>1, <2>1, FS_EmptySet DEF Init, WriteStreamsBalanced
<1>2. Typed /\ Placed /\ WriteStreamsBalanced /\ [Next]_vars => WriteStreamsBalanced'
  <2> SUFFICES ASSUME Typed, Placed, WriteStreamsBalanced, [Next]_vars
               PROVE  WriteStreamsBalanced'
    OBVIOUS
  <2>0. FilesPlaced /\ QueuePlaced /\ stream \in [Streams -> StreamState]
    BY DEF Placed, Typed
  <2>1. CASE UNCHANGED <<stream, write_streams>>
    BY <2>1, SameActive
  <2>2. ASSUME NEW s \in Streams, NEW close \in BOOLEAN, NEW wake \in BOOLEAN,
               WriterStep(s, close, wake)
        PROVE  WriteStreamsBalanced'
    BY <2>0, <2>2, SameActive DEF WriterStep, IsActive, StreamState
  <2>3. ASSUME NEW s \in Streams, Wake(s) PROVE WriteStreamsBalanced'
    <3>1. CASE WakeCounts(s)
      <4>1. /\ ~IsActive(stream[s]) /\ IsActive(stream'[s])
            /\ \A t \in Streams \ {s} : stream'[t] = stream[t]
        BY <2>0, <3>1 DEF WakeCounts, FilesPlaced, IsActive, StreamState
      <4> QED BY <3>1, <4>1, OneMoreActive, DirPoolAssumption
              DEF WakeCounts, WriteStreamsBalanced
    <3>2. CASE WakeUncounts(s)
      <4>1. /\ IsActive(stream[s]) /\ ~IsActive(stream'[s])
            /\ \A t \in Streams \ {s} : stream'[t] = stream[t]
        BY <2>0, <3>2 DEF WakeUncounts, FilesPlaced, IsActive, StreamState
      <4> QED BY <3>2, <4>1, OneFewerActive, DirPoolAssumption
              DEF WakeUncounts, WriteStreamsBalanced
    <3>3. CASE WakeSends(s)
      BY <2>0, <3>3, SameActive DEF WakeSends, IsActive, StreamState
    <3>4. CASE WakeIsRefused(s)
      BY <2>0, <3>4, SameActive DEF WakeIsRefused, IsActive, StreamState
    <3> QED BY <2>3, <3>1, <3>2, <3>3, <3>4 DEF Wake
  <2>4. ASSUME NEW w \in Workers, TakeCommand(w) PROVE WriteStreamsBalanced'
    <3>1. Head(work) \in Streams => stream[Head(work)].pc = "queued"
      BY <2>0, <2>4 DEF TakeCommand, QueuePlaced, Typed
    <3> QED BY <2>0, <2>4, <3>1, SameActive DEF TakeCommand, IsActive, StreamState
  <2>5. ASSUME NEW w \in Workers, WriteFiles(w) PROVE WriteStreamsBalanced'
    <3>1. CASE CreateFile(w)
      BY <2>0, <3>1, SameActive DEF CreateFile, IsActive, StreamState
    <3>2. CASE FinishRecording(w)
      BY <2>0, <3>2, SameActive DEF FinishRecording, IsActive, StreamState
    <3>3. CASE EndWriteOpen(w)
      BY <2>0, <3>3, SameActive DEF EndWriteOpen, IsActive, StreamState
    <3>4. CASE EndWrite(w)
      BY <2>0, <3>4, SameActive DEF EndWrite, IsActive, StreamState
    <3>5. CASE DecWriteStreams(w)
      <4>1. /\ worker[w] \in Streams
            /\ IsActive(stream[worker[w]]) /\ ~IsActive(stream'[worker[w]])
            /\ \A t \in Streams \ {worker[w]} : stream'[t] = stream[t]
        BY <2>0, <3>5 DEF DecWriteStreams, FilesPlaced, IsActive, StreamState
      <4> QED BY <3>5, <4>1, OneFewerActive, DirPoolAssumption
              DEF DecWriteStreams, WriteStreamsBalanced
    <3> QED BY <2>5, <3>1, <3>2, <3>3, <3>4, <3>5 DEF WriteFiles
  <2>6. ASSUME Handle PROVE UNCHANGED <<stream, write_streams>>
    BY <2>6 DEF Handle, Open, CreateSucceeds, CreateReports, CreateFails,
                CompleteOpenForWrite, Close, MarkDeleted, Submit
  <2>7. ASSUME NEW w \in Workers, Wait(w) \/ Exit(w) \/ RunCommand(w) \/ WakeSpuriously(w)
        PROVE  UNCHANGED <<stream, write_streams>>
    BY <2>7 DEF Wait, Exit, RunCommand, WakeSpuriously
  <2>8. CASE UNCHANGED vars
    BY <2>1, <2>8 DEF vars
  <2>9. ASSUME NEW sender \in Senders, Notify(sender)
        PROVE  UNCHANGED <<stream, write_streams>>
    BY <2>9 DEF Notify
  <2> QED BY <2>1, <2>2, <2>3, <2>4, <2>5, <2>6, <2>7, <2>8, <2>9 DEF Next, Work
<1> QED BY <1>1, <1>2, TypesHold, PlacesHold, PTL DEF Spec

-----------------------------------------------------------------------------
(* Balance of active_workers and live_workers.                             *)

IsBusy(doing) == doing \in Commands \cup {"finished"}

\* While there is no worker to run, none runs.
Phased ==
  /\ state = "Closed" => \A w \in Workers : worker[w] = "none"
  /\ state = "OpeningStage1" => \A w \in Workers : worker[w] = "starting"

Staffed == WorkersBalanced /\ Phased

LEMMA StaffIsFinite ==
  ASSUME DirPoolAssumption
  PROVE  /\ IsFiniteSet(Busy) /\ Cardinality(Busy) \in Nat
         /\ IsFiniteSet(Alive) /\ Cardinality(Alive) \in Nat
BY FS_Subset, FS_CardinalityType DEF DirPoolAssumption, Busy, Alive

LEMMA RestingIsNotBusy ==
  ASSUME DirPoolAssumption
  PROVE  \A doing \in Resting \ {"finished"} : ~IsBusy(doing)
BY DEF DirPoolAssumption, IsBusy, Commands, Runs, Resting

\* A step in which nobody becomes busy or idle, starts or stops.
LEMMA SameStaff ==
  ASSUME Staffed, UNCHANGED <<active_workers, live_workers>>,
         \A w \in Workers : /\ IsBusy(worker'[w]) <=> IsBusy(worker[w])
                            /\ worker'[w] = "none" <=> worker[w] = "none"
                            /\ worker'[w] = "starting" <=> worker[w] = "starting",
         \/ UNCHANGED state
         \/ state # "Closed" /\ state' \notin {"Closed", "OpeningStage1"}
  PROVE  Staffed'
<1>1. Busy' = Busy /\ Alive' = Alive
  BY DEF Busy, Alive, IsBusy
<1> QED BY <1>1 DEF Staffed, WorkersBalanced, Phased

\* Notifying a waiting worker, or all, is such a step.
LEMMA NotifyingSameStaff ==
  ASSUME Typed, DirPoolAssumption, NotifyOne \/ worker' = AllNotified, NEW w \in Workers
  PROVE  /\ IsBusy(worker'[w]) <=> IsBusy(worker[w])
         /\ worker'[w] = "none" <=> worker[w] = "none"
         /\ worker'[w] = "starting" <=> worker[w] = "starting"
<1>1. worker'[w] = worker[w] \/ (worker[w] = "waiting" /\ worker'[w] = "ready")
  <2>1. CASE NotifyOne BY <2>1 DEF Typed, NotifyOne, Waiting
  <2>2. CASE worker' = AllNotified BY <2>2 DEF Typed, AllNotified, Waiting
  <2> QED BY <2>1, <2>2
<1> QED BY <1>1, RestingIsNotBusy DEF Resting

(***************************************************************************)
(* active_workers and live_workers always count the workers that run a     *)
(* command and the ones that have not exited.                              *)
(***************************************************************************)
THEOREM WorkersStayBalanced == Spec => []Staffed
<1>1. ASSUME Init PROVE Staffed
  <2>1. Busy = {}
    BY <1>1, RestingIsNotBusy, DirPoolAssumption DEF Init, Busy, IsBusy, Resting
  <2> QED BY <1>1, <2>1, FS_EmptySet DEF Init, Staffed, WorkersBalanced, Phased
<1>2. Typed /\ Staffed /\ [Next]_vars => Staffed'
  <2> SUFFICES ASSUME Typed, Staffed, [Next]_vars PROVE Staffed'
    OBVIOUS
  <2> USE DirPoolAssumption
  <2>0. /\ worker \in [Workers -> Resting \cup Commands]
        /\ WorkersBalanced /\ Phased
        /\ \A d \in Resting \ {"finished"} : ~IsBusy(d)
    BY RestingIsNotBusy DEF Typed, Staffed
  <2>1. ASSUME Handle PROVE Staffed'
    <3>1. CASE Open
      <4>1. Busy = {} /\ Busy' = {} /\ Alive' = Workers
        BY <2>0, <3>1 DEF Open, Phased, Busy, Alive, IsBusy, Resting
      <4> QED BY <2>0, <3>1, <4>1 DEF Open, Staffed, WorkersBalanced, Phased
    <3>2. CASE CreateSucceeds
      <4>1. Busy = {} /\ Busy' = {} /\ Alive = Workers /\ Alive' = Workers
        BY <2>0, <3>2 DEF CreateSucceeds, Phased, Busy, Alive, IsBusy, Resting
      <4> QED BY <2>0, <3>2, <4>1 DEF CreateSucceeds, Staffed, WorkersBalanced, Phased
    <3>3. CASE CreateReports
      BY <3>3, SameStaff DEF CreateReports
    <3>4. CASE CreateFails
      <4>1. Busy = {} /\ Busy' = {}
        BY <2>0, <3>4 DEF CreateFails, Phased, Busy, IsBusy, Resting
      <4> QED BY <2>0, <3>4, <4>1 DEF CreateFails, Staffed, WorkersBalanced, Phased
    <3>5. ASSUME NEW c \in Callers, CompleteOpenForWrite(c) PROVE Staffed'
      BY <3>5, SameStaff DEF CompleteOpenForWrite
    <3>6. CASE Close
      BY <3>6, SameStaff, NotifyingSameStaff DEF Close, Closable
    <3>7. CASE MarkDeleted
      BY <3>7, SameStaff DEF MarkDeleted
    <3>8. ASSUME NEW c \in Callers, Submit(c) PROVE Staffed'
      BY <3>8, SameStaff DEF Submit
    <3> QED BY <2>1, <3>1, <3>2, <3>3, <3>4, <3>5, <3>6, <3>7, <3>8 DEF Handle
  <2>2. CASE UNCHANGED <<state, worker, active_workers, live_workers>>
    BY <2>2, SameStaff
  <2>3. ASSUME NEW sender \in Senders, Notify(sender) PROVE Staffed'
    BY <2>3, SameStaff, NotifyingSameStaff DEF Notify
  <2>4. ASSUME NEW w \in Workers, TakeCommand(w) PROVE Staffed'
    <3>1. /\ Head(work) \in Commands
          /\ worker' = [worker EXCEPT ![w] = Head(work)]
          /\ worker[w] \in {"ready", "finished"}
          /\ UNCHANGED <<state, live_workers>>
      BY <2>4 DEF TakeCommand, Typed
    <3>2. Head(work) \notin Resting
      BY <3>1 DEF DirPoolAssumption, Commands, Runs, Resting
    <3>3. Busy' = Busy \cup {w} /\ Alive' = Alive
      BY <2>0, <3>1, <3>2 DEF Busy, Alive, Resting
    <3>4. w \in Busy <=> worker[w] = "finished"
      BY <2>0, <3>1 DEF Busy, IsBusy, Resting
    <3>5. active_workers' = Cardinality(Busy')
      <4>1. active_workers = Cardinality(Busy) /\ Cardinality(Busy) \in Nat
        BY <2>0, StaffIsFinite DEF WorkersBalanced
      <4>2. Cardinality(Busy') = IF worker[w] = "finished" THEN Cardinality(Busy)
                                 ELSE Cardinality(Busy) + 1
        BY <3>3, <3>4, StaffIsFinite, FS_AddElement
      <4> QED BY <2>4, <4>1, <4>2 DEF TakeCommand, Relocked
    <3>6. Phased'
      BY <2>0, <3>1 DEF Phased
    <3> QED BY <2>0, <3>1, <3>3, <3>5, <3>6 DEF Staffed, WorkersBalanced
  <2>5. ASSUME NEW w \in Workers, NEW rests \in {"waiting", "none"},
               worker[w] \in {"ready", "finished"},
               worker' = [worker EXCEPT ![w] = rests], active_workers' = Relocked(w)
        PROVE  active_workers' = Cardinality(Busy')
    <3>1. Busy' = Busy \ {w}
      BY <2>0, <2>5 DEF Busy, IsBusy, Resting
    <3>2. w \in Busy <=> worker[w] = "finished"
      BY <2>0, <2>5 DEF Busy, IsBusy, Resting
    <3> QED BY <2>0, <2>5, <3>1, <3>2, StaffIsFinite, FS_RemoveElement
            DEF Relocked, WorkersBalanced
  <2>6. ASSUME NEW w \in Workers, Wait(w) PROVE Staffed'
    <3>1. Alive' = Alive /\ Phased'
      BY <2>0, <2>6 DEF Wait, Alive, Phased
    <3> QED BY <2>0, <2>5, <2>6, <3>1 DEF Wait, Staffed, WorkersBalanced
  <2>7. ASSUME NEW w \in Workers, Exit(w) PROVE Staffed'
    <3>1. active_workers' = Cardinality(Busy')
      BY <2>5, <2>7 DEF Exit
    <3>2. Alive' = Alive \ {w} /\ w \in Alive
      BY <2>0, <2>7 DEF Exit, Alive
    <3>3. live_workers = Cardinality(Alive) /\ live_workers' = Cardinality(Alive')
      BY <2>0, <2>7, <3>2, StaffIsFinite, FS_RemoveElement DEF Exit, MayExit, WorkersBalanced
    <3>4. state' = "Closed" => Alive' = {}
      BY SMTT(30), <2>7, <3>2, <3>3, StaffIsFinite, FS_EmptySet, FS_RemoveElement DEF Exit, MayExit
    <3>5. Phased'
      BY <2>0, <2>7, <3>4 DEF Exit, MayExit, Phased, Alive
    <3> QED BY <3>1, <3>3, <3>5 DEF Staffed, WorkersBalanced
  <2>8. ASSUME NEW w \in Workers, RunCommand(w) PROVE Staffed'
    <3>1. worker[w] \notin Resting /\ IsBusy(worker[w]) /\ IsBusy("finished")
      BY <2>8 DEF RunCommand, Runs, Resting, IsBusy, Commands
    <3>2. state \notin {"Closed", "OpeningStage1"}
      BY <2>0, <3>1 DEF Phased, Resting
    <3>3. state' \notin {"Closed", "OpeningStage1"}
      BY <2>8, <3>2 DEF RunCommand, Runs
    <3> QED BY <2>0, <2>8, <3>1, <3>2, <3>3, SameStaff DEF RunCommand, Resting
  <2>9. ASSUME NEW w \in Workers, WakeSpuriously(w) PROVE Staffed'
    BY <2>0, <2>9, SameStaff DEF WakeSpuriously, Resting
  <2>10. ASSUME NEW w \in Workers, WriteFiles(w) PROVE Staffed'
    <3>1. worker[w] \in Streams => /\ worker[w] \notin Resting /\ IsBusy(worker[w])
                                  /\ IsBusy("finished")
      BY DEF DirPoolAssumption, IsBusy, Commands, Runs, Resting
    <3>2. CASE CreateFile(w) \/ FinishRecording(w) \/ EndWrite(w)
      BY <2>2, <3>2 DEF CreateFile, FinishRecording, EndWrite
    <3>3. CASE EndWriteOpen(w)
      BY <2>0, <3>1, <3>3, SameStaff DEF EndWriteOpen, Resting
    <3>4. CASE DecWriteStreams(w)
      <4>1. \A v \in Workers :
              \/ worker'[v] = worker[v]
              \/ worker[v] = "waiting" /\ worker'[v] = "ready"
              \/ v = w /\ worker'[v] = "finished"
        BY <2>0, <3>4 DEF DecWriteStreams, AllNotified, Waiting
      <4> QED BY <2>0, <3>1, <3>4, <4>1, SameStaff DEF DecWriteStreams, Resting
    <3> QED BY <2>10, <3>2, <3>3, <3>4 DEF WriteFiles
  <2>11. ASSUME NEW s \in Streams, Wake(s) PROVE Staffed'
    BY <2>2, <2>11 DEF Wake, WakeCounts, WakeSends, WakeIsRefused, WakeUncounts
  <2>12. ASSUME NEW s \in Streams, NEW close \in BOOLEAN, NEW wake \in BOOLEAN,
                WriterStep(s, close, wake)
         PROVE  Staffed'
    BY <2>2, <2>12 DEF WriterStep
  <2>13. CASE UNCHANGED vars
    BY <2>2, <2>13 DEF vars
  <2> QED BY <2>1, <2>3, <2>4, <2>6, <2>7, <2>8, <2>9, <2>10, <2>11, <2>12, <2>13
          DEF Next, Work
<1> QED BY <1>1, <1>2, TypesHold, PTL DEF Spec

(***************************************************************************)
(* The workers' counters are balanced: the last worker to exit knows that  *)
(* it is the last.                                                         *)
(***************************************************************************)
THEOREM WorkersCounted == Spec => []WorkersBalanced
<1>1. Staffed => WorkersBalanced
  BY DEF Staffed
<1> QED BY <1>1, WorkersStayBalanced, PTL

(***************************************************************************)
(* All three counters are what they stand for, for any number of workers   *)
(* and streams.                                                            *)
(***************************************************************************)
THEOREM CountersStayBalanced == Spec => []CountersBalanced
<1>1. WriteStreamsBalanced /\ WorkersBalanced => CountersBalanced
  BY DEF CountersBalanced
<1> QED BY <1>1, WriteStreamsStayBalanced, WorkersCounted, PTL

\* No counter underflows: live_workers is decremented by live workers only.
LEMMA LiveWorkersIsNat == Spec => [](live_workers \in Nat)
<1>1. Init => live_workers \in Nat
  BY DEF Init
<1>2. Staffed /\ live_workers \in Nat /\ [Next]_vars => (live_workers \in Nat)'
  <2> SUFFICES ASSUME Staffed, live_workers \in Nat, [Next]_vars
               PROVE  live_workers' \in Nat
    OBVIOUS
  <2> USE DirPoolAssumption
  <2>1. CASE UNCHANGED live_workers
    BY <2>1
  <2>2. CASE Open
    BY <2>2, FS_CardinalityType DEF Open, DirPoolAssumption
  <2>3. ASSUME NEW w \in Workers, Exit(w) PROVE live_workers' \in Nat
    <3>1. live_workers = Cardinality(Alive) /\ w \in Alive
      BY <2>3 DEF Exit, MayExit, Staffed, WorkersBalanced, Alive
    <3>2. live_workers # 0
      BY <3>1, StaffIsFinite, FS_EmptySet
    <3> QED BY <2>3, <3>2 DEF Exit
  <2>4. ASSUME Handle, ~Open PROVE UNCHANGED live_workers
    BY <2>4 DEF Handle, CreateSucceeds, CreateReports, CreateFails,
                CompleteOpenForWrite, Close, MarkDeleted, Submit
  <2>5. ASSUME NEW s \in Streams,
               Wake(s) \/ \E close, wake \in BOOLEAN : WriterStep(s, close, wake)
        PROVE  UNCHANGED live_workers
    BY <2>5 DEF Wake, WakeCounts, WakeSends, WakeIsRefused, WakeUncounts, WriterStep
  <2>6. ASSUME NEW w \in Workers, Work(w) \/ WakeSpuriously(w), ~Exit(w)
        PROVE  UNCHANGED live_workers
    BY <2>6 DEF Work, TakeCommand, Wait, RunCommand, WakeSpuriously, WriteFiles,
                CreateFile, FinishRecording, EndWriteOpen, EndWrite, DecWriteStreams
  <2>7. CASE UNCHANGED vars
    BY <2>1, <2>7 DEF vars
  <2>8. ASSUME NEW sender \in Senders, Notify(sender) PROVE UNCHANGED live_workers
    BY <2>8 DEF Notify
  <2> QED BY <2>1, <2>2, <2>3, <2>4, <2>5, <2>6, <2>7, <2>8 DEF Next
<1> QED BY <1>1, <1>2, WorkersStayBalanced, PTL DEF Spec

(***************************************************************************)
(* Type correctness, which for the counters says that no checked_sub of    *)
(* the code ever fails.                                                    *)
(***************************************************************************)
THEOREM TypeCorrect == Spec => []TypeOK
<1>1. Typed /\ WriteStreamsBalanced /\ Staffed /\ live_workers \in Nat => TypeOK
  BY ActiveIsFinite, StaffIsFinite, DirPoolAssumption
     DEF Typed, TypeOK, WriteStreamsBalanced, Staffed, WorkersBalanced
<1> QED BY <1>1, TypesHold, WriteStreamsStayBalanced, WorkersStayBalanced,
           LiveWorkersIsNat, PTL

-----------------------------------------------------------------------------
(* Exclusion.                                                              *)

Unopened == state \in {"Closed", "OpeningStage1"}

\* A pool that is closed, or is only being opened, has nothing to do.
UnopenedIsQuiet ==
  Unopened => work = << >> /\ \A s \in Streams : Untouched(stream[s])

Excluded == UnopenedIsQuiet /\ DeletionIsExclusive

\* With no active stream, no stream is touched.
LEMMA NoneActive ==
  ASSUME Typed, WriteStreamsBalanced, DirPoolAssumption, write_streams = 0
  PROVE  \A s \in Streams : Untouched(stream[s])
<1>1. Active = {}
  BY ActiveIsFinite, FS_EmptySet DEF WriteStreamsBalanced
<1> QED BY <1>1 DEF Typed, StreamState, Places, Active, IsActive, Untouched

(***************************************************************************)
(* While a directory is being deleted no command but the deletion's is     *)
(* queued or running and no file is open; a pool that is closed has an     *)
(* empty queue and no open file.                                           *)
(***************************************************************************)
THEOREM ExclusionHolds == Spec => []Excluded
<1>1. Init => Excluded
  BY DEF Init, Excluded, UnopenedIsQuiet, DeletionIsExclusive, Untouched
<1>2. Typed /\ Placed /\ WriteStreamsBalanced /\ Staffed /\ Excluded /\ [Next]_vars
        => Excluded'
  <2> SUFFICES ASSUME Typed, Placed, WriteStreamsBalanced, Staffed, Excluded,
                      [Next]_vars
               PROVE  Excluded'
    OBVIOUS
  <2> USE DirPoolAssumption
  <2>0. /\ stream \in [Streams -> StreamState]
        /\ worker \in [Workers -> Resting \cup Commands]
        /\ UnopenedIsQuiet /\ DeletionIsExclusive /\ Phased /\ WorkersBalanced
    BY DEF Typed, Excluded, Staffed
  <2>1. \A d \in Resting : d \notin Commands
    BY DEF DirPoolAssumption, Resting, Commands, Runs
  <2>2. ASSUME ~Unopened', state' # "Deleting" PROVE Excluded'
    BY <2>2 DEF Excluded, UnopenedIsQuiet, DeletionIsExclusive
  <2>3. ASSUME UNCHANGED <<state, work, worker>>,
               Unopened \/ state = "Deleting" =>
                 \A s \in Streams : Untouched(stream'[s])
        PROVE  Excluded'
    BY <2>0, <2>3 DEF Unopened, Excluded, UnopenedIsQuiet, DeletionIsExclusive
  <2>4. Unopened \/ state = "Deleting" => \A s \in Streams : Untouched(stream[s])
    BY <2>0 DEF UnopenedIsQuiet, DeletionIsExclusive
  <2>5. ASSUME Handle PROVE Excluded'
    <3>1. CASE Open
      BY <2>0, <3>1 DEF Open, Unopened, Excluded, UnopenedIsQuiet, DeletionIsExclusive
    <3>2. CASE CreateSucceeds
      BY <2>2, <3>2 DEF CreateSucceeds, Unopened
    <3>3. CASE CreateReports
      BY <2>3, <2>4, <3>3 DEF CreateReports
    <3>4. CASE CreateFails
      BY <2>0, <3>4 DEF CreateFails, Unopened, Excluded, UnopenedIsQuiet,
                        DeletionIsExclusive
    <3>5. ASSUME NEW c \in Callers, CompleteOpenForWrite(c) PROVE Excluded'
      BY <2>2, <3>5 DEF CompleteOpenForWrite, Unopened
    <3>6. CASE Close
      BY <2>2, <3>6 DEF Close, Unopened
    <3>7. CASE MarkDeleted
      <4>1. Busy = {}
        BY <2>0, <3>7, StaffIsFinite, FS_EmptySet DEF MarkDeleted, Quiescent, WorkersBalanced
      <4>2. \A w \in Workers : worker'[w] \notin Commands
        BY <3>7, <4>1 DEF MarkDeleted, Busy
      <4>3. \A s \in Streams : Untouched(stream'[s])
        BY <3>7, NoneActive DEF MarkDeleted, Quiescent
      <4>4. \A i \in DOMAIN work' : work'[i] = "delete"
        BY <3>7 DEF MarkDeleted, Quiescent
      <4> QED BY <3>7, <4>2, <4>3, <4>4
              DEF MarkDeleted, Unopened, Excluded, UnopenedIsQuiet, DeletionIsExclusive
    <3>8. ASSUME NEW c \in Callers, Submit(c) PROVE Excluded'
      BY <2>2, <3>8 DEF Submit, Unopened
    <3> QED BY <2>5, <3>1, <3>2, <3>3, <3>4, <3>5, <3>6, <3>7, <3>8 DEF Handle
  <2>6. ASSUME NEW s \in Streams, NEW close \in BOOLEAN, NEW wake \in BOOLEAN,
               WriterStep(s, close, wake)
        PROVE  Excluded'
    <3>1. ASSUME \A t \in Streams : Untouched(stream[t])
          PROVE  \A t \in Streams : Untouched(stream'[t])
      BY <2>0, <2>6, <3>1 DEF WriterStep, Untouched, StreamState
    <3> QED BY <2>3, <2>4, <2>6, <3>1 DEF WriterStep
  <2>7. ASSUME NEW s \in Streams, Wake(s) PROVE Excluded'
    <3>1. CASE WakeSends(s)
      <4>1. ~Unopened /\ state # "Deleting"
        BY <2>4, <3>1 DEF WakeSends, Untouched, Unopened
      <4> QED BY <2>2, <3>1, <4>1 DEF WakeSends, Unopened
    <3>2. CASE WakeCounts(s) \/ WakeIsRefused(s) \/ WakeUncounts(s)
      <4>1. ASSUME \A t \in Streams : Untouched(stream[t])
            PROVE  \A t \in Streams : Untouched(stream'[t])
        BY <2>0, <3>2, <4>1 DEF WakeCounts, WakeIsRefused, WakeUncounts, Untouched,
                                StreamState
      <4> QED BY <2>3, <2>4, <3>2, <4>1 DEF WakeCounts, WakeIsRefused, WakeUncounts
    <3> QED BY <2>7, <3>1, <3>2 DEF Wake
  <2>8. ASSUME NEW w \in Workers, TakeCommand(w) PROVE Excluded'
    <3>1. ~Unopened
      BY <2>0, <2>8 DEF TakeCommand, UnopenedIsQuiet
    <3>2. CASE state # "Deleting"
      BY <2>2, <2>8, <3>1, <3>2 DEF TakeCommand, Unopened
    <3>3. CASE state = "Deleting"
      <4>1. Head(work) = "delete" /\ \A i \in DOMAIN work' : work'[i] = "delete"
        BY <2>0, <2>8, <3>3 DEF TakeCommand, Typed, DeletionIsExclusive
      <4>2. UNCHANGED <<state, stream>>
        BY <2>8, <4>1 DEF TakeCommand, DirPoolAssumption, Runs
      <4>3. \A v \in Workers : worker'[v] \in Commands => worker'[v] = "delete"
        BY <2>0, <2>8, <3>3, <4>1 DEF TakeCommand, DeletionIsExclusive
      <4> QED BY <2>0, <3>1, <3>3, <4>1, <4>2, <4>3
              DEF Unopened, Excluded, UnopenedIsQuiet, DeletionIsExclusive
    <3> QED BY <3>2, <3>3
  <2>9. ASSUME NEW w \in Workers, Wait(w) \/ WakeSpuriously(w) PROVE Excluded'
    <3>1. /\ UNCHANGED <<state, work, stream>>
          /\ \A v \in Workers : worker'[v] = worker[v] \/ worker'[v] \notin Commands
      BY <2>0, <2>1, <2>9 DEF Wait, WakeSpuriously, Resting
    <3> QED BY <2>0, <3>1 DEF Unopened, Excluded, UnopenedIsQuiet, DeletionIsExclusive
  <2>10. ASSUME NEW w \in Workers, Exit(w) PROVE Excluded'
    <3>1. work' = << >> /\ state' # "Deleting" /\ write_streams = 0 /\ UNCHANGED stream
      BY <2>10 DEF Exit, MayExit
    <3> QED BY <3>1, NoneActive
            DEF Unopened, Excluded, UnopenedIsQuiet, DeletionIsExclusive
  <2>11. ASSUME NEW w \in Workers, RunCommand(w) PROVE Excluded'
    <3>1. worker[w] \in Commands /\ worker[w] \notin Resting
      BY <2>1, <2>11 DEF RunCommand, Commands
    <3>2. ~Unopened
      BY <2>0, <3>1 DEF Unopened, Phased, Resting
    <3>3. state = "Deleting" => worker[w] = "delete"
      BY <2>0, <3>1 DEF DeletionIsExclusive
    <3>4. ~Unopened' /\ state' # "Deleting"
      BY <2>11, <3>2, <3>3 DEF RunCommand, Runs, Unopened
    <3> QED BY <2>2, <3>4
  <2>12. ASSUME NEW w \in Workers, WriteFiles(w) PROVE Excluded'
    <3>1. /\ worker[w] \in Streams
          /\ stream[worker[w]].pc \in {"writing", "ending"}
          /\ UNCHANGED state
      BY <2>12 DEF WriteFiles, CreateFile, FinishRecording, EndWriteOpen, EndWrite,
                   DecWriteStreams
    <3>2. ~Unopened /\ state # "Deleting"
      BY <2>4, <3>1 DEF Untouched
    <3> QED BY <2>2, <3>1, <3>2 DEF Unopened
  <2>13. CASE UNCHANGED vars
    BY <2>3, <2>4, <2>13 DEF vars
  <2>14. ASSUME NEW sender \in Senders, Notify(sender) PROVE Excluded'
    <3>1. /\ UNCHANGED <<state, work, stream>>
          /\ \A v \in Workers : worker'[v] = worker[v] \/ worker'[v] \notin Commands
      BY <2>0, <2>1, <2>14 DEF Notify, NotifyOne, Resting
    <3> QED BY <2>0, <3>1 DEF Unopened, Excluded, UnopenedIsQuiet, DeletionIsExclusive
  <2> QED BY <2>5, <2>6, <2>7, <2>8, <2>9, <2>10, <2>11, <2>12, <2>13, <2>14
          DEF Next, Work
<1> QED BY <1>1, <1>2, TypesHold, PlacesHold, WriteStreamsStayBalanced,
           WorkersStayBalanced, PTL DEF Spec

(***************************************************************************)
(* A deletion has the directory to itself, for any number of workers and   *)
(* streams.                                                                *)
(***************************************************************************)
THEOREM DeletionsAreExclusive == Spec => []DeletionIsExclusive
<1>1. Excluded => DeletionIsExclusive
  BY DEF Excluded
<1> QED BY <1>1, ExclusionHolds, PTL

(***************************************************************************)
(* A pool does not close under a queued command or an open file.           *)
(***************************************************************************)
THEOREM ClosedPoolsAreQuiet == Spec => []ClosedIsQuiet
<1>1. Excluded /\ Staffed => ClosedIsQuiet
  BY DEF Excluded, Staffed, Phased, UnopenedIsQuiet, Unopened, ClosedIsQuiet
<1> QED BY <1>1, ExclusionHolds, WorkersStayBalanced, PTL

-----------------------------------------------------------------------------
(* Expectation: the commands whose closures assert the state.              *)

InQueue(cmd)  == \E i \in 1..Len(work) : work[i] = cmd
OnWorker(cmd) == \E w \in Workers : worker[w] = cmd

\* At most one such command exists, and only in the state it expects.
Expects(cmd, expected) ==
  /\ \A i, j \in 1..Len(work) : work[i] = cmd /\ work[j] = cmd => i = j
  /\ \A v, w \in Workers : worker[v] = cmd /\ worker[w] = cmd => v = w
  /\ ~(InQueue(cmd) /\ OnWorker(cmd))
  /\ InQueue(cmd) \/ OnWorker(cmd) => state = expected

Expected == Expects("stage2", "OpeningStage2") /\ Expects("delete", "Deleting")

\* Queueing another command, or none, and changing the state while cmd is not
\* there.
LEMMA OthersExpect ==
  ASSUME Typed, NEW cmd, NEW expected, Expects(cmd, expected),
         work' = work \/ \E other \in Commands \ {cmd} : work' = Append(work, other),
         \A w \in Workers : worker'[w] = cmd => worker[w] = cmd,
         state' = state \/ state # expected \/ ~(InQueue(cmd) \/ OnWorker(cmd))'
  PROVE  Expects(cmd, expected)'
<1>1. \A i \in 1..Len(work') : work'[i] = cmd => i \in 1..Len(work) /\ work[i] = cmd
  <2>1. CASE work' = work
    BY <2>1
  <2>2. ASSUME NEW other \in Commands \ {cmd}, work' = Append(work, other)
        PROVE  \A i \in 1..Len(work') : work'[i] = cmd => i \in 1..Len(work) /\ work[i] = cmd
    <3>1. /\ Len(work') = Len(work) + 1 /\ Len(work) \in Nat
          /\ \A i \in 1..Len(work) : work'[i] = work[i]
          /\ work'[Len(work) + 1] = other
      BY <2>2 DEF Typed
    <3> QED BY <3>1
  <2> QED BY <2>1, <2>2
<1>2. InQueue(cmd)' => InQueue(cmd)
  BY <1>1 DEF InQueue
<1>3. OnWorker(cmd)' => OnWorker(cmd)
  BY DEF OnWorker
<1> QED BY <1>1, <1>2, <1>3 DEF Expects

\* A command that nothing like it is left of is queued.
LEMMA QueuedExpects ==
  ASSUME Typed, NEW cmd \in Commands, NEW expected, Expects(cmd, expected),
         state # expected, state' = expected, work' = Append(work, cmd),
         \A w \in Workers : worker'[w] = cmd => worker[w] = cmd
  PROVE  Expects(cmd, expected)'
<1>1. ~InQueue(cmd) /\ ~OnWorker(cmd)
  BY DEF Expects
<1>2. /\ Len(work') = Len(work) + 1 /\ Len(work) \in Nat
      /\ \A i \in 1..Len(work) : work'[i] = work[i] /\ work[i] # cmd
  BY <1>1 DEF Typed, InQueue
<1>3. \A i \in 1..Len(work') : work'[i] = cmd => i = Len(work) + 1
  BY <1>2
<1>4. \A w \in Workers : worker'[w] # cmd
  BY <1>1 DEF OnWorker
<1> QED BY <1>3, <1>4 DEF Expects, OnWorker

\* A worker takes a command from the queue.
LEMMA TakenExpects ==
  ASSUME Typed, NEW w \in Workers, TakeCommand(w), NEW cmd, cmd \notin Resting,
         NEW expected, Expects(cmd, expected)
  PROVE  Expects(cmd, expected)'
<1>1. /\ Len(work) \in Nat \ {0} /\ Len(work') = Len(work) - 1
      /\ \A i \in 1..Len(work') : work'[i] = work[i + 1] /\ i + 1 \in 1..Len(work)
      /\ Head(work) = work[1] /\ 1 \in 1..Len(work)
  BY DEF TakeCommand, Typed
<1>2. worker' = [worker EXCEPT ![w] = work[1]] /\ worker[w] # cmd /\ state' = state
  BY <1>1 DEF TakeCommand, Resting
<1>3. \A v \in Workers : worker'[v] = IF v = w THEN work[1] ELSE worker[v]
  BY <1>2 DEF Typed
<1>4. CASE work[1] = cmd
  <2>1. InQueue(cmd) /\ ~OnWorker(cmd)
    BY <1>1, <1>4 DEF Expects, InQueue
  <2>2. \A i \in 1..Len(work') : work'[i] # cmd
    <3>1. ASSUME NEW i \in 1..Len(work'), work'[i] = cmd PROVE FALSE
      <4>1. i + 1 = 1
        BY <1>1, <1>4, <3>1 DEF Expects
      <4> QED BY <1>1, <4>1
    <3> QED BY <3>1
  <2>3. \A v \in Workers : worker'[v] = cmd => v = w
    BY <1>3, <2>1 DEF OnWorker
  <2> QED BY <1>2, <2>1, <2>2, <2>3 DEF Expects, InQueue
<1>5. CASE work[1] # cmd
  <2>1. \A v \in Workers : worker'[v] = cmd => worker[v] = cmd
    BY <1>3, <1>5
  <2>2. (InQueue(cmd)' => InQueue(cmd)) /\ (OnWorker(cmd)' => OnWorker(cmd))
    BY <1>1, <2>1 DEF InQueue, OnWorker
  <2>3. \A i, j \in 1..Len(work') : work'[i] = cmd /\ work'[j] = cmd => i = j
    <3>1. ASSUME NEW i \in 1..Len(work'), NEW j \in 1..Len(work'), work'[i] = cmd, work'[j] = cmd
          PROVE  i = j
      <4>1. i + 1 = j + 1
        BY <1>1, <3>1 DEF Expects
      <4> QED BY <4>1
    <3> QED BY <3>1
  <2> QED BY <1>2, <2>1, <2>2, <2>3 DEF Expects
<1> QED BY <1>4, <1>5

(***************************************************************************)
(* The asserting commands are alone of their kind, and none outlives the   *)
(* state in which it was queued.                                           *)
(***************************************************************************)
THEOREM ExpectedHolds == Spec => []Expected
<1>1. Init => Expected
  BY DirPoolAssumption DEF Init, Expected, Expects, InQueue, OnWorker
<1>2. Typed /\ Expected /\ [Next]_vars => Expected'
  <2> SUFFICES ASSUME Typed, Expected, [Next]_vars
               PROVE  Expected'
    OBVIOUS
  <2> USE DirPoolAssumption
  <2>0. /\ Expects("stage2", "OpeningStage2") /\ Expects("delete", "Deleting")
        /\ worker \in [Workers -> Resting \cup Commands]
        /\ {"stage2", "delete", "other"} \subseteq Commands
        /\ "stage2" \notin Resting /\ "delete" \notin Resting
        /\ \A s \in Streams : s \in Commands /\ s # "stage2" /\ s # "delete"
    BY DEF Typed, Expected, Commands, Runs, Resting, DirPoolAssumption
  \* Nobody starts on such a command, and none is queued.
  <2>1. ASSUME \A w \in Workers : worker'[w] = worker[w] \/ worker'[w] \in Resting \cup Streams,
               \/ UNCHANGED work
               \/ \E other \in Streams \cup {"other"} : work' = Append(work, other),
               \/ UNCHANGED state
               \/ state \notin {"OpeningStage2", "Deleting"}
        PROVE  Expected'
    <3>1. /\ \A w \in Workers : worker'[w] = "stage2" => worker[w] = "stage2"
          /\ \A w \in Workers : worker'[w] = "delete" => worker[w] = "delete"
      BY <2>0, <2>1
    <3>2. /\ work' = work \/ \E other \in Commands \ {"stage2"} : work' = Append(work, other)
          /\ work' = work \/ \E other \in Commands \ {"delete"} : work' = Append(work, other)
      BY <2>0, <2>1
    <3>3. Expects("stage2", "OpeningStage2")'
      BY <2>0, <2>1, <3>1, <3>2, OthersExpect
    <3>4. Expects("delete", "Deleting")'
      BY <2>0, <2>1, <3>1, <3>2, OthersExpect
    <3> QED BY <3>3, <3>4 DEF Expected
  <2>2. ASSUME NotifyOne \/ worker' = AllNotified
        PROVE  \A w \in Workers : worker'[w] = worker[w] \/ worker'[w] \in Resting
    BY <2>0, <2>2 DEF NotifyOne, AllNotified, Waiting, Resting
  <2>3. ASSUME Handle PROVE Expected'
    <3>1. CASE Open
      BY <2>1, <3>1 DEF Open, Resting
    <3>2. CASE CreateSucceeds
      BY <2>1, <3>2 DEF CreateSucceeds, Resting
    <3>3. CASE CreateReports
      BY <2>1, <3>3 DEF CreateReports
    <3>4. CASE CreateFails
      BY <2>1, <3>4 DEF CreateFails, Resting
    <3>5. ASSUME NEW c \in Callers, CompleteOpenForWrite(c) PROVE Expected'
      <4>1. worker' = worker
        BY <3>5 DEF CompleteOpenForWrite
      <4>2. work' = Append(work, "stage2") /\ state = "OpenStage1" /\ state' = "OpeningStage2"
        BY <3>5 DEF CompleteOpenForWrite, Push
      <4>3. Expects("stage2", "OpeningStage2")'
        BY <2>0, <4>1, <4>2, QueuedExpects
      <4>4. \E other \in Commands \ {"delete"} : work' = Append(work, other)
        BY <2>0, <4>2
      <4>5. Expects("delete", "Deleting")'
        BY <2>0, <4>1, <4>2, <4>4, OthersExpect
      <4> QED BY <4>3, <4>5 DEF Expected
    <3>6. CASE Close
      BY <2>1, <2>2, <3>6 DEF Close, Closable
    <3>7. CASE MarkDeleted
      <4>1. work' = Append(work, "delete") /\ state = "Open" /\ state' = "Deleting" /\ worker' = worker
        BY <3>7 DEF MarkDeleted
      <4>2. Expects("delete", "Deleting")'
        BY <2>0, <4>1, QueuedExpects
      <4>3. \E other \in Commands \ {"stage2"} : work' = Append(work, other)
        BY <2>0, <4>1
      <4>4. Expects("stage2", "OpeningStage2")'
        BY <2>0, <4>1, <4>3, OthersExpect
      <4> QED BY <4>2, <4>4 DEF Expected
    <3>8. ASSUME NEW c \in Callers, Submit(c) PROVE Expected'
      BY <2>1, <3>8 DEF Submit, Push
    <3> QED BY <2>3, <3>1, <3>2, <3>3, <3>4, <3>5, <3>6, <3>7, <3>8 DEF Handle
  <2>4. ASSUME NEW s \in Streams,
               Wake(s) \/ \E close, wake \in BOOLEAN : WriterStep(s, close, wake)
        PROVE  Expected'
    <3>1. CASE WakeSends(s)
      BY <2>1, <3>1 DEF WakeSends, Push
    <3>2. CASE ~WakeSends(s)
      BY <2>1, <2>4, <3>2 DEF Wake, WakeCounts, WakeIsRefused, WakeUncounts, WriterStep
    <3> QED BY <3>1, <3>2
  <2>5. ASSUME NEW w \in Workers, TakeCommand(w) PROVE Expected'
    BY <2>0, <2>5, TakenExpects DEF Expected
  <2>6. ASSUME NEW w \in Workers, Wait(w) \/ WakeSpuriously(w) \/ WriteFiles(w)
        PROVE  Expected'
    <3>1. \A v \in Workers : worker'[v] = worker[v] \/ worker'[v] \in Resting
      <4>1. CASE DecWriteStreams(w)
        BY <2>0, <4>1 DEF DecWriteStreams, AllNotified, Waiting, Resting
      <4>2. CASE ~DecWriteStreams(w)
        BY <2>0, <2>6, <4>2 DEF Wait, WakeSpuriously, WriteFiles, CreateFile,
             FinishRecording, EndWriteOpen, EndWrite, Resting
      <4> QED BY <4>1, <4>2
    <3>2. UNCHANGED <<state, work>>
      BY <2>6 DEF Wait, WakeSpuriously, WriteFiles, CreateFile,
             FinishRecording, EndWriteOpen, EndWrite, DecWriteStreams
    <3> QED BY <2>1, <3>1, <3>2
  <2>7. ASSUME NEW w \in Workers, Exit(w) PROVE Expected'
    BY <2>0, <2>1, <2>7 DEF Exit, MayExit, Resting
  <2>8. ASSUME NEW w \in Workers, RunCommand(w) PROVE Expected'
    <3>1. /\ \A v \in Workers : worker'[v] = IF v = w THEN "finished" ELSE worker[v]
          /\ work' = work
      BY <2>0, <2>8 DEF RunCommand
    <3>2. /\ \A v \in Workers : worker'[v] = "stage2" => worker[v] = "stage2"
          /\ \A v \in Workers : worker'[v] = "delete" => worker[v] = "delete"
      BY <3>1
    <3>3. ASSUME NEW cmd \in {"stage2", "delete"}, worker[w] = cmd, NEW expected, Expects(cmd, expected)
          PROVE  ~(InQueue(cmd) \/ OnWorker(cmd))'
      <4>1. OnWorker(cmd) /\ ~InQueue(cmd)
        BY <3>3 DEF Expects, OnWorker
      <4>2. ~InQueue(cmd)'
        BY <3>1, <4>1 DEF InQueue
      <4>3. \A v \in Workers : worker'[v] # cmd
        BY <3>1, <3>3 DEF Expects
      <4> QED BY <4>2, <4>3 DEF OnWorker
    <3>4. \/ worker[w] = "stage2" /\ state = "OpeningStage2"
          \/ worker[w] = "delete" /\ state = "Deleting"
          \/ UNCHANGED state
      BY <2>0, <2>8 DEF RunCommand, Runs, Expects, OnWorker
    <3>5. \/ state' = state \/ state # "OpeningStage2" \/ ~(InQueue("stage2") \/ OnWorker("stage2"))'
      BY <2>0, <3>3, <3>4
    <3>6. \/ state' = state \/ state # "Deleting" \/ ~(InQueue("delete") \/ OnWorker("delete"))'
      BY <2>0, <3>3, <3>4
    <3>7. Expects("stage2", "OpeningStage2")'
      BY <2>0, <3>1, <3>2, <3>5, OthersExpect
    <3>8. Expects("delete", "Deleting")'
      BY <2>0, <3>1, <3>2, <3>6, OthersExpect
    <3> QED BY <3>7, <3>8 DEF Expected
  <2>9. CASE UNCHANGED vars
    BY <2>1, <2>9 DEF vars
  <2>10. ASSUME NEW sender \in Senders, Notify(sender) PROVE Expected'
    BY <2>1, <2>2, <2>10 DEF Notify
  <2> QED BY <2>3, <2>4, <2>5, <2>6, <2>7, <2>8, <2>9, <2>10 DEF Next, Work
<1> QED BY <1>1, <1>2, TypesHold, PTL DEF Spec

(***************************************************************************)
(* The closures of complete_open_for_write and of mark_deleted find the    *)
(* state that their callers left, whatever the other workers and callers   *)
(* did since: their assertions hold.                                       *)
(***************************************************************************)
THEOREM ClosuresFindState == Spec => []ClosuresFindTheirState
<1>1. Expected => ClosuresFindTheirState
  BY DEF Expected, Expects, OnWorker, ClosuresFindTheirState
<1> QED BY <1>1, ExpectedHolds, PTL

-----------------------------------------------------------------------------
(* Wakeups.                                                                *)

\* Workers on their way to the queue.
OnTheirWay == {w \in Workers : worker[w] \in {"ready", "finished"}}

LEMMA OnTheirWayIsFinite ==
  ASSUME DirPoolAssumption
  PROVE  IsFiniteSet(OnTheirWay) /\ Cardinality(OnTheirWay) \in Nat
BY FS_Subset, FS_CardinalityType DEF DirPoolAssumption, OnTheirWay

LEMMA NotifyingIsFinite ==
  ASSUME DirPoolAssumption, Typed
  PROVE  IsFiniteSet(notifying) /\ Cardinality(notifying) \in Nat
<1>1. IsFiniteSet(Senders)
  BY FS_Union DEF DirPoolAssumption, Senders
<1> QED BY <1>1, FS_Subset, FS_CardinalityType DEF Typed

\* Nobody turns from the queue, nothing is added to it and nobody notifies.
LEMMA NobodyTurnsAway ==
  ASSUME DirPoolAssumption, Typed, NoSleepOverWork, state # "Deleting", work' = work,
         notifying' = notifying, Waiting' # {} => Waiting # {},
         OnTheirWay \subseteq OnTheirWay', IsFiniteSet(OnTheirWay')
  PROVE  NoSleepOverWork'
<1>1. Cardinality(OnTheirWay) <= Cardinality(OnTheirWay')
  BY FS_Subset
<1>2. /\ Cardinality(OnTheirWay') \in Nat /\ Cardinality(OnTheirWay) \in Nat
      /\ Cardinality(notifying) \in Nat /\ Len(work) \in Nat
  BY OnTheirWayIsFinite, NotifyingIsFinite, FS_CardinalityType DEF Typed
<1>3. SUFFICES ASSUME Waiting' # {}
               PROVE  Len(work) <= Cardinality(OnTheirWay') + Cardinality(notifying)
  BY DEF NoSleepOverWork, OnTheirWay
<1>4. Len(work) <= Cardinality(OnTheirWay) + Cardinality(notifying)
  BY <1>3 DEF NoSleepOverWork, OnTheirWay
<1> QED BY <1>1, <1>2, <1>4

\* A command that is added is one that somebody has yet to notify of.
LEMMA PushWillNotify ==
  ASSUME DirPoolAssumption, Typed, NoSleepOverWork, state # "Deleting",
         NEW sender \in Senders, NEW cmd \in Commands, Push(sender, cmd),
         worker' = worker
  PROVE  NoSleepOverWork'
<1>1. Cardinality(notifying') = Cardinality(notifying) + 1
  BY NotifyingIsFinite, FS_AddElement DEF Push
<1>2. Len(work') = Len(work) + 1 /\ Len(work) \in Nat
  BY DEF Push, Typed
<1>3. OnTheirWay' = OnTheirWay /\ Waiting' = Waiting
  BY DEF OnTheirWay, Waiting
<1>4. Waiting # {} => Len(work) <= Cardinality(OnTheirWay) + Cardinality(notifying)
  BY DEF NoSleepOverWork, OnTheirWay
<1>5. Waiting # {} => Len(work') <= Cardinality(OnTheirWay) + Cardinality(notifying')
  BY <1>1, <1>2, <1>4, OnTheirWayIsFinite, NotifyingIsFinite
<1> QED BY <1>3, <1>5 DEF NoSleepOverWork, OnTheirWay

\* The notification wakes a worker that sleeps.
LEMMA NotifyWakes ==
  ASSUME DirPoolAssumption, Typed, NoSleepOverWork, NEW sender \in Senders,
         Notify(sender)
  PROVE  NoSleepOverWork'
<1>1. SUFFICES ASSUME Waiting' # {}, state # "Deleting"
               PROVE  Len(work) <= Cardinality(OnTheirWay') + Cardinality(notifying')
  BY DEF Notify, NoSleepOverWork, OnTheirWay
<1>2. Waiting # {}
  <2>1. CASE Waiting = {}
    BY <1>1, <2>1 DEF Notify, NotifyOne, Waiting
  <2> QED BY <2>1
<1>3. PICK w \in Waiting : worker' = [worker EXCEPT ![w] = "ready"]
  BY <1>2 DEF Notify, NotifyOne
<1>4. OnTheirWay' = OnTheirWay \cup {w} /\ w \notin OnTheirWay
  BY <1>3 DEF OnTheirWay, Waiting, Typed
<1>5. Cardinality(OnTheirWay') = Cardinality(OnTheirWay) + 1
  BY <1>4, OnTheirWayIsFinite, FS_AddElement
<1>6. Cardinality(notifying') = Cardinality(notifying) - 1
  BY NotifyingIsFinite, FS_RemoveElement DEF Notify
<1>7. Len(work) \in Nat
  BY DEF Typed
<1>8. Len(work) <= Cardinality(OnTheirWay) + Cardinality(notifying)
  BY <1>1, <1>2 DEF NoSleepOverWork, OnTheirWay
<1> QED BY <1>5, <1>6, <1>7, <1>8, OnTheirWayIsFinite, NotifyingIsFinite

\* A directory's deletion runs when there is nothing else in the queue.
LEMMA DeletionIsLast ==
  ASSUME Typed, Expected, Excluded, state = "Deleting",
         NEW w \in Workers, worker[w] \in Commands
  PROVE  Len(work) = 0
<1>1. worker[w] = "delete" /\ \A i \in DOMAIN work : work[i] = "delete"
  BY DEF Excluded, DeletionIsExclusive
<1>2. Len(work) \in Nat /\ DOMAIN work = 1..Len(work)
  BY DEF Typed
<1>3. ~InQueue("delete")
  BY <1>1 DEF Expected, Expects, OnWorker
<1>4. ~(1 \in 1..Len(work))
  BY <1>1, <1>2, <1>3 DEF InQueue
<1> QED BY <1>2, <1>4

(***************************************************************************)
(* No wakeup is lost, for any number of workers and of threads that send:  *)
(* while a worker sleeps there are as many others on their way to the      *)
(* queue, or senders about to notify, as there are commands in the queue,  *)
(* so that send may notify one, after it has released the lock, and        *)
(* workers may sleep without a look back at what was queued while they ran.*)
(***************************************************************************)
THEOREM NobodySleepsOverWork == Spec => []NoSleepOverWork
<1>1. Init => NoSleepOverWork
  BY DEF Init, NoSleepOverWork, Waiting
<1>2. Typed /\ Excluded /\ Expected /\ NoSleepOverWork /\ [Next]_vars => NoSleepOverWork'
  <2> SUFFICES ASSUME Typed, Excluded, Expected, NoSleepOverWork, [Next]_vars
               PROVE  NoSleepOverWork'
    OBVIOUS
  <2> USE DirPoolAssumption
  <2>0. /\ work \in Seq(Commands) /\ worker \in [Workers -> Resting \cup Commands]
        /\ IsFiniteSet(OnTheirWay') /\ Cardinality(notifying) \in Nat
    BY FS_Subset, NotifyingIsFinite DEF Typed, OnTheirWay, DirPoolAssumption
  <2>1. ASSUME Waiting' = {} PROVE NoSleepOverWork'
    BY <2>1 DEF NoSleepOverWork
  <2>2. ASSUME UNCHANGED <<state, work, worker, notifying>> PROVE NoSleepOverWork'
    BY <2>2 DEF NoSleepOverWork, Waiting
  <2>3. ASSUME NEW s \in Streams, stream[s].file \/ stream[s].pc \in {"queued", "writing", "ending"}
        PROVE  state # "Deleting"
    BY <2>3 DEF Excluded, DeletionIsExclusive, Untouched
  <2>4. ASSUME work' = << >>, notifying' = notifying PROVE NoSleepOverWork'
    <3>1. Cardinality(OnTheirWay') \in Nat
      BY <2>0, FS_CardinalityType
    <3> QED BY <2>0, <2>4, <3>1 DEF NoSleepOverWork, OnTheirWay
  <2>5. ASSUME Handle PROVE NoSleepOverWork'
    <3>1. CASE Open
      BY <2>1, <3>1 DEF Open, Waiting
    <3>2. CASE CreateSucceeds
      BY <2>1, <3>2 DEF CreateSucceeds, Waiting
    <3>3. CASE CreateReports
      BY <2>2, <3>3 DEF CreateReports
    <3>4. CASE CreateFails
      BY <2>1, <3>4 DEF CreateFails, Waiting
    <3>5. ASSUME NEW c \in Callers, CompleteOpenForWrite(c) PROVE NoSleepOverWork'
      BY <3>5, PushWillNotify DEF CompleteOpenForWrite, Commands, Runs, Senders
    <3>6. CASE Close
      <4>1. CASE worker' = AllNotified
        BY <2>0, <2>1, <4>1 DEF AllNotified, Waiting
      <4>2. CASE worker' = worker
        BY <3>6, <4>2 DEF Close, Closable, NoSleepOverWork, Waiting
      <4> QED BY <3>6, <4>1, <4>2 DEF Close
    <3>7. CASE MarkDeleted
      BY <3>7 DEF MarkDeleted, NoSleepOverWork
    <3>8. ASSUME NEW c \in Callers, Submit(c) PROVE NoSleepOverWork'
      BY <3>8, PushWillNotify DEF Submit, Commands, Runs, Senders
    <3> QED BY <2>5, <3>1, <3>2, <3>3, <3>4, <3>5, <3>6, <3>7, <3>8 DEF Handle
  <2>6. ASSUME NEW s \in Streams,
               Wake(s) \/ \E close, wake \in BOOLEAN : WriterStep(s, close, wake)
        PROVE  NoSleepOverWork'
    <3>1. CASE WakeSends(s)
      BY <2>3, <3>1, PushWillNotify DEF WakeSends, Commands, Senders
    <3>2. CASE ~WakeSends(s)
      BY <2>2, <2>6, <3>2 DEF Wake, WakeCounts, WakeIsRefused, WakeUncounts, WriterStep
    <3> QED BY <3>1, <3>2
  <2>7. ASSUME NEW w \in Workers, TakeCommand(w) PROVE NoSleepOverWork'
    <3>1. /\ work # << >> /\ Len(work) \in Nat /\ Len(work') = Len(work) - 1 /\ state' = state
          /\ w \in OnTheirWay /\ notifying' = notifying
      BY <2>0, <2>7 DEF TakeCommand, OnTheirWay
    <3>2. Head(work) \in Commands /\ Head(work) \notin Resting
      BY <2>0, <3>1 DEF DirPoolAssumption, Commands, Runs, Resting
    <3>3. \A v \in Workers : worker'[v] = IF v = w THEN Head(work) ELSE worker[v]
      BY <2>0, <2>7 DEF TakeCommand
    <3>4. OnTheirWay' = OnTheirWay \ {w} /\ Waiting' = Waiting
      BY <3>1, <3>2, <3>3 DEF OnTheirWay, Waiting, Resting
    <3>5. Cardinality(OnTheirWay') = Cardinality(OnTheirWay) - 1 /\ Cardinality(OnTheirWay) \in Nat
      BY <3>1, <3>4, OnTheirWayIsFinite, FS_RemoveElement
    <3>6. state # "Deleting" /\ Waiting # {} =>
            Len(work) <= Cardinality(OnTheirWay) + Cardinality(notifying)
      BY DEF NoSleepOverWork, OnTheirWay
    <3>7. state # "Deleting" /\ Waiting # {} =>
            Len(work') <= Cardinality(OnTheirWay') + Cardinality(notifying)
      BY <2>0, <3>1, <3>5, <3>6
    <3> QED BY <3>1, <3>4, <3>7 DEF NoSleepOverWork, OnTheirWay
  <2>8. ASSUME NEW w \in Workers, Wait(w) \/ Exit(w) PROVE NoSleepOverWork'
    BY <2>4, <2>8 DEF Wait, Exit
  <2>9. ASSUME NEW w \in Workers, WakeSpuriously(w) PROVE NoSleepOverWork'
    <3>1. CASE state = "Deleting"
      BY <2>9, <3>1 DEF WakeSpuriously, NoSleepOverWork
    <3>2. CASE state # "Deleting"
      <4>1. OnTheirWay \subseteq OnTheirWay' /\ (Waiting' # {} => Waiting # {})
        BY <2>0, <2>9 DEF WakeSpuriously, OnTheirWay, Waiting
      <4> QED BY <2>0, <2>9, <3>2, <4>1, NobodyTurnsAway DEF WakeSpuriously
    <3> QED BY <3>1, <3>2
  <2>10. ASSUME NEW w \in Workers, RunCommand(w) PROVE NoSleepOverWork'
    <3>1. /\ worker[w] \in Commands /\ worker[w] \notin {"ready", "finished", "waiting"}
          /\ work' = work /\ notifying' = notifying
      BY <2>10 DEF RunCommand, Commands, Runs
    <3>2. CASE state = "Deleting"
      <4>1. work' = << >>
        BY <2>0, <3>1, <3>2, DeletionIsLast
      <4> QED BY <2>4, <3>1, <4>1
    <3>3. CASE state # "Deleting"
      <4>1. OnTheirWay \subseteq OnTheirWay' /\ (Waiting' # {} => Waiting # {})
        BY <2>0, <2>10, <3>1 DEF RunCommand, OnTheirWay, Waiting
      <4> QED BY <2>0, <3>1, <3>3, <4>1, NobodyTurnsAway
    <3> QED BY <3>2, <3>3
  <2>11. ASSUME NEW w \in Workers, WriteFiles(w) PROVE NoSleepOverWork'
    <3>1. CASE CreateFile(w) \/ FinishRecording(w) \/ EndWrite(w)
      BY <2>2, <3>1 DEF CreateFile, FinishRecording, EndWrite
    <3>2. worker[w] \in Streams => worker[w] \notin Resting
      BY DEF DirPoolAssumption
    <3>3. CASE EndWriteOpen(w) \/ DecWriteStreams(w)
      <4>1. /\ state # "Deleting" /\ worker[w] \in Streams
            /\ work' = work /\ notifying' = notifying
        BY <2>3, <3>3 DEF EndWriteOpen, DecWriteStreams
      <4>2. \A v \in Workers :
              \/ v # w /\ worker'[v] = worker[v]
              \/ v # w /\ worker[v] = "waiting" /\ worker'[v] = "ready"
              \/ v = w /\ worker'[v] = "finished"
        BY <2>0, <3>3 DEF EndWriteOpen, DecWriteStreams, AllNotified, Waiting
      <4>3. OnTheirWay \subseteq OnTheirWay' /\ (Waiting' # {} => Waiting # {})
        BY <4>2 DEF OnTheirWay, Waiting
      <4> QED BY <2>0, <4>1, <4>3, NobodyTurnsAway
    <3> QED BY <2>11, <3>1, <3>3 DEF WriteFiles
  <2>12. CASE UNCHANGED vars
    BY <2>2, <2>12 DEF vars
  <2>13. ASSUME NEW sender \in Senders, Notify(sender) PROVE NoSleepOverWork'
    BY <2>13, NotifyWakes
  <2> QED BY <2>5, <2>6, <2>7, <2>8, <2>9, <2>10, <2>11, <2>12, <2>13 DEF Next, Work
<1> QED BY <1>1, <1>2, TypesHold, ExclusionHolds, ExpectedHolds, PTL DEF Spec
=============================================================================

-------------------------- MODULE RecordingsProofs --------------------------
(***************************************************************************)
(* CommittedDurable, NothingPanics and NoForgottenFile of module           *)
(* Recordings.                                                             *)
(*                                                                         *)
(* Writer, worker, flusher and collectors each change a part of the stream *)
(* under a lock and count on what the others may not do meanwhile.  Inv is *)
(* what they count on, and inductive:                                      *)
(*                                                                         *)
(*   Typed     the type of each variable that the other parts speak of     *)
(*   Window    the recent recordings have consecutive ids, up to the last  *)
(*             handed out, and the frames end where the last of them does  *)
(*   Working   the file at hand has the bytes the worker wrote; what it    *)
(*             has passed is synced, unless given up; what is not          *)
(*             committed is not marked so                                  *)
(*   Flushing  rows are durable and below the flush's position, a flush    *)
(*             has collected durable recordings that the worker has        *)
(*             passed, and rows, garbage and the queue of deletions are    *)
(*             apart                                                       *)
(*   Stopped   nothing is under way when the process is not running        *)
(*                                                                         *)
(* CommittedDurable is a conjunct of Flushing: that a flush inserts only   *)
(* what the worker has synced takes Working, and that the worker's         *)
(* position is one of the recent recordings takes Window.                  *)
(*                                                                         *)
(* The assertions of the Writer, of the worker and of flush, which         *)
(* NothingPanics states, take Sound as well, inductive relative to Inv:    *)
(*                                                                         *)
(*   Order         what was not committed when the worker passed it is     *)
(*                 still held: its frames are (Passed), so that neither    *)
(*                 the prune of the window nor that of the recordings      *)
(*                 overtakes the worker, and a flush finds the last        *)
(*                 recording it inserted where it left it (LastInserted)   *)
(*   Counters      the byte counters are integers                          *)
(*   QueuedOldest  the rows queued for deletion are the oldest             *)
(*                                                                         *)
(* NoForgottenFile takes FilesKnown, inductive relative to Inv: a file     *)
(* that may exist belongs to a recording the worker is at or has passed,   *)
(* to a row, to garbage, or to an abort whose unlink failed.               *)
(***************************************************************************)
EXTENDS Recordings, SetLemmas

-----------------------------------------------------------------------------
(* The window of frames.                                                   *)

LEMMA Suffix ==
  ASSUME NEW T, NEW s \in Seq(T), NEW n \in 0..Len(s)
  PROVE  /\ SubSeq(s, n + 1, Len(s)) \in Seq(T)
         /\ Len(SubSeq(s, n + 1, Len(s))) = Len(s) - n
         /\ DOMAIN SubSeq(s, n + 1, Len(s)) = 1..(Len(s) - n)
         /\ \A i \in 1..(Len(s) - n) : SubSeq(s, n + 1, Len(s))[i] = s[i + n]
OBVIOUS

\* The last group of pictures starts at one of the frames.
LEMMA LastGopIsFrame ==
  ASSUME NEW frames \in Seq(Frame)
  PROVE  /\ LastGopI(frames) \in Nat
         /\ frames # << >> => LastGopI(frames) < Len(frames)
<1> DEFINE keys == {i \in 1..Len(frames) : frames[i].is_key}
<1>1. CASE keys = {}
  BY <1>1 DEF LastGopI
<1>2. CASE keys # {}
  <2>1. Max(keys) \in keys
    BY <1>2, MaxIsGreatest
  <2> QED BY <1>2, <2>1 DEF LastGopI
<1> QED BY <1>1, <1>2

\* prune_front never empties the window.
LEMMA PruneCountBound ==
  ASSUME NEW frames \in Seq(Frame), NEW pos
  PROVE  /\ PruneCount(frames, pos) \in 0..Len(frames)
         /\ frames # << >> => PruneCount(frames, pos) < Len(frames)
<1> DEFINE last == LastGopI(frames)
           Stays(i) ==
             /\ TotalSampleBytes(SubSeq(frames, i, Len(frames))) <= BytesForWriter
             /\ Precedes(pos, End(frames[i]))
           S == {n \in 0..last : n = last \/ Stays(n + 1)}
<1>1. last \in Nat /\ (frames # << >> => last < Len(frames))
  BY LastGopIsFrame
<1>2. S \subseteq Nat /\ last \in S
  BY <1>1
<1>3. Min(S) \in 0..last
  <2> HIDE DEF Stays, last
  <2> QED BY <1>2, MinIsLeast
<1>4. PruneCount(frames, pos) = Min(S)
  BY DEF PruneCount
<1>5. frames = << >> => last = 0
  BY MaxIsGreatest DEF LastGopI
<1> HIDE DEF S, last
<1> QED BY <1>1, <1>3, <1>4, <1>5

LEMMA PruneFrontIsSuffix ==
  ASSUME NEW frames \in Seq(Frame), NEW pos
  PROVE  \E n \in 0..Len(frames) :
           /\ frames # << >> => n < Len(frames)
           /\ n = PruneCount(frames, pos)
           /\ PruneFront(frames, pos) \in Seq(Frame)
           /\ Len(PruneFront(frames, pos)) = Len(frames) - n
           /\ \A i \in 1..(Len(frames) - n) : PruneFront(frames, pos)[i] = frames[i + n]
<1> DEFINE n == PruneCount(frames, pos)
<1>1. n \in 0..Len(frames) /\ (frames # << >> => n < Len(frames))
  BY PruneCountBound
<1>2. PruneFront(frames, pos) = SubSeq(frames, n + 1, Len(frames))
  BY DEF PruneFront
<1> HIDE DEF n
<1> QED BY ZenonT(30), <1>1, <1>2, Suffix DEF n

-----------------------------------------------------------------------------
(* The recent recordings.                                                  *)

LEMMA MarkedRecordings ==
  ASSUME NEW recents \in Seq(Recording), NEW ids
  PROVE  /\ MarkDeleted(recents, ids) \in Seq(Recording)
         /\ Len(MarkDeleted(recents, ids)) = Len(recents)
         /\ \A i \in 1..Len(recents) :
              /\ MarkDeleted(recents, ids)[i].id = recents[i].id
              /\ MarkDeleted(recents, ids)[i].sample_file_bytes = recents[i].sample_file_bytes
              /\ Growing(MarkDeleted(recents, ids)[i]) = Growing(recents[i])
              /\ Uncommitted(MarkDeleted(recents, ids)[i]) = Uncommitted(recents[i])
              /\ Deleted(MarkDeleted(recents, ids)[i]) = (Deleted(recents[i]) \/ recents[i].id \in ids)
<1>1. \A i \in 1..Len(recents) : recents[i] \in Recording
  OBVIOUS
<1> DEFINE marked == MarkDeleted(recents, ids)
           new(r) == IF r.id \in ids THEN [r EXCEPT !.flags = @ \cup {"DELETED"}] ELSE r
<1>2. \A r \in Recording :
        /\ new(r) \in Recording
        /\ new(r).id = r.id
        /\ new(r).sample_file_bytes = r.sample_file_bytes
        /\ Growing(new(r)) = Growing(r)
        /\ Uncommitted(new(r)) = Uncommitted(r)
        /\ Deleted(new(r)) = (Deleted(r) \/ r.id \in ids)
  BY DEF Recording, Flag, Growing, Uncommitted, Deleted
<1>3. marked = [i \in 1..Len(recents) |-> new(recents[i])]
  BY DEF MarkDeleted
<1> HIDE DEF new
<1>4. marked \in Seq(Recording) /\ Len(marked) = Len(recents)
  BY <1>1, <1>2, <1>3
<1> QED BY <1>1, <1>2, <1>3, <1>4

\* Prune drops a prefix of recordings none of which is still needed.
LEMMA PruneIsSuffix ==
  ASSUME NEW recents \in Seq(Recording), NEW frames, NEW ws
  PROVE  \E n \in 0..Len(recents) :
           /\ \A i \in 1..n : ~StillNeeded(recents[i], frames, ws)
           /\ n = Len(recents) \/ StillNeeded(recents[n + 1], frames, ws)
           /\ Prune(recents, frames, ws) \in Seq(Recording)
           /\ Len(Prune(recents, frames, ws)) = Len(recents) - n
           /\ \A i \in 1..(Len(recents) - n) : Prune(recents, frames, ws)[i] = recents[i + n]
<1> DEFINE S == {k \in 0..Len(recents) :
                   k = Len(recents) \/ StillNeeded(recents[k + 1], frames, ws)}
           n == Min(S)
<1>1. S \subseteq Nat /\ Len(recents) \in S
  OBVIOUS
<1>2. n \in S /\ \A k \in S : n <= k
  BY <1>1, MinIsLeast, Zenon
<1>4. Prune(recents, frames, ws) = SubSeq(recents, n + 1, Len(recents))
  BY DEF Prune
<1> HIDE DEF n
<1>3. \A i \in 1..n : ~StillNeeded(recents[i], frames, ws)
  <2> SUFFICES ASSUME NEW i \in 1..n, StillNeeded(recents[i], frames, ws) PROVE FALSE
    OBVIOUS
  <2>1. i - 1 \in 0..Len(recents) /\ recents[(i - 1) + 1] = recents[i]
    BY <1>2
  <2>2. i - 1 \in S
    BY <2>1
  <2> QED BY <1>2, <2>2
<1> QED BY <1>2, <1>3, <1>4, Suffix

\* The recordings before PartitionPoint, and only those, come before id.
LEMMA PartitionSplits ==
  ASSUME NEW recents \in Seq(Recording), NEW base \in Int, NEW id \in Int,
         \A i \in 1..Len(recents) : recents[i].id = base + i
  PROVE  /\ PartitionPoint(recents, id) \in 0..Len(recents)
         /\ \A i \in 1..Len(recents) :
              i <= PartitionPoint(recents, id) <=> recents[i].id < id
<1> DEFINE S == {k \in 0..Len(recents) : k = Len(recents) \/ recents[k + 1].id >= id}
           n == PartitionPoint(recents, id)
<1>1. S \subseteq Nat /\ Len(recents) \in S
  OBVIOUS
<1>2. n = Min(S)
  BY DEF PartitionPoint
<1>3. n \in S /\ \A k \in S : n <= k
  BY <1>1, <1>2, MinIsLeast, Zenon
<1> HIDE DEF n
<1>4. n \in 0..Len(recents) /\ (n = Len(recents) \/ recents[n + 1].id >= id)
  BY <1>3
<1>5. ASSUME NEW i \in 1..Len(recents), i <= n PROVE recents[i].id < id
  <2>1. i - 1 \in 0..Len(recents) /\ recents[(i - 1) + 1] = recents[i]
    BY <1>5
  <2>2. i - 1 \notin S
    <3> HIDE DEF S
    <3>1. i - 1 \in S => n <= i - 1
      BY <1>3
    <3> QED BY <3>1, <1>4, <1>5
  <2>3. ~(recents[i].id >= id)
    BY <2>1, <2>2
  <2> QED BY <2>3
<1>6. ASSUME NEW i \in 1..Len(recents), ~(i <= n) PROVE ~(recents[i].id < id)
  <2>1. n + 1 \in 1..Len(recents) /\ n + 1 <= i
    BY <1>4, <1>6
  <2>2. recents[n + 1].id >= id /\ recents[n + 1].id = base + (n + 1)
    BY <1>4, <2>1
  <2> QED BY <2>1, <2>2
<1> QED BY <1>4, <1>5, <1>6 DEF n

-----------------------------------------------------------------------------
(* The worker's choice of its next step.                                   *)

WriterState == [recording_id : 0..MaxRecordings, written : 0..MaxBytes, file : BOOLEAN]

\* What is already in the file of a recording that is next to be written.
WrittenOf(r, ws) == IF r.id = ws.recording_id THEN ws.written ELSE 0

\* How Choose may leave the worker, given the recordings it looked at.
AbortsFile(ws) ==
  /\ ws.file
  /\ writer_state' = [ws EXCEPT !.file = FALSE]
  /\ io' = [op |-> "Abort", n |-> 0]

WaitsForMore(recents, ws) ==
  /\ ~ws.file
  /\ \/ writer_state' = ws
     \/ \E i \in 1..Len(recents) :
          recents[i].id >= ws.recording_id /\ writer_state' = After(recents[i].id)
  /\ io' = Idle

GoesOn(r, ws) ==
  /\ r.id >= ws.recording_id
  /\ ws.file => r.id = ws.recording_id
  /\ writer_state'.recording_id = r.id
  /\ writer_state'.written = WrittenOf(r, ws)
  /\ \/ /\ r.sample_file_bytes > WrittenOf(r, ws)
        /\ ~writer_state'.file
        /\ io' = [op |-> IF ws.file THEN "Write" ELSE "Create",
                  n |-> r.sample_file_bytes - WrittenOf(r, ws)]
     \/ /\ r.sample_file_bytes = WrittenOf(r, ws)
        /\ IF Growing(r) THEN writer_state'.file = ws.file /\ io' = Idle
                         ELSE ~writer_state'.file /\ io' = [op |-> "Sync", n |-> 0]

\* What Choose does to the recordings: those it passes over are deleted.
PassesOver(recents, frames, ws) ==
  /\ recent_recordings' \in Seq(Recording)
  /\ Len(recent_recordings') = Len(recents)
  /\ \A i \in 1..Len(recents) :
       LET r == recents[i]
           s == recent_recordings'[i]
       IN  /\ s.id = r.id
           /\ s.sample_file_bytes = r.sample_file_bytes
           /\ Growing(s) = Growing(r)
           /\ Uncommitted(s) = Uncommitted(r)
           /\ Deleted(r) => Deleted(s)
           /\ Deleted(s) /\ ~Deleted(r) =>
                /\ Behind(r, WrittenOf(r, ws), frames)
                /\ r.id \in ws.recording_id..(writer_state'.recording_id - 1)
           /\ r.id \in ws.recording_id..(writer_state'.recording_id - 1) => Deleted(s)

LEMMA ChooseOutcome ==
  ASSUME NEW recents \in Seq(Recording), NEW base \in Int,
         \A i \in 1..Len(recents) : recents[i].id = base + i,
         NEW frames, NEW ws \in WriterState,
         Choose(recents, frames, ws)
  PROVE  /\ recent_frames' = frames
         /\ writer_state' \in WriterState
         /\ PassesOver(recents, frames, ws)
         /\ \/ /\ AbortsFile(ws)
               /\ recent_recordings' = recents
               /\ \A i \in 1..Len(recents) :
                    recents[i].id = ws.recording_id => Behind(recents[i], ws.written, frames)
            \/ WaitsForMore(recents, ws)
            \/ \E i \in 1..Len(recents) : GoesOn(recents[i], ws)
<1> DEFINE first == PartitionPoint(recents, ws.recording_id)
           S == {k \in first..Len(recents) :
                   \/ k = Len(recents)
                   \/ ~Behind(recents[k + 1], WrittenOf(recents[k + 1], ws), frames)}
           next == Min(S)
           passed == {recents[k].id : k \in (first + 1)..next}
           r == recents[next + 1]
           open == ws.file /\ next = first /\ next < Len(recents) /\ r.id = ws.recording_id
           doomed == ws.file /\ ~open
           found == ~doomed /\ next < Len(recents)
           left == r.sample_file_bytes - WrittenOf(r, ws)
           At(f) == [recording_id |-> r.id, written |-> WrittenOf(r, ws), file |-> f]
<1>a. ws.recording_id \in 0..MaxRecordings /\ ws.written \in 0..MaxBytes /\ ws.file \in BOOLEAN
  BY DEF WriterState
<1>b. \A i \in 1..Len(recents) :
        /\ recents[i] \in Recording /\ recents[i].id \in Ids
        /\ recents[i].sample_file_bytes \in 0..MaxBytes
  <2>1. \A i \in 1..Len(recents) : recents[i] \in Recording
    OBVIOUS
  <2> QED BY <2>1 DEF Recording
<1>1. /\ first \in 0..Len(recents)
      /\ \A i \in 1..Len(recents) : i <= first <=> recents[i].id < ws.recording_id
  <2>1. ws.recording_id \in Int
    BY <1>a, RecordingsAssumption DEF RecordingsAssumption
  <2> QED BY <2>1, PartitionSplits
<1> HIDE DEF first
<1>2. S \subseteq Nat /\ Len(recents) \in S
  BY <1>1
<1>3. next \in S /\ \A k \in S : next <= k
  BY <1>2, MinIsLeast, Zenon
<1>4. /\ recent_frames' = frames
      /\ recent_recordings' = IF doomed THEN recents ELSE MarkDeleted(recents, passed)
      /\ \/ /\ doomed
            /\ writer_state' = [ws EXCEPT !.file = FALSE]
            /\ io' = [op |-> "Abort", n |-> 0]
         \/ /\ ~doomed /\ ~found
            /\ writer_state' = IF next = first THEN ws ELSE After(recents[next].id)
            /\ io' = [op |-> "Idle", n |-> 0]
         \/ /\ found /\ left > 0
            /\ writer_state' = At(FALSE)
            /\ io' = [op |-> IF open THEN "Write" ELSE "Create", n |-> left]
         \/ /\ found /\ left = 0 /\ Growing(r)
            /\ writer_state' = At(open)
            /\ io' = [op |-> "Idle", n |-> 0]
         \/ /\ found /\ left = 0 /\ ~Growing(r)
            /\ writer_state' = At(FALSE)
            /\ io' = [op |-> "Sync", n |-> 0]
  BY DEF Choose, WrittenOf, first
<1> HIDE DEF next
<1>5. next \in first..Len(recents)
  BY <1>3
<1>6. ASSUME NEW i \in 1..Len(recents), i > first, i <= next
      PROVE  Behind(recents[i], WrittenOf(recents[i], ws), frames)
  <2>1. i - 1 \in first..Len(recents) /\ recents[(i - 1) + 1] = recents[i] /\ i - 1 # Len(recents)
    BY <1>1, <1>6
  <2>2. i - 1 \notin S
    <3> HIDE DEF S
    <3>1. i - 1 \in S => next <= i - 1
      BY <1>3
    <3> QED BY <3>1, <1>1, <1>5, <1>6
  <2> QED BY <2>1, <2>2
<1>7. ASSUME NEW i \in 1..Len(recents)
      PROVE  recents[i].id \in passed <=> i > first /\ i <= next
  <2>1. \A k \in (first + 1)..next : k \in 1..Len(recents) /\ recents[k].id = base + k
    BY <1>1, <1>5
  <2>2. \A k \in (first + 1)..next : recents[k].id = recents[i].id => k = i
    BY <2>1
  <2>3. i \in (first + 1)..next <=> i > first /\ i <= next
    BY <1>1, <1>5
  <2> QED BY <2>2, <2>3
<1> HIDE DEF S, passed
<1>8. CASE doomed
  <2>1. /\ recent_recordings' = recents
        /\ AbortsFile(ws)
        /\ writer_state' \in WriterState
        /\ writer_state'.recording_id = ws.recording_id
    BY <1>4, <1>8, <1>a DEF AbortsFile, WriterState
  <2>2. ASSUME NEW i \in 1..Len(recents), recents[i].id = ws.recording_id
        PROVE  Behind(recents[i], ws.written, frames)
    <3>1. ~(i <= first) /\ WrittenOf(recents[i], ws) = ws.written
      BY <1>1, <2>2, <1>a DEF WrittenOf
    <3>2. CASE i <= next
      BY <1>6, <1>1, <3>1, <3>2
    <3>3. CASE ~(i <= next)
      <4>1. next + 1 \in 1..Len(recents) /\ next + 1 <= i
        BY <1>1, <1>5, <3>3
      <4>2. recents[next + 1].id >= ws.recording_id
        BY <4>1, <1>1, <1>5, <1>a, <1>b DEF Ids
      <4>3. recents[next + 1].id = base + (next + 1) /\ recents[i].id = base + i
        BY <4>1
      <4>4. next + 1 = i
        BY <4>1, <4>2, <4>3, <2>2, <1>5, <1>1
      <4>5. next = first
        <5>1. SUFFICES ASSUME next > first PROVE FALSE
          BY <1>1, <1>5
        <5>2. next \in 1..Len(recents) /\ ~(next <= first)
          BY <1>1, <1>5, <5>1
        <5>3. recents[next].id >= ws.recording_id /\ recents[next].id = base + next
          BY <5>2, <1>1, <1>a, <1>b DEF Ids
        <5> QED BY <5>3, <4>3, <4>4, <2>2, <5>2
      <4>6. next < Len(recents) /\ r.id = ws.recording_id
        BY <4>1, <4>4, <2>2, <1>1, <1>5
      <4> QED BY <4>5, <4>6, <1>8
    <3> QED BY <3>2, <3>3
  <2>3. PassesOver(recents, frames, ws)
    BY <2>1, <1>b, <1>a DEF PassesOver, Ids
  <2> QED BY <1>4, <2>1, <2>2, <2>3
<1>9. CASE ~doomed
  <2>1. recent_recordings' = MarkDeleted(recents, passed)
    BY <1>4, <1>9
  <2>2. /\ recent_recordings' \in Seq(Recording)
        /\ Len(recent_recordings') = Len(recents)
        /\ \A i \in 1..Len(recents) :
             LET s == recent_recordings'[i]
             IN  /\ s.id = recents[i].id
                 /\ s.sample_file_bytes = recents[i].sample_file_bytes
                 /\ Growing(s) = Growing(recents[i])
                 /\ Uncommitted(s) = Uncommitted(recents[i])
                 /\ Deleted(s) = (Deleted(recents[i]) \/ (i > first /\ i <= next))
    BY <2>1, <1>7, MarkedRecordings
  <2>3. CASE ~found
    <3>1. next = Len(recents) /\ ~ws.file
      BY <2>3, <1>9, <1>5, <1>1
    <3>2. writer_state' = (IF next = first THEN ws ELSE After(recents[next].id)) /\ io' = Idle
      BY <1>4, <1>9, <2>3 DEF Idle
    <3>3. /\ WaitsForMore(recents, ws) /\ writer_state' \in WriterState
          /\ \A i \in 1..Len(recents) :
               recents[i].id \in ws.recording_id..(writer_state'.recording_id - 1)
                 <=> i > first /\ i <= next
      <4>1. CASE next = first
        BY <3>1, <3>2, <4>1, <1>a, <1>1 DEF WaitsForMore
      <4>2. CASE next # first
        <5>1. next \in 1..Len(recents) /\ next > first
          BY <4>2, <1>1, <1>5
        <5>2. recents[next].id >= ws.recording_id /\ recents[next].id \in Ids
          BY <5>1, <1>1, <1>a, <1>b DEF Ids
        <5>3. writer_state' = After(recents[next].id)
          BY <3>2, <4>2
        <5>4. WaitsForMore(recents, ws)
          BY <5>1, <5>2, <5>3, <3>1, <3>2 DEF WaitsForMore
        <5>5. writer_state' \in WriterState
          BY <5>2, <5>3, RecordingsAssumption DEF After, WriterState, Ids, RecordingsAssumption
        <5>6. ASSUME NEW i \in 1..Len(recents)
              PROVE  recents[i].id \in ws.recording_id..(writer_state'.recording_id - 1)
                       <=> i > first /\ i <= next
          <6>1. writer_state'.recording_id - 1 = base + next
            BY <5>1, <5>3 DEF After
          <6>2. recents[i].id = base + i /\ i <= next
            BY <3>1
          <6>3. recents[i].id >= ws.recording_id <=> i > first
            BY <1>1, <1>a, <6>2
          <6> QED BY <6>1, <6>2, <6>3, <1>1, <1>5, <1>a
        <5> QED BY <5>4, <5>5, <5>6
      <4> QED BY <4>1, <4>2
    <3>4. PassesOver(recents, frames, ws)
      BY <2>2, <3>3, <1>6 DEF PassesOver
    <3> QED BY <1>4, <3>3, <3>4
  <2>4. CASE found
    <3>1. next + 1 \in 1..Len(recents) /\ next < Len(recents)
      BY <2>4, <1>1, <1>5
    <3>2. /\ r.id >= ws.recording_id /\ r.id \in Ids /\ r.sample_file_bytes \in 0..MaxBytes
          /\ WrittenOf(r, ws) \in 0..MaxBytes
      BY <3>1, <1>1, <1>5, <1>a, <1>b, RecordingsAssumption DEF Ids, WrittenOf, RecordingsAssumption
    <3>3. ws.file = open
      BY <1>9, <1>a
    <3>4. ws.file => r.id = ws.recording_id
      BY <3>3
    <3>5. writer_state' \in {At(FALSE), At(open)} /\ GoesOn(r, ws)
      <4> HIDE DEF r, open, doomed
      <4>1. CASE left > 0
        BY <1>4, <1>9, <2>4, <3>2, <3>3, <3>4, <4>1 DEF GoesOn
      <4>2. CASE left = 0
        BY <1>4, <1>9, <2>4, <3>2, <3>3, <3>4, <4>2 DEF GoesOn, Idle
      <4>3. left > 0 \/ left = 0
        BY <1>4, <1>9, <2>4
      <4> QED BY <4>1, <4>2, <4>3
    <3>6. writer_state' \in WriterState /\ writer_state'.recording_id = r.id
      <4>1. /\ At(FALSE) \in WriterState /\ At(open) \in WriterState
            /\ At(FALSE).recording_id = r.id /\ At(open).recording_id = r.id
        BY <3>2, <3>3, <1>a, RecordingsAssumption DEF WriterState, Ids, RecordingsAssumption
      <4> HIDE DEF At
      <4> QED BY <3>5, <4>1
    <3>7. ASSUME NEW i \in 1..Len(recents)
          PROVE  recents[i].id \in ws.recording_id..(r.id - 1) <=> i > first /\ i <= next
      <4>1. recents[i].id = base + i /\ r.id = base + (next + 1)
        BY <3>1
      <4>2. recents[i].id >= ws.recording_id <=> i > first
        BY <1>1, <1>a, <4>1
      <4> HIDE DEF r
      <4> QED BY <4>1, <4>2, <1>1, <1>5, <1>a
    <3>8. PassesOver(recents, frames, ws)
      BY <2>2, <3>6, <3>7, <1>6 DEF PassesOver
    <3> QED BY <1>4, <3>1, <3>5, <3>6, <3>8
  <2> QED BY <2>3, <2>4
<1> QED BY <1>8, <1>9

-----------------------------------------------------------------------------
(* The invariant.                                                          *)

Rows == UNION {[ids -> 1..MaxBytes] : ids \in SUBSET Ids}

Typed ==
  /\ recent_recordings \in Seq(Recording)
  /\ recent_frames \in Seq(Frame)
  /\ complete \in 0..MaxRecordings
  /\ committed \in 0..MaxRecordings
  /\ flush_ready \in 0..MaxRecordings
  /\ writer_state \in [recording_id : 0..MaxRecordings, written : 0..MaxBytes,
                       file : BOOLEAN]
  /\ to_delete \in SUBSET Ids
  /\ recording_id \in Ids \cup {NoId}
  /\ io \in [op : {"Idle"} \cup Outcomes \cup IoSteps, n : 0..MaxBytes]
  /\ flush \in [pc : {"Idle", "Collected", "Committed"}, new : Rows,
                cum : {NoId} \cup 0..MaxRecordings, deletion : SUBSET Ids,
                gced : SUBSET Ids]
  /\ gc \in [Collectors -> SUBSET Ids]
  /\ garbage_needs_unlink \in SUBSET Ids
  /\ garbage_unlinked \in SUBSET Ids
  /\ file \in [Ids -> [exists : BOOLEAN, pending : BOOLEAN, size : 0..MaxBytes,
                       synced : BOOLEAN]]
  /\ row \in Rows
  /\ garbage \in SUBSET Ids
  /\ cum_recordings \in 0..MaxRecordings
  /\ process \in {"down", "abandoned", "running"}

\* The greatest id handed out.
Top == IF recording_id = NoId THEN complete - 1 ELSE complete

Window ==
  /\ recording_id \in {NoId, complete}
  /\ complete >= cum_recordings
  /\ \A i \in DOMAIN recent_recordings :
       LET r == recent_recordings[i]
       IN  /\ r.id = Top - Len(recent_recordings) + i
           /\ r.sample_file_bytes >= 1
           /\ Growing(r) => r.id = recording_id
  /\ recording_id # NoId =>
       /\ recent_recordings # << >>
       /\ LET r == recent_recordings[Len(recent_recordings)]
          IN  Uncommitted(r) /\ Growing(r)
  /\ recent_recordings = << >> <=> recent_frames = << >>
  /\ \A j \in DOMAIN recent_frames : recent_frames[j].recording_id <= Top
  /\ recent_recordings # << >> =>
        End(Last(recent_frames)) =
          BytePos(Last(recent_recordings).id, Last(recent_recordings).sample_file_bytes)
  /\ FramesContiguous

IsDurable(f, size) ==
  f = [exists |-> TRUE, pending |-> FALSE, size |-> size, synced |-> TRUE]

Durable(id, size) == IsDurable(file[id], size)

Busy == io.op \notin {"Idle", "Start"}

Working ==
  /\ FileIffWritten
  /\ Busy => ~writer_state.file
  /\ Current <= Top + 1
  /\ Busy \/ writer_state.file => Current \in cum_recordings..Top
  /\ writer_state.file \/ io.op \in {"Write", "Sync", "SyncDir", "Synced"} =>
       file[Current].exists /\ file[Current].size = writer_state.written
  /\ io.op = "Create" => writer_state.written = 0
  /\ io.op = "Written" =>
       file[Current].exists /\ file[Current].size = writer_state.written + io.n /\ io.n > 0
  /\ io.op \in {"Create", "Write", "Written"} => writer_state.written + io.n <= MaxBytes
  /\ \A id \in Ids : ~file[id].exists => file[id].size = 0
  /\ SyncedIsRecent
  /\ io.op \in {"SyncDir", "Synced"} => file[Current].synced
  /\ io.op = "Synced" => ~file[Current].pending
  /\ Current < cum_recordings =>
       \A i \in DOMAIN recent_recordings : recent_recordings[i].id >= cum_recordings
  /\ \A i \in DOMAIN recent_recordings :
       LET r == recent_recordings[i]
       IN  committed <= r.id /\ r.id < Current /\ ~Deleted(r) =>
             ~Growing(r) /\ Durable(r.id, r.sample_file_bytes)
  /\ \A i \in DOMAIN recent_recordings :
       recent_recordings[i].id >= committed => Uncommitted(recent_recordings[i])

Flushing ==
  /\ \A id \in DOMAIN row : id < cum_recordings
  /\ \A id \in garbage : id < committed /\ id \notin DOMAIN row
  /\ committed <= cum_recordings
  /\ cum_recordings = IF flush.pc = "Committed" /\ flush.cum # NoId THEN flush.cum ELSE committed
  /\ flush.pc = "Idle" => flush = NoFlush
  /\ flush.pc # "Idle" => to_delete = flush.deletion
  /\ to_delete \subseteq IF flush.pc = "Committed" THEN garbage ELSE DOMAIN row
  /\ flush.pc = "Collected" =>
        \A id \in DOMAIN flush.new :
            committed <= id /\ id < flush.cum /\ Durable(id, flush.new[id])
  /\ flush.cum # NoId => committed < flush.cum /\ flush.cum <= Current /\ flush.cum <= complete
  /\ garbage_needs_unlink \subseteq garbage \ garbage_unlinked
  /\ UnlinkedIsGarbage
  /\ garbage_unlinked \ flush.gced \subseteq garbage
  /\ flush.pc = "Committed" => to_delete \cap (garbage_needs_unlink \cup garbage_unlinked) = {}
  /\ flush_ready <= Current \/ flush_ready <= committed
  /\ flush.pc # "Idle" => process = "running"
  /\ CommittedDurable

Stopped ==
  process # "running" =>
    /\ recent_recordings = << >> /\ recording_id = NoId
    /\ io = Idle /\ ~writer_state.file /\ flush = NoFlush
    /\ \A c \in Collectors : gc[c] = {}

Inv == Typed /\ Window /\ Working /\ Flushing /\ Stopped

-----------------------------------------------------------------------------
(* The recent recordings from one step to the next.                        *)

\* new is old without its first n recordings, whose flags may have changed.
Follows(old, new, n) ==
  /\ n \in 0..Len(old)
  /\ new \in Seq(Recording)
  /\ Len(new) = Len(old) - n
  /\ \A i \in 1..(Len(old) - n) :
       /\ new[i].id = old[i + n].id
       /\ new[i].sample_file_bytes = old[i + n].sample_file_bytes
       /\ Growing(new[i]) = Growing(old[i + n])
       /\ Deleted(old[i + n]) => Deleted(new[i])

LEMMA MaybePruneFollows ==
  ASSUME NEW recents \in Seq(Recording), NEW frames, NEW ws
  PROVE  \E n \in 0..Len(recents) :
           /\ Follows(recents, MaybePrune(recents, frames, ws), n)
           /\ \A i \in 1..n : ~StillNeeded(recents[i], frames, ws)
           /\ \A i \in 1..(Len(recents) - n) :
                MaybePrune(recents, frames, ws)[i] = recents[i + n]
<1>1. CASE pinned
  <2>1. MaybePrune(recents, frames, ws) = recents
    BY <1>1 DEF MaybePrune
  <2>2. Follows(recents, recents, 0)
    BY DEF Follows
  <2> QED BY <2>1, <2>2
<1>2. CASE ~pinned
  <2>1. MaybePrune(recents, frames, ws) = Prune(recents, frames, ws)
    BY <1>2 DEF MaybePrune
  <2> SUFFICES \E n \in 0..Len(recents) :
        /\ Follows(recents, Prune(recents, frames, ws), n)
        /\ \A i \in 1..n : ~StillNeeded(recents[i], frames, ws)
        /\ \A i \in 1..(Len(recents) - n) : Prune(recents, frames, ws)[i] = recents[i + n]
    BY <2>1
  <2>2. PICK n \in 0..Len(recents) :
          /\ \A i \in 1..n : ~StillNeeded(recents[i], frames, ws)
          /\ Prune(recents, frames, ws) \in Seq(Recording)
          /\ Len(Prune(recents, frames, ws)) = Len(recents) - n
          /\ \A i \in 1..(Len(recents) - n) : Prune(recents, frames, ws)[i] = recents[i + n]
    BY PruneIsSuffix
  <2>3. Follows(recents, Prune(recents, frames, ws), n)
    BY <2>2 DEF Follows
  <2> QED BY <2>2, <2>3
<1> QED BY <1>1, <1>2

\* The last recording is needed as long as there are frames.
LEMMA LastIsKept ==
  ASSUME NEW recents \in Seq(Recording), recents # << >>,
         NEW frames \in Seq(Frame), frames # << >>,
         frames[1].recording_id <= recents[Len(recents)].id,
         NEW ws, NEW n \in 0..Len(recents),
         \A i \in 1..n : ~StillNeeded(recents[i], frames, ws)
  PROVE  n < Len(recents)
<1>1. Head(frames) = frames[1]
  OBVIOUS
<1>2. /\ Len(recents) \in Nat \ {0} /\ frames[1] \in Frame
      /\ recents[Len(recents)] \in Recording
  OBVIOUS
<1>3. StillNeeded(recents[Len(recents)], frames, ws)
  BY <1>1, <1>2 DEF StillNeeded, Frame, Recording, Ids
<1> QED BY <1>2, <1>3

LEMMA FollowsTwice ==
  ASSUME NEW a \in Seq(Recording), NEW b, NEW c, NEW n, NEW m,
         Follows(a, b, n), Follows(b, c, m)
  PROVE  Follows(a, c, n + m)
<1>1. /\ n \in 0..Len(a) /\ Len(b) = Len(a) - n /\ m \in 0..Len(b)
      /\ c \in Seq(Recording) /\ Len(c) = Len(b) - m
  BY DEF Follows
<1>2. n + m \in 0..Len(a) /\ Len(c) = Len(a) - (n + m)
  BY <1>1
<1>3. ASSUME NEW i \in 1..(Len(a) - (n + m))
      PROVE  /\ i \in 1..(Len(b) - m) /\ i + m \in 1..(Len(a) - n)
             /\ (i + m) + n = i + (n + m)
  BY <1>1
<1>4. ASSUME NEW i \in 1..(Len(a) - (n + m))
      PROVE  /\ c[i].id = a[i + (n + m)].id
             /\ c[i].sample_file_bytes = a[i + (n + m)].sample_file_bytes
             /\ Growing(c[i]) = Growing(a[i + (n + m)])
             /\ Deleted(a[i + (n + m)]) => Deleted(c[i])
  <2>1. /\ c[i].id = b[i + m].id
        /\ c[i].sample_file_bytes = b[i + m].sample_file_bytes
        /\ Growing(c[i]) = Growing(b[i + m])
        /\ Deleted(b[i + m]) => Deleted(c[i])
    BY <1>3 DEF Follows
  <2>2. /\ b[i + m].id = a[(i + m) + n].id
        /\ b[i + m].sample_file_bytes = a[(i + m) + n].sample_file_bytes
        /\ Growing(b[i + m]) = Growing(a[(i + m) + n])
        /\ Deleted(a[(i + m) + n]) => Deleted(b[i + m])
    BY <1>3 DEF Follows
  <2> QED BY <2>1, <2>2, <1>3
<1> QED BY <1>1, <1>2, <1>4 DEF Follows

\* frames is old without its first m frames; they are not all dropped.
Shortens(old, frames, m) ==
  /\ m \in 0..Len(old)
  /\ old # << >> => m < Len(old)
  /\ frames \in Seq(Frame)
  /\ Len(frames) = Len(old) - m
  /\ \A i \in 1..(Len(old) - m) : frames[i] = old[i + m]

\* The window is kept by steps that drop recordings and frames at the front.
LEMMA WindowKept ==
  ASSUME Typed, Window, Typed', UNCHANGED <<recording_id, complete>>,
         cum_recordings' <= complete,
         NEW n, Follows(recent_recordings, recent_recordings', n),
         recent_recordings # << >> => n < Len(recent_recordings),
         recording_id # NoId => Uncommitted(recent_recordings'[Len(recent_recordings')]),
         NEW m, Shortens(recent_frames, recent_frames', m)
  PROVE  Window'
<1> DEFINE R == recent_recordings
           F == recent_frames
<1>1. /\ R \in Seq(Recording) /\ R' \in Seq(Recording)
      /\ F \in Seq(Frame) /\ F' \in Seq(Frame) /\ Top \in Int /\ Top' = Top
  BY RecordingsAssumption DEF Typed, Top, NoId, Ids, RecordingsAssumption
<1>2. /\ n \in 0..Len(R) /\ Len(R') = Len(R) - n
      /\ m \in 0..Len(F) /\ Len(F') = Len(F) - m
  BY DEF Follows, Shortens
<1>3. ASSUME NEW i \in DOMAIN R'
      PROVE  /\ i + n \in DOMAIN R
             /\ R'[i].id = R[i + n].id
             /\ R'[i].sample_file_bytes = R[i + n].sample_file_bytes
             /\ Growing(R'[i]) = Growing(R[i + n])
             /\ R'[i].id = Top' - Len(R') + i
  <2>1. i \in 1..(Len(R) - n) /\ i + n \in DOMAIN R
    BY <1>1, <1>2
  <2>2. R[i + n].id = Top - Len(R) + (i + n)
    BY <2>1 DEF Window
  <2>3. /\ R'[i].id = R[i + n].id
        /\ R'[i].sample_file_bytes = R[i + n].sample_file_bytes
        /\ Growing(R'[i]) = Growing(R[i + n])
    BY <2>1 DEF Follows
  <2>4. Top - Len(R) + (i + n) = Top' - Len(R') + i
    BY <2>1, <1>1, <1>2
  <2> QED BY <2>1, <2>2, <2>3, <2>4
<1>4. ASSUME NEW j \in DOMAIN F'
      PROVE  j + m \in DOMAIN F /\ F'[j] = F[j + m]
  BY <1>1, <1>2 DEF Shortens
<1>5. \A i \in DOMAIN R' : /\ R'[i].id = Top' - Len(R') + i
                           /\ R'[i].sample_file_bytes >= 1
                           /\ Growing(R'[i]) => R'[i].id = recording_id'
  BY <1>3 DEF Window
<1>6. (R' = << >>) <=> (F' = << >>)
  <2>1. (R' = << >>) <=> (R = << >>)
    BY <1>1, <1>2
  <2>2. (F' = << >>) <=> (F = << >>)
    BY <1>1, <1>2 DEF Shortens
  <2> QED BY <2>1, <2>2 DEF Window
<1>7. R # << >> => /\ Len(R') \in DOMAIN R' /\ Len(R') + n = Len(R)
                   /\ Len(F') \in DOMAIN F' /\ Len(F') + m = Len(F)
  BY <1>1, <1>2, <1>6 DEF Window
<1>8. recording_id' # NoId =>
        /\ R' # << >>
        /\ Uncommitted(R'[Len(R')]) /\ Growing(R'[Len(R')])
  <2>1. SUFFICES ASSUME recording_id # NoId
                 PROVE  R' # << >> /\ Uncommitted(R'[Len(R')]) /\ Growing(R'[Len(R')])
    OBVIOUS
  <2>2. R # << >> /\ Growing(R[Len(R)])
    BY <2>1 DEF Window
  <2> QED BY <2>1, <2>2, <1>7, <1>3, <1>1, <1>2
<1>9. \A j \in DOMAIN F' : F'[j].recording_id <= Top'
  BY <1>4, <1>1 DEF Window
<1>10. R' # << >> => End(Last(F')) = BytePos(Last(R').id, Last(R').sample_file_bytes)
  <2>1. SUFFICES ASSUME R' # << >>
                 PROVE  End(F'[Len(F')]) = BytePos(R'[Len(R')].id, R'[Len(R')].sample_file_bytes)
    BY DEF Last
  <2>2. R # << >>
    BY <2>1, <1>1, <1>2
  <2>3. /\ R'[Len(R')].id = R[Len(R)].id
        /\ R'[Len(R')].sample_file_bytes = R[Len(R)].sample_file_bytes
        /\ F'[Len(F')] = F[Len(F)]
    BY <2>2, <1>7, <1>3, <1>4
  <2>4. End(F[Len(F)]) = BytePos(R[Len(R)].id, R[Len(R)].sample_file_bytes)
    BY <2>2 DEF Window, Last
  <2> QED BY <2>3, <2>4
<1>11. FramesContiguous'
  <2>1. SUFFICES ASSUME NEW i \in 1..(Len(F') - 1)
                 PROVE  \/ F'[i + 1].recording_id = F'[i].recording_id
                           /\ F'[i + 1].sample_start = F'[i].sample_start + F'[i].len
                        \/ F'[i + 1].recording_id = F'[i].recording_id + 1
                           /\ F'[i + 1].sample_start = 0
    BY DEF FramesContiguous
  <2>2. /\ i \in DOMAIN F' /\ i + 1 \in DOMAIN F'
        /\ i + m \in 1..(Len(F) - 1) /\ (i + 1) + m = (i + m) + 1
    BY <1>1, <1>2
  <2>3. F'[i] = F[i + m] /\ F'[i + 1] = F[(i + m) + 1]
    BY <1>4, <2>2
  <2> QED BY <2>2, <2>3 DEF Window, FramesContiguous
<1> QED BY <1>5, <1>6, <1>8, <1>9, <1>10, <1>11 DEF Window

-----------------------------------------------------------------------------
(* The worker's choice of a step.                                          *)

Safe(recents, position) ==
  \A i \in DOMAIN recents :
    LET r == recents[i]
    IN  committed <= r.id /\ r.id < position /\ ~Deleted(r) =>
          ~Growing(r) /\ Durable(r.id, r.sample_file_bytes)

\* What Choose is given by each of the four preparations.
MayChoose(recents, n, frames, m, ws) ==
  /\ Follows(recent_recordings, recents, n)
  /\ recent_recordings # << >> => n < Len(recent_recordings)
  /\ \A i \in 1..Len(recents) :
       Uncommitted(recents[i]) = Uncommitted(recent_recordings[i + n])
  /\ Shortens(recent_frames, frames, m)
  /\ ws \in WriterState
  /\ ws.recording_id >= Current /\ ws.recording_id <= Top + 1
  /\ ws.file <=> ws.written > 0
  /\ ws.file => /\ ws.recording_id \in cum_recordings..Top
                /\ file[ws.recording_id].exists
                /\ file[ws.recording_id].size = ws.written
  /\ ws.recording_id < cum_recordings => ws.recording_id = Current
  /\ Safe(recents, ws.recording_id)

LEMMA ChooseKeepsInv ==
  ASSUME Inv, process = "running", NEW recents, NEW n, NEW frames, NEW m, NEW ws,
         MayChoose(recents, n, frames, m, ws),
         Choose(recents, frames, ws), WorkerUnchanged
  PROVE  Inv'
<1> DEFINE R == recent_recordings
<1>1. /\ R \in Seq(Recording) /\ recents \in Seq(Recording) /\ Top \in Int /\ Top' = Top
      /\ n \in 0..Len(R) /\ Len(recents) = Len(R) - n
      /\ \A i \in 1..Len(recents) :
           /\ recents[i] \in Recording /\ recents[i].id \in Ids
           /\ recents[i].sample_file_bytes \in 0..MaxBytes
  <2>1. R \in Seq(Recording) /\ recents \in Seq(Recording) /\ n \in 0..Len(R) /\ Len(recents) = Len(R) - n
    BY DEF Inv, Typed, MayChoose, Follows
  <2>2. \A i \in 1..Len(recents) : recents[i] \in Recording
    BY <2>1
  <2>3. Top \in Int /\ Top' = Top
    BY RecordingsAssumption DEF Inv, Typed, Top, NoId, Ids, RecordingsAssumption, WorkerUnchanged
  <2> QED BY <2>1, <2>2, <2>3 DEF Recording
<1>2. ASSUME NEW i \in 1..Len(recents)
      PROVE  /\ i + n \in 1..Len(R)
             /\ recents[i].id = (Top - Len(recents)) + i
             /\ recents[i].id <= Top
             /\ recents[i].sample_file_bytes >= 1
             /\ recents[i].id = R[i + n].id
             /\ Uncommitted(recents[i]) = Uncommitted(R[i + n])
             /\ Growing(recents[i]) => recents[i].id = recording_id
             /\ recents[i].id \in Ids /\ recents[i].id \in Nat
             /\ recents[i].sample_file_bytes \in 1..MaxBytes
  <2>1. i + n \in 1..Len(R) /\ i \in 1..(Len(R) - n)
    BY <1>1
  <2>2. /\ recents[i].id = R[i + n].id
        /\ recents[i].sample_file_bytes = R[i + n].sample_file_bytes
        /\ Growing(recents[i]) = Growing(R[i + n])
        /\ Uncommitted(recents[i]) = Uncommitted(R[i + n])
    BY <2>1, <1>1 DEF MayChoose, Follows
  <2>3. /\ R[i + n].id = Top - Len(R) + (i + n)
        /\ R[i + n].sample_file_bytes >= 1
        /\ Growing(R[i + n]) => R[i + n].id = recording_id
    BY <2>1, <1>1 DEF Inv, Window
  <2>4. /\ Top - Len(R) + (i + n) = (Top - Len(recents)) + i
        /\ (Top - Len(recents)) + i <= Top
    BY <2>1, <1>1
  <2>5. recents[i].id \in Ids /\ recents[i].sample_file_bytes \in 0..MaxBytes
    BY <1>1
  <2>6. recents[i].id \in Nat
    BY <2>5, RecordingsAssumption DEF Ids, RecordingsAssumption
  <2>7. recents[i].sample_file_bytes \in 1..MaxBytes
    BY <2>5, <2>2, <2>3, RecordingsAssumption DEF RecordingsAssumption
  <2> QED BY <2>1, <2>2, <2>3, <2>4, <2>5, <2>6, <2>7
<1>3. /\ recent_frames' = frames
      /\ writer_state' \in WriterState
      /\ PassesOver(recents, frames, ws)
      /\ \/ AbortsFile(ws)
         \/ WaitsForMore(recents, ws)
         \/ \E i \in 1..Len(recents) : GoesOn(recents[i], ws)
  <2>1. ws \in WriterState /\ Top - Len(recents) \in Int
    BY <1>1 DEF MayChoose
  <2> QED BY <2>1, <1>1, <1>2, ChooseOutcome
<1>4. /\ R' \in Seq(Recording) /\ Len(R') = Len(recents) /\ DOMAIN R' = 1..Len(recents)
      /\ \A i \in 1..Len(recents) :
           /\ R'[i].id = recents[i].id
           /\ R'[i].sample_file_bytes = recents[i].sample_file_bytes
           /\ Growing(R'[i]) = Growing(recents[i])
           /\ Uncommitted(R'[i]) = Uncommitted(recents[i])
           /\ Deleted(recents[i]) => Deleted(R'[i])
           /\ recents[i].id \in ws.recording_id..(writer_state'.recording_id - 1) => Deleted(R'[i])
  BY <1>3 DEF PassesOver
<1>5. Follows(R, R', n)
  <2>1. Follows(recents, R', 0)
    BY <1>1, <1>4 DEF Follows
  <2>2. Follows(R, R', n + 0)
    BY <2>1, <1>1, FollowsTwice DEF MayChoose
  <2> QED BY <2>2, <1>1
<1>6. /\ writer_state'.recording_id \in 0..MaxRecordings
      /\ writer_state'.written \in 0..MaxBytes /\ writer_state'.file \in BOOLEAN
      /\ ws.recording_id \in 0..MaxRecordings
      /\ ws.written \in 0..MaxBytes /\ ws.file \in BOOLEAN
      /\ Current \in 0..MaxRecordings /\ Current' = writer_state'.recording_id
      /\ cum_recordings \in 0..MaxRecordings /\ MaxRecordings \in Nat /\ MaxBytes \in Nat
      /\ committed \in 0..MaxRecordings /\ flush_ready \in 0..MaxRecordings
  BY <1>3, RecordingsAssumption DEF MayChoose, WriterState, Inv, Typed, Current, RecordingsAssumption
<1>7. ASSUME NEW r, GoesOn(r, ws), r.sample_file_bytes \in 0..MaxBytes
      PROVE  io'.n \in 0..MaxBytes
  BY <1>6, <1>7 DEF GoesOn, WrittenOf, Idle
<1>8. io' \in [op : {"Idle"} \cup Outcomes \cup IoSteps, n : 0..MaxBytes]
  <2>1. CASE AbortsFile(ws)
    BY <2>1, <1>6 DEF AbortsFile, IoSteps
  <2>2. CASE WaitsForMore(recents, ws)
    BY <2>2, <1>6 DEF WaitsForMore, Idle
  <2>3. ASSUME NEW i \in 1..Len(recents), GoesOn(recents[i], ws)
        PROVE io' \in [op : {"Idle"} \cup Outcomes \cup IoSteps, n : 0..MaxBytes]
    <3>1. io'.n \in 0..MaxBytes
      BY <1>1, <1>7, <2>3
    <3>2. \/ io' = [op |-> "Write", n |-> io'.n]
          \/ io' = [op |-> "Create", n |-> io'.n]
          \/ io' = [op |-> "Idle", n |-> io'.n]
          \/ io' = [op |-> "Sync", n |-> io'.n]
      BY <2>3 DEF GoesOn, Idle
    <3> QED BY <3>1, <3>2 DEF IoSteps
  <2> QED BY <1>3, <2>1, <2>2, <2>3
<1>9. Typed'
  <2>1. recent_frames' \in Seq(Frame)
    BY <1>3 DEF MayChoose, Shortens
  <2> QED BY <2>1, <1>3, <1>4, <1>8
       DEF Inv, Typed, WorkerUnchanged, WriterState, byteVars, poolVars, dbVars, historyVars
<1>10. Window'
  <2>1. /\ UNCHANGED <<recording_id, complete>> /\ cum_recordings' <= complete
        /\ Shortens(recent_frames, recent_frames', m)
        /\ R # << >> => n < Len(R)
    BY <1>3 DEF WorkerUnchanged, dbVars, Inv, Window, MayChoose
  <2>2. recording_id # NoId => Uncommitted(R'[Len(R')])
    <3>1. SUFFICES ASSUME recording_id # NoId PROVE Uncommitted(R'[Len(R')])
      OBVIOUS
    <3>2. R # << >> /\ Uncommitted(R[Len(R)]) /\ n < Len(R)
      BY <3>1, <2>1 DEF Inv, Window
    <3>3. Len(recents) \in 1..Len(recents) /\ Len(recents) + n = Len(R)
      BY <3>2, <1>1
    <3> QED BY <3>2, <3>3, <1>2, <1>4
  <2> QED BY <2>1, <2>2, <1>5, <1>9, WindowKept DEF Inv
<1>11. UNCHANGED <<complete, committed, flush_ready, to_delete, recording_id, flush, gc,
                  poolVars, file, dbVars, process>>
  BY DEF WorkerUnchanged
<1>12. /\ ws.recording_id >= Current /\ ws.recording_id <= Top + 1
       /\ ws.file <=> ws.written > 0
       /\ ws.file => /\ ws.recording_id \in cum_recordings..Top
                     /\ file[ws.recording_id].exists
                     /\ file[ws.recording_id].size = ws.written
       /\ ws.recording_id < cum_recordings => ws.recording_id = Current
       /\ Safe(recents, ws.recording_id)
  BY DEF MayChoose
<1>13. Current < cum_recordings =>
         \A i \in 1..Len(recents) : recents[i].id >= cum_recordings
  <2>1. Current < cum_recordings => \A i \in 1..Len(R) : R[i].id >= cum_recordings
    BY <1>1 DEF Inv, Working
  <2>2. \A i \in 1..Len(recents) : i + n \in 1..Len(R) /\ recents[i].id = R[i + n].id
    BY <1>2
  <2> QED BY <2>1, <2>2
\* What a recording that is next to be written brings.
<1>14. ASSUME NEW i \in 1..Len(recents), GoesOn(recents[i], ws)
       PROVE  /\ Current' = recents[i].id /\ Current' >= ws.recording_id
              /\ Current' \in cum_recordings..Top
              /\ recents[i].id \in Ids
              /\ writer_state'.written = WrittenOf(recents[i], ws)
              /\ ws.file => /\ recents[i].id = ws.recording_id
                            /\ file[Current'].exists
                            /\ file[Current'].size = writer_state'.written
              /\ ~ws.file => writer_state'.written = 0
  <2>1. /\ Current' = recents[i].id /\ Current' >= ws.recording_id
        /\ writer_state'.written = WrittenOf(recents[i], ws)
        /\ ws.file => recents[i].id = ws.recording_id
    BY <1>6, <1>14 DEF GoesOn
  <2>2. Current' >= cum_recordings
    <3>1. CASE Current < cum_recordings
      BY <2>1, <3>1, <1>13
    <3>2. CASE ws.recording_id >= cum_recordings
      BY <2>1, <3>2, <1>2, <1>6
    <3> QED BY <3>1, <3>2, <1>6, <1>12
  <2>3. ~ws.file => writer_state'.written = 0
    BY <2>1, <1>6, <1>12 DEF WrittenOf
  <2>4. ws.file => WrittenOf(recents[i], ws) = ws.written
    BY <2>1 DEF WrittenOf
  <2>5. Current' \in cum_recordings..Top /\ recents[i].id \in Ids
    <3>1. recents[i].id \in Ids /\ recents[i].id \in Nat /\ recents[i].id <= Top
      BY <1>2
    <3>2. Top \in Int /\ cum_recordings \in Nat
      BY <1>1, <1>6
    <3> QED BY <2>1, <2>2, <3>1, <3>2
  <2>6. ws.file => file[Current'].exists /\ file[Current'].size = writer_state'.written
    BY <2>1, <2>4, <1>12
  <2> QED BY <2>1, <2>3, <2>5, <2>6
<1>15. Current' >= ws.recording_id /\ Current' <= Top' + 1
  <2>1. CASE AbortsFile(ws)
    BY <2>1, <1>6, <1>12, <1>1 DEF AbortsFile
  <2>2. CASE WaitsForMore(recents, ws)
    <3>1. CASE writer_state' = ws
      BY <3>1, <1>6, <1>12, <1>1
    <3>2. ASSUME NEW i \in 1..Len(recents), recents[i].id >= ws.recording_id,
                 writer_state' = After(recents[i].id)
          PROVE  Current' >= ws.recording_id /\ Current' <= Top' + 1
      <4>1. Current' = recents[i].id + 1
        BY <3>2, <1>6 DEF After
      <4>2. recents[i].id <= Top /\ recents[i].id \in Nat
        BY <1>2
      <4>3. Top \in Int /\ Top' = Top /\ ws.recording_id \in Int
        BY <1>1, <1>6
      <4> QED BY <4>1, <4>2, <4>3, <3>2
    <3> QED BY <2>2, <3>1, <3>2 DEF WaitsForMore
  <2>3. ASSUME NEW i \in 1..Len(recents), GoesOn(recents[i], ws)
        PROVE  Current' >= ws.recording_id /\ Current' <= Top' + 1
    <3>1. Current' >= ws.recording_id /\ Current' \in cum_recordings..Top
      BY <1>14, <2>3
    <3> QED BY <3>1, <1>1, <1>6
  <2> QED BY <1>3, <2>1, <2>2, <2>3
\* The file at hand.
<1> DEFINE AtHand ==
      /\ FileIffWritten
      /\ Busy => ~writer_state.file
      /\ Busy \/ writer_state.file => Current \in cum_recordings..Top
      /\ writer_state.file \/ io.op \in {"Write", "Sync", "SyncDir", "Synced"} =>
           file[Current].exists /\ file[Current].size = writer_state.written
      /\ io.op = "Create" => writer_state.written = 0
      /\ io.op # "Written"
      /\ io.op \in {"Create", "Write", "Written"} => writer_state.written + io.n <= MaxBytes
      /\ SyncedIsRecent
      /\ io.op \notin {"SyncDir", "Synced"}
<1>16. AtHand'
  <2>1. CASE AbortsFile(ws)
    BY <2>1, <1>6, <1>11, <1>12, <1>1 DEF AbortsFile, FileIffWritten, Busy, SyncedIsRecent, dbVars
  <2>2. CASE WaitsForMore(recents, ws)
    <3>1. /\ writer_state'.written = 0 /\ ~writer_state'.file /\ io' = Idle
      BY <2>2, <1>6, <1>12 DEF WaitsForMore, After
    <3> QED BY <3>1 DEF FileIffWritten, Busy, SyncedIsRecent, Idle
  <2>3. ASSUME NEW i \in 1..Len(recents), GoesOn(recents[i], ws)
        PROVE  AtHand'
    <3> DEFINE r == recents[i]
    <3>1. /\ Current' = r.id
          /\ Current' \in cum_recordings'..Top'
          /\ writer_state'.written = WrittenOf(r, ws)
          /\ ws.file => /\ file'[Current'].exists
                        /\ file'[Current'].size = writer_state'.written
          /\ ~ws.file => writer_state'.written = 0
          /\ r.sample_file_bytes \in 1..MaxBytes
      <4>1. UNCHANGED <<cum_recordings, file>> /\ Top' = Top
        BY <1>1, <1>11 DEF dbVars
      <4>2. r.sample_file_bytes \in 1..MaxBytes
        BY <1>2
      <4> HIDE DEF r
      <4> QED BY <4>1, <4>2, <1>14, <2>3 DEF r
    <3>2. CASE r.sample_file_bytes > WrittenOf(r, ws)
      <4>1. /\ ~writer_state'.file
            /\ io' = [op |-> IF ws.file THEN "Write" ELSE "Create",
                      n |-> r.sample_file_bytes - WrittenOf(r, ws)]
        BY <2>3, <3>2, <3>1, <1>6 DEF GoesOn
      <4>2. writer_state'.written + io'.n <= MaxBytes
        BY <4>1, <3>1, <1>6
      <4> QED BY <4>1, <4>2, <3>1, <1>6 DEF FileIffWritten, Busy, SyncedIsRecent
    <3>3. CASE r.sample_file_bytes = WrittenOf(r, ws)
      <4>1. ws.file /\ writer_state'.written > 0
        BY <3>1, <3>3
      <4>2. IF Growing(r) THEN writer_state'.file = ws.file /\ io' = Idle
                          ELSE ~writer_state'.file /\ io' = [op |-> "Sync", n |-> 0]
        BY <2>3, <3>3, <3>1, <1>6 DEF GoesOn
      <4>3. CASE Growing(r)
        <5>1. writer_state'.file /\ io'.op = "Idle"
          <6>1. writer_state'.file = ws.file /\ io' = Idle
            BY <4>2, <4>3
          <6>2. ws.file = TRUE
            BY <4>1, <1>6
          <6> QED BY <6>1, <6>2 DEF Idle
        <5> QED BY <4>1, <5>1, <3>1 DEF FileIffWritten, Busy, SyncedIsRecent
      <4>4. CASE ~Growing(r)
        <5>1. ~writer_state'.file /\ io'.op = "Sync"
          BY <4>2, <4>4
        <5>2. /\ i \in DOMAIN R' /\ R'[i].id = Current' /\ ~Growing(R'[i])
              /\ R'[i].sample_file_bytes = writer_state'.written
          BY <1>4, <4>4, <3>1, <3>3
        <5>3. SyncedIsRecent'
          BY <5>2 DEF SyncedIsRecent, Current
        <5> QED BY <5>1, <5>3, <3>1, <4>1 DEF FileIffWritten, Busy
      <4> QED BY <4>3, <4>4
    <3> QED BY <2>3, <3>2, <3>3 DEF GoesOn
  <2> QED BY <1>3, <2>1, <2>2, <2>3
<1>17. Safe(R, Current)'
  <2>1. SUFFICES ASSUME NEW i \in 1..Len(recents),
                        committed <= R'[i].id, R'[i].id < Current', ~Deleted(R'[i])
                 PROVE  ~Growing(R'[i]) /\ IsDurable(file'[R'[i].id], R'[i].sample_file_bytes)
    BY <1>4, <1>11 DEF Safe, Durable
  <2>2. /\ R'[i].id = recents[i].id /\ Growing(R'[i]) = Growing(recents[i])
        /\ R'[i].sample_file_bytes = recents[i].sample_file_bytes
        /\ ~Deleted(recents[i])
        /\ recents[i].id \notin ws.recording_id..(Current' - 1)
    BY <2>1, <1>4, <1>6
  <2>3. recents[i].id < ws.recording_id
    <3>1. recents[i].id \in Nat
      BY <1>2
    <3> QED BY <3>1, <2>1, <2>2, <1>6
  <2>4. ~Growing(recents[i]) /\ Durable(recents[i].id, recents[i].sample_file_bytes)
    BY <2>1, <2>2, <2>3, <1>1, <1>12 DEF Safe
  <2>5. recents[i].id \in Ids
    BY <1>2
  <2> QED BY <2>2, <2>4, <2>5, <1>11 DEF Durable
<1>18. \A i \in DOMAIN R' : R'[i].id >= committed' => Uncommitted(R'[i])
  <2>1. \A i \in 1..Len(R) : R[i].id >= committed => Uncommitted(R[i])
    BY <1>1 DEF Inv, Working
  <2>2. \A i \in 1..Len(recents) :
          /\ i + n \in 1..Len(R) /\ recents[i].id = R[i + n].id
          /\ Uncommitted(recents[i]) = Uncommitted(R[i + n])
    BY <1>2
  <2> QED BY <2>1, <2>2, <1>4, <1>11
<1>19. Current' < cum_recordings' => \A i \in DOMAIN R' : R'[i].id >= cum_recordings'
  BY <1>4, <1>6, <1>11, <1>12, <1>13, <1>15 DEF dbVars
<1>20. Working'
  <2>1. \A id \in Ids : ~file'[id].exists => file'[id].size = 0
    BY <1>11 DEF Inv, Working
  <2> QED BY <1>15, <1>16, <1>17, <1>18, <1>19, <2>1 DEF Working, Safe, Current
<1>21. Flushing'
  <2>1. Current' >= Current
    BY <1>6, <1>12, <1>15
  <2>2. flush.cum \in Int
    BY <1>6 DEF Inv, Typed, NoId
  <2>3. flush.cum # NoId => flush.cum <= Current'
    BY <2>1, <2>2, <1>6 DEF Inv, Flushing
  <2>4. flush_ready <= Current' \/ flush_ready <= committed
    BY <2>1, <1>6 DEF Inv, Flushing
  <2> QED BY <2>3, <2>4, <1>11
       DEF Inv, Flushing, dbVars, poolVars, UnlinkedIsGarbage, CommittedDurable, Durable, Typed, Rows
<1>22. Stopped'
  BY <1>11 DEF Stopped
<1> QED BY <1>9, <1>10, <1>20, <1>21, <1>22 DEF Inv

\* The values Working and its neighbours speak of.
LEMMA Ranges ==
  ASSUME Inv
  PROVE  /\ MaxRecordings \in Nat /\ MaxBytes \in Nat
         /\ Top \in Int /\ Top < MaxRecordings /\ Current \in 0..MaxRecordings
         /\ writer_state \in WriterState
         /\ writer_state.written \in 0..MaxBytes /\ writer_state.file \in BOOLEAN
         /\ writer_state.recording_id = Current
         /\ cum_recordings \in 0..MaxRecordings /\ committed \in 0..MaxRecordings
         /\ committed <= cum_recordings /\ complete \in 0..MaxRecordings
         /\ io.n \in 0..MaxBytes
         /\ Top \in {complete - 1, complete}
         /\ recent_recordings \in Seq(Recording) /\ recent_frames \in Seq(Frame)
<1>1. MaxRecordings \in Nat /\ MaxBytes \in Nat
  BY RecordingsAssumption DEF RecordingsAssumption
<1>2. Top \in Int /\ Top < MaxRecordings /\ Top \in {complete - 1, complete}
  BY <1>1 DEF Inv, Typed, Window, Top, NoId, Ids
<1> QED BY <1>1, <1>2 DEF Inv, Typed, Flushing, Current, WriterState

LEMMA RecentRanges ==
  ASSUME Inv, NEW i \in DOMAIN recent_recordings
  PROVE  LET r == recent_recordings[i]
         IN  /\ r \in Recording /\ r.id \in Ids /\ r.id \in Nat /\ r.id <= Top
             /\ r.sample_file_bytes \in 1..MaxBytes
             /\ i \in 1..Len(recent_recordings)
             /\ r.id = (Top - Len(recent_recordings)) + i
<1>1. recent_recordings \in Seq(Recording) /\ i \in 1..Len(recent_recordings)
  BY DEF Inv, Typed
<1>2. recent_recordings[i] \in Recording
  BY <1>1
<1>3. /\ recent_recordings[i].id = Top - Len(recent_recordings) + i
      /\ recent_recordings[i].sample_file_bytes >= 1
  BY DEF Inv, Window
<1>4. recent_recordings[i].id \in Ids /\ recent_recordings[i].sample_file_bytes \in 0..MaxBytes
  BY <1>2 DEF Recording
<1>5. MaxRecordings \in Nat /\ MaxBytes \in Nat /\ Top \in Int /\ Len(recent_recordings) \in Nat
  BY <1>1, Ranges
<1>6. recent_recordings[i].id \in Nat /\ recent_recordings[i].sample_file_bytes \in 1..MaxBytes
  BY <1>3, <1>4, <1>5 DEF Ids
<1>7. recent_recordings[i].id <= Top
  BY <1>1, <1>3, <1>5
<1> QED BY <1>1, <1>2, <1>3, <1>4, <1>6, <1>7

LEMMA BusyIsRunning ==
  ASSUME Inv, io # Idle
  PROVE  process = "running"
BY DEF Inv, Stopped

LEMMA PruneFrontShortens ==
  ASSUME NEW frames \in Seq(Frame), NEW pos
  PROVE  \E m \in 0..Len(frames) : Shortens(frames, PruneFront(frames, pos), m)
BY PruneFrontIsSuffix DEF Shortens

LEMMA Unshortened ==
  ASSUME Inv
  PROVE  /\ Follows(recent_recordings, recent_recordings, 0)
         /\ recent_recordings # << >> => 0 < Len(recent_recordings)
         /\ \A i \in 1..Len(recent_recordings) :
              Uncommitted(recent_recordings[i]) = Uncommitted(recent_recordings[i + 0])
         /\ Shortens(recent_frames, recent_frames, 0)
<1>1. recent_recordings \in Seq(Recording) /\ recent_frames \in Seq(Frame)
  BY DEF Inv, Typed
<1> QED BY <1>1 DEF Follows, Shortens

\* The state the worker chooses from, once the last outcome is taken in.
Prepared(recents, n, frames, m, ws) ==
  /\ MayChoose(recents, n, frames, m, ws)
  /\ \A i \in 1..Len(recents) :
       Deleted(recents[i]) <=> \/ Deleted(recent_recordings[i + n])
                               \/ io.op = "Aborted" /\ recent_recordings[i + n].id = Current
  /\ \A i \in 1..n :
       /\ io.op = "Aborted"
       /\ \/ Deleted(recent_recordings[i])
          \/ ~Uncommitted(recent_recordings[i])
          \/ recent_recordings[i].id >= Current
       /\ frames # << >> => recent_recordings[i].id < frames[1].recording_id
  /\ \/ io.op = "Start" /\ ws = writer_state /\ frames = recent_frames
     \/ /\ io.op = "Written"
        /\ ws = [writer_state EXCEPT !.written = @ + io.n, !.file = TRUE]
        /\ frames = PruneFront(recent_frames, Pos(ws))
     \/ /\ io.op \in {"Synced", "Aborted"}
        /\ ws = After(Current)
        /\ frames = PruneFront(recent_frames, Pos(ws))

Prepares ==
  /\ process = "running"
  /\ \E recents, n, frames, m, ws :
       /\ Prepared(recents, n, frames, m, ws)
       /\ Choose(recents, frames, ws)
       /\ WorkerUnchanged

LEMMA PrepStartPrepares ==
  ASSUME Inv, PrepStart
  PROVE  Prepares
<1>1. process = "running"
  BY BusyIsRunning DEF PrepStart, Idle
<1>2. MayChoose(recent_recordings, 0, recent_frames, 0, writer_state)
  BY Ranges, Unshortened DEF PrepStart, MayChoose, Inv, Working, FileIffWritten, Safe, Current
<1>3. Prepared(recent_recordings, 0, recent_frames, 0, writer_state)
  <2>1. \A i \in 1..Len(recent_recordings) : i + 0 = i
    BY Ranges
  <2> QED BY <1>2, <2>1 DEF Prepared, PrepStart
<1> QED BY <1>1, <1>3 DEF PrepStart, Prepares

LEMMA PrepWrittenPrepares ==
  ASSUME Inv, PrepWritten
  PROVE  Prepares
<1> DEFINE ws == [writer_state EXCEPT !.written = @ + io.n, !.file = TRUE]
           frames == PruneFront(recent_frames, Pos(ws))
<1>1. process = "running"
  BY BusyIsRunning DEF PrepWritten, Idle
<1>2. PICK m : Shortens(recent_frames, frames, m)
  BY Ranges, PruneFrontShortens
<1>3. /\ Current \in cum_recordings..Top
      /\ file[Current].exists /\ file[Current].size = writer_state.written + io.n /\ io.n > 0
      /\ writer_state.written + io.n <= MaxBytes
  BY DEF PrepWritten, Inv, Working, Busy
<1>4. /\ ws.recording_id = Current /\ ws.written = writer_state.written + io.n /\ ws.file = TRUE
      /\ ws \in WriterState
  <2>1. writer_state \in WriterState /\ writer_state.recording_id = Current
    BY Ranges
  <2>2. writer_state.written + io.n \in 0..MaxBytes
    BY <1>3, Ranges
  <2> QED BY <2>1, <2>2 DEF WriterState
<1>5. MayChoose(recent_recordings, 0, frames, m, ws)
  <2> HIDE DEF ws, frames
  <2> QED BY <1>2, <1>3, <1>4, Ranges, Unshortened DEF MayChoose, Inv, Working, Safe, Current
<1>6. Choose(recent_recordings, frames, ws) /\ WorkerUnchanged
  BY DEF PrepWritten
<1>7. Prepared(recent_recordings, 0, frames, m, ws)
  <2>1. \A i \in 1..Len(recent_recordings) : i + 0 = i
    BY Ranges
  <2>2. io.op = "Written"
    BY DEF PrepWritten
  <2> QED BY <1>5, <2>1, <2>2 DEF Prepared
<1> HIDE DEF ws, frames
<1> QED BY <1>1, <1>6, <1>7 DEF Prepares

\* The writer state that follows recording Current.
LEMMA AfterCurrent ==
  ASSUME Inv, Current \in cum_recordings..Top
  PROVE  /\ After(Current) \in WriterState
         /\ After(Current).recording_id = Current + 1
         /\ After(Current).written = 0 /\ After(Current).file = FALSE
BY Ranges DEF After, WriterState

LEMMA PrepSyncedPrepares ==
  ASSUME Inv, PrepSynced
  PROVE  Prepares
<1> DEFINE ws == After(Current)
           frames == PruneFront(recent_frames, Pos(ws))
           R == recent_recordings
<1>1. process = "running"
  BY BusyIsRunning DEF PrepSynced, Idle
<1>2. PICK m : Shortens(recent_frames, frames, m)
  BY Ranges, PruneFrontShortens
<1>3. Current \in cum_recordings..Top
  BY DEF PrepSynced, Inv, Working, Busy
<1>4. Safe(R, Current + 1)
  <2>1. SUFFICES ASSUME NEW i \in DOMAIN R, committed <= R[i].id, R[i].id < Current + 1,
                        ~Deleted(R[i])
                 PROVE  ~Growing(R[i]) /\ Durable(R[i].id, R[i].sample_file_bytes)
    BY DEF Safe
  <2>2. CASE R[i].id < Current
    BY <2>1, <2>2 DEF Inv, Working
  <2>3. CASE R[i].id = Current
    <3>1. PICK j \in DOMAIN R : /\ R[j].id = Current
                                /\ R[j].sample_file_bytes = writer_state.written
                                /\ ~Growing(R[j])
      BY DEF PrepSynced, Inv, Working, SyncedIsRecent, Current
    <3>2. /\ R[i].id = (Top - Len(R)) + i /\ R[j].id = (Top - Len(R)) + j
          /\ i \in 1..Len(R) /\ j \in 1..Len(R)
      BY RecentRanges
    <3>3. i = j
      BY SMTT(30), <3>1, <3>2, <2>3, Ranges
    <3>4. /\ file[Current].exists /\ file[Current].synced /\ ~file[Current].pending
          /\ file[Current].size = writer_state.written
      BY DEF PrepSynced, Inv, Working
    <3>5. /\ Current \in Ids
          /\ file[Current] \in [exists : BOOLEAN, pending : BOOLEAN, size : 0..MaxBytes,
                                synced : BOOLEAN]
      BY <2>3, RecentRanges DEF Inv, Typed
    <3> QED BY <3>1, <3>3, <3>4, <3>5, <2>3 DEF Durable, IsDurable
  <2> QED BY SMTT(30), <2>1, <2>2, <2>3, RecentRanges, Ranges
<1>5. MayChoose(R, 0, frames, m, ws)
  <2>1. /\ ws \in WriterState /\ ws.recording_id = Current + 1
        /\ ws.written = 0 /\ ws.file = FALSE
    BY <1>3, AfterCurrent
  <2> HIDE DEF ws, frames
  <2> QED BY <1>2, <1>3, <1>4, <2>1, Ranges, Unshortened DEF MayChoose
<1>6. Choose(R, frames, ws) /\ WorkerUnchanged
  BY DEF PrepSynced, Current
<1>7. Prepared(R, 0, frames, m, ws)
  <2>1. \A i \in 1..Len(R) : i + 0 = i
    BY Ranges
  <2>2. io.op = "Synced"
    BY DEF PrepSynced
  <2> QED BY <1>5, <2>1, <2>2 DEF Prepared
<1> HIDE DEF ws, frames, R
<1> QED BY <1>1, <1>6, <1>7 DEF Prepares

LEMMA PrepAbortedPrepares ==
  ASSUME Inv, PrepAborted
  PROVE  Prepares
<1> DEFINE ws == After(Current)
           frames == PruneFront(recent_frames, Pos(ws))
           R == recent_recordings
           marked == MarkDeleted(R, {Current})
           recents == MaybePrune(marked, frames, ws)
<1>1. process = "running"
  BY BusyIsRunning DEF PrepAborted, Idle
<1>2. PICK m : Shortens(recent_frames, frames, m)
  BY Ranges, PruneFrontShortens
<1>3. Current \in cum_recordings..Top
  BY DEF PrepAborted, Inv, Working, Busy
<1>4. /\ marked \in Seq(Recording) /\ Len(marked) = Len(R)
      /\ \A i \in 1..Len(R) :
           /\ marked[i].id = R[i].id
           /\ marked[i].sample_file_bytes = R[i].sample_file_bytes
           /\ Growing(marked[i]) = Growing(R[i])
           /\ Uncommitted(marked[i]) = Uncommitted(R[i])
           /\ Deleted(marked[i]) = (Deleted(R[i]) \/ R[i].id \in {Current})
  BY SMTT(30), Ranges, MarkedRecordings
<1> HIDE DEF marked, frames
<1>5. PICK n \in 0..Len(marked) :
        /\ Follows(marked, recents, n)
        /\ \A i \in 1..n : ~StillNeeded(marked[i], frames, ws)
        /\ \A i \in 1..(Len(marked) - n) : recents[i] = marked[i + n]
  BY <1>4, MaybePruneFollows
<1> HIDE DEF recents, ws
<1>6. Follows(R, recents, n)
  <2>1. Follows(R, marked, 0)
    <3>1. \A i \in 1..(Len(R) - 0) : i \in 1..Len(R) /\ i + 0 = i
      BY Ranges
    <3>2. 0 \in 0..Len(R) /\ Len(marked) = Len(R) - 0
      BY Ranges, <1>4
    <3> QED BY <1>4, <3>1, <3>2 DEF Follows
  <2>2. Follows(R, recents, 0 + n)
    BY <2>1, <1>5, Ranges, FollowsTwice
  <2> QED BY <2>2, <1>5
<1>7. R # << >> => n < Len(R)
  <2>1. SUFFICES ASSUME R # << >> PROVE n < Len(R)
    OBVIOUS
  <2>2. recent_frames # << >> /\ Len(R) \in 1..Len(R) /\ Len(R) \in DOMAIN R
    BY <2>1, Ranges DEF Inv, Window
  <2>3. frames \in Seq(Frame) /\ frames # << >> /\ frames[1] = recent_frames[1 + m]
        /\ 1 + m \in DOMAIN recent_frames
    <3>1. /\ m \in 0..Len(recent_frames) /\ m < Len(recent_frames)
          /\ frames \in Seq(Frame) /\ Len(frames) = Len(recent_frames) - m
          /\ \A i \in 1..(Len(recent_frames) - m) : frames[i] = recent_frames[i + m]
      BY <1>2, <2>2 DEF Shortens
    <3>2. recent_frames \in Seq(Frame)
      BY Ranges
    <3> QED BY <3>1, <3>2
  <2>4. frames[1].recording_id <= Top
    BY <2>3 DEF Inv, Window
  <2>5. R[Len(R)].id = Top
    <3>1. R[Len(R)].id = (Top - Len(R)) + Len(R)
      BY <2>2, RecentRanges
    <3> QED BY <3>1, <2>2, Ranges
  <2>6. marked # << >> /\ marked[Len(marked)].id = Top
    BY <2>2, <2>5, <1>4
  <2> QED BY <2>3, <2>4, <2>6, <1>4, <1>5, LastIsKept
<1>8. Len(recents) = Len(R) - n /\ DOMAIN recents = 1..(Len(R) - n)
      /\ recents \in Seq(Recording)
  BY <1>6, Ranges DEF Follows
<1>9. ASSUME NEW i \in 1..Len(recents)
      PROVE  /\ i + n \in 1..Len(R) /\ recents[i] = marked[i + n]
             /\ recents[i].id = R[i + n].id
             /\ recents[i].sample_file_bytes = R[i + n].sample_file_bytes
             /\ Growing(recents[i]) = Growing(R[i + n])
             /\ Uncommitted(recents[i]) = Uncommitted(R[i + n])
             /\ ~Deleted(recents[i]) => ~Deleted(R[i + n]) /\ R[i + n].id # Current
  <2>1. i + n \in 1..Len(R) /\ recents[i] = marked[i + n]
    BY SMTT(30), <1>4, <1>5, <1>8, Ranges
  <2> QED BY <2>1, <1>4
<1>10. Safe(recents, Current + 1)
  <2>1. SUFFICES ASSUME NEW i \in 1..Len(recents), committed <= recents[i].id,
                        recents[i].id < Current + 1, ~Deleted(recents[i])
                 PROVE  ~Growing(recents[i]) /\ Durable(recents[i].id, recents[i].sample_file_bytes)
    BY <1>8 DEF Safe
  <2>2. /\ i + n \in DOMAIN R /\ recents[i].id = R[i + n].id
        /\ recents[i].sample_file_bytes = R[i + n].sample_file_bytes
        /\ Growing(recents[i]) = Growing(R[i + n])
        /\ ~Deleted(R[i + n]) /\ R[i + n].id # Current
    <3>1. DOMAIN R = 1..Len(R)
      BY Ranges
    <3> QED BY <2>1, <1>9, <3>1
  <2>3. R[i + n].id \in Nat
    BY <2>2, RecentRanges
  <2>4. committed <= R[i + n].id /\ R[i + n].id < Current
    <3>1. Current \in Nat
      BY Ranges
    <3> QED BY <2>1, <2>2, <2>3, <3>1
  <2> QED BY <2>2, <2>4 DEF Inv, Working
<1>11. MayChoose(recents, n, frames, m, ws)
  <2>1. /\ ws \in WriterState /\ ws.recording_id = Current + 1
        /\ ws.written = 0 /\ ws.file = FALSE
    BY <1>3, AfterCurrent DEF ws
  <2>2. \A i \in 1..Len(recents) : Uncommitted(recents[i]) = Uncommitted(R[i + n])
    BY <1>9
  <2> QED BY SMTT(30), <1>2, <1>3, <1>6, <1>7, <1>10, <2>1, <2>2, Ranges DEF MayChoose
<1>12. Choose(recents, frames, ws) /\ WorkerUnchanged
  BY DEF PrepAborted, Current, recents, marked, frames, ws
<1>13. Prepared(recents, n, frames, m, ws)
  <2>1. io.op = "Aborted" /\ ws = After(Current) /\ frames = PruneFront(recent_frames, Pos(ws))
    BY DEF PrepAborted, frames, ws
  <2>2. \A i \in 1..Len(recents) :
          Deleted(recents[i]) <=> Deleted(R[i + n]) \/ R[i + n].id = Current
    BY <1>4, <1>9
  <2>3. ASSUME NEW i \in 1..n
        PROVE  /\ \/ Deleted(R[i]) \/ ~Uncommitted(R[i]) \/ R[i].id >= Current
               /\ frames # << >> => R[i].id < frames[1].recording_id
    <3>1. i \in 1..Len(R) /\ i \in DOMAIN R /\ R[i].id \in Nat
      <4>1. i \in 1..Len(R) /\ i \in DOMAIN R
        BY <1>4, Ranges
      <4> QED BY <4>1, RecentRanges
    <3>2. ~StillNeeded(marked[i], frames, ws)
      BY <1>5
    <3>3. /\ marked[i].id = R[i].id /\ (Uncommitted(marked[i]) <=> Uncommitted(R[i]))
          /\ Deleted(marked[i]) => Deleted(R[i]) \/ R[i].id = Current
      BY <1>4, <3>1
    <3>4. ws.recording_id = Current + 1 /\ Current \in Nat
      BY <1>3, AfterCurrent, Ranges DEF ws
    <3>5. frames # << >> => Head(frames) = frames[1] /\ frames[1].recording_id \in Nat
      <4>1. frames \in Seq(Frame)
        BY <1>2 DEF Shortens
      <4>2. frames # << >> => frames[1] \in Frame /\ Head(frames) = frames[1]
        BY <4>1
      <4>3. frames # << >> => frames[1].recording_id \in Ids
        BY <4>2 DEF Frame
      <4>4. Ids \subseteq Nat
        BY Ranges DEF Ids
      <4> QED BY <4>2, <4>3, <4>4
    <3>6. \/ Deleted(R[i]) \/ ~Uncommitted(R[i]) \/ R[i].id >= Current
      BY <3>1, <3>2, <3>3, <3>4 DEF StillNeeded
    <3>7. frames # << >> => R[i].id < frames[1].recording_id
      BY <3>1, <3>2, <3>3, <3>5 DEF StillNeeded
    <3> QED BY <3>6, <3>7
  <2> QED BY <1>11, <2>1, <2>2, <2>3 DEF Prepared
<1> QED BY <1>1, <1>12, <1>13 DEF Prepares

LEMMA PrepPrepares ==
  ASSUME Inv, PrepStart \/ PrepWritten \/ PrepAborted \/ PrepSynced
  PROVE  Prepares
BY PrepStartPrepares, PrepWrittenPrepares, PrepAbortedPrepares, PrepSyncedPrepares

LEMMA PreparesKeepsInv ==
  ASSUME Inv, Prepares
  PROVE  Inv'
<1>1. PICK recents, n, frames, m, ws :
        /\ Prepared(recents, n, frames, m, ws)
        /\ Choose(recents, frames, ws)
        /\ WorkerUnchanged
  BY DEF Prepares
<1>2. MayChoose(recents, n, frames, m, ws) /\ process = "running"
  BY <1>1 DEF Prepared, Prepares
<1> QED BY <1>1, <1>2, ChooseKeepsInv

-----------------------------------------------------------------------------
(* Steps that change sample files only: the worker's I/O and the           *)
(* collectors' unlinks and syncs.                                          *)

FileRecord == [exists : BOOLEAN, pending : BOOLEAN, size : 0..MaxBytes, synced : BOOLEAN]

\* The files a step may spoil: garbage, and the one the worker is busy with.
MaySpoil(ids) ==
  \A id \in ids : id \in garbage \/ (Busy /\ id = Current)

LEMMA FilesKept ==
  ASSUME Inv, NEW ids, MaySpoil(ids),
         \A id \in Ids \ ids : \A size : IsDurable(file[id], size) => IsDurable(file'[id], size),
         UNCHANGED <<recent_recordings, writer_state, committed, flush, row, garbage,
                     cum_recordings>>
  PROVE  /\ CommittedDurable'
         /\ flush'.pc = "Collected" =>
              \A id \in DOMAIN flush'.new :
                committed' <= id /\ id < flush'.cum /\ IsDurable(file'[id], flush'.new[id])
         /\ \A i \in DOMAIN recent_recordings' :
              LET r == recent_recordings'[i]
              IN  committed' <= r.id /\ r.id < Current' /\ ~Deleted(r) =>
                    ~Growing(r) /\ IsDurable(file'[r.id], r.sample_file_bytes)
<1>1. \A id \in garbage : id < committed /\ id \notin DOMAIN row
  BY DEF Inv, Flushing
<1>2. Busy => Current >= cum_recordings
  BY Ranges DEF Inv, Working
<1>3. DOMAIN row \subseteq Ids /\ DOMAIN flush.new \subseteq Ids
  BY DEF Inv, Typed, Rows
<1>4. \A id \in Ids : id \in Nat
  BY Ranges DEF Ids
<1>5. CommittedDurable'
  <2>1. ASSUME NEW id \in DOMAIN row
        PROVE  IsDurable(file'[id], row[id])
    <3>1. IsDurable(file[id], row[id]) /\ id < cum_recordings
      BY DEF Inv, Flushing, CommittedDurable, IsDurable
    <3>2. id \notin ids
      BY <1>1, <1>2, <1>3, <1>4, <3>1, Ranges DEF MaySpoil
    <3> QED BY <1>3, <3>1, <3>2
  <2> QED BY <2>1 DEF CommittedDurable, IsDurable
<1>6. ASSUME flush.pc = "Collected", NEW id \in DOMAIN flush.new
      PROVE  committed <= id /\ id < flush.cum /\ IsDurable(file'[id], flush.new[id])
  <2>1. committed <= id /\ id < flush.cum /\ IsDurable(file[id], flush.new[id])
    BY <1>6 DEF Inv, Flushing, Durable
  <2>2. flush.cum <= Current /\ flush.cum \in Int
    BY <1>6, <2>1, <1>3, <1>4, Ranges DEF Inv, Flushing, Typed, NoId
  <2>3. id \notin ids
    BY <1>1, <1>3, <1>4, <2>1, <2>2, Ranges DEF MaySpoil
  <2> QED BY <1>3, <2>1, <2>3
<1>7. ASSUME NEW i \in DOMAIN recent_recordings,
             committed <= recent_recordings[i].id, recent_recordings[i].id < Current,
             ~Deleted(recent_recordings[i])
      PROVE  /\ ~Growing(recent_recordings[i])
             /\ IsDurable(file'[recent_recordings[i].id], recent_recordings[i].sample_file_bytes)
  <2>1. /\ ~Growing(recent_recordings[i])
        /\ IsDurable(file[recent_recordings[i].id], recent_recordings[i].sample_file_bytes)
    BY <1>7 DEF Inv, Working, Durable
  <2>2. recent_recordings[i].id \in Ids /\ recent_recordings[i].id \in Nat
    BY RecentRanges
  <2>3. recent_recordings[i].id \notin ids
    BY SMTT(30), <1>1, <1>7, <2>2, Ranges DEF MaySpoil
  <2> QED BY <2>1, <2>2, <2>3
<1>8. Current' = Current
  BY DEF Current
<1> QED BY <1>5, <1>6, <1>7, <1>8

\* What an I/O step leaves of the file at hand.
AtHand ==
  /\ Busy
  /\ io.op \in {"Write", "Sync", "SyncDir", "Synced"} =>
       file[Current].exists /\ file[Current].size = writer_state.written
  /\ io.op = "Create" => writer_state.written = 0
  /\ io.op = "Written" =>
       file[Current].exists /\ file[Current].size = writer_state.written + io.n /\ io.n > 0
  /\ io.op \in {"Create", "Write", "Written"} => writer_state.written + io.n <= MaxBytes
  /\ \A id \in Ids : ~file[id].exists => file[id].size = 0
  /\ SyncedIsRecent
  /\ io.op \in {"SyncDir", "Synced"} => file[Current].synced
  /\ io.op = "Synced" => ~file[Current].pending

LEMMA IoKeepsInv ==
  ASSUME Inv, Busy, AtHand',
         io' \in [op : {"Idle"} \cup Outcomes \cup IoSteps, n : 0..MaxBytes],
         file' \in [Ids -> FileRecord],
         UNCHANGED <<streamVars, recording_id, flush, gc, poolVars, dbVars, process>>,
         \A id \in Ids \ {Current} :
           \A size : IsDurable(file[id], size) => IsDurable(file'[id], size)
  PROVE  Inv'
<1>1. MaySpoil({Current})
  BY DEF MaySpoil
<1>2. /\ UNCHANGED <<recent_recordings, writer_state, committed, flush, row, garbage,
                     cum_recordings>>
      /\ Current' = Current /\ Top' = Top
  BY DEF streamVars, dbVars, Current, Top
<1>3. /\ CommittedDurable'
      /\ flush'.pc = "Collected" =>
           \A id \in DOMAIN flush'.new :
             committed' <= id /\ id < flush'.cum /\ IsDurable(file'[id], flush'.new[id])
      /\ \A i \in DOMAIN recent_recordings' :
           LET r == recent_recordings'[i]
           IN  committed' <= r.id /\ r.id < Current' /\ ~Deleted(r) =>
                 ~Growing(r) /\ IsDurable(file'[r.id], r.sample_file_bytes)
  BY <1>1, <1>2, FilesKept
<1>4. Typed'
  BY DEF Inv, Typed, streamVars, byteVars, poolVars, dbVars, FileRecord
<1>5. Window'
  BY DEF Inv, Window, FramesContiguous, streamVars, dbVars, Top
<1>6. Working'
  <2>1. ~writer_state.file /\ Current \in cum_recordings..Top /\ Current <= Top + 1
    BY DEF Inv, Working
  <2>2. FileIffWritten' /\ Busy'
    BY DEF AtHand, FileIffWritten, Busy
  <2>3. /\ Current' < cum_recordings' =>
             \A i \in DOMAIN recent_recordings' : recent_recordings'[i].id >= cum_recordings'
        /\ \A i \in DOMAIN recent_recordings' :
             recent_recordings'[i].id >= committed' => Uncommitted(recent_recordings'[i])
    BY <1>2 DEF Inv, Working
  <2> QED BY <2>1, <2>2, <2>3, <1>2, <1>3 DEF AtHand, Working, Durable
<1>7. Flushing'
  BY <1>2, <1>3
     DEF Inv, Flushing, UnlinkedIsGarbage, Durable, streamVars, poolVars, dbVars
<1>8. Stopped'
  <2>1. process = "running"
    BY BusyIsRunning DEF Busy, Idle
  <2> QED BY <2>1 DEF Stopped
<1> QED BY <1>4, <1>5, <1>6, <1>7, <1>8 DEF Inv

LEMMA FileAtHand ==
  ASSUME Inv, Busy
  PROVE  Current \in Ids /\ file \in [Ids -> FileRecord]
<1>1. Current \in cum_recordings..Top
  BY DEF Inv, Working
<1>2. Current \in Ids
  BY <1>1, Ranges DEF Ids
<1> QED BY <1>2 DEF Inv, Typed, FileRecord

LEMMA WriteBytesKeepsInv ==
  ASSUME Inv, WriteBytes
  PROVE  Inv'
<1>1. Busy /\ io.op \in {"Create", "Write"}
  BY DEF WriteBytes, Busy
<1>2. Current \in Ids /\ file \in [Ids -> FileRecord]
  BY <1>1, FileAtHand
<1>3. PICK n \in 1..io.n :
        /\ file' = [file EXCEPT ![Current] =
                      [exists |-> TRUE,
                       pending |-> @.pending \/ io.op = "Create",
                       size |-> @.size + n, synced |-> FALSE]]
        /\ io' = [op |-> "Written", n |-> n]
  BY DEF WriteBytes
<1>4. /\ writer_state.written + io.n <= MaxBytes
      /\ file[Current].size = writer_state.written
      /\ writer_state' = writer_state /\ Current' = Current
  <2>1. io.op = "Create" => ~file[Current].exists
    BY DEF WriteBytes
  <2> QED BY <1>1, <1>2, <2>1 DEF Inv, Working, WriteBytes, streamVars, Current
<1>5. n \in 1..MaxBytes /\ file[Current].size + n \in 0..MaxBytes
      /\ writer_state.written + n <= MaxBytes
  BY SMTT(30), <1>4, Ranges
<1>6. file' \in [Ids -> FileRecord] /\ io'.n = n /\ io'.op = "Written"
  BY <1>2, <1>3, <1>5 DEF FileRecord
<1>7. AtHand'
  <2>1. /\ file'[Current].exists /\ file'[Current].size = writer_state.written + n
        /\ \A id \in Ids \ {Current} : file'[id] = file[id]
    BY <1>2, <1>3, <1>4
  <2>2. \A id \in Ids : ~file'[id].exists => file'[id].size = 0
    BY <2>1 DEF Inv, Working
  <2> QED BY <1>4, <1>5, <1>6, <2>1, <2>2 DEF AtHand, Busy, SyncedIsRecent
<1>8. \A id \in Ids \ {Current} : file'[id] = file[id]
  BY <1>2, <1>3
<1>9. io' \in [op : {"Idle"} \cup Outcomes \cup IoSteps, n : 0..MaxBytes]
  BY <1>3, <1>5 DEF Outcomes
<1>10. UNCHANGED <<streamVars, recording_id, flush, gc, poolVars, dbVars, process>>
  BY DEF WriteBytes
<1> QED BY <1>1, <1>6, <1>7, <1>8, <1>9, <1>10, IoKeepsInv

LEMMA AbortedKeepsInv ==
  ASSUME Inv, Busy, io' = [op |-> "Aborted", n |-> 0],
         NEW f \in {file[Current], Unlinked, Opened(file[Current])},
         file' = [file EXCEPT ![Current] = f],
         UNCHANGED <<streamVars, recording_id, flush, gc, poolVars, dbVars, process>>
  PROVE  Inv'
<1>1. Current \in Ids /\ file \in [Ids -> FileRecord]
  BY FileAtHand
<1>2. Unlinked \in FileRecord
  <2>1. 0 \in 0..MaxBytes
    BY Ranges
  <2>2. NoFile \in FileRecord
    BY <2>1 DEF NoFile, FileRecord
  <2> QED BY <2>2 DEF Unlinked, FileRecord
<1>2a. Opened(file[Current]) \in FileRecord
  BY <1>1 DEF Opened, FileRecord
<1>3. file' \in [Ids -> FileRecord] /\ \A id \in Ids \ {Current} : file'[id] = file[id]
  BY <1>1, <1>2, <1>2a
<1>4. \A id \in Ids : ~file'[id].exists => file'[id].size = 0
  <2>1. \A id \in Ids : ~file[id].exists => file[id].size = 0
    BY DEF Inv, Working
  <2>2. Unlinked.size = 0
    BY DEF Unlinked, NoFile
  <2>3. Opened(file[Current]).exists \/ Opened(file[Current]) = file[Current]
    BY <1>1 DEF Opened, FileRecord
  <2> QED BY <1>1, <1>3, <2>1, <2>2, <2>3
<1>5. AtHand'
  BY <1>4 DEF AtHand, Busy, SyncedIsRecent
<1>6. io' \in [op : {"Idle"} \cup Outcomes \cup IoSteps, n : 0..MaxBytes]
  BY Ranges DEF Outcomes
<1> QED BY <1>3, <1>5, <1>6, IoKeepsInv

LEMMA SyncFileKeepsInv ==
  ASSUME Inv, SyncFile
  PROVE  Inv'
<1>1. Busy /\ io.op = "Sync"
  BY DEF SyncFile, Busy
<1>2. Current \in Ids /\ file \in [Ids -> FileRecord]
  BY <1>1, FileAtHand
<1>3. /\ file' = [file EXCEPT ![Current].synced = TRUE]
      /\ io' = [op |-> "SyncDir", n |-> 0]
      /\ UNCHANGED <<streamVars, recording_id, flush, gc, poolVars, dbVars, process>>
  BY DEF SyncFile
<1>4. file' \in [Ids -> FileRecord] /\ \A id \in Ids \ {Current} : file'[id] = file[id]
  BY <1>2, <1>3 DEF FileRecord
<1>5. /\ file'[Current].exists = file[Current].exists /\ file'[Current].size = file[Current].size
      /\ file'[Current].synced
  BY <1>2, <1>3 DEF FileRecord
<1>6. \A id \in Ids : ~file'[id].exists => file'[id].size = 0
  BY <1>4, <1>5 DEF Inv, Working
<1>7. AtHand'
  <2>1. SyncedIsRecent' /\ writer_state' = writer_state /\ Current' = Current
    BY <1>1, <1>3 DEF Inv, Working, SyncedIsRecent, streamVars, Current
  <2>2. file[Current].exists /\ file[Current].size = writer_state.written
    BY <1>1 DEF Inv, Working
  <2> QED BY <1>3, <1>5, <1>6, <2>1, <2>2 DEF AtHand, Busy
<1>8. io' \in [op : {"Idle"} \cup Outcomes \cup IoSteps, n : 0..MaxBytes]
  BY <1>3, Ranges DEF IoSteps
<1> QED BY <1>1, <1>3, <1>4, <1>7, <1>8, IoKeepsInv

\* Syncing the directory changes what is pending only.
LEMMA SyncedDirectory ==
  ASSUME file \in [Ids -> FileRecord]
  PROVE  /\ DirSynced \in [Ids -> FileRecord]
         /\ \A id \in Ids : /\ DirSynced[id].exists = file[id].exists
                            /\ DirSynced[id].size = file[id].size
                            /\ DirSynced[id].synced = file[id].synced
                            /\ DirSynced[id].pending = FALSE
                            /\ \A size : IsDurable(file[id], size) => IsDurable(DirSynced[id], size)
<1>1. ASSUME NEW id \in Ids
      PROVE  /\ DirSynced[id] = [file[id] EXCEPT !.pending = FALSE]
             /\ file[id] \in FileRecord
  BY DEF DirSynced
<1>2. ASSUME NEW f \in FileRecord, NEW g, g = [f EXCEPT !.pending = FALSE]
      PROVE  /\ g \in FileRecord /\ g.exists = f.exists /\ g.size = f.size
             /\ g.synced = f.synced /\ g.pending = FALSE
             /\ \A size : IsDurable(f, size) => IsDurable(g, size)
  <2>1. /\ g \in FileRecord /\ g.exists = f.exists /\ g.size = f.size
        /\ g.synced = f.synced /\ g.pending = FALSE
    BY <1>2 DEF FileRecord
  <2>2. ASSUME NEW size, IsDurable(f, size) PROVE IsDurable(g, size)
    BY <2>1, <2>2 DEF FileRecord, IsDurable
  <2> QED BY <2>1, <2>2
<1>3. DirSynced = [id \in Ids |-> DirSynced[id]]
  BY DEF DirSynced
<1>4. DirSynced \in [Ids -> FileRecord]
  <2>1. \A id \in Ids : DirSynced[id] \in FileRecord
    BY <1>1, <1>2
  <2> QED BY <1>3, <2>1
<1>5. ASSUME NEW id \in Ids
      PROVE  /\ DirSynced[id].exists = file[id].exists
             /\ DirSynced[id].size = file[id].size
             /\ DirSynced[id].synced = file[id].synced
             /\ DirSynced[id].pending = FALSE
             /\ \A size : IsDurable(file[id], size) => IsDurable(DirSynced[id], size)
  BY ZenonT(30), <1>1, <1>2
<1> QED BY <1>4, <1>5

LEMMA SyncDirKeepsInv ==
  ASSUME Inv, SyncDir
  PROVE  Inv'
<1>1. Busy /\ io.op = "SyncDir"
  BY DEF SyncDir, Busy
<1>2. Current \in Ids /\ file \in [Ids -> FileRecord]
  BY <1>1, FileAtHand
<1>3. /\ file' = DirSynced
      /\ io' = [op |-> "Synced", n |-> 0]
      /\ UNCHANGED <<streamVars, recording_id, flush, gc, poolVars, dbVars, process>>
  BY DEF SyncDir
<1>4. /\ file' \in [Ids -> FileRecord]
      /\ \A id \in Ids : /\ file'[id].exists = file[id].exists
                         /\ file'[id].size = file[id].size
                         /\ file'[id].synced = file[id].synced
                         /\ file'[id].pending = FALSE
                         /\ \A size : IsDurable(file[id], size) => IsDurable(file'[id], size)
  BY <1>2, <1>3, SyncedDirectory
<1>5. \A id \in Ids : ~file'[id].exists => file'[id].size = 0
  BY <1>4 DEF Inv, Working
<1>6. AtHand'
  <2>1. SyncedIsRecent' /\ writer_state' = writer_state /\ Current' = Current
    BY <1>1, <1>3 DEF Inv, Working, SyncedIsRecent, streamVars, Current
  <2>2. file[Current].exists /\ file[Current].size = writer_state.written /\ file[Current].synced
    BY <1>1 DEF Inv, Working
  <2> QED BY <1>2, <1>3, <1>4, <1>5, <2>1, <2>2 DEF AtHand, Busy
<1>7. io' \in [op : {"Idle"} \cup Outcomes \cup IoSteps, n : 0..MaxBytes]
  BY <1>3, Ranges DEF Outcomes
<1> QED BY <1>1, <1>3, <1>4, <1>6, <1>7, IoKeepsInv

LEMMA WorkerKeepsInv ==
  ASSUME Inv, Worker
  PROVE  Inv'
<1>1. CASE CreateFails
  <2>1. Busy /\ io' = [op |-> "Aborted", n |-> 0] /\ file' = file
        /\ UNCHANGED <<streamVars, recording_id, flush, gc, poolVars, dbVars, process>>
    BY <1>1 DEF CreateFails, Busy
  <2>2. file' = [file EXCEPT ![Current] = file[Current]]
    BY <2>1, FileAtHand
  <2> QED BY <2>1, <2>2, AbortedKeepsInv
<1>2. ASSUME NEW unlinked \in BOOLEAN, AbortFile(unlinked), Busy
      PROVE  Inv'
  <2> DEFINE f == IF unlinked THEN Unlinked ELSE Opened(file[Current])
  <2>1. /\ io' = [op |-> "Aborted", n |-> 0]
        /\ file' = [file EXCEPT ![Current] = f]
        /\ UNCHANGED <<streamVars, recording_id, flush, gc, poolVars, dbVars, process>>
    BY <1>2 DEF AbortFile
  <2>2. f \in {file[Current], Unlinked, Opened(file[Current])}
    OBVIOUS
  <2> HIDE DEF f
  <2> QED BY <2>1, <2>2, <1>2, AbortedKeepsInv
<1>3. CASE Abort
  BY <1>2, <1>3 DEF Abort, Busy
<1>4. CASE FileIoFails
  BY <1>2, <1>4 DEF FileIoFails, Busy
<1> QED BY <1>1, <1>3, <1>4, PrepPrepares, PreparesKeepsInv, WriteBytesKeepsInv,
           SyncFileKeepsInv, SyncDirKeepsInv DEF Worker

\* Steps on garbage alone: the worker and the stream are left as they are.
LEMMA GarbageStepKeepsInv ==
  ASSUME Inv, process = "running",
         NEW ids, ids \subseteq garbage,
         file' \in [Ids -> FileRecord],
         \A id \in Ids \ ids :
           /\ file'[id].exists = file[id].exists /\ file'[id].size = file[id].size
           /\ file'[id].synced = file[id].synced
           /\ file'[id].pending => file[id].pending
           /\ \A size : IsDurable(file[id], size) => IsDurable(file'[id], size),
         \A id \in ids : ~file'[id].exists => file'[id].size = 0,
         gc' \in [Collectors -> SUBSET Ids],
         garbage_needs_unlink' \subseteq garbage_needs_unlink,
         garbage_unlinked \subseteq garbage_unlinked',
         garbage_unlinked' \subseteq
           garbage_unlinked \cup (garbage_needs_unlink \ garbage_needs_unlink'),
         UNCHANGED <<streamVars, recording_id, io, flush, dbVars, process>>
  PROVE  Inv'
<1>1. MaySpoil(ids)
  BY DEF MaySpoil
<1>2. /\ UNCHANGED <<recent_recordings, writer_state, committed, flush, row, garbage,
                     cum_recordings>>
      /\ Current' = Current /\ Top' = Top /\ Busy' = Busy
  BY DEF streamVars, dbVars, Current, Top, Busy
<1>3. /\ CommittedDurable'
      /\ flush'.pc = "Collected" =>
           \A id \in DOMAIN flush'.new :
             committed' <= id /\ id < flush'.cum /\ IsDurable(file'[id], flush'.new[id])
      /\ \A i \in DOMAIN recent_recordings' :
           LET r == recent_recordings'[i]
           IN  committed' <= r.id /\ r.id < Current' /\ ~Deleted(r) =>
                 ~Growing(r) /\ IsDurable(file'[r.id], r.sample_file_bytes)
  BY <1>1, <1>2, FilesKept
<1>4. Typed'
  BY DEF Inv, Typed, streamVars, byteVars, dbVars, FileRecord
<1>5. Window'
  BY DEF Inv, Window, FramesContiguous, streamVars, dbVars, Top
\* The worker's file is not garbage.
<1>6. Busy \/ writer_state.file => Current \in Ids \ ids
  <2>1. SUFFICES ASSUME Busy \/ writer_state.file PROVE Current \in Ids \ ids
    OBVIOUS
  <2>2. Current \in cum_recordings..Top
    BY <2>1 DEF Inv, Working
  <2>3. Current \in Ids
    BY <2>2, Ranges DEF Ids
  <2>4. \A id \in garbage : id < committed /\ id \in Int
    BY Ranges DEF Inv, Flushing, Typed, Ids
  <2> QED BY <2>2, <2>3, <2>4, Ranges
<1>7. Working'
  <2>1. /\ FileIffWritten' /\ (Busy' => ~writer_state'.file) /\ Current' <= Top' + 1
        /\ SyncedIsRecent' /\ io' = io /\ writer_state' = writer_state
        /\ (Busy' \/ writer_state'.file => Current' \in cum_recordings'..Top')
    BY <1>2 DEF Inv, Working, FileIffWritten, SyncedIsRecent, streamVars
  <2>2. /\ Current' < cum_recordings' =>
             \A i \in DOMAIN recent_recordings' : recent_recordings'[i].id >= cum_recordings'
        /\ \A i \in DOMAIN recent_recordings' :
             recent_recordings'[i].id >= committed' => Uncommitted(recent_recordings'[i])
    BY <1>2 DEF Inv, Working
  <2>3. \A id \in Ids : ~file'[id].exists => file'[id].size = 0
    BY DEF Inv, Working
  <2>4. /\ (Busy \/ writer_state.file) =>
             /\ file'[Current].exists = file[Current].exists
             /\ file'[Current].size = file[Current].size
             /\ file'[Current].synced = file[Current].synced
             /\ file'[Current].pending => file[Current].pending
        /\ io.op \notin {"Idle", "Start"} <=> Busy
    BY <1>6 DEF Busy
  <2>5. /\ writer_state.file \/ io.op \in {"Write", "Sync", "SyncDir", "Synced"} =>
             file'[Current].exists /\ file'[Current].size = writer_state.written
        /\ io.op = "Create" => writer_state.written = 0
        /\ io.op = "Written" => /\ file'[Current].exists
                                /\ file'[Current].size = writer_state.written + io.n
                                /\ io.n > 0
        /\ io.op \in {"Create", "Write", "Written"} => writer_state.written + io.n <= MaxBytes
        /\ io.op \in {"SyncDir", "Synced"} => file'[Current].synced
        /\ io.op = "Synced" => ~file'[Current].pending
    BY <2>4 DEF Inv, Working
  <2> QED BY <1>2, <1>3, <2>1, <2>2, <2>3, <2>5 DEF Working, Durable
<1>8. Flushing'
  <2>1. /\ garbage_needs_unlink' \subseteq garbage' \ garbage_unlinked'
        /\ garbage_unlinked' \ flush'.gced \subseteq garbage'
        /\ UnlinkedIsGarbage'
        /\ flush'.pc = "Committed" =>
             to_delete' \cap (garbage_needs_unlink' \cup garbage_unlinked') = {}
    BY <1>2 DEF Inv, Flushing, UnlinkedIsGarbage, streamVars
  <2> QED BY <1>2, <1>3, <2>1 DEF Inv, Flushing, Durable, streamVars, dbVars
<1>9. Stopped'
  BY DEF Stopped
<1> QED BY <1>4, <1>5, <1>7, <1>8, <1>9 DEF Inv

LEMMA CollectKeepsInv ==
  ASSUME Inv, Collect
  PROVE  Inv'
<1>1. /\ file \in [Ids -> FileRecord] /\ gc \in [Collectors -> SUBSET Ids]
      /\ garbage_needs_unlink \subseteq garbage /\ garbage \subseteq Ids
  BY DEF Inv, Typed, Flushing, FileRecord
<1>2. ASSUME NEW c \in Collectors, gc[c] # {}
      PROVE  process = "running"
  BY <1>2 DEF Inv, Stopped
<1>3. ASSUME NEW c \in Collectors, GcUnlink(c)
      PROVE  Inv'
  <2>1. PICK ids \in SUBSET garbage_needs_unlink :
          /\ gc' = [gc EXCEPT ![c] = ids]
          /\ file' = [id \in Ids |->
                        IF id \in ids /\ file[id].exists THEN Unlinked ELSE file[id]]
    BY <1>3 DEF GcUnlink
  <2>2. /\ process = "running"
        /\ UNCHANGED <<streamVars, recording_id, io, flush, poolVars, dbVars, process>>
    BY <1>3 DEF GcUnlink
  <2>3. Unlinked \in FileRecord /\ Unlinked.size = 0
    <3>1. NoFile \in FileRecord
      BY Ranges DEF NoFile, FileRecord
    <3> QED BY <3>1 DEF Unlinked, NoFile, FileRecord
  <2>4. file' \in [Ids -> FileRecord]
    BY <1>1, <2>1, <2>3
  <2>5. \A id \in Ids \ ids : file'[id] = file[id]
    BY <2>1
  <2>6. \A id \in ids : ~file'[id].exists => file'[id].size = 0
    BY <1>1, <2>1, <2>3 DEF Inv, Working
  <2>7. gc' \in [Collectors -> SUBSET Ids] /\ ids \subseteq garbage
    BY <1>1, <2>1
  <2>8. UNCHANGED <<garbage_needs_unlink, garbage_unlinked>>
    BY <2>2 DEF poolVars
  <2> QED BY <2>2, <2>4, <2>5, <2>6, <2>7, <2>8, GarbageStepKeepsInv
<1>4. ASSUME NEW c \in Collectors, GcSync(c)
      PROVE  Inv'
  <2>1. /\ file' = DirSynced
        /\ garbage_unlinked' = garbage_unlinked \cup (gc[c] \cap garbage_needs_unlink)
        /\ garbage_needs_unlink' = garbage_needs_unlink \ gc[c]
        /\ gc' = [gc EXCEPT ![c] = {}]
        /\ UNCHANGED <<streamVars, recording_id, io, flush, dbVars, process>>
        /\ process = "running"
    BY <1>2, <1>4 DEF GcSync
  <2>2. /\ file' \in [Ids -> FileRecord]
        /\ \A id \in Ids :
             /\ file'[id].exists = file[id].exists /\ file'[id].size = file[id].size
             /\ file'[id].synced = file[id].synced
             /\ file'[id].pending => file[id].pending
             /\ \A size : IsDurable(file[id], size) => IsDurable(file'[id], size)
    BY <1>1, <2>1, SyncedDirectory
  <2>3. gc' \in [Collectors -> SUBSET Ids]
    BY <1>1, <2>1
  <2>4. /\ garbage_needs_unlink' \subseteq garbage_needs_unlink
        /\ garbage_unlinked \subseteq garbage_unlinked'
        /\ garbage_unlinked' \subseteq
             garbage_unlinked \cup (garbage_needs_unlink \ garbage_needs_unlink')
    BY <2>1
  <2> DEFINE none == {}
  <2>5. none \subseteq garbage /\ \A id \in none : ~file'[id].exists => file'[id].size = 0
    OBVIOUS
  <2>6. \A id \in Ids \ none :
             /\ file'[id].exists = file[id].exists /\ file'[id].size = file[id].size
             /\ file'[id].synced = file[id].synced
             /\ file'[id].pending => file[id].pending
             /\ \A size : IsDurable(file[id], size) => IsDurable(file'[id], size)
    BY <2>2
  <2> HIDE DEF none
  <2> QED BY <2>1, <2>2, <2>3, <2>4, <2>5, <2>6, GarbageStepKeepsInv
<1>5. ASSUME NEW c \in Collectors, GcSyncFails(c)
      PROVE  Inv'
  <2>1. /\ gc' = [gc EXCEPT ![c] = {}]
        /\ UNCHANGED <<streamVars, recording_id, io, flush, poolVars, file, dbVars, process>>
        /\ process = "running"
    BY <1>2, <1>5 DEF GcSyncFails
  <2>2. gc' \in [Collectors -> SUBSET Ids]
    BY <1>1, <2>1
  <2>3. UNCHANGED <<garbage_needs_unlink, garbage_unlinked, file>>
    BY <2>1 DEF poolVars
  <2> QED BY <1>1, <2>1, <2>2, <2>3, GarbageStepKeepsInv
<1> QED BY <1>3, <1>4, <1>5 DEF Collect

-----------------------------------------------------------------------------
(* Steps under the database lock.                                          *)

LEMMA EnqueuedAreRows ==
  ASSUME NEW ready, EnqueueDelete(ready)
  PROVE  to_delete' \subseteq to_delete \cup DOMAIN row
BY DEF EnqueueDelete, DeleteOldest, Oldest

\* Steps that leave the stream's window, the worker and the files alone.
LEMMA QuietStep ==
  ASSUME Inv, cum_recordings' \in Int,
         UNCHANGED <<recent_recordings, recent_frames, complete, writer_state, recording_id,
                     io, file, committed>>,
         cum_recordings <= cum_recordings',
         cum_recordings' = cum_recordings \/ cum_recordings' <= Current
  PROVE  /\ cum_recordings' <= complete => Window'
         /\ cum_recordings' <= Current \/ cum_recordings' = cum_recordings => Working'
<1>1. Current' = Current /\ Top' = Top /\ Busy' = Busy
  BY DEF Current, Top, Busy
<1>2. cum_recordings' <= complete => Window'
  BY <1>1 DEF Inv, Window, FramesContiguous
<1>3. /\ SyncedIsRecent' /\ FileIffWritten'
      /\ \A id, size : Durable(id, size)' = Durable(id, size)
  BY DEF Inv, Working, SyncedIsRecent, FileIffWritten, Durable
<1>4. Current' < cum_recordings' =>
        \A i \in DOMAIN recent_recordings' : recent_recordings'[i].id >= cum_recordings'
  <2>1. Current' < cum_recordings' => cum_recordings' = cum_recordings
    <3>1. CASE cum_recordings' = cum_recordings
      BY <3>1
    <3>2. CASE cum_recordings' <= Current
      <4>1. Current \in Int
        BY Ranges
      <4> QED BY <3>2, <4>1, <1>1
    <3> QED BY <3>1, <3>2
  <2>2. Current < cum_recordings =>
          \A i \in DOMAIN recent_recordings : recent_recordings[i].id >= cum_recordings
    BY DEF Inv, Working
  <2> QED BY <1>1, <2>1, <2>2
<1>5. (Busy' \/ writer_state'.file) => Current' \in cum_recordings'..Top'
  BY <1>1, Ranges DEF Inv, Working
<1>6. Working'
  BY <1>1, <1>3, <1>4, <1>5 DEF Inv, Working
<1> QED BY <1>2, <1>6

LEMMA HandleNotifyKeepsInv ==
  ASSUME Inv, HandleNotify
  PROVE  Inv'
<1>1. /\ process = "running" /\ flush.pc = "Idle"
      /\ flush_ready' = Current
      /\ UNCHANGED <<recent_recordings, recent_frames, complete, committed,
                 writer_state, threadVars, poolVars, file, dbVars, process>>
      /\ to_delete' \subseteq to_delete \cup DOMAIN row
  <2>1. \/ EnqueueDelete(flush_ready')
        \/ UNCHANGED to_delete
    BY DEF HandleNotify, EnqueueFails
  <2>2. to_delete' \subseteq to_delete \cup DOMAIN row
    BY <2>1, EnqueuedAreRows
  <2> QED BY <2>2 DEF HandleNotify, DbUnlocked, Current
<1>2. to_delete' \subseteq DOMAIN row /\ DOMAIN row \subseteq Ids
  BY <1>1 DEF Inv, Typed, Flushing, Rows
<1>3. Window' /\ Working'
  BY <1>1, Ranges, QuietStep DEF threadVars, dbVars, Inv, Window
<1>4. Typed'
  BY <1>1, <1>2, Ranges DEF Inv, Typed, threadVars, poolVars, dbVars
<1>5. Flushing'
  <2>1. Current' = Current
    BY <1>1 DEF Current
  <2>2. flush_ready' <= Current'
    BY <1>1, <2>1, Ranges
  <2>3. UNCHANGED <<row, garbage, committed, cum_recordings, file, flush,
                    garbage_needs_unlink, garbage_unlinked, process>>
    BY <1>1 DEF threadVars, poolVars, dbVars
  <2> QED BY <1>1, <1>2, <2>1, <2>2, <2>3
       DEF Inv, Flushing, UnlinkedIsGarbage, CommittedDurable, Durable
<1>6. Stopped'
  BY <1>1 DEF Stopped
<1> QED BY <1>3, <1>4, <1>5, <1>6 DEF Inv

\* What a flush may insert is durable, and its ids lie before the worker's.
LEMMA ReadyIsDurable ==
  ASSUME Inv, NEW r \in Ready
  PROVE  /\ r.id \in Ids /\ r.id \in Nat
         /\ committed <= r.id /\ r.id < flush_ready /\ flush_ready <= Current
         /\ r.id < complete
         /\ r.sample_file_bytes \in 1..MaxBytes
         /\ Durable(r.id, r.sample_file_bytes)
<1>1. PICK i \in DOMAIN recent_recordings : r = recent_recordings[i]
  BY DEF Ready, ToSet
<1>2. /\ r.id \in Ids /\ r.id \in Nat /\ r.sample_file_bytes \in 1..MaxBytes
  BY <1>1, RecentRanges
<1>3. flush_ready \in Nat
  BY Ranges DEF Inv, Typed
<1>4. committed <= r.id /\ r.id < flush_ready /\ ~Deleted(r)
  BY <1>2, <1>3, Ranges DEF Ready
<1>5. flush_ready <= Current
  BY <1>2, <1>3, <1>4, Ranges DEF Inv, Flushing
<1>6. ~Growing(r) /\ Durable(r.id, r.sample_file_bytes)
  BY <1>1, <1>2, <1>3, <1>4, <1>5, Ranges DEF Inv, Working
<1>7. r.id < complete
  <2>1. SUFFICES ASSUME recording_id # NoId, r.id = complete PROVE FALSE
    BY SMTT(30), <1>1, RecentRanges, Ranges DEF Top
  <2>2. /\ Top = complete /\ Growing(recent_recordings[Len(recent_recordings)])
        /\ recent_recordings # << >>
    BY <2>1 DEF Top, Inv, Window
  <2>3. r.id = (Top - Len(recent_recordings)) + i /\ i \in 1..Len(recent_recordings)
    BY <1>1, RecentRanges
  <2>4. i = Len(recent_recordings)
    BY SMTT(30), <2>1, <2>2, <2>3, Ranges
  <2> QED BY <1>1, <1>6, <2>2, <2>4
<1> QED BY <1>2, <1>4, <1>5, <1>6, <1>7

LEMMA FlushCollectKeepsInv ==
  ASSUME Inv, FlushCollect
  PROVE  Inv'
<1> DEFINE ids == {r.id : r \in Ready}
           size(id) == (CHOOSE r \in Ready : r.id = id).sample_file_bytes
           new == [id \in ids |-> size(id)]
           cum == IF Ready = {} THEN NoId ELSE Max(ids) + 1
<1>1. /\ process = "running" /\ flush.pc = "Idle"
      /\ flush' = [pc |-> "Collected", new |-> new, cum |-> cum,
                   deletion |-> to_delete, gced |-> {}]
      /\ UNCHANGED <<streamVars, recording_id, io, gc, poolVars, file, dbVars, process>>
  BY DEF FlushCollect, DbUnlocked
<1>2. ASSUME NEW id \in ids
      PROVE  /\ id \in Ids /\ id \in Nat /\ committed <= id
             /\ id < flush_ready /\ flush_ready <= Current /\ id < complete
             /\ size(id) \in 1..MaxBytes /\ Durable(id, size(id))
  <2>1. \E r \in Ready : r.id = id
    OBVIOUS
  <2>2. (CHOOSE r \in Ready : r.id = id) \in Ready /\ (CHOOSE r \in Ready : r.id = id).id = id
    BY <2>1
  <2> QED BY <2>2, ReadyIsDurable
<1> HIDE DEF size
<1>3. new \in Rows
  <2>1. ids \in SUBSET Ids /\ new \in [ids -> 1..MaxBytes]
    BY <1>2
  <2> QED BY <2>1 DEF Rows
<1>4. /\ cum \in {NoId} \cup 0..MaxRecordings
      /\ \A id \in ids : id < cum
      /\ cum # NoId => committed < cum /\ cum <= Current /\ cum <= complete
  <2>1. CASE Ready = {}
    BY <2>1
  <2>2. CASE Ready # {}
    <3>1. ids # {} /\ ids \subseteq 0..MaxRecordings
      <4>1. ids # {}
        BY <2>2
      <4>2. \A id \in Ids : id \in 0..MaxRecordings
        BY Ranges DEF Ids
      <4> QED BY <1>2, <4>1, <4>2
    <3>2. Max(ids) \in ids /\ \A id \in ids : id <= Max(ids)
      BY <3>1, Ranges, MaxIsGreatest
    <3>3. /\ Max(ids) \in Nat /\ committed <= Max(ids) /\ Max(ids) < flush_ready
          /\ Max(ids) < complete
          /\ flush_ready <= Current
      BY <3>2, <1>2
    <3>4. flush_ready \in Nat
      BY Ranges DEF Inv, Typed
    <3>5. cum = Max(ids) + 1
      BY <2>2
    <3>6. \A id \in ids : id \in Nat
      BY <1>2
    <3> HIDE DEF ids, cum
    <3> QED BY SMTT(30), <3>2, <3>3, <3>4, <3>5, <3>6, Ranges
  <2> QED BY <2>1, <2>2
<1> HIDE DEF cum
<1>5. Typed'
  <2>1. to_delete \in SUBSET Ids
    BY DEF Inv, Typed
  <2>2. flush' \in [pc : {"Idle", "Collected", "Committed"}, new : Rows,
                    cum : {NoId} \cup 0..MaxRecordings, deletion : SUBSET Ids,
                    gced : SUBSET Ids]
    BY <1>1, <1>3, <1>4, <2>1
  <2> QED BY <1>1, <2>2 DEF Inv, Typed, streamVars, byteVars, poolVars, dbVars
<1>6. Window' /\ Working'
  BY <1>1, Ranges, QuietStep DEF streamVars, dbVars, Inv, Window
<1>7. Flushing'
  <2>1. Current' = Current
    BY <1>1 DEF Current, streamVars
  <2>2. \A id \in DOMAIN flush'.new :
          committed <= id /\ id < flush'.cum /\ Durable(id, flush'.new[id])
    BY <1>1, <1>2, <1>4
  <2>3. UnlinkedIsGarbage' /\ garbage_unlinked' \ flush'.gced \subseteq garbage'
    BY <1>1 DEF Inv, Flushing, UnlinkedIsGarbage, poolVars, dbVars
  <2>4. /\ flush'.pc = "Collected" /\ flush'.cum = cum /\ flush'.deletion = to_delete
    BY <1>1
  <2>5. UNCHANGED <<row, garbage, committed, cum_recordings, to_delete, file, complete,
                    garbage_needs_unlink, garbage_unlinked, flush_ready, process>>
    BY <1>1 DEF streamVars, poolVars, dbVars
  <2>6. cum_recordings = committed /\ to_delete \subseteq DOMAIN row
    BY <1>1 DEF Inv, Flushing
  <2> QED BY <1>1, <1>4, <2>1, <2>2, <2>3, <2>4, <2>5, <2>6
       DEF Inv, Flushing, CommittedDurable, Durable
<1>8. Stopped'
  BY <1>1 DEF Stopped
<1> QED BY <1>5, <1>6, <1>7, <1>8 DEF Inv

\* What is turned into garbage was committed by an earlier flush.
LEMMA DeletedWereRows ==
  ASSUME Inv, flush.pc = "Collected"
  PROVE  /\ DeletionRange \subseteq DOMAIN row
         /\ flush.deletion \subseteq DeletionRange
         /\ \A id \in DeletionRange : id < committed
<1>1. /\ flush.deletion \subseteq DOMAIN row /\ DOMAIN row \subseteq Ids
      /\ DOMAIN flush.new \subseteq Ids
      /\ \A id \in DOMAIN row : id < committed
      /\ \A id \in DOMAIN flush.new : committed <= id
  BY DEF Inv, Typed, Flushing, Rows
<1>2. CASE flush.deletion = {}
  BY <1>2 DEF DeletionRange
<1>3. CASE flush.deletion # {}
  <2>1. flush.deletion \subseteq 0..MaxRecordings
    BY <1>1, Ranges DEF Ids
  <2>2. /\ Max(flush.deletion) \in flush.deletion
        /\ \A id \in flush.deletion : id <= Max(flush.deletion)
    BY <1>3, <2>1, Ranges, MaxIsGreatest
  <2>3. Max(flush.deletion) < committed /\ Max(flush.deletion) \in Nat
    BY <1>1, <2>1, <2>2
  <2>4. DeletionRange = {id \in DOMAIN row \cup DOMAIN flush.new : id <= Max(flush.deletion)}
    BY <1>3 DEF DeletionRange
  <2>5. \A id \in Ids : id \in Nat
    BY Ranges DEF Ids
  <2>6. \A id \in DeletionRange : id \in Nat /\ id < committed
    BY <1>1, <2>3, <2>4, <2>5, Ranges
  <2>7. DeletionRange \subseteq DOMAIN row
    BY <1>1, <2>4, <2>5, <2>6, Ranges
  <2> QED BY <1>1, <2>2, <2>4, <2>6, <2>7
<1> QED BY <1>2, <1>3

LEMMA FlushFailsKeepsInv ==
  ASSUME Inv, FlushFails
  PROVE  Inv'
<1>1. /\ flush.pc = "Collected" /\ flush' = NoFlush
      /\ UNCHANGED <<streamVars, recording_id, io, gc, poolVars, file, dbVars, process>>
  BY DEF FlushFails
<1>2. Window' /\ Working'
  BY <1>1, Ranges, QuietStep DEF streamVars, dbVars, Inv, Window
<1>3. Typed'
  <2>1. << >> \in Rows
    <3>1. << >> \in [{} -> 1..MaxBytes]
      OBVIOUS
    <3> QED BY <3>1 DEF Rows
  <2> QED BY <1>1, <2>1 DEF Inv, Typed, NoFlush, streamVars, byteVars, poolVars, dbVars
<1>4. Flushing'
  <2>1. Current' = Current
    BY <1>1 DEF Current, streamVars
  <2>2. UNCHANGED <<row, garbage, committed, cum_recordings, to_delete, file,
                    garbage_needs_unlink, garbage_unlinked, flush_ready, process>>
    BY <1>1 DEF streamVars, poolVars, dbVars
  <2>3. /\ flush'.pc = "Idle" /\ flush'.cum = NoId /\ flush'.gced = {}
    BY <1>1 DEF NoFlush
  <2> QED BY <1>1, <2>1, <2>2, <2>3
       DEF Inv, Flushing, CommittedDurable, UnlinkedIsGarbage
<1>5. Stopped'
  BY <1>1 DEF Inv, Flushing, Stopped
<1> QED BY <1>2, <1>3, <1>4, <1>5 DEF Inv

LEMMA FlushCommitKeepsInv ==
  ASSUME Inv, FlushCommit
  PROVE  Inv'
<1> DEFINE new == flush.new
           ids == (DOMAIN row \cup DOMAIN new) \ DeletionRange
<1>1. /\ flush.pc = "Collected"
      /\ row' = [id \in ids |-> IF id \in DOMAIN new THEN new[id] ELSE row[id]]
      /\ cum_recordings' = IF flush.cum = NoId THEN cum_recordings ELSE flush.cum
      /\ garbage' = (garbage \cup DeletionRange) \ garbage_unlinked
      /\ flush' = [flush EXCEPT !.pc = "Committed", !.gced = garbage_unlinked]
      /\ UNCHANGED <<streamVars, recording_id, io, gc, poolVars, file, process>>
  BY DEF FlushCommit
<1>2. /\ DeletionRange \subseteq DOMAIN row
      /\ flush.deletion \subseteq DeletionRange
      /\ \A id \in DeletionRange : id < committed
  BY <1>1, DeletedWereRows
<1>3. /\ DOMAIN row \subseteq Ids /\ DOMAIN new \subseteq Ids
      /\ \A id \in DOMAIN row : row[id] \in 1..MaxBytes
      /\ \A id \in DOMAIN new : new[id] \in 1..MaxBytes
      /\ \A id \in Ids : id \in Nat
      /\ garbage \subseteq Ids
  <2>1. row \in Rows /\ new \in Rows /\ garbage \subseteq Ids
    BY DEF Inv, Typed
  <2>2. \A id \in Ids : id \in Nat
    BY Ranges DEF Ids
  <2> QED BY <2>1, <2>2 DEF Rows
<1>4. /\ \A id \in DOMAIN row : id < committed /\ Durable(id, row[id])
      /\ \A id \in DOMAIN new : committed <= id /\ id < flush.cum /\ Durable(id, new[id])
      /\ cum_recordings = committed
      /\ flush.cum # NoId => /\ committed < flush.cum /\ flush.cum <= Current
                             /\ flush.cum <= complete
      /\ flush.cum \in {NoId} \cup 0..MaxRecordings
  BY <1>1 DEF Inv, Typed, Flushing, CommittedDurable, Durable, IsDurable
<1>5. /\ cum_recordings' \in 0..MaxRecordings /\ cum_recordings <= cum_recordings'
      /\ cum_recordings' <= complete
      /\ cum_recordings' = cum_recordings \/ cum_recordings' <= Current
  BY <1>1, <1>4, Ranges DEF NoId, Inv, Window
<1>6. Window' /\ Working'
  <2>1. UNCHANGED <<recent_recordings, recent_frames, complete, writer_state, recording_id,
                     io, file, committed>>
    BY <1>1 DEF streamVars
  <2>2. cum_recordings' \in Int
    BY <1>5, Ranges
  <2> QED BY <2>1, <2>2, <1>5, QuietStep
<1>7. row' \in Rows
  <2>1. ids \in SUBSET Ids /\ row' \in [ids -> 1..MaxBytes]
    BY <1>1, <1>3
  <2> QED BY <2>1 DEF Rows
<1>8. flush' = [pc |-> "Committed", new |-> flush.new, cum |-> flush.cum,
                deletion |-> flush.deletion, gced |-> garbage_unlinked]
  BY <1>1 DEF Inv, Typed
<1>9. Typed'
  <2>1. garbage' \in SUBSET Ids
    BY <1>1, <1>2, <1>3 DEF Inv, Typed
  <2> QED BY <1>1, <1>5, <1>7, <1>8, <2>1 DEF Inv, Typed, streamVars, byteVars, poolVars
<1>10. DOMAIN row' = ids
  BY <1>1
<1>11. UNCHANGED <<committed, to_delete, file, garbage_needs_unlink, garbage_unlinked,
                   flush_ready, complete, process>> /\ Current' = Current
  BY <1>1 DEF streamVars, poolVars, Current
<1>12. /\ garbage_unlinked \subseteq garbage
       /\ garbage_needs_unlink \subseteq garbage \ garbage_unlinked
       /\ \A id \in garbage : id < committed /\ id \notin DOMAIN row
       /\ to_delete = flush.deletion
       /\ flush_ready <= Current \/ flush_ready <= committed
       /\ process = "running"
  BY <1>1 DEF Inv, Flushing, UnlinkedIsGarbage
<1>13. \A id \in DOMAIN row' : id < cum_recordings' /\ Durable(id, row'[id])
  <2>1. SUFFICES ASSUME NEW id \in ids
                 PROVE  id < cum_recordings' /\ Durable(id, row'[id])
    BY <1>10
  <2>2. CASE id \in DOMAIN new
    <3>1. id < flush.cum /\ Durable(id, new[id]) /\ row'[id] = new[id]
      BY <1>1, <1>4, <2>2
    <3>2. flush.cum # NoId
      BY <3>1, <1>3, <1>4, <2>2 DEF NoId
    <3> QED BY <1>1, <3>1, <3>2
  <2>3. CASE id \notin DOMAIN new
    <3>1. id \in DOMAIN row /\ row'[id] = row[id] /\ id \in Nat
      BY <1>1, <1>3, <2>3
    <3> QED BY <1>4, <1>5, <3>1, Ranges
  <2> QED BY <2>2, <2>3
<1>14. \A id \in garbage' : id < committed' /\ id \notin DOMAIN row'
  <2>1. SUFFICES ASSUME NEW id \in garbage \cup DeletionRange
                 PROVE  id < committed /\ id \notin ids
    BY <1>1, <1>10, <1>11
  <2>2. id < committed /\ id \in Nat
    <3>1. id \in Ids /\ id < committed
      BY <1>2, <1>3, <1>12
    <3> QED BY <3>1, <1>3
  <2>3. id \notin DOMAIN new
    BY <1>4, <2>2, Ranges
  <2> QED BY <2>2, <2>3, <1>12
<1>15. garbage_needs_unlink' \subseteq garbage' \ garbage_unlinked'
  BY <1>1, <1>11, <1>12
<1>16. to_delete' \subseteq garbage'
  <2>1. DeletionRange \cap garbage_unlinked = {}
    BY <1>2, <1>12
  <2> QED BY <1>1, <1>2, <1>11, <1>12, <2>1
<1>19. to_delete' \cap (garbage_needs_unlink' \cup garbage_unlinked') = {}
  BY <1>2, <1>11, <1>12, <1>1 DEF Inv, Flushing
<1> HIDE DEF new, ids
<1>17. Flushing'
  BY <1>1, <1>4, <1>5, <1>8, <1>11, <1>12, <1>13, <1>14, <1>15, <1>16, <1>19, Ranges
     DEF Flushing, UnlinkedIsGarbage, CommittedDurable, Durable, IsDurable
<1>18. Stopped'
  BY <1>11, <1>12 DEF Stopped
<1> QED BY <1>6, <1>9, <1>17, <1>18 DEF Inv

\* The recordings once flush's third scope has marked them.
Applied ==
  LET end == IF to_delete = {} THEN 0 ELSE Max(to_delete) + 1
      deleted == DeleteUntil(recent_recordings, end)
      new(r) == flush.cum # NoId /\ r.id \in committed..(flush.cum - 1) /\ ~Deleted(r)
  IN  [i \in DOMAIN deleted |->
         IF new(deleted[i]) THEN [deleted[i] EXCEPT !.flags = @ \ {"UNCOMMITTED"}]
                            ELSE deleted[i]]

LEMMA AppliedRecordings ==
  ASSUME Inv
  PROVE  /\ Applied \in Seq(Recording)
         /\ Len(Applied) = Len(recent_recordings)
         /\ \A i \in 1..Len(recent_recordings) :
              LET r == recent_recordings[i]
              IN  /\ Applied[i].id = r.id
                  /\ Applied[i].sample_file_bytes = r.sample_file_bytes
                  /\ Growing(Applied[i]) = Growing(r)
                  /\ Deleted(r) => Deleted(Applied[i])
                  /\ r.id \notin committed..(flush.cum - 1) \/ flush.cum = NoId =>
                       Uncommitted(Applied[i]) = Uncommitted(r)
                  /\ Uncommitted(Applied[i]) => Uncommitted(r)
                  /\ Deleted(Applied[i]) => \/ Deleted(r)
                                            \/ to_delete # {} /\ r.id < Max(to_delete) + 1
                  /\ flush.cum # NoId /\ r.id \in committed..(flush.cum - 1) =>
                       Deleted(Applied[i]) \/ ~Uncommitted(Applied[i])
<1> DEFINE end == IF to_delete = {} THEN 0 ELSE Max(to_delete) + 1
           deleted == DeleteUntil(recent_recordings, end)
           new(r) == flush.cum # NoId /\ r.id \in committed..(flush.cum - 1) /\ ~Deleted(r)
           Mark(r) == IF new(r) THEN [r EXCEPT !.flags = @ \ {"UNCOMMITTED"}] ELSE r
<1>1. /\ deleted \in Seq(Recording) /\ Len(deleted) = Len(recent_recordings)
      /\ \A i \in 1..Len(recent_recordings) :
           /\ deleted[i].id = recent_recordings[i].id
           /\ deleted[i].sample_file_bytes = recent_recordings[i].sample_file_bytes
           /\ Growing(deleted[i]) = Growing(recent_recordings[i])
           /\ Uncommitted(deleted[i]) = Uncommitted(recent_recordings[i])
           /\ Deleted(recent_recordings[i]) => Deleted(deleted[i])
           /\ Deleted(deleted[i]) => \/ Deleted(recent_recordings[i])
                                     \/ to_delete # {} /\ recent_recordings[i].id < Max(to_delete) + 1
  <2> DEFINE ids == {id \in Ids : id < end}
  <2>1. deleted = MarkDeleted(recent_recordings, ids)
    BY DEF DeleteUntil
  <2>2. recent_recordings \in Seq(Recording)
    BY DEF Inv, Typed
  <2>3. \A i \in 1..Len(recent_recordings) : recent_recordings[i].id \in Nat
    <3>1. DOMAIN recent_recordings = 1..Len(recent_recordings)
      BY Ranges
    <3> QED BY <3>1, RecentRanges
  <2>4. \A i \in 1..Len(recent_recordings) :
          recent_recordings[i].id \in ids =>
            to_delete # {} /\ recent_recordings[i].id < Max(to_delete) + 1
    BY <2>3
  <2> HIDE DEF deleted, ids
  <2>5. /\ MarkDeleted(recent_recordings, ids) \in Seq(Recording)
        /\ Len(MarkDeleted(recent_recordings, ids)) = Len(recent_recordings)
        /\ \A i \in 1..Len(recent_recordings) :
           /\ MarkDeleted(recent_recordings, ids)[i].id = recent_recordings[i].id
           /\ MarkDeleted(recent_recordings, ids)[i].sample_file_bytes = recent_recordings[i].sample_file_bytes
           /\ Growing(MarkDeleted(recent_recordings, ids)[i]) = Growing(recent_recordings[i])
           /\ Uncommitted(MarkDeleted(recent_recordings, ids)[i]) = Uncommitted(recent_recordings[i])
           /\ Deleted(MarkDeleted(recent_recordings, ids)[i]) =
                (Deleted(recent_recordings[i]) \/ recent_recordings[i].id \in ids)
    BY <2>2, MarkedRecordings
  <2> QED BY <2>1, <2>5, <2>4
<1>2. ASSUME NEW r \in Recording
      PROVE  /\ Mark(r) \in Recording
             /\ Mark(r).id = r.id /\ Mark(r).sample_file_bytes = r.sample_file_bytes
             /\ Growing(Mark(r)) = Growing(r)
             /\ Deleted(Mark(r)) = Deleted(r)
             /\ ~new(r) => Uncommitted(Mark(r)) = Uncommitted(r)
             /\ Uncommitted(Mark(r)) => Uncommitted(r)
             /\ new(r) => ~Uncommitted(Mark(r))
  <2>1. CASE new(r)
    <3>1. Mark(r) = [r EXCEPT !.flags = @ \ {"UNCOMMITTED"}]
      BY <2>1
    <3> HIDE DEF Mark, new
    <3> QED BY <2>1, <3>1 DEF Recording, Flag, Growing, Deleted, Uncommitted
  <2>2. CASE ~new(r)
    <3>1. Mark(r) = r
      BY <2>2
    <3> HIDE DEF Mark, new
    <3> QED BY <2>2, <3>1
  <2> QED BY <2>1, <2>2
<1>3. Applied = [i \in DOMAIN deleted |-> Mark(deleted[i])]
  BY DEF Applied
<1> HIDE DEF deleted, Mark
<1>4. DOMAIN deleted = 1..Len(recent_recordings)
      /\ \A i \in 1..Len(recent_recordings) : deleted[i] \in Recording
  BY <1>1
<1>5. Applied \in Seq(Recording) /\ Len(Applied) = Len(recent_recordings)
  BY <1>2, <1>3, <1>4, Ranges
<1>6. \A i \in 1..Len(recent_recordings) : Applied[i] = Mark(deleted[i])
  BY <1>3, <1>4
<1> QED BY <1>1, <1>2, <1>4, <1>5, <1>6

LEMMA FlushApplyKeepsInv ==
  ASSUME Inv, FlushApply
  PROVE  Inv'
<1> DEFINE R == recent_recordings
<1>1. /\ flush.pc = "Committed" /\ flush' = NoFlush
      /\ R' = MaybePrune(Applied, recent_frames, writer_state)
      /\ garbage_needs_unlink' = garbage_needs_unlink \cup to_delete
      /\ to_delete' = {}
      /\ committed' = IF flush.cum = NoId THEN committed ELSE flush.cum
      /\ garbage_unlinked' = garbage_unlinked \ flush.gced
      /\ UNCHANGED <<recent_frames, complete, flush_ready, writer_state, recording_id, io, gc,
                     file, dbVars, process>>
  BY DEF FlushApply, Applied
<1>2. /\ Applied \in Seq(Recording) /\ Len(Applied) = Len(R)
      /\ \A i \in 1..Len(R) :
           /\ Applied[i].id = R[i].id
           /\ Applied[i].sample_file_bytes = R[i].sample_file_bytes
           /\ Growing(Applied[i]) = Growing(R[i])
           /\ Deleted(R[i]) => Deleted(Applied[i])
           /\ R[i].id \notin committed..(flush.cum - 1) \/ flush.cum = NoId =>
                Uncommitted(Applied[i]) = Uncommitted(R[i])
  BY AppliedRecordings
<1>3. PICK n \in 0..Len(Applied) :
        /\ Follows(Applied, R', n)
        /\ \A i \in 1..n : ~StillNeeded(Applied[i], recent_frames, writer_state)
        /\ \A i \in 1..(Len(Applied) - n) : R'[i] = Applied[i + n]
  BY SMTT(30), <1>1, <1>2, MaybePruneFollows
<1>4. Follows(R, R', n)
  <2>1. Follows(R, Applied, 0)
    <3>1. \A i \in 1..(Len(R) - 0) : i \in 1..Len(R) /\ i + 0 = i
      BY Ranges
    <3>2. 0 \in 0..Len(R) /\ Len(Applied) = Len(R) - 0
      BY Ranges, <1>2
    <3> QED BY <1>2, <3>1, <3>2 DEF Follows
  <2>2. Follows(R, R', 0 + n)
    BY <2>1, <1>3, Ranges, FollowsTwice
  <2> QED BY <2>2, <1>3
<1>5. R # << >> => n < Len(R)
  <2>1. SUFFICES ASSUME R # << >> PROVE n < Len(R)
    OBVIOUS
  <2>2. recent_frames # << >> /\ Len(R) \in 1..Len(R) /\ Len(R) \in DOMAIN R
    BY <2>1, Ranges DEF Inv, Window
  <2>3. recent_frames \in Seq(Frame) /\ recent_frames[1].recording_id <= Top
    <3>1. 1 \in DOMAIN recent_frames
      BY <2>2, Ranges
    <3> QED BY <3>1, Ranges DEF Inv, Window
  <2>4. R[Len(R)].id = Top
    <3>1. R[Len(R)].id = (Top - Len(R)) + Len(R)
      BY <2>2, RecentRanges
    <3> QED BY <3>1, <2>2, Ranges
  <2>5. Applied # << >> /\ Applied[Len(Applied)].id = Top
    BY <2>2, <2>4, <1>2
  <2> QED BY <2>2, <2>3, <2>5, <1>2, <1>3, LastIsKept
<1>6. R' \in Seq(Recording) /\ Len(R') = Len(R) - n /\ DOMAIN R' = 1..(Len(R) - n)
  BY <1>4, Ranges DEF Follows
<1>7. ASSUME NEW i \in 1..Len(R')
      PROVE  /\ i + n \in DOMAIN R /\ R'[i] = Applied[i + n]
             /\ R'[i].id = R[i + n].id /\ R'[i].id \in Nat
             /\ R'[i].sample_file_bytes = R[i + n].sample_file_bytes
             /\ Growing(R'[i]) = Growing(R[i + n])
             /\ Deleted(R[i + n]) => Deleted(R'[i])
             /\ R[i + n].id \notin committed..(flush.cum - 1) \/ flush.cum = NoId =>
                Uncommitted(R'[i]) = Uncommitted(R[i + n])
  <2>1. i + n \in 1..Len(R) /\ R'[i] = Applied[i + n] /\ DOMAIN R = 1..Len(R)
    BY SMTT(30), <1>2, <1>3, <1>6, Ranges
  <2>2. R[i + n].id \in Nat
    BY <2>1, RecentRanges
  <2> QED BY <1>2, <2>1, <2>2
<1>8. /\ committed' = cum_recordings /\ cum_recordings' = cum_recordings
      /\ flush.cum = NoId => committed' = committed
      /\ committed <= committed'
      /\ cum_recordings \in Nat /\ committed \in Nat /\ complete \in Nat
      /\ flush.cum # NoId => /\ committed < flush.cum /\ flush.cum <= Current
                             /\ flush.cum <= complete /\ committed' = flush.cum
      /\ cum_recordings <= complete
  BY <1>1, Ranges DEF Inv, Flushing, Window, dbVars
\* The recordings a flush leaves uncommitted keep their mark.
<1>9. \A i \in 1..Len(R') : R'[i].id >= committed' => Uncommitted(R'[i])
  <2>1. SUFFICES ASSUME NEW i \in 1..Len(R'), R'[i].id >= committed'
                 PROVE  Uncommitted(R'[i])
    OBVIOUS
  <2>2. R[i + n].id >= committed /\ R[i + n].id \in Nat
    BY <2>1, <1>7, <1>8
  <2>3. Uncommitted(R[i + n])
    BY <1>7, <2>1, <2>2 DEF Inv, Working
  <2>4. R[i + n].id \notin committed..(flush.cum - 1) \/ flush.cum = NoId
    <3>1. SUFFICES ASSUME flush.cum # NoId PROVE ~(R[i + n].id <= flush.cum - 1)
      BY <2>2, <1>8
    <3>2. R[i + n].id >= flush.cum
      BY <3>1, <2>1, <1>7, <1>8
    <3>3. flush.cum \in Nat
      BY <3>1, <1>8
    <3> QED BY <2>2, <3>2, <3>3
  <2> QED BY <2>1, <2>3, <2>4, <1>7
<1>10. Typed'
  <2>1. << >> \in Rows
    <3>1. << >> \in [{} -> 1..MaxBytes]
      OBVIOUS
    <3> QED BY <3>1 DEF Rows
  <2>2. flush' \in [pc : {"Idle", "Collected", "Committed"}, new : Rows,
                cum : {NoId} \cup 0..MaxRecordings, deletion : SUBSET Ids,
                gced : SUBSET Ids]
    BY <1>1, <2>1 DEF NoFlush
  <2>3. committed' \in 0..MaxRecordings
    BY <1>8, Ranges
  <2> QED BY <1>1, <1>6, <2>2, <2>3 DEF Inv, Typed, dbVars
<1>11. Window'
  <2>1. recording_id # NoId => Uncommitted(R'[Len(R')])
    <3>1. SUFFICES ASSUME recording_id # NoId PROVE Uncommitted(R'[Len(R')])
      OBVIOUS
    <3>2. R # << >> /\ recording_id = complete /\ Top = complete
      BY <3>1 DEF Inv, Window, Top
    <3>3. Len(R') \in 1..Len(R') /\ Len(R') + n = Len(R)
      BY <3>2, <1>3, <1>2, <1>5, <1>6, Ranges
    <3>4. R'[Len(R')].id = complete
      <4>1. R[Len(R)].id = (Top - Len(R)) + Len(R)
        BY <3>3, <1>7, RecentRanges
      <4>2. R'[Len(R')].id = R[Len(R)].id
        BY <3>3, <1>7
      <4> QED BY <3>2, <4>1, <4>2, Ranges
    <3> QED BY <3>3, <3>4, <1>8, <1>9
  <2>2. Shortens(recent_frames, recent_frames', 0)
    BY <1>1, Unshortened
  <2> QED BY <1>1, <1>4, <1>5, <1>8, <1>10, <2>1, <2>2, WindowKept DEF Inv
<1>12. Current' = Current /\ Top' = Top /\ Busy' = Busy
  BY <1>1 DEF Current, Top, Busy
\* The recording being synced is still needed.
<1>13. SyncedIsRecent'
  <2>1. SUFFICES ASSUME io.op \in {"Sync", "SyncDir", "Synced"}
                 PROVE  \E i \in DOMAIN R' : /\ R'[i].id = writer_state.recording_id
                                             /\ R'[i].sample_file_bytes = writer_state.written
                                             /\ ~Growing(R'[i])
    BY <1>1 DEF SyncedIsRecent
  <2>2. PICK i \in DOMAIN R : /\ R[i].id = writer_state.recording_id
                              /\ R[i].sample_file_bytes = writer_state.written
                              /\ ~Growing(R[i])
    BY <2>1 DEF Inv, Working, SyncedIsRecent
  <2>3. i \in 1..Len(R)
    BY RecentRanges
  <2>4. StillNeeded(Applied[i], recent_frames, writer_state)
    BY <2>2, <2>3, <1>2 DEF StillNeeded
  <2>5. i > n
    BY <2>3, <2>4, <1>3, <1>2
  <2>6. i - n \in 1..Len(R') /\ i - n \in DOMAIN R' /\ (i - n) + n = i
    <3>1. n \in 0..Len(R) /\ Len(R) \in Nat
      BY <1>2, <1>3, Ranges
    <3> QED BY <2>3, <2>5, <1>6, <3>1
  <2> QED BY <2>2, <2>6, <1>7
<1>14. \A i \in DOMAIN R' :
         committed' <= R'[i].id /\ R'[i].id < Current' /\ ~Deleted(R'[i]) =>
             ~Growing(R'[i]) /\ IsDurable(file'[R'[i].id], R'[i].sample_file_bytes)
  <2>1. SUFFICES ASSUME NEW i \in 1..Len(R'), committed' <= R'[i].id, R'[i].id < Current,
                        ~Deleted(R'[i])
                 PROVE  ~Growing(R'[i]) /\ IsDurable(file[R'[i].id], R'[i].sample_file_bytes)
    BY <1>1, <1>6, <1>12
  <2>2. committed <= R[i + n].id /\ R[i + n].id < Current /\ ~Deleted(R[i + n])
    BY <2>1, <1>7, <1>8
  <2> QED BY <2>2, <1>7 DEF Inv, Working, Durable
<1>15. Current' < cum_recordings' => \A i \in DOMAIN R' : R'[i].id >= cum_recordings'
  BY <1>6, <1>7, <1>8, <1>12 DEF Inv, Working
<1>16. Working'
  <2>1. \A i \in DOMAIN R' : R'[i].id >= committed' => Uncommitted(R'[i])
    BY <1>6, <1>9
  <2> QED BY <1>1, <1>8, <1>12, <1>13, <1>14, <1>15, <2>1
       DEF Inv, Working, FileIffWritten, Durable
<1>17. Flushing'
  <2>1. /\ flush'.pc = "Idle" /\ flush'.cum = NoId /\ flush'.gced = {}
    BY <1>1 DEF NoFlush
  <2>2. UNCHANGED <<row, garbage, cum_recordings, file, flush_ready, process, complete>>
    BY <1>1 DEF dbVars
  <2>3. to_delete \subseteq garbage /\ flush.gced \subseteq garbage_unlinked
        /\ garbage_unlinked' \subseteq garbage
        /\ to_delete \cap garbage_unlinked = {}
        /\ garbage_needs_unlink \subseteq garbage \ garbage_unlinked
    BY <1>1 DEF Inv, Flushing, UnlinkedIsGarbage
  <2>4. garbage_needs_unlink' \subseteq garbage' \ garbage_unlinked'
    BY <1>1, <2>2, <2>3
  <2>5. \A id \in garbage : id < committed' /\ id \notin DOMAIN row
    <3>1. \A id \in garbage : id \in Nat /\ id < committed /\ id \notin DOMAIN row
      BY Ranges DEF Inv, Flushing, Typed, Ids
    <3> QED BY <3>1, <1>8
  <2>6. flush_ready' <= Current' \/ flush_ready' <= committed'
    <3>1. flush_ready \in Nat
      BY Ranges DEF Inv, Typed
    <3> QED BY <3>1, <1>1, <1>8, <1>12 DEF Inv, Flushing
  <2>7. /\ \A id \in DOMAIN row : id < cum_recordings
        /\ CommittedDurable'
    BY <2>2 DEF Inv, Flushing, CommittedDurable
  <2> QED BY <1>1, <1>8, <1>12, <2>1, <2>2, <2>3, <2>4, <2>5, <2>6, <2>7
       DEF Flushing, UnlinkedIsGarbage
<1>18. Stopped'
  BY <1>1 DEF Inv, Flushing, Stopped
<1> QED BY <1>10, <1>11, <1>16, <1>17, <1>18 DEF Inv

-----------------------------------------------------------------------------
(* Crash and restart.                                                      *)

\* What is durable survives a crash.
LEMMA DurableSurvives ==
  ASSUME NEW f \in FileRecord, NEW survives \in BOOLEAN,
         ~f.pending => (survives <=> f.exists)
  PROVE  /\ Survivor(f, survives) \in FileRecord
         /\ ~Survivor(f, survives).exists => Survivor(f, survives).size = 0
         /\ \A size : IsDurable(f, size) => IsDurable(Survivor(f, survives), size)
<1>1. /\ f.exists \in BOOLEAN /\ f.pending \in BOOLEAN /\ f.size \in 0..MaxBytes
      /\ f.synced \in BOOLEAN /\ MaxBytes \in Nat
  BY RecordingsAssumption DEF FileRecord, RecordingsAssumption
<1>2. CASE survives
  <2>1. Survivor(f, survives) = [exists |-> TRUE, pending |-> FALSE, synced |-> f.synced,
                                 size |-> IF f.synced THEN f.size ELSE 0]
    BY <1>2 DEF Survivor
  <2>2. Survivor(f, survives) \in FileRecord /\ Survivor(f, survives).exists
    BY <1>1, <2>1 DEF FileRecord
  <2>3. ASSUME NEW size, IsDurable(f, size) PROVE IsDurable(Survivor(f, survives), size)
    <3>1. f.synced = TRUE /\ f.size = size
      BY <2>3 DEF IsDurable
    <3> QED BY <2>1, <3>1 DEF IsDurable
  <2> QED BY <2>2, <2>3
<1>3. CASE ~survives
  <2>1. Survivor(f, survives) = NoFile
    BY <1>3 DEF Survivor
  <2>2. NoFile \in FileRecord /\ NoFile.size = 0
    BY <1>1 DEF NoFile, FileRecord
  <2>3. ASSUME NEW size, IsDurable(f, size) PROVE FALSE
    BY <1>3, <2>3 DEF IsDurable
  <2> QED BY <2>1, <2>2, <2>3
<1> QED BY <1>2, <1>3

LEMMA CrashKeepsInv ==
  ASSUME Inv, Crash
  PROVE  Inv'
<1>1. /\ process = "running" /\ process' = "down"
      /\ recent_recordings' = << >> /\ recent_frames' = << >>
      /\ complete' = cum_recordings /\ committed' = cum_recordings
      /\ flush_ready' = cum_recordings
      /\ writer_state' = [recording_id |-> 0, written |-> 0, file |-> FALSE]
      /\ to_delete' = {} /\ recording_id' = NoId /\ io' = Idle /\ flush' = NoFlush
      /\ gc' = [c \in Collectors |-> {}]
      /\ garbage_needs_unlink' = garbage /\ garbage_unlinked' = {}
      /\ UNCHANGED <<row, garbage, cum_recordings>>
  BY DEF Crash, dbVars
<1>2. PICK survivors \in SUBSET Ids :
        /\ \A id \in Ids : ~file[id].pending => (id \in survivors <=> file[id].exists)
        /\ file' = [id \in Ids |-> Survivor(file[id], id \in survivors)]
  BY DEF Crash
<1>3. /\ file \in [Ids -> FileRecord] /\ row \in Rows /\ DOMAIN row \subseteq Ids
      /\ garbage \subseteq Ids
  BY DEF Inv, Typed, Rows, FileRecord
<1>4. /\ file' \in [Ids -> FileRecord]
      /\ \A id \in Ids : ~file'[id].exists => file'[id].size = 0
      /\ \A id \in Ids : \A size : IsDurable(file[id], size) => IsDurable(file'[id], size)
  <2>1. ASSUME NEW id \in Ids
        PROVE  /\ file'[id] \in FileRecord
               /\ ~file'[id].exists => file'[id].size = 0
               /\ \A size : IsDurable(file[id], size) => IsDurable(file'[id], size)
    <3>1. /\ file'[id] = Survivor(file[id], id \in survivors)
          /\ file[id] \in FileRecord
          /\ ~file[id].pending => (id \in survivors <=> file[id].exists)
          /\ (id \in survivors) \in BOOLEAN
      BY <1>2, <1>3
    <3> DEFINE survives == id \in survivors
    <3> HIDE DEF survives
    <3>2. /\ Survivor(file[id], survives) \in FileRecord
          /\ ~Survivor(file[id], survives).exists => Survivor(file[id], survives).size = 0
          /\ \A size : IsDurable(file[id], size) => IsDurable(Survivor(file[id], survives), size)
      BY <3>1, DurableSurvives DEF survives
    <3> QED BY <3>1, <3>2 DEF survives
  <2>2. file' = [id \in Ids |-> file'[id]]
    BY <1>2
  <2> QED BY <2>1, <2>2
<1>5. Typed'
  <2>1. << >> \in Rows
    <3>1. << >> \in [{} -> 1..MaxBytes]
      OBVIOUS
    <3> QED BY <3>1 DEF Rows
  <2>2. flush' \in [pc : {"Idle", "Collected", "Committed"}, new : Rows,
                cum : {NoId} \cup 0..MaxRecordings, deletion : SUBSET Ids,
                gced : SUBSET Ids]
    BY <1>1, <2>1 DEF NoFlush
  <2>3. /\ writer_state' \in [recording_id : 0..MaxRecordings, written : 0..MaxBytes,
                              file : BOOLEAN]
        /\ io' \in [op : {"Idle"} \cup Outcomes \cup IoSteps, n : 0..MaxBytes]
        /\ cum_recordings \in 0..MaxRecordings
    BY <1>1, Ranges DEF Idle
  <2>4. /\ recent_recordings' \in Seq(Recording) /\ recent_frames' \in Seq(Frame)
        /\ gc' \in [Collectors -> SUBSET Ids]
    BY <1>1
  <2> QED BY <1>1, <1>3, <1>4, <2>2, <2>3, <2>4 DEF Typed, FileRecord
<1>6. Window'
  BY <1>1, Ranges DEF Window, FramesContiguous
<1>7. Working'
  <2>1. /\ Current' = 0 /\ io'.op = "Idle" /\ ~writer_state'.file /\ writer_state'.written = 0
        /\ DOMAIN recent_recordings' = {} /\ Top' = cum_recordings - 1
    BY <1>1 DEF Current, Idle, Top
  <2> QED BY <1>4, <2>1, Ranges DEF Working, FileIffWritten, SyncedIsRecent, Busy
<1>8. Flushing'
  <2>1. CommittedDurable'
    BY <1>1, <1>3, <1>4 DEF Inv, Flushing, CommittedDurable, IsDurable
  <2>2. /\ flush'.pc = "Idle" /\ flush'.cum = NoId /\ flush'.gced = {}
    BY <1>1 DEF NoFlush
  <2>3. \A id \in garbage : id < cum_recordings /\ id \notin DOMAIN row
    <3>1. \A id \in garbage : id \in Nat /\ id < committed /\ id \notin DOMAIN row
      BY <1>3, Ranges DEF Inv, Flushing, Ids
    <3> QED BY <3>1, Ranges
  <2>4. \A id \in DOMAIN row : id < cum_recordings
    BY DEF Inv, Flushing
  <2> QED BY <1>1, <2>1, <2>2, <2>3, <2>4, Ranges DEF Flushing, UnlinkedIsGarbage
<1>9. Stopped'
  BY <1>1 DEF Stopped
<1> QED BY <1>5, <1>6, <1>7, <1>8, <1>9 DEF Inv

\* abandon touches no file of a committed recording.
LEMMA AbandonKeepsInv ==
  ASSUME Inv, Abandon
  PROVE  Inv'
<1>1. /\ process = "down" /\ process' = "abandoned"
      /\ file' = [id \in Ids |->
                    IF file[id].exists /\ id >= committed THEN Unlinked ELSE file[id]]
      /\ UNCHANGED <<streamVars, threadVars, poolVars, dbVars>>
  BY DEF Abandon
<1>2. /\ recent_recordings = << >> /\ recording_id = NoId
      /\ io = Idle /\ ~writer_state.file /\ flush = NoFlush /\ committed = cum_recordings
      /\ DOMAIN recent_recordings = {}
  BY <1>1 DEF Inv, Stopped, Flushing, NoFlush
<1>3. Unlinked \in FileRecord /\ Unlinked.size = 0
  <2>1. NoFile \in FileRecord
    BY Ranges DEF NoFile, FileRecord
  <2> QED BY <2>1 DEF Unlinked, NoFile, FileRecord
<1>4. /\ file' \in [Ids -> FileRecord]
      /\ \A id \in Ids : ~file'[id].exists => file'[id].size = 0
      /\ \A id \in Ids : id < committed => file'[id] = file[id]
  <2>1. file \in [Ids -> FileRecord] /\ \A id \in Ids : ~file[id].exists => file[id].size = 0
    BY DEF Inv, Typed, FileRecord, Working
  <2>2. \A id \in Ids : id \in Nat
    BY Ranges DEF Ids
  <2> QED BY <1>1, <1>3, <2>1, <2>2, Ranges
<1>5. Typed'
  BY <1>1, <1>4 DEF Inv, Typed, streamVars, byteVars, threadVars, poolVars, dbVars, FileRecord
<1>6. Window'
  BY <1>1 DEF Inv, Window, FramesContiguous, streamVars, threadVars, dbVars, Top
<1>7. Working'
  <2>1. /\ io'.op = "Idle" /\ ~writer_state'.file /\ DOMAIN recent_recordings' = {}
        /\ FileIffWritten' /\ Current' = Current /\ Top' = Top /\ Current <= Top + 1
    BY <1>1, <1>2 DEF Inv, Working, FileIffWritten, streamVars, threadVars, Idle, Current, Top
  <2> QED BY <1>4, <2>1 DEF Working, SyncedIsRecent, Busy
<1>8. Flushing'
  <2>1. /\ flush'.pc = "Idle" /\ flush' = flush
        /\ UNCHANGED <<row, garbage, cum_recordings, committed, to_delete, flush_ready, complete,
                       garbage_needs_unlink, garbage_unlinked>>
        /\ Current' = Current
    BY <1>1, <1>2 DEF streamVars, threadVars, poolVars, dbVars, NoFlush, Current
  <2>2. CommittedDurable'
    <3>1. \A id \in DOMAIN row : id \in Ids /\ id < committed
      BY <1>2 DEF Inv, Typed, Rows, Flushing
    <3> QED BY <1>4, <2>1, <3>1 DEF Inv, Flushing, CommittedDurable
  <2>3. UnlinkedIsGarbage'
    BY <2>1 DEF Inv, Flushing, UnlinkedIsGarbage
  <2> QED BY <2>1, <2>2, <2>3 DEF Inv, Flushing
<1>9. Stopped'
  BY <1>1 DEF Inv, Stopped, streamVars, threadVars
<1> QED BY <1>5, <1>6, <1>7, <1>8, <1>9 DEF Inv

LEMMA InitialRotationKeepsInv ==
  ASSUME Inv, InitialRotation
  PROVE  Inv'
<1>1. /\ process = "abandoned" /\ process' = "running"
      /\ EnqueueDelete(flush_ready)
      /\ UNCHANGED <<recent_recordings, recent_frames, complete, committed, flush_ready,
                     writer_state, threadVars, poolVars, file, dbVars>>
  BY DEF InitialRotation
<1>2. flush = NoFlush /\ flush.pc = "Idle"
  BY <1>1 DEF Inv, Stopped, NoFlush
<1>3. to_delete' \subseteq DOMAIN row /\ DOMAIN row \subseteq Ids
  BY <1>1, <1>2, EnqueuedAreRows DEF Inv, Typed, Flushing, Rows
<1>4. Window' /\ Working'
  BY <1>1, Ranges, QuietStep DEF threadVars, dbVars, Inv, Window
<1>5. Typed'
  BY <1>1, <1>3 DEF Inv, Typed, threadVars, poolVars, dbVars
<1>6. Flushing'
  <2>1. Current' = Current
    BY <1>1 DEF Current
  <2>2. UNCHANGED <<row, garbage, committed, cum_recordings, file, flush,
                    garbage_needs_unlink, garbage_unlinked, flush_ready, complete>>
    BY <1>1 DEF threadVars, poolVars, dbVars
  <2> QED BY <1>1, <1>2, <1>3, <2>1, <2>2
       DEF Inv, Flushing, UnlinkedIsGarbage, CommittedDurable, Durable
<1>7. Stopped'
  BY <1>1 DEF Stopped
<1> QED BY <1>4, <1>5, <1>6, <1>7 DEF Inv

-----------------------------------------------------------------------------
(* The Writer.                                                             *)

\* A growing recording is the last one, and the only one.
LEMMA LastGrows ==
  ASSUME Inv, recording_id # NoId
  PROVE  LET R == recent_recordings
         IN  /\ recording_id = complete /\ Top = complete
             /\ R # << >> /\ Len(R) \in DOMAIN R /\ R[Len(R)].id = complete
             /\ Uncommitted(R[Len(R)]) /\ Growing(R[Len(R)])
<1> DEFINE R == recent_recordings
<1>1. /\ recording_id = complete /\ Top = complete
      /\ R # << >> /\ Uncommitted(R[Len(R)]) /\ Growing(R[Len(R)])
  BY DEF Inv, Window, Top
<1>2. Len(R) \in DOMAIN R
  BY <1>1, Ranges
<1>3. R[Len(R)].id = (Top - Len(R)) + Len(R)
  BY <1>2, RecentRanges
<1> QED BY <1>1, <1>2, <1>3, Ranges

\* What the Writer makes of the recordings and frames: the last recording has
\* grown by the frame, and those dropped were not needed.
Pushed(is_key, len, close, n, m) ==
  LET R     == recent_recordings
      k     == IF recording_id = NoId THEN Len(R) + 1 ELSE Len(R)
      start == IF recording_id = NoId THEN 0 ELSE R[k].sample_file_bytes
      frame == [recording_id |-> complete, is_key |-> is_key, sample_start |-> start,
                len |-> len]
      r     == R'[k - n]
  IN  /\ n \in 0..(k - 1)
      /\ R' \in Seq(Recording)
      /\ Len(R') = k - n
      /\ \A i \in 1..(k - n - 1) : R'[i] = R[i + n]
      /\ \A i \in 1..n : ~StillNeeded(R[i], recent_frames', writer_state)
      /\ r.id = complete
      /\ r.sample_file_bytes = start + len
      /\ start \in 0..MaxBytes
      /\ len \in Nat \ {0}
      /\ Growing(r) <=> ~close
      /\ Uncommitted(r)
      /\ Deleted(r) <=> (recording_id # NoId /\ Deleted(R[k]))
      /\ frame \in Frame
      /\ Shortens(Append(recent_frames, frame), recent_frames', m)

LEMMA PushOutcome ==
  ASSUME Inv, NEW is_key \in BOOLEAN, NEW len \in FrameSizes, NEW close \in BOOLEAN,
         PushAndMaybeClose(is_key, len, close)
  PROVE  \E n, m \in Nat : Pushed(is_key, len, close, n, m)
<1> DEFINE R == recent_recordings
           opening == recording_id = NoId
           id == IF opening THEN complete ELSE recording_id
           fresh == [id |-> id, sample_file_bytes |-> 0, flags |-> {"GROWING", "UNCOMMITTED"}]
           opened == IF opening THEN Append(R, fresh) ELSE R
           begin == opened[Len(opened)].sample_file_bytes
           bytes == begin + len
           grown == [opened EXCEPT ![Len(opened)].sample_file_bytes = bytes]
           last == [recording_id |-> id, is_key |-> is_key, sample_start |-> begin, len |-> len]
           frames == Append(recent_frames, last)
           pruned == PruneFront(frames, Pos(writer_state))
           recents == MaybePrune(grown, pruned, writer_state)
           k == IF opening THEN Len(R) + 1 ELSE Len(R)
           start == IF opening THEN 0 ELSE R[k].sample_file_bytes
<1>1. /\ id < MaxRecordings /\ bytes <= MaxBytes
      /\ recent_frames' = pruned
      /\ R' = IF close THEN [recents EXCEPT ![Len(recents)].flags = @ \ {"GROWING"}]
                       ELSE recents
  BY DEF PushAndMaybeClose
<1>2. /\ id = complete /\ id \in Ids /\ R \in Seq(Recording) /\ Len(R) \in Nat
      /\ len \in 1..MaxBytes /\ MaxBytes \in Nat
  <2>1. recording_id \in {NoId, complete}
    BY DEF Inv, Window
  <2>2. id = complete
    BY <2>1
  <2>3. complete \in Nat /\ MaxRecordings \in Nat
    BY Ranges
  <2>4. id \in Ids
    <3>1. complete < MaxRecordings
      BY <1>1, <2>2
    <3>2. complete \in Ids
      BY <2>3, <3>1 DEF Ids
    <3> QED BY <2>2, <3>2
  <2>5. len \in 1..MaxBytes /\ MaxBytes \in Nat
    BY RecordingsAssumption DEF RecordingsAssumption
  <2> QED BY <2>2, <2>4, <2>5, Ranges
<1>3. /\ opened \in Seq(Recording) /\ Len(opened) = k /\ k \in Nat \ {0}
      /\ \A i \in 1..(k - 1) : opened[i] = R[i] /\ i \in DOMAIN R
      /\ begin = start /\ start \in 0..MaxBytes
      /\ opened[k].id = complete /\ Growing(opened[k]) /\ Uncommitted(opened[k])
      /\ Deleted(opened[k]) <=> (~opening /\ Deleted(R[k]))
  <2>1. CASE opening
    <3>1. fresh \in Recording
      BY <1>2 DEF Recording, Flag
    <3>2. /\ opened = Append(R, fresh) /\ opened \in Seq(Recording) /\ Len(opened) = Len(R) + 1
          /\ \A i \in 1..Len(R) : opened[i] = R[i]
          /\ opened[Len(R) + 1] = fresh
      <4> HIDE DEF fresh
      <4> QED BY <2>1, <1>2, <3>1
    <3>3. k = Len(R) + 1 /\ start = 0
      BY <2>1
    <3>4. /\ fresh.id = complete /\ fresh.sample_file_bytes = 0
          /\ Growing(fresh) /\ Uncommitted(fresh) /\ ~Deleted(fresh)
      BY <1>2 DEF Growing, Uncommitted, Deleted
    <3> HIDE DEF fresh, opened, k
    <3>5. /\ k \in Nat \ {0} /\ Len(opened) = k /\ opened[k] = fresh
          /\ \A i \in 1..(k - 1) : opened[i] = R[i] /\ i \in DOMAIN R
      BY <1>2, <3>2, <3>3
    <3>6. begin = start /\ start \in 0..MaxBytes
      BY <1>2, <3>3, <3>4, <3>5
    <3>7. /\ opened[k].id = complete /\ Growing(opened[k]) /\ Uncommitted(opened[k])
          /\ ~Deleted(opened[k])
      BY <3>4, <3>5
    <3> HIDE DEF start, begin
    <3> QED BY <2>1, <3>2, <3>5, <3>6, <3>7
  <2>2. CASE ~opening
    <3>1. /\ R # << >> /\ Len(R) \in DOMAIN R /\ R[Len(R)].id = complete
          /\ Uncommitted(R[Len(R)]) /\ Growing(R[Len(R)])
      BY <2>2, LastGrows
    <3>2. R[Len(R)].sample_file_bytes \in 0..MaxBytes
      BY <1>2, <3>1, RecentRanges
    <3>3. opened = R /\ k = Len(R)
      BY <2>2
    <3>4. start = R[Len(R)].sample_file_bytes /\ begin = R[Len(R)].sample_file_bytes
      BY <2>2, <3>3
    <3>5. Len(R) \in Nat \ {0} /\ \A i \in 1..(Len(R) - 1) : i \in DOMAIN R
      BY <1>2, <3>1
    <3> HIDE DEF opened, k, start, begin
    <3> QED BY <1>2, <2>2, <3>1, <3>2, <3>3, <3>4, <3>5
  <2> QED BY <2>1, <2>2
<1> HIDE DEF opened, k, start
<1>4. bytes = start + len /\ bytes \in 1..MaxBytes
  BY <1>1, <1>2, <1>3
<1> HIDE DEF begin
<1>5. /\ grown \in Seq(Recording) /\ Len(grown) = k
      /\ \A i \in 1..(k - 1) : grown[i] = R[i]
      /\ grown[k].id = complete /\ grown[k].sample_file_bytes = start + len
      /\ Growing(grown[k]) /\ Uncommitted(grown[k])
      /\ Deleted(grown[k]) <=> (~opening /\ Deleted(R[k]))
  <2>1. opened[k] \in Recording /\ k \in 1..Len(opened)
    BY <1>3
  <2> DEFINE big == [opened[k] EXCEPT !.sample_file_bytes = bytes]
  <2>2. /\ big \in Recording /\ big.id = opened[k].id /\ big.sample_file_bytes = bytes
        /\ Growing(big) <=> Growing(opened[k])
        /\ Uncommitted(big) <=> Uncommitted(opened[k])
        /\ Deleted(big) <=> Deleted(opened[k])
    <3>1. /\ bytes \in 0..MaxBytes
          /\ opened[k] = [id |-> opened[k].id, flags |-> opened[k].flags,
                          sample_file_bytes |-> opened[k].sample_file_bytes]
          /\ opened[k].id \in Ids /\ opened[k].flags \in SUBSET Flag
      BY <1>2, <1>4, <2>1 DEF Recording
    <3> HIDE DEF bytes
    <3>2. big = [id |-> opened[k].id, flags |-> opened[k].flags, sample_file_bytes |-> bytes]
      BY <3>1
    <3> HIDE DEF big
    <3> QED BY <3>1, <3>2 DEF Recording, Growing, Uncommitted, Deleted
  <2>3. grown = [opened EXCEPT ![k] = big]
    BY <1>3
  <2> HIDE DEF big, grown, bytes
  <2>4. grown \in Seq(Recording) /\ Len(grown) = Len(opened)
        /\ grown[k] = big /\ \A i \in 1..(k - 1) : grown[i] = opened[i]
    BY <1>3, <2>1, <2>2, <2>3
  <2> QED BY <1>3, <1>4, <2>2, <2>4
<1>6. last \in Frame /\ frames \in Seq(Frame) /\ frames # << >>
      /\ \A j \in DOMAIN frames : frames[j].recording_id <= complete
  <2>1. last \in Frame
    BY <1>2, <1>3 DEF Frame
  <2>2. recent_frames \in Seq(Frame)
    BY Ranges
  <2>3. last.recording_id = complete
    BY <1>2
  <2>4. \A j \in DOMAIN recent_frames : recent_frames[j].recording_id <= complete
    <3>1. \A j \in DOMAIN recent_frames : recent_frames[j] \in Frame
      BY <2>2
    <3>2. \A j \in DOMAIN recent_frames : recent_frames[j].recording_id \in Nat
      BY <3>1, Ranges DEF Frame, Ids
    <3> QED BY SMTT(30), <3>2, Ranges DEF Inv, Window
  <2> HIDE DEF last
  <2>5. /\ frames \in Seq(Frame) /\ Len(frames) = Len(recent_frames) + 1
        /\ frames[Len(recent_frames) + 1] = last
        /\ \A j \in 1..Len(recent_frames) : frames[j] = recent_frames[j]
    BY <2>1, <2>2
  <2>6. \A j \in DOMAIN frames : j \in 1..Len(recent_frames) \/ j = Len(recent_frames) + 1
    BY <2>2, <2>5
  <2> QED BY SMTT(30), <2>1, <2>2, <2>3, <2>4, <2>5, <2>6, Ranges
<1> HIDE DEF grown, frames, last
<1>7. PICK m \in 0..Len(frames) : Shortens(frames, PruneFront(frames, Pos(writer_state)), m)
  BY <1>6, PruneFrontShortens
<1>8. PICK n \in 0..Len(grown) :
        /\ Follows(grown, MaybePrune(grown, pruned, writer_state), n)
        /\ \A i \in 1..n : ~StillNeeded(grown[i], pruned, writer_state)
        /\ \A i \in 1..(Len(grown) - n) :
             MaybePrune(grown, pruned, writer_state)[i] = grown[i + n]
  <2> HIDE DEF pruned
  <2>1. grown \in Seq(Recording)
    BY <1>5
  <2> DEFINE Shortened(a, f, w) ==
        \E n \in 0..Len(a) :
          /\ Follows(a, MaybePrune(a, f, w), n)
          /\ \A i \in 1..n : ~StillNeeded(a[i], f, w)
          /\ \A i \in 1..(Len(a) - n) : MaybePrune(a, f, w)[i] = a[i + n]
  <2>2. ASSUME NEW a \in Seq(Recording), NEW f, NEW w PROVE Shortened(a, f, w)
    BY MaybePruneFollows
  <2>3. Shortened(grown, pruned, writer_state)
    <3> HIDE DEF Shortened
    <3> QED BY <2>1, <2>2
  <2> QED BY <2>3
<1>9. n < k
  <2>1. /\ pruned \in Seq(Frame) /\ pruned # << >>
        /\ \E j \in DOMAIN frames : pruned[1] = frames[j]
    <3>1. /\ m < Len(frames) /\ pruned \in Seq(Frame) /\ Len(pruned) = Len(frames) - m
          /\ \A i \in 1..(Len(frames) - m) : pruned[i] = frames[i + m]
      BY <1>6, <1>7 DEF Shortens
    <3> HIDE DEF pruned
    <3>2. 1 \in 1..(Len(frames) - m) /\ 1 + m \in DOMAIN frames
      BY <1>6, <3>1
    <3> QED BY <1>6, <3>1, <3>2
  <2>2. grown # << >> /\ pruned[1].recording_id <= grown[Len(grown)].id
    BY <1>3, <1>5, <1>6, <2>1
  <2> HIDE DEF pruned
  <2> QED BY <1>5, <1>8, <2>1, <2>2, LastIsKept
<1> HIDE DEF pruned
<1>10. /\ recents \in Seq(Recording) /\ Len(recents) = k - n /\ k - n \in 1..Len(recents)
       /\ \A i \in 1..(k - n) : recents[i] = grown[i + n]
  BY <1>3, <1>5, <1>8, <1>9 DEF Follows
<1> HIDE DEF recents
<1>11. /\ R' \in Seq(Recording) /\ Len(R') = k - n
       /\ \A i \in 1..(k - n - 1) : R'[i] = recents[i]
       /\ R'[k - n].id = recents[k - n].id
       /\ R'[k - n].sample_file_bytes = recents[k - n].sample_file_bytes
       /\ Growing(R'[k - n]) <=> (Growing(recents[k - n]) /\ ~close)
       /\ Uncommitted(R'[k - n]) <=> Uncommitted(recents[k - n])
       /\ Deleted(R'[k - n]) <=> Deleted(recents[k - n])
  <2>1. CASE ~close
    <3>1. R' = recents
      BY <1>1, <2>1
    <3> QED BY <1>10, <2>1, <3>1
  <2>2. CASE close
    <3> DEFINE r == recents[k - n]
               shut == [r EXCEPT !.flags = @ \ {"GROWING"}]
    <3>1. r \in Recording
      BY <1>10
    <3>2. /\ shut \in Recording /\ shut.id = r.id
          /\ shut.sample_file_bytes = r.sample_file_bytes
          /\ ~Growing(shut)
          /\ Uncommitted(shut) <=> Uncommitted(r)
          /\ Deleted(shut) <=> Deleted(r)
      <4> HIDE DEF r
      <4> QED BY <3>1 DEF Recording, Growing, Uncommitted, Deleted
    <3>3. R' = [recents EXCEPT ![k - n] = shut]
      BY <1>1, <1>10, <2>2
    <3> HIDE DEF shut
    <3>4. /\ R' \in Seq(Recording) /\ Len(R') = Len(recents) /\ R'[k - n] = shut
          /\ \A i \in 1..(k - n - 1) : R'[i] = recents[i]
      BY <1>10, <3>2, <3>3
    <3> HIDE DEF r
    <3>5. R'[k - n] = shut /\ r = recents[k - n]
      BY <3>4 DEF r
    <3> QED BY <1>10, <2>2, <3>2, <3>4, <3>5
  <2> QED BY <2>1, <2>2
<1>12. /\ R'[k - n].id = complete /\ R'[k - n].sample_file_bytes = start + len
       /\ Growing(R'[k - n]) <=> ~close
       /\ Uncommitted(R'[k - n])
       /\ Deleted(R'[k - n]) <=> (~opening /\ Deleted(R[k]))
  <2>1. recents[k - n] = grown[k]
    <3>1. (k - n) + n = k
      BY <1>3, <1>8, <1>5
    <3> QED BY <1>10, <3>1
  <2> QED BY <1>5, <1>11, <2>1
<1>13. /\ \A i \in 1..(k - n - 1) : R'[i] = R[i + n]
       /\ \A i \in 1..n : ~StillNeeded(R[i], recent_frames', writer_state)
       /\ n \in 0..(k - 1)
  <2>1. n \in 0..(k - 1) /\ k \in Nat
    BY <1>3, <1>5, <1>8, <1>9
  <2>2. \A i \in 1..(k - n - 1) : i + n \in 1..(k - 1) /\ i \in 1..(k - n)
    BY <2>1
  <2>3. \A i \in 1..n : i \in 1..(k - 1)
    BY <2>1
  <2> QED BY <1>1, <1>5, <1>8, <1>10, <1>11, <2>1, <2>2, <2>3
<1>14. Shortens(frames, recent_frames', m) /\ m \in Nat /\ n \in Nat
  BY <1>1, <1>7, <1>8, <1>6, <1>5 DEF pruned
<1>15. frames = Append(recent_frames, [recording_id |-> complete, is_key |-> is_key,
                                       sample_start |-> start, len |-> len])
       /\ [recording_id |-> complete, is_key |-> is_key, sample_start |-> start,
           len |-> len] \in Frame
  BY <1>2, <1>3, <1>6 DEF frames, last
<1>16. Pushed(is_key, len, close, n, m)
  BY <1>2, <1>3, <1>11, <1>12, <1>13, <1>14, <1>15 DEF Pushed, k, start
<1> QED BY <1>14, <1>16

LEMMA WriteKeepsInv ==
  ASSUME Inv, Write
  PROVE  Inv'
<1> DEFINE R == recent_recordings
           F == recent_frames
           opening == recording_id = NoId
           k == IF opening THEN Len(R) + 1 ELSE Len(R)
<1>1. PICK is_key \in BOOLEAN, len \in FrameSizes, close \in BOOLEAN :
        PushAndMaybeClose(is_key, len, close)
  BY DEF Write
<1>2. PICK n \in Nat, m \in Nat : Pushed(is_key, len, close, n, m)
  BY <1>1, PushOutcome
<1> DEFINE start == IF opening THEN 0 ELSE R[k].sample_file_bytes
           frame == [recording_id |-> complete, is_key |-> is_key, sample_start |-> start,
                     len |-> len]
           G == Append(F, frame)
           r == R'[k - n]
<1>3. /\ n \in 0..(k - 1)
      /\ R' \in Seq(Recording)
      /\ Len(R') = k - n
      /\ \A i \in 1..(k - n - 1) : R'[i] = R[i + n]
      /\ \A i \in 1..n : ~StillNeeded(R[i], F', writer_state)
      /\ r.id = complete
      /\ r.sample_file_bytes = start + len
      /\ start \in 0..MaxBytes /\ len \in Nat \ {0}
      /\ Growing(r) <=> ~close
      /\ Uncommitted(r)
      /\ Deleted(r) <=> (~opening /\ Deleted(R[k]))
      /\ frame \in Frame
      /\ Shortens(G, F', m)
  BY <1>2 DEF Pushed
<1>4. /\ process = "running" /\ is_key \in BOOLEAN
      /\ complete' = IF close THEN complete + 1 ELSE complete
      /\ recording_id' = IF close THEN NoId ELSE complete
      /\ io' = io \/ (io.op = "Idle" /\ io' = [op |-> "Start", n |-> 0])
      /\ complete \in Ids
      /\ UNCHANGED <<committed, flush_ready, writer_state, to_delete, flush, gc, poolVars, file,
                     dbVars, process>>
  <2>1. recording_id \in {NoId, complete}
    BY DEF Inv, Window
  <2>2. r \in Recording
    <3>1. k \in Nat
      BY Ranges
    <3> QED BY <1>3, <3>1
  <2>3. complete \in Ids
    BY <1>3, <2>2 DEF Recording
  <2> QED BY <1>1, <2>1, <2>3 DEF PushAndMaybeClose
<1>5. Top' = complete /\ complete \in Nat /\ complete' \in 0..MaxRecordings
      /\ Top <= Top' /\ complete <= complete' /\ (opening => Top = complete - 1)
      /\ (~opening => Top = complete)
  <2>1. complete \in Nat /\ complete + 1 \in 0..MaxRecordings /\ MaxRecordings \in Nat
    BY <1>4, Ranges DEF Ids
  <2>2. complete # NoId
    BY <2>1 DEF NoId
  <2> QED BY <1>4, <2>1, <2>2 DEF Top, NoId, Inv, Window
<1>6. /\ Len(R) \in Nat /\ k \in Nat \ {0} /\ R \in Seq(Recording) /\ F \in Seq(Frame)
      /\ DOMAIN R = 1..Len(R) /\ DOMAIN R' = 1..(k - n) /\ k - n \in 1..(k - n)
      /\ ~opening => R # << >> /\ Growing(R[Len(R)]) /\ R[Len(R)].id = complete
  <2>1. ~opening => R # << >> /\ Growing(R[Len(R)]) /\ R[Len(R)].id = complete
    BY LastGrows
  <2>2. R \in Seq(Recording) /\ F \in Seq(Frame) /\ Len(R) \in Nat /\ DOMAIN R = 1..Len(R)
    BY Ranges
  <2>3. ~opening => Len(R) # 0
    BY <2>1, <2>2
  <2>4. k \in Nat \ {0}
    BY <2>2, <2>3
  <2>5. DOMAIN R' = 1..Len(R') /\ Len(R') = k - n /\ n \in 0..(k - 1)
    BY <1>3
  <2>6. k - n \in 1..(k - n)
    <3> HIDE DEF k
    <3> QED BY <2>4, <2>5
  <2> HIDE DEF k
  <2> QED BY <2>1, <2>2, <2>4, <2>5, <2>6
<1> HIDE DEF start, frame, r, G
\* A recording before the last is one of the old ones, and does not grow.
<1>7. ASSUME NEW i \in 1..(k - n - 1)
      PROVE  /\ i + n \in DOMAIN R /\ R'[i] = R[i + n]
             /\ R[i + n].id = complete - (k - n) + i
             /\ R[i + n].id < complete /\ R[i + n].id \in Nat
             /\ ~Growing(R[i + n])
             /\ R[i + n].sample_file_bytes >= 1
  <2>1. i + n \in DOMAIN R /\ i + n \in 1..(k - 1)
    BY <1>3, <1>6
  <2>2. /\ R[i + n].id = (Top - Len(R)) + (i + n) /\ R[i + n].id \in Nat
        /\ R[i + n].sample_file_bytes \in 1..MaxBytes
    BY <2>1, RecentRanges
  <2>3. R[i + n].id = complete - (k - n) + i /\ R[i + n].id < complete
    <3>1. n \in Nat /\ n <= k - 1 /\ i \in Nat /\ i < k - n /\ Top - Len(R) = complete - k
      <4>1. Top - Len(R) = complete - k
        BY <1>5, <1>6
      <4>2. n \in Nat /\ n \in 0..(k - 1) /\ k \in Nat
        BY <1>2, <1>3, <1>6
      <4> HIDE DEF k
      <4> QED BY <4>1, <4>2
    <3>2. R[i + n].id = (complete - k) + (i + n)
      BY <2>2, <3>1
    <3>3. k \in Nat /\ complete \in Nat
      BY <1>5, <1>6
    <3> HIDE DEF k
    <3> QED BY <3>1, <3>2, <3>3
  <2>4. ~Growing(R[i + n])
    <3>1. Growing(R[i + n]) => R[i + n].id = recording_id
      BY <2>1 DEF Inv, Window
    <3>2. recording_id \in {NoId, complete}
      BY DEF Inv, Window
    <3> QED BY <2>2, <2>3, <3>1, <3>2, <1>5 DEF NoId
  <2>5. R[i + n].sample_file_bytes >= 1
    BY <2>1 DEF Inv, Window
  <2>6. R'[i] = R[i + n]
    BY <1>3
  <2> HIDE DEF k
  <2> QED BY <2>1, <2>2, <2>3, <2>4, <2>5, <2>6
<1>8. ASSUME NEW i \in DOMAIN R'
      PROVE  i \in 1..(k - n - 1) \/ (i = k - n /\ R'[i] = r)
  BY <1>6, <1>3 DEF r
<1>9. Typed'
  <2>1. io' \in [op : {"Idle"} \cup Outcomes \cup IoSteps, n : 0..MaxBytes]
    BY SMTT(30), <1>4, Ranges DEF Inv, Typed, Outcomes
  <2>2. F' \in Seq(Frame) /\ recording_id' \in Ids \cup {NoId}
    BY <1>3, <1>4 DEF Shortens
  <2> QED BY <1>3, <1>4, <1>5, <2>1, <2>2 DEF Inv, Typed, poolVars, dbVars
<1>10. /\ G \in Seq(Frame) /\ Len(G) = Len(F) + 1 /\ Len(F) \in Nat /\ G[Len(F) + 1] = frame
       /\ \A j \in 1..Len(F) : G[j] = F[j] /\ j \in DOMAIN F
       /\ frame.recording_id = complete /\ frame.sample_start = start /\ frame.len = len
  BY <1>3, <1>6 DEF G, frame
<1>11. /\ m \in 0..Len(G) /\ m < Len(G) /\ F' \in Seq(Frame) /\ Len(F') = Len(G) - m
       /\ \A j \in 1..(Len(G) - m) : F'[j] = G[j + m]
       /\ Len(F') \in Nat \ {0} /\ F'[Len(F')] = frame
  <2>1. G # << >>
    BY <1>10
  <2>2. /\ m \in 0..Len(G) /\ m < Len(G) /\ F' \in Seq(Frame) /\ Len(F') = Len(G) - m
        /\ \A j \in 1..(Len(G) - m) : F'[j] = G[j + m]
    BY <1>3, <2>1 DEF Shortens
  <2>3. Len(F') \in 1..(Len(G) - m) /\ Len(F') + m = Len(F) + 1
    BY <1>10, <2>2
  <2>4. F'[Len(F')] = G[Len(F') + m] /\ Len(F') \in Nat \ {0}
    BY <2>2, <2>3, <1>10
  <2>5. F'[Len(F')] = frame
    BY <2>3, <2>4, <1>10
  <2> QED BY <2>2, <2>4, <2>5
\* The new frame continues the last one, or starts the next recording.
<1>12. \A j \in 1..(Len(G) - 1) :
         \/ G[j + 1].recording_id = G[j].recording_id
            /\ G[j + 1].sample_start = G[j].sample_start + G[j].len
         \/ G[j + 1].recording_id = G[j].recording_id + 1 /\ G[j + 1].sample_start = 0
  <2>1. SUFFICES ASSUME NEW j \in 1..Len(F)
                 PROVE  \/ G[j + 1].recording_id = F[j].recording_id
                           /\ G[j + 1].sample_start = F[j].sample_start + F[j].len
                        \/ G[j + 1].recording_id = F[j].recording_id + 1
                           /\ G[j + 1].sample_start = 0
    BY <1>10
  <2>2. CASE j < Len(F)
    <3>1. G[j + 1] = F[j + 1] /\ j \in 1..(Len(F) - 1)
      BY <1>10, <2>2
    <3> QED BY <3>1 DEF Inv, Window, FramesContiguous
  <2>3. CASE j = Len(F)
    <3>1. F # << >> /\ R # << >>
      BY <2>3, <1>6 DEF Inv, Window
    <3>2. End(F[j]) = BytePos(R[Len(R)].id, R[Len(R)].sample_file_bytes)
      BY <2>3, <3>1 DEF Inv, Window, Last
    <3>3. /\ F[j].recording_id = R[Len(R)].id
          /\ F[j].sample_start + F[j].len = R[Len(R)].sample_file_bytes
      BY <3>2 DEF End, BytePos
    <3>4. R[Len(R)].id = Top
      <4>1. Len(R) \in DOMAIN R
        BY <1>6, <3>1
      <4>2. R[Len(R)].id = (Top - Len(R)) + Len(R)
        BY <4>1, RecentRanges
      <4> QED BY <4>2, <1>6, Ranges
    <3>5. G[j + 1] = frame
      BY <1>10, <2>3
    <3>6. CASE opening
      <4>1. start = 0 /\ complete = Top + 1
        BY <1>5, <3>6 DEF start
      <4> QED BY <1>10, <3>3, <3>4, <3>5, <4>1
    <3>7. CASE ~opening
      <4>1. start = R[Len(R)].sample_file_bytes /\ complete = Top
        BY <1>5, <3>7 DEF start
      <4> QED BY <1>10, <3>3, <3>4, <3>5, <4>1
    <3> QED BY <3>6, <3>7
  <2> QED BY <2>2, <2>3, <1>10
<1>13. FramesContiguous'
  <2>1. SUFFICES ASSUME NEW i \in 1..(Len(F') - 1)
                 PROVE  \/ F'[i + 1].recording_id = F'[i].recording_id
                           /\ F'[i + 1].sample_start = F'[i].sample_start + F'[i].len
                        \/ F'[i + 1].recording_id = F'[i].recording_id + 1
                           /\ F'[i + 1].sample_start = 0
    BY DEF FramesContiguous
  <2>2. i + m \in 1..(Len(G) - 1) /\ (i + 1) + m = (i + m) + 1
        /\ i \in 1..(Len(G) - m) /\ i + 1 \in 1..(Len(G) - m)
    BY <1>10, <1>11
  <2>3. F'[i] = G[i + m] /\ F'[i + 1] = G[(i + m) + 1]
    BY <1>11, <2>2
  <2> QED BY <2>2, <2>3, <1>12
<1>14. \A j \in DOMAIN F' : F'[j].recording_id <= Top'
  <2>1. \A j \in 1..Len(F) : F[j] \in Frame /\ F[j].recording_id <= Top
    BY <1>10, <1>6 DEF Inv, Window
  <2>2. \A j \in 1..Len(F) : F[j].recording_id \in Nat
    <3>1. \A id \in Ids : id \in Nat
      BY Ranges DEF Ids
    <3>2. \A j \in 1..Len(F) : F[j].recording_id \in Ids
      BY <2>1 DEF Frame
    <3> QED BY <3>1, <3>2
  <2>3. \A j \in 1..Len(G) : j \in 1..Len(F) \/ j = Len(F) + 1
    BY <1>10
  <2>4. \A j \in 1..Len(G) : G[j].recording_id <= complete
    <3>1. \A j \in 1..Len(F) : F[j].recording_id <= complete
      BY SMTT(30), <1>5, <2>1, <2>2, Ranges
    <3>2. complete <= complete
      BY <1>5
    <3> QED BY <1>10, <2>3, <3>1, <3>2
  <2>5. \A j \in DOMAIN F' : j \in 1..(Len(G) - m) /\ j + m \in 1..Len(G)
    BY <1>10, <1>11
  <2> QED BY <1>5, <1>11, <2>4, <2>5
<1>15. Window'
  <2>1. recording_id' \in {NoId, complete'}
    BY <1>4
  <2>2. complete' >= cum_recordings'
    <3>1. complete >= cum_recordings
      BY DEF Inv, Window
    <3> QED BY <3>1, <1>4, <1>5, Ranges DEF dbVars
  <2>3. ASSUME NEW i \in DOMAIN R'
        PROVE  /\ R'[i].id = Top' - Len(R') + i
               /\ R'[i].sample_file_bytes >= 1
               /\ Growing(R'[i]) => R'[i].id = recording_id'
    <3>1. CASE i \in 1..(k - n - 1)
      BY <1>3, <1>5, <1>7, <3>1
    <3>2. CASE i = k - n /\ R'[i] = r
      BY <1>3, <1>4, <1>5, <1>6, <3>2
    <3> QED BY <1>8, <3>1, <3>2
  <2>4. recording_id' # NoId => /\ R' # << >>
                                /\ Uncommitted(R'[Len(R')]) /\ Growing(R'[Len(R')])
    <3>1. R'[Len(R')] = r /\ (recording_id' # NoId => ~close)
      BY <1>3, <1>4 DEF r
    <3> QED BY <1>3, <1>6, <3>1
  <2>5. R' # << >> /\ F' # << >>
    BY <1>3, <1>6, <1>11
  <2>6. End(Last(F')) = BytePos(Last(R').id, Last(R').sample_file_bytes)
    <3>1. Last(F') = frame /\ Last(R') = r
      BY <1>3, <1>11 DEF Last, r
    <3> QED BY <1>3, <1>10, <3>1 DEF End
  <2> QED BY <1>13, <1>14, <2>1, <2>2, <2>3, <2>4, <2>5, <2>6 DEF Window
<1>16. Current' = Current /\ Busy' = Busy /\ file' = file
       /\ cum_recordings' = cum_recordings /\ committed' = committed
  BY <1>4 DEF Current, Busy, dbVars
\* The recording being synced is complete, and still needed.
<1>17. SyncedIsRecent'
  <2>1. SUFFICES ASSUME io.op \in {"Sync", "SyncDir", "Synced"}
                 PROVE  \E i \in DOMAIN R' : /\ R'[i].id = writer_state.recording_id
                                             /\ R'[i].sample_file_bytes = writer_state.written
                                             /\ ~Growing(R'[i])
    BY <1>4 DEF SyncedIsRecent
  <2>2. PICK i \in DOMAIN R : /\ R[i].id = writer_state.recording_id
                              /\ R[i].sample_file_bytes = writer_state.written
                              /\ ~Growing(R[i])
    BY <2>1 DEF Inv, Working, SyncedIsRecent
  <2>3. i \in 1..(k - 1)
    <3>1. ~opening => i # Len(R)
      BY <2>2, <1>6
    <3> QED BY <3>1, <1>6
  <2>4. StillNeeded(R[i], F', writer_state)
    BY <2>2 DEF StillNeeded
  <2>5. i > n
    <3>1. i \notin 1..n
      BY <1>3, <2>4
    <3>2. i \in Nat \ {0} /\ n \in Nat
      BY <1>2, <1>6, <2>3
    <3> QED BY <3>1, <3>2
  <2>6. i - n \in 1..(k - n - 1) /\ i - n \in DOMAIN R' /\ (i - n) + n = i
    <3>1. n \in Nat /\ k \in Nat
      BY <1>2, <1>6
    <3> QED BY <2>3, <2>5, <3>1, <1>6
  <2>7. R'[i - n] = R[(i - n) + n]
    BY <2>6, <1>3
  <2> QED BY <2>2, <2>6, <2>7
<1>18. \A i \in DOMAIN R' :
         committed' <= R'[i].id /\ R'[i].id < Current' /\ ~Deleted(R'[i]) =>
             ~Growing(R'[i]) /\ IsDurable(file'[R'[i].id], R'[i].sample_file_bytes)
  <2>1. SUFFICES ASSUME NEW i \in DOMAIN R', committed <= R'[i].id, R'[i].id < Current,
                        ~Deleted(R'[i])
                 PROVE  ~Growing(R'[i]) /\ IsDurable(file[R'[i].id], R'[i].sample_file_bytes)
    BY <1>16
  <2>2. CASE i \in 1..(k - n - 1)
    BY <2>1, <2>2, <1>7 DEF Inv, Working, Durable
  <2>3. CASE i = k - n /\ R'[i] = r
    <3>1. complete < Current /\ Current <= Top + 1 /\ Current \in Nat /\ committed <= complete
      <4>1. complete < Current /\ committed <= complete
        BY <1>3, <2>1, <2>3
      <4>2. Current <= Top + 1 /\ Current \in Nat
        BY Ranges DEF Inv, Working
      <4> QED BY <4>1, <4>2
    <3>2. ~opening /\ k = Len(R)
      BY <1>5, <3>1
    <3>3. ~Deleted(R[k]) /\ R[k].id = complete /\ k \in DOMAIN R
      BY <1>3, <1>6, <2>1, <2>3, <3>2
    <3>4. ~Growing(R[k])
      BY <3>1, <3>3 DEF Inv, Working
    <3> QED BY <3>2, <3>4, <1>6
  <2> QED BY <1>8, <2>2, <2>3
<1>19. \A i \in DOMAIN R' : R'[i].id >= committed' => Uncommitted(R'[i])
  <2>1. SUFFICES ASSUME NEW i \in DOMAIN R', R'[i].id >= committed PROVE Uncommitted(R'[i])
    BY <1>16
  <2>2. CASE i \in 1..(k - n - 1)
    BY <2>1, <2>2, <1>7 DEF Inv, Working
  <2>3. CASE i = k - n /\ R'[i] = r
    BY <2>3, <1>3
  <2> QED BY <1>8, <2>2, <2>3
<1>20. Current < cum_recordings => \A i \in DOMAIN R' : R'[i].id >= cum_recordings
  <2>1. SUFFICES ASSUME Current < cum_recordings, NEW i \in DOMAIN R'
                 PROVE  R'[i].id >= cum_recordings
    OBVIOUS
  <2>2. CASE i \in 1..(k - n - 1)
    BY <2>1, <2>2, <1>7 DEF Inv, Working
  <2>3. CASE i = k - n /\ R'[i] = r
    BY <2>3, <1>3 DEF Inv, Window
  <2> QED BY <1>8, <2>2, <2>3
<1>21. Working'
  <2>1. Current' <= Top' + 1
    BY <1>5, <1>16, Ranges DEF Inv, Working
  <2>2. Busy' \/ writer_state'.file => Current' \in cum_recordings'..Top'
    BY <1>4, <1>5, <1>16, Ranges DEF Inv, Working
  <2>3. /\ FileIffWritten' /\ (Busy' => ~writer_state'.file)
        /\ writer_state' = writer_state
    BY <1>4, <1>16 DEF Inv, Working, FileIffWritten
  <2>4. io' = io \/ io'.op = "Start"
    BY <1>4
  <2>5. /\ writer_state.file \/ io'.op \in {"Write", "Sync", "SyncDir", "Synced"} =>
             file[Current].exists /\ file[Current].size = writer_state.written
        /\ io'.op = "Create" => writer_state.written = 0
        /\ io'.op = "Written" => /\ file[Current].exists
                                 /\ file[Current].size = writer_state.written + io'.n
                                 /\ io'.n > 0
        /\ io'.op \in {"Create", "Write", "Written"} => writer_state.written + io'.n <= MaxBytes
        /\ \A id \in Ids : ~file[id].exists => file[id].size = 0
        /\ io'.op \in {"SyncDir", "Synced"} => file[Current].synced
        /\ io'.op = "Synced" => ~file[Current].pending
    BY <2>4 DEF Inv, Working
  <2> QED BY <1>16, <1>17, <1>18, <1>19, <1>20, <2>1, <2>2, <2>3, <2>5 DEF Working, Durable
<1>22. Flushing'
  <2>1. flush.cum # NoId => flush.cum <= complete'
    <3>1. flush.cum # NoId => flush.cum <= complete /\ flush.cum \in Nat
      BY DEF Inv, Flushing, Typed
    <3> QED BY <3>1, <1>5, Ranges
  <2> QED BY <1>4, <1>16, <2>1
       DEF Inv, Flushing, UnlinkedIsGarbage, CommittedDurable, Durable, poolVars, dbVars
<1>23. Stopped'
  BY <1>4 DEF Stopped
<1> QED BY <1>9, <1>15, <1>21, <1>22, <1>23 DEF Inv

-----------------------------------------------------------------------------
(* The invariant of the specification.                                     *)

LEMMA InitInv ==
  ASSUME Init
  PROVE  Inv
<1>1. MaxRecordings \in Nat \ {0} /\ MaxBytes \in Nat
  BY RecordingsAssumption DEF RecordingsAssumption
<1>2. << >> \in Rows /\ DOMAIN row = {}
  <2>1. << >> \in [{} -> 1..MaxBytes]
    OBVIOUS
  <2> QED BY <2>1 DEF Rows, Init
<1>3. NoFile \in FileRecord /\ ~NoFile.exists /\ NoFile.size = 0
  BY <1>1 DEF NoFile, FileRecord
<1>4. /\ flush.pc = "Idle" /\ flush.cum = NoId /\ flush.gced = {} /\ io.op = "Idle"
      /\ Current = 0 /\ ~writer_state.file /\ writer_state.written = 0
      /\ DOMAIN recent_recordings = {} /\ DOMAIN recent_frames = {} /\ Top = -1
  BY DEF Init, NoFlush, Idle, Current, Top
<1>5. Typed
  BY <1>1, <1>2, <1>3 DEF Init, Typed, NoFlush, Idle, FileRecord
<1>6. Window
  BY <1>4 DEF Init, Window, FramesContiguous
<1>7. Working
  BY <1>1, <1>3, <1>4 DEF Init, Working, FileIffWritten, SyncedIsRecent, Busy
<1>8. Flushing
  BY <1>2, <1>4 DEF Init, Flushing, UnlinkedIsGarbage, CommittedDurable
<1>9. Stopped
  BY DEF Init, Stopped
<1> QED BY <1>5, <1>6, <1>7, <1>8, <1>9 DEF Inv

LEMMA NextKeepsInv ==
  ASSUME Inv, Next
  PROVE  Inv'
<1>1. CASE Flush
  BY <1>1, FlushCollectKeepsInv, FlushCommitKeepsInv, FlushFailsKeepsInv, FlushApplyKeepsInv
     DEF Flush
<1> QED BY <1>1, WriteKeepsInv, WorkerKeepsInv, HandleNotifyKeepsInv, CollectKeepsInv,
           CrashKeepsInv, AbandonKeepsInv, InitialRotationKeepsInv DEF Next

LEMMA StutterKeepsInv ==
  ASSUME Inv, UNCHANGED vars
  PROVE  Inv'
<1>1. UNCHANGED <<recent_recordings, recent_frames, complete, committed, flush_ready,
                  writer_state, to_delete, recording_id, io, flush, gc, garbage_needs_unlink,
                  garbage_unlinked, file, row, garbage, cum_recordings, process>>
  BY DEF vars, streamVars, threadVars, poolVars, dbVars
<1>2. Typed' /\ Window'
  BY <1>1 DEF Inv, Typed, Window, FramesContiguous, Top
<1>3. Working' /\ Flushing' /\ Stopped'
  BY <1>1 DEF Inv, Working, Flushing, Stopped, FileIffWritten, SyncedIsRecent, Busy, Current,
              Top, Durable, UnlinkedIsGarbage, CommittedDurable
<1> QED BY <1>2, <1>3 DEF Inv

\* In every reachable state, crashes and restarts included, the stream, the
\* worker's file, the flush and the tables agree as Inv says.
THEOREM InvHolds == Spec => []Inv
<1>1. Inv /\ [Next]_vars => Inv'
  BY NextKeepsInv, StutterKeepsInv
<1> QED BY InitInv, <1>1, PTL DEF Spec

\* Every row of the recording table stands for a whole sample file whose
\* bytes and directory entry are on disk, in every state, crashes included.
THEOREM RowsAreDurable == Spec => []CommittedDurable
<1>1. Inv => CommittedDurable
  BY DEF Inv, Flushing
<1> QED BY InvHolds, <1>1, PTL

-----------------------------------------------------------------------------
(* The parts of the invariant.                                             *)

\* The Writer starts each recording with a key frame.
KeyFirst ==
  \A j \in DOMAIN recent_frames :
    recent_frames[j].sample_start = 0 => recent_frames[j].is_key

\* Of the recordings before position, frames are held of the last at most.
Passed(recents, frames, position) ==
  \A i \in DOMAIN recents :
    recents[i].id < position /\ ~Deleted(recents[i]) =>
      frames # << >> /\ frames[1].recording_id >= recents[i].id

\* The last recording that a flush inserts stays alive, and its frames last.
LastInserted ==
  flush.pc # "Idle" =>
    /\ ~pinned
    /\ flush.cum # NoId =>
         /\ recent_frames # << >> /\ recent_frames[1].recording_id >= flush.cum - 1
         /\ \A i \in DOMAIN recent_recordings :
              recent_recordings[i].id = flush.cum - 1 => ~Deleted(recent_recordings[i])

\* Of the recordings a flush has passed, only committed ones are left.
Settled ==
  \A i \in DOMAIN recent_recordings :
    recent_recordings[i].id < committed => ~Uncommitted(recent_recordings[i])

\* The rows queued for deletion are the oldest.
QueuedOldest ==
  flush.pc # "Committed" =>
    \A d \in to_delete, id \in DOMAIN row : id < d => id \in to_delete

-----------------------------------------------------------------------------
(* The window of frames.                                                   *)

\* FramesContiguous, of any sequence of frames.
Contiguous(s) ==
  \A i \in 1..(Len(s) - 1) :
    \/ /\ s[i + 1].recording_id = s[i].recording_id
       /\ s[i + 1].sample_start = s[i].sample_start + s[i].len
    \/ /\ s[i + 1].recording_id = s[i].recording_id + 1
       /\ s[i + 1].sample_start = 0

LEMMA FrameTypes ==
  ASSUME NEW s \in Seq(Frame), NEW i \in 1..Len(s)
  PROVE  /\ s[i] \in Frame /\ s[i].recording_id \in Nat /\ s[i].is_key \in BOOLEAN
         /\ s[i].sample_start \in Nat /\ s[i].len \in Nat /\ s[i].len >= 1
<1>1. s[i] \in Frame
  OBVIOUS
<1>2. FrameSizes \subseteq 1..MaxBytes /\ MaxBytes \in Nat /\ MaxRecordings \in Nat
  BY RecordingsAssumption DEF RecordingsAssumption
<1>3. /\ s[i].recording_id \in Ids /\ s[i].is_key \in BOOLEAN
      /\ s[i].sample_start \in 0..MaxBytes /\ s[i].len \in FrameSizes
  BY <1>1 DEF Frame
<1>4. s[i].recording_id \in Nat
  BY <1>2, <1>3 DEF Ids
<1>5. s[i].len \in 1..MaxBytes
  BY <1>2, <1>3
<1> QED BY <1>1, <1>2, <1>3, <1>4, <1>5

LEMMA FramesOrdered ==
  ASSUME NEW s \in Seq(Frame), Contiguous(s), NEW i \in 1..Len(s), NEW j \in i..Len(s)
  PROVE  s[i].recording_id <= s[j].recording_id
<1> DEFINE bad == {k \in i..Len(s) : ~(s[i].recording_id <= s[k].recording_id)}
<1>1. SUFFICES bad = {}
  OBVIOUS
<1>2. SUFFICES ASSUME bad # {} PROVE FALSE
  OBVIOUS
<1>3. bad \subseteq Nat
  OBVIOUS
<1>4. PICK k \in bad : \A l \in bad : k <= l
  <2> HIDE DEF bad
  <2> QED BY <1>2, <1>3, LeastExists
<1>5. k \in i..Len(s) /\ ~(s[i].recording_id <= s[k].recording_id) /\ s[i].recording_id \in Nat
  BY FrameTypes
<1>6. k # i
  BY <1>5
<1>7. k - 1 \in i..Len(s) /\ k - 1 \in 1..(Len(s) - 1) /\ (k - 1) + 1 = k
  BY <1>5, <1>6
<1>8. s[i].recording_id <= s[k - 1].recording_id
  <2>1. k - 1 \notin bad
    BY <1>4, <1>5, <1>7
  <2> QED BY <2>1, <1>7
<1>9. s[k].recording_id \in {s[k - 1].recording_id, s[k - 1].recording_id + 1}
  BY <1>7 DEF Contiguous
<1>10. s[k - 1].recording_id \in Nat
  <2>1. k - 1 \in 1..Len(s)
    BY <1>7
  <2> QED BY <2>1, FrameTypes
<1> QED BY <1>5, <1>8, <1>9, <1>10

\* A recording that starts after the first frame's does so in the window.
LEMMA StartIsHeld ==
  ASSUME NEW s \in Seq(Frame), Contiguous(s), s # << >>, NEW id \in Nat,
         s[1].recording_id < id, id <= s[Len(s)].recording_id
  PROVE  \E j \in 2..Len(s) :
           /\ s[j].recording_id = id /\ s[j].sample_start = 0
           /\ \A k \in 1..(j - 1) : s[k].recording_id < id
<1> DEFINE from == {k \in 1..Len(s) : s[k].recording_id >= id}
<1>1. Len(s) \in from /\ from \subseteq Nat
  OBVIOUS
<1>2. PICK j \in from : \A l \in from : j <= l
  <2> HIDE DEF from
  <2> QED BY <1>1, LeastExists
<1>3. j \in 1..Len(s) /\ s[j].recording_id >= id /\ 1 \in 1..Len(s)
  OBVIOUS
<1>4. j # 1 /\ s[1].recording_id \in Nat
  BY <1>3, FrameTypes
<1>5. j \in 2..Len(s) /\ j - 1 \in 1..(Len(s) - 1) /\ (j - 1) + 1 = j /\ j - 1 \in 1..Len(s)
  BY <1>3, <1>4
<1>6. ASSUME NEW k \in 1..(j - 1) PROVE s[k].recording_id < id
  <2>1. k \in 1..Len(s) /\ k \notin from
    BY <1>2, <1>3
  <2>2. s[k].recording_id \in Nat
    BY <2>1, FrameTypes
  <2> QED BY <2>1, <2>2
<1>7. s[j - 1].recording_id < id /\ s[j - 1].recording_id \in Nat
  BY <1>5, <1>6, FrameTypes
<1>8. s[j].recording_id = s[j - 1].recording_id + 1 /\ s[j].sample_start = 0
  <2>1. s[j].recording_id # s[j - 1].recording_id
    BY <1>3, <1>7
  <2> QED BY <2>1, <1>5 DEF Contiguous
<1>9. s[j].recording_id = id
  BY <1>3, <1>7, <1>8, FrameTypes, <1>5
<1>10. \A k \in 1..(j - 1) : s[k].recording_id < id
  BY <1>6
<1> HIDE DEF from
<1> QED BY <1>5, <1>8, <1>9, <1>10

\* Where prune_front stops.
Wanted(frames, pos, i) ==
  /\ TotalSampleBytes(SubSeq(frames, i, Len(frames))) <= BytesForWriter
  /\ Precedes(pos, End(frames[i]))

LEMMA PruneCountStops ==
  ASSUME NEW frames \in Seq(Frame), NEW pos
  PROVE  LET n == PruneCount(frames, pos)
         IN  /\ n \in 0..LastGopI(frames)
             /\ n = LastGopI(frames) \/ Wanted(frames, pos, n + 1)
             /\ \A k \in 0..(n - 1) : ~Wanted(frames, pos, k + 1)
<1> DEFINE last == LastGopI(frames)
           S == {n \in 0..last : n = last \/ Wanted(frames, pos, n + 1)}
<1>1. last \in Nat
  BY LastGopIsFrame
<1>2. S \subseteq Nat /\ last \in S
  BY <1>1
<1>3. PruneCount(frames, pos) = Min(S)
  BY DEF PruneCount, Wanted
<1>4. Min(S) \in S /\ \A k \in S : Min(S) <= k
  BY <1>2, MinIsLeast, Zenon
<1> DEFINE n == Min(S)
<1> HIDE DEF n
<1>5. n \in S /\ \A k \in S : n <= k
  BY <1>4 DEF n
<1>6. ASSUME NEW k \in 0..(n - 1) PROVE ~Wanted(frames, pos, k + 1)
  <2>1. n \in 0..last
    BY <1>5
  <2>2. k \in 0..last /\ k < n
    BY <2>1, <1>1
  <2>3. k \notin S
    BY <1>5, <2>1, <2>2
  <2> QED BY <2>2, <2>3
<1>7. PruneCount(frames, pos) = n
  BY <1>3 DEF n
<1> QED BY <1>1, <1>5, <1>6, <1>7

LEMMA KeysLead ==
  ASSUME NEW frames \in Seq(Frame), NEW j \in 1..Len(frames), frames[j].is_key
  PROVE  j - 1 <= LastGopI(frames)
<1> DEFINE keys == {i \in 1..Len(frames) : frames[i].is_key}
<1>1. j \in keys
  OBVIOUS
<1>2. /\ keys # {} /\ keys \subseteq 0..Len(frames) /\ Len(frames) \in Nat
  OBVIOUS
<1> HIDE DEF keys
<1>3. Max(keys) \in keys /\ \A i \in keys : i <= Max(keys)
  BY <1>2, MaxIsGreatest
<1>4. LastGopI(frames) = Max(keys) - 1
  BY <1>2 DEF LastGopI, keys
<1>5. j <= Max(keys) /\ Max(keys) \in Int
  <2>1. Max(keys) \in 0..Len(frames) /\ Len(frames) \in Nat
    BY <1>2, <1>3
  <2> QED BY <1>1, <1>3, <2>1
<1> QED BY <1>4, <1>5

\* Once recording id is written, prune_front keeps frames of it at most.
LEMMA PrunedPast ==
  ASSUME NEW s \in Seq(Frame), s # << >>, Contiguous(s),
         \A j \in 1..Len(s) : s[j].sample_start = 0 => s[j].is_key,
         NEW id \in Nat, id <= s[Len(s)].recording_id,
         NEW f, f = PruneFront(s, BytePos(id + 1, 0))
  PROVE  f # << >> /\ f[1].recording_id >= id
<1> DEFINE pos == BytePos(id + 1, 0)
           n == PruneCount(s, pos)
<1>1. /\ n \in 0..Len(s) /\ n < Len(s) /\ Len(f) = Len(s) - n /\ f \in Seq(Frame)
      /\ \A i \in 1..(Len(s) - n) : f[i] = s[i + n]
  <2>1. PICK k \in 0..Len(s) :
           /\ k < Len(s) /\ k = n /\ f \in Seq(Frame) /\ Len(f) = Len(s) - k
           /\ \A i \in 1..(Len(s) - k) : f[i] = s[i + k]
    BY PruneFrontIsSuffix
  <2> QED BY <2>1
<1> HIDE DEF n
<1>2. f # << >> /\ f[1] = s[n + 1] /\ n + 1 \in 1..Len(s)
  <2>1. 1 \in 1..(Len(s) - n) /\ 1 + n = n + 1 /\ n + 1 \in 1..Len(s)
    BY <1>1
  <2> QED BY <1>1, <2>1
<1>3. s[n + 1].recording_id \in Nat /\ s[1].recording_id \in Nat /\ 1 \in 1..Len(s)
  BY <1>1, <1>2, FrameTypes
<1>4. n = LastGopI(s) \/ Wanted(s, pos, n + 1)
  BY PruneCountStops DEF n
<1>5. CASE Wanted(s, pos, n + 1)
  BY <1>2, <1>3, <1>5 DEF Wanted, Precedes, End, BytePos
<1>6. CASE s[1].recording_id >= id
  <2>1. s[1].recording_id <= s[n + 1].recording_id
    BY <1>2, <1>3, FramesOrdered
  <2> QED BY <1>2, <1>3, <1>6, <2>1
<1>7. CASE n = LastGopI(s) /\ s[1].recording_id < id
  <2>1. PICK j \in 2..Len(s) : s[j].recording_id = id /\ s[j].sample_start = 0
    BY <1>7, StartIsHeld
  <2>2. j \in 1..Len(s) /\ s[j].is_key
    BY <2>1
  <2>3. j - 1 <= n
    BY <1>7, <2>2, KeysLead
  <2>4. n + 1 \in j..Len(s)
    <3>1. n \in Nat /\ j \in Nat /\ n + 1 <= Len(s)
      BY <1>1, <1>2, <2>2
    <3> QED BY <2>3, <3>1
  <2>5. s[j].recording_id <= s[n + 1].recording_id
    BY <2>2, <2>4, FramesOrdered
  <2> QED BY <1>2, <2>1, <2>5
<1> QED BY <1>3, <1>4, <1>5, <1>6, <1>7

-----------------------------------------------------------------------------
(* The worker's preparations, recording by recording.                      *)

\* The file at Current exists, or its fate is being decided.
InHand == writer_state.file \/ io.op \notin {"Idle", "Start", "Create"}

Rechosen(n, m, ws) ==
  /\ n \in 0..Len(recent_recordings)
  /\ recent_recordings' \in Seq(Recording)
  /\ Len(recent_recordings') = Len(recent_recordings) - n
  /\ \A i \in 1..Len(recent_recordings') :
       LET r == recent_recordings[i + n]
           s == recent_recordings'[i]
       IN  /\ i + n \in DOMAIN recent_recordings
           /\ s.id = r.id /\ s.sample_file_bytes = r.sample_file_bytes
           /\ Uncommitted(s) <=> Uncommitted(r)
           /\ Deleted(r) => Deleted(s)
           /\ io.op = "Aborted" /\ r.id = Current => Deleted(s)
           /\ r.id \in ws.recording_id..(Current' - 1) => Deleted(s)
           /\ Deleted(s) => \/ Deleted(r)
                            \/ io.op = "Aborted" /\ r.id = Current
                            \/ /\ r.id \in ws.recording_id..(Current' - 1)
                               /\ Behind(s, WrittenOf(s, ws), recent_frames')
  /\ \A i \in 1..n :
       LET r == recent_recordings[i]
       IN  /\ i \in DOMAIN recent_recordings
           /\ io.op = "Aborted"
           /\ Deleted(r) \/ ~Uncommitted(r) \/ r.id >= Current
           /\ recent_frames' # << >> => r.id < recent_frames'[1].recording_id
  /\ Shortens(recent_frames, recent_frames', m)
  /\ ws \in WriterState
  /\ \/ io.op = "Start" /\ ws = writer_state /\ recent_frames' = recent_frames
     \/ /\ io.op = "Written"
        /\ ws.recording_id = Current /\ ws.file
        /\ ws.written = writer_state.written + io.n
        /\ recent_frames' = PruneFront(recent_frames, Pos(ws))
     \/ /\ io.op \in {"Synced", "Aborted"}
        /\ ws = After(Current) /\ ws.recording_id = Current + 1
        /\ recent_frames' = PruneFront(recent_frames, Pos(ws))
  /\ Current' \in Nat
  /\ \/ Current' = ws.recording_id /\ writer_state'.written = ws.written
     \/ Current' > ws.recording_id /\ writer_state'.written = 0
  /\ ws.file => Current' = ws.recording_id /\ InHand'
  /\ io'.op \in {"Abort", "Idle", "Create", "Write", "Sync"}
  /\ io'.op = "Abort" =>
       \A i \in 1..Len(recent_recordings') :
         recent_recordings'[i].id = Current' =>
           Behind(recent_recordings'[i], writer_state'.written, recent_frames')
  /\ io'.op \in {"Create", "Write"} =>
       \A i \in 1..Len(recent_recordings') :
         recent_recordings'[i].id = Current' =>
           writer_state'.written + io'.n = recent_recordings'[i].sample_file_bytes
  /\ Top' = Top

LEMMA PreparesRechoose ==
  ASSUME Inv, Prepares
  PROVE  /\ WorkerUnchanged
         /\ \E n, m, ws : Rechosen(n, m, ws)
<1> DEFINE R == recent_recordings
<1>1. PICK recents, n, frames, m, ws :
        Prepared(recents, n, frames, m, ws) /\ Choose(recents, frames, ws) /\ WorkerUnchanged
  BY DEF Prepares
<1>2. MayChoose(recents, n, frames, m, ws)
  BY <1>1 DEF Prepared
<1>3. /\ R \in Seq(Recording) /\ recents \in Seq(Recording) /\ Top \in Int /\ Top' = Top
      /\ n \in 0..Len(R) /\ Len(recents) = Len(R) - n
      /\ ws \in WriterState /\ Shortens(recent_frames, frames, m)
  <2>1. /\ recents \in Seq(Recording) /\ n \in 0..Len(R) /\ Len(recents) = Len(R) - n
        /\ ws \in WriterState /\ Shortens(recent_frames, frames, m)
    BY <1>2 DEF MayChoose, Follows
  <2>2. Top' = Top
    BY <1>1 DEF Top, WorkerUnchanged
  <2> QED BY <2>1, <2>2, Ranges
<1>4. ASSUME NEW i \in 1..Len(recents)
      PROVE  /\ i + n \in DOMAIN R
             /\ recents[i].id = R[i + n].id
             /\ recents[i].sample_file_bytes = R[i + n].sample_file_bytes
             /\ Uncommitted(recents[i]) <=> Uncommitted(R[i + n])
             /\ Deleted(recents[i]) <=> \/ Deleted(R[i + n])
                                        \/ io.op = "Aborted" /\ R[i + n].id = Current
             /\ recents[i].id = (Top - Len(recents)) + i
             /\ recents[i].id \in Nat
  <2>1. i + n \in 1..Len(R) /\ i + n \in DOMAIN R /\ i \in 1..(Len(R) - n)
    BY <1>3
  <2>2. R[i + n].id = (Top - Len(R)) + (i + n) /\ R[i + n].id \in Nat
    BY <2>1, RecentRanges
  <2>3. (Top - Len(R)) + (i + n) = (Top - Len(recents)) + i
    BY <1>3
  <2>4. /\ recents[i].id = R[i + n].id
        /\ recents[i].sample_file_bytes = R[i + n].sample_file_bytes
    BY <1>2, <2>1 DEF MayChoose, Follows
  <2>5. /\ Uncommitted(recents[i]) <=> Uncommitted(R[i + n])
        /\ Deleted(recents[i]) <=> \/ Deleted(R[i + n])
                                   \/ io.op = "Aborted" /\ R[i + n].id = Current
    BY <1>1, <1>2 DEF MayChoose, Prepared
  <2> QED BY <2>1, <2>2, <2>3, <2>4, <2>5
<1>5. /\ recent_frames' = frames
      /\ writer_state' \in WriterState
      /\ PassesOver(recents, frames, ws)
      /\ \/ /\ AbortsFile(ws)
            /\ \A i \in 1..Len(recents) :
                 recents[i].id = ws.recording_id => Behind(recents[i], ws.written, frames)
         \/ WaitsForMore(recents, ws)
         \/ \E i \in 1..Len(recents) : GoesOn(recents[i], ws)
  <2>1. Top - Len(recents) \in Int
    BY <1>3
  <2> QED BY <1>1, <1>3, <1>4, <2>1, ChooseOutcome
<1>6. /\ R' \in Seq(Recording) /\ Len(R') = Len(recents) /\ Current' = writer_state'.recording_id
      /\ Current' \in Nat /\ ws.recording_id \in Nat /\ ws.written \in Nat /\ ws.file \in BOOLEAN
  BY <1>3, <1>5, Ranges DEF PassesOver, WriterState, Current
<1>7. ASSUME NEW i \in 1..Len(recents)
      PROVE  /\ R'[i].id = recents[i].id
             /\ R'[i].sample_file_bytes = recents[i].sample_file_bytes
             /\ Uncommitted(R'[i]) <=> Uncommitted(recents[i])
             /\ Deleted(recents[i]) => Deleted(R'[i])
             /\ recents[i].id \in ws.recording_id..(Current' - 1) => Deleted(R'[i])
             /\ Deleted(R'[i]) => \/ Deleted(recents[i])
                                  \/ /\ recents[i].id \in ws.recording_id..(Current' - 1)
                                     /\ Behind(recents[i], WrittenOf(recents[i], ws), frames)
  BY <1>5, <1>6 DEF PassesOver
<1>8. ASSUME NEW i \in 1..Len(recents)
      PROVE  /\ \A w : Behind(recents[i], w, frames) <=> Behind(R'[i], w, recent_frames')
             /\ WrittenOf(recents[i], ws) = WrittenOf(R'[i], ws)
  BY <1>5, <1>7 DEF Behind, WrittenOf
<1>9. /\ \/ io.op = "Start" /\ ws = writer_state /\ frames = recent_frames
         \/ /\ io.op = "Written"
            /\ ws.recording_id = Current /\ ws.file
            /\ ws.written = writer_state.written + io.n
            /\ frames = PruneFront(recent_frames, Pos(ws))
         \/ /\ io.op \in {"Synced", "Aborted"}
            /\ ws = After(Current) /\ ws.recording_id = Current + 1
            /\ frames = PruneFront(recent_frames, Pos(ws))
  <2>1. ASSUME ws = [writer_state EXCEPT !.written = @ + io.n, !.file = TRUE]
        PROVE  /\ ws.recording_id = Current /\ ws.file
               /\ ws.written = writer_state.written + io.n
    <3>1. writer_state \in WriterState
      BY Ranges
    <3> QED BY <2>1, <3>1 DEF WriterState, Current
  <2>2. After(Current).recording_id = Current + 1
    BY DEF After
  <2> QED BY <1>1, <2>1, <2>2 DEF Prepared
<1>10. /\ \/ Current' = ws.recording_id /\ writer_state'.written = ws.written
          \/ Current' > ws.recording_id /\ writer_state'.written = 0
       /\ ws.file => Current' = ws.recording_id /\ InHand'
       /\ io'.op \in {"Abort", "Idle", "Create", "Write", "Sync"}
  <2>1. CASE AbortsFile(ws)
    <3>1. writer_state' = [ws EXCEPT !.file = FALSE] /\ io' = [op |-> "Abort", n |-> 0]
      BY <2>1 DEF AbortsFile
    <3> QED BY <1>3, <1>6, <3>1 DEF WriterState, InHand
  <2>2. CASE WaitsForMore(recents, ws)
    <3>1. ~ws.file /\ io'.op = "Idle"
      BY <2>2 DEF WaitsForMore, Idle
    <3>2. CASE writer_state' = ws
      BY <1>6, <3>1, <3>2
    <3>3. CASE \E i \in 1..Len(recents) :
                 recents[i].id >= ws.recording_id /\ writer_state' = After(recents[i].id)
      <4>1. PICK i \in 1..Len(recents) :
              recents[i].id >= ws.recording_id /\ writer_state' = After(recents[i].id)
        BY <3>3
      <4>2. Current' = recents[i].id + 1 /\ writer_state'.written = 0 /\ recents[i].id \in Nat
        BY <4>1, <1>4, <1>6 DEF After
      <4> QED BY <3>1, <4>1, <4>2, <1>6
    <3> QED BY <2>2, <3>2, <3>3 DEF WaitsForMore
  <2>3. ASSUME NEW i \in 1..Len(recents), GoesOn(recents[i], ws)
        PROVE  /\ \/ Current' = ws.recording_id /\ writer_state'.written = ws.written
                  \/ Current' > ws.recording_id /\ writer_state'.written = 0
               /\ ws.file => Current' = ws.recording_id /\ InHand'
               /\ io'.op \in {"Abort", "Idle", "Create", "Write", "Sync"}
    <3>1. /\ recents[i].id \in Nat /\ recents[i].id >= ws.recording_id
          /\ Current' = recents[i].id /\ writer_state'.written = WrittenOf(recents[i], ws)
          /\ ws.file => recents[i].id = ws.recording_id
      BY <2>3, <1>4, <1>6 DEF GoesOn
    <3>2. io'.op \in {"Abort", "Idle", "Create", "Write", "Sync"}
      BY <2>3 DEF GoesOn, Idle
    <3>3. ws.file => InHand'
      <4>1. ASSUME ws.file
            PROVE  \/ io' = [op |-> "Write", n |-> recents[i].sample_file_bytes - WrittenOf(recents[i], ws)]
                   \/ writer_state'.file
                   \/ io' = [op |-> "Sync", n |-> 0]
        BY <2>3, <4>1, <1>6 DEF GoesOn
      <4>2. ASSUME ws.file PROVE InHand'
        BY <4>1, <4>2 DEF InHand
      <4> QED BY <4>2
    <3> QED BY <3>1, <3>2, <3>3, <1>6 DEF WrittenOf
  <2> QED BY <1>5, <2>1, <2>2, <2>3
<1>11. io'.op = "Abort" =>
         \A i \in 1..Len(R') : R'[i].id = Current' =>
                                 Behind(R'[i], writer_state'.written, recent_frames')
  <2>1. SUFFICES ASSUME io'.op = "Abort", NEW i \in 1..Len(recents), R'[i].id = Current'
                 PROVE  Behind(R'[i], writer_state'.written, recent_frames')
    BY <1>6
  <2>2. /\ AbortsFile(ws)
        /\ \A j \in 1..Len(recents) :
             recents[j].id = ws.recording_id => Behind(recents[j], ws.written, frames)
    BY <1>5, <2>1 DEF WaitsForMore, GoesOn, Idle
  <2>3. writer_state'.recording_id = ws.recording_id /\ writer_state'.written = ws.written
    BY <2>2, <1>3 DEF AbortsFile, WriterState
  <2>4. Behind(recents[i], ws.written, frames)
    BY <2>1, <2>2, <2>3, <1>6, <1>7
  <2> QED BY <2>3, <2>4, <1>8
<1>12. ASSUME NEW i \in 1..n
       PROVE  LET r == R[i]
              IN  /\ i \in DOMAIN R
                  /\ io.op = "Aborted"
                  /\ Deleted(r) \/ ~Uncommitted(r) \/ r.id >= Current
                  /\ recent_frames' # << >> => r.id < recent_frames'[1].recording_id
  <2>1. i \in DOMAIN R
    BY <1>3
  <2>2. /\ io.op = "Aborted"
        /\ Deleted(R[i]) \/ ~Uncommitted(R[i]) \/ R[i].id >= Current
        /\ frames # << >> => R[i].id < frames[1].recording_id
    BY <1>1 DEF Prepared
  <2> QED BY <2>1, <2>2, <1>5
<1>13. ASSUME NEW i \in 1..Len(R')
       PROVE  LET r == R[i + n]
                  s == R'[i]
              IN  /\ i + n \in DOMAIN R
                  /\ s.id = r.id /\ s.sample_file_bytes = r.sample_file_bytes
                  /\ Uncommitted(s) <=> Uncommitted(r)
                  /\ Deleted(r) => Deleted(s)
                  /\ io.op = "Aborted" /\ r.id = Current => Deleted(s)
                  /\ r.id \in ws.recording_id..(Current' - 1) => Deleted(s)
                  /\ Deleted(s) => \/ Deleted(r)
                                   \/ io.op = "Aborted" /\ r.id = Current
                                   \/ /\ r.id \in ws.recording_id..(Current' - 1)
                                      /\ Behind(s, WrittenOf(s, ws), recent_frames')
  <2>1. i \in 1..Len(recents)
    BY <1>6
  <2> QED BY <2>1, <1>4, <1>7, <1>8
<1>14. io'.op \in {"Create", "Write"} =>
         \A i \in 1..Len(R') : R'[i].id = Current' =>
                                 writer_state'.written + io'.n = R'[i].sample_file_bytes
  <2>1. SUFFICES ASSUME io'.op \in {"Create", "Write"},
                        NEW i \in 1..Len(recents), R'[i].id = Current'
                 PROVE  writer_state'.written + io'.n = R'[i].sample_file_bytes
    BY <1>6
  <2>2. PICK j \in 1..Len(recents) : GoesOn(recents[j], ws)
    BY <1>5, <2>1 DEF AbortsFile, WaitsForMore, Idle
  <2>3. Current' = recents[j].id /\ writer_state'.written = WrittenOf(recents[j], ws)
    BY <2>2, <1>6 DEF GoesOn
  <2>4. io'.n = recents[j].sample_file_bytes - WrittenOf(recents[j], ws)
    BY <2>1, <2>2 DEF GoesOn, Idle
  <2>5. i = j
    <3>1. recents[i].id = recents[j].id
      BY <2>1, <2>3, <1>7
    <3>2. recents[i].id = (Top - Len(recents)) + i /\ recents[j].id = (Top - Len(recents)) + j
      BY <1>4
    <3>3. Top - Len(recents) \in Int /\ i \in Int /\ j \in Int
      BY <1>3
    <3> DEFINE base == Top - Len(recents)
    <3> HIDE DEF base
    <3>4. base + i = base + j /\ base \in Int
      BY <3>1, <3>2, <3>3 DEF base
    <3> QED BY <3>3, <3>4
  <2>6. WrittenOf(recents[j], ws) \in Nat /\ recents[j].sample_file_bytes \in Nat
    <3>1. recents[j] \in Recording
      BY <1>3
    <3> QED BY <3>1, <1>6, Ranges DEF Recording, WrittenOf
  <2>7. R'[i].sample_file_bytes = recents[j].sample_file_bytes
    BY <2>5, <1>7
  <2> QED BY <2>3, <2>4, <2>6, <2>7
<1>15. Rechosen(n, m, ws)
  <2>1. /\ n \in 0..Len(R) /\ R' \in Seq(Recording) /\ Len(R') = Len(R) - n
        /\ Shortens(recent_frames, recent_frames', m)
    BY <1>3, <1>5, <1>6
  <2> QED BY <2>1, <1>3, <1>5, <1>6, <1>9, <1>10, <1>11, <1>12, <1>13, <1>14 DEF Rechosen
<1> QED BY <1>1, <1>15

-----------------------------------------------------------------------------
(* The Writer's pushes, recording by recording.                            *)

LEMMA InvIsContiguous ==
  ASSUME Inv
  PROVE  /\ recent_frames \in Seq(Frame) /\ Contiguous(recent_frames)
         /\ DOMAIN recent_frames = 1..Len(recent_frames)
         /\ DOMAIN recent_recordings = 1..Len(recent_recordings)
<1>1. recent_frames \in Seq(Frame) /\ recent_recordings \in Seq(Recording)
  BY Ranges
<1>2. Contiguous(recent_frames)
  BY DEF Inv, Window, FramesContiguous, Contiguous
<1> QED BY <1>1, <1>2

Written(is_key, close, n, m) ==
  LET R    == recent_recordings
      F    == recent_frames
      last == F'[Len(F')]
      r    == R'[Len(R')]
  IN  /\ n \in Nat
      /\ Len(R') = IF recording_id = NoId THEN Len(R) + 1 - n ELSE Len(R) - n
      /\ Len(R') \in DOMAIN R' /\ DOMAIN R' = 1..Len(R')
      /\ \A i \in 1..(Len(R') - 1) : i + n \in DOMAIN R /\ R'[i] = R[i + n]
      /\ \A i \in 1..n : i \in DOMAIN R /\ ~StillNeeded(R[i], F', writer_state)
      /\ r.id = complete /\ Uncommitted(r)
      /\ IF recording_id = NoId
         THEN /\ is_key /\ ~Deleted(r) /\ last.sample_start = 0
         ELSE /\ R # << >> /\ Len(R) \in DOMAIN R /\ R[Len(R)].id = complete
              /\ Deleted(r) <=> Deleted(R[Len(R)])
              /\ last.sample_start = R[Len(R)].sample_file_bytes
      /\ r.sample_file_bytes = last.sample_start + last.len
      /\ m \in 0..Len(F) /\ Len(F') = Len(F) + 1 - m
      /\ Len(F') \in DOMAIN F' /\ DOMAIN F' = 1..Len(F')
      /\ \A i \in 1..(Len(F') - 1) : i + m \in DOMAIN F /\ F'[i] = F[i + m]
      /\ last.recording_id = complete /\ last.is_key = is_key

LEMMA PushIsWritten ==
  ASSUME Inv, NEW is_key \in BOOLEAN, NEW len \in FrameSizes, NEW close \in BOOLEAN,
         PushAndMaybeClose(is_key, len, close)
  PROVE  \E n, m : Written(is_key, close, n, m)
<1> DEFINE R == recent_recordings
           F == recent_frames
           k == IF recording_id = NoId THEN Len(R) + 1 ELSE Len(R)
           start == IF recording_id = NoId THEN 0 ELSE R[k].sample_file_bytes
           frame == [recording_id |-> complete, is_key |-> is_key, sample_start |-> start,
                     len |-> len]
           G == Append(F, frame)
<1>1. PICK n \in Nat, m \in Nat : Pushed(is_key, len, close, n, m)
  BY PushOutcome
<1>2. /\ n \in 0..(k - 1) /\ R' \in Seq(Recording) /\ Len(R') = k - n
      /\ \A i \in 1..(k - n - 1) : R'[i] = R[i + n]
      /\ \A i \in 1..n : ~StillNeeded(R[i], F', writer_state)
      /\ R'[k - n].id = complete
      /\ R'[k - n].sample_file_bytes = start + len
      /\ Uncommitted(R'[k - n])
      /\ Deleted(R'[k - n]) <=> (recording_id # NoId /\ Deleted(R[k]))
      /\ frame \in Frame
      /\ Shortens(G, F', m)
  BY <1>1 DEF Pushed
<1>3. /\ R \in Seq(Recording) /\ F \in Seq(Frame) /\ Len(R) \in Nat /\ Len(F) \in Nat
      /\ DOMAIN R = 1..Len(R) /\ DOMAIN F = 1..Len(F)
  BY InvIsContiguous, Ranges
<1>4. /\ G \in Seq(Frame) /\ Len(G) = Len(F) + 1 /\ G[Len(F) + 1] = frame
      /\ \A i \in 1..Len(F) : G[i] = F[i]
  BY <1>2, <1>3
<1> HIDE DEF G
<1>5. /\ m \in 0..Len(G) /\ m < Len(G) /\ F' \in Seq(Frame) /\ Len(F') = Len(G) - m
      /\ \A i \in 1..(Len(G) - m) : F'[i] = G[i + m]
  <2>1. G # << >>
    BY <1>3, <1>4
  <2> QED BY <1>2, <2>1 DEF Shortens
<1>6. /\ m \in 0..Len(F) /\ Len(F') = Len(F) + 1 - m
      /\ Len(F') \in DOMAIN F' /\ DOMAIN F' = 1..Len(F')
  BY <1>3, <1>4, <1>5
<1>7. ASSUME NEW i \in 1..(Len(F') - 1) PROVE i + m \in DOMAIN F /\ F'[i] = F[i + m]
  <2>1. i \in 1..(Len(G) - m) /\ i + m \in 1..Len(F)
    BY <1>3, <1>4, <1>6
  <2> QED BY <2>1, <1>3, <1>4, <1>5
<1>8. F'[Len(F')] = frame
  <2>1. Len(F') \in 1..(Len(G) - m) /\ Len(F') + m = Len(F) + 1
    BY <1>3, <1>4, <1>6
  <2> QED BY <2>1, <1>4, <1>5
<1>9. k \in Nat /\ k - n >= 1 /\ Len(R') = k - n /\ DOMAIN R' = 1..Len(R') /\ Len(R') \in DOMAIN R'
  BY <1>2, <1>3
<1>10. ASSUME NEW i \in 1..(Len(R') - 1) PROVE i + n \in DOMAIN R /\ R'[i] = R[i + n]
  BY <1>2, <1>3, <1>9
<1>11. ASSUME NEW i \in 1..n PROVE i \in DOMAIN R /\ ~StillNeeded(R[i], F', writer_state)
  BY <1>2, <1>3, <1>9
<1>12. CASE recording_id = NoId
  <2>1. is_key
    BY <1>12 DEF PushAndMaybeClose
  <2>2. /\ Len(R') = Len(R) + 1 - n /\ start = 0 /\ ~Deleted(R'[Len(R')])
        /\ frame.sample_start = 0 /\ frame.len = len /\ frame.recording_id = complete
        /\ frame.is_key = is_key /\ R'[Len(R')].sample_file_bytes = start + len
        /\ R'[Len(R')].id = complete /\ Uncommitted(R'[Len(R')])
    BY <1>2, <1>12
  <2> HIDE DEF frame, start
  <2> QED BY <1>6, <1>7, <1>8, <1>9, <1>10, <1>11, <1>12, <2>1, <2>2 DEF Written
<1>13. CASE recording_id # NoId
  <2>1. /\ Len(R') = Len(R) - n /\ start = R[Len(R)].sample_file_bytes
        /\ Deleted(R'[Len(R')]) <=> Deleted(R[Len(R)])
        /\ frame.sample_start = start /\ frame.len = len /\ frame.recording_id = complete
        /\ frame.is_key = is_key /\ R'[Len(R')].sample_file_bytes = start + len
        /\ R'[Len(R')].id = complete /\ Uncommitted(R'[Len(R')])
    BY <1>2, <1>13
  <2>2. R # << >> /\ Len(R) \in DOMAIN R /\ R[Len(R)].id = complete
    BY <1>13, LastGrows
  <2> HIDE DEF frame, start
  <2> QED BY <1>6, <1>7, <1>8, <1>9, <1>10, <1>11, <1>13, <2>1, <2>2 DEF Written
<1> QED BY <1>12, <1>13

\* The first frame never moves back.
LEMMA HeadAdvances ==
  ASSUME Inv, NEW m, Shortens(recent_frames, recent_frames', m)
  PROVE  recent_frames # << >> =>
           /\ recent_frames' # << >>
           /\ recent_frames[1].recording_id \in Nat /\ recent_frames'[1].recording_id \in Nat
           /\ recent_frames[1].recording_id <= recent_frames'[1].recording_id
<1> DEFINE F == recent_frames
<1> SUFFICES ASSUME F # << >>
             PROVE  /\ F' # << >> /\ F[1].recording_id \in Nat /\ F'[1].recording_id \in Nat
                    /\ F[1].recording_id <= F'[1].recording_id
  OBVIOUS
<1>1. /\ m \in 0..Len(F) /\ m < Len(F) /\ F' \in Seq(Frame) /\ Len(F') = Len(F) - m
      /\ \A i \in 1..(Len(F) - m) : F'[i] = F[i + m]
      /\ F \in Seq(Frame) /\ Len(F) \in Nat /\ Contiguous(F)
  BY InvIsContiguous DEF Shortens
<1>2. 1 \in 1..(Len(F) - m) /\ 1 \in 1..Len(F) /\ 1 + m \in 1..Len(F) /\ F' # << >>
  BY <1>1
<1>3. F'[1] = F[1 + m]
  BY <1>1, <1>2
<1>4. F[1].recording_id <= F[1 + m].recording_id
  BY <1>1, <1>2, FramesOrdered
<1>5. F[1].recording_id \in Nat /\ F[1 + m].recording_id \in Nat
  BY <1>1, <1>2, FrameTypes
<1> QED BY <1>2, <1>3, <1>4, <1>5

LEMMA HeadAdvancesOnWrite ==
  ASSUME Inv, NEW is_key, NEW close, NEW n, NEW m, Written(is_key, close, n, m)
  PROVE  /\ recent_frames' # << >> /\ recent_frames'[1].recording_id \in Nat
         /\ recent_frames # << >> =>
              /\ recent_frames[1].recording_id \in Nat
              /\ recent_frames[1].recording_id <= recent_frames'[1].recording_id
<1> DEFINE F == recent_frames
<1>1. /\ m \in 0..Len(F) /\ Len(F') = Len(F) + 1 - m /\ Len(F') \in DOMAIN F'
      /\ \A i \in 1..(Len(F') - 1) : i + m \in DOMAIN F /\ F'[i] = F[i + m]
      /\ F'[Len(F')].recording_id = complete
  BY DEF Written
<1>2. /\ F \in Seq(Frame) /\ Len(F) \in Nat /\ Contiguous(F) /\ complete \in Nat
      /\ DOMAIN F = 1..Len(F)
  BY InvIsContiguous, Ranges
<1>3. F' # << >>
  BY <1>1, <1>2
<1>4. F # << >> => F[1].recording_id \in Nat /\ F[1].recording_id <= complete
  <2>1. ASSUME F # << >> PROVE F[1].recording_id \in Nat /\ F[1].recording_id <= complete
    <3>1. 1 \in 1..Len(F) /\ 1 \in DOMAIN F
      BY <1>2, <2>1
    <3>2. F[1].recording_id <= Top
      BY <3>1 DEF Inv, Window
    <3>3. F[1].recording_id \in Nat
      BY <3>1, <1>2, FrameTypes
    <3> QED BY <3>2, <3>3, <1>2, Ranges
  <2> QED BY <2>1
<1>5. CASE m = Len(F)
  <2>1. Len(F') = 1
    BY <1>1, <1>2, <1>5
  <2> QED BY <1>1, <1>2, <1>3, <1>4, <2>1
<1>6. CASE m # Len(F)
  <2>1. 1 \in 1..(Len(F') - 1) /\ 1 \in 1..Len(F) /\ 1 + m \in 1..Len(F)
    <3>1. m \in Nat /\ m < Len(F)
      <4>1. m \in 0..Len(F)
        BY <1>1
      <4>2. Len(F) \in Nat
        BY <1>2
      <4> QED BY <4>1, <4>2, <1>6
    <3>2. Len(F') - 1 = Len(F) - m
      BY <1>1, <1>2, <3>1
    <3> QED BY <3>1, <3>2, <1>2
  <2>2. F'[1] = F[1 + m]
    BY <1>1, <2>1
  <2>3. F[1].recording_id <= F[1 + m].recording_id /\ F[1 + m].recording_id \in Nat
    BY <1>2, <2>1, FramesOrdered, FrameTypes
  <2> QED BY <1>3, <1>4, <2>2, <2>3
<1> QED BY <1>5, <1>6

-----------------------------------------------------------------------------
(* The assertions.                                                         *)

\* What the assertions on recordings and frames need.
Order ==
  /\ KeyFirst
  /\ Passed(recent_recordings, recent_frames, Current)
  /\ LastInserted
  /\ Settled

\* Steps that leave recordings, frames and the worker's position alone, and
\* start no flush.
LEMMA SteadyKeepsOrder ==
  ASSUME Order,
         UNCHANGED <<recent_recordings, recent_frames, writer_state, committed, pinned>>,
         flush'.pc = "Idle" \/ (flush.pc # "Idle" /\ flush'.cum = flush.cum)
  PROVE  Order'
<1>1. Current' = Current
  BY DEF Current
<1>2. KeyFirst' /\ Settled'
  BY DEF Order, KeyFirst, Settled
<1>3. Passed(recent_recordings, recent_frames, Current)'
  BY <1>1 DEF Order, Passed
<1>4. LastInserted'
  BY DEF Order, LastInserted
<1> QED BY <1>2, <1>3, <1>4 DEF Order

LEMMA PreparesKeepsOrder ==
  ASSUME Inv, Order, Prepares
  PROVE  Order'
<1> DEFINE R == recent_recordings
           F == recent_frames
<1>1. PICK n, m, ws : Rechosen(n, m, ws)
  BY PreparesRechoose
<1>2. UNCHANGED <<committed, pinned, flush>>
  BY PreparesRechoose DEF WorkerUnchanged
<1>3. Shortens(F, F', m) /\ n \in 0..Len(R) /\ Len(R') = Len(R) - n /\ R' \in Seq(Recording)
  BY <1>1 DEF Rechosen
<1>4. DOMAIN R' = 1..Len(R') /\ DOMAIN R = 1..Len(R) /\ R \in Seq(Recording)
  BY <1>3, Ranges
<1>5. ASSUME NEW i \in DOMAIN R'
      PROVE  /\ i + n \in DOMAIN R
             /\ R'[i].id = R[i + n].id /\ R'[i].id \in Nat /\ R'[i].id <= Top
             /\ Uncommitted(R'[i]) <=> Uncommitted(R[i + n])
             /\ Deleted(R[i + n]) => Deleted(R'[i])
             /\ io.op = "Aborted" /\ R'[i].id = Current => Deleted(R'[i])
             /\ R'[i].id \in ws.recording_id..(Current' - 1) => Deleted(R'[i])
             /\ Deleted(R'[i]) => \/ Deleted(R[i + n])
                                  \/ io.op = "Aborted" /\ R'[i].id = Current
                                  \/ R'[i].id \in ws.recording_id..(Current' - 1)
  <2>1. /\ i + n \in DOMAIN R
        /\ R'[i].id = R[i + n].id
        /\ Uncommitted(R'[i]) <=> Uncommitted(R[i + n])
        /\ Deleted(R[i + n]) => Deleted(R'[i])
        /\ io.op = "Aborted" /\ R[i + n].id = Current => Deleted(R'[i])
        /\ R[i + n].id \in ws.recording_id..(Current' - 1) => Deleted(R'[i])
        /\ Deleted(R'[i]) => \/ Deleted(R[i + n])
                             \/ io.op = "Aborted" /\ R[i + n].id = Current
                             \/ R[i + n].id \in ws.recording_id..(Current' - 1)
    BY <1>1, <1>4 DEF Rechosen
  <2>2. R[i + n].id \in Nat /\ R[i + n].id <= Top
    BY <2>1, RecentRanges
  <2> QED BY <2>1, <2>2
<1>6. /\ Current \in Nat /\ Current' \in Nat /\ ws.recording_id \in Nat
      /\ ws.recording_id <= Current'
      /\ \/ io.op \in {"Start", "Written"} /\ ws.recording_id = Current
         \/ io.op \in {"Synced", "Aborted"} /\ ws.recording_id = Current + 1
  <2>1. /\ ws \in WriterState /\ Current' \in Nat
        /\ Current' = ws.recording_id \/ Current' > ws.recording_id
    BY <1>1 DEF Rechosen
  <2>2. \/ io.op \in {"Start", "Written"} /\ ws.recording_id = Current
        \/ io.op \in {"Synced", "Aborted"} /\ ws.recording_id = Current + 1
    BY <1>1 DEF Rechosen, Current
  <2>3. ws.recording_id \in Nat /\ Current \in Nat
    BY <2>1, Ranges DEF WriterState
  <2> QED BY <2>1, <2>2, <2>3
<1>7. KeyFirst'
  <2>1. SUFFICES ASSUME NEW j \in DOMAIN F', F'[j].sample_start = 0 PROVE F'[j].is_key
    BY DEF KeyFirst
  <2>2. j \in 1..(Len(F) - m) /\ j + m \in 1..Len(F) /\ DOMAIN F = 1..Len(F)
    <3>1. /\ m \in 0..Len(F) /\ F' \in Seq(Frame) /\ Len(F') = Len(F) - m
          /\ Len(F) \in Nat /\ DOMAIN F = 1..Len(F)
      BY <1>3, InvIsContiguous DEF Shortens
    <3>2. j \in 1..Len(F')
      BY <2>1, <3>1
    <3> HIDE DEF F
    <3> QED BY <3>1, <3>2
  <2>3. F'[j] = F[j + m]
    BY <1>3, <2>2 DEF Shortens
  <2> QED BY <2>1, <2>2, <2>3 DEF Order, KeyFirst
<1>8. ASSUME NEW i \in DOMAIN R', R'[i].id < Current', ~Deleted(R'[i])
      PROVE  F' # << >> /\ F'[1].recording_id >= R'[i].id
  <2>1. R'[i].id < ws.recording_id
    BY <1>5, <1>6, <1>8
  <2>2. CASE R'[i].id < Current
    <3>1. F # << >> /\ F[1].recording_id >= R'[i].id
      BY <1>5, <1>8, <2>2 DEF Order, Passed
    <3> QED BY <3>1, <1>3, <1>5, HeadAdvances
  <2>3. CASE ~(R'[i].id < Current)
    <3>1. R'[i].id = Current /\ io.op = "Synced" /\ ws.recording_id = Current + 1
      BY <1>5, <1>6, <1>8, <2>1, <2>3
    <3>2. F' = PruneFront(F, BytePos(Current + 1, 0))
      BY <1>1, <3>1 DEF Rechosen, Pos, After
    <3>3. F # << >> /\ F \in Seq(Frame) /\ Contiguous(F) /\ DOMAIN F = 1..Len(F)
      BY <1>4, <1>5, InvIsContiguous DEF Inv, Window
    <3>4. F[Len(F)].recording_id = Top
      <4>1. R # << >> /\ Len(R) \in DOMAIN R
        BY <1>4, <1>5
      <4>2. End(Last(F)) = BytePos(Last(R).id, Last(R).sample_file_bytes)
        BY <4>1 DEF Inv, Window
      <4>3. F[Len(F)].recording_id = R[Len(R)].id
        BY <4>2 DEF End, BytePos, Last
      <4>4. R[Len(R)].id = (Top - Len(R)) + Len(R)
        BY <4>1, RecentRanges
      <4> QED BY <4>3, <4>4, <1>4, Ranges
    <3>5. \A j \in 1..Len(F) : F[j].sample_start = 0 => F[j].is_key
      BY <3>3 DEF Order, KeyFirst
    <3>6. Current <= F[Len(F)].recording_id
      BY <3>1, <3>4, <1>5
    <3> HIDE DEF F, R
    <3>7. \A f : f = PruneFront(F, BytePos(Current + 1, 0)) => f # << >> /\ f[1].recording_id >= Current
      BY <3>3, <3>5, <3>6, <1>6, PrunedPast
    <3> QED BY <3>1, <3>2, <3>7
  <2> QED BY <2>2, <2>3
<1>9. Passed(recent_recordings, recent_frames, Current)'
  BY <1>8 DEF Passed
<1>10. Settled'
  BY <1>2, <1>5 DEF Order, Settled
<1>11. LastInserted'
  <2>1. SUFFICES ASSUME flush.pc # "Idle", flush.cum # NoId
                 PROVE  /\ F' # << >> /\ F'[1].recording_id >= flush.cum - 1
                        /\ \A i \in DOMAIN R' : R'[i].id = flush.cum - 1 => ~Deleted(R'[i])
    BY <1>2 DEF Order, LastInserted
  <2>2. /\ F # << >> /\ F[1].recording_id >= flush.cum - 1
        /\ \A i \in DOMAIN R : R[i].id = flush.cum - 1 => ~Deleted(R[i])
    BY <2>1 DEF Order, LastInserted
  <2>3. flush.cum \in Nat /\ flush.cum <= Current
    BY <2>1, Ranges DEF Inv, Typed, Flushing, NoId
  <2>4. F' # << >> /\ F'[1].recording_id >= flush.cum - 1
    BY <2>2, <2>3, <1>3, HeadAdvances
  <2>5. ASSUME NEW i \in DOMAIN R', R'[i].id = flush.cum - 1 PROVE ~Deleted(R'[i])
    <3>1. ~Deleted(R[i + n])
      BY <2>2, <2>5, <1>5
    <3>2. R'[i].id < Current
      BY <2>3, <2>5, <1>6
    <3> QED BY <3>1, <3>2, <1>5, <1>6
  <2> QED BY <2>4, <2>5
<1> QED BY <1>7, <1>9, <1>10, <1>11 DEF Order

LEMMA WriteKeepsOrder ==
  ASSUME Inv, Inv', Order, Write
  PROVE  Order'
<1> DEFINE R == recent_recordings
           F == recent_frames
<1>1. PICK is_key \in BOOLEAN, len \in FrameSizes, close \in BOOLEAN :
        PushAndMaybeClose(is_key, len, close)
  BY DEF Write
<1>2. UNCHANGED <<committed, writer_state, flush, pinned>> /\ Current' = Current
  BY <1>1 DEF PushAndMaybeClose, Current
<1>3. PICK n, m : Written(is_key, close, n, m)
  BY <1>1, PushIsWritten
<1>4. /\ Len(R') \in DOMAIN R' /\ DOMAIN R' = 1..Len(R') /\ Len(R') \in Nat
      /\ \A i \in 1..(Len(R') - 1) : i + n \in DOMAIN R /\ R'[i] = R[i + n]
      /\ R'[Len(R')].id = complete /\ Uncommitted(R'[Len(R')])
      /\ \A i \in DOMAIN R' : i \in 1..(Len(R') - 1) \/ i = Len(R')
  <2>1. R' \in Seq(Recording)
    BY DEF Inv, Typed
  <2> QED BY <1>3, <2>1 DEF Written
<1>5. /\ Len(F') \in DOMAIN F' /\ DOMAIN F' = 1..Len(F') /\ Len(F') \in Nat
      /\ \A j \in 1..(Len(F') - 1) : j + m \in DOMAIN F /\ F'[j] = F[j + m]
      /\ \A j \in DOMAIN F' : j \in 1..(Len(F') - 1) \/ j = Len(F')
  <2>1. F' \in Seq(Frame)
    BY DEF Inv, Typed
  <2>2. /\ Len(F') \in DOMAIN F' /\ DOMAIN F' = 1..Len(F')
        /\ \A j \in 1..(Len(F') - 1) : j + m \in DOMAIN F /\ F'[j] = F[j + m]
    BY <1>3 DEF Written
  <2>3. Len(F') \in Nat
    BY <2>1
  <2> QED BY <2>2, <2>3
<1>6. complete \in Nat /\ Current \in Nat /\ committed <= complete /\ committed \in Nat
  BY Ranges DEF Inv, Window
<1>7. KeyFirst'
  <2>1. SUFFICES ASSUME NEW j \in DOMAIN F', F'[j].sample_start = 0 PROVE F'[j].is_key
    BY DEF KeyFirst
  <2>2. CASE j \in 1..(Len(F') - 1)
    BY <1>5, <2>1, <2>2 DEF Order, KeyFirst
  <2>3. CASE j = Len(F')
    <3>1. recording_id = NoId
      <4>1. SUFFICES ASSUME recording_id # NoId PROVE FALSE
        OBVIOUS
      <4>2. Len(R) \in DOMAIN R /\ R[Len(R)].sample_file_bytes = 0
        BY <4>1, <1>3, <2>1, <2>3 DEF Written
      <4>3. R[Len(R)].sample_file_bytes \in 1..MaxBytes /\ MaxBytes \in Nat
        BY <4>2, RecentRanges, Ranges
      <4> QED BY <4>2, <4>3
    <3> QED BY <3>1, <1>3, <2>3 DEF Written
  <2> QED BY <2>2, <2>3, <1>5
<1>8. ASSUME NEW i \in DOMAIN R', R'[i].id < Current, ~Deleted(R'[i])
      PROVE  F' # << >> /\ F'[1].recording_id >= R'[i].id
  <2>1. PICK k \in DOMAIN R : R[k].id = R'[i].id /\ ~Deleted(R[k])
    <3>1. CASE i \in 1..(Len(R') - 1)
      BY <3>1, <1>4, <1>8
    <3>2. CASE i = Len(R')
      <4>1. recording_id # NoId
        <5>1. recording_id = NoId => Current <= complete
          BY Ranges DEF Inv, Working, Top
        <5> QED BY <5>1, <3>2, <1>4, <1>6, <1>8
      <4>2. /\ Len(R) \in DOMAIN R /\ R[Len(R)].id = complete
            /\ Deleted(R'[i]) <=> Deleted(R[Len(R)])
        BY <4>1, <3>2, <1>3 DEF Written
      <4> QED BY <4>2, <3>2, <1>4, <1>8
    <3> QED BY <3>1, <3>2, <1>4
  <2>2. F # << >> /\ F[1].recording_id >= R[k].id /\ R[k].id \in Nat
    BY <2>1, <1>8, RecentRanges DEF Order, Passed
  <2> QED BY <2>1, <2>2, <1>3, HeadAdvancesOnWrite
<1>9. Passed(recent_recordings, recent_frames, Current)'
  BY <1>2, <1>8 DEF Passed
<1>10. Settled'
  BY <1>2, <1>4, <1>6 DEF Order, Settled
<1>11. LastInserted'
  <2>1. SUFFICES ASSUME flush.pc # "Idle", flush.cum # NoId
                 PROVE  /\ F' # << >> /\ F'[1].recording_id >= flush.cum - 1
                        /\ \A i \in DOMAIN R' : R'[i].id = flush.cum - 1 => ~Deleted(R'[i])
    BY <1>2 DEF Order, LastInserted
  <2>2. /\ F # << >> /\ F[1].recording_id >= flush.cum - 1
        /\ \A i \in DOMAIN R : R[i].id = flush.cum - 1 => ~Deleted(R[i])
    BY <2>1 DEF Order, LastInserted
  <2>3. flush.cum \in Nat /\ flush.cum <= complete
    BY <2>1, Ranges DEF Inv, Typed, Flushing, NoId
  <2>4. F' # << >> /\ F'[1].recording_id >= flush.cum - 1
    BY <2>2, <2>3, <1>3, HeadAdvancesOnWrite
  <2>5. ASSUME NEW i \in DOMAIN R', R'[i].id = flush.cum - 1 PROVE ~Deleted(R'[i])
    <3>1. i \in 1..(Len(R') - 1)
      BY <2>3, <2>5, <1>4, <1>6
    <3> QED BY <3>1, <2>2, <2>5, <1>4
  <2> QED BY <2>4, <2>5
<1> QED BY <1>7, <1>9, <1>10, <1>11 DEF Order

\* What flush's third scope leaves of the recordings.
Refreshed(n) ==
  LET R == recent_recordings
      F == recent_frames
  IN  /\ n \in 0..Len(R) /\ R' \in Seq(Recording) /\ Len(R') = Len(R) - n
      /\ DOMAIN R' = 1..Len(R')
      /\ \A i \in DOMAIN R' :
           LET r == R[i + n]
           IN  /\ i + n \in DOMAIN R
               /\ R'[i].id = r.id /\ r.id \in Nat
               /\ R'[i].sample_file_bytes = r.sample_file_bytes
               /\ Deleted(r) => Deleted(R'[i])
               /\ Deleted(R'[i]) => Deleted(r) \/ r.id < committed
               /\ Uncommitted(R'[i]) => Uncommitted(r)
               /\ flush.cum # NoId /\ r.id \in committed..(flush.cum - 1) =>
                    Deleted(R'[i]) \/ ~Uncommitted(R'[i])
      /\ \A i \in 1..n :
           LET r == R[i]
           IN  /\ i \in DOMAIN R
               /\ F # << >> => r.id < F[1].recording_id
               /\ ~(r.id = Current /\ writer_state.written = r.sample_file_bytes)
               /\ r.id < committed' \/ Deleted(r) \/ r.id >= Current
      /\ ~pinned /\ R' # << >> =>
           \/ F # << >> /\ R'[1].id >= F[1].recording_id
           \/ R'[1].id < Current /\ ~Deleted(R'[1]) /\ Uncommitted(R'[1])
           \/ R'[1].id = Current

LEMMA ApplyRefreshes ==
  ASSUME Inv, FlushApply
  PROVE  \E n : Refreshed(n)
<1> DEFINE R == recent_recordings
           F == recent_frames
<1>1. /\ flush.pc = "Committed"
      /\ R' = MaybePrune(Applied, F, writer_state)
      /\ committed' = IF flush.cum = NoId THEN committed ELSE flush.cum
  BY DEF FlushApply, Applied
<1>2. /\ Applied \in Seq(Recording) /\ Len(Applied) = Len(R)
      /\ \A i \in 1..Len(R) :
           /\ Applied[i].id = R[i].id
           /\ Applied[i].sample_file_bytes = R[i].sample_file_bytes
           /\ Deleted(R[i]) => Deleted(Applied[i])
           /\ R[i].id \notin committed..(flush.cum - 1) \/ flush.cum = NoId =>
                Uncommitted(Applied[i]) = Uncommitted(R[i])
           /\ Uncommitted(Applied[i]) => Uncommitted(R[i])
           /\ Deleted(Applied[i]) => \/ Deleted(R[i])
                                     \/ to_delete # {} /\ R[i].id < Max(to_delete) + 1
           /\ flush.cum # NoId /\ R[i].id \in committed..(flush.cum - 1) =>
                Deleted(Applied[i]) \/ ~Uncommitted(Applied[i])
  BY AppliedRecordings
<1>3. /\ R \in Seq(Recording) /\ DOMAIN R = 1..Len(R) /\ Len(R) \in Nat
      /\ committed \in Nat /\ Current \in Nat /\ writer_state.recording_id = Current
      /\ \A i \in 1..Len(R) : R[i].id \in Nat
  <2>1. DOMAIN R = 1..Len(R)
    BY InvIsContiguous
  <2>2. \A i \in 1..Len(R) : R[i].id \in Nat
    BY <2>1, RecentRanges
  <2>3. R \in Seq(Recording) /\ Len(R) \in Nat
    BY Ranges
  <2>4. committed \in Nat /\ Current \in Nat /\ writer_state.recording_id = Current
    BY Ranges
  <2> QED BY <2>1, <2>2, <2>3, <2>4
<1>4. to_delete # {} => Max(to_delete) \in Nat /\ Max(to_delete) < committed
  <2>1. SUFFICES ASSUME to_delete # {} PROVE Max(to_delete) \in Nat /\ Max(to_delete) < committed
    OBVIOUS
  <2>2. to_delete \subseteq 0..MaxRecordings
    <3>1. to_delete \in SUBSET Ids
      BY DEF Inv, Typed
    <3>2. MaxRecordings \in Nat
      BY Ranges
    <3> QED BY <3>1, <3>2 DEF Ids
  <2>3. Max(to_delete) \in to_delete
    BY <2>1, <2>2, Ranges, MaxIsGreatest
  <2>4. Max(to_delete) \in garbage
    BY <2>3, <1>1 DEF Inv, Flushing
  <2>5. \A id \in garbage : id < committed
    BY DEF Inv, Flushing
  <2>6. MaxRecordings \in Nat
    BY Ranges
  <2>7. Max(to_delete) \in Nat
    <3>1. \A id \in to_delete : id \in Nat
      BY <2>2, <2>6
    <3> QED BY <2>3, <3>1
  <2>8. Max(to_delete) < committed
    BY <2>4, <2>5
  <2> QED BY <2>7, <2>8
<1>5. ASSUME NEW i \in 1..Len(R), Deleted(Applied[i]) PROVE Deleted(R[i]) \/ R[i].id < committed
  BY <1>2, <1>3, <1>4, <1>5
<1>6. PICK n \in 0..Len(Applied) :
        /\ \A i \in 1..n : ~StillNeeded(Applied[i], F, writer_state)
        /\ R' \in Seq(Recording) /\ Len(R') = Len(Applied) - n
        /\ \A i \in 1..(Len(Applied) - n) : R'[i] = Applied[i + n]
        /\ pinned \/ n = Len(Applied) \/ StillNeeded(Applied[n + 1], F, writer_state)
  <2>1. CASE pinned
    <3>1. PICK n \in 0..Len(Applied) :
            /\ Follows(Applied, R', n)
            /\ \A i \in 1..n : ~StillNeeded(Applied[i], F, writer_state)
            /\ \A i \in 1..(Len(Applied) - n) : R'[i] = Applied[i + n]
      BY <1>1, <1>2, MaybePruneFollows
    <3> QED BY <2>1, <3>1 DEF Follows
  <2>2. CASE ~pinned
    <3>1. R' = Prune(Applied, F, writer_state)
      BY <1>1, <2>2 DEF MaybePrune
    <3> QED BY <3>1, <1>2, PruneIsSuffix
  <2> QED BY <2>1, <2>2
<1>7. /\ n \in 0..Len(R) /\ n \in Nat /\ Len(R') = Len(R) - n /\ Len(R') \in Nat
      /\ DOMAIN R' = 1..Len(R')
  BY <1>2, <1>3, <1>6
<1>8. ASSUME NEW i \in 1..Len(R')
      PROVE  /\ i + n \in 1..Len(R) /\ R'[i] = Applied[i + n]
  BY <1>2, <1>3, <1>6, <1>7
<1>9. ASSUME NEW i \in DOMAIN R'
      PROVE  LET r == R[i + n]
             IN  /\ i + n \in DOMAIN R
                 /\ R'[i].id = r.id /\ r.id \in Nat
                 /\ R'[i].sample_file_bytes = r.sample_file_bytes
                 /\ Deleted(r) => Deleted(R'[i])
                 /\ Deleted(R'[i]) => Deleted(r) \/ r.id < committed
                 /\ Uncommitted(R'[i]) => Uncommitted(r)
                 /\ flush.cum # NoId /\ r.id \in committed..(flush.cum - 1) =>
                      Deleted(R'[i]) \/ ~Uncommitted(R'[i])
  <2>1. i + n \in 1..Len(R) /\ R'[i] = Applied[i + n]
    BY <1>7, <1>8
  <2> QED BY <2>1, <1>2, <1>3, <1>5
<1>10. ASSUME NEW i \in 1..n
       PROVE  LET r == R[i]
              IN  /\ i \in DOMAIN R
                  /\ F # << >> => r.id < F[1].recording_id
                  /\ ~(r.id = Current /\ writer_state.written = r.sample_file_bytes)
                  /\ r.id < committed' \/ Deleted(r) \/ r.id >= Current
  <2>1. i \in 1..Len(R) /\ i \in DOMAIN R
    BY <1>3, <1>7
  <2>2. ~StillNeeded(Applied[i], F, writer_state)
    BY <1>6
  <2>3. F # << >> => F[1].recording_id \in Nat /\ Head(F) = F[1]
    <3>1. F \in Seq(Frame)
      BY Ranges
    <3>2. F # << >> => 1 \in 1..Len(F)
      BY <3>1
    <3> QED BY <3>1, <3>2, FrameTypes
  <2>4. F # << >> => R[i].id < F[1].recording_id
    BY <2>1, <2>2, <2>3, <1>2, <1>3 DEF StillNeeded
  <2>5. ~(R[i].id = Current /\ writer_state.written = R[i].sample_file_bytes)
    BY <2>1, <2>2, <1>2, <1>3 DEF StillNeeded
  <2>6. ASSUME R[i].id >= committed', ~Deleted(R[i]), R[i].id < Current PROVE FALSE
    <3>1. flush.cum # NoId => flush.cum \in Nat /\ committed < flush.cum
      BY Ranges DEF Inv, Flushing, Typed, NoId
    <3>2. R[i].id >= committed /\ (flush.cum # NoId => R[i].id >= flush.cum)
      BY <2>1, <2>6, <3>1, <1>1, <1>3
    <3>3. Uncommitted(R[i])
      BY <2>1, <3>2 DEF Inv, Working
    <3>4. Uncommitted(Applied[i])
      BY <2>1, <3>1, <3>2, <3>3, <1>2, <1>3
    <3>5. ~Deleted(Applied[i])
      BY <2>1, <2>6, <3>2, <1>3, <1>5
    <3> QED BY <2>1, <2>2, <2>6, <3>4, <3>5, <1>2, <1>3 DEF StillNeeded
  <2>7. committed' \in Nat
    BY <1>1, <1>3 DEF Inv, Typed, NoId
  <2> QED BY <2>1, <2>4, <2>5, <2>6, <2>7, <1>3
<1>11. ~pinned /\ R' # << >> =>
         \/ F # << >> /\ R'[1].id >= F[1].recording_id
         \/ R'[1].id < Current /\ ~Deleted(R'[1]) /\ Uncommitted(R'[1])
         \/ R'[1].id = Current
  <2>1. SUFFICES ASSUME ~pinned, R' # << >>
                 PROVE  \/ F # << >> /\ R'[1].id >= F[1].recording_id
                        \/ R'[1].id < Current /\ ~Deleted(R'[1]) /\ Uncommitted(R'[1])
                        \/ R'[1].id = Current
    OBVIOUS
  <2>2. 1 \in 1..Len(R') /\ 1 + n = n + 1 /\ n # Len(Applied)
    BY <2>1, <1>2, <1>6, <1>7
  <2>3. StillNeeded(R'[1], F, writer_state)
    BY <2>1, <2>2, <1>6, <1>8
  <2>4. F # << >> => Head(F) = F[1]
    BY Ranges
  <2> QED BY <2>3, <2>4, <1>3 DEF StillNeeded
<1> HIDE DEF R, F
<1>12. Refreshed(n)
  BY <1>6, <1>7, <1>9, <1>10, <1>11 DEF Refreshed, R, F
<1> QED BY <1>12

LEMMA ApplyKeepsOrder ==
  ASSUME Inv, Inv', Order, FlushApply
  PROVE  Order'
<1> DEFINE R == recent_recordings
           F == recent_frames
<1>1. /\ flush.pc = "Committed" /\ flush'.pc = "Idle"
      /\ committed' = IF flush.cum = NoId THEN committed ELSE flush.cum
      /\ UNCHANGED <<recent_frames, writer_state, pinned>>
      /\ Current' = Current
  BY DEF FlushApply, NoFlush, Current
<1>2. PICK n : Refreshed(n)
  BY ApplyRefreshes
<1>3. /\ DOMAIN R' = 1..Len(R') /\ Len(R') \in Nat
      /\ \A i \in DOMAIN R' :
           /\ i + n \in DOMAIN R
           /\ R'[i].id = R[i + n].id /\ R'[i].id \in Nat
           /\ Deleted(R[i + n]) => Deleted(R'[i])
           /\ Deleted(R'[i]) => Deleted(R[i + n]) \/ R'[i].id < committed
           /\ Uncommitted(R'[i]) => Uncommitted(R[i + n])
           /\ flush.cum # NoId /\ R'[i].id \in committed..(flush.cum - 1) =>
                Deleted(R'[i]) \/ ~Uncommitted(R'[i])
  BY <1>2 DEF Refreshed
<1>4. committed \in Nat /\ Current \in Nat /\ (flush.cum # NoId => flush.cum \in Nat /\ flush.cum <= Current)
  <2>1. committed \in Nat /\ Current \in Nat /\ MaxRecordings \in Nat
    BY Ranges
  <2>2. flush.cum \in {NoId} \cup 0..MaxRecordings
    BY DEF Inv, Typed
  <2>3. flush.cum # NoId => flush.cum <= Current
    BY DEF Inv, Flushing
  <2> QED BY <2>1, <2>2, <2>3
<1>5. KeyFirst' /\ LastInserted'
  BY <1>1 DEF Order, KeyFirst, LastInserted
<1>6. Passed(recent_recordings, recent_frames, Current)'
  BY <1>1, <1>3 DEF Order, Passed
<1>7. Settled'
  <2>1. SUFFICES ASSUME NEW i \in DOMAIN R', R'[i].id < committed', Uncommitted(R'[i])
                 PROVE  FALSE
    BY DEF Settled
  <2>2. ~(R'[i].id < committed)
    BY <2>1, <1>3 DEF Order, Settled
  <2>3. /\ flush.cum # NoId /\ R'[i].id \in committed..(flush.cum - 1)
        /\ Deleted(R'[i])
    BY <2>1, <2>2, <1>1, <1>3, <1>4
  <2>4. Deleted(R[i + n])
    BY <2>2, <2>3, <1>3
  <2>5. /\ ~pinned /\ F # << >> /\ F[1].recording_id >= flush.cum - 1
        /\ \A j \in DOMAIN R : R[j].id = flush.cum - 1 => ~Deleted(R[j])
    BY <2>3, <1>1 DEF Order, LastInserted
  <2>6. R'[i].id < flush.cum - 1
    BY <2>3, <2>4, <2>5, <1>3, <1>4
  <2>7. 1 \in DOMAIN R' /\ i \in 1..Len(R') /\ R' # << >>
    BY <2>1, <1>3
  <2>8. R'[1].id <= R'[i].id
    <3>1. R'[1].id = (Top' - Len(R')) + 1 /\ R'[i].id = (Top' - Len(R')) + i
      BY <2>7, RecentRanges DEF Inv, Window
    <3>2. Top' \in Int
      BY DEF Inv, Typed, Top, NoId
    <3> QED BY <2>7, <3>1, <3>2, <1>3
  <2>9. F[1].recording_id \in Nat
    <3>1. F \in Seq(Frame) /\ 1 \in 1..Len(F)
      BY <2>5, Ranges
    <3> QED BY <3>1, FrameTypes
  <2>10. \/ R'[1].id >= F[1].recording_id
         \/ R'[1].id < Current /\ ~Deleted(R'[1]) /\ Uncommitted(R'[1])
         \/ R'[1].id = Current
    BY <2>5, <2>7, <1>2 DEF Refreshed
  <2>11. R'[1].id < Current /\ ~Deleted(R'[1]) /\ Uncommitted(R'[1]) /\ R'[1].id \in Nat
    <3>1. R'[1].id \in Nat /\ R'[i].id \in Nat /\ flush.cum \in Nat /\ flush.cum <= Current
      BY <2>1, <2>3, <2>7, <1>3, <1>4
    <3>2. ~(R'[1].id >= F[1].recording_id)
      BY <3>1, <2>5, <2>6, <2>8, <2>9
    <3>3. R'[1].id # Current
      BY <3>1, <2>6, <2>8, <1>4
    <3> QED BY <3>1, <3>2, <3>3, <2>10
  <2>12. ~(R'[1].id < committed)
    BY <2>7, <2>11, <1>3 DEF Order, Settled
  <2> QED BY <2>3, <2>6, <2>7, <2>8, <2>11, <2>12, <1>3, <1>4
<1> QED BY <1>5, <1>6, <1>7 DEF Order

LEMMA CollectStartsInOrder ==
  ASSUME Inv, Order, FlushCollect
  PROVE  Order'
<1> DEFINE R == recent_recordings
           F == recent_frames
           ids == {r.id : r \in Ready}
<1>1. /\ ~pinned /\ UNCHANGED <<recent_recordings, recent_frames, writer_state, committed, pinned>>
      /\ Current' = Current
      /\ DOMAIN flush'.new = ids
      /\ flush'.cum = IF Ready = {} THEN NoId ELSE Max(ids) + 1
  BY DEF FlushCollect, DbUnlocked, streamVars, Current
<1>2. KeyFirst' /\ Settled'
  BY <1>1 DEF Order, KeyFirst, Settled
<1>3. Passed(recent_recordings, recent_frames, Current)'
  BY <1>1 DEF Order, Passed
<1>4. LastInserted'
  <2>1. SUFFICES ASSUME Ready # {}
                 PROVE  /\ F # << >> /\ F[1].recording_id >= Max(ids)
                        /\ \A i \in DOMAIN R : R[i].id = Max(ids) => ~Deleted(R[i])
                        /\ Max(ids) \in Nat
    <3> HIDE DEF ids
    <3>1. CASE Ready = {}
      BY <3>1, <1>1 DEF LastInserted
    <3>2. CASE Ready # {}
      <4>1. /\ F # << >> /\ F[1].recording_id >= Max(ids)
            /\ \A i \in DOMAIN R : R[i].id = Max(ids) => ~Deleted(R[i])
            /\ Max(ids) \in Nat
        BY <2>1, <3>2
      <4>2. flush'.cum - 1 = Max(ids)
        BY <3>2, <4>1, <1>1
      <4> QED BY <4>1, <4>2, <1>1 DEF LastInserted
    <3> QED BY <3>1, <3>2
  <2>2. ids # {} /\ ids \subseteq 0..MaxRecordings
    <3>1. \A r \in Ready : r.id \in 0..MaxRecordings
      BY ReadyIsDurable, Ranges DEF Ids
    <3> QED BY <2>1, <3>1
  <2>3. Max(ids) \in ids
    BY <2>2, Ranges, MaxIsGreatest
  <2>4. PICK r \in Ready : r.id = Max(ids)
    BY <2>3
  <2>5. PICK i \in DOMAIN R : R[i] = r
    BY <2>4 DEF Ready, ToSet
  <2>6. ~Deleted(r) /\ r.id \in Nat /\ r.id < Current
    <3>1. ~Deleted(r)
      BY <2>4 DEF Ready
    <3>2. r.id \in Nat /\ r.id < flush_ready /\ flush_ready <= Current /\ flush_ready \in Nat
      BY <2>4, ReadyIsDurable DEF Inv, Typed
    <3> QED BY <3>1, <3>2, Ranges
  <2>7. F # << >> /\ F[1].recording_id >= r.id
    BY <2>5, <2>6 DEF Order, Passed
  <2>8. ASSUME NEW j \in DOMAIN R, R[j].id = r.id PROVE ~Deleted(R[j])
    <3>1. /\ R[i].id = (Top - Len(R)) + i /\ R[j].id = (Top - Len(R)) + j
          /\ i \in 1..Len(R) /\ j \in 1..Len(R) /\ Len(R) \in Nat /\ Top \in Int
      BY Ranges, RecentRanges
    <3>2. i = j
      BY <2>5, <2>8, <3>1
    <3> QED BY <2>5, <2>6, <3>2
  <2> HIDE DEF ids
  <2> QED BY <2>4, <2>6, <2>7, <2>8
<1> QED BY <1>2, <1>3, <1>4 DEF Order

-----------------------------------------------------------------------------
(* What rows take on the filesystem.                                       *)

LEMMA RoundUpIsNatural ==
  ASSUME NEW bytes \in Nat
  PROVE  RoundUp(bytes) \in Nat
<1>1. BlockSize \in Nat \ {0}
  BY RecordingsAssumption DEF RecordingsAssumption
<1> DEFINE n == (bytes + BlockSize - 1) \div BlockSize
<1>2. n \in Nat
  BY <1>1
<1> HIDE DEF n
<1>3. n * BlockSize \in Nat
  BY <1>1, <1>2
<1> QED BY <1>3 DEF RoundUp, n

\* The bytes of rows, rounded up.
Weights(rows) == [id \in DOMAIN rows |-> RoundUp(rows[id])]

LEMMA FsBytesIsTotal ==
  ASSUME NEW rows, IsFiniteSet(DOMAIN rows), \A id \in DOMAIN rows : rows[id] \in Nat
  PROVE  /\ \E h : Totals(h, Weights(rows), DOMAIN rows) /\ FsBytes(rows) = h[DOMAIN rows]
         /\ Weights(rows) \in [DOMAIN rows -> Nat]
         /\ FsBytes(rows) \in Nat
<1> DEFINE w == Weights(rows)
           A(h) == [s \in SUBSET DOMAIN rows |->
                      IF s = {} THEN 0 ELSE RoundUp(rows[Pick(s)]) + h[s \ {Pick(s)}]]
           B(h) == [s \in SUBSET DOMAIN rows |->
                      IF s = {} THEN 0 ELSE w[Pick(s)] + h[s \ {Pick(s)}]]
           P(h) == h = A(h)
           h0 == CHOOSE h : P(h)
<1>1. FsBytes(rows) = h0[DOMAIN rows]
  BY DEF FsBytes, MapThenSumSet, MapThenFoldSet, Pick
<1>2. w \in [DOMAIN rows -> Nat]
  BY RoundUpIsNatural DEF Weights
<1>3. ASSUME NEW s \in SUBSET DOMAIN rows, s # {} PROVE w[Pick(s)] = RoundUp(rows[Pick(s)])
  BY <1>3, PickIsIn DEF Weights
<1>4. ASSUME NEW h PROVE P(h) <=> Totals(h, w, DOMAIN rows)
  <2>1. A(h) = B(h)
    <3> HIDE DEF w
    <3> QED BY <1>3
  <2>2. Totals(h, w, DOMAIN rows) <=> h = B(h)
    BY DEF Totals
  <2> HIDE DEF A, B
  <2> QED BY <2>1, <2>2
<1> HIDE DEF P, w
<1>5. PICK g : Totals(g, w, DOMAIN rows)
  BY <1>2, TotalsExist
<1>6. P(h0)
  <2>1. P(g)
    BY <1>4, <1>5
  <2> QED BY <2>1
<1>7. Totals(h0, w, DOMAIN rows)
  BY <1>4, <1>6
<1> HIDE DEF h0
<1>8. h0[DOMAIN rows] \in Nat
  BY <1>2, <1>7, TotalsAreNatural
<1> QED BY <1>1, <1>2, <1>7, <1>8 DEF w

\* More rows take no less.
LEMMA FsBytesGrow ==
  ASSUME NEW rows, NEW t, IsFiniteSet(t), NEW s \in SUBSET t,
         \A id \in t : rows[id] \in Nat
  PROVE  LET small == FsBytes([id \in s |-> rows[id]])
             large == FsBytes([id \in t |-> rows[id]])
         IN  small \in Nat /\ large \in Nat /\ small <= large
<1> DEFINE few == [id \in s |-> rows[id]]
           many == [id \in t |-> rows[id]]
<1>1. IsFiniteSet(s)
  BY FS_Subset
<1>2. /\ DOMAIN few = s /\ DOMAIN many = t
      /\ \A id \in s : few[id] = many[id] /\ few[id] \in Nat
      /\ \A id \in t : many[id] \in Nat
  OBVIOUS
<1> HIDE DEF few, many
<1>3. PICK g : Totals(g, Weights(few), s) /\ FsBytes(few) = g[s]
  BY <1>1, <1>2, FsBytesIsTotal
<1>4. PICK h : Totals(h, Weights(many), t) /\ FsBytes(many) = h[t]
  BY <1>2, FsBytesIsTotal
<1>5. /\ Weights(many) \in [t -> Nat] /\ FsBytes(many) \in Nat /\ FsBytes(few) \in Nat
  BY <1>1, <1>2, FsBytesIsTotal
<1>6. \A id \in s : Weights(few)[id] = Weights(many)[id]
  BY <1>2 DEF Weights
<1>7. g[s] = h[s]
  BY <1>1, <1>3, <1>4, <1>6, TotalsAgree
<1>8. h[s] <= h[t]
  BY <1>4, <1>5, TotalsGrow
<1>9. FsBytes(few) <= FsBytes(many)
  BY <1>3, <1>4, <1>7, <1>8
<1> QED BY <1>5, <1>9 DEF few, many

\* The recordings that fs_bytes_to_add counts, and their bytes, rounded up.
Examined(ready) == {r \in ToSet(recent_recordings) : r.id \in committed..(ready - 1)}
Takes(ready)    == [r \in Examined(ready) |-> RoundUp(r.sample_file_bytes)]

LEMMA FsBytesToAddIsTotal ==
  ASSUME Inv, NEW ready
  PROVE  /\ IsFiniteSet(Examined(ready))
         /\ Takes(ready) \in [Examined(ready) -> Nat]
         /\ \E g : /\ Totals(g, Takes(ready), Examined(ready))
                  /\ FsBytesToAdd(ready) = g[Examined(ready)]
         /\ FsBytesToAdd(ready) \in Nat
<1> DEFINE S == Examined(ready)
           w == Takes(ready)
           A(h) == [s \in SUBSET S |->
                      IF s = {} THEN 0 ELSE RoundUp(Pick(s).sample_file_bytes) + h[s \ {Pick(s)}]]
           B(h) == [s \in SUBSET S |->
                      IF s = {} THEN 0 ELSE w[Pick(s)] + h[s \ {Pick(s)}]]
           P(h) == h = A(h)
           h0 == CHOOSE h : P(h)
<1>1. FsBytesToAdd(ready) = h0[S]
  BY DEF FsBytesToAdd, MapThenSumSet, MapThenFoldSet, Pick, Examined
<1>2. IsFiniteSet(S) /\ \A r \in S : r.sample_file_bytes \in Nat
  <2>1. recent_recordings \in Seq(Recording) /\ MaxBytes \in Nat
    BY Ranges
  <2>2. IsFiniteSet(ToSet(recent_recordings))
    <3>1. IsFiniteSet(1..Len(recent_recordings))
      BY <2>1, FS_Interval
    <3>2. recent_recordings \in Surjection(1..Len(recent_recordings), ToSet(recent_recordings))
      BY <2>1 DEF ToSet, Surjection
    <3> QED BY <3>1, <3>2, FS_Surjection
  <2>3. \A r \in ToSet(recent_recordings) : r \in Recording
    BY <2>1 DEF ToSet
  <2> QED BY <2>1, <2>2, <2>3, FS_Subset DEF Recording, Examined
<1> HIDE DEF S
<1>3. w \in [S -> Nat]
  BY <1>2, RoundUpIsNatural DEF Takes, S
<1>4. ASSUME NEW s \in SUBSET S, s # {} PROVE w[Pick(s)] = RoundUp(Pick(s).sample_file_bytes)
  BY <1>4, PickIsIn DEF Takes, S
<1>5. ASSUME NEW h PROVE P(h) <=> Totals(h, w, S)
  <2>1. A(h) = B(h)
    <3> HIDE DEF w
    <3> QED BY <1>4
  <2>2. Totals(h, w, S) <=> h = B(h)
    BY DEF Totals
  <2> HIDE DEF A, B
  <2> QED BY <2>1, <2>2
<1> HIDE DEF P, w
<1>6. PICK g : Totals(g, w, S)
  BY <1>2, <1>3, TotalsExist
<1>7. P(h0)
  <2>1. P(g)
    BY <1>5, <1>6
  <2> QED BY <2>1
<1>8. Totals(h0, w, S)
  BY <1>5, <1>7
<1> HIDE DEF h0
<1>9. h0[S] \in Nat
  BY <1>2, <1>3, <1>8, TotalsAreNatural
<1> QED BY <1>1, <1>2, <1>3, <1>8, <1>9 DEF S, w

-----------------------------------------------------------------------------
(* The queue of deletions.                                                 *)

\* The byte counters, which deletions and flushes move.
Counters ==
  /\ fs_bytes \in Int /\ fs_bytes_to_delete \in Int /\ retain_bytes \in Int

LEMMA RowSets ==
  ASSUME Inv
  PROVE  /\ DOMAIN row \subseteq Ids /\ IsFiniteSet(Ids) /\ Ids \subseteq Nat
         /\ to_delete \subseteq Ids /\ garbage \subseteq Ids
         /\ \A s \in SUBSET Ids : IsFiniteSet(s)
         /\ \A id \in DOMAIN row : row[id] \in 1..MaxBytes /\ row[id] \in Nat
<1>1. MaxRecordings \in Nat /\ MaxBytes \in Nat
  BY Ranges
<1>2. IsFiniteSet(Ids) /\ Ids \subseteq Nat
  BY <1>1, FS_Interval DEF Ids
<1>3. /\ DOMAIN row \subseteq Ids
      /\ \A id \in DOMAIN row : row[id] \in 1..MaxBytes
      /\ to_delete \subseteq Ids /\ garbage \subseteq Ids
  BY DEF Inv, Typed, Rows
<1>4. \A s \in SUBSET Ids : IsFiniteSet(s)
  BY <1>2, FS_Subset
<1>5. \A b \in 1..MaxBytes : b \in Nat
  BY <1>1
<1> QED BY <1>2, <1>3, <1>4, <1>5

LEMMA DeleteOldestKeepsQueue ==
  ASSUME Inv, Counters, QueuedOldest, flush.pc # "Committed",
         UNCHANGED <<row, flush>>, NEW needed \in Int, DeleteOldest(needed)
  PROVE  QueuedOldest' /\ fs_bytes_to_delete' \in Int
<1> DEFINE after == {id \in DOMAIN row : \A d \in to_delete : d < id}
           more == Oldest(needed, after)
           upTo(x) == {o \in after : o < x}
<1>1. /\ to_delete' = to_delete \cup more
      /\ fs_bytes_to_delete' = fs_bytes_to_delete + FsBytes(Restrict(row, more))
  BY DEF DeleteOldest
<1>2. /\ after \subseteq DOMAIN row /\ more \subseteq after
      /\ more = {id \in after : FsBytes([o \in upTo(id) |-> row[o]]) <= needed}
  BY DEF Oldest
<1>3. DOMAIN row \subseteq Nat /\ to_delete \subseteq Nat /\ DOMAIN row \subseteq Ids
  BY RowSets
<1> HIDE DEF more
<1>4. ASSUME NEW d \in to_delete', NEW id \in DOMAIN row, id < d
      PROVE  id \in to_delete'
  <2>1. CASE \E e \in to_delete : ~(e < id)
    <3>1. PICK e \in to_delete : ~(e < id)
      BY <2>1
    <3>2. id \in to_delete
      <4>1. id < e \/ id = e
        BY <3>1, <1>3
      <4> QED BY <4>1, <3>1 DEF QueuedOldest
    <3> QED BY <3>2, <1>1
  <2>2. CASE \A e \in to_delete : e < id
    <3>1. id \in after /\ d \in more
      <4>1. d \notin to_delete
        <5>1. SUFFICES ASSUME d \in to_delete PROVE FALSE
          OBVIOUS
        <5>2. d < id /\ id < d /\ d \in Nat /\ id \in Nat
          BY <2>2, <1>3, <1>4, <5>1
        <5> QED BY <5>2
      <4> QED BY <4>1, <2>2, <1>1
    <3>2. d \in after /\ d \in Nat /\ id \in Nat
      BY <3>1, <1>2, <1>3
    <3>3. upTo(id) \subseteq upTo(d) /\ upTo(d) \subseteq DOMAIN row
      BY <1>2, <1>3, <1>4, <3>2
    <3>4. IsFiniteSet(upTo(d)) /\ \A o \in upTo(d) : row[o] \in Nat
      BY <3>3, <1>3, RowSets
    <3>5. /\ FsBytes([o \in upTo(id) |-> row[o]]) \in Nat
          /\ FsBytes([o \in upTo(d) |-> row[o]]) \in Nat
          /\ FsBytes([o \in upTo(id) |-> row[o]]) <= FsBytes([o \in upTo(d) |-> row[o]])
      <4> HIDE DEF upTo, after
      <4> QED BY <3>3, <3>4, FsBytesGrow
    <3>6. FsBytes([o \in upTo(d) |-> row[o]]) <= needed
      BY <3>1, <1>2
    <3>7. FsBytes([o \in upTo(id) |-> row[o]]) <= needed
      <4> HIDE DEF upTo, after
      <4> QED BY <3>5, <3>6
    <3>8. id \in more
      BY <3>1, <3>7, <1>2
    <3> QED BY <3>8, <1>1
  <2> QED BY <2>1, <2>2
<1>5. QueuedOldest'
  BY <1>4 DEF QueuedOldest
<1>6. FsBytes(Restrict(row, more)) \in Nat
  <2>1. more \subseteq DOMAIN row
    BY <1>2
  <2>2. /\ DOMAIN Restrict(row, more) = more
        /\ \A id \in more : Restrict(row, more)[id] = row[id]
    BY <2>1 DEF Restrict
  <2>3. IsFiniteSet(more) /\ \A id \in more : row[id] \in Nat
    BY <2>1, <1>3, RowSets
  <2> QED BY <2>2, <2>3, FsBytesIsTotal
<1> QED BY <1>1, <1>5, <1>6 DEF Counters

LEMMA EnqueueKeepsQueue ==
  ASSUME Inv, Counters, QueuedOldest, flush.pc # "Committed",
         UNCHANGED <<row, flush, fs_bytes>>, retain_bytes' \in Int,
         NEW ready, EnqueueDelete(ready)
  PROVE  QueuedOldest' /\ Counters'
<1> DEFINE needed == fs_bytes + FsBytesToAdd(ready) - fs_bytes_to_delete - retain_bytes'
<1>1. needed \in Int
  BY FsBytesToAddIsTotal DEF Counters
<1>2. \/ UNCHANGED <<to_delete, fs_bytes_to_delete>>
      \/ DeleteOldest(needed)
  BY DEF EnqueueDelete, Needed
<1>3. CASE UNCHANGED <<to_delete, fs_bytes_to_delete>>
  BY <1>3 DEF QueuedOldest, Counters
<1> HIDE DEF needed
<1>4. CASE DeleteOldest(needed)
  BY <1>1, <1>4, DeleteOldestKeepsQueue DEF Counters
<1> QED BY <1>2, <1>3, <1>4

LEMMA ApplyCounts ==
  ASSUME Inv, Counters, FlushApply
  PROVE  Counters'
<1> DEFINE end == IF to_delete = {} THEN 0 ELSE Max(to_delete) + 1
           deleted == DeleteUntil(recent_recordings, end)
           new(r) == /\ flush.cum # NoId
                     /\ r.id \in committed..(flush.cum - 1)
                     /\ ~Deleted(r)
           added == {i \in DOMAIN deleted : new(deleted[i])}
           rows == [i \in added |-> deleted[i].sample_file_bytes]
<1>1. /\ fs_bytes' = fs_bytes - fs_bytes_to_delete + FsBytes(rows)
      /\ fs_bytes_to_delete' = 0 /\ retain_bytes' = retain_bytes
  BY DEF FlushApply
<1>2. /\ DOMAIN deleted = 1..Len(recent_recordings) /\ Len(recent_recordings) \in Nat
      /\ \A i \in DOMAIN deleted : deleted[i].sample_file_bytes \in Nat
  <2>1. recent_recordings \in Seq(Recording) /\ MaxBytes \in Nat
    BY Ranges
  <2>2. /\ deleted \in Seq(Recording) /\ Len(deleted) = Len(recent_recordings)
    BY <2>1, MarkedRecordings DEF DeleteUntil
  <2>3. \A i \in 1..Len(deleted) : deleted[i] \in Recording
    BY <2>2
  <2>4. \A r \in Recording : r.sample_file_bytes \in Nat
    BY <2>1 DEF Recording
  <2> HIDE DEF deleted
  <2> QED BY <2>1, <2>2, <2>3, <2>4
<1>3. IsFiniteSet(added)
  <2>1. IsFiniteSet(1..Len(recent_recordings))
    <3>1. Len(recent_recordings) \in Int
      BY <1>2
    <3> QED BY <3>1, FS_Interval
  <2>2. added \subseteq 1..Len(recent_recordings)
    BY <1>2
  <2> QED BY <2>1, <2>2, FS_Subset
<1>4. DOMAIN rows = added /\ \A i \in added : rows[i] \in Nat
  BY <1>2
<1> HIDE DEF rows, added
<1>5. FsBytes(rows) \in Nat
  BY <1>3, <1>4, FsBytesIsTotal
<1> QED BY <1>1, <1>5 DEF Counters

-----------------------------------------------------------------------------
Sound == Order /\ Counters /\ QueuedOldest

\* The steps of the worker's I/O, of collectors and of abandon.
LEMMA IdleStepsKeepSound ==
  ASSUME Inv, Sound,
         UNCHANGED <<recent_recordings, recent_frames, writer_state, committed, pinned,
                     byteVars, retain_bytes, to_delete, row, flush>>
  PROVE  Sound'
<1>1. Order'
  BY SteadyKeepsOrder DEF Sound
<1>2. Counters' /\ QueuedOldest'
  BY DEF Sound, Counters, QueuedOldest, byteVars
<1> QED BY <1>1, <1>2 DEF Sound

LEMMA WorkerKeepsSound ==
  ASSUME Inv, Sound, Worker
  PROVE  Sound'
<1>1. CASE Prepares
  <2>1. Order'
    BY <1>1, PreparesKeepsOrder DEF Sound
  <2>2. UNCHANGED <<byteVars, retain_bytes, to_delete, row, flush>>
    BY <1>1, PreparesRechoose DEF WorkerUnchanged, dbVars
  <2>3. Counters' /\ QueuedOldest'
    BY <2>2 DEF Sound, Counters, QueuedOldest, byteVars
  <2> QED BY <2>1, <2>3 DEF Sound
<1>2. CASE WriteBytes \/ CreateFails \/ Abort \/ FileIoFails \/ SyncFile \/ SyncDir
  <2>1. UNCHANGED <<streamVars, dbVars, flush>>
    BY <1>2 DEF WriteBytes, CreateFails, Abort, AbortFile, FileIoFails, SyncFile, SyncDir
  <2> QED BY <2>1, IdleStepsKeepSound DEF streamVars, dbVars
<1> QED BY <1>1, <1>2, PrepPrepares DEF Worker

LEMMA WriteKeepsSound ==
  ASSUME Inv, Inv', Sound, Write
  PROVE  Sound'
<1>1. Order'
  BY WriteKeepsOrder DEF Sound
<1>2. UNCHANGED <<byteVars, retain_bytes, to_delete, row, flush>>
  <2>1. PICK is_key \in BOOLEAN, len \in FrameSizes, close \in BOOLEAN :
          PushAndMaybeClose(is_key, len, close)
    BY DEF Write
  <2>2. UNCHANGED <<byteVars, retain_bytes, to_delete, dbVars, flush>>
    BY <2>1 DEF PushAndMaybeClose
  <2> QED BY <2>2 DEF dbVars
<1>3. Counters' /\ QueuedOldest'
  BY <1>2 DEF Sound, Counters, QueuedOldest, byteVars
<1> QED BY <1>1, <1>3 DEF Sound

LEMMA HandleNotifyKeepsSound ==
  ASSUME Inv, Sound, HandleNotify
  PROVE  Sound'
<1>1. /\ flush.pc = "Idle"
      /\ UNCHANGED <<recent_recordings, recent_frames, writer_state, committed, pinned,
                     fs_bytes, retain_bytes, row, flush>>
  BY DEF HandleNotify, DbUnlocked, threadVars, dbVars
<1>2. \/ UNCHANGED <<to_delete, fs_bytes_to_delete>>
      \/ EnqueueDelete(flush_ready')
  BY DEF HandleNotify, EnqueueFails
<1>3. Order'
  BY <1>1, SteadyKeepsOrder DEF Sound
<1>4. CASE UNCHANGED <<to_delete, fs_bytes_to_delete>>
  BY <1>1, <1>3, <1>4 DEF Sound, Counters, QueuedOldest
<1>5. CASE EnqueueDelete(flush_ready')
  <2>1. flush.pc # "Committed" /\ retain_bytes' \in Int
    BY <1>1 DEF Sound, Counters
  <2>2. QueuedOldest' /\ Counters'
    BY <1>1, <1>5, <2>1, EnqueueKeepsQueue DEF Sound
  <2> QED BY <1>3, <2>2 DEF Sound
<1> QED BY <1>2, <1>4, <1>5

LEMMA FlushKeepsSound ==
  ASSUME Inv, Inv', Sound, Flush
  PROVE  Sound'
<1>1. CASE FlushCollect
  <2>1. Order'
    BY <1>1, CollectStartsInOrder DEF Sound
  <2>2. /\ flush.pc = "Idle"
        /\ UNCHANGED <<byteVars, retain_bytes, to_delete, row>>
    BY <1>1 DEF FlushCollect, DbUnlocked, streamVars, dbVars
  <2>3. Counters' /\ QueuedOldest'
    BY <2>2 DEF Sound, Counters, QueuedOldest, byteVars
  <2> QED BY <2>1, <2>3 DEF Sound
<1>2. CASE FlushCommit
  <2>1. /\ flush.pc # "Idle" /\ flush'.pc = "Committed" /\ flush'.cum = flush.cum
        /\ UNCHANGED streamVars
    <3>1. flush \in [pc : {"Idle", "Collected", "Committed"}, new : Rows,
                     cum : {NoId} \cup 0..MaxRecordings, deletion : SUBSET Ids,
                     gced : SUBSET Ids]
      BY DEF Inv, Typed
    <3> QED BY <1>2, <3>1 DEF FlushCommit
  <2>2. Order'
    BY <2>1, SteadyKeepsOrder DEF Sound, streamVars
  <2>3. Counters' /\ QueuedOldest'
    BY <2>1 DEF Sound, Counters, QueuedOldest, streamVars, byteVars
  <2> QED BY <2>2, <2>3 DEF Sound
<1>3. CASE FlushFails
  <2>1. /\ flush.pc = "Collected" /\ flush'.pc = "Idle" /\ UNCHANGED <<streamVars, row>>
    BY <1>3 DEF FlushFails, NoFlush, dbVars
  <2>2. Order'
    BY <2>1, SteadyKeepsOrder DEF Sound, streamVars
  <2>3. Counters' /\ QueuedOldest'
    BY <2>1 DEF Sound, Counters, QueuedOldest, streamVars, byteVars
  <2> QED BY <2>2, <2>3 DEF Sound
<1>4. CASE FlushApply
  <2>1. Order'
    BY <1>4, ApplyKeepsOrder DEF Sound
  <2>2. QueuedOldest'
    BY <1>4 DEF FlushApply, QueuedOldest
  <2>3. Counters'
    BY <1>4, ApplyCounts DEF Sound
  <2> QED BY <2>1, <2>2, <2>3 DEF Sound
<1> QED BY <1>1, <1>2, <1>3, <1>4 DEF Flush

LEMMA CrashKeepsSound ==
  ASSUME Inv, Sound, Crash
  PROVE  Sound'
<1>1. /\ recent_recordings' = << >> /\ recent_frames' = << >> /\ flush'.pc = "Idle"
      /\ to_delete' = {} /\ fs_bytes' = FsBytes(row) /\ fs_bytes_to_delete' = 0
      /\ retain_bytes' = retain_bytes
  BY DEF Crash, NoFlush
<1>2. Order'
  BY <1>1 DEF Order, KeyFirst, Passed, LastInserted, Settled
<1>3. FsBytes(row) \in Nat
  BY RowSets, FsBytesIsTotal
<1> QED BY <1>1, <1>2, <1>3 DEF Sound, Counters, QueuedOldest

LEMMA InitialRotationKeepsSound ==
  ASSUME Inv, Sound, InitialRotation
  PROVE  Sound'
<1>1. /\ UNCHANGED <<recent_recordings, recent_frames, writer_state, committed, pinned,
                     fs_bytes, row, flush>>
      /\ retain_bytes' \in Limits /\ EnqueueDelete(flush_ready) /\ process = "abandoned"
  BY DEF InitialRotation, threadVars, dbVars
<1>2. flush.pc # "Committed" /\ retain_bytes' \in Int
  BY <1>1, RecordingsAssumption DEF RecordingsAssumption, Inv, Stopped, NoFlush
<1>3. Order'
  BY <1>1, SteadyKeepsOrder DEF Sound
<1> QED BY <1>1, <1>2, <1>3, EnqueueKeepsQueue DEF Sound

LEMMA NextKeepsSound ==
  ASSUME Inv, Inv', Sound, [Next]_vars
  PROVE  Sound'
<1>1. CASE Collect
  <2>1. UNCHANGED <<streamVars, dbVars, flush>>
    BY <1>1 DEF Collect, GcUnlink, GcSync, GcSyncFails
  <2> QED BY <2>1, IdleStepsKeepSound DEF streamVars, dbVars
<1>2. CASE Abandon
  <2>1. UNCHANGED <<streamVars, dbVars, flush>>
    BY <1>2 DEF Abandon, threadVars
  <2> QED BY <2>1, IdleStepsKeepSound DEF streamVars, dbVars
<1>3. CASE UNCHANGED vars
  BY <1>3, IdleStepsKeepSound DEF vars, streamVars, threadVars, dbVars
<1> QED BY <1>1, <1>2, <1>3, WriteKeepsSound, WorkerKeepsSound, HandleNotifyKeepsSound,
           FlushKeepsSound, CrashKeepsSound, InitialRotationKeepsSound DEF Next

LEMMA InitSound ==
  ASSUME Init
  PROVE  Sound
<1>1. Order
  BY DEF Init, Order, KeyFirst, Passed, LastInserted, Settled, NoFlush
<1>2. Counters /\ QueuedOldest
  BY RecordingsAssumption DEF Init, Counters, QueuedOldest, RecordingsAssumption
<1> QED BY <1>1, <1>2 DEF Sound

\* In every reachable state the recordings the worker has passed keep their
\* last frames until a flush is done with them, and deletions go oldest first.
THEOREM SoundHolds == Spec => []Sound
<1>1. Inv /\ Inv' /\ Sound /\ [Next]_vars => Sound'
  BY NextKeepsSound
<1> QED BY InitSound, InvHolds, <1>1, PTL DEF Spec

\* The rows a flush deletes are those it queued, no more and no fewer.
LEMMA DeletesTheQueue ==
  ASSUME Inv, Sound, flush.pc = "Collected"
  PROVE  DeletionRange = flush.deletion
<1>1. DeletionRange \subseteq DOMAIN row /\ flush.deletion \subseteq DeletionRange
  BY DeletedWereRows
<1>2. to_delete = flush.deletion
  BY DEF Inv, Flushing
<1>3. ASSUME NEW id \in DeletionRange PROVE id \in flush.deletion
  <2>1. flush.deletion # {} /\ id <= Max(flush.deletion)
    BY <1>3 DEF DeletionRange
  <2>2. to_delete \subseteq 0..MaxRecordings /\ to_delete \subseteq Nat
    BY Ranges, RowSets DEF Ids
  <2>3. Max(to_delete) \in to_delete
    BY <2>1, <2>2, <1>2, Ranges, MaxIsGreatest
  <2>4. id \in DOMAIN row /\ id \in Nat /\ Max(to_delete) \in Nat
    BY <2>2, <2>3, <1>1, RowSets
  <2>5. id < Max(to_delete) \/ id = Max(to_delete)
    BY <2>1, <2>4, <1>2
  <2> QED BY <1>2, <2>3, <2>4, <2>5 DEF Sound, QueuedOldest
<1> QED BY <1>1, <1>3

LEMMA SoundNeverPanics ==
  ASSUME Inv, Sound
  PROVE  NothingPanics
<1> DEFINE R == recent_recordings
<1>1. GrowingIsLast
  <2>1. ASSUME NEW i \in DOMAIN R, Growing(R[i])
        PROVE  i = Len(R) /\ R[i].id = recording_id
    <3>1. R[i].id = recording_id
      BY <2>1 DEF Inv, Window
    <3>2. R[i].id \in Nat /\ R[i].id = (Top - Len(R)) + i /\ i \in 1..Len(R) /\ Top \in Int
      BY RecentRanges, Ranges
    <3>3. recording_id # NoId /\ recording_id = complete /\ Top = complete
      BY <3>1, <3>2 DEF Inv, Window, Top, NoId
    <3>4. Len(R) \in Nat
      BY Ranges
    <3>5. Top = (Top - Len(R)) + i
      BY <3>1, <3>2, <3>3
    <3> QED BY <3>1, <3>2, <3>4, <3>5
  <2>2. ASSUME recording_id # NoId
        PROVE  /\ recording_id = complete /\ R # << >>
               /\ R[Len(R)].id = recording_id /\ Uncommitted(R[Len(R)]) /\ Growing(R[Len(R)])
    <3>1. /\ recording_id = complete /\ R # << >>
          /\ Uncommitted(R[Len(R)]) /\ Growing(R[Len(R)])
      BY <2>2 DEF Inv, Window
    <3>2. Len(R) \in DOMAIN R
      BY <3>1, Ranges
    <3> QED BY <3>1, <3>2 DEF Inv, Window
  <2> QED BY <2>1, <2>2 DEF GrowingIsLast
<1>2. SyncedIsRecent /\ FileIffWritten /\ FramesContiguous /\ UnlinkedIsGarbage
  BY DEF Inv, Working, Window, Flushing
<1>3. ReadyIsComplete
  <2>1. SUFFICES ASSUME NEW i \in DOMAIN R, R[i].id \in committed..(flush_ready - 1),
                        ~Deleted(R[i])
                 PROVE  Uncommitted(R[i]) /\ ~Growing(R[i])
    BY DEF ReadyIsComplete
  <2>2. R[i] \in Ready
    BY <2>1, Ranges DEF Ready, ToSet
  <2>3. R[i].id < flush_ready /\ flush_ready <= Current /\ R[i].id \in Nat /\ flush_ready \in Nat
    BY <2>2, ReadyIsDurable DEF Inv, Typed
  <2>4. committed <= R[i].id /\ R[i].id < Current
    BY SMTT(30), <2>1, <2>3, Ranges
  <2> QED BY <2>1, <2>4 DEF Inv, Working
<1>4. DeletedIsCommitted
  <2>1. SUFFICES ASSUME NEW i \in DOMAIN R, to_delete # {}, R[i].id <= Max(to_delete)
                 PROVE  ~Uncommitted(R[i])
    BY DEF DeletedIsCommitted
  <2>2. to_delete \subseteq 0..MaxRecordings
    BY Ranges, RowSets DEF Ids
  <2>3. Max(to_delete) \in to_delete
    BY <2>1, <2>2, Ranges, MaxIsGreatest
  <2>4. \A id \in to_delete : id < committed
    BY RowSets, Ranges DEF Inv, Flushing, NoFlush
  <2>5. R[i].id < committed
    <3>1. Max(to_delete) \in Nat /\ Max(to_delete) < committed
      <4>1. to_delete \subseteq Nat
        BY RowSets
      <4> QED BY <2>3, <2>4, <4>1
    <3>2. R[i].id \in Nat /\ committed \in Nat
      BY SMTT(30), Ranges, RecentRanges
    <3> QED BY <2>1, <3>1, <3>2
  <2> QED BY <2>5 DEF Sound, Order, Settled
<1>5. DeletesWhatItCounted
  <2>1. SUFFICES ASSUME flush.pc = "Collected" PROVE DeletionRange = flush.deletion
    BY DEF DeletesWhatItCounted
  <2> QED BY <2>1, DeletesTheQueue
<1> QED BY <1>1, <1>2, <1>3, <1>4, <1>5 DEF NothingPanics

\* The assertions of the Writer, of the worker and of flush hold in every
\* state, and so do the checks of the SQL that flush runs.
THEOREM NeverPanics == Spec => []NothingPanics
BY InvHolds, SoundHolds, SoundNeverPanics, PTL

-----------------------------------------------------------------------------
(* Sample files: NoForgottenFile.                                          *)

Alive(id) ==
  \E i \in DOMAIN recent_recordings :
    recent_recordings[i].id = id /\ ~Deleted(recent_recordings[i])

Gone(id)  == ~file[id].exists
Clean(id) == ~file[id].exists /\ ~file[id].pending

\* Of the ids the worker has not passed, only the one at hand has a file.
FilesAhead ==
  /\ process # "down" =>
       \A id \in Ids : id >= committed /\ id >= Current /\ file[id].exists =>
         id = Current /\ InHand
  /\ io.op = "Aborted" => Gone(Current) \/ Current \in leaked
  /\ \A i \in DOMAIN recent_recordings :
       recent_recordings[i].id >= Current => ~Deleted(recent_recordings[i])

\* Recordings given up: their file is unlinked.
GivenUp ==
  \A id \in committed..(Current - 1) : Alive(id) \/ Gone(id) \/ id \in leaked

\* For good, once a later recording is synced.
GivenUpBefore(end) ==
  \A id \in committed..(end - 1) : Alive(id) \/ Clean(id) \/ id \in leaked

GivenUpForGood ==
  /\ io.op = "Synced" => GivenUpBefore(Current)
  /\ \A i \in DOMAIN recent_recordings :
       LET r == recent_recordings[i]
       IN  r.id < Current /\ ~Deleted(r) => GivenUpBefore(r.id)

\* So what a flush passes over has no file.
PassedOver ==
  flush.pc = "Collected" /\ flush.cum # NoId =>
    \A id \in committed..(flush.cum - 1) :
      id \in DOMAIN flush.new \/ Clean(id) \/ id \in leaked

\* Garbage that collectors have unlinked, and the directory synced, or not yet.
FilesCollected ==
  /\ \A id \in garbage_unlinked : id < committed /\ Clean(id)
  /\ \A c \in Collectors : \A id \in gc[c] : id < committed /\ Gone(id)

FileFound ==
  \A id \in Ids :
    file[id].exists \/ file[id].pending =>
      \/ id \in DOMAIN row \cup garbage \cup leaked
      \/ id >= cum_recordings

FilesKnown ==
  /\ FilesAhead /\ GivenUp /\ GivenUpForGood /\ PassedOver
  /\ FilesCollected /\ FileFound

-----------------------------------------------------------------------------
LEMMA FileTypes ==
  ASSUME Inv
  PROVE  /\ file \in [Ids -> FileRecord] /\ Ids \subseteq Nat
         /\ MaxRecordings \in Nat /\ Current \in 0..MaxRecordings /\ Current \in Nat
         /\ committed \in Nat /\ cum_recordings \in Nat /\ committed <= cum_recordings
         /\ \A end \in 0..MaxRecordings : \A id \in committed..(end - 1) : id \in Ids /\ id \in Nat
         /\ flush.cum # NoId => flush.cum \in Nat /\ committed < flush.cum /\ flush.cum <= Current
         /\ garbage_unlinked \subseteq Ids /\ garbage_needs_unlink \subseteq Ids
         /\ \A c \in Collectors : gc[c] \subseteq Ids
<1>1. /\ MaxRecordings \in Nat /\ Current \in 0..MaxRecordings
      /\ committed \in 0..MaxRecordings /\ cum_recordings \in 0..MaxRecordings
      /\ committed <= cum_recordings
  BY Ranges
<1>2. /\ file \in [Ids -> FileRecord] /\ flush.cum \in {NoId} \cup 0..MaxRecordings
      /\ garbage_unlinked \subseteq Ids /\ garbage_needs_unlink \subseteq Ids
      /\ \A c \in Collectors : gc[c] \subseteq Ids
  BY DEF Inv, Typed, FileRecord
<1>3. Ids \subseteq Nat
  BY <1>1 DEF Ids
<1>4. \A end \in 0..MaxRecordings : \A id \in committed..(end - 1) : id \in Ids /\ id \in Nat
  BY <1>1 DEF Ids
<1>5. flush.cum # NoId => flush.cum \in Nat /\ committed < flush.cum /\ flush.cum <= Current
  <2>1. flush.cum # NoId => flush.cum \in Nat
    BY <1>1, <1>2
  <2>2. flush.cum # NoId => committed < flush.cum /\ flush.cum <= Current
    BY DEF Inv, Flushing
  <2> QED BY <2>1, <2>2
<1> QED BY <1>1, <1>2, <1>3, <1>4, <1>5

\* While the worker is busy, its recording is past all that is committed.
LEMMA BusyIsAhead ==
  ASSUME Inv, Busy
  PROVE  /\ Current \in Ids /\ committed <= Current /\ cum_recordings <= Current
         /\ process = "running" /\ ~writer_state.file
<1>1. Current \in cum_recordings..Top /\ ~writer_state.file
  BY DEF Inv, Working
<1>2. process = "running"
  BY BusyIsRunning DEF Busy, Idle
<1>3. Current \in Ids
  BY FileAtHand
<1> QED BY <1>1, <1>2, <1>3, FileTypes

-----------------------------------------------------------------------------
(* The worker.                                                             *)

\* Steps that leave the recordings alone, and unlinked files unlinked.
LEMMA GivenUpStays ==
  ASSUME Inv, GivenUp, GivenUpForGood, PassedOver,
         UNCHANGED <<recent_recordings, writer_state, committed>>,
         flush' = flush \/ flush'.pc # "Collected",
         leaked \subseteq leaked',
         \A id \in committed..(Current - 1) :
           (Gone(id) => Gone(id)') /\ (Clean(id) => Clean(id)'),
         io'.op # "Synced" \/ io.op = "Synced"
  PROVE  GivenUp' /\ GivenUpForGood' /\ PassedOver'
<1>1. Current' = Current /\ \A id : Alive(id)' <=> Alive(id)
  BY DEF Current, Alive
<1>2. GivenUp'
  BY <1>1 DEF GivenUp
<1>3. ASSUME NEW end \in Nat, end <= Current, GivenUpBefore(end) PROVE GivenUpBefore(end)'
  <2>1. ASSUME NEW id \in committed..(end - 1) PROVE id \in committed..(Current - 1)
    BY <1>3, <2>1, FileTypes
  <2> QED BY <1>1, <1>3, <2>1 DEF GivenUpBefore
<1>4. GivenUpForGood'
  <2>1. Current \in Nat
    BY FileTypes
  <2>2. io'.op = "Synced" => GivenUpBefore(Current)'
    <3>1. SUFFICES ASSUME io.op = "Synced"
                   PROVE  \A id \in committed..(Current - 1) :
                            Alive(id)' \/ Clean(id)' \/ id \in leaked'
      BY <1>1 DEF GivenUpBefore
    <3>2. GivenUpBefore(Current)
      BY <3>1 DEF GivenUpForGood
    <3> QED BY <3>2, <1>1 DEF GivenUpBefore
  <2>3. ASSUME NEW i \in DOMAIN recent_recordings, recent_recordings[i].id < Current,
               ~Deleted(recent_recordings[i])
        PROVE  GivenUpBefore(recent_recordings[i].id)'
    <3>1. recent_recordings[i].id \in Nat
      BY RecentRanges
    <3> QED BY <2>1, <2>3, <3>1, <1>3 DEF GivenUpForGood
  <2> QED BY <2>2, <2>3, <1>1 DEF GivenUpForGood, GivenUpBefore
<1>5. PassedOver'
  <2>1. SUFFICES ASSUME flush' = flush, flush.pc = "Collected", flush.cum # NoId,
                        NEW id \in committed..(flush.cum - 1)
                 PROVE  id \in DOMAIN flush.new \/ Clean(id)' \/ id \in leaked'
    BY DEF PassedOver
  <2>2. id \in committed..(Current - 1)
    BY <2>1, FileTypes
  <2> QED BY <2>1, <2>2 DEF PassedOver
<1> QED BY <1>2, <1>4, <1>5

\* A recording that the worker has passed stays alive through a preparation.
LEMMA AliveWhilePrepared ==
  ASSUME Inv, NEW n, NEW m, NEW ws, Rechosen(n, m, ws),
         NEW id \in committed..(Current - 1), Alive(id)
  PROVE  Alive(id)'
<1> DEFINE R == recent_recordings
<1>1. PICK k \in DOMAIN R : R[k].id = id /\ ~Deleted(R[k])
  BY DEF Alive
<1>2. /\ n \in 0..Len(R) /\ Len(R') = Len(R) - n /\ Len(R) \in Nat /\ k \in 1..Len(R)
      /\ R' \in Seq(Recording) /\ DOMAIN R' = 1..Len(R')
  <2>1. n \in 0..Len(R) /\ Len(R') = Len(R) - n /\ R' \in Seq(Recording)
    BY DEF Rechosen
  <2>2. Len(R) \in Nat /\ k \in 1..Len(R)
    BY RecentRanges, Ranges
  <2> QED BY <2>1, <2>2
<1>3. R[k].id < Current /\ R[k].id \in Nat /\ Current \in Nat /\ Uncommitted(R[k])
  <2>1. R[k].id \in Nat /\ Current \in Nat /\ committed <= R[k].id /\ R[k].id < Current
    BY <1>1, FileTypes, RecentRanges
  <2> QED BY <2>1 DEF Inv, Working
<1>4. k \notin 1..n
  <2>1. \A i \in 1..n : Deleted(R[i]) \/ ~Uncommitted(R[i]) \/ R[i].id >= Current
    BY DEF Rechosen
  <2> QED BY <2>1, <1>1, <1>3
<1>5. k - n \in 1..Len(R') /\ (k - n) + n = k
  BY <1>2, <1>4
<1>6. ws.recording_id \in Nat /\ ws.recording_id >= Current
  <2>1. ws.recording_id \in {Current, Current + 1}
    BY Ranges DEF Rechosen
  <2> QED BY <2>1, <1>3
<1> DEFINE i == k - n
<1> HIDE DEF i
<1>7. i \in 1..Len(R') /\ i + n = k
  BY <1>5 DEF i
<1>8. /\ R'[i].id = R[k].id
      /\ Deleted(R'[i]) => \/ Deleted(R[k])
                           \/ R[k].id = Current
                           \/ R[k].id \in ws.recording_id..(Current' - 1)
  BY <1>7 DEF Rechosen
<1>9. ~Deleted(R'[i])
  BY <1>1, <1>3, <1>6, <1>8
<1> QED BY <1>1, <1>2, <1>7, <1>8, <1>9 DEF Alive

LEMMA PreparesKeepsFiles ==
  ASSUME Inv, Inv', FilesKnown, Prepares
  PROVE  FilesKnown'
<1> DEFINE R == recent_recordings
<1>1. PICK n, m, ws : Rechosen(n, m, ws)
  BY PreparesRechoose
<1>2. UNCHANGED <<committed, flush, gc, poolVars, file, dbVars, process, leaked>>
  BY PreparesRechoose DEF WorkerUnchanged, historyVars
<1>3. /\ Current \in Nat /\ Current' \in Nat /\ ws.recording_id \in {Current, Current + 1}
      /\ Current' >= ws.recording_id /\ Current' >= Current
  <2>1. Current \in Nat /\ ws.recording_id \in {Current, Current + 1} /\ Current' \in Nat
    BY SMTT(30), <1>1, Ranges DEF Rechosen
  <2>2. Current' = ws.recording_id \/ Current' > ws.recording_id
    BY <1>1 DEF Rechosen
  <2> QED BY <2>1, <2>2
<1>4. /\ io'.op \notin {"Aborted", "Synced"} /\ io # Idle
      /\ ws.file => Current' = ws.recording_id /\ InHand'
      /\ \/ io.op = "Start" /\ ws = writer_state
         \/ io.op = "Written" /\ ws.recording_id = Current /\ ws.file
         \/ io.op \in {"Synced", "Aborted"} /\ ws.recording_id = Current + 1
  BY <1>1 DEF Rechosen, Idle
<1>5. process = "running" /\ process' = "running"
  BY <1>2, <1>4, BusyIsRunning
<1>6. \A id \in committed..(Current - 1) : Alive(id) => Alive(id)'
  BY <1>1, AliveWhilePrepared
<1>7. /\ DOMAIN R' = 1..Len(R') /\ DOMAIN R = 1..Len(R)
      /\ \A i \in DOMAIN R' :
           LET r == R[i + n]
               s == R'[i]
           IN  /\ i + n \in DOMAIN R
               /\ s.id = r.id /\ s.id \in Nat
               /\ Deleted(r) => Deleted(s)
               /\ io.op = "Aborted" /\ r.id = Current => Deleted(s)
               /\ r.id \in ws.recording_id..(Current' - 1) => Deleted(s)
               /\ Deleted(s) => \/ Deleted(r)
                                \/ io.op = "Aborted" /\ r.id = Current
                                \/ r.id \in ws.recording_id..(Current' - 1)
  <2>1. DOMAIN R' = 1..Len(R') /\ DOMAIN R = 1..Len(R)
    BY <1>1, Ranges DEF Rechosen
  <2>2. ASSUME NEW i \in DOMAIN R' PROVE i + n \in DOMAIN R /\ R'[i].id = R[i + n].id /\ R'[i].id \in Nat
    <3>1. i + n \in DOMAIN R /\ R'[i].id = R[i + n].id
      BY <2>1, <1>1 DEF Rechosen
    <3> QED BY <3>1, RecentRanges
  <2> QED BY <2>1, <2>2, <1>1 DEF Rechosen
<1>8. FilesAhead'
  <2>1. ASSUME NEW id \in Ids, id >= committed, id >= Current', file[id].exists
        PROVE  id = Current' /\ InHand'
    <3>1. id \in Nat /\ id >= Current
      BY <2>1, <1>3, FileTypes
    <3>2. id = Current /\ InHand
      BY <2>1, <3>1, <1>5 DEF FilesKnown, FilesAhead
    <3>3. Current' = Current /\ ws.recording_id = Current
      BY <2>1, <3>2, <1>3
    <3>4. ws.file
      BY <3>2, <3>3, <1>3, <1>4 DEF InHand
    <3> QED BY <3>2, <3>3, <3>4, <1>4
  <2>2. ASSUME NEW i \in DOMAIN R', R'[i].id >= Current' PROVE ~Deleted(R'[i])
    <3>1. /\ i + n \in DOMAIN R /\ R[i + n].id \in Nat /\ R[i + n].id >= Current'
          /\ Deleted(R'[i]) => \/ Deleted(R[i + n])
                               \/ io.op = "Aborted" /\ R[i + n].id = Current
                               \/ R[i + n].id \in ws.recording_id..(Current' - 1)
      BY <2>2, <1>7
    <3>2. ~Deleted(R[i + n])
      BY <3>1, <1>3 DEF FilesKnown, FilesAhead
    <3>3. io.op = "Aborted" => R[i + n].id # Current
      BY <3>1, <1>3, <1>4
    <3> QED BY <3>1, <3>2, <3>3, <1>3
  <2> QED BY <2>1, <2>2, <1>2, <1>4 DEF FilesAhead
<1>9. GivenUp'
  <2>1. SUFFICES ASSUME NEW id \in committed..(Current' - 1)
                 PROVE  Alive(id)' \/ Gone(id) \/ id \in leaked
    BY <1>2 DEF GivenUp, Gone
  <2>2. id \in Ids /\ id \in Nat /\ committed <= id /\ id < Current'
    <3>1. Current' \in 0..MaxRecordings
      BY DEF Inv, Typed, Current
    <3>2. committed \in Nat /\ MaxRecordings \in Nat
      BY FileTypes
    <3>3. id \in Nat /\ committed <= id /\ id < Current' /\ id < MaxRecordings
      <4>1. id \in committed..(Current' - 1)
        BY <2>1
      <4>2. Current' \in Nat
        BY <1>3
      <4>3. Current' <= MaxRecordings
        BY <3>1, <3>2
      <4>4. \A top \in Nat : \A x \in committed..(top - 1) : x \in Nat /\ committed <= x /\ x < top
        BY <3>2
      <4>5. id \in Nat /\ committed <= id /\ id < Current'
        BY <4>1, <4>2, <4>4
      <4> QED BY <4>2, <4>3, <4>5, <3>2
    <3> QED BY <3>2, <3>3 DEF Ids
  <2>3. CASE id < Current
    <3>1. id \in committed..(Current - 1)
      BY <2>2, <2>3, <1>3
    <3> QED BY <3>1, <1>6 DEF FilesKnown, GivenUp
  <2>4. CASE id = Current
    <3>1. CASE io.op = "Aborted"
      BY <2>4, <3>1 DEF FilesKnown, FilesAhead
    <3>2. CASE io.op = "Synced"
      <4>1. PICK k \in DOMAIN R : R[k].id = Current
        BY <3>2, Ranges DEF Inv, Working, SyncedIsRecent
      <4>2. ~Deleted(R[k])
        BY <4>1, <1>3 DEF FilesKnown, FilesAhead
      <4>3. n = 0 \/ k \notin 1..n
        BY <1>1, <3>2 DEF Rechosen
      <4>4. n \in 0..Len(R) /\ Len(R') = Len(R) - n /\ Len(R) \in Nat
        BY <1>1, Ranges DEF Rechosen
      <4>5. k - n \in DOMAIN R' /\ (k - n) + n = k
        BY <4>3, <4>4, <1>7
      <4> DEFINE i == k - n
      <4> HIDE DEF i
      <4>6. i \in DOMAIN R' /\ i + n = k
        BY <4>5 DEF i
      <4>7. R'[i].id = Current /\ ~Deleted(R'[i])
        BY <4>1, <4>2, <4>6, <3>2, <1>3, <1>4, <1>7
      <4> QED BY <2>4, <4>6, <4>7 DEF Alive
    <3>3. CASE io.op \in {"Start", "Written"}
      <4>1. ~ws.file /\ io.op = "Start" /\ ws = writer_state
        <5>1. ~ws.file
        <6>1. ws.recording_id = Current
          BY <3>3, <1>3, <1>4, Ranges
        <6> QED BY <2>2, <2>4, <6>1, <1>3, <1>4
      <5> QED BY <3>3, <5>1, <1>4
      <4>2. ~InHand
        BY <4>1 DEF InHand
      <4> QED BY <2>2, <2>4, <4>2, <1>3, <1>5 DEF FilesKnown, FilesAhead, Gone
    <3> QED BY <3>1, <3>2, <3>3, <1>4
  <2>5. CASE id > Current
    BY <2>2, <2>5, <1>3, <1>5 DEF FilesKnown, FilesAhead, Gone
  <2> QED BY <2>2, <2>3, <2>4, <2>5, <1>3
<1>10. GivenUpForGood'
  <2>1. SUFFICES ASSUME NEW i \in DOMAIN R', R'[i].id < Current', ~Deleted(R'[i]),
                        NEW id \in committed..(R'[i].id - 1)
                 PROVE  Alive(id)' \/ Clean(id) \/ id \in leaked
    BY <1>2, <1>4 DEF GivenUpForGood, GivenUpBefore, Clean
  <2>2. /\ i + n \in DOMAIN R /\ R[i + n].id = R'[i].id /\ R'[i].id \in Nat
        /\ ~Deleted(R[i + n])
        /\ ~(io.op = "Aborted" /\ R'[i].id = Current)
        /\ ~(R'[i].id \in ws.recording_id..(Current' - 1))
    BY <2>1, <1>7
  <2>3. R'[i].id < ws.recording_id
    BY <2>1, <2>2, <1>3
  <2>4. id \in committed..(Current - 1)
    BY <2>2, <2>3, <1>3, FileTypes
  <2>5. CASE R'[i].id < Current
    <3>1. GivenUpBefore(R'[i].id)
      BY <2>2, <2>5 DEF FilesKnown, GivenUpForGood
    <3> QED BY <2>4, <3>1, <1>6 DEF GivenUpBefore
  <2>6. CASE R'[i].id = Current
    <3>1. io.op = "Synced"
      <4>1. ws.recording_id # Current
        BY <2>3, <2>6, <1>3
      <4>2. io.op \in {"Synced", "Aborted"}
        BY <4>1, <1>4, Ranges
      <4> QED BY <2>2, <2>6, <4>2
    <3>2. GivenUpBefore(Current)
      BY <3>1 DEF FilesKnown, GivenUpForGood
    <3> QED BY <2>4, <2>6, <3>2, <1>6 DEF GivenUpBefore
  <2> QED BY <2>2, <2>3, <2>5, <2>6, <1>3
<1>11. PassedOver'
  BY <1>2 DEF FilesKnown, PassedOver, Clean
<1>12. FilesCollected' /\ FileFound'
  BY <1>2 DEF FilesKnown, FilesCollected, FileFound, Gone, Clean, poolVars, dbVars
<1> QED BY <1>8, <1>9, <1>10, <1>11, <1>12 DEF FilesKnown

\* Steps of the worker's I/O, but the sync of the directory.
LEMMA AtHandKeepsFiles ==
  ASSUME Inv, FilesKnown, Busy,
         \A id \in Ids \ {Current} : file'[id] = file[id],
         UNCHANGED <<streamVars, flush, gc, poolVars, dbVars>>,
         leaked \subseteq leaked',
         io'.op \notin {"Idle", "Start", "Create", "Synced"},
         io'.op = "Aborted" => ~file'[Current].exists \/ Current \in leaked'
  PROVE  FilesKnown'
<1>1. /\ UNCHANGED <<recent_recordings, writer_state, committed, flush, gc, garbage_unlinked,
                     row, garbage, cum_recordings>>
      /\ Current' = Current
  BY DEF streamVars, poolVars, dbVars, Current
<1>2. /\ Current \in Ids /\ Current \in Nat /\ committed <= Current /\ cum_recordings <= Current
      /\ process = "running" /\ committed \in Nat /\ Ids \subseteq Nat
  BY BusyIsAhead, FileTypes
<1>3. \A id \in Ids : id # Current => file'[id] = file[id]
  OBVIOUS
<1>4. FilesAhead'
  <2>1. ASSUME NEW id \in Ids, id >= committed, id >= Current, file'[id].exists
        PROVE  id = Current
    BY <2>1, <1>1, <1>2, <1>3 DEF FilesKnown, FilesAhead
  <2>2. InHand'
    BY DEF InHand
  <2> QED BY <2>1, <2>2, <1>1 DEF FilesKnown, FilesAhead, Gone
<1>5. GivenUp' /\ GivenUpForGood' /\ PassedOver'
  <2>1. ASSUME NEW id \in committed..(Current - 1)
        PROVE  (Gone(id) => Gone(id)') /\ (Clean(id) => Clean(id)')
    <3>1. Current \in 0..MaxRecordings
      BY FileTypes
    <3>2. id \in Ids /\ id # Current
      BY <3>1, <1>2, FileTypes
    <3> QED BY <3>2, <1>3 DEF Gone, Clean
  <2> QED BY <2>1, <1>1, GivenUpStays DEF FilesKnown
<1>6. FilesCollected'
  <2>1. \A id \in Ids : id < committed => file'[id] = file[id]
    BY <1>2, <1>3
  <2> QED BY <2>1, <1>1, FileTypes DEF FilesKnown, FilesCollected, Gone, Clean
<1>7. FileFound'
  BY <1>1, <1>2, <1>3 DEF FilesKnown, FileFound
<1> QED BY <1>4, <1>5, <1>6, <1>7 DEF FilesKnown

LEMMA SyncDirKeepsFiles ==
  ASSUME Inv, FilesKnown, SyncDir
  PROVE  FilesKnown'
<1>1. /\ Busy /\ io.op = "SyncDir" /\ io'.op = "Synced" /\ file' = DirSynced
      /\ UNCHANGED <<recent_recordings, writer_state, committed, flush, gc, garbage_unlinked,
                     row, garbage, cum_recordings, leaked>>
      /\ Current' = Current
  BY DEF SyncDir, streamVars, poolVars, dbVars, historyVars, Current, Busy
<1>2. \A id \in Ids : file'[id].exists = file[id].exists /\ file'[id].pending = FALSE
  BY <1>1, SyncedDirectory, FileTypes
<1>3. /\ Current \in Nat /\ committed \in Nat /\ Ids \subseteq Nat
      /\ \A id \in committed..(Current - 1) : id \in Ids
  <2>1. Current \in 0..MaxRecordings
    BY FileTypes
  <2> QED BY <2>1, FileTypes
<1>4. FilesAhead'
  <2>1. InHand' /\ InHand
    BY <1>1 DEF InHand
  <2> QED BY <2>1, <1>1, <1>2, BusyIsAhead DEF FilesKnown, FilesAhead
<1>5. \A id \in Ids : /\ Gone(id) => Gone(id)' /\ Clean(id)'
                      /\ Clean(id) => Clean(id)'
  BY <1>2 DEF Gone, Clean
<1>6. \A id : Alive(id)' <=> Alive(id)
  BY <1>1 DEF Alive
<1>7. GivenUp'
  BY <1>1, <1>3, <1>5, <1>6 DEF FilesKnown, GivenUp
<1>8. GivenUpForGood'
  <2>1. \A id \in committed..(Current - 1) : Alive(id)' \/ Clean(id)' \/ id \in leaked
    BY <1>3, <1>5, <1>6 DEF FilesKnown, GivenUp
  <2>2. ASSUME NEW i \in DOMAIN recent_recordings, recent_recordings[i].id < Current,
               NEW id \in committed..(recent_recordings[i].id - 1)
        PROVE  id \in committed..(Current - 1)
    BY <2>2, <1>3, RecentRanges
  <2> QED BY <2>1, <2>2, <1>1 DEF GivenUpForGood, GivenUpBefore
<1>9. PassedOver'
  <2>1. SUFFICES ASSUME flush.pc = "Collected", flush.cum # NoId,
                        NEW id \in committed..(flush.cum - 1)
                 PROVE  id \in DOMAIN flush.new \/ Clean(id)' \/ id \in leaked
    BY <1>1 DEF PassedOver
  <2>2. id \in Ids
    BY <2>1, <1>3, FileTypes
  <2> QED BY <2>1, <2>2, <1>5 DEF FilesKnown, PassedOver
<1>10. FilesCollected' /\ FileFound'
  BY <1>1, <1>2, <1>5, FileTypes DEF FilesKnown, FilesCollected, FileFound
<1> QED BY <1>4, <1>7, <1>8, <1>9, <1>10 DEF FilesKnown

LEMMA WorkerKeepsFiles ==
  ASSUME Inv, Inv', FilesKnown, Worker
  PROVE  FilesKnown'
<1>1. CASE WriteBytes
  <2>1. /\ Busy /\ io'.op = "Written" /\ leaked' = leaked
        /\ UNCHANGED <<streamVars, flush, gc, poolVars, dbVars>>
    BY <1>1 DEF WriteBytes, Busy, historyVars
  <2>2. \A id \in Ids \ {Current} : file'[id] = file[id]
    BY <1>1, FileTypes DEF WriteBytes
  <2> QED BY <2>1, <2>2, AtHandKeepsFiles
<1>2. CASE CreateFails
  <2>1. /\ Busy /\ io.op = "Create" /\ io'.op = "Aborted" /\ leaked' = leaked /\ file' = file
        /\ UNCHANGED <<streamVars, flush, gc, poolVars, dbVars>>
    BY <1>2 DEF CreateFails, Busy
  <2>2. /\ ~InHand /\ process = "running"
        /\ Current \in Ids /\ committed <= Current /\ Current >= Current
    BY <2>1, BusyIsAhead, FileTypes DEF InHand
  <2>3. ~file[Current].exists
    BY <2>2 DEF FilesKnown, FilesAhead
  <2> QED BY <2>1, <2>3, AtHandKeepsFiles
<1>3. ASSUME Busy, NEW unlinked \in BOOLEAN, AbortFile(unlinked)
      PROVE  FilesKnown'
  <2>1. /\ io'.op = "Aborted" /\ leaked \subseteq leaked'
        /\ UNCHANGED <<streamVars, flush, gc, poolVars, dbVars>>
        /\ \A id \in Ids \ {Current} : file'[id] = file[id]
    BY <1>3, FileTypes DEF AbortFile
  <2>2. ~file'[Current].exists \/ Current \in leaked'
    <3>1. CASE unlinked
      BY <1>3, <3>1, FileAtHand DEF AbortFile, Unlinked, NoFile
    <3>2. CASE ~unlinked
      BY <1>3, <3>2 DEF AbortFile
    <3> QED BY <3>1, <3>2
  <2> QED BY <1>3, <2>1, <2>2, AtHandKeepsFiles
<1>4. CASE Abort
  BY <1>3, <1>4 DEF Abort, Busy
<1>5. CASE FileIoFails
  BY <1>3, <1>5 DEF FileIoFails, Busy
<1>6. CASE SyncFile
  <2>1. /\ Busy /\ io'.op = "SyncDir" /\ leaked' = leaked
        /\ UNCHANGED <<streamVars, flush, gc, poolVars, dbVars>>
    BY <1>6 DEF SyncFile, Busy, historyVars
  <2>2. \A id \in Ids \ {Current} : file'[id] = file[id]
    BY <1>6, FileTypes DEF SyncFile
  <2> QED BY <2>1, <2>2, AtHandKeepsFiles
<1>7. CASE SyncDir
  BY <1>7, SyncDirKeepsFiles
<1> QED BY <1>1, <1>2, <1>4, <1>5, <1>6, <1>7, PrepPrepares, PreparesKeepsFiles DEF Worker

-----------------------------------------------------------------------------
(* The Writer and the flusher.                                             *)

\* A push drops no recording that waits to be committed; those there are were
\* there before, or are the one it opens.
LEMMA PushKeepsAlive ==
  ASSUME Inv, NEW is_key \in BOOLEAN, NEW len \in FrameSizes, NEW close \in BOOLEAN,
         PushAndMaybeClose(is_key, len, close)
  PROVE  /\ \A id \in committed..(Current - 1) : Alive(id) => Alive(id)'
         /\ \A i \in DOMAIN recent_recordings' :
              LET r == recent_recordings'[i]
              IN  \/ \E k \in DOMAIN recent_recordings :
                       /\ recent_recordings[k].id = r.id
                       /\ Deleted(recent_recordings[k]) <=> Deleted(r)
                  \/ recording_id = NoId /\ r.id = complete /\ ~Deleted(r)
         /\ \A id : recording_id = NoId /\ id = complete => Alive(id)'
<1> DEFINE R == recent_recordings
<1>2. PICK n, m : Written(is_key, close, n, m)
  BY PushIsWritten
<1>3. writer_state' = writer_state /\ Current' = Current
  BY DEF PushAndMaybeClose, Current
<1>4. /\ DOMAIN R' = 1..Len(R') /\ Len(R') \in Nat /\ DOMAIN R = 1..Len(R) /\ Len(R) \in Nat
      /\ n \in Nat
      /\ Len(R') = IF recording_id = NoId THEN Len(R) + 1 - n ELSE Len(R) - n
      /\ \A i \in 1..(Len(R') - 1) : i + n \in DOMAIN R /\ R'[i] = R[i + n]
      /\ \A i \in 1..n : i \in DOMAIN R /\ ~StillNeeded(R[i], recent_frames', writer_state)
      /\ R'[Len(R')].id = complete
      /\ IF recording_id = NoId THEN ~Deleted(R'[Len(R')])
         ELSE /\ Len(R) \in DOMAIN R /\ R[Len(R)].id = complete
              /\ Deleted(R'[Len(R')]) <=> Deleted(R[Len(R)])
  <2>1. Len(R) \in Nat /\ DOMAIN R = 1..Len(R)
    BY Ranges
  <2>2. n \in Nat /\ Len(R') \in 1..Len(R') /\ (Len(R') = Len(R) + 1 - n \/ Len(R') = Len(R) - n)
    BY <1>2 DEF Written
  <2>3. Len(R') \in Nat
    <3>1. \A a, b \in Nat : \A x : x \in 1..x /\ (x = a + 1 - b \/ x = a - b) => x \in Nat
      OBVIOUS
    <3> HIDE DEF R
    <3> QED BY <2>1, <2>2, <3>1, Zenon
  <2> QED BY <2>1, <2>3, <1>2 DEF Written
<1>5. Current \in Nat /\ committed \in Nat /\ complete \in Nat
  BY FileTypes, Ranges
<1>6. ASSUME NEW i \in DOMAIN R'
      PROVE  \/ \E k \in DOMAIN R : R[k].id = R'[i].id /\ (Deleted(R[k]) <=> Deleted(R'[i]))
             \/ recording_id = NoId /\ R'[i].id = complete /\ ~Deleted(R'[i])
  <2>1. CASE i \in 1..(Len(R') - 1)
    BY <1>4, <2>1
  <2>2. CASE i = Len(R') /\ recording_id # NoId
    BY <1>4, <2>2
  <2>3. CASE i = Len(R') /\ recording_id = NoId
    BY <1>4, <2>3
  <2>4. i \in 1..(Len(R') - 1) \/ i = Len(R')
    <3>1. i \in 1..Len(R')
      BY <1>4
    <3>2. Len(R') \in Nat
      BY <1>4
    <3> HIDE DEF R
    <3> QED BY <3>1, <3>2
  <2> QED BY <2>1, <2>2, <2>3, <2>4
<1>7. ASSUME NEW id \in committed..(Current - 1), Alive(id) PROVE Alive(id)'
  <2>1. PICK k \in DOMAIN R : R[k].id = id /\ ~Deleted(R[k])
    BY <1>7 DEF Alive
  <2>2. R[k].id < Current /\ committed <= R[k].id /\ Uncommitted(R[k]) /\ k \in 1..Len(R)
    <3>1. R[k].id < Current /\ committed <= R[k].id /\ k \in 1..Len(R)
      <4>1. id < Current /\ committed <= id
        BY <1>5, <1>7
      <4> QED BY <2>1, <4>1, <1>4
    <3> QED BY <3>1 DEF Inv, Working
  <2>3. k \notin 1..n
    <3>1. writer_state.recording_id = Current
      BY DEF Current
    <3> QED BY <2>1, <2>2, <3>1, <1>4 DEF StillNeeded
  <2>4. k - n \in 1..Len(R') /\ (k - n) + n = k
    <3>1. k > n /\ k - n >= 1 /\ n \in Nat /\ Len(R) \in Nat /\ Len(R') \in Nat
      <4>1. n \in Nat /\ Len(R) \in Nat /\ Len(R') \in Nat
        BY <1>4
      <4>2. k \in 1..Len(R) /\ k \notin 1..n
        BY <2>2, <2>3
      <4> HIDE DEF R
      <4> QED BY <4>1, <4>2
    <3>2. Len(R) - n <= Len(R')
      BY <3>1, <1>4
    <3> QED BY <2>2, <3>1, <3>2
  <2> DEFINE i == k - n
  <2> HIDE DEF i
  <2>5. i \in 1..Len(R') /\ i + n = k
    BY <2>4 DEF i
  <2>6. R'[i].id = id /\ ~Deleted(R'[i])
    <3>1. CASE i \in 1..(Len(R') - 1)
      BY <2>1, <2>5, <3>1, <1>4
    <3>2. CASE i = Len(R') /\ recording_id # NoId
      BY <2>1, <2>5, <3>2, <1>4
    <3>3. CASE i = Len(R') /\ recording_id = NoId
      BY <2>2, <2>5, <3>3, <1>4
    <3>4. i \in 1..(Len(R') - 1) \/ i = Len(R')
      <4>1. Len(R') \in Nat
        BY <1>4
      <4> HIDE DEF R
      <4> QED BY <4>1, <2>5
    <3> QED BY <3>1, <3>2, <3>3, <3>4
  <2> QED BY <2>5, <2>6, <1>4 DEF Alive
<1>8. \A id : recording_id = NoId /\ id = complete => Alive(id)'
  BY <1>2 DEF Written, Alive
<1> QED BY <1>6, <1>7, <1>8

LEMMA WriteKeepsFiles ==
  ASSUME Inv, Inv', FilesKnown, Write
  PROVE  FilesKnown'
<1> DEFINE R == recent_recordings
<1>1. PICK is_key \in BOOLEAN, len \in FrameSizes, close \in BOOLEAN :
        PushAndMaybeClose(is_key, len, close)
  BY DEF Write
<1>3. /\ UNCHANGED <<writer_state, committed, flush, gc, poolVars, file, dbVars, process, leaked>>
      /\ Current' = Current
      /\ io'.op = io.op \/ (io.op = "Idle" /\ io'.op = "Start")
  <2>1. UNCHANGED <<writer_state, committed, flush, gc, poolVars, file, dbVars, process, leaked>>
    BY <1>1 DEF PushAndMaybeClose
  <2>2. io' = io \/ (io.op = "Idle" /\ io' = [op |-> "Start", n |-> 0])
    BY <1>1 DEF PushAndMaybeClose
  <2> QED BY <2>1, <2>2 DEF Current
<1>5. Current \in Nat /\ committed \in Nat /\ complete \in Nat
  BY FileTypes, Ranges
<1>6. ASSUME NEW i \in DOMAIN R'
      PROVE  \/ \E k \in DOMAIN R : R[k].id = R'[i].id /\ (Deleted(R[k]) <=> Deleted(R'[i]))
             \/ ~Deleted(R'[i]) /\ R'[i].id >= Current
  <2>1. recording_id = NoId => Current <= complete
    BY Ranges DEF Inv, Working, Top
  <2> QED BY <1>1, <1>6, <1>5, <2>1, PushKeepsAlive
<1>7. \A id \in committed..(Current - 1) : Alive(id) => Alive(id)'
  BY <1>1, PushKeepsAlive
<1>8. FilesAhead'
  <2>1. InHand => InHand'
    BY <1>3 DEF InHand
  <2>2. ASSUME NEW i \in DOMAIN R', R'[i].id >= Current PROVE ~Deleted(R'[i])
    BY <2>2, <1>6 DEF FilesKnown, FilesAhead
  <2> QED BY <2>1, <2>2, <1>3 DEF FilesKnown, FilesAhead, Gone
<1>9. GivenUp'
  BY <1>3, <1>7 DEF FilesKnown, GivenUp, Gone
<1>10. GivenUpForGood'
  <2>1. ASSUME NEW end \in Nat, end <= Current, GivenUpBefore(end), NEW id \in committed..(end - 1)
        PROVE  Alive(id)' \/ Clean(id) \/ id \in leaked
    <3>1. id \in committed..(Current - 1)
      BY <2>1, <1>5
    <3> QED BY <2>1, <3>1, <1>7 DEF GivenUpBefore
  <2>2. io'.op = "Synced" =>
          \A id \in committed..(Current - 1) : Alive(id)' \/ Clean(id) \/ id \in leaked
    <3>1. SUFFICES ASSUME io.op = "Synced"
                   PROVE  \A id \in committed..(Current - 1) : Alive(id)' \/ Clean(id) \/ id \in leaked
      BY <1>3
    <3>2. GivenUpBefore(Current)
      BY <3>1 DEF FilesKnown, GivenUpForGood
    <3> QED BY <3>2, <2>1, <1>5
  <2>3. ASSUME NEW i \in DOMAIN R', R'[i].id < Current, ~Deleted(R'[i])
        PROVE  \A id \in committed..(R'[i].id - 1) : Alive(id)' \/ Clean(id) \/ id \in leaked
    <3>1. PICK k \in DOMAIN R : R[k].id = R'[i].id /\ ~Deleted(R[k])
      <4>1. ~(R'[i].id >= Current)
        <5>1. R'[i].id \in Nat
          <6>1. R' \in Seq(Recording) /\ Ids \subseteq Nat
            BY FileTypes DEF Inv, Typed
          <6>2. R'[i] \in Recording
            BY <6>1
          <6> QED BY <6>1, <6>2 DEF Recording
        <5> QED BY <5>1, <2>3, <1>5
      <4> QED BY <4>1, <2>3, <1>6
    <3>2. GivenUpBefore(R'[i].id) /\ R'[i].id \in Nat
      BY <3>1, <2>3, RecentRanges DEF FilesKnown, GivenUpForGood
    <3> QED BY <2>1, <2>3, <3>2, <1>5
  <2> QED BY <2>2, <2>3, <1>3 DEF GivenUpForGood, GivenUpBefore, Clean
<1>11. PassedOver' /\ FilesCollected' /\ FileFound'
  BY <1>3 DEF FilesKnown, PassedOver, FilesCollected, FileFound, Gone, Clean, poolVars, dbVars
<1> QED BY <1>8, <1>9, <1>10, <1>11 DEF FilesKnown

\* Steps that leave the files, the recordings and what is committed alone.
LEMMA QuietStepKeepsFiles ==
  ASSUME Inv, FilesKnown,
         UNCHANGED <<recent_recordings, writer_state, committed, file, io, garbage_unlinked, gc,
                     row, garbage, cum_recordings, leaked>>,
         flush' = flush \/ flush'.pc # "Collected",
         process' = process \/ process # "down"
  PROVE  FilesKnown'
<1>1. Current' = Current /\ (InHand' <=> InHand)
  BY DEF Current, InHand
<1>2. FilesAhead'
  BY <1>1 DEF FilesKnown, FilesAhead, Gone
<1>3. GivenUp' /\ GivenUpForGood' /\ PassedOver'
  BY GivenUpStays DEF FilesKnown, Gone, Clean
<1>4. FilesCollected' /\ FileFound'
  BY DEF FilesKnown, FilesCollected, FileFound, Gone, Clean
<1> QED BY <1>2, <1>3, <1>4 DEF FilesKnown

LEMMA CollectedPassesOver ==
  ASSUME Inv, FilesKnown, FlushCollect
  PROVE  FilesKnown'
<1> DEFINE ids == {r.id : r \in Ready}
<1>1. /\ UNCHANGED <<recent_recordings, writer_state, committed, file, io, garbage_unlinked, gc,
                     row, garbage, cum_recordings, leaked, process>>
      /\ flush.pc = "Idle" /\ flush'.pc = "Collected"
      /\ DOMAIN flush'.new = ids
      /\ flush'.cum = IF Ready = {} THEN NoId ELSE Max(ids) + 1
  BY DEF FlushCollect, DbUnlocked, streamVars, poolVars, dbVars, historyVars
<1>2. Current' = Current /\ (InHand' <=> InHand) /\ \A id : Alive(id)' <=> Alive(id)
  BY <1>1 DEF Current, InHand, Alive
<1>3. FilesAhead' /\ GivenUp' /\ GivenUpForGood' /\ FilesCollected' /\ FileFound'
  BY <1>1, <1>2 DEF FilesKnown, FilesAhead, GivenUp, GivenUpForGood, GivenUpBefore,
                    FilesCollected, FileFound, Gone, Clean
<1>4. PassedOver'
  <2>1. SUFFICES ASSUME Ready # {}, NEW id \in committed..((Max(ids) + 1) - 1)
                 PROVE  id \in ids \/ Clean(id) \/ id \in leaked
    <3> HIDE DEF ids
    <3>1. CASE Ready = {}
      BY <3>1, <1>1 DEF PassedOver
    <3>2. CASE Ready # {}
      <4>1. flush'.cum = Max(ids) + 1
        BY <3>2, <1>1
      <4>2. \A id \in committed..(flush'.cum - 1) : id \in ids \/ Clean(id) \/ id \in leaked
        BY <4>1, <3>2, <2>1
      <4> QED BY <4>2, <1>1 DEF PassedOver, Clean
    <3> QED BY <3>1, <3>2
  <2>2. ids # {} /\ ids \subseteq 0..MaxRecordings
    <3>1. \A r \in Ready : r.id \in 0..MaxRecordings
      BY ReadyIsDurable, Ranges DEF Ids
    <3> QED BY <2>1, <3>1
  <2>3. Max(ids) \in ids
    BY <2>2, Ranges, MaxIsGreatest
  <2>4. PICK r \in Ready : r.id = Max(ids)
    BY <2>3
  <2>5. PICK i \in DOMAIN recent_recordings : recent_recordings[i] = r
    BY <2>4 DEF Ready, ToSet
  <2>6. /\ ~Deleted(r) /\ r.id \in Nat /\ r.id < flush_ready /\ flush_ready <= Current
        /\ flush_ready \in Nat /\ committed \in Nat /\ Current \in Nat
    <3>1. ~Deleted(r)
      BY <2>4 DEF Ready
    <3> QED BY SMTT(30), <2>4, <3>1, ReadyIsDurable, FileTypes DEF Inv, Typed
  <2>7. GivenUpBefore(r.id)
    <3>1. r.id < Current
      BY <2>6
    <3> QED BY <2>5, <2>6, <3>1 DEF FilesKnown, GivenUpForGood
  <2>8. id \in Nat /\ committed <= id /\ id <= r.id
    <3> HIDE DEF ids
    <3> QED BY <2>1, <2>4, <2>6
  <2>9. CASE id = r.id
    BY <2>4, <2>9
  <2>10. CASE Alive(id)
    <3>1. PICK k \in DOMAIN recent_recordings :
            recent_recordings[k].id = id /\ ~Deleted(recent_recordings[k])
      BY <2>10 DEF Alive
    <3>2. recent_recordings[k].id \in committed..(flush_ready - 1)
      BY <2>6, <2>8, <3>1
    <3>3. recent_recordings[k] \in Ready
      BY <3>1, <3>2, Ranges DEF Ready, ToSet
    <3> QED BY <3>1, <3>3
  <2>11. CASE id < r.id /\ ~Alive(id)
    <3>1. id \in committed..(r.id - 1)
      BY <2>6, <2>8, <2>11
    <3> QED BY <3>1, <2>7, <2>11 DEF GivenUpBefore
  <2> QED BY <2>6, <2>8, <2>9, <2>10, <2>11
<1> QED BY <1>3, <1>4 DEF FilesKnown

LEMMA CommitKeepsFiles ==
  ASSUME Inv, FilesKnown, FlushCommit
  PROVE  FilesKnown'
<1>1. /\ UNCHANGED <<recent_recordings, writer_state, committed, file, io, garbage_unlinked, gc,
                     leaked, process>>
      /\ flush.pc = "Collected" /\ flush'.pc # "Collected"
      /\ DOMAIN row' = (DOMAIN row \cup DOMAIN flush.new) \ DeletionRange
      /\ garbage' = (garbage \cup DeletionRange) \ garbage_unlinked
      /\ cum_recordings' = IF flush.cum = NoId THEN cum_recordings ELSE flush.cum
      /\ cum_recordings = committed
  <2>1. flush \in [pc : {"Idle", "Collected", "Committed"}, new : Rows,
                   cum : {NoId} \cup 0..MaxRecordings, deletion : SUBSET Ids, gced : SUBSET Ids]
    BY DEF Inv, Typed
  <2>2. flush'.pc = "Committed"
    BY <2>1 DEF FlushCommit
  <2>3. cum_recordings = committed
    BY DEF FlushCommit, Inv, Flushing
  <2> QED BY <2>2, <2>3 DEF FlushCommit, streamVars, poolVars
<1>2. Current' = Current /\ (InHand' <=> InHand)
  BY <1>1 DEF Current, InHand
<1>3. FilesAhead'
  BY <1>1, <1>2 DEF FilesKnown, FilesAhead, Gone
<1>4. GivenUp' /\ GivenUpForGood' /\ PassedOver'
  BY <1>1, GivenUpStays DEF FilesKnown, Gone, Clean
<1>5. FilesCollected'
  BY <1>1 DEF FilesKnown, FilesCollected, Gone, Clean
<1>6. FileFound'
  <2>1. SUFFICES ASSUME NEW id \in Ids, file[id].exists \/ file[id].pending,
                        id \notin leaked, ~(id >= cum_recordings')
                 PROVE  id \in DOMAIN row' \cup garbage'
    BY <1>1 DEF FileFound
  <2>2. id \notin garbage_unlinked
    BY <2>1 DEF FilesKnown, FilesCollected, Clean
  <2>3. CASE id \in DOMAIN row \cup garbage
    BY <2>2, <2>3, <1>1
  <2>4. CASE id >= cum_recordings
    <3>1. /\ flush.cum # NoId /\ flush.cum \in Nat /\ id \in Nat /\ committed \in Nat
          /\ committed <= id /\ id < flush.cum
      BY <2>1, <2>4, <1>1, FileTypes
    <3>2. id \in DOMAIN flush.new
      <4>1. id \in committed..(flush.cum - 1)
        BY <3>1
      <4> QED BY <4>1, <2>1, <3>1, <1>1 DEF FilesKnown, PassedOver, Clean
    <3> QED BY <2>2, <3>2, <1>1
  <2> QED BY <2>1, <2>3, <2>4 DEF FilesKnown, FileFound
<1> QED BY <1>3, <1>4, <1>5, <1>6 DEF FilesKnown

LEMMA ApplyKeepsFiles ==
  ASSUME Inv, Inv', FilesKnown, FlushApply
  PROVE  FilesKnown'
<1> DEFINE R == recent_recordings
<1>1. /\ UNCHANGED <<recent_frames, writer_state, file, io, gc, row, garbage, cum_recordings,
                     leaked, process>>
      /\ flush'.pc = "Idle" /\ Current' = Current
      /\ garbage_unlinked' \subseteq garbage_unlinked
      /\ committed' = IF flush.cum = NoId THEN committed ELSE flush.cum
  <2>1. /\ UNCHANGED <<recent_frames, writer_state, file, io, gc, dbVars, leaked, process>>
        /\ garbage_unlinked' = garbage_unlinked \ flush.gced
        /\ committed' = IF flush.cum = NoId THEN committed ELSE flush.cum
    BY DEF FlushApply, historyVars
  <2>2. flush'.pc = "Idle"
    BY DEF FlushApply, NoFlush
  <2> QED BY <2>1, <2>2 DEF dbVars, Current
<1>2. PICK n : Refreshed(n)
  BY ApplyRefreshes
<1>3. committed' \in Nat /\ committed <= committed' /\ committed \in Nat /\ Current \in Nat
  BY <1>1, FileTypes
<1>4. /\ n \in 0..Len(R) /\ Len(R') = Len(R) - n /\ Len(R) \in Nat
      /\ DOMAIN R' = 1..Len(R') /\ DOMAIN R = 1..Len(R)
  BY <1>2, Ranges DEF Refreshed
<1>5. ASSUME NEW i \in DOMAIN R'
      PROVE  /\ i + n \in DOMAIN R
             /\ R'[i].id = R[i + n].id /\ R'[i].id \in Nat
             /\ Deleted(R[i + n]) => Deleted(R'[i])
             /\ Deleted(R'[i]) => Deleted(R[i + n]) \/ R'[i].id < committed
  BY <1>2 DEF Refreshed
<1>6. ASSUME NEW id \in Nat, committed' <= id, id < Current, Alive(id) PROVE Alive(id)'
  <2>1. PICK k \in DOMAIN R : R[k].id = id /\ ~Deleted(R[k])
    BY <1>6 DEF Alive
  <2>2. k \notin 1..n
    BY <2>1, <1>2, <1>3, <1>6 DEF Refreshed
  <2>3. k - n \in 1..Len(R') /\ (k - n) + n = k
    <3>1. k \in 1..Len(R) /\ n \in Nat
      BY <2>1, <1>4
    <3> QED BY <2>2, <3>1, <1>4
  <2> DEFINE i == k - n
  <2> HIDE DEF i
  <2>4. i \in DOMAIN R' /\ i + n = k
    BY <2>3, <1>4 DEF i
  <2>5. R'[i].id = id /\ ~Deleted(R'[i])
    BY <2>1, <2>4, <1>3, <1>5, <1>6
  <2> QED BY <2>4, <2>5 DEF Alive
<1>7. FilesAhead'
  <2>1. ASSUME NEW i \in DOMAIN R', R'[i].id >= Current PROVE ~Deleted(R'[i])
    <3>1. ~Deleted(R[i + n]) /\ i + n \in DOMAIN R
      BY <2>1, <1>5 DEF FilesKnown, FilesAhead
    <3>2. R[i + n].id >= committed
      <4>1. CASE Current < cum_recordings
        BY <3>1, <4>1, <1>5, FileTypes DEF Inv, Working
      <4>2. CASE Current >= cum_recordings
        BY <2>1, <4>2, <1>3, <1>5, FileTypes
      <4> QED BY <4>1, <4>2, <1>3, FileTypes
    <3> QED BY <2>1, <3>1, <3>2, <1>3, <1>5
  <2>2. ASSUME NEW id \in Ids, id >= committed', id >= Current, file[id].exists, process # "down"
        PROVE  id = Current /\ InHand
    <3>1. id >= committed
      BY <2>2, <1>3, FileTypes
    <3> QED BY <2>2, <3>1 DEF FilesKnown, FilesAhead
  <2>3. InHand' <=> InHand
    BY <1>1 DEF InHand
  <2> QED BY <2>1, <2>2, <2>3, <1>1 DEF FilesKnown, FilesAhead, Gone
<1>8. ASSUME NEW end \in Nat, end <= Current, NEW id \in committed'..(end - 1)
      PROVE  /\ id \in committed..(end - 1) /\ id \in committed..(Current - 1)
             /\ id \in Nat /\ committed' <= id /\ id < Current
  BY <1>3, <1>8
<1>9. GivenUp'
  BY <1>1, <1>3, <1>6, <1>8 DEF FilesKnown, GivenUp, Gone
<1>10. ASSUME NEW end \in Nat, end <= Current, GivenUpBefore(end),
              NEW id \in committed'..(end - 1)
       PROVE  Alive(id)' \/ Clean(id) \/ id \in leaked
  BY <1>6, <1>8, <1>10 DEF GivenUpBefore
<1>11. GivenUpForGood'
  <2>1. ASSUME io.op = "Synced", NEW id \in committed'..(Current - 1)
        PROVE  Alive(id)' \/ Clean(id) \/ id \in leaked
    <3>1. GivenUpBefore(Current)
      BY <2>1 DEF FilesKnown, GivenUpForGood
    <3> QED BY <2>1, <3>1, <1>3, <1>10
  <2>2. ASSUME NEW i \in DOMAIN R', R'[i].id < Current, ~Deleted(R'[i]),
               NEW id \in committed'..(R'[i].id - 1)
        PROVE  Alive(id)' \/ Clean(id) \/ id \in leaked
    <3>1. GivenUpBefore(R'[i].id) /\ R'[i].id \in Nat /\ R'[i].id <= Current
      BY <2>2, <1>3, <1>5 DEF FilesKnown, GivenUpForGood
    <3> QED BY <2>2, <3>1, <1>10
  <2> QED BY <2>1, <2>2, <1>1 DEF GivenUpForGood, GivenUpBefore, Clean
<1>12. PassedOver'
  BY <1>1 DEF PassedOver
<1>13. FilesCollected'
  <2>1. ASSUME NEW id \in Nat, id < committed PROVE id < committed'
    BY <2>1, <1>3
  <2> QED BY <2>1, <1>1, FileTypes DEF FilesKnown, FilesCollected, Gone, Clean
<1>14. FileFound'
  BY <1>1 DEF FilesKnown, FileFound
<1> QED BY <1>7, <1>9, <1>11, <1>12, <1>13, <1>14 DEF FilesKnown

-----------------------------------------------------------------------------
(* Collectors, crashes and restarts.                                       *)

LEMMA UnlinkKeepsFiles ==
  ASSUME Inv, FilesKnown, NEW c \in Collectors, GcUnlink(c)
  PROVE  FilesKnown'
<1>1. PICK ids \in SUBSET garbage_needs_unlink :
        /\ gc' = [gc EXCEPT ![c] = ids]
        /\ file' = [id \in Ids |-> IF id \in ids /\ file[id].exists THEN Unlinked ELSE file[id]]
  BY DEF GcUnlink
<1>2. /\ UNCHANGED <<recent_recordings, writer_state, committed, flush, io, garbage_unlinked,
                     row, garbage, cum_recordings, leaked, process>>
      /\ Current' = Current /\ (InHand' <=> InHand)
  BY DEF GcUnlink, streamVars, poolVars, dbVars, historyVars, Current, InHand
<1>3. /\ ids \subseteq garbage /\ ids \cap garbage_unlinked = {}
      /\ \A id \in ids : id < committed /\ id \in Ids /\ id \in Nat
  BY FileTypes DEF Inv, Flushing
<1>4. ASSUME NEW id \in Ids
      PROVE  /\ file'[id].exists => file[id].exists
             /\ id \in ids => Gone(id)'
             /\ id \notin ids => file'[id] = file[id]
  BY <1>1 DEF Unlinked, NoFile, Gone
<1>5. \A id \in Ids : id >= committed => id \notin ids
  BY <1>3, FileTypes
<1>6. FilesAhead'
  <2>1. io.op = "Aborted" => ~file'[Current].exists \/ Current \in leaked
    BY <1>4, BusyIsAhead DEF FilesKnown, FilesAhead, Gone, Busy
  <2> QED BY <2>1, <1>2, <1>4 DEF FilesKnown, FilesAhead, Gone
<1>7. GivenUp' /\ GivenUpForGood' /\ PassedOver'
  <2>1. ASSUME NEW id \in committed..(Current - 1)
        PROVE  (Gone(id) => Gone(id)') /\ (Clean(id) => Clean(id)')
    <3>1. Current \in 0..MaxRecordings /\ committed \in Nat
      BY FileTypes
    <3>2. id \in Ids /\ id >= committed
      BY <3>1, FileTypes
    <3>3. file'[id] = file[id]
      BY <3>2, <1>4, <1>5
    <3> QED BY <3>3 DEF Gone, Clean
  <2> QED BY <2>1, <1>2, GivenUpStays DEF FilesKnown
<1>8. FilesCollected'
  <2>1. ASSUME NEW id \in garbage_unlinked PROVE id < committed /\ Clean(id)'
    <3>1. id \in Ids /\ id \notin ids
      BY <1>3, FileTypes
    <3> QED BY <3>1, <1>4 DEF FilesKnown, FilesCollected, Clean
  <2>2. ASSUME NEW d \in Collectors, NEW id \in gc'[d] PROVE id < committed /\ Gone(id)'
    <3>1. gc \in [Collectors -> SUBSET Ids]
      BY DEF Inv, Typed
    <3>2. CASE d = c
      <4>1. id \in ids
        BY <3>1, <3>2, <1>1
      <4> QED BY <4>1, <1>3, <1>4
    <3>3. CASE d # c
      <4>1. id \in gc[d] /\ id \in Ids
        BY <3>1, <3>3, <1>1
      <4> QED BY <4>1, <1>4 DEF FilesKnown, FilesCollected, Gone
    <3> QED BY <3>2, <3>3
  <2> QED BY <2>1, <2>2, <1>2 DEF FilesCollected
<1>9. FileFound'
  <2>1. SUFFICES ASSUME NEW id \in Ids, file'[id].exists \/ file'[id].pending
                 PROVE  id \in DOMAIN row \cup garbage \cup leaked \/ id >= cum_recordings
    BY <1>2 DEF FileFound
  <2>2. CASE id \in ids
    BY <2>2, <1>3
  <2>3. CASE id \notin ids
    BY <2>1, <2>3, <1>4 DEF FilesKnown, FileFound
  <2> QED BY <2>2, <2>3
<1> QED BY <1>6, <1>7, <1>8, <1>9 DEF FilesKnown

LEMMA GcSyncKeepsFiles ==
  ASSUME Inv, FilesKnown, NEW c \in Collectors, GcSync(c)
  PROVE  FilesKnown'
<1>1. /\ UNCHANGED <<recent_recordings, writer_state, committed, flush, io,
                     row, garbage, cum_recordings, leaked, process>>
      /\ Current' = Current /\ (InHand' <=> InHand)
      /\ file' = DirSynced
      /\ garbage_unlinked' \subseteq garbage_unlinked \cup gc[c]
      /\ gc' = [gc EXCEPT ![c] = {}]
  BY DEF GcSync, streamVars, dbVars, historyVars, Current, InHand
<1>2. ASSUME NEW id \in Ids
      PROVE  /\ file'[id].exists = file[id].exists /\ file'[id].pending = FALSE
             /\ Gone(id) => Gone(id)' /\ Clean(id)'
             /\ Clean(id) => Clean(id)'
  BY <1>1, SyncedDirectory, FileTypes DEF Gone, Clean
<1>3. FilesAhead'
  <2>1. io.op = "Aborted" => ~file'[Current].exists \/ Current \in leaked
    BY <1>2, BusyIsAhead DEF FilesKnown, FilesAhead, Gone, Busy
  <2> QED BY <2>1, <1>1, <1>2 DEF FilesKnown, FilesAhead, Gone
<1>4. GivenUp' /\ GivenUpForGood' /\ PassedOver'
  <2>1. ASSUME NEW id \in committed..(Current - 1)
        PROVE  (Gone(id) => Gone(id)') /\ (Clean(id) => Clean(id)')
    <3>1. Current \in 0..MaxRecordings
      BY FileTypes
    <3>2. id \in Ids
      BY <3>1, FileTypes
    <3> QED BY <3>2, <1>2
  <2> QED BY <2>1, <1>1, GivenUpStays DEF FilesKnown
<1>5. FilesCollected'
  <2>1. ASSUME NEW id \in garbage_unlinked' PROVE id < committed /\ Clean(id)'
    <3>1. id \in garbage_unlinked \/ id \in gc[c]
      BY <1>1
    <3>2. id \in Ids
      BY <3>1, FileTypes
    <3> QED BY <3>1, <3>2, <1>2 DEF FilesKnown, FilesCollected
  <2>2. ASSUME NEW d \in Collectors, NEW id \in gc'[d] PROVE id < committed /\ Gone(id)'
    <3>1. gc \in [Collectors -> SUBSET Ids]
      BY DEF Inv, Typed
    <3>2. id \in gc[d] /\ id \in Ids
      BY <3>1, <1>1
    <3> QED BY <3>2, <1>2 DEF FilesKnown, FilesCollected
  <2> QED BY <2>1, <2>2, <1>1 DEF FilesCollected
<1>6. FileFound'
  BY <1>1, <1>2 DEF FilesKnown, FileFound
<1> QED BY <1>3, <1>4, <1>5, <1>6 DEF FilesKnown

LEMMA CollectKeepsFiles ==
  ASSUME Inv, FilesKnown, Collect
  PROVE  FilesKnown'
<1>1. PICK c \in Collectors : GcUnlink(c) \/ GcSync(c) \/ GcSyncFails(c)
  BY DEF Collect
<1>2. CASE GcSyncFails(c)
  <2>1. /\ UNCHANGED <<recent_recordings, writer_state, committed, file, io, garbage_unlinked,
                       row, garbage, cum_recordings, leaked, flush, process>>
        /\ gc' = [gc EXCEPT ![c] = {}]
        /\ Current' = Current /\ (InHand' <=> InHand)
    BY <1>2 DEF GcSyncFails, streamVars, poolVars, dbVars, historyVars, Current, InHand
  <2>2. FilesCollected'
    <3>1. ASSUME NEW d \in Collectors, NEW id \in gc'[d] PROVE id \in gc[d]
      <4>1. gc \in [Collectors -> SUBSET Ids]
        BY DEF Inv, Typed
      <4> QED BY <4>1, <2>1
    <3> QED BY <3>1, <2>1 DEF FilesKnown, FilesCollected, Gone, Clean
  <2>3. FilesAhead' /\ FileFound'
    BY <2>1 DEF FilesKnown, FilesAhead, FileFound, Gone
  <2>4. GivenUp' /\ GivenUpForGood' /\ PassedOver'
    BY <2>1, GivenUpStays DEF FilesKnown, Gone, Clean
  <2> QED BY <2>2, <2>3, <2>4 DEF FilesKnown
<1> QED BY <1>1, <1>2, UnlinkKeepsFiles, GcSyncKeepsFiles

LEMMA CrashKeepsFiles ==
  ASSUME Inv, FilesKnown, Crash
  PROVE  FilesKnown'
<1>1. PICK survivors \in SUBSET Ids :
        /\ \A id \in Ids : ~file[id].pending => (id \in survivors <=> file[id].exists)
        /\ file' = [id \in Ids |-> Survivor(file[id], id \in survivors)]
  BY DEF Crash
<1>2. /\ process' = "down" /\ recent_recordings' = << >> /\ committed' = cum_recordings
      /\ writer_state'.recording_id = 0 /\ io'.op = "Idle" /\ flush'.pc = "Idle"
      /\ garbage_unlinked' = {} /\ gc' = [c \in Collectors |-> {}]
      /\ leaked' = {id \in leaked : id < cum_recordings}
      /\ UNCHANGED <<row, garbage, cum_recordings>>
  BY DEF Crash, Idle, NoFlush, dbVars
<1>3. cum_recordings \in Nat /\ Ids \subseteq Nat
  BY FileTypes
<1>4. FilesAhead'
  BY <1>2 DEF FilesAhead
<1>5. GivenUp' /\ GivenUpForGood' /\ PassedOver'
  <2>1. \A id \in committed'..(Current' - 1) : FALSE
    <3>1. Current' = 0
      BY <1>2 DEF Current
    <3> QED BY <3>1, <1>2, <1>3
  <2> QED BY <2>1, <1>2 DEF GivenUp, GivenUpForGood, PassedOver
<1>6. FilesCollected'
  BY <1>2 DEF FilesCollected
<1>7. FileFound'
  <2>1. SUFFICES ASSUME NEW id \in Ids, file'[id].exists \/ file'[id].pending
                 PROVE  id \in DOMAIN row \cup garbage \cup leaked' \/ id >= cum_recordings
    BY <1>2 DEF FileFound
  <2>2. id \in survivors
    BY <2>1, <1>1 DEF Survivor, NoFile
  <2>3. file[id].exists \/ file[id].pending
    BY <2>2, <1>1
  <2>4. id \in DOMAIN row \cup garbage \cup leaked \/ id >= cum_recordings
    BY <2>3 DEF FilesKnown, FileFound
  <2> QED BY <2>4, <1>2, <1>3
<1> QED BY <1>4, <1>5, <1>6, <1>7 DEF FilesKnown

LEMMA AbandonKeepsFiles ==
  ASSUME Inv, FilesKnown, Abandon
  PROVE  FilesKnown'
<1>1. /\ process = "down" /\ process' = "abandoned"
      /\ file' = [id \in Ids |-> IF file[id].exists /\ id >= committed THEN Unlinked ELSE file[id]]
      /\ UNCHANGED <<recent_recordings, writer_state, committed, flush, io, gc,
                     garbage_unlinked, row, garbage, cum_recordings, leaked>>
      /\ Current' = Current
  BY DEF Abandon, streamVars, threadVars, poolVars, dbVars, historyVars, Current
<1>2. /\ recent_recordings = << >> /\ io = Idle /\ flush = NoFlush /\ committed = cum_recordings
  BY <1>1 DEF Inv, Stopped, Flushing, NoFlush
<1>3. ASSUME NEW id \in Ids
      PROVE  /\ id >= committed => Gone(id)'
             /\ Gone(id) => file'[id] = file[id]
             /\ ~(id >= committed) => file'[id] = file[id]
  BY <1>1 DEF Gone, Unlinked, NoFile
<1>4. FilesAhead'
  BY <1>1, <1>2, <1>3 DEF FilesAhead, Gone, Idle
<1>5. GivenUp' /\ GivenUpForGood' /\ PassedOver'
  <2>1. ASSUME NEW id \in committed..(Current - 1)
        PROVE  (Gone(id) => Gone(id)') /\ (Clean(id) => Clean(id)')
    <3>1. Current \in 0..MaxRecordings
      BY FileTypes
    <3>2. id \in Ids
      BY <3>1, FileTypes
    <3> QED BY <3>2, <1>3 DEF Gone, Clean
  <2> QED BY <2>1, <1>1, GivenUpStays DEF FilesKnown
<1>6. FilesCollected'
  <2>1. ASSUME NEW id \in Ids, Gone(id)
        PROVE  Gone(id)' /\ (Clean(id) => Clean(id)')
    BY <2>1, <1>3 DEF Gone, Clean
  <2>2. \A id : Clean(id) => Gone(id)
    BY DEF Clean, Gone
  <2> QED BY <2>1, <2>2, <1>1, FileTypes DEF FilesKnown, FilesCollected
<1>7. FileFound'
  BY <1>1, <1>2, <1>3 DEF FilesKnown, FileFound
<1> QED BY <1>4, <1>5, <1>6, <1>7 DEF FilesKnown

LEMMA InitFilesKnown ==
  ASSUME Init
  PROVE  FilesKnown
<1>1. \A id \in Ids : ~file[id].exists /\ ~file[id].pending
  BY DEF Init, NoFile
<1>2. /\ recent_recordings = << >> /\ io.op = "Idle" /\ flush.pc = "Idle"
      /\ garbage_unlinked = {} /\ committed = 0 /\ Current = 0
      /\ \A c \in Collectors : gc[c] = {}
  BY DEF Init, Idle, NoFlush, Current
<1>3. \A id \in committed..(Current - 1) : FALSE
  BY <1>2
<1> QED BY <1>1, <1>2, <1>3
     DEF FilesKnown, FilesAhead, GivenUp, GivenUpForGood, PassedOver, FilesCollected, FileFound

LEMMA NextKeepsFiles ==
  ASSUME Inv, Inv', FilesKnown, [Next]_vars
  PROVE  FilesKnown'
<1>1. CASE HandleNotify
  <2>1. UNCHANGED <<recent_recordings, writer_state, committed, file, io, garbage_unlinked, gc,
                    row, garbage, cum_recordings, leaked, flush, process>>
    BY <1>1 DEF HandleNotify, threadVars, poolVars, dbVars, historyVars
  <2> QED BY <2>1, QuietStepKeepsFiles
<1>2. CASE FlushFails
  <2>1. /\ UNCHANGED <<recent_recordings, writer_state, committed, file, io, garbage_unlinked, gc,
                       row, garbage, cum_recordings, leaked, process>>
        /\ flush'.pc # "Collected"
    BY <1>2 DEF FlushFails, NoFlush, streamVars, poolVars, dbVars, historyVars
  <2> QED BY <2>1, QuietStepKeepsFiles
<1>3. CASE InitialRotation
  <2>1. /\ UNCHANGED <<recent_recordings, writer_state, committed, file, io, garbage_unlinked, gc,
                       row, garbage, cum_recordings, leaked, flush>>
        /\ process # "down"
    BY <1>3 DEF InitialRotation, threadVars, poolVars, dbVars, historyVars
  <2> QED BY <2>1, QuietStepKeepsFiles
<1>4. CASE UNCHANGED vars
  <2>1. UNCHANGED <<recent_recordings, writer_state, committed, file, io, garbage_unlinked, gc,
                    row, garbage, cum_recordings, leaked, flush, process>>
    BY <1>4 DEF vars, streamVars, threadVars, poolVars, dbVars, historyVars
  <2> QED BY <2>1, QuietStepKeepsFiles
<1>5. CASE Flush
  BY <1>2, <1>5, CollectedPassesOver, CommitKeepsFiles, ApplyKeepsFiles DEF Flush
<1> QED BY <1>1, <1>3, <1>4, <1>5, WriteKeepsFiles, WorkerKeepsFiles, CollectKeepsFiles,
           CrashKeepsFiles, AbandonKeepsFiles DEF Next

\* In every reachable state each sample file that may exist is accounted for
\* as FilesKnown says.
THEOREM FilesKnownHolds == Spec => []FilesKnown
<1>1. Inv /\ Inv' /\ FilesKnown /\ [Next]_vars => FilesKnown'
  BY NextKeepsFiles
<1> QED BY InitFilesKnown, InvHolds, <1>1, PTL DEF Spec

LEMMA KnownFilesAreNotForgotten ==
  ASSUME Inv, FilesKnown
  PROVE  NoForgottenFile
<1>1. \A id \in Ids :
        file[id].exists \/ file[id].pending =>
          \/ id \in DOMAIN row \cup garbage \cup leaked
          \/ id >= cum_recordings
  BY DEF FilesKnown, FileFound
<1>2. ASSUME process = "down" PROVE Errors(Inventory) \subseteq leaked
  <2>1. /\ Inventory.files = {id \in Ids : file[id].exists} /\ Inventory.garbage = garbage
        /\ DOMAIN row \subseteq Ids /\ Ids \subseteq Nat /\ cum_recordings \in Nat
        /\ garbage \subseteq Ids
    BY RowSets, FileTypes DEF Inventory
  <2>2. /\ \A id \in DOMAIN row : id < cum_recordings /\ id \notin garbage
        /\ \A id \in DOMAIN row : file[id].exists /\ file[id].size = row[id]
    <3>1. \A id \in DOMAIN row : id < cum_recordings /\ id \notin garbage
      BY DEF Inv, Flushing
    <3>2. CommittedDurable
      BY DEF Inv, Flushing
    <3>3. ASSUME NEW id \in DOMAIN row PROVE file[id].exists /\ file[id].size = row[id]
      <4>1. file[id] = [exists |-> TRUE, pending |-> FALSE, size |-> row[id], synced |-> TRUE]
        BY <3>2 DEF CommittedDurable
      <4> QED BY <4>1
    <3> QED BY <3>1, <3>3
  <2>3. MissingFiles(Inventory) = {}
    BY <2>1, <2>2 DEF MissingFiles
  <2>4. MissingRows(Inventory) \subseteq leaked
    <3>1. SUFFICES ASSUME NEW id \in (Inventory.files \cup garbage) \ DOMAIN row,
                          id \notin garbage, id < cum_recordings
                   PROVE  id \in leaked
      BY <2>1 DEF MissingRows, RowExpected
    <3>2. id \in Ids /\ file[id].exists /\ id \in Nat
      BY <3>1, <2>1
    <3> QED BY <3>1, <3>2, <2>1, <1>1
  <2>5. UnexpectedRows(Inventory) = {} /\ LengthMismatches(Inventory) = {}
    BY <2>1, <2>2 DEF UnexpectedRows, LengthMismatches, RowExpected
  <2> QED BY <2>3, <2>4, <2>5 DEF Errors
<1> QED BY <1>1, <1>2 DEF NoForgottenFile

\* No sample file is forgotten: a row, a garbage row or the next start's
\* abandon accounts for it, but for those whose unlink failed in an abort.
THEOREM FilesAreNotForgotten == Spec => []NoForgottenFile
BY InvHolds, FilesKnownHolds, KnownFilesAreNotForgotten, PTL
=============================================================================

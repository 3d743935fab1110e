------------------------------- MODULE Capture -------------------------------
(***************************************************************************)
(* From a camera to recordings: one stream's Streamer, the Writer it       *)
(* drives, the video sample entries it names, and the rows a flush makes   *)
(* of them.                                                                *)
(*                                                                         *)
(*   - the connection to the camera (server/src/stream.rs);                *)
(*   - Streamer::run and run_once: when a recording ends and the next one  *)
(*     begins (server/src/streamer.rs);                                    *)
(*   - Writer and InnerWriter: durations, start times and the sample index *)
(*     of each recording (server/db/writer.rs, server/db/recording.rs);    *)
(*   - sample_entries::State (server/db/sample_entries.rs);                *)
(*   - the part of LockedDatabase::flush that concerns them                *)
(*     (server/db/db.rs, server/db/raw.rs), and a restart.                 *)
(*                                                                         *)
(* Which recordings a flush may take, and what becomes of their files, is  *)
(* in Recordings; here any prefix of the complete ones may be taken.       *)
(***************************************************************************)
EXTENDS SampleIndex, Aggregates
LOCAL INSTANCE FiniteSetsExt
LOCAL INSTANCE SequencesExt
LOCAL INSTANCE Functions
LOCAL INSTANCE TLC

CONSTANTS
  PtsSteps,           \* by how much a frame's pts may exceed the one before
  ClockSteps,         \* local time that may pass between two frames
  Data,               \* the serialized sample entries the camera may send
  Sizes,              \* sequence: bytes of the frames, in turn
  UnitsPerSec,        \* TIME_UNITS_PER_SEC
  RotateOffsetSec,    \* Streamer's rotate_offset_sec
  RotateIntervalSec,  \* Streamer's rotate_interval_sec
  MaxDuration,        \* MAX_RECORDING_WALL_DURATION
  Slack,              \* media time per unit of correction: 2000 in the program
  MaxFrames,          \* bound: frames received
  MaxOpens            \* bound: sessions with the camera, plus restarts

ASSUME CaptureAssumption ==
  /\ PtsSteps \subseteq Int /\ ClockSteps \subseteq Nat
  /\ Sizes \in Seq(Nat \ {0}) /\ Sizes # << >>
  /\ UnitsPerSec \in Nat \ {0} /\ Slack \in Nat \ {0}
  /\ RotateIntervalSec \in Nat \ {0}
  /\ RotateOffsetSec \in 0..(RotateIntervalSec - 1)
  /\ MaxDuration \in Nat /\ MaxFrames \in Nat /\ MaxOpens \in Nat

None   == -1                  \* Option::None for a number
MaxTime == 10000              \* recording::Time::MAX
FirstTime == 100              \* the clock is long past 0 when capture starts

VARIABLES
  now,         \* local time, in units
  camera,      \* the session: [pts, data, frames], frames received so far
  streamer,    \* run_once: [pc, video_sample_entry_id, rotate_at_sec]
  inner,       \* InnerWriter
  recordings,  \* the stream's recordings in memory, by id
  complete,    \* StreamComplete: [recordings, runs, media_duration]
  entries,     \* sample_entries::State: [by_id, next, to_flush]
  flush,       \* LockedDatabase::flush: [pc, new, entries]
  rows,        \* recording rows
  counters,    \* the stream row's counters, as in complete
  table,       \* video_sample_entry rows: id -> data
  opens,       \* sessions and restarts so far
  received     \* history: for each recording, the frames pushed into it

dbVars == <<rows, counters, table>>
vars == <<now, camera, streamer, inner, recordings, complete, entries, flush,
          dbVars, opens, received>>

Closed  == [pc |-> "closed", video_sample_entry_id |-> 0, rotate_at_sec |-> None]
NoFlush == [pc |-> "idle", new |-> {}, entries |-> << >>]
NoCounts == [recordings |-> 0, runs |-> 0, media_duration |-> 0]

\* Writer::new, and what close leaves for the next recording.
NewInner ==
  [recording_id |-> None, run_offset |-> 0, e |-> NewEncoder,
   media_duration_90k |-> 0, wall_duration_90k |-> 0, start |-> MaxTime,
   local_start |-> MaxTime, unfinished |-> << >>]

Init ==
  /\ now \in FirstTime..(FirstTime + UnitsPerSec - 1)
  /\ \E data \in Data : camera = [pts |-> 0, data |-> data, frames |-> 0]
  /\ streamer = Closed
  /\ inner = NewInner
  /\ recordings = << >>
  /\ complete = NoCounts
  /\ entries = [by_id |-> << >>, next |-> 1, to_flush |-> << >>]
  /\ flush = NoFlush
  /\ rows = << >>
  /\ counters = NoCounts
  /\ table = << >>
  /\ opens = 0
  /\ received = << >>

-----------------------------------------------------------------------------
(* sample_entries::State.                                                  *)

KnownIds(ents, data) == {id \in DOMAIN ents.by_id : ents.by_id[id] = data}

\* The id insert_video returns, and the state it leaves.
EntryId(ents, data) ==
  IF KnownIds(ents, data) # {} THEN CHOOSE id \in KnownIds(ents, data) : TRUE
  ELSE ents.next

InsertVideo(ents, data) ==
  IF KnownIds(ents, data) # {} THEN ents
  ELSE [by_id |-> (ents.next :> data) @@ ents.by_id, next |-> ents.next + 1,
        to_flush |-> Append(ents.to_flush, ents.next)]

\* Mutation of PostFlush: entries inserted since are dropped as well.
PostFlushAll(ents, flushed) == [ents EXCEPT !.to_flush = << >>]

\* EntriesToFlush::post_flush: what was flushed is a prefix of what is there.
PostFlush(ents, flushed) ==
  [ents EXCEPT !.to_flush = SubSeq(@, Len(flushed) + 1, Len(@))]

LoadEntries(tbl) ==
  [by_id |-> tbl, to_flush |-> << >>,
   next |-> IF tbl = << >> THEN 1 ELSE Max(DOMAIN tbl) + 1]

-----------------------------------------------------------------------------
(* InnerWriter.  Its operations take and return the record of what they    *)
(* change: the InnerWriter, the recordings, the stream's counters, and the *)
(* history.                                                                *)

Stream == [inner |-> inner, recordings |-> recordings, complete |-> complete,
           received |-> received]

Clamp(x, low, high) == Max({low, Min({x, high})})

\* The earliest start any frame suggests; a run's first recording starts
\* there, a later one drifts towards it by at most one part in Slack.
AdjWallAndStart(i, sample) ==
  LET local_start == Min({i.local_start, sample.local_time - i.media_duration_90k})
      limit       == i.media_duration_90k \div Slack
      start       == IF i.run_offset = 0 THEN local_start ELSE i.start
  IN  [i EXCEPT !.local_start = local_start, !.start = start,
         !.wall_duration_90k =
            Min({MaxDuration, i.media_duration_90k
                                + Clamp(local_start - start, -limit, limit)})]

DurationOf(sample, next_pts) == next_pts - sample.pts

TimestampsAreValid(i, sample, next_pts) ==
  LET duration == DurationOf(sample, next_pts)
  IN  duration > 0 /\ i.media_duration_90k + duration <= MaxDuration

AdjMediaDuration(i, sample, next_pts) ==
  AdjWallAndStart([i EXCEPT !.media_duration_90k = @ + DurationOf(sample, next_pts)],
                  sample)

\* LockedStream::add_recording, for the recording a sample opens.
NewRecording(s, sample) ==
  [run_offset |-> s.inner.run_offset, start |-> s.inner.start,
   video_sample_entry_id |-> sample.video_sample_entry_id, growing |-> TRUE,
   trailing_zero |-> FALSE, index |-> << >>, media_duration_90k |-> 0,
   wall_duration_90k |-> 0, sample_file_bytes |-> 0, video_samples |-> 0,
   video_sync_samples |-> 0, prev_media_duration |-> s.complete.media_duration,
   prev_runs |-> s.complete.runs]

\* push, with what SampleIndexEncoder::add_sample does to the recording.
Push(s, sample, duration) ==
  LET i       == s.inner
      opening == i.recording_id = None
      id      == IF opening THEN s.complete.recordings ELSE i.recording_id
      before  == IF opening THEN NewRecording(s, sample) ELSE s.recordings[id]
      r == [before EXCEPT
              !.index = Append(@, Encoded(i.e, duration, sample.bytes, sample.is_key)),
              !.trailing_zero = @ \/ duration = 0,
              !.media_duration_90k = @ + duration,
              !.sample_file_bytes = @ + sample.bytes,
              !.video_samples = @ + 1,
              !.video_sync_samples = IF sample.is_key THEN @ + 1 ELSE @,
              !.wall_duration_90k = i.wall_duration_90k,
              !.start = i.start]
      frames  == IF opening THEN << >> ELSE s.received[id]
  IN  [s EXCEPT
         !.inner.recording_id = id,
         !.inner.e = AfterSample(i.e, duration, sample.bytes, sample.is_key),
         !.recordings = (id :> r) @@ @,
         !.received = (id :> Append(frames, sample)) @@ @]

\* Mutation of CloseRecording: the run's clock does not follow the wall.
CloseAtMedia(s) ==
  LET i == s.inner
      r == s.recordings[i.recording_id]
  IN  [s EXCEPT
         !.recordings[i.recording_id].growing = FALSE,
         !.complete = [recordings     |-> @.recordings + 1,
                       runs           |-> @.runs + (IF i.run_offset = 0 THEN 1 ELSE 0),
                       media_duration |-> @.media_duration + r.media_duration_90k],
         !.inner = [NewInner EXCEPT !.run_offset = i.run_offset + 1,
                                    !.start = i.start + i.media_duration_90k]]

\* close: the next recording of the run starts where this one ends.
CloseRecording(s) ==
  LET i == s.inner
      r == s.recordings[i.recording_id]
  IN  [s EXCEPT
         !.recordings[i.recording_id].growing = FALSE,
         !.complete = [recordings     |-> @.recordings + 1,
                       runs           |-> @.runs + (IF i.run_offset = 0 THEN 1 ELSE 0),
                       media_duration |-> @.media_duration + r.media_duration_90k],
         !.inner = [NewInner EXCEPT !.run_offset = i.run_offset + 1,
                                    !.start = i.start + i.wall_duration_90k]]

\* The end of a run, for whatever reason: the sample still held back gets no
\* duration, and the recording is closed (Writer::close, Drop, and write when
\* the timestamps are invalid).
EndRun(s) ==
  IF s.inner.unfinished = << >> THEN s
  ELSE LET sample == Head(s.inner.unfinished)
           adjusted == [s EXCEPT !.inner = AdjWallAndStart(@, sample)]
       IN  CloseRecording(Push(adjusted, sample, 0))

\* Writer::write, when the timestamps are valid: it pushes the sample before
\* this one, closes the recording if this one starts another, and holds this
\* one back until its duration is known.
WriteSample(s, sample, rotate_now) ==
  LET before == Head(s.inner.unfinished)
      closes == \/ rotate_now
                \/ sample.video_sample_entry_id # before.video_sample_entry_id
      pushed == Push([s EXCEPT !.inner = AdjMediaDuration(@, before, sample.pts)],
                     before, DurationOf(before, sample.pts))
      stored == IF s.inner.unfinished = << >> THEN s
                ELSE IF closes THEN CloseRecording(pushed) ELSE pushed
  IN  [stored EXCEPT !.inner.unfinished = << sample >>]

\* What the stream and the Writer become.
Becomes(s) ==
  /\ inner' = s.inner
  /\ recordings' = s.recordings
  /\ complete' = s.complete
  /\ received' = s.received

-----------------------------------------------------------------------------
(* Streamer.                                                               *)

Secs(t) == t \div UnitsPerSec

\* When to rotate next; a run's first recording is given an interval more.
RotateAt(sec, rotate_now) ==
  LET r == (sec - (sec % RotateIntervalSec)) + RotateOffsetSec
  IN  (IF r <= sec THEN r + RotateIntervalSec ELSE r)
        + (IF rotate_now THEN 0 ELSE RotateIntervalSec)

FrameBytes == Sizes[1 + (camera.frames % Len(Sizes))]

\* The sample made of the frame at hand; `data` and `named` are history: the
\* sample entry the frame was made with, and the one its recording will name.
Sample(pts, local_time, is_key, data, id, ents) ==
  [pts |-> pts, local_time |-> local_time, is_key |-> is_key,
   bytes |-> FrameBytes, video_sample_entry_id |-> id,
   data |-> data, named |-> ents.by_id[id]]

\* RetinaStream::play, and the start of run_once.
OpenSession(data) ==
  /\ streamer.pc = "closed"
  /\ opens < MaxOpens
  /\ opens' = opens + 1
  /\ camera' = [camera EXCEPT !.pts = 0, !.data = data]
  /\ entries' = InsertVideo(entries, data)
  /\ streamer' = [pc |-> "open", video_sample_entry_id |-> EntryId(entries, data),
                  rotate_at_sec |-> None]
  /\ inner' = NewInner
  /\ UNCHANGED <<now, recordings, complete, flush, dbVars, received>>

\* The first frame: play has waited for a key frame.
FirstFrame ==
  /\ streamer.pc = "open" /\ streamer.rotate_at_sec = None
  /\ camera.frames < MaxFrames
  /\ Becomes(WriteSample(Stream,
                         Sample(camera.pts, now, TRUE, camera.data,
                                streamer.video_sample_entry_id, entries),
                         FALSE))
  /\ camera' = [camera EXCEPT !.frames = @ + 1]
  /\ streamer' = [streamer EXCEPT !.rotate_at_sec = RotateAt(Secs(now), FALSE)]
  /\ UNCHANGED <<now, entries, flush, dbVars, opens>>

\* The streamer gives up this session; it sleeps a second before the next.
GiveUp ==
  /\ Becomes(EndRun(Stream))
  /\ streamer' = Closed

SessionFails ==
  /\ streamer.pc = "open"
  /\ GiveUp
  /\ now' = now + UnitsPerSec
  /\ UNCHANGED <<camera, entries, flush, dbVars, opens>>

\* A key frame after the rotation time.
Due(is_key, at) == Secs(at) > streamer.rotate_at_sec /\ is_key

\* A later frame.  `data` is the sample entry it is made with.  When a
\* rotation is due, the code does not look whether the entry is new.
Frame(pts, at, is_key, data) ==
  LET changed == data # camera.data
      due     == Due(is_key, at)
      insert  == changed /\ ~due
      ents    == IF insert THEN InsertVideo(entries, data) ELSE entries
      id      == IF insert THEN EntryId(entries, data)
                 ELSE streamer.video_sample_entry_id
      rotate  == due \/ changed
      valid   == TimestampsAreValid(inner, Head(inner.unfinished), pts)
  IN  /\ streamer.pc = "open" /\ streamer.rotate_at_sec # None
      /\ camera.frames < MaxFrames
      /\ camera' = [pts |-> pts, data |-> data, frames |-> camera.frames + 1]
      /\ \/ /\ insert /\ ~is_key      \* parameter change on non-key frame
            /\ GiveUp
            /\ now' = at + UnitsPerSec
            /\ UNCHANGED entries
         \/ /\ insert => is_key
            /\ entries' = ents
            /\ ~valid
            /\ GiveUp
            /\ now' = at + UnitsPerSec
         \/ /\ insert => is_key
            /\ entries' = ents
            /\ valid
            /\ Becomes(WriteSample(Stream,
                                   Sample(pts, at, is_key, data, id, ents), rotate))
            /\ streamer' = [streamer EXCEPT
                              !.video_sample_entry_id = id,
                              !.rotate_at_sec =
                                 IF rotate THEN RotateAt(Secs(at), TRUE) ELSE @]
            /\ now' = at
      /\ UNCHANGED <<flush, dbVars, opens>>

NextFrame ==
  \E step \in PtsSteps, tick \in ClockSteps, is_key \in BOOLEAN, data \in Data :
    Frame(camera.pts + step, now + tick, is_key, data)

-----------------------------------------------------------------------------
(* LockedDatabase::flush, and a restart.                                   *)

\* First scope: some of the complete recordings no flush has taken.
FlushCollect ==
  /\ flush.pc = "idle"
  /\ \E end \in counters.recordings..complete.recordings :
       flush' = [pc |-> "collected", entries |-> << >>,
                 new |-> counters.recordings..(end - 1)]
  /\ UNCHANGED <<now, camera, streamer, inner, recordings, complete, entries,
                 dbVars, opens, received>>

\* The checks of the recording table (server/db/schema.sql), the reference to
\* video_sample_entry among them.
SchemaAccepts(r, tbl) ==
  /\ r.sample_file_bytes > 0 /\ r.start > 0 /\ r.prev_media_duration >= 0
  /\ r.wall_duration_90k >= 0 /\ r.wall_duration_90k < MaxDuration
  /\ r.video_samples > 0 /\ r.video_sync_samples > 0
  /\ r.video_sample_entry_id \in DOMAIN tbl

\* The stream's counters once its last new recording is in: new_totals.
NewTotals(r, id) ==
  [recordings     |-> id + 1,
   runs           |-> r.prev_runs + (IF r.run_offset = 0 THEN 1 ELSE 0),
   media_duration |-> r.prev_media_duration + r.wall_duration_90k]

\* Second scope: the transaction, entries first.
FlushCommit ==
  LET tbl == table @@ [id \in ToSet(entries.to_flush) |-> entries.by_id[id]]
      new == [id \in flush.new |-> recordings[id]]
  IN  /\ flush.pc = "collected"
      /\ \A id \in flush.new : SchemaAccepts(new[id], tbl)
      /\ table' = tbl
      /\ rows' = new @@ rows
      /\ counters' = IF flush.new = {} THEN counters
                     ELSE LET last == Max(flush.new) IN NewTotals(new[last], last)
      /\ flush' = [flush EXCEPT !.pc = "committed", !.entries = entries.to_flush]
      /\ UNCHANGED <<now, camera, streamer, inner, recordings, complete, entries,
                     opens, received>>

FlushFails ==
  /\ flush.pc = "collected"
  /\ flush' = NoFlush
  /\ UNCHANGED <<now, camera, streamer, inner, recordings, complete, entries,
                 dbVars, opens, received>>

FlushApply ==
  /\ flush.pc = "committed"
  /\ entries' = PostFlush(entries, flush.entries)
  /\ flush' = NoFlush
  /\ UNCHANGED <<now, camera, streamer, inner, recordings, complete, dbVars,
                 opens, received>>

\* The process ends at any point and starts again.
Restart ==
  /\ opens < MaxOpens
  /\ opens' = opens + 1
  /\ streamer' = Closed
  /\ inner' = NewInner
  /\ recordings' = rows
  /\ complete' = counters
  /\ entries' = LoadEntries(table)
  /\ flush' = NoFlush
  /\ received' = Restrict(received, DOMAIN rows)
  /\ UNCHANGED <<now, camera, dbVars>>

-----------------------------------------------------------------------------

Next ==
  \/ \E data \in Data : OpenSession(data)
  \/ FirstFrame
  \/ NextFrame
  \/ SessionFails
  \/ FlushCollect
  \/ FlushCommit
  \/ FlushFails
  \/ FlushApply
  \/ Restart

Spec == Init /\ [][Next]_vars

-----------------------------------------------------------------------------
(* Properties.                                                             *)

SumBytes(frames) == FoldLeft(LAMBDA n, f : n + f.bytes, 0, frames)

\* The sample index of a recording, decoded, gives back the frames that were
\* pushed into it: their kinds, sizes and places in the file, and times that
\* differ as the camera's do.  Only the last may have no duration, and the
\* recording's own counts agree with its index (add_sample, against
\* SampleIndexIterator::next).
IndexIsFaithful ==
  \A id \in DOMAIN recordings :
    LET r       == recordings[id]
        frames  == received[id]
        samples == Samples(r.index)
        final   == Last(samples)
    IN  /\ Len(samples) = Len(frames) /\ r.video_samples = Len(frames)
        /\ Readable(samples)
        /\ \A i \in DOMAIN frames :
             /\ samples[i].is_key = frames[i].is_key
             /\ samples[i].bytes = frames[i].bytes
             /\ samples[i].pos = SumBytes(SubSeq(frames, 1, i - 1))
             /\ samples[i].start_90k = frames[i].pts - frames[1].pts
        /\ r.media_duration_90k = final.start_90k + final.duration_90k
        /\ r.sample_file_bytes = final.pos + final.bytes
        /\ r.trailing_zero <=> final.duration_90k = 0
        /\ r.video_sync_samples
             = Cardinality({i \in DOMAIN frames : frames[i].is_key})

\* Each recording of a run starts when the one before it ends, with a key frame,
\* and the one before has no frame without a duration; and prev_runs counts the
\* runs before this one.
RunsAreLinked ==
  \A id \in DOMAIN recordings :
    LET r == recordings[id]
        drift == r.wall_duration_90k - r.media_duration_90k
    IN  /\ r.run_offset > 0 =>
             /\ id - 1 \in DOMAIN recordings
             /\ received[id][1].is_key
             /\ LET p == recordings[id - 1]
                IN  /\ p.run_offset = r.run_offset - 1
                    /\ r.start = EndOf(p)
                    /\ ~p.trailing_zero
        /\ drift \in -(r.media_duration_90k \div Slack)..(r.media_duration_90k \div Slack)
        /\ r.prev_runs = Cardinality({j \in DOMAIN recordings :
                                         j < id /\ recordings[j].run_offset = 0})

\* What the batches of a listing must be: they cover each recording listed
\* once, and what each says of the recordings in it is true.
Batches(listed, forced_split) ==
  LET result == Aggregates(listed, forced_split)
      In(b)  == SelectSeq(listed, LAMBDA r : r.id \in b.ids.start..(b.ids.end - 1))
      Total(rs, f(_)) == FoldLeft(LAMBDA n, r : n + f(r), 0, rs)
  IN  /\ result.ok
      /\ Total(result.batches, LAMBDA b : b.ids.end - b.ids.start) = Len(listed)
      /\ \A i \in DOMAIN result.batches :
           LET b  == result.batches[i]
               rs == In(b)
           IN  /\ Len(rs) = b.ids.end - b.ids.start
               /\ \A k \in DOMAIN rs :
                    /\ rs[k].id = b.ids.start + k - 1
                    /\ rs[k].id - rs[k].run_offset = b.run_start_id
                    /\ rs[k].video_sample_entry_id = b.video_sample_entry_id
                    /\ rs[k].growing => k = Len(rs)
               /\ b.time.start = Head(rs).start /\ b.time.end = EndOf(Last(rs))
               /\ b.video_samples = Total(rs, LAMBDA r : r.video_samples)
               /\ b.video_sync_samples = Total(rs, LAMBDA r : r.video_sync_samples)
               /\ b.sample_file_bytes = Total(rs, LAMBDA r : r.sample_file_bytes)
               /\ b.first_uncommitted
                    = {id \in {r.id : r \in ToSet(rs)} :
                         id \notin DOMAIN rows /\ (id - 1 \in DOMAIN rows \/ id = b.ids.start)}
               /\ b.growing = Last(rs).growing
               /\ b.has_trailing_zero = Last(rs).trailing_zero

\* The recordings as a listing sees them.
AllRecordings ==
  {[id |-> id, start |-> recordings[id].start, growing |-> recordings[id].growing,
    wall_duration_90k |-> recordings[id].wall_duration_90k,
    run_offset |-> recordings[id].run_offset, uncommitted |-> id \notin DOMAIN rows,
    trailing_zero |-> recordings[id].trailing_zero,
    video_samples |-> recordings[id].video_samples,
    video_sync_samples |-> recordings[id].video_sync_samples,
    sample_file_bytes |-> recordings[id].sample_file_bytes,
    video_sample_entry_id |-> recordings[id].video_sample_entry_id] :
      id \in DOMAIN recordings}

\* The recordings of a run are linked, and so list_aggregated_recordings can
\* rely on it: whichever rows have left memory, whatever range of time is asked
\* from and wherever batches are split, it meets no gap, although runs may
\* overlap and recordings are listed by time.  Nor does get_range miss a row.
RunsAreContiguous ==
  LET all    == AllRecordings
      starts == {r.start : r \in all}
      stored == {r \in all : ~r.uncommitted}
      range  == RowRange(stored, MaxDuration)
  IN  /\ RunsAreLinked
      /\ \A r \in stored : range.start <= r.start /\ EndOf(r) <= range.end
      /\ flush.pc = "idle" =>
           \A recent \in 0..Cardinality(DOMAIN rows), from \in {0} \cup starts :
             LET listed == ByTime(all, recent, [start |-> from, end |-> MaxTime],
                                  MaxDuration)
             IN  \A forced_split \in {UnitsPerSec + 1, MaxTime} :
                   Batches(listed, forced_split)

\* The sample entry a recording names is in the database or waits for the next
\* flush, and stands for what each of its frames was written with; a row's is
\* in the database.  A reference that is left behind would make every later
\* flush fail, and one taken over by another entry would make the recording
\* unplayable (sample_entries::State, LockedDatabase::flush).
EntriesKept ==
  /\ \A id \in DOMAIN recordings :
       LET entry == recordings[id].video_sample_entry_id
       IN  /\ entry \in DOMAIN table \cup ToSet(entries.to_flush)
           /\ \A i \in DOMAIN received[id] : received[id][i].named = entries.by_id[entry]
  /\ \A id \in DOMAIN rows :
       LET entry == rows[id].video_sample_entry_id
       IN  entry \in DOMAIN table /\ table[entry] = received[id][1].named
=============================================================================

------------------------------ MODULE Playback ------------------------------
(***************************************************************************)
(* Watching a stream while it is recorded.                                 *)
(*                                                                         *)
(* The stream of Capture is joined to its window of recent frames          *)
(* (server/db/stream/recent_frames.rs) and the pool's worker that writes   *)
(* them to disk.  A viewer either asks for an .mp4 file and reads it while *)
(* recordings grow and frames leave the window (server/src/web/view.rs,    *)
(* server/src/mp4.rs), or follows the stream frame by frame                *)
(* (FramesSubscription, server/src/web/live.rs).                           *)
(***************************************************************************)
EXTENDS Capture, RecentFrames, Mp4File, SampleReader
LOCAL INSTANCE FiniteSetsExt
LOCAL INSTANCE SequencesExt
LOCAL INSTANCE TLC

CONSTANTS
  Offsets,            \* the relative times a request may name
  Kinds,              \* pairs of a file type and whether it has subtitles
  MaxChunks           \* bound: frames and gaps a live viewer is told of

ASSUME PlaybackAssumption ==
  /\ Offsets \subseteq Nat /\ MaxChunks \in Nat
  /\ Kinds \subseteq {"Normal", "MediaSegment"} \X BOOLEAN

VARIABLES
  recent,      \* RecentFrames: [frames, discarded, last_gop_i, total_sample_bytes]
  written,     \* the worker's position: writer::State::pos
  outrun,      \* ids of recordings that lost frames before they were written
  file,        \* the viewer's file, or NoFile
  sub          \* the live viewer: FramesSubscription and what it was told

watchVars == <<recent, written, outrun, file, sub>>
allVars == <<vars, watchVars>>

NoFile  == [type |-> "none"]
NoFrame == [num |-> 0, is_key |-> FALSE]

\* A live viewer: `pc` is where it is, `next` the subscription's next frame (0
\* for None), `gap` where it had been when it learnt that frames are gone.
\* `frame` is the frame it has in hand; `first`, `chunks` and `reported` are
\* history: the first frame it got, how many it got, and how many it was told
\* it missed.
NotLive == [pc |-> "off", next |-> 0, gap |-> 0, frame |-> NoFrame,
            first |-> 0, chunks |-> 0, reported |-> 0]

PlayInit ==
  /\ Init
  /\ recent = [frames |-> << >>, discarded |-> 0, last_gop_i |-> 0,
               total_sample_bytes |-> 0]
  /\ written = BytePos(0, 0)
  /\ outrun = {}
  /\ file = NoFile
  /\ sub \in {NotLive, [NotLive EXCEPT !.pc = "ready"]}

-----------------------------------------------------------------------------
(* RecentFrames, as it keeps its counts.                                   *)

PushBack(rf, frame) ==
  [rf EXCEPT
     !.last_gop_i = IF frame.is_key THEN Len(rf.frames) ELSE @,
     !.total_sample_bytes = @ + frame.len,
     !.frames = Append(@, frame)]

\* Mutation of Prune: the last group's index is left where it was.
PruneAndForget(rf, writer_pos) ==
  LET n == PruneCount(rf.frames, writer_pos)
      gone == SubSeq(rf.frames, 1, n)
  IN  [rf EXCEPT
         !.frames = SubSeq(@, n + 1, Len(@)), !.discarded = @ + n,
         !.total_sample_bytes = @ - TotalSampleBytes(gone)]

\* Whether the worker is still given the time to write a frame.
StillNeeded(rf, frame, writer_pos) ==
  /\ rf.total_sample_bytes <= BytesForWriter
  /\ Precedes(writer_pos, End(frame))

\* prune_front: one frame after another, up to one that is still needed.
Prune(rf, writer_pos) ==
  LET Drop(x, i) ==
        IF x.stopped \/ StillNeeded(x, Head(x.frames), writer_pos)
        THEN [x EXCEPT !.stopped = TRUE]
        ELSE [x EXCEPT !.total_sample_bytes = @ - Head(x.frames).len,
                       !.frames = Tail(@), !.count = @ + 1]
      x == FoldLeft(Drop, [frames |-> rf.frames, count |-> 0, stopped |-> FALSE,
                           total_sample_bytes |-> rf.total_sample_bytes],
                    [i \in 1..rf.last_gop_i |-> i])
  IN  [frames |-> x.frames, discarded |-> rf.discarded + x.count,
       last_gop_i |-> rf.last_gop_i - x.count,
       total_sample_bytes |-> x.total_sample_bytes]

\* The frame a step of the Writer pushes: the last of a recording that grew.
GrownIds == {id \in DOMAIN received' :
               id \notin DOMAIN received \/ Len(received'[id]) > Len(received[id])}

PushedFrame(id) ==
  LET frame == Last(received'[id])
      r     == recordings'[id]
  IN  [recording_id |-> id, is_key |-> frame.is_key, len |-> frame.bytes,
       sample_start |-> r.sample_file_bytes - frame.bytes,
       media_off_90k |-> [start |-> IF id \in DOMAIN recordings
                                    THEN recordings[id].media_duration_90k ELSE 0,
                          end |-> r.media_duration_90k]]

\* The stream goes on.
StreamStep ==
  /\ \/ \E data \in Data : OpenSession(data)
     \/ FirstFrame
     \/ NextFrame
     \/ SessionFails
  /\ IF GrownIds = {} THEN UNCHANGED <<recent, outrun>>
     ELSE \E pushed \in {PushBack(recent, PushedFrame(Max(GrownIds)))} :
          LET gone == SubSeq(pushed.frames, 1, PruneCount(pushed.frames, written))
          IN  /\ recent' = Prune(pushed, written)
              /\ outrun' = outrun \cup
                   {f.recording_id : f \in {g \in ToSet(gone) : Precedes(written, End(g))}}
  /\ UNCHANGED <<written, file, sub>>

\* The worker writes some of the frames, or gives up a recording of which some
\* are gone (prepare_write), and prunes.
WriterWrites ==
  /\ \/ /\ written.recording_id \in outrun
        /\ written' = BytePos(written.recording_id + 1, 0)
     \/ \E i \in DOMAIN recent.frames :
          LET frame == recent.frames[i]
          IN  /\ Precedes(written, End(frame)) /\ frame.recording_id \notin outrun
              /\ written' = End(frame)
  /\ recent' = Prune(recent, written')
  /\ UNCHANGED <<vars, outrun, file, sub>>

\* The length of a recording's sample file, while it is not given up.
FileLen(id) ==
  IF id < written.recording_id THEN recordings[id].sample_file_bytes
  ELSE IF id = written.recording_id THEN written.byte_pos
  ELSE 0

-----------------------------------------------------------------------------
(* Files.                                                                  *)

Row(id) == [id |-> id] @@ recordings[id]
Rows    == [id \in DOMAIN recordings |-> Row(id)]

\* `then` is history: the frames each recording had when the file was built.
Opened(b, start_at_key) ==
  Build(b, UnitsPerSec)
    @@ [start_at_key |-> start_at_key,
        then |-> [id \in DOMAIN received |-> Len(received[id])]]

Requests ==
  {[type |-> k[1], timestamps |-> k[2],
    first |-> ids[1], last |-> ids[2], start |-> t[1], end |-> t[2]] :
     k \in Kinds,
     ids \in {i \in (DOMAIN recordings) \X (DOMAIN recordings) : i[1] <= i[2]},
     t \in {u \in Offsets \X (Offsets \cup {NoEnd}) : u[1] <= u[2]}}

\* stream_view_mp4.
ViewFile(q) ==
  LET b == ViewBuilder(Rows, q, Len(ViewSteps(Rows, q)))
  IN  /\ sub.pc = "off" /\ file = NoFile
      /\ ~ViewFails(Rows, q)
      /\ ~BuildFails(b, UnitsPerSec)
      /\ file' = Opened(b, TRUE)
      /\ UNCHANGED <<vars, recent, written, outrun, sub>>

\* Segment::partition_range: what of a segment's bytes from..to is to be read
\* from the recording's file, and the parts of frames that are in memory.
PartitionRange(s, from, to) ==
  LET first  == from + s.file_begin
      last   == to + s.file_begin
      after  == IterFromBytePos(recent.frames, BytePos(s.id, first))
      Mine(f) == f.recording_id = s.id /\ f.sample_start < last
      memory == SelectSeq(after, Mine)
      held   == SumOf([i \in DOMAIN memory |-> memory[i].len])
      skip_at_end == LET f == Last(memory) IN f.sample_start + f.len - last
      kept   == held - skip_at_end
      skip_at_start == Max({0, first - (last - kept)})
      Part(i) == [sample_start |-> memory[i].sample_start,
                  from |-> IF i = 1 THEN skip_at_start ELSE 0,
                  to   |-> memory[i].len - (IF i = Len(memory) THEN skip_at_end ELSE 0)]
  IN  IF memory = << >> THEN [disk |-> <<first, last>>, memory |-> << >>, fits |-> TRUE]
      ELSE [disk   |-> <<first, last - (kept - skip_at_start)>>,
            memory |-> [i \in DOMAIN memory |-> Part(i)],
            fits   |-> skip_at_end >= 0]

-----------------------------------------------------------------------------
(* The live viewer.                                                        *)

\* Frames are numbered from 1; the window begins after the discarded ones.
Newest == recent.discarded + Len(recent.frames)
GopNum == recent.discarded + recent.last_gop_i + 1

Deliver(num) ==
  LET frame == recent.frames[num - recent.discarded]
  IN  sub' = [sub EXCEPT !.pc = "got", !.next = num + 1, !.chunks = @ + 1,
                         !.first = IF @ = 0 THEN num ELSE @,
                         !.frame = [num |-> num] @@ frame]

\* FramesSubscription::next.
SubNext ==
  /\ sub.pc = "ready"
  /\ recent.frames # << >>
  /\ sub.chunks + sub.reported < MaxChunks
  /\ \/ /\ sub.next = 0
        /\ recent.frames[recent.last_gop_i + 1].is_key
        /\ Deliver(GopNum)
     \/ /\ sub.next > recent.discarded /\ sub.next <= Newest
        /\ Deliver(sub.next)
     \/ /\ sub.next \in 1..recent.discarded
        /\ sub' = [sub EXCEPT !.pc = "dropped", !.next = recent.discarded + 1,
                              !.gap = sub.next]
  /\ UNCHANGED <<vars, recent, written, outrun, file>>

\* Mutation of Resumed: the viewer goes on with the oldest frame there is.
ResumedAtOldest == recent.discarded + 1

\* FramesSubscription::reset: where the viewer goes on.
Resumed == GopNum

\* Mutation of SubReset: only the frames that are gone are reported.
SubResetBehind ==
  /\ sub.pc = "dropped"
  /\ sub' = [sub EXCEPT !.pc = "ready", !.next = Resumed,
                        !.reported = @ + sub.next - sub.gap]
  /\ UNCHANGED <<vars, recent, written, outrun, file>>

\* The error is answered with a message of how many frames are missing.
SubReset ==
  /\ sub.pc = "dropped"
  /\ sub' = [sub EXCEPT !.pc = "ready", !.next = Resumed,
                        !.reported = @ + Resumed - sub.gap]
  /\ UNCHANGED <<vars, recent, written, outrun, file>>

\* stream_live_m4s_chunk: a file of the frame's own time range, from the
\* recording as it is listed now.
SubChunk ==
  LET id == sub.frame.recording_id
      b  == AppendSegment(NewBuilder("MediaSegment", FALSE), Row(id),
                          sub.frame.media_off_90k, FALSE)
  IN  /\ sub.pc = "got"
      /\ ~AppendFails(NewBuilder("MediaSegment", FALSE), Row(id),
                      sub.frame.media_off_90k)
      /\ file' = Opened(b, FALSE)
      /\ sub' = [sub EXCEPT !.pc = "sending"]
      /\ UNCHANGED <<vars, recent, written, outrun>>

SubSent ==
  /\ sub.pc = "sending"
  /\ file' = NoFile
  /\ sub' = [sub EXCEPT !.pc = "ready"]
  /\ UNCHANGED <<vars, recent, written, outrun>>

PlayNext ==
  \/ StreamStep
  \/ WriterWrites
  \/ \E q \in Requests : ViewFile(q)
  \/ SubNext
  \/ SubReset
  \/ SubChunk
  \/ SubSent

PlaySpec == PlayInit /\ [][PlayNext]_allVars
-----------------------------------------------------------------------------
(* Properties.                                                             *)

\* The counts RecentFrames keeps over pushes and prunes are those of the
\* frames it holds, and the frames follow each other, also from one recording
\* to the next (push_back's assertion).  Both are used as indexes: of the frame
\* a live viewer starts with, and of the bytes a reader finds in memory.
RecentIsExact ==
  LET frames == recent.frames
  IN  /\ recent.last_gop_i = LastGopI(frames)
      /\ recent.total_sample_bytes = TotalSampleBytes(frames)
      /\ \A i \in 2..Len(frames) :
           LET p == frames[i - 1]
               f == frames[i]
           IN  \/ /\ f.recording_id = p.recording_id
                  /\ f.sample_start = p.sample_start + p.len
                  /\ f.media_off_90k.start = p.media_off_90k.end
               \/ /\ f.recording_id = p.recording_id + 1
                  /\ f.sample_start = 0 /\ f.media_off_90k.start = 0

\* What a segment of the file should show: from the last frame at or before the
\* range's start with which it may begin, the frames that start before the
\* range's end; and when the range ends where the recording did, whatever the
\* recording had.
TimeOf(id, i) == received[id][i].pts - received[id][1].pts

FirstShown(s) ==
  Max({i \in 1..file.then[s.id] :
         /\ TimeOf(s.id, i) <= s.range.start
         /\ file.start_at_key => received[s.id][i].is_key})

LastShown(s) ==
  Max({FirstShown(s)} \cup
      {i \in 1..file.then[s.id] :
         TimeOf(s.id, i) < s.range.end \/ s.range.end = s.media_duration_90k})

FramesShown(s) == SubSeq(received[s.id], FirstShown(s), LastShown(s))

\* The tables of a file, read at any later time, describe those frames: their
\* sizes, their times, the last one cut at the range's end, and which are key
\* frames; and they have the lengths announced when the file was built (mp4.rs,
\* over a sample index that has grown since).
TablesDescribeFrames ==
  file # NoFile =>
    \A k \in DOMAIN file.segments :
      LET s      == file.segments[k]
          index  == recordings[s.id].index
          frames == FramesShown(s)
          begin  == FirstShown(s)
          before == SumOf([j \in 1..(k - 1) |-> Len(FramesShown(file.segments[j]))])
          runs   == Truns(s, index, Co64(file)[k])
          shown  == Joined([r \in DOMAIN runs |-> runs[r].samples])
          stts   == Stts(s, index)
          start  == Co64(file)[k]
      IN  /\ s.frames = Len(frames)
          /\ Stsz(s, index) = [i \in DOMAIN frames |-> frames[i].bytes]
          /\ \A i \in 1..(Len(frames) - 1) : stts[i] = frames[i + 1].pts - frames[i].pts
          /\ SumOf(stts) = s.range.end - TimeOf(s.id, begin)
          /\ Stss(s, index) = SelectSeq([i \in DOMAIN frames |-> before + i],
                                        LAMBDA n : frames[n - before].is_key)
          /\ Len(Stss(s, index)) = s.key_frames
          /\ TrunsWords(runs) = TrunsLen(s)
          /\ shown = [i \in DOMAIN frames |-> << stts[i], frames[i].bytes >>]
          /\ \A r \in DOMAIN runs :
               runs[r].offset = start
                 + SumOf([i \in 1..SumOf([q \in 1..(r - 1) |-> Len(runs[q].samples)])
                            |-> frames[i].bytes])

\* The offsets of a file lead to its frames: any one byte of a segment, and its
\* bytes from any one on, are one piece of the file's slices, and are read from
\* their place in the recording's file, first from disk, in chunks, and then,
\* without gap or overlap, from the window of recent frames.  What is looked for
\* on disk the worker has written there, however far behind it is, unless the
\* window dropped frames it had not written (Slices::get_range,
\* partition_range, open_file).
OffsetsLeadToFrames ==
  file # NoFile =>
    \A k \in DOMAIN file.segments :
      LET s      == file.segments[k]
          frames == FramesShown(s)
          bytes  == SumOf([i \in DOMAIN frames |-> frames[i].bytes])
          place  == SumBytes(SubSeq(received[s.id], 1, FirstShown(s) - 1))
          start  == Co64(file)[k]
      IN  \A from \in 0..(bytes - 1) : \A to \in {from + 1, bytes} :
            LET pieces == GetRange(file.slices, start + from, start + to)
                read   == PartitionRange(s, pieces[1].from, pieces[1].to)
                disk   == ReadFile(read.disk[1], read.disk[2], FileLen(s.id))
                memory == [i \in DOMAIN read.memory |->
                             << read.memory[i].sample_start + read.memory[i].from,
                                read.memory[i].sample_start + read.memory[i].to >>]
                parts  == disk.chunks \o memory
            IN  /\ Len(pieces) = 1 /\ pieces[1].slice.type = "VideoSampleData"
                /\ pieces[1].slice.p = k
                /\ read.fits
                /\ disk.ok \/ s.id \in outrun
                /\ disk.ok =>
                     /\ parts[1][1] = place + from /\ Last(parts)[2] = place + to
                     /\ \A i \in 2..Len(parts) : parts[i][1] = parts[i - 1][2]
                     /\ \A i \in DOMAIN parts : parts[i][1] <= parts[i][2]

\* The edit list of a file plays what was asked for and nothing else, of a media
\* track that must start at key frames; and the file's duration is what is
\* played, or all of the media where there are no edit lists
\* (maybe_append_video_edts, FileBuilder::build).
EditsSelectDesired ==
  file # NoFile =>
    LET Media_(s)  == s.range.end - TimeOf(s.id, FirstShown(s))
        Kept(s)    == s.range.end - s.range.start
        Before(k)  == SumOf([j \in 1..(k - 1) |-> Media_(file.segments[j])])
        Units(first, n) == [i \in 1..n |-> first + i]
        desired == Joined([k \in DOMAIN file.segments |->
                             LET s == file.segments[k]
                             IN  Units(Before(k) + Media_(s) - Kept(s), Kept(s))])
        edits   == EditList(file.segments)
        played  == IF edits = << >> THEN Units(0, Before(Len(file.segments) + 1))
                   ELSE Joined([i \in DOMAIN edits |->
                                  Units(edits[i].media_time, edits[i].segment_duration)])
    IN  IF file.type = "Normal"
        THEN played = desired /\ MediaDuration(file) = Len(desired)
        ELSE MediaDuration(file) = Before(Len(file.segments) + 1)

\* The chunk in hand is the frame the viewer was given; only the last chunk of
\* a recording may also have the frame of no length that ends it.
ChunkIsFrame ==
  sub.pc = "sending" =>
    LET s == file.segments[1]
        frames == FramesShown(s)
        num_of == SumOf([k \in 1..s.id |-> Len(received[k - 1])]) + FirstShown(s)
    IN  /\ sub.frame.num = num_of
        /\ Len(frames) = 1 \/ (Len(frames) = 2 /\ recordings[s.id].trailing_zero)

\* A live viewer accounts for the stream: each chunk is the frame it was given,
\* although it is built from the recording as listed some pushes later, and
\* every frame since the first is one it got or was told it missed
\* (FramesSubscription, stream_live_m4s_chunk).
LiveAccountsForFrames ==
  /\ ChunkIsFrame
  /\ sub.first > 0 =>
       (IF sub.pc = "dropped" THEN sub.gap ELSE sub.next) - sub.first
         = sub.chunks + sub.reported

\* A frame a live viewer gets is a key frame or the one after the last it got:
\* it can decode each (FramesSubscription).
LiveIsDecodable ==
  [][sub'.frame # sub.frame =>
       \/ sub'.frame.is_key
       \/ sub.frame.num > 0 /\ sub'.frame.num = sub.frame.num + 1]_allVars
=============================================================================

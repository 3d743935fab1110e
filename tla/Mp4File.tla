------------------------------ MODULE Mp4File ------------------------------
(***************************************************************************)
(* A virtual .mp4 file over parts of recordings, as operators              *)
(* (server/src/mp4.rs, server/src/slices.rs, server/src/web/view.rs).      *)
(*                                                                         *)
(*   - a builder collects segments and settles the length of every box;    *)
(*   - the contents of a box are made when they are asked for, from the    *)
(*     segment and the sample index as it is by then;                      *)
(*   - a file is a list of slices, of which any range of bytes can be read.*)
(*                                                                         *)
(* A row is a recording as list_recordings_by_id gives it, with its id and *)
(* its sample index.  Boxes of fixed contents are one byte long; a number  *)
(* in a table is one byte long as well.                                    *)
(***************************************************************************)
EXTENDS SampleIndex
LOCAL INSTANCE FiniteSetsExt
LOCAL INSTANCE SequencesExt
LOCAL INSTANCE Functions
LOCAL INSTANCE TLC

SumOf(seq) == FoldLeft(LAMBDA x, y : x + y, 0, seq)

\* What is left of a sequence of sequences when its brackets go.
Joined(seqs) == FoldLeft(LAMBDA x, y : x \o y, << >>, seqs)

-----------------------------------------------------------------------------
(* mp4::Segment.                                                           *)

Mp4Segment(row, range, first_frame_num, start_at_key) ==
  [id |-> row.id, start |-> row.start, range |-> range,
   wall_duration_90k |-> row.wall_duration_90k,
   media_duration_90k |-> row.media_duration_90k,
   video_sample_entry_id |-> row.video_sample_entry_id,
   first_frame_num |-> first_frame_num]
  @@ Segment(row, range, start_at_key)

Wall(s, media)  == Rescale(media, s.media_duration_90k, s.wall_duration_90k)
Media(s, wall)  == Rescale(wall, s.wall_duration_90k, s.media_duration_90k)
StartTime(s)    == s.start + Wall(s, s.range.start)
EndTime(s)      == s.start + Wall(s, s.range.end)

LastDuration(s, sample) == Min({s.range.end - sample.start_90k, sample.duration_90k})

\* The samples of a segment with the durations the file gives them.
Shown(s, index) ==
  LET samples == SegmentSamples(s, index)
  IN  [i \in DOMAIN samples |->
         IF i = Len(samples)
         THEN [samples[i] EXCEPT !.duration_90k = LastDuration(s, samples[i])]
         ELSE samples[i]]

Stts(s, index) == LET samples == Shown(s, index)
                  IN  [i \in DOMAIN samples |-> samples[i].duration_90k]
Stsz(s, index) == LET samples == Shown(s, index)
                  IN  [i \in DOMAIN samples |-> samples[i].bytes]
Stss(s, index) == LET samples == Shown(s, index)
                      keys == SelectSeq([i \in DOMAIN samples |-> i],
                                        LAMBDA i : samples[i].is_key)
                  IN  [i \in DOMAIN keys |-> s.first_frame_num + keys[i] - 1]

\* truns: a run begins at the first sample and at each key frame.
Truns(s, index, initial_pos) ==
  LET samples == Shown(s, index)
      Starts(i)   == i = 1 \/ samples[i].is_key
      begins      == SelectSeq([i \in DOMAIN samples |-> i], Starts)
      Stop(k)     == IF k = Len(begins) THEN Len(samples) ELSE begins[k + 1] - 1
      Offset(i)   == initial_pos + samples[i].pos - samples[1].pos
  IN  [k \in DOMAIN begins |->
         [is_key  |-> samples[begins[k]].is_key,
          offset  |-> Offset(begins[k]),
          samples |-> [j \in 1..(Stop(k) - begins[k] + 1) |->
                         LET x == samples[begins[k] + j - 1]
                         IN  << x.duration_90k, x.bytes >>]]]

\* The words a box of runs takes, and how many truns_len says it will take.
RunWords(run) == (IF run.is_key THEN 6 ELSE 5) + 2 * Len(run.samples)
TrunsWords(runs) == SumOf([k \in DOMAIN runs |-> RunWords(runs[k])])

\* Mutation of TrunsLen: a run that no key frame begins is forgotten.
TrunsLenOfKeys(s) == 6 * s.key_frames + 2 * s.frames

TrunsLen(s) ==
  6 * s.key_frames + 2 * s.frames + (IF s.starts_with_nonkey THEN 5 ELSE 0)

-----------------------------------------------------------------------------
(* FileBuilder.                                                            *)

NewBuilder(type, timestamps) ==
  [type |-> type, include_timestamp_subtitle_track |-> timestamps,
   segments |-> << >>, video_sample_entries |-> << >>, next_frame_num |-> 1]

\* A recording with a trailing frame of no length can only be the last.
AppendFails(b, row, range) ==
  \/ b.segments # << >> /\ Last(b.segments).trailing_zero
  \/ ~RangeIsValid(row, range)

AppendSegment(b, row, range, start_at_key) ==
  LET s == Mp4Segment(row, range, b.next_frame_num, start_at_key)
      entry == row.video_sample_entry_id
  IN  [b EXCEPT
         !.segments = Append(@, s),
         !.next_frame_num = @ + s.frames,
         !.video_sample_entries = IF entry \in ToSet(@) THEN @ ELSE Append(@, entry)]

\* The media time a segment adds: without edit lists, from its actual start.
MediaDuration(b) ==
  LET Added(s) == s.range.end - (IF b.type = "MediaSegment" THEN s.actual_start_90k
                                 ELSE s.range.start)
  IN  SumOf([i \in DOMAIN b.segments |-> Added(b.segments[i])])

\* Mutation of Skipped: a segment starts where it was asked to.
NothingSkipped(s) == 0

\* The media a segment starts with and nobody asked for.
Skipped(s) == s.range.start - s.actual_start_90k

\* maybe_append_video_edts: the ranges of the media that are to be played,
\* adjacent ones joined; empty for all of it.
EditList(segments) ==
  LET Step(acc, s) ==
        LET keep  == s.range.end - s.range.start
            at    == acc.cur_media_time + Skipped(s)
            u     == acc.unflushed
            joins == u.segment_duration + u.media_time = at
        IN  [cur_media_time |-> at + keep,
             flushed   |-> IF ~joins /\ u.segment_duration > 0
                           THEN Append(acc.flushed, u) ELSE acc.flushed,
             unflushed |-> IF joins THEN [u EXCEPT !.segment_duration = @ + keep]
                           ELSE [segment_duration |-> keep, media_time |-> at]]
      all == FoldLeft(Step, [flushed |-> << >>, cur_media_time |-> 0,
                             unflushed |-> [segment_duration |-> 0, media_time |-> 0]],
                      segments)
  IN  IF all.flushed = << >> /\ all.unflushed.media_time = 0 THEN << >>
      ELSE Append(all.flushed, all.unflushed)

-----------------------------------------------------------------------------
(* The timestamp subtitle track; U is the number of units in a second.     *)

CeilSecs(t, U) == (t + U - 1) \div U

\* How many subtitles build counts for a segment, and
\* get_subtitle_sample_data writes.
NumSubtitleSamples(s, U) == CeilSecs(EndTime(s), U) - (StartTime(s) \div U) + 1

\* append_subtitle_stts, for one segment: pairs of a count and a duration.
SubtitleStts(s, U) ==
  LET start == StartTime(s)
      end   == EndTime(s)
      start_next_sec == start + U - (start % U)
      end_prev_sec   == end - (end % U)
      first    == Media(s, start_next_sec - start)
      onesec   == Media(s, U)
      interior == (end_prev_sec - start_next_sec) \div U
      middle   == IF start_next_sec < end_prev_sec THEN << <<interior, onesec>> >>
                  ELSE << >>
      media_off == first + (IF middle = << >> THEN 0 ELSE onesec * interior)
      whole    == s.range.end - s.range.start
  IN  IF end <= start_next_sec THEN << <<1, whole>> >>
      ELSE << <<1, first>> >> \o middle \o << <<1, whole - media_off>> >>

-----------------------------------------------------------------------------
(* The slices of a file.                                                   *)

SliceOf(type, p, len) == [type |-> type, p |-> p, len |-> len]

\* Buffers and static strings in a row.
Fixed(len) == << SliceOf("Fixed", 0, len) >>

\* One slice for each segment.
PerSegment(b, type, LenOf(_)) ==
  [i \in DOMAIN b.segments |-> SliceOf(type, i, LenOf(b.segments[i]))]

MdatContents(b, U) ==
  PerSegment(b, "VideoSampleData", SegmentBytes)
  \o IF b.include_timestamp_subtitle_track
     THEN PerSegment(b, "SubtitleSampleData", LAMBDA s : NumSubtitleSamples(s, U))
     ELSE << >>

SubtitleTrak(b, U) ==
  IF ~b.include_timestamp_subtitle_track THEN 0
  ELSE 1 + SumOf([i \in DOMAIN b.segments |-> Len(SubtitleStts(b.segments[i], U))])

\* append_moov, with the tables of the video track.
Moov(b, U) ==
  Fixed(1 + Len(EditList(b.segments)))
  \o [i \in DOMAIN b.video_sample_entries |-> SliceOf("VideoSampleEntry", i, 1)]
  \o Fixed(1) \o PerSegment(b, "Stts", LAMBDA s : 2 * s.frames)
  \o Fixed(1 + Len(b.segments))            \* stsc
  \o PerSegment(b, "Stsz", LAMBDA s : s.frames)
  \o Fixed(1) \o << SliceOf("Co64", 0, Len(b.segments)) >>
  \o Fixed(1) \o PerSegment(b, "Stss", LAMBDA s : s.key_frames)
  \o Fixed(1 + SubtitleTrak(b, U))

Moof(b) == Fixed(1) \o PerSegment(b, "Truns", TrunsLen)

BeforeMdat(b, U) ==
  (IF b.type = "Normal" THEN Moov(b, U) ELSE Moof(b)) \o Fixed(1)

SliceLens(slices) == [i \in DOMAIN slices |-> slices[i].len]

\* build: the file, of which nothing but the layout is fixed by now.
Build(b, U) ==
  LET before == BeforeMdat(b, U)
  IN  b @@ [slices |-> before \o MdatContents(b, U),
            initial_sample_byte_pos |-> SumOf(SliceLens(before))]

\* No track without a sample entry, and no slice without contents.
BuildFails(b, U) ==
  \/ b.type = "Normal" /\ b.video_sample_entries = << >>
  \/ \E slice \in ToSet(Build(b, U).slices) : slice.len <= 0

\* Mutation of Co64: the offsets are those of whole recordings.
Co64OfRecordings(f) ==
  [i \in DOMAIN f.segments |->
     f.initial_sample_byte_pos
       + SumOf([j \in 1..(i - 1) |-> f.segments[j].file_end])]

\* get_co64: where each segment's data begins, which is its one chunk.
Co64(f) ==
  [i \in DOMAIN f.segments |->
     f.initial_sample_byte_pos
       + SumOf([j \in 1..(i - 1) |-> SegmentBytes(f.segments[j])])]

\* Slices::get_range: the slices a range of the file touches, in order, and of
\* each the part it covers.
GetRange(slices, first, last) ==
  LET begin == FoldLeft(LAMBDA ends, slice : Append(ends, Last(ends) + slice.len),
                        << 0 >>, slices)
      Touched(i) == begin[i + 1] > first /\ begin[i] < last
      order     == SelectSeq([i \in DOMAIN slices |-> i], Touched)
      Piece(i)  == [slice |-> slices[i],
                    from  |-> Max({first, begin[i]}) - begin[i],
                    to    |-> Min({last, begin[i + 1]}) - begin[i]]
  IN  IF first = last THEN << >> ELSE [k \in DOMAIN order |-> Piece(order[k])]

-----------------------------------------------------------------------------
(* /view.mp4 and /view.m4s: from a request to the builder.                 *)

NoEnd == 100000             \* no end time: i64::MAX

\* A request: recordings first..last, and times relative to the first's start,
\* with `end` NoEnd when absent.  `rows` are those listed, by id.
Requested(rows, q, i) ==
  LET off == SumOf([j \in 1..(i - q.first) |-> rows[q.first + j - 1].wall_duration_90k])
      wd  == rows[i].wall_duration_90k
      row == rows[i]
      start == Max({0, q.start - off})
      end   == Min({wd, q.end - off})
  IN  [row |-> row, wanted |-> q.start <= off + wd /\ off < q.end,
       range |-> [start |-> Rescale(start, wd, row.media_duration_90k),
                  end   |-> Rescale(end, wd, row.media_duration_90k)]]

ViewSteps(rows, q) ==
  SelectSeq([k \in 1..(q.last - q.first + 1) |-> Requested(rows, q, q.first + k - 1)],
            LAMBDA x : x.wanted)

\* The builder after the first n recordings it takes.
ViewBuilder(rows, q, n) ==
  FoldLeft(LAMBDA b, x : AppendSegment(b, x.row, x.range, TRUE),
           NewBuilder(q.type, q.timestamps), SubSeq(ViewSteps(rows, q), 1, n))

ViewFails(rows, q) ==
  LET steps == ViewSteps(rows, q)
      wall  == SumOf([k \in 1..(q.last - q.first + 1) |->
                        rows[q.first + k - 1].wall_duration_90k])
  IN  \/ q.timestamps /\ q.type = "MediaSegment"
      \/ q.end # NoEnd /\ q.end > wall
      \/ \E n \in DOMAIN steps :
           AppendFails(ViewBuilder(rows, q, n - 1), steps[n].row, steps[n].range)
=============================================================================

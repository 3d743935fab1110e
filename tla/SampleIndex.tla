----------------------------- MODULE SampleIndex -----------------------------
(***************************************************************************)
(* The sample index of a recording and views of parts of it, as operators  *)
(* (server/db/recording.rs, server/db/coding.rs).                          *)
(*                                                                         *)
(* An index is a sequence of pairs of numbers, one pair for each sample:   *)
(* the changes of duration and of size from the sample before it, packed   *)
(* as the code packs them.  The number of bytes each takes is left out.    *)
(***************************************************************************)
EXTENDS Integers, Sequences, FiniteSets
LOCAL INSTANCE FiniteSetsExt
LOCAL INSTANCE SequencesExt

-----------------------------------------------------------------------------

Zigzag(i)   == IF i >= 0 THEN 2 * i ELSE -2 * i - 1
Unzigzag(u) == IF u % 2 = 0 THEN u \div 2 ELSE -((u + 1) \div 2)

\* From an offset in wall time to one in media time, or back.
Rescale(off, from_duration, to_duration) ==
  IF from_duration = 0 THEN 0 ELSE (off * to_duration) \div from_duration

-----------------------------------------------------------------------------
(* SampleIndexEncoder: what it remembers, and the pair it appends.         *)

NewEncoder ==
  [prev_duration_90k |-> 0, prev_bytes_key |-> 0, prev_bytes_nonkey |-> 0]

PrevBytes(e, is_key) == IF is_key THEN e.prev_bytes_key ELSE e.prev_bytes_nonkey

Encoded(e, duration, bytes, is_key) ==
  << 2 * Zigzag(duration - e.prev_duration_90k) + (IF is_key THEN 1 ELSE 0),
     Zigzag(bytes - PrevBytes(e, is_key)) >>

\* Mutation of AfterSample: one size is remembered for both kinds of frame.
AfterAnySample(e, duration, bytes, is_key) ==
  [prev_duration_90k |-> duration, prev_bytes_key |-> bytes,
   prev_bytes_nonkey |-> bytes]

AfterSample(e, duration, bytes, is_key) ==
  [prev_duration_90k |-> duration,
   prev_bytes_key    |-> IF is_key THEN bytes ELSE e.prev_bytes_key,
   prev_bytes_nonkey |-> IF is_key THEN e.prev_bytes_nonkey ELSE bytes]

-----------------------------------------------------------------------------
(* SampleIndexIterator: the samples an index stands for, each with the     *)
(* place of its data in the file and its time in the recording.            *)

BeforeFirst == [pos |-> 0, start_90k |-> 0, duration_90k |-> 0, is_key |-> FALSE,
                bytes |-> 0, bytes_other |-> 0]

\* The iterator after one more pair.
NextSample(it, raw) ==
  LET is_key == raw[1] % 2 = 1
      same   == is_key = it.is_key
  IN  [pos          |-> it.pos + it.bytes,
       start_90k    |-> it.start_90k + it.duration_90k,
       duration_90k |-> it.duration_90k + Unzigzag(raw[1] \div 2),
       is_key       |-> is_key,
       bytes        |-> (IF same THEN it.bytes ELSE it.bytes_other)
                          + Unzigzag(raw[2]),
       bytes_other  |-> IF same THEN it.bytes_other ELSE it.bytes]

Samples(index) ==
  LET Step(its, raw) ==
        Append(its, NextSample(IF its = << >> THEN BeforeFirst ELSE Last(its), raw))
  IN  FoldLeft(Step, << >>, index)

\* The iterator meets no DataLoss error.
Readable(samples) ==
  \A i \in DOMAIN samples :
    /\ samples[i].duration_90k >= 0
    /\ samples[i].duration_90k = 0 => i = Len(samples)
    /\ samples[i].bytes > 0

-----------------------------------------------------------------------------
(* Segment: some or all of one recording.  A recording row is              *)
(* [id, index, media_duration_90k, sample_file_bytes, trailing_zero, ...]. *)

RangeIsValid(row, desired) ==
  desired.start <= desired.end /\ desired.end <= row.media_duration_90k

WholeSegment(row, samples) ==
  [begin |-> 0, file_begin |-> 0, file_end |-> row.sample_file_bytes,
   actual_start_90k |-> 0, frames |-> Len(samples),
   key_frames |-> Cardinality({i \in DOMAIN samples : samples[i].is_key}),
   starts_with_nonkey |-> FALSE, trailing_zero |-> row.trailing_zero]

\* A range to the end of the recording takes in a trailing frame of no length.
EndOfRange(row, desired) ==
  IF desired.end = row.media_duration_90k THEN row.media_duration_90k + 1
  ELSE desired.end

\* From the last acceptable sample at or before the desired start, to the
\* first one after it that starts at the desired end or later.
PartSegment(row, samples, desired, start_at_key) ==
  LET acceptable == {i \in DOMAIN samples :
                       /\ samples[i].start_90k <= desired.start
                       /\ start_at_key => samples[i].is_key}
      Begin(i)   == Max({j \in acceptable : j <= i})
      stops      == {i \in DOMAIN samples :
                       /\ samples[i].start_90k >= EndOfRange(row, desired)
                       /\ i > Begin(i)}
      stop       == IF stops = {} THEN Len(samples) + 1 ELSE Min(stops)
      begin      == Begin(stop)
      it         == IF stops = {} THEN Last(samples) ELSE samples[stop]
  IN  [begin |-> begin, file_begin |-> samples[begin].pos,
       file_end |-> IF stops = {} THEN it.pos + it.bytes ELSE it.pos,
       actual_start_90k |-> samples[begin].start_90k, frames |-> stop - begin,
       key_frames |-> Cardinality({i \in begin..(stop - 1) : samples[i].is_key}),
       starts_with_nonkey |-> ~samples[begin].is_key,
       trailing_zero |-> it.duration_90k = 0]

Segment(row, desired, start_at_key) ==
  LET samples == Samples(row.index)
  IN  IF desired = [start |-> 0, end |-> row.media_duration_90k]
      THEN WholeSegment(row, samples)
      ELSE PartSegment(row, samples, desired, start_at_key)

\* foreach: the samples of a segment, read from the index as it is now.
SegmentSamples(s, index) ==
  LET first == IF s.begin = 0 THEN 1 ELSE s.begin
  IN  SubSeq(Samples(index), first, first + s.frames - 1)

\* sample_file_range: how much of the file it covers.
SegmentBytes(s) == s.file_end - s.file_begin
=============================================================================

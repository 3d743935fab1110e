---------------------------- MODULE RecentFrames ----------------------------
(***************************************************************************)
(* The in-memory window of recent frames of one stream, as operators on a  *)
(* sequence of frames (server/db/stream/recent_frames.rs).                 *)
(*                                                                         *)
(* A frame is [recording_id, is_key, sample_start, len]: where its bytes   *)
(* lie in the recording file, without the bytes.  RecentFrames keeps       *)
(* `last_gop_i` and `total_sample_bytes` incrementally; here they are      *)
(* derived from the sequence.                                              *)
(***************************************************************************)
EXTENDS Naturals, Sequences, FiniteSetsExt, SequencesExt

CONSTANT BytesForWriter     \* BYTES_FOR_WRITER, 64 MiB in the program

ASSUME BytesForWriterAssumption == BytesForWriter \in Nat

-----------------------------------------------------------------------------
(* Byte positions, ordered by recording and then by offset in its file.    *)

BytePos(recording_id, byte_pos) ==
  [recording_id |-> recording_id, byte_pos |-> byte_pos]

Precedes(p, q) ==
  \/ p.recording_id < q.recording_id
  \/ p.recording_id = q.recording_id /\ p.byte_pos < q.byte_pos

End(f) == BytePos(f.recording_id, f.sample_start + f.len)

-----------------------------------------------------------------------------

\* Index, counted from 0, of the frame that starts the last group of pictures.
LastGopI(frames) ==
  LET keys == {i \in 1..Len(frames) : frames[i].is_key}
  IN  IF keys = {} THEN 0 ELSE Max(keys) - 1

TotalSampleBytes(frames) ==
  FoldSeq(LAMBDA f, sum : f.len + sum, 0, frames)

\* The number of frames prune_front drops: those before the last group of
\* pictures, up to the first that the writer has not fully written while the
\* frames still held fit the writer's budget.
PruneCount(frames, writer_pos) ==
  LET Needed(i) ==
        /\ TotalSampleBytes(SubSeq(frames, i, Len(frames))) <= BytesForWriter
        /\ Precedes(writer_pos, End(frames[i]))
      last_gop_i == LastGopI(frames)
  IN  Min({n \in 0..last_gop_i : n = last_gop_i \/ Needed(n + 1)})

PruneFront(frames, writer_pos) ==
  SubSeq(frames, PruneCount(frames, writer_pos) + 1, Len(frames))

\* The frames from the first that does not end at or before pos.
IterFromBytePos(frames, pos) ==
  LET ends_after == {i \in 1..Len(frames) : Precedes(pos, End(frames[i]))}
  IN  IF ends_after = {} THEN << >>
      ELSE SubSeq(frames, Min(ends_after), Len(frames))
=============================================================================

----------------------------- MODULE Aggregates -----------------------------
(***************************************************************************)
(* Listing a stream's recordings by time, and putting them together into   *)
(* batches of consecutive ones, as operators (list_recordings_by_time and  *)
(* list_aggregated_recordings of server/db/db.rs, with the SQL of          *)
(* server/db/raw.rs).                                                      *)
(*                                                                         *)
(* A recording here is a record of its row, with its id and the two flags  *)
(* `growing` and `uncommitted`.  The open that wrote it is left out: no    *)
(* run outlives one.                                                       *)
(***************************************************************************)
EXTENDS Integers, Sequences, FiniteSets
LOCAL INSTANCE FiniteSetsExt
LOCAL INSTANCE SequencesExt
LOCAL INSTANCE Functions
LOCAL INSTANCE TLC

EndOf(r) == r.start + r.wall_duration_90k

-----------------------------------------------------------------------------
(* list_recordings_by_time: rows by their start, then recent recordings by *)
(* their id.  An empty one is left out only when it is read from its row.  *)

\* The SQL looks back no further than a recording may last.
InTable(r, desired, max_duration) ==
  /\ r.start > desired.start - max_duration
  /\ r.start < desired.end
  /\ EndOf(r) > desired.start

InMemory(r, desired) == ~(r.start > desired.end \/ EndOf(r) < desired.start)

Earlier(r, s) == r.start < s.start \/ (r.start = s.start /\ r.id < s.id)

\* The recordings below id `recent` are read from the database.
ByTime(all, recent, desired, max_duration) ==
  SetToSortSeq({r \in all : r.id < recent /\ InTable(r, desired, max_duration)},
               Earlier)
  \o SetToSortSeq({r \in all : r.id >= recent /\ InMemory(r, desired)},
                  LAMBDA r, s : r.id < s.id)

-----------------------------------------------------------------------------
(* raw::get_range: the first start and the last end.  The rows are read    *)
(* from the last start back, until none can end later.                     *)

NoRange == [start |-> 0, end |-> 0]

RowRange(table, max_duration) ==
  IF table = {} THEN NoRange
  ELSE LET last == Max({r.start : r \in table})
       IN  [start |-> Min({r.start : r \in table}),
            end   |-> Max({EndOf(r) : r \in {r \in table :
                                             r.start > last - max_duration}})]

-----------------------------------------------------------------------------
(* list_aggregated_recordings.                                             *)

\* ListAggregatedRecordingsRow::from.
Batch(r) ==
  [time |-> [start |-> r.start, end |-> EndOf(r)],
   ids  |-> [start |-> r.id, end |-> r.id + 1],
   video_samples |-> r.video_samples, video_sync_samples |-> r.video_sync_samples,
   sample_file_bytes |-> r.sample_file_bytes,
   video_sample_entry_id |-> r.video_sample_entry_id,
   run_start_id |-> r.id - r.run_offset,
   first_uncommitted |-> IF r.uncommitted THEN {r.id} ELSE {},
   growing |-> r.growing, has_trailing_zero |-> r.trailing_zero]

NeedsFlush(a, r, forced_split) ==
  \/ a.ids.end # r.id
  \/ r.video_sample_entry_id # a.video_sample_entry_id
  \/ a.time.end - a.time.start + r.wall_duration_90k >= forced_split

Extended(a, r) ==
  [a EXCEPT !.time.end = @ + r.wall_duration_90k, !.ids.end = r.id + 1,
     !.video_samples = @ + r.video_samples,
     !.video_sync_samples = @ + r.video_sync_samples,
     !.sample_file_bytes = @ + r.sample_file_bytes,
     !.first_uncommitted = IF @ = {} /\ r.uncommitted THEN {r.id} ELSE @,
     !.growing = r.growing, !.has_trailing_zero = r.trailing_zero]

\* One more recording: `aggs` has the latest batch of each run, `done` those
\* already given to the caller; a recording that does not start where its
\* batch ends is an error.
Aggregated(state, r, forced_split) ==
  LET run  == r.id - r.run_offset
      a    == state.aggs[run]
      Set(b) == (run :> b) @@ state.aggs
  IN  IF ~state.ok THEN state
      ELSE IF run \notin DOMAIN state.aggs THEN [state EXCEPT !.aggs = Set(Batch(r))]
      ELSE IF NeedsFlush(a, r, forced_split)
           THEN [state EXCEPT !.done = Append(@, a), !.aggs = Set(Batch(r))]
      ELSE IF a.time.end # r.start THEN [state EXCEPT !.ok = FALSE]
      ELSE [state EXCEPT !.aggs = Set(Extended(a, r))]

\* The batches a listing is made of, the last one of each run at the end.
Aggregates(listed, forced_split) ==
  LET end == FoldLeft(LAMBDA state, r : Aggregated(state, r, forced_split),
                      [ok |-> TRUE, aggs |-> << >>, done |-> << >>], listed)
  IN  [ok |-> end.ok,
       batches |-> end.done \o SetToSeq({end.aggs[run] : run \in DOMAIN end.aggs})]
=============================================================================

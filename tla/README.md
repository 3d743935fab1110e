# Moonfire NVR: a formal model

TLA+ specifications of the recorder (the Rust crates under `server/`), checked
with TLC and, where noted, proved with TLAPS. Paths below are relative to
`server/`.

- [What the system is made of](#what-the-system-is-made-of)
- [Modules and how they correspond to the code](#modules-and-how-they-correspond-to-the-code)
- [What the runs check](#what-the-runs-check)
- [What is proved](#what-is-proved)
- [Where the code goes wrong](#where-the-code-goes-wrong)
- [What is not modelled](#what-is-not-modelled)
- [Plan](#plan)

## What the system is made of

Cameras send frames over RTSP. One *streamer* per stream pushes them through a
*Writer* into the *stream*'s memory; a worker of the *directory pool* copies
them into one sample file per recording; the *flusher* commits rows for
recordings whose files are durable, and moves the oldest rows to a garbage
table when space runs out; workers unlink the garbage. Web requests read
frames, rows and files.

| Component | State | Operations | Talks to | Hard part | What makes it correct |
|---|---|---|---|---|---|
| Recent frames (`db/stream/recent_frames.rs`) | frames held in memory, start of the last group of pictures, total bytes | `push_back`, `prune_front`, iterators | Writer, worker, live viewers | memory limit against what the worker has not written | a needed frame stays unless the limit forces it out |
| Stream (`db/stream/mod.rs`) | `recent_recordings`, `writer_state`, `complete`, `flush_ready`, `committed`, `to_delete`, `recent_recordings_pinned` | `add_recording`, `maybe_prune_recent_recordings`, `delete_until`, `FramesSubscription` | everyone, under its lock | four threads advance four counters | no recording vanishes, none is pruned while needed; a viewer is told what it missed |
| Writer (`db/writer.rs`) | the unfinished sample, the growing recording | `write`, `close`, drop | stream, pool (`wake`) | timestamps that go back; wall against media time; wake-ups | the index decodes to the frames; a run has no gap |
| Sample file writer (`db/dir/writer.rs`) | per stream: recording, bytes written, open file, `on_worker` | `wake`, `write_iter_prep`, `write_iter_step`, `abort`, `dec_write_streams` | stream lock, file system, pool lock, flusher | I/O with no lock held; errors; falling behind | file and recording agree; fsyncs before flush |
| Directory pool (`db/dir/mod.rs`) | `state`, `work`, `live_workers`, `active_workers`, `write_streams`, garbage sets | `open`, `complete_open_for_write`, `close`, `mark_deleted`, `collect_garbage`, `run`, `send`; the workers' loop | threads, condition variable | lost wake-ups, closing under an open file | counters exact, exclusive deletion, `close` returns |
| Flush (`db/db.rs`, `db/raw.rs`) | rows `recording`, `garbage`, `stream`, `open` | `flush`, `delete_oldest_recordings`, the SQL | stream locks, pool locks, SQLite | three lock scopes around a transaction; failure in the middle | rows stand for durable files; memory follows the database |
| Listing, playback (`db/db.rs`) | none; pins `recent_recordings` | `list_recordings_by_{time,id}`, `list_aggregated_recordings`, `with_recording_playback` | stream lock, SQLite | two sources read at two times | a listing is atomic; what is listed can be played |
| Flusher (`db/lifecycle.rs`) | planned flush, rotation | `iter`, `handle_notify`, `flush`, `lower_retention`, `initial_rotation`, `abandon` | notifications, timers, pool | retries, merging of plans, end of the process | whatever is ready is flushed in the end; the limit is kept |
| Directory opening (`db/db.rs`, `db/dir/mod.rs`) | metadata file, `open` and `sample_file_dir` rows | `open_sample_file_dirs`, `add_`, `delete_sample_file_dir` | pool, SQLite | crash between file and row | the next open accepts exactly what a crash can leave |
| Signals (`db/signal.rs`), days (`db/days.rs`) | points in time, dirty set; time per state and day | `update_signals`, `gc`, `flush`, `adjust` | flush, web | overlapping ranges | the last update wins at each instant |
| Users, sessions (`db/auth.rs`) | cached users and sessions, dirty flags | login, `authenticate_session`, `revoke_session`, `flush`, `post_flush` | flush, web | cache against table | a revoked session stays revoked |
| Sample entries (`db/sample_entries.rs`) | entries by id, which are flushed | `insert`, `flush`, `post_flush` | streamer, flush | a flush in three steps | an entry is stored before what refers to it |
| Sample index (`db/recording.rs`, `db/coding.rs`) | none | encoder, iterator, `Segment` | Writer, MP4 | boundaries | the iterator undoes the encoder |
| Streamer (`src/streamer.rs`, `src/stream.rs`) | session, rotation time, sample entry | `run`, `run_once` | camera, Writer, shutdown | rotation on key frames | each recording starts with a key frame |
| MP4 files (`src/mp4.rs`, `src/slices.rs`, `src/web/view.rs`) | segments, slices | builder, `get_range` | listing, playback, sample files | tables made later than their lengths, of a growing index | offsets and tables describe the frames asked for |
| Live view (`src/web/live.rs`) | a subscription | `next`, one chunk per frame | stream, MP4 | falling behind | starts, and resumes, at a frame it can decode |
| Shutdown (`base/shutdown.rs`) | wakers | `check`, `wait_for`, futures | everyone | register against drop | every waiter is woken |
| Commands (`src/cmds`), consistency check (`db/check.rs`) | none of their own | `config`, `login`, `check` | database, directories | run between two lives of the recorder | what is whole is kept |
| JSON, upgrades, UI | none of the recorder's own | | | | |

Two locks matter: the *database lock* (held by a flush and by a listing from
beginning to end) and the *stream lock* of each stream (released by both while
SQLite runs). A worker holds no lock while it does I/O. The pool has its own
lock, taken last.

## Modules and how they correspond to the code

| Module | Models | Kind |
|---|---|---|
| `RecentFrames` | `RecentFrames` and `BytePos` as operators on a sequence of frames | pure |
| `RecordingLife` | what a user may rely on: `none → live → kept → garbage → gone`, or `live → lost`, with the orders of `design/schema.md` | abstract specification |
| `Recordings`, `RecordingsProofs` | one stream from frame to garbage: Writer, stream, sample file writer, flusher's marks and retention, flush, garbage collection, crash and restart, the consistency check; theorems on its files and assertions | specification, proofs; implements `RecordingLife` |
| `ListRecordings`, `RecordingsFate` | listings and playback lookups on top of every behaviour of `Recordings`; theorems on listings and on what becomes of recordings | specification that extends `Recordings`, proofs |
| `DirPool`, `DirPoolProofs` | the pool's lifecycle, queue, condition variable, counters, and `wake`; theorems | specification, proofs |
| `Flusher`, `FlusherProofs` | the schedule of flushes for several streams: plans, retries, `await_idle`, the end of the program; theorems | specification, proofs |
| `DirOpen`, `DirOpenProofs` | directories between the database and their metadata file; theorems | specification, proofs |
| `Days` | indexes by calendar day | pure |
| `Signals`, `SignalsProofs` | points in time, their rows and their days; theorems | specification over `Days`, proofs |
| `Sessions`, `SessionsProofs` | users and sessions, in memory and in their tables; theorems | specification, proofs |
| `SetLemmas` | lemmas on `Min`, `Max` and sums over finite sets | proofs |
| `SampleIndex`, `Coding` | the sample index and segments; the bytes of numbers | pure |
| `Aggregates` | what a listing by time selects, and its batches | pure |
| `Capture` | from a camera to rows: streamer, Writer's time, sample entries | specification over `SampleIndex`, `Aggregates` |
| `Mp4File` | building and reading a virtual `.mp4` file | pure |
| `SampleReader` | reading a part of a sample file | pure |
| `Playback` | a stream of `Capture` with its window of frames, a file and a live viewer | specification that composes `Capture`, `RecentFrames`, `Mp4File`, `SampleReader` |
| `MC...` | instances for TLC | |

### Recordings

A step of the model is one hold of the stream lock, or one stretch of I/O with
no lock held; that is the granularity at which threads interleave.

- *Writer.* `PushAndMaybeClose` is one call of `InnerWriter::push`, with
  `InnerWriter::close` in the same lock scope where the code has it there. It
  appends the frame, prunes frames and recordings, and wakes the worker under
  the three conditions of the code. How a frame's timestamps lead to a close is
  left open here, and modelled in `Capture`.
- *Worker.* `Prep...` are the four outcomes `write_iter_prep` takes in; each
  ends in `Choose`, the rest of its loop up to the next I/O step. `WriteBytes`,
  `SyncFile`, `SyncDir`, `Abort` and the failures are `write_iter_step`. A
  failing fsync of the directory aborts the process in the code; in the model
  it is a `Crash`.
- *Flusher.* `HandleNotify` is `handle_notify` for this stream, with
  `EnqueueDelete`, the arithmetic of `enqueue_delete_recordings`: bytes are
  rounded up to blocks, those of recordings about to be inserted are added, and
  the oldest rows are queued until there is room. Its query may fail
  (`EnqueueFails`), which the code only logs; `overdue` is history and says that
  the last one did.
- *Flush.* `FlushCollect`, `FlushCommit`, `FlushApply` are the three scopes of
  `flush`, `FlushFails` an error of the transaction or an unexpected count. The
  flush may start at any time: the schedule is the flusher's.
- *Garbage.* `GcUnlink`, `GcSync`: `Worker::collect_garbage`, whose unlinks run
  with no lock. Several collectors may run.
- *Crash.* May happen at any point while the process runs. A directory entry
  that was created or unlinked since the last fsync of the directory (`pending`)
  may or may not survive; unsynced bytes do not. `Abandon` and
  `InitialRotation` are the steps of the next start, before the first streamer;
  the limit of the stream may have been changed in between.
- *Check.* `moonfire-nvr check` changes nothing unless asked to; what it finds
  is an operator (`Errors`, `rows_to_delete`) on the state a crash leaves.

Files, rows and the garbage table are separate variables so that each write to
stable storage is a step of its own. History variables: `removed` (ids a flush
has moved to garbage), `excused` (ids that met an I/O error, or lost frames to
the memory limit), `leaked` (ids whose file an abort failed to unlink, which the
code marks `XXX`).

### ListRecordings

`ListPin`, `ListQuery`, `ListUnpin` are the three parts of a listing. The
database lock keeps flushes out; the Writer, the worker and collectors go on.

### DirPool

A worker's place in `Worker::run` is the value of `worker[w]`: the command it
runs, `"finished"` (returned from a command, `active_now`), `"ready"`,
`"waiting"` on the condition variable, `"starting"`, or `"none"`. A stream is
reduced to whether its recording grows, how many are unfinished, whether the
pool holds its file, and where it is in `wake` and `write`. `wake` takes the
pool's lock up to three times (count, send, uncount) and these are three steps.
`send` queues its command under the lock (`Push`) and notifies after it has
released it (`Notify`): `notifying` is the set of threads in between, Writers,
which keep the stream's lock so that no worker writes for the stream yet, and
other `Callers`.
The condition variable has `notify_one`, `notify_all` and spurious wake-ups
(`std::sync::Condvar`).

`CreateReports` is there because `Worker::create` sends the error before it
sets the state back to `Closed`: the caller may run in between.

### Flusher

One action per branch of the biased `select!` in `Flusher::iter`, and the order
of the branches in their guards: `HandleNotify`, `HandleAwaitIdle`, `End`,
`HandleFlushed`, and the timer's `PlannedFlush` with its two other outcomes,
`PlannedFlushFails` and `PlannedFlushObsolete` (another flush completed after
the timer was taken). `handle_notify` is split between two modules: what it
marks and deletes is in `Recordings`, what it plans is here, for all streams at
once. A flush holds the database lock from beginning to end and only inserts
what the flusher has marked, so it is one step here.

`Tick` is one second; a plan's `when` counts down. Recordings begin and complete
at any time and last any number of seconds up to `MaxSec`. With `Prompt`, time
passes only when the flusher waits, which is the reading in which the
documentation's times make sense; without it, time passes at any point.
`OtherFlush` is a rotation's flush. `DropChannel` and `Exit` are the end of
`inner` and `run` in `src/cmds/run/mod.rs`: streamers end, pools close, the
channel is dropped, the flusher joined, the runtime shut down in the background.

### DirOpen

A directory is a path whose metadata file holds a uuid, the last complete open
and the one in progress; a row holds a uuid, a path and the last complete open.
`StageOne`, `StageTwo` and `MarkDeleted` are what workers do, `BeginOpen`,
`RecordOpen`, `Completed`, `BeginAdd`, `InsertRow`, `BeginDelete`, `RemoveRow`
what the callers do in between, under or between holds of the database lock.
`CheckConsistent` is `check_consistent`, `Openable` the state in which a start
would accept a directory. `Stop` may come between any two; a metadata file that
is being written for the first time may then be empty, one that is overwritten
has the old or the new contents, as the fixed length of 512 bytes is meant for.

### Signals and Days

One action per call under the database lock. `UpdateEnd`, `UpdateStart` and
`UpdateMiddle` are `update_signals`' three parts in their order, each with the
change of the days index it makes; `Collected` is `gc`; `Flush` writes the dirty
points, `Restart` loads them. `history` is the reference: what was set last at
each instant. Ids are any natural numbers; what the code does with 0 is its own
(finding 16). `Days` is over any set of midnights, so that days may differ in
length.

### Sessions

One action per handler. The tables and what memory has of them are separate
variables; `dirty` marks what only a flush writes. A disabled user, another
password or a deletion revokes sessions as the code does, some at once and some
when they are next used. `made` and `loggedOut` are history.

### Capture

`OpenSession`, `FirstFrame`, `NextFrame` and `SessionFails` are `run_once`:
frames arrive with any change of `pts` in `PtsSteps` and of local time in
`ClockSteps`, also none and backwards. `WriteSample` is `Writer::write` with
`adj_wall_and_start`, `adj_media_duration` and `close_recording`; a run starts
with each new session. Sample entries are flushed in the three steps of
`flush`, with the rows of recordings complete by then. `received` is history:
the frames as the camera sent them, against which the index is decoded.

### Mp4File, SampleReader and Playback

A file is built by `ViewFile` (`src/web/view.rs`) from the rows of that moment,
and stays while the recording grows, rotates and is written: its tables are
computed when a property reads them, from the index as it is by then, which is
what `Segment::index` does. One byte stands for a number in a table and for
each box of fixed contents. `PartitionRange` splits a range between disk and
window as of the moment of reading; `ReadFile` maps and copies the part on
disk, of which the worker has written `FileLen`. `WriterWrites` is the worker
of `Recordings` reduced to how far it has come. `SubNext`, `SubReset`,
`SubChunk`, `SubSent` are `FramesSubscription::next` and the loop of
`src/web/live.rs`, with a viewer that may be slow at any point.

## What the runs check

| Run | Instance | Distinct states | Shows |
|---|---|---|---|
| `recordings` | 3 recordings of up to 2 frames, memory for 2 bytes, limits of 5 and 6 bytes, 2 collectors, 1 fault | 285 thousand | `TypeOK`, `CommittedDurable`, `NoForgottenFile`, `NothingVanishes`, `NothingPanics`, `RetentionKept`, `ImplementsLife` |
| `listing` | 3 recordings of 1 frame, 1 fault | 338 thousand | `ListIsAtomic`, `PlaybackFindsListed` |
| `dir_pool` | 3 workers, 2 streams, 2 callers, 2 opens, symmetric | 1.28 million | `TypeOK`, `CountersBalanced`, `DeletionIsExclusive`, `ClosedIsQuiet`, `NoSleepOverWork`, `ClosuresFindTheirState` |
| `dir_pool_shutdown` | 2 workers, 2 streams, 1 caller, 1 open, Writers closed before the pool | 230 thousand | `CloseCompletes`, `WokenIsWritten` |
| `flusher` | 2 streams with `flush_if_sec` 0 and 2, 2 recordings of up to 2 seconds, 2 failed and 2 other flushes, a prompt flusher | 146 thousand | `TypeOK`, `PlanCoversReady`, `AnswerIsHonest`, `EndedHasExamined`, `UnflushedIsBounded`, `SyncedIsFlushed` |
| `dirs` | 2 paths, 2 directories, 3 opens, 1 fault, any number of stops | 128 thousand | `CrashLeavesOpenable`, `WritersAreRecorded` |
| `signals` | 2 signals of 2 and 3 states, one with id 0, 4 instants, 3 updates | 184 thousand | `HistoryKept`, `RestartKeepsHistory`, `DaysExactForSingles` |
| `sessions` | 2 names, 2 passwords, 2 users added, 1 session, 1 change of a counter | 38 thousand | `MemoryMirrorsTables`, `SessionsKeepTheirUser`, `LoggedOutStaysOut` |
| `capture` | 3 frames, 3 opens of the database, 2 sets of parameters | 534 thousand | `IndexIsFaithful`, `RunsAreContiguous`, `EntriesKept` |
| `playback` | 4 frames, memory for 3 bytes, 2 kinds of file, 4 chunks of live view | 133 thousand | `RecentIsExact`, `TablesDescribeFrames`, `OffsetsLeadToFrames`, `EditsSelectDesired`, `LiveAccountsForFrames`, `LiveIsDecodable` |
| `signals_days`, `check_command` | that of `signals` with ids 1 and 2 and no `max_signal_changes`; that of `recordings` with limits of 0 and 5 bytes | | what the code or its documentation promises and the code does not do, see [below](#where-the-code-goes-wrong) |

Two further checks are assumptions that TLC evaluates before a run: `CodingIsSound`
of `MCCapture` (each number reads back from its bytes, up to the first width
that overflows) and `DaysSplitRecordings` of `MCSignals` (`Map::adjust` spreads
a recording over its days, and taking it out undoes it).

### Properties

Recordings:

- `CommittedDurable`: a row stands for a file that exists, with the row's
  length, whose bytes and directory entry are both synced. Not true by any one
  step: it needs the order of two fsyncs, the flusher's mark, the flush, garbage
  collection's fsync and the garbage row, and the abandonment at start-up.
- `NoForgottenFile`: a file that exists, or that a crash could bring back, can
  be found again from a row, a garbage row, or the counter of ids; and the
  consistency check, given all files, finds nothing amiss.
- `NothingVanishes`: each recording id handed out stays in the database or in
  memory until retention deletes it, or an error or the memory limit excuses it.
- `NothingPanics`: the assertions, `expect`s and checked counts of the code hold
  at the states where they are evaluated.
- `RetentionKept`: after a flush that inserts, the table is within
  `retain_bytes`, or holds nothing but what was just inserted, unless the last
  `enqueue_delete_recordings` failed (finding 18); and the running totals tally
  with the table.
- `ImplementsLife`: every step is a step of `RecordingLife` or a stutter, under
  the mapping `Life` from rows, garbage and memory to the abstract state.
- `ListIsAtomic`: an action property. What a listing returns equals the
  recordings in existence when it ends.
- `PlaybackFindsListed`: the shortcut of `with_recording_playback` never misses
  a recording that a listing would show.

Threads and schedules:

- `CountersBalanced`: the pool's `write_streams`, `live_workers` and
  `active_workers` equal what they count, at every step of every thread.
- `DeletionIsExclusive`, `ClosedIsQuiet`: nothing touches a directory being
  deleted; a closed pool dropped no command and no open file.
- `NoSleepOverWork`: there are always as many workers on their way to the queue,
  with the notifications still to come, as commands in it, or nobody sleeps.
- `ClosuresFindTheirState`: the assertions inside queued closures hold.
- `CloseCompletes`, `WokenIsWritten`: shutdown and service.
- `PlanCoversReady`: whatever the flusher has examined and no flush has
  inserted has a plan that is not obsolete. Plans merge, fail, and are dropped
  in three places for being obsolete; none of them may drop one still needed.
- `AnswerIsHonest`: `await_idle`, on which the tests of the crates rely, returns
  only when what was synced at the call is inserted.
- `EndedHasExamined`: the channel's end is not seen before pending notifications.
- `UnflushedIsBounded`: the documented "at most *x* sec of completed but
  unflushed recordings per stream" (`db/json.rs:231`).
- `SyncedIsFlushed`: each synced recording is inserted, or the program stops.

Database and metadata:

- `CrashLeavesOpenable`: between any two writes of metadata or row, a start
  would accept the directory of each row. Excepted is a path that was added a
  second time, which the code does not notice.
- `WritersAreRecorded`: a pool takes recordings only when its row names its open
  and its metadata names it as the open in progress, and none as complete; and no
  two pools have one directory. This is what the code does, and not what its
  documents say of the two fields (finding 17).
- `HistoryKept`, `RestartKeepsHistory`: a listing of signals, or what a restart
  loads, is what was set last at each instant, but for the signal with id 0
  (finding 16), of which the rows only load; `gc` removes a prefix.
- `DaysExactForSingles`: the days index agrees with that, when each update names
  one signal. With two it does not (`UpdateDoesNotPanic`, run `signals_days`).
- `MemoryMirrorsTables`, `SessionsKeepTheirUser`, `LoggedOutStaysOut`: memory
  and tables differ by what is marked dirty and in nothing else; a reused user
  id inherits no session; no flush or restart revives a session.

Frames and files:

- `IndexIsFaithful`: the sample index decodes to the frames as received,
  whatever their timestamps.
- `RunsAreContiguous`: the recordings of a run join without gap or overlap, and
  a listing by time shows the run as one, whatever is in memory or on disk.
- `EntriesKept`: a recording's sample entry is stored no later than the
  recording, and is the one its frames were encoded with (but see finding 4).
- `RecentIsExact`: `last_gop_i`, `total_sample_bytes` and the count of discarded
  frames, kept incrementally, are those of the window.
- `TablesDescribeFrames`, `EditsSelectDesired`, `OffsetsLeadToFrames`: the
  tables of a file describe the frames of its segments whenever they are read;
  edit lists play what was asked for; any byte range leads to the frames' bytes,
  from disk up to what the window holds and from the window on, without gap.
- `LiveAccountsForFrames`, `LiveIsDecodable`: a viewer is given each frame, in
  order, or is told how many it missed, and starts, and resumes, at a key frame.

### Bounds and why they are enough

Each bound is a constant that guards name (`Max...`).

*Recordings.* Three recordings give one committed, one synced and one growing at
the same time, one pruned between two kept, and a deletion of a proper initial
run. Two frames and memory for two bytes let the worker fall behind within a
recording and across recordings, and write a part of what it prepared. Blocks of
2 bytes make a recording of one frame cost more than its bytes. Limits of 5 and
6 bytes: at 5 two rows fit, a third deletes the first and leaves the second, and
a flush that inserts three leaves only them; at 6 three fit exactly, and a start
may lower the limit from 6 to 5, which leaves a row to delete at once. One fault meets every step once. Two faults with recordings
of one frame were run once with the same result.

*Pool.* Three workers let one write, one sleep and one come for work; two
streams let the count of write streams go 0, 1, 2 and back while a third thread
closes; two opens let the first leave something behind for the second, also a
notification that comes after the pool was closed. For the liveness properties
one open and one caller are what TLC can do; what one open leaves to the next is
the safety run's.

*Flusher.* `flush_if_sec` of 0 and 2 makes one stream's flush bring the other's
forward; 2 seconds reach recordings as long as `flush_if_sec`, for which
`how_soon` is 0. Two recordings are one ready and one growing, or one in each
stream; three, with one fault and one other flush, were run once (822 thousand
states). `RetrySec` is 1 instead of 60: longer than "at once", so that a
notification can bring the retry forward.

*Directories.* Two directories on two paths give an open of two with a failure
in one of them, a path used again, and two rows of one path; three opens are one
complete, one interrupted, one that repairs.

*Signals.* Four instants and three updates give every order of three intervals'
ends, with touching and nested ones; a midnight inside. One signal has id 0, the
other not.

*Sessions.* Two users added with one name or two, and one session, reach a
reused id. A second session meets the same states as the first, as sessions
share nothing but their user.

*Capture.* Frames come with a step of 0, 1 or 3 units and local time that stands
still or jumps by a rotation interval; two units are a second, five the longest
recording, so that three frames reach every close: too long, backwards, end of
session, rotation. `Bits` and `Group` shrink the bytes of a varint.

*Playback.* Four frames are two recordings of two, or one of three and a new one;
memory for three bytes drops the frame of two while a viewer waits. Pages and
chunks of two bytes make a read start within a page and end within a chunk.
`Kinds` are a whole file with edit lists and a media segment without.

Deadlock is not checked in these runs except `capture`: with the bounds used up
the model may stop, and a pool that is closed for the last time is meant to.

### Fairness

In `FairSpec` of `DirPool`: weak fairness of each worker's own step, of a
Writer inside `wake`, of a sender about to notify, and of the creation of the
pool. These are threads that
are ready to run. No caller has to call, no frame has to arrive, and a sleeping
worker is woken by a notification only: spurious wake-ups are possible but not
fair. The calls that `CloseCompletes` needs, that Writers are closed before
the pools, are constant `JoinsFirst`, after `src/cmds/run/mod.rs:425-433`.

In `FairSpec` of `Flusher`: weak fairness of the loop's own step, a task that
tokio polls when it is ready, and of the clock. Nobody has to record, call or
drop the channel. Failures are bounded by `MaxFaults`, so a flush succeeds in
the end; that a failing disk recovers is assumed, not shown.

## What is proved

TLC checks one small instance of each specification; the theorems hold for every
value of the constants that the module's named assumption allows (`...Assumption`,
which TLC evaluates in each run). The assumptions say only that bounds are
natural numbers, sizes positive, and that threads, and the pool's streams and
callers, are finite sets. The bounds themselves are any numbers, so that a theorem speaks of
any number of recordings, frames, faults, opens and restarts.

No property is inductive alone. Each module of proofs names an inductive
invariant, in parts, and has a lemma for what each action may disturb. Where the
invariant comes in layers, a layer is inductive given those below it, and the
temporal step combines them.

| Module | Theorem | States | From |
|---|---|---|---|
| `RecordingsProofs` | `InvHolds` | `Spec => []Inv` | |
| | `RowsAreDurable` | `CommittedDurable` | `Inv` |
| | `NeverPanics` | `NothingPanics` | `Inv`, `Sound` |
| | `FilesAreNotForgotten` | `NoForgottenFile` | `Inv`, `FilesKnown` |
| `RecordingsFate` | `RecordingsLiveAsPromised` | `ImplementsLife` | `Inv`, `Tracked` |
| | `RecordingsDoNotVanish` | `NothingVanishes` | `Inv`, `FilesKnown`, `Kept` |
| | `RetentionIsKept` | `RetentionKept` | `Inv`, `Sound`, `Retained` |
| | `TypesHold` | `TypeOK` | `Inv`, `Retained`, `Remembered` |
| | `PlaybackFindsWhatIsListed` | `PlaybackFindsListed` | `Inv` |
| | `ListingsAreAtomic` | `ListIsAtomic` | `Inv`, `Tracked`, `RowsAlive`, `Lists` |
| `DirPoolProofs` | `TypeCorrect`, `CountersStayBalanced` | `TypeOK`, `CountersBalanced` | shape, balance |
| | `DeletionsAreExclusive`, `ClosedPoolsAreQuiet` | `DeletionIsExclusive`, `ClosedIsQuiet` | and exclusion |
| | `ClosuresFindState` | `ClosuresFindTheirState` | and `Expected` |
| | `NobodySleepsOverWork` | `NoSleepOverWork` | itself, given types, exclusion, `Expected` |
| `FlusherProofs` | `TypeCorrect` | `TypeOK` | itself |
| | `ReadyIsPlanned`, `AnswersAreHonest`, `NothingLeftUnexamined` | `PlanCoversReady`, `AnswerIsHonest`, `EndedHasExamined` | `Plans` |
| | `UnflushedStaysBounded` | `UnflushedIsBounded` | `Plans`, `Bounded` |
| `SignalsProofs` | `HistoryIsKept`, `HistoryOutlivesTheProcess` | `HistoryKept`, `RestartKeepsHistory` | `Inv` |
| `SessionsProofs` | `SessionsStayWithTheirUser`, `LoggedOutForGood`, `MemoryMirrors` | `SessionsKeepTheirUser`, `LoggedOutStaysOut`, `MemoryMirrorsTables` | `Inv` |
| `DirOpenProofs` | `NothingLeftUnopenable`, `WritersAreKnown` | `CrashLeavesOpenable`, `WritersAreRecorded` | `Inv` |

*Recordings.* Writer, worker, flusher, flush and collectors each change a part of
the stream under its lock and count on what the others may not do meanwhile.
`Inv` is what they count on: `Window` (recent recordings have consecutive ids
and the frames end where the last of them does), `Working` (the file at hand has
the bytes the worker wrote, and what it has passed is synced unless given up),
`Flushing` (a flush collects only what the worker has synced and passed; rows,
garbage and the queue of deletions are apart), `Stopped`. `CommittedDurable` is
a conjunct of `Flushing`, but a row is durable only because the flush collected
what was synced, which was synced only because the worker's position is one of
the recent recordings. The assertions need more: `Sound` adds that no prune,
of frames or of recordings, overtakes the worker (`Order`), that the counters do
not underflow (`Counters`) and that the rows queued are the oldest ones, also
after a failed flush (`QueuedOldest`). `FilesKnown` follows a file from the
worker that creates it to the row, the garbage row or the failed unlink from
which it can be found.

*Refinement.* `RecordingsLiveAsPromised` is the refinement in full: initial states
map to initial states of `RecordingLife`, and each step of the detailed
specification is one of its steps under the mapping `Life`, or a stutter. It
needs `Tracked`: what a flush has removed stays removed, and no flush passes
over a recording that is alive, which is why rows are inserted without a gap.

*Retention.* `Retained` sums over the table: the running totals equal the sums
over the rows, or lag behind by the one flush whose third scope is still to
come; and with what waits for the next flush, the rows that are not queued for
deletion fit the limit, or none is left, unless the last choice of what to delete
failed (`overdue`, in `Room` and `Lagging`). That this survives a recording aborted,
a flush failed and a limit lowered between two starts is what makes it hold for
`RetentionKept`.

*Listings.* While a listing runs no flush does, so that rows stay; the Writer and
the worker go on. `Lists` says that the recent recordings, pinned, still begin no
later than where the query ends (`FirstRecent`); with `RowsAlive`, what the two
parts return together is what exists. Without the
pin a prune would move `FirstRecent` past that end.

*Pool.* First *shape*: types, and that a stream's place agrees with the queue and
with the one worker that runs it. Then *balance*: each step adds, removes or
keeps one active stream or one busy worker, and changes the counter likewise.
Then *exclusion*: with exact counters, `mark_deleted`'s test for quiescence
means what it says. `Expected`: at most one command that asserts a state exists,
in the queue or on a worker, and only in that state. `NoSleepOverWork` is
inductive given these: each push but that of the deletion adds a sender that will
notify, the notification adds a worker on its way, and one that leaves the queue
for the condition variable has seen it empty.

*Flusher.* `Plans` is `PlanCoversReady`, `Announced` (what is synced is ready,
inserted, or a notification is pending), `EndsLast` (an ended flusher has no
notification pending) and `Covered` (what a caller of `await_idle` is owed).
`AnswerIsHonest` needs all four: a plan may be dropped with its senders only
because an obsolete plan covers nothing. `Bounded` is about seconds: what has
not been inserted, with the growing recording, and the time the plan still has
to wait, stay within `flush_if_sec`; it takes `Fresh`, that a recording the
flusher has yet to examine began no later than those after it.

*Signals.* A point repeats the state before it, and a row does not. What both say
of a signal at a time is `RowState`, the last change before it. `Consistent`:
each point's state is that of the last changes; `Told`: these give the history;
`Stored`: rows give the history as of the last flush; all three are about
`KeptSignals`, which is each signal but the one with id 0. `Written`: rows and
points make the same changes except at dirty times; `Ended`: a state other than 0
is changed later; `Loads`: in the rows each signal ends in state 0, for which a
restart asks; these hold of any id. An update is the
composition of three edits of the map; each has a lemma saying which changes it
makes (`ChangesMade`), from which the last change before any instant follows.
`UpdateDoesNotPanic` is false (see below) and `Inv` does not mention the days.

*Sessions.* `UsersOK` and `SessionsOK` say what the tables hold, what memory
holds and how they relate; that a session's user is the one it was made for
(`born`) needs that a deletion takes the sessions with the user.

*Directories.* A pool holds its directory's lock from stage 1 on (`Exclusive`),
so that nobody rewrites the metadata between a pool's two writes and it goes on
naming the present open (`Named`), after the second write as the open in progress
(`Rewritten`).

`SetLemmas` has what the provers do not know of `Min`, `Max` and sums: that a
least element exists, from the well-foundedness of the natural numbers, and that
the function `MapThenSumSet` chooses exists and adds one element at a time
(`TotalsExist`, `TotalsStep`), from the absence of a minimal counterexample.

### Only model-checked

- *Liveness*: `CloseCompletes`, `WokenIsWritten`, `SyncedIsFlushed`. Fairness and
  `ENABLED` are beyond the prover.
- *What is computed along a sequence*: `IndexIsFaithful`, `RunsAreContiguous`,
  `EntriesKept` of `Capture`, and the properties of `Playback` (tables, edits,
  offsets, the window, the viewer) compare what recursive functions and folds
  make of whole sequences of bytes, samples and frames with a reference: an
  induction over data for each function, which the provers cannot apply.
- `DaysExactForSingles`: the days fold `Map::adjust` over the stretches of an
  update, in order.
- `CodingIsSound`, `DaysSplitRecordings`: evaluated over bounded inputs.

## Where the code goes wrong

With a run that shows it:

1. `signals_days`. `update_signals_middle` (`db/signal.rs:587`) sets `prev_t`
   inside the loop over signals, so that of two signals in one update only the
   first has its days adjusted for the stretch before each point. A later update
   takes from a day what was never added, and `db/days.rs:124` panics, with the
   database lock held, in a program built to abort on panics.
2. `check_command`. `db/check.rs:85` and `db/check.rs:116` declare two variables
   `dirs_by_id`. The inventory goes into the inner one; the comparison reads the
   outer one, which is empty. Every row is reported as missing its file, and
   `moonfire-nvr check --delete-orphan-rows` deletes all rows.

Seen while modelling, and kept in the model as the code has it:

3. *Two locks, one comment.* `flush_ready` (`db/stream/mod.rs:138`) is said to
   lie between `committed` and `writer_state.recording_id`. When a growing
   recording is aborted, the latter moves past `complete`, and after a start it
   is 0. We found nothing that relies on it.
4. *A stale sample entry.* A key frame that passes the rotation time and also
   brings new parameters rotates without the new entry (`src/streamer.rs:199`):
   the recording names the previous one. `EntriesKept` says what holds then.
5. *A limit met exactly.* The schema (`db/schema.sql:159`) wants
   `wall_duration_90k` below five minutes; the Writer (`db/writer.rs:223`, `249`)
   lets it be exactly that. Each later flush fails on such a row.
6. *Wake-ups on closing.* The comment at `db/dir/mod.rs:163` asks that workers be
   notified when `write_streams` drops to 0 while the pool closes; `wake`
   (`db/dir/writer.rs:80`) drops it without. `close` then never returns. The
   program's own shutdown ends streamers first (`dir_pool_shutdown`).
   `mark_deleted` (`db/dir/mod.rs:640`) likewise queues its command without a
   notification: the pool stays in `Deleting` until another command comes.
7. *A failed second stage.* If the metadata cannot be written
   (`db/dir/mod.rs:503-514`), the pool stays in `OpeningStage2`; only a restart
   recovers it. `CrashLeavesOpenable` is about that restart, and no property about
   the pool until then.
8. *`flush_if_sec`.* `db/json.rs:226-229` promises at most one flush in that many
   seconds; `handle_notify` (`db/lifecycle.rs:227`) counts from the start of a
   recording, so one that began before a flush may bring the next at once.
9. *Persisting at the end.* `db/lifecycle.rs:34-36` has the flusher joined "to
    allow all recordings to be persisted". It ends without a flush, which is left
    to `Drop` of the database; the exit of the process need not wait for that.
10. *Bytes to free.* `fs_bytes_to_add` (`db/stream/mod.rs:347`) counts aborted
    recordings, and `enqueue_delete_recordings` compares with `>=`: one recording
    more than needed may go. `RetentionKept` is about the other direction.
11. *A user without a password.* `auth.rs:824-827` unwraps the hash of each
    dirty user for a log line. A wrong password makes a user dirty; if the
    password is then removed, the next flush panics (`FlushPanics` of
    `Sessions`).
12. *Cumulative durations.* `db/db.rs:771-772` adds the wall duration to
    `cum_media_duration_90k`, against `db/schema.sql:92`.
13. *Empty recordings.* `db/db.rs:1018` says they are omitted; the filter on
    memory (`db/db.rs:1065`) includes one at the range's start.
14. *MP4 files*. `src/mp4.rs:972` tests `row.open_id == 0` where the meaning
    asks for the first recording of a run. A segment that ends before its
    recording does takes `trailing_zero` from the first frame after it, so that a
    file that continues with another recording may be refused.
    `src/web/view.rs:122` compares with `<=` and adds an empty segment where a
    range starts at the end of a recording. `num_subtitle_samples`
    (`src/mp4.rs:1058`) is one more than `stts` lists when the segment does not
    end on a whole second, and the last duration of `stts` (`1639`) can be −1 by
    rounding, which panics. A live chunk for the last frame but one of a recording
    that ends in a frame without duration contains both. The properties of
    `Playback` say what holds with these.
15. *Points of unknown states.* The comment at `points_by_time`
    (`db/signal.rs:31-33`) and `debug_assert_point_invariants` (`806`) want the
    state before each point to be the map that the previous one leaves. Setting a
    signal to unknown where it is unknown already is valid, and
    `update_signals_end_maps` (`469-473`) writes it into the map all the same: a
    build with debug assertions panics. Read as states, with a signal that is
    left out in state 0, the two agree (`Consistent` of `SignalsProofs`), so that
    in a release build a point that changes nothing is the only trace.
16. *Signal 0.* The schema (`db/schema.sql:393`) and `update_signals_validate`
    (`db/signal.rs:346`) allow a signal the id 0, and the rest of the code treats
    it as any other. `update_signals_start` does not: at a point that exists and
    does not name the signal, `if signal != 0` (`515`) leaves its new state out
    and does not mark the point as dirty, so that the update is lost in memory
    and in the rows. The guard was perhaps meant for `state`. `HistoryKept`,
    `RestartKeepsHistory` and `DaysExactForSingles` leave this signal out.
17. *Two fields the other way round.* By `db/proto/schema.proto:51-60` an open in
    progress has written no data, and by `design/schema.md:403-404` opening a
    directory ends by moving it to `last_complete_open`; deleting one
    (`417-418`, and `db/dir/mod.rs:246-247`) names the open as in progress and
    clears `last_complete_open`. The code does the reverse of each:
    `complete_open_for_write` (`db/dir/mod.rs:511`) writes `in_progress_open`, so
    that `last_complete_open` is unset while the directory is used and after, and
    `mark_deleted` (`601`) sets `last_complete_open`. As `check_consistent` takes
    either field where the row names an open, starts are not affected
    (`CrashLeavesOpenable`), but the check for a directory that is new to the
    database is: it asks only that `last_complete_open` be unset. It therefore
    accepts a path in use by another row whose pool is closed and whose files are
    gone (which is what `CrashLeavesOpenable` excepts, as `claimed`), and refuses
    a path whose directory was properly deleted.
18. *Room that was not made.* `handle_notify` advances `flush_ready`
    (`db/lifecycle.rs:209`) before it calls `enqueue_delete_recordings`, and only
    logs its error (`257-260`). The recordings are ready all the same and are not
    looked at again: the flush inserts them with nothing queued for deletion, and
    the table exceeds `retain_bytes` until a later recording of the stream becomes
    ready and the call succeeds.

## What is not modelled

`PROJECT.json` has a reason for each component. In short:

- *Shutdown signalling* (`base/shutdown.rs`): wakers in a slab under one lock.
  Its effects, who stops before whom, are in `DirPool` and `Flusher`.
- *`lower_retention` while streams run*: another flush with deletions; rotation
  at start-up is modelled.
- *A reader dropped early*, and the *listing of a directory*
  (`db/dir/scan.rs`): I/O without state.
- *Cameras and settings*: rows edited in a transaction and mirrored afterwards.
- *Permissions, cookies, JSON, routing, static files, the UI, the command line*:
  no state that outlives a call.
- *Schema upgrades*: sequential conversions, offline.
- *MP4 boxes of fixed contents, names, etags; parsing of H.264*: formatting.
- *More than one stream in a flush*: in `Flusher` only; in `Recordings` streams
  would share nothing but the transaction.

## Plan

1. Proofs: the indexes of days in `Signals` for updates of one signal, and
   `RecentIsExact` of `Playback`, whose sums are over sets or sequences that
   change at one end.
2. `Shutdown`: registration of wakers against the drop of the sender.
3. `lower_retention` as an action of `Recordings`, with limits that change while
   a recording grows.
4. Early drop of a reader, in `DirPool`.

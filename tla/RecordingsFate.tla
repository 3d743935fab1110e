--------------------------- MODULE RecordingsFate ---------------------------
(***************************************************************************)
(* What becomes of recordings and of the room they take: ImplementsLife,   *)
(* NothingVanishes, RetentionKept and, on the way, TypeOK of module        *)
(* Recordings; and what listings say of them: PlaybackFindsListed and      *)
(* ListIsAtomic of ListRecordings.  Each but the lookup takes an invariant *)
(* of its own, inductive relative to those of RecordingsProofs:            *)
(*                                                                         *)
(*   Tracked     what a flush removed from the table stays out of it, and  *)
(*               no flush passes over a recording that is alive            *)
(*   Kept        frames are held until they are in the file, recordings    *)
(*               until they are committed, but for those that an I/O error *)
(*               or a worker that fell behind excuses                      *)
(*   Retained    the byte counters tally with the table, or lag behind it  *)
(*               by one flush; with what waits for the next flush, the     *)
(*               rows not queued fit the limit, or none is left; and a     *)
(*               flush inserts just what was waiting when it began         *)
(*   Remembered  the types of what no other invariant speaks of            *)
(*   RowsAlive   a recent recording that has a row is not marked deleted   *)
(*   Lists       what a listing in progress has read is as it was when it  *)
(*               began, and what it has yet to read is still there         *)
(***************************************************************************)
EXTENDS ListRecordings, RecordingsProofs, SequenceTheorems

-----------------------------------------------------------------------------
(* The refinement: each step of the stream, the worker, the flush, the     *)
(* collectors or a crash is one of RecordingLife, or a stutter.            *)

Recorded(id) == id \in DOMAIN row \cup removed

\* Garbage is what a flush removed from the table.
Removal ==
  /\ garbage \subseteq removed
  /\ removed \cap DOMAIN row = {}
  /\ removed \subseteq 0..(cum_recordings - 1)

\* No flush passed over a recording that is alive, and the last one it
\* counted is one it inserted.
NothingSkipped ==
  /\ \A id \in Ids : Alive(id) /\ id < cum_recordings => Recorded(id)
  /\ cum_recordings > 0 => Recorded(cum_recordings - 1)

CollectedAlive ==
  flush.pc = "Collected" =>
    /\ \A id \in DOMAIN flush.new : Alive(id)
    /\ flush.cum # NoId =>
         /\ flush.cum - 1 \in DOMAIN flush.new
         /\ \A id \in committed..(flush.cum - 1) : Alive(id) => id \in DOMAIN flush.new

Tracked == Removal /\ NothingSkipped /\ CollectedAlive

-----------------------------------------------------------------------------
(* Steps of RecordingLife, in terms of Life.                               *)

LEMMA LosingIsAStep ==
  ASSUME \A id \in Ids : Life(id)' = Life(id) \/ (Life(id) = "live" /\ Life(id)' = "lost")
  PROVE  Abstract!Next
<1>1. Abstract!Lose
  BY DEF Abstract!Lose, Abstract!Changed, Abstract!Moved
<1>2. [id \in Ids |-> Life(id)]' \in [Ids -> Abstract!States]
  BY DEF Life, Abstract!States
<1> QED BY <1>1, <1>2 DEF Abstract!Next

LEMMA BeginningIsAStep ==
  ASSUME NEW new \in Ids, Life(new) = "none", Life(new)' = "live",
         \A id \in Ids : id < new => Life(id) # "none",
         \A id \in Ids : id # new =>
           Life(id)' = Life(id) \/ (Life(id) = "live" /\ Life(id)' = "lost")
  PROVE  Abstract!Next
<1>1. Abstract!Begin
  <2>1. new \in Abstract!Moved("none", "live")
    BY DEF Abstract!Moved
  <2>2. Abstract!Before({new}) \cap Abstract!In("none") = {}
    BY DEF Abstract!Before, Abstract!In
  <2>3. Abstract!Changed = {new} \cup Abstract!Moved("live", "lost")
    BY DEF Abstract!Changed, Abstract!Moved
  <2> QED BY <2>1, <2>2, <2>3 DEF Abstract!Begin
<1>2. [id \in Ids |-> Life(id)]' \in [Ids -> Abstract!States]
  BY DEF Life, Abstract!States
<1> QED BY <1>1, <1>2 DEF Abstract!Next

LEMMA CommittingIsAStep ==
  ASSUME NEW new \in SUBSET Ids, NEW old \in SUBSET Ids, NEW forgotten \in SUBSET Ids,
         \A id \in new : Life(id) = "live" /\ Life(id)' = "kept",
         \A id \in old : Life(id) = "kept" /\ Life(id)' = "garbage",
         \A id \in forgotten : Life(id) = "garbage" /\ Life(id)' = "gone",
         \A id \in Ids \ (new \cup old \cup forgotten) : Life(id)' = Life(id),
         \A id \in Ids, n \in new : id < n /\ Life(id) = "live" => id \in new,
         \A id \in Ids, o \in old : id < o /\ Life(id) = "kept" => id \in old
  PROVE  Abstract!Next
<1>1. /\ Abstract!Moved("live", "kept") = new
      /\ Abstract!Moved("kept", "garbage") = old
      /\ Abstract!Moved("garbage", "gone") = forgotten
  BY DEF Abstract!Moved
<1>2. Abstract!Changed = new \cup old \cup forgotten
  BY DEF Abstract!Changed
<1>3. Abstract!Before(new) \cap Abstract!In("live") \subseteq new
  BY DEF Abstract!Before, Abstract!In
<1>4. Abstract!Before(old) \cap Abstract!In("kept") \subseteq old
  BY DEF Abstract!Before, Abstract!In
<1>5. Abstract!Commit
  BY <1>1, <1>2, <1>3, <1>4 DEF Abstract!Commit
<1>6. [id \in Ids |-> Life(id)]' \in [Ids -> Abstract!States]
  BY DEF Life, Abstract!States
<1> QED BY <1>5, <1>6 DEF Abstract!Next

LEMMA CrashingIsAStep ==
  ASSUME NEW end \in Nat,
         \A id \in Ids : Life(id) \in {"kept", "garbage", "gone"} => id < end,
         end > 0 => end - 1 \in Ids /\ Life(end - 1) \in {"kept", "garbage", "gone"},
         \A id \in Ids : id < end => Life(id)' = Life(id),
         \A id \in Ids : id >= end => Life(id)' = "none"
  PROVE  Abstract!Next
<1> DEFINE undone == Ids \ (Abstract!Persisted \cup Abstract!Before(Abstract!Persisted))
<1>0. Ids \subseteq Nat
  BY RecordingsAssumption DEF RecordingsAssumption, Ids
<1>1. Abstract!Persisted = {id \in Ids : Life(id) \in {"kept", "garbage", "gone"}}
  BY DEF Abstract!Persisted, Abstract!In
<1>2. \A id \in Ids : id \in undone <=> id >= end
  <2>1. ASSUME NEW id \in Ids, id >= end PROVE id \in undone
    <3>1. id \notin Abstract!Persisted
      BY <2>1, <1>0, <1>1
    <3>2. id \notin Abstract!Before(Abstract!Persisted)
      <4>1. \A later \in Abstract!Persisted : ~(id < later)
        BY <2>1, <1>0, <1>1
      <4> QED BY <4>1 DEF Abstract!Before
    <3> QED BY <3>1, <3>2
  <2>2. ASSUME NEW id \in Ids, id < end PROVE id \notin undone
    <3>1. end - 1 \in Abstract!Persisted /\ (id = end - 1 \/ id < end - 1)
      BY <2>2, <1>0, <1>1
    <3>2. CASE id = end - 1
      BY <3>1, <3>2
    <3>3. CASE id < end - 1
      BY <3>1, <3>3 DEF Abstract!Before
    <3> QED BY <3>1, <3>2, <3>3
  <2> QED BY <2>1, <2>2, <1>0
<1>3. Abstract!Changed \subseteq undone
  <2>1. \A id \in Ids : Life(id)' # Life(id) => id \in undone
    BY <1>0, <1>2
  <2> HIDE DEF undone
  <2> QED BY <2>1 DEF Abstract!Changed
<1>4. \A id \in undone : [i \in Ids |-> Life(i)]'[id] = "none"
  <2>1. \A id \in undone : id \in Ids /\ id >= end
    BY <1>2
  <2> QED BY <2>1
<1>5. Abstract!Crash
  BY <1>3, <1>4 DEF Abstract!Crash
<1>6. [id \in Ids |-> Life(id)]' \in [Ids -> Abstract!States]
  BY DEF Life, Abstract!States
<1> QED BY <1>5, <1>6 DEF Abstract!Next

\* Which state an id is in, as far as the steps below tell them apart.
LifeIs(id) ==
  /\ Life(id) = "kept" <=> id \in DOMAIN row
  /\ Life(id) = "garbage" <=> id \in garbage
  /\ Life(id) = "gone" <=> id \in removed \ garbage
  /\ Life(id) = "live" <=> ~Recorded(id) /\ Alive(id)
  /\ Life(id) = "lost" <=> ~Recorded(id) /\ ~Alive(id) /\ id <= Top
  /\ Life(id) = "none" <=> id > Top

LEMMA Lives == Inv /\ Removal => \A id \in Ids : LifeIs(id)
<1> SUFFICES ASSUME Inv, Removal, NEW id \in Ids
             PROVE  LifeIs(id)
  OBVIOUS
<1>1. /\ id \in Nat /\ Top \in Int /\ complete \in Nat /\ cum_recordings \in Nat
      /\ complete >= cum_recordings
  BY FileTypes, Ranges DEF Inv, Window
<1>2. id < complete \/ id = recording_id <=> id <= Top
  <2>1. recording_id \in {NoId, complete}
    BY DEF Inv, Window
  <2> QED BY <1>1, <2>1 DEF Top, NoId
<1>3. Recorded(id) => id <= Top
  <2>1. Recorded(id) => id < cum_recordings
    BY <1>1 DEF Recorded, Removal, Inv, Flushing
  <2>2. complete - 1 <= Top
    BY <1>1, Ranges
  <2> QED BY <1>1, <2>1, <2>2
<1>4. Alive(id) => id <= Top
  BY RecentRanges DEF Alive
<1>5. Listed(id) <=> id \in DOMAIN row \/ Alive(id)
  BY DEF Listed, Alive
<1>6. /\ garbage \subseteq removed /\ removed \cap DOMAIN row = {}
      /\ Recorded(id) <=> id \in DOMAIN row \cup removed
  BY DEF Removal, Recorded
<1>7. id > Top <=> ~(id <= Top)
  BY <1>1
<1> HIDE DEF Recorded, Alive
<1> QED BY <1>1, <1>2, <1>3, <1>4, <1>5, <1>6, <1>7 DEF Life, LifeIs

LEMMA LivesNext == Inv' /\ Removal' => \A id \in Ids : LifeIs(id)'
<1>1. (Inv /\ Removal => \A id \in Ids : LifeIs(id))'
  BY Lives, PTL
<1> QED BY <1>1

LifeVars == <<row, garbage, removed, cum_recordings>>

\* Steps that keep what a flush has collected.
LEMMA CollectedStaysAlive ==
  ASSUME Inv, CollectedAlive, flush' = flush, committed' = committed,
         \A id \in Ids : id < complete => (Alive(id)' => Alive(id)),
         \A id \in committed..(Current - 1) : Alive(id) => Alive(id)'
  PROVE  CollectedAlive'
<1>1. SUFFICES ASSUME flush.pc = "Collected" PROVE CollectedAlive'
  BY DEF CollectedAlive
<1>2. \A id \in DOMAIN flush.new : id \in committed..(Current - 1)
  <2>1. flush.new \in Rows
    BY DEF Inv, Typed
  <2>2. DOMAIN flush.new \subseteq Ids
    BY <2>1 DEF Rows
  <2>3. \A id \in DOMAIN flush.new : committed <= id /\ id < flush.cum
    BY <1>1 DEF Inv, Flushing
  <2>4. flush.cum \in {NoId} \cup 0..MaxRecordings
    BY DEF Inv, Typed
  <2> QED BY <2>2, <2>3, <2>4, FileTypes DEF NoId
<1>3. flush.cum # NoId =>
        \A id \in committed..(flush.cum - 1) : id \in Ids /\ id < complete
  <2>1. flush.cum # NoId => flush.cum <= complete /\ flush.cum \in 0..MaxRecordings
    BY Ranges DEF Inv, Typed, Flushing
  <2> QED BY <2>1, FileTypes, Ranges
<1> QED BY <1>1, <1>2, <1>3 DEF CollectedAlive

\* A step that leaves the tables alone and brings no recording back to life.
LEMMA SteadyLives ==
  ASSUME Inv, Inv', Tracked, UNCHANGED LifeVars, Top' = Top,
         \A id \in Ids : Alive(id)' => Alive(id),
         CollectedAlive'
  PROVE  Tracked' /\ Abstract!Next
<1>1. UNCHANGED <<row, garbage, removed, cum_recordings>>
  BY DEF LifeVars
<1>2. Removal' /\ NothingSkipped' /\ \A id : Recorded(id)' <=> Recorded(id)
  BY <1>1 DEF Tracked, Removal, NothingSkipped, Recorded
<1>4. ASSUME NEW id \in Ids
      PROVE  Life(id)' = Life(id) \/ (Life(id) = "live" /\ Life(id)' = "lost")
  <2>1. LifeIs(id) /\ LifeIs(id)'
    BY <1>2, Lives, LivesNext DEF Tracked
  <2>2. Top \in Int /\ id \in Nat
    BY Ranges, FileTypes
  <2> QED BY <2>1, <2>2, <1>1, <1>2 DEF LifeIs, Recorded
<1> QED BY <1>2, <1>4, LosingIsAStep DEF Tracked

\* Steps that leave the recordings alone too.
LEMMA OtherwiseLives ==
  ASSUME Inv, Inv', Tracked, UNCHANGED LifeVars,
         UNCHANGED <<recent_recordings, complete, recording_id, committed>>,
         flush' = flush \/ flush'.pc # "Collected"
  PROVE  Tracked' /\ Abstract!Next
<1>1. Top' = Top /\ \A id : Alive(id)' <=> Alive(id)
  BY DEF Top, Alive
<1>2. CollectedAlive'
  BY <1>1 DEF Tracked, CollectedAlive
<1> QED BY <1>1, <1>2, SteadyLives

-----------------------------------------------------------------------------
(* The worker and the Writer.                                              *)

LEMMA WorkerLives ==
  ASSUME Inv, Inv', Tracked, Worker
  PROVE  Tracked' /\ Abstract!Next
<1>1. CASE Prepares
  <2>1. PICK n, m, ws : Rechosen(n, m, ws)
    BY <1>1, PreparesRechoose
  <2>2. UNCHANGED <<complete, committed, recording_id, flush, row, garbage, removed, cum_recordings>>
    BY <1>1, PreparesRechoose DEF WorkerUnchanged, dbVars, historyVars
  <2>3. ASSUME NEW id, Alive(id)' PROVE Alive(id)
    <3>1. PICK i \in DOMAIN recent_recordings' :
            recent_recordings'[i].id = id /\ ~Deleted(recent_recordings'[i])
      BY <2>3 DEF Alive
    <3>2. i \in 1..Len(recent_recordings')
      BY <2>1, <3>1 DEF Rechosen
    <3> QED BY <2>1, <3>1, <3>2 DEF Rechosen, Alive
  <2>4. \A id \in committed..(Current - 1) : Alive(id) => Alive(id)'
    BY <2>1, AliveWhilePrepared
  <2>5. Top' = Top
    BY <2>2 DEF Top
  <2> QED BY <2>2, <2>3, <2>4, <2>5, CollectedStaysAlive, SteadyLives DEF LifeVars, Tracked
<1>2. CASE WriteBytes \/ CreateFails \/ Abort \/ FileIoFails \/ SyncFile \/ SyncDir
  <2>1. UNCHANGED <<streamVars, recording_id, flush, dbVars, removed>>
    BY <1>2 DEF WriteBytes, CreateFails, Abort, FileIoFails, SyncFile, SyncDir, AbortFile,
                historyVars
  <2> QED BY <2>1, OtherwiseLives DEF streamVars, dbVars, LifeVars
<1> QED BY <1>1, <1>2, PrepPrepares DEF Worker

LEMMA WriteLives ==
  ASSUME Inv, Inv', Tracked, Write
  PROVE  Tracked' /\ Abstract!Next
<1>1. PICK is_key \in BOOLEAN, len \in FrameSizes, close \in BOOLEAN :
        PushAndMaybeClose(is_key, len, close)
  BY DEF Write
<1>2. /\ UNCHANGED <<committed, flush, row, garbage, removed, cum_recordings>>
      /\ complete' = IF close THEN complete + 1 ELSE complete
      /\ recording_id' = IF close THEN NoId
                         ELSE IF recording_id = NoId THEN complete ELSE recording_id
      /\ (IF recording_id = NoId THEN complete ELSE recording_id) < MaxRecordings
  BY <1>1 DEF PushAndMaybeClose, dbVars
<1>3. /\ complete \in Ids /\ complete \in Nat /\ recording_id \in {NoId, complete}
      /\ cum_recordings <= complete
      /\ Top \in Int /\ Top' = complete
      /\ Top = IF recording_id = NoId THEN complete - 1 ELSE complete
  <2>1. complete \in Nat /\ recording_id \in {NoId, complete} /\ complete < MaxRecordings
    BY <1>2, Ranges DEF Inv, Window
  <2>2. Top' = complete
    BY <2>1, <1>2 DEF Top, NoId
  <2> QED BY <2>1, <2>2, Ranges DEF Inv, Window, Top, Ids
<1>4. ASSUME NEW id, Alive(id)'
      PROVE  Alive(id) \/ (recording_id = NoId /\ id = complete)
  BY <1>1, <1>4, PushKeepsAlive DEF Alive
<1>5. \A id \in committed..(Current - 1) : Alive(id) => Alive(id)'
  BY <1>1, PushKeepsAlive
<1>6. CollectedAlive'
  <2>1. \A id \in Ids : id < complete => id # complete
    BY <1>3, FileTypes
  <2> QED BY <2>1, <1>2, <1>4, <1>5, CollectedStaysAlive DEF Tracked
<1>7. CASE recording_id # NoId
  <2>1. Top' = Top
    BY <1>3, <1>7
  <2> QED BY <2>1, <1>2, <1>4, <1>6, <1>7, SteadyLives DEF LifeVars
<1>8. CASE recording_id = NoId
  <2>1. Removal' /\ \A id : Recorded(id)' <=> Recorded(id)
    BY <1>2 DEF Tracked, Removal, Recorded
  <2>2. NothingSkipped'
    <3>1. \A id \in Ids : id < cum_recordings => id # complete
      BY <1>3, FileTypes
    <3> QED BY <3>1, <2>1, <1>2, <1>4 DEF Tracked, NothingSkipped
  <2>3. \A id \in Ids : LifeIs(id) /\ LifeIs(id)' /\ id \in Nat
    BY <2>1, Lives, LivesNext, FileTypes DEF Tracked
  <2> PICK new \in Ids : new = complete
    BY <1>3
  <2>4. Life(new) = "none" /\ \A id \in Ids : id < new => Life(id) # "none"
    BY <2>3, <1>3, <1>8 DEF LifeIs
  <2>5. Life(new)' = "live"
    <3>1. Alive(new)'
      BY <1>1, <1>8, PushKeepsAlive
    <3>2. ~Recorded(new)
      <4>1. new \notin DOMAIN row /\ new \notin garbage /\ new \notin removed \ garbage
        BY <2>3, <2>4 DEF LifeIs
      <4> QED BY <4>1 DEF Recorded
    <3> QED BY <3>1, <3>2, <2>1, <2>3 DEF LifeIs
  <2>6. ASSUME NEW id \in Ids, id # new
        PROVE  Life(id)' = Life(id) \/ (Life(id) = "live" /\ Life(id)' = "lost")
    <3>1. id <= Top <=> id <= Top'
      BY <2>3, <2>6, <1>3, <1>8
    <3>2. Alive(id)' => Alive(id)
      BY <1>4, <2>6
    <3>3. Top' \in Int /\ Top \in Int /\ id \in Nat
      BY <2>3, <1>3
    <3> QED BY <3>1, <3>2, <3>3, <2>1, <2>3, <1>2, <1>3 DEF LifeIs, Recorded
  <2>7. Abstract!Next
    BY <2>4, <2>5, <2>6, BeginningIsAStep
  <2> QED BY <2>1, <2>2, <2>7, <1>6 DEF Tracked
<1> QED BY <1>7, <1>8

-----------------------------------------------------------------------------
(* The flush.                                                              *)

LEMMA CollectLives ==
  ASSUME Inv, Inv', Tracked, FlushCollect
  PROVE  Tracked' /\ Abstract!Next
<1> DEFINE ids == {r.id : r \in Ready}
<1>1. /\ UNCHANGED <<streamVars, recording_id, dbVars, removed>>
      /\ DOMAIN flush'.new = ids
      /\ flush'.cum = IF Ready = {} THEN NoId ELSE Max(ids) + 1
  BY DEF FlushCollect, historyVars
<1>2. UNCHANGED <<recent_recordings, complete, recording_id, committed, row, garbage, removed,
                  cum_recordings>>
  BY <1>1 DEF streamVars, dbVars
<1>3. Top' = Top /\ \A id : Alive(id)' <=> Alive(id)
  BY <1>2 DEF Top, Alive
<1>4. ASSUME NEW id \in ids PROVE Alive(id)
  <2>1. PICK r \in Ready : r.id = id
    BY <1>4
  <2>2. PICK i \in DOMAIN recent_recordings : recent_recordings[i] = r
    BY <2>1 DEF Ready, ToSet
  <2> QED BY <2>1, <2>2 DEF Ready, Alive
<1>5. ASSUME Ready # {}
      PROVE  /\ Max(ids) \in ids
             /\ \A id \in committed..Max(ids) : Alive(id) => id \in ids
  <2>1. ids # {} /\ ids \subseteq 0..MaxRecordings
    <3>1. \A r \in Ready : r.id \in 0..MaxRecordings
      BY ReadyIsDurable, Ranges DEF Ids
    <3> QED BY <1>5, <3>1
  <2>2. Max(ids) \in ids
    BY <2>1, Ranges, MaxIsGreatest
  <2>3. PICK last \in Ready : last.id = Max(ids)
    BY <2>2
  <2>4. ASSUME NEW id \in committed..last.id, Alive(id) PROVE id \in ids
    <3>1. PICK k \in DOMAIN recent_recordings :
            recent_recordings[k].id = id /\ ~Deleted(recent_recordings[k])
      BY <2>4 DEF Alive
    <3>2. last.id \in Nat /\ last.id < flush_ready /\ flush_ready \in Nat /\ committed \in Nat
      <4>1. flush_ready \in 0..MaxRecordings
        BY DEF Inv, Typed
      <4> QED BY <4>1, ReadyIsDurable, FileTypes
    <3>3. recent_recordings[k].id \in committed..(flush_ready - 1)
      BY <2>4, <3>1, <3>2
    <3>4. recent_recordings[k] \in Ready
      BY <3>1, <3>3, Ranges DEF Ready, ToSet
    <3> QED BY <3>1, <3>4
  <2> QED BY <2>2, <2>3, <2>4
<1>6. CollectedAlive'
  <2> HIDE DEF ids
  <2>1. CASE Ready = {}
    BY <2>1, <1>1, <1>3, <1>4 DEF CollectedAlive
  <2>2. CASE Ready # {}
    <3>1. Max(ids) \in Nat
      <4>1. \A id \in ids : id \in Nat
        BY ReadyIsDurable DEF ids
      <4> QED BY <4>1, <1>5, <2>2
    <3>2. flush'.cum - 1 = Max(ids)
      BY <3>1, <2>2, <1>1
    <3> QED BY <3>2, <2>2, <1>1, <1>2, <1>3, <1>4, <1>5 DEF CollectedAlive
  <2> QED BY <2>1, <2>2
<1> QED BY <1>2, <1>3, <1>6, SteadyLives DEF LifeVars

LEMMA CommitLives ==
  ASSUME Inv, Inv', Tracked, FlushCommit
  PROVE  Tracked' /\ Abstract!Next
<1> DEFINE new == DOMAIN flush.new
           old == DeletionRange
<1>1. /\ flush.pc = "Collected" /\ flush'.pc # "Collected"
      /\ DOMAIN row' = (DOMAIN row \cup new) \ old
      /\ garbage' = (garbage \cup old) \ garbage_unlinked
      /\ removed' = removed \cup old
      /\ cum_recordings' = IF flush.cum = NoId THEN cum_recordings ELSE flush.cum
      /\ UNCHANGED <<recent_recordings, complete, recording_id, committed>>
  <2>1. flush'.pc = "Committed"
    BY DEF FlushCommit, Inv, Typed
  <2> QED BY <2>1 DEF FlushCommit, streamVars
<1>2. /\ old \subseteq DOMAIN row /\ old \subseteq Ids /\ new \subseteq Ids /\ DOMAIN row \subseteq Ids
      /\ garbage \subseteq Ids /\ garbage_unlinked \subseteq garbage /\ garbage \cap DOMAIN row = {}
      /\ \A id \in old : id < committed
      /\ \A id \in new : committed <= id /\ id < flush.cum /\ flush.cum # NoId
      /\ cum_recordings = committed
      /\ \A id \in DOMAIN row : id < committed
  <2>1. /\ flush.new \in Rows /\ row \in Rows /\ garbage \subseteq Ids
        /\ flush.cum \in {NoId} \cup 0..MaxRecordings
    BY DEF Inv, Typed
  <2>2. DOMAIN row \subseteq Ids /\ new \subseteq Ids
    BY <2>1 DEF Rows
  <2>3. \A id \in new : committed <= id /\ id < flush.cum
    BY <1>1 DEF Inv, Flushing
  <2>4. \A id \in new : flush.cum # NoId
    BY <2>2, <2>3, FileTypes DEF NoId
  <2> QED BY <1>1, <2>1, <2>2, <2>3, <2>4, DeletedWereRows DEF Inv, Flushing, UnlinkedIsGarbage
<1>3. Top' = Top /\ \A id : Alive(id)' <=> Alive(id)
  BY <1>1 DEF Top, Alive
<1>4. \A id \in new : ~Recorded(id) /\ Alive(id)
  <2>1. \A id \in new : Alive(id)
    BY <1>1 DEF Tracked, CollectedAlive
  <2>2. ASSUME NEW id \in new PROVE ~Recorded(id)
    <3>1. id \in Nat /\ committed \in Nat /\ committed <= id
      BY <1>2, FileTypes
    <3>2. ~(id < committed) /\ id \notin 0..(committed - 1)
      BY <3>1
    <3> QED BY <3>2, <1>2 DEF Tracked, Removal, Recorded
  <2> QED BY <2>1, <2>2
<1>5. /\ committed \in Nat /\ cum_recordings' \in Nat /\ cum_recordings' >= cum_recordings
      /\ \A id \in old : id \in 0..(cum_recordings' - 1)
      /\ \A id \in removed : id \in 0..(cum_recordings' - 1) /\ id \in 0..(cum_recordings - 1)
  <2>1. committed \in Nat /\ (flush.cum # NoId => flush.cum \in Nat /\ committed < flush.cum)
    BY FileTypes
  <2>2. cum_recordings' \in Nat /\ cum_recordings' >= cum_recordings
    BY <2>1, <1>1, <1>2
  <2>3. \A id \in old : id \in 0..(cum_recordings - 1)
    BY <2>1, <1>2, FileTypes
  <2>4. \A id \in removed : id \in 0..(cum_recordings - 1)
    BY DEF Tracked, Removal
  <2>5. \A id \in 0..(cum_recordings - 1) : id \in 0..(cum_recordings' - 1)
    BY <2>1, <2>2, <1>2
  <2> QED BY <2>1, <2>2, <2>3, <2>4, <2>5
<1>6. Removal'
  <2>1. removed \cap new = {}
    BY <1>4 DEF Recorded
  <2>2. removed \cap DOMAIN row = {} /\ garbage \subseteq removed
    BY DEF Tracked, Removal
  <2> HIDE DEF new, old
  <2> QED BY <2>1, <2>2, <1>1, <1>2, <1>5 DEF Removal
<1>7. \A id : Recorded(id)' <=> Recorded(id) \/ id \in new
  BY <1>1, <1>2 DEF Recorded
<1>8. NothingSkipped'
  <2>1. ASSUME NEW id \in Ids, Alive(id), id < cum_recordings' PROVE Recorded(id) \/ id \in new
    <3>1. CASE id < cum_recordings
      BY <2>1, <3>1 DEF Tracked, NothingSkipped
    <3>2. CASE ~(id < cum_recordings)
      <4>1. flush.cum # NoId /\ flush.cum \in Nat /\ committed \in Nat /\ id \in Nat
            /\ committed <= id /\ id < flush.cum
        BY <2>1, <3>2, <1>1, <1>2, FileTypes
      <4>2. id \in committed..(flush.cum - 1)
        BY <4>1
      <4> QED BY <4>1, <4>2, <2>1, <1>1 DEF Tracked, CollectedAlive
    <3> QED BY <3>1, <3>2
  <2>2. cum_recordings' > 0 => Recorded(cum_recordings' - 1) \/ cum_recordings' - 1 \in new
    <3>1. CASE flush.cum = NoId
      BY <3>1, <1>1 DEF Tracked, NothingSkipped
    <3>2. CASE flush.cum # NoId
      BY <3>2, <1>1 DEF Tracked, CollectedAlive
    <3> QED BY <3>1, <3>2
  <2> HIDE DEF new
  <2>3. \A id \in Ids : Alive(id)' /\ id < cum_recordings' => Recorded(id)'
    BY <2>1, <1>3, <1>7
  <2>4. cum_recordings' > 0 => \A id : id = cum_recordings' - 1 => Recorded(id)'
    BY <2>2, <1>7
  <2> QED BY <2>3, <2>4 DEF NothingSkipped, Recorded
<1>9. Abstract!Next
  <2> DEFINE forgotten == garbage_unlinked
  <2>1. \A id \in Ids : LifeIs(id) /\ LifeIs(id)'
    BY <1>6, Lives, LivesNext DEF Tracked
  <2>2. Removal
    BY DEF Tracked
  <2> HIDE DEF new, old
  <2>3. \A id \in new : Life(id) = "live" /\ Life(id)' = "kept"
    <3>1. \A id \in new : id \in DOMAIN row'
      BY <1>1, <1>2, <1>4 DEF Recorded
    <3> QED BY <3>1, <2>1, <1>2, <1>4 DEF LifeIs
  <2>4. \A id \in old : Life(id) = "kept" /\ Life(id)' = "garbage"
    BY <2>1, <1>1, <1>2 DEF LifeIs
  <2>5. \A id \in forgotten : Life(id) = "garbage" /\ Life(id)' = "gone"
    BY <2>1, <2>2, <1>1, <1>2 DEF LifeIs, Removal
  <2>6. ASSUME NEW id \in Ids \ (new \cup old \cup forgotten) PROVE Life(id)' = Life(id)
    <3>1. LifeIs(id) /\ LifeIs(id)' /\ id \in Nat /\ Top \in Int
      BY <2>1, <2>6, FileTypes, Ranges
    <3>2. /\ id \in DOMAIN row' <=> id \in DOMAIN row
          /\ id \in garbage' <=> id \in garbage
          /\ id \in removed' <=> id \in removed
      BY <2>6, <1>1
    <3>3. Recorded(id)' <=> Recorded(id)
      BY <2>6, <1>7
    <3> QED BY <3>1, <3>2, <3>3, <1>3 DEF LifeIs, Recorded
  <2>7. ASSUME NEW id \in Ids, NEW n \in new, id < n, Life(id) = "live" PROVE id \in new
    <3>1. ~Recorded(id) /\ Alive(id)
      BY <2>1, <2>7 DEF LifeIs
    <3>2. id \in Nat /\ n \in Nat /\ committed \in Nat /\ n < flush.cum /\ flush.cum \in Nat
          /\ flush.cum # NoId
      BY <2>7, <1>2, FileTypes
    <3>3. ~(id < committed)
      BY <3>1, <1>2 DEF Tracked, NothingSkipped
    <3>4. id \in committed..(flush.cum - 1)
      BY <2>7, <3>2, <3>3
    <3> QED BY <3>1, <3>2, <3>4, <1>1 DEF Tracked, CollectedAlive, new
  <2>8. ASSUME NEW id \in Ids, NEW o \in old, id < o, Life(id) = "kept" PROVE id \in old
    <3>1. id \in DOMAIN row
      BY <2>1, <2>8 DEF LifeIs
    <3>2. flush.deletion # {} /\ o <= Max(flush.deletion)
      BY <2>8 DEF old, DeletionRange
    <3>3. Max(flush.deletion) \in Ids
      <4>1. flush.deletion \subseteq Ids
        BY DEF Inv, Typed
      <4>2. flush.deletion \subseteq 0..MaxRecordings
        BY <4>1, Ranges DEF Ids
      <4> QED BY <4>2, <4>1, <3>2, Ranges, MaxIsGreatest
    <3>4. id <= Max(flush.deletion)
      BY <2>8, <3>2, <3>3, <1>2, FileTypes
    <3> QED BY <3>1, <3>2, <3>4 DEF old, DeletionRange
  <2>9. new \subseteq Ids /\ old \subseteq Ids /\ forgotten \subseteq Ids
    BY <1>2
  <2> HIDE DEF forgotten
  <2> QED BY <2>3, <2>4, <2>5, <2>6, <2>7, <2>8, <2>9, CommittingIsAStep
<1> QED BY <1>1, <1>6, <1>8, <1>9 DEF Tracked, CollectedAlive

LEMMA ApplyLives ==
  ASSUME Inv, Inv', Tracked, FlushApply
  PROVE  Tracked' /\ Abstract!Next
<1>1. PICK n : Refreshed(n)
  BY ApplyRefreshes
<1>2. /\ UNCHANGED <<complete, recording_id, row, garbage, removed, cum_recordings>>
      /\ flush'.pc = "Idle"
  BY DEF FlushApply, dbVars, historyVars, NoFlush
<1>3. \A id : Alive(id)' => Alive(id)
  BY <1>1 DEF Refreshed, Alive
<1>4. CollectedAlive' /\ Top' = Top
  BY <1>2 DEF CollectedAlive, Top
<1> QED BY <1>2, <1>3, <1>4, SteadyLives DEF LifeVars

-----------------------------------------------------------------------------
(* Crashes.                                                                *)

LEMMA CrashLives ==
  ASSUME Inv, Inv', Tracked, Crash
  PROVE  Tracked' /\ Abstract!Next
<1>1. /\ recent_recordings' = << >> /\ complete' = cum_recordings /\ recording_id' = NoId
      /\ flush'.pc = "Idle"
      /\ UNCHANGED <<row, garbage, removed, cum_recordings>>
  BY DEF Crash, dbVars, NoFlush
<1>2. /\ cum_recordings \in Nat /\ cum_recordings <= MaxRecordings /\ Top \in Int
      /\ cum_recordings - 1 <= Top
      /\ Top' = cum_recordings - 1 /\ \A id : ~Alive(id)'
  <2>1. cum_recordings \in Nat /\ complete \in Nat /\ Top \in {complete - 1, complete}
        /\ cum_recordings <= complete /\ cum_recordings <= MaxRecordings
    BY Ranges DEF Inv, Window
  <2> QED BY <2>1, <1>1 DEF Top, Alive
<1>3. Removal' /\ \A id : Recorded(id)' <=> Recorded(id)
  BY <1>1 DEF Tracked, Removal, Recorded
<1>4. Tracked'
  BY <1>1, <1>2, <1>3 DEF Tracked, NothingSkipped, CollectedAlive, Recorded
<1>5. \A id \in Ids : LifeIs(id) /\ LifeIs(id)' /\ id \in Nat
  BY <1>3, Lives, LivesNext, FileTypes DEF Tracked
<1>6. ASSUME NEW id \in Ids
      PROVE  Life(id) \in {"kept", "garbage", "gone"} <=> Recorded(id)
  BY <1>5 DEF LifeIs, Recorded, Tracked, Removal
<1>7. ASSUME NEW id \in Ids, Recorded(id) PROVE id < cum_recordings
  <2>1. id \in DOMAIN row => id < cum_recordings
    BY DEF Inv, Flushing
  <2>2. id \in removed => id < cum_recordings
    BY <1>2 DEF Tracked, Removal
  <2> QED BY <1>7, <2>1, <2>2 DEF Recorded
<1>8. cum_recordings > 0 => cum_recordings - 1 \in Ids /\ Recorded(cum_recordings - 1)
  BY <1>2, Ranges DEF Tracked, NothingSkipped, Ids
<1>9. ASSUME NEW id \in Ids, id < cum_recordings PROVE Life(id)' = Life(id)
  <2>1. Alive(id) => Recorded(id)
    BY <1>9 DEF Tracked, NothingSkipped
  <2>2. id <= Top /\ id <= Top' /\ ~(id > Top) /\ ~(id > Top')
    BY <1>2, <1>5, <1>9
  <2> QED BY <2>1, <2>2, <1>1, <1>2, <1>3, <1>5 DEF LifeIs, Recorded
<1>10. ASSUME NEW id \in Ids, id >= cum_recordings PROVE Life(id)' = "none"
  BY <1>2, <1>5, <1>10 DEF LifeIs
<1>11. Abstract!Next
  <2>1. \A id \in Ids : Life(id) \in {"kept", "garbage", "gone"} => id < cum_recordings
    BY <1>6, <1>7
  <2>2. cum_recordings > 0 =>
          /\ cum_recordings - 1 \in Ids
          /\ Life(cum_recordings - 1) \in {"kept", "garbage", "gone"}
    BY <1>6, <1>8
  <2> QED BY <2>1, <2>2, <1>2, <1>9, <1>10, CrashingIsAStep
<1> QED BY <1>4, <1>11

-----------------------------------------------------------------------------

LEMMA NextLives ==
  ASSUME Inv, Inv', Tracked, Next
  PROVE  Tracked' /\ Abstract!Next
<1>1. CASE FlushFails \/ Collect \/ HandleNotify \/ Abandon \/ InitialRotation
  <2>1. /\ UNCHANGED <<recent_recordings, complete, recording_id, committed, dbVars, removed>>
        /\ flush' = flush \/ flush' = NoFlush
    BY <1>1 DEF FlushFails, Collect, GcUnlink, GcSync, GcSyncFails, HandleNotify, Abandon,
                InitialRotation, streamVars, threadVars, historyVars
  <2> QED BY <2>1, OtherwiseLives DEF dbVars, LifeVars, NoFlush
<1> QED BY <1>1, WriteLives, WorkerLives, CollectLives, CommitLives, ApplyLives, CrashLives
        DEF Next, Flush

LEMMA InitLives ==
  ASSUME Init
  PROVE  Tracked /\ Abstract!Init
<1>1. Tracked
  <2>1. /\ recent_recordings = << >> /\ garbage = {} /\ removed = {} /\ cum_recordings = 0
        /\ flush.pc = "Idle"
    BY DEF Init, NoFlush
  <2> QED BY <2>1 DEF Tracked, Removal, NothingSkipped, CollectedAlive, Alive
<1>2. ASSUME NEW id \in Ids PROVE Life(id) = "none"
  BY RecordingsAssumption DEF RecordingsAssumption, Init, Life, Listed, Ids, NoId
<1> QED BY <1>1, <1>2 DEF Abstract!Init

LEMMA StutterLives ==
  ASSUME Tracked, UNCHANGED vars
  PROVE  Tracked' /\ UNCHANGED [id \in Ids |-> Life(id)]
<1>1. UNCHANGED <<recent_recordings, complete, recording_id, committed, flush, row, garbage,
                  removed, cum_recordings>>
  BY DEF vars, streamVars, threadVars, dbVars, historyVars
<1> QED BY <1>1 DEF Tracked, Removal, NothingSkipped, CollectedAlive, Recorded, Alive, Life, Listed

\* The recordings of a stream, whose frames, files, rows and flags many
\* threads change, live as RecordingLife says, whatever the interleaving, the
\* I/O errors and the crashes: rows are inserted in order and passing over
\* no live recording, deleted oldest first and forgotten after their file.
THEOREM RecordingsLiveAsPromised == Spec => ImplementsLife
<1>1. Init => Tracked /\ Abstract!Init
  BY InitLives
<1>2. Inv /\ Inv' /\ Tracked /\ [Next]_vars =>
        Tracked' /\ [Abstract!Next]_([id \in Ids |-> Life(id)])
  BY NextLives, StutterLives
<1> QED BY <1>1, <1>2, InvHolds, PTL DEF Spec, ImplementsLife, Abstract!Spec

-----------------------------------------------------------------------------
(* Frames and recordings: NothingVanishes.                                 *)

StartOf(f) == BytePos(f.recording_id, f.sample_start)

\* Frames are held from the first byte on that is not in the file of r.
Covers(frames, r, written) ==
  \/ r.sample_file_bytes = written
  \/ frames # << >> /\ ~Precedes(BytePos(r.id, written), StartOf(frames[1]))

Covered ==
  \A i \in DOMAIN recent_recordings :
    LET r == recent_recordings[i]
    IN  r.id >= Current /\ r.id \notin excused =>
          Covers(recent_frames, r, WrittenOf(r, writer_state))

\* The window is within the writer's budget, or prune_front can't shorten it.
Fits(frames) == TotalSampleBytes(frames) <= BytesForWriter \/ LastGopI(frames) = 0

\* The last frame of r ends where r does.
EndsAt(frames, r) ==
  \A j \in 1..Len(frames) :
    frames[j].recording_id = r.id =>
      /\ frames[j].sample_start + frames[j].len <= r.sample_file_bytes
      /\ \/ frames[j].sample_start + frames[j].len = r.sample_file_bytes
         \/ j < Len(frames) /\ frames[j + 1].recording_id = r.id

FramesEnd ==
  \A i \in DOMAIN recent_recordings : EndsAt(recent_frames, recent_recordings[i])

\* The worker writes no more than there is.
InFile == IF io.op \in {"Create", "Write", "Written"}
          THEN writer_state.written + io.n ELSE writer_state.written

WrittenFits ==
  \A i \in DOMAIN recent_recordings :
    recent_recordings[i].id = Current => InFile <= recent_recordings[i].sample_file_bytes

\* Every id is accounted for.
Accounted ==
  /\ \A id \in 0..(cum_recordings - 1) : id \in DOMAIN row \cup removed \cup excused
  /\ \A id \in committed..Top : Alive(id) \/ id \in excused
  /\ flush.pc = "Collected" /\ flush.cum # NoId =>
       \A id \in committed..(flush.cum - 1) : id \in DOMAIN flush.new \cup excused
  /\ io.op \in {"Abort", "Aborted"} => Current \in excused

Kept == Covered /\ Fits(recent_frames) /\ FramesEnd /\ WrittenFits /\ Accounted

-----------------------------------------------------------------------------
(* The window of frames.                                                   *)

\* The frames' lengths.
Lengths(frames) == [i \in 1..Len(frames) |-> frames[i].len]

LEMMA TotalSampleBytesIsTotal ==
  ASSUME NEW s \in Seq(Frame)
  PROVE  /\ \E h : Totals(h, Lengths(s), 1..Len(s)) /\ TotalSampleBytes(s) = h[1..Len(s)]
         /\ Lengths(s) \in [1..Len(s) -> Nat]
         /\ IsFiniteSet(1..Len(s))
         /\ TotalSampleBytes(s) \in Nat
<1> DEFINE D == 1..Len(s)
           w == Lengths(s)
           A(h) == [t \in SUBSET DOMAIN s |->
                      IF t = {} THEN 0 ELSE s[Pick(t)].len + h[t \ {Pick(t)}]]
           B(h) == [t \in SUBSET D |->
                      IF t = {} THEN 0 ELSE w[Pick(t)] + h[t \ {Pick(t)}]]
           P(h) == h = A(h)
           h0 == CHOOSE h : P(h)
<1>1. TotalSampleBytes(s) = h0[DOMAIN s]
  BY DEF TotalSampleBytes, FoldSeq, FoldFunction, FoldFunctionOnSet, MapThenFoldSet, Pick
<1>2. DOMAIN s = D /\ IsFiniteSet(D)
  <2>1. Len(s) \in Nat /\ 1 \in Nat
    OBVIOUS
  <2> QED BY <2>1, FS_Interval
<1>3. w \in [D -> Nat]
  BY FrameTypes DEF Lengths
<1>4. ASSUME NEW t \in SUBSET D, t # {} PROVE w[Pick(t)] = s[Pick(t)].len
  BY <1>4, PickIsIn DEF Lengths
<1> HIDE DEF D
<1>5. ASSUME NEW h PROVE P(h) <=> Totals(h, w, D)
  <2>1. A(h) = B(h)
    <3> HIDE DEF w
    <3> QED BY <1>2, <1>4
  <2>2. Totals(h, w, D) <=> h = B(h)
    BY DEF Totals
  <2> HIDE DEF A, B
  <2> QED BY <2>1, <2>2
<1> HIDE DEF P, w
<1>6. PICK g : Totals(g, w, D)
  BY <1>2, <1>3, TotalsExist
<1>7. P(h0)
  <2>1. P(g)
    BY <1>5, <1>6
  <2> QED BY <2>1
<1>8. Totals(h0, w, D)
  BY <1>5, <1>7
<1> HIDE DEF h0
<1>9. h0[D] \in Nat
  BY <1>2, <1>3, <1>8, TotalsAreNatural
<1> QED BY <1>1, <1>2, <1>3, <1>8, <1>9 DEF w, D

\* The last frames take no more than all of them.
LEMMA LastFramesFit ==
  ASSUME NEW s \in Seq(Frame), NEW k \in 0..Len(s)
  PROVE  /\ TotalSampleBytes(SubSeq(s, k + 1, Len(s))) \in Nat /\ TotalSampleBytes(s) \in Nat
         /\ TotalSampleBytes(SubSeq(s, k + 1, Len(s))) <= TotalSampleBytes(s)
<1> DEFINE u == SubSeq(s, k + 1, Len(s))
           D == 1..Len(s)
           E == 1..Len(u)
           b == [i \in E |-> i + k]
           Image == {b[i] : i \in E}
<1>1. /\ u \in Seq(Frame) /\ Len(u) = Len(s) - k
      /\ \A i \in 1..(Len(s) - k) : u[i] = s[i + k]
  BY Suffix
<1> HIDE DEF u
<1>2. PICK g : Totals(g, Lengths(s), D) /\ TotalSampleBytes(s) = g[D]
  BY TotalSampleBytesIsTotal
<1>3. PICK h : Totals(h, Lengths(u), E) /\ TotalSampleBytes(u) = h[E]
  BY <1>1, TotalSampleBytesIsTotal
<1>4. /\ Lengths(s) \in [D -> Nat] /\ Lengths(u) \in [E -> Nat]
      /\ IsFiniteSet(D) /\ IsFiniteSet(E)
      /\ TotalSampleBytes(s) \in Nat /\ TotalSampleBytes(u) \in Nat
  BY <1>1, TotalSampleBytesIsTotal
<1>5. ASSUME NEW i \in E PROVE b[i] \in D /\ Lengths(u)[i] = Lengths(s)[b[i]]
  <2>1. i + k \in 1..Len(s) /\ u[i] = s[i + k]
    BY <1>1
  <2> QED BY <2>1 DEF Lengths
<1>6. \A i, j \in E : b[i] = b[j] => i = j
  BY <1>1
<1>7. b \in [E -> D]
  BY <1>5
<1> HIDE DEF b, D, E
<1>8. h[E] = g[Image]
  <2> DEFINE v == Lengths(u)
             w == Lengths(s)
  <2>1. \A i \in E : v[i] = w[b[i]]
    BY <1>5
  <2> HIDE DEF v, w
  <2>2. /\ Totals(h, v, E) /\ Totals(g, w, D) /\ w \in [D -> Nat]
        /\ IsFiniteSet(E) /\ IsFiniteSet(D)
    BY <1>2, <1>3, <1>4 DEF v, w
  <2>3. Image = {b[x] : x \in E}
    OBVIOUS
  <2> HIDE DEF Image
  <2> QED BY <2>1, <2>2, <2>3, <1>6, <1>7, TotalsMoved
<1>9. g[Image] <= g[D]
  <2>1. Image \in SUBSET D /\ D \in SUBSET D
    BY <1>5
  <2> HIDE DEF Image
  <2> QED BY <2>1, <1>2, <1>4, TotalsGrow
<1> HIDE DEF Image
<1>10. TotalSampleBytes(u) <= TotalSampleBytes(s)
  BY <1>2, <1>3, <1>8, <1>9
<1> QED BY <1>4, <1>10 DEF u

-----------------------------------------------------------------------------
(* What the window covers.                                                 *)

\* Dropping frames that are written leaves what is not written.
LEMMA StillCovers ==
  ASSUME NEW s \in Seq(Frame), Contiguous(s), NEW r, NEW w \in Nat,
         r.id \in Nat, r.sample_file_bytes \in Nat, w <= r.sample_file_bytes,
         EndsAt(s, r), Covers(s, r, w),
         NEW k, NEW f, Shortens(s, f, k),
         \A j \in 1..k : s[j].recording_id = r.id => ~Precedes(BytePos(r.id, w), End(s[j]))
  PROVE  Covers(f, r, w)
<1> DEFINE pos == BytePos(r.id, w)
           J == {j \in 1..(k + 1) : Precedes(pos, StartOf(s[j]))}
<1>1. SUFFICES ASSUME r.sample_file_bytes # w, Precedes(pos, StartOf(s[k + 1])) PROVE FALSE
  <2>1. CASE r.sample_file_bytes = w
    BY <2>1 DEF Covers
  <2>2. CASE r.sample_file_bytes # w
    <3>1. s # << >>
      BY <2>2 DEF Covers
    <3>2. k \in 0..Len(s) /\ k < Len(s) /\ Len(f) = Len(s) - k /\ f \in Seq(Frame)
          /\ \A i \in 1..(Len(s) - k) : f[i] = s[i + k]
      BY <3>1 DEF Shortens
    <3>3. f # << >> /\ f[1] = s[k + 1]
      <4>1. 1 \in 1..(Len(s) - k) /\ 1 + k = k + 1 /\ Len(f) # 0
        BY <3>2
      <4> QED BY <4>1, <3>2
    <3> QED BY <2>2, <3>3, <1>1 DEF Covers
  <2> QED BY <2>1, <2>2
<1>2. s # << >> /\ ~Precedes(pos, StartOf(s[1]))
  BY <1>1 DEF Covers
<1>3. k \in 0..Len(s) /\ k < Len(s) /\ Len(s) \in Nat
  BY <1>2 DEF Shortens
<1>4. J \subseteq Nat /\ k + 1 \in J /\ 1 \notin J
  BY <1>1, <1>2, <1>3
<1>5. PICK m \in J : \A j \in J : m <= j
  BY <1>4, LeastExists
<1>6. m \in 2..(k + 1)
  BY <1>3, <1>4, <1>5
<1> DEFINE j == m - 1
<1>7. j \in 1..k /\ j \in 1..(Len(s) - 1) /\ j \in 1..Len(s) /\ j + 1 \in 1..Len(s) /\ m = j + 1
  BY <1>3, <1>6
<1>8. ~Precedes(pos, StartOf(s[j])) /\ Precedes(pos, StartOf(s[j + 1]))
  <2>1. j \notin J
    <3> HIDE DEF J
    <3>1. j \in J => m <= j
      BY <1>5
    <3> QED BY <3>1, <1>6
  <2>2. j \in 1..(k + 1)
    BY <1>3, <1>7
  <2> QED BY <2>1, <2>2, <1>5, <1>7
<1> HIDE DEF j, J
<1>9. /\ s[j].recording_id \in Nat /\ s[j].sample_start \in Nat /\ s[j].len \in Nat
      /\ s[j + 1].recording_id \in Nat /\ s[j + 1].sample_start \in Nat
  BY <1>7, FrameTypes
<1>10. \/ /\ s[j + 1].recording_id = s[j].recording_id
          /\ s[j + 1].sample_start = s[j].sample_start + s[j].len
       \/ /\ s[j + 1].recording_id = s[j].recording_id + 1
          /\ s[j + 1].sample_start = 0
  BY <1>7 DEF Contiguous
<1>11. s[j].recording_id = r.id
  BY <1>8, <1>9, <1>10 DEF Precedes, StartOf, BytePos
<1>12. s[j].sample_start + s[j].len <= w
  BY <1>7, <1>9, <1>11 DEF Precedes, End, BytePos
<1>13. s[j + 1].recording_id = r.id + 1
  BY <1>8, <1>9, <1>10, <1>11, <1>12 DEF Precedes, StartOf, BytePos
<1>14. s[j].sample_start + s[j].len = r.sample_file_bytes
  BY <1>7, <1>11, <1>13 DEF EndsAt
<1> QED BY <1>1, <1>12, <1>14

\* What is covered is not behind.
LEMMA CoveredIsNotBehind ==
  ASSUME NEW s \in Seq(Frame), Contiguous(s), NEW r, NEW w \in Nat,
         r.id \in Nat, r.sample_file_bytes \in Nat, w <= r.sample_file_bytes,
         EndsAt(s, r), Covers(s, r, w), s # << >>, r.id <= s[Len(s)].recording_id
  PROVE  ~Behind(r, w, s)
<1> DEFINE pos == BytePos(r.id, w)
           J == {i \in 1..Len(s) : Precedes(pos, End(s[i]))}
           rest == IterFromBytePos(s, pos)
           m == Min(J)
<1>1. Len(s) \in Nat /\ Len(s) >= 1 /\ Len(s) \in 1..Len(s)
  OBVIOUS
<1>2. \A i \in 1..Len(s) :
        /\ s[i].recording_id \in Nat /\ s[i].sample_start \in Nat /\ s[i].len \in Nat /\ s[i].len >= 1
  BY FrameTypes
<1>3. CASE J = {}
  <2>1. rest = << >>
    BY <1>3 DEF IterFromBytePos
  <2>2. ~Precedes(pos, End(s[Len(s)]))
    BY <1>1, <1>3
  <2>3. s[Len(s)].recording_id = r.id /\ s[Len(s)].sample_start + s[Len(s)].len <= w
    BY <2>2, <1>1, <1>2 DEF Precedes, End, BytePos
  <2>4. s[Len(s)].sample_start + s[Len(s)].len = r.sample_file_bytes
    BY <2>3, <1>1 DEF EndsAt
  <2> QED BY <2>1, <2>3, <2>4 DEF Behind
<1>4. CASE J # {}
  <2>1. m \in J /\ \A i \in J : m <= i
    <3>1. J \subseteq Nat
      OBVIOUS
    <3> HIDE DEF J
    <3> QED BY <1>4, <3>1, MinIsLeast
  <2>2. m \in 1..Len(s) /\ Precedes(pos, End(s[m]))
    BY <2>1
  <2>3. \A i \in 1..Len(s) : i < m => ~Precedes(pos, End(s[i]))
    <3>1. SUFFICES ASSUME NEW i \in 1..Len(s), i < m, Precedes(pos, End(s[i])) PROVE FALSE
      OBVIOUS
    <3>2. i \in J
      BY <3>1
    <3> HIDE DEF J, m
    <3> QED BY <3>1, <3>2, <2>1, <2>2
  <2>4. rest = SubSeq(s, m, Len(s))
    BY <1>4 DEF IterFromBytePos
  <2> HIDE DEF J, m
  <2>5. rest # << >> /\ Head(rest) = s[m]
    <3>1. m - 1 \in 0..Len(s) /\ (m - 1) + 1 = m /\ 1 + (m - 1) = m
      BY <1>1, <2>2
    <3>2. /\ rest \in Seq(Frame) /\ Len(rest) = Len(s) - (m - 1)
          /\ \A i \in 1..(Len(s) - (m - 1)) : rest[i] = s[i + (m - 1)]
      BY <3>1, <2>4, Suffix
    <3> HIDE DEF rest
    <3>3. Len(rest) # 0 /\ 1 \in 1..(Len(s) - (m - 1))
      BY <3>2, <1>1, <2>2
    <3>4. rest # << >> /\ Head(rest) = rest[1]
      BY <3>2, <3>3
    <3> QED BY <3>1, <3>2, <3>3, <3>4
  <2>6. Behind(r, w, s) <=> IF rest # << >> /\ Head(rest).recording_id = r.id
                           THEN w < Head(rest).sample_start ELSE w < r.sample_file_bytes
    BY DEF Behind
  <2> HIDE DEF rest
  <2>7. m > 1 =>
          /\ m - 1 \in 1..Len(s) /\ m - 1 < m /\ m - 1 < Len(s)
          /\ (m - 1) + 1 = m
          /\ ~Precedes(pos, End(s[m - 1]))
          /\ \/ /\ s[m].recording_id = s[m - 1].recording_id
                /\ s[m].sample_start = s[m - 1].sample_start + s[m - 1].len
             \/ /\ s[m].recording_id = s[m - 1].recording_id + 1
                /\ s[m].sample_start = 0
    <3>1. SUFFICES ASSUME m > 1
                   PROVE  /\ m - 1 \in 1..Len(s) /\ m - 1 < m /\ m - 1 < Len(s)
                          /\ (m - 1) + 1 = m
                          /\ ~Precedes(pos, End(s[m - 1]))
                          /\ \/ /\ s[m].recording_id = s[m - 1].recording_id
                                /\ s[m].sample_start = s[m - 1].sample_start + s[m - 1].len
                             \/ /\ s[m].recording_id = s[m - 1].recording_id + 1
                                /\ s[m].sample_start = 0
      OBVIOUS
    <3>2. /\ m - 1 \in 1..Len(s) /\ m - 1 < m /\ m - 1 < Len(s) /\ (m - 1) + 1 = m
          /\ m - 1 \in 1..(Len(s) - 1)
      BY <3>1, <1>1, <2>2
    <3>3. ~Precedes(pos, End(s[m - 1]))
      BY <3>2, <2>3
    <3>4. \/ /\ s[(m - 1) + 1].recording_id = s[m - 1].recording_id
             /\ s[(m - 1) + 1].sample_start = s[m - 1].sample_start + s[m - 1].len
          \/ /\ s[(m - 1) + 1].recording_id = s[m - 1].recording_id + 1
             /\ s[(m - 1) + 1].sample_start = 0
      BY <3>2 DEF Contiguous
    <3> QED BY <3>2, <3>3, <3>4
  <2>8. CASE s[m].recording_id = r.id
    <3>1. SUFFICES ASSUME w < s[m].sample_start PROVE FALSE
      BY <2>5, <2>8, <2>6
    <3>2. r.sample_file_bytes # w
      BY <3>1, <2>2, <2>8, <1>2 DEF EndsAt
    <3>3. m # 1
      BY <3>1, <3>2, <2>8 DEF Covers, Precedes, StartOf, BytePos
    <3>4. m > 1
      BY <3>3, <2>2
    <3> QED BY <3>1, <3>4, <2>7, <2>8, <1>2 DEF Precedes, End, BytePos
  <2>9. CASE s[m].recording_id # r.id
    <3>1. SUFFICES ASSUME w < r.sample_file_bytes PROVE FALSE
      BY <2>5, <2>9, <2>6
    <3>2. s[m].recording_id > r.id
      BY <2>2, <2>9, <1>2 DEF Precedes, End, BytePos
    <3>3. m # 1
      BY <3>1, <3>2, <1>2 DEF Covers, Precedes, StartOf, BytePos
    <3>4. m > 1
      BY <3>3, <2>2
    <3>5. s[m - 1].recording_id = r.id /\ s[m - 1].sample_start + s[m - 1].len <= w
      BY SMTT(30), <3>2, <3>4, <2>7, <1>2 DEF Precedes, End, BytePos
    <3>6. s[m - 1].sample_start + s[m - 1].len = r.sample_file_bytes
      BY <3>4, <3>5, <2>7, <2>9 DEF EndsAt
    <3> QED BY <3>1, <3>5, <3>6
  <2> QED BY <2>8, <2>9
<1> QED BY <1>3, <1>4

\* Dropping from the front changes neither where recordings end nor the last.
LEMMA ShortenedEnds ==
  ASSUME NEW s \in Seq(Frame), NEW k, NEW f, Shortens(s, f, k), NEW r, EndsAt(s, r)
  PROVE  /\ EndsAt(f, r)
         /\ s # << >> => f # << >> /\ f[Len(f)] = s[Len(s)]
<1>1. /\ k \in 0..Len(s) /\ Len(s) \in Nat /\ f \in Seq(Frame) /\ Len(f) = Len(s) - k
      /\ \A i \in 1..(Len(s) - k) : f[i] = s[i + k]
      /\ s # << >> => k < Len(s) /\ Len(s) # 0
  BY DEF Shortens
<1>2. ASSUME NEW j \in 1..Len(f), f[j].recording_id = r.id
      PROVE  /\ f[j].sample_start + f[j].len <= r.sample_file_bytes
             /\ \/ f[j].sample_start + f[j].len = r.sample_file_bytes
                \/ j < Len(f) /\ f[j + 1].recording_id = r.id
  <2>1. j \in 1..(Len(s) - k) /\ j + k \in 1..Len(s) /\ j \in Nat
    BY <1>1
  <2>2. f[j] = s[j + k]
    BY <2>1, <1>1
  <2>3. j + k < Len(s) => j < Len(f) /\ j + 1 \in 1..(Len(s) - k) /\ (j + 1) + k = (j + k) + 1
    BY <2>1, <1>1
  <2>4. j + k < Len(s) => f[j + 1] = s[(j + k) + 1]
    BY <2>3, <1>1
  <2> QED BY <1>2, <2>1, <2>2, <2>3, <2>4 DEF EndsAt
<1>3. s # << >> => f # << >> /\ f[Len(f)] = s[Len(s)]
  <2>1. SUFFICES ASSUME s # << >> PROVE f # << >> /\ f[Len(f)] = s[Len(s)]
    OBVIOUS
  <2>2. Len(f) \in 1..(Len(s) - k) /\ Len(f) + k = Len(s) /\ Len(f) # 0
    BY <2>1, <1>1
  <2>3. f[Len(f)] = s[Len(f) + k]
    BY <2>2, <1>1
  <2> QED BY <2>2, <2>3
<1> QED BY <1>2, <1>3 DEF EndsAt

\* While the window is within the budget, prune_front drops what is written.
LEMMA FullyPruned ==
  ASSUME NEW s \in Seq(Frame), Fits(s), NEW pos, NEW k, Shortens(s, PruneFront(s, pos), k)
  PROVE  /\ Fits(PruneFront(s, pos))
         /\ \A j \in 1..k : ~Precedes(pos, End(s[j]))
<1> DEFINE f == PruneFront(s, pos)
           n == PruneCount(s, pos)
<1>1. PICK n0 \in 0..Len(s) : n0 = n /\ Len(f) = Len(s) - n0
  BY PruneFrontIsSuffix
<1>2. k \in 0..Len(s) /\ Len(f) = Len(s) - k
  BY DEF Shortens
<1>3. f = SubSeq(s, n + 1, Len(s))
  BY DEF PruneFront
<1>4. /\ n \in 0..LastGopI(s) /\ LastGopI(s) \in Nat
      /\ \A i \in 0..(n - 1) : ~Wanted(s, pos, i + 1)
  BY PruneCountStops, LastGopIsFrame
<1> HIDE DEF f, n
<1>5. k = n /\ n \in 0..Len(s)
  BY <1>1, <1>2
<1>6. CASE LastGopI(s) = 0
  <2>1. n = 0
    BY <1>4, <1>6
  <2>2. f = s
    BY <2>1, <1>3
  <2> QED BY <2>1, <2>2, <1>5 DEF f
<1>7. CASE TotalSampleBytes(s) <= BytesForWriter
  <2>1. Fits(f)
    <3>1. /\ TotalSampleBytes(f) \in Nat /\ TotalSampleBytes(s) \in Nat
          /\ TotalSampleBytes(f) <= TotalSampleBytes(s)
      BY <1>3, <1>5, LastFramesFit
    <3> QED BY <3>1, <1>7, BytesForWriterAssumption DEF Fits, BytesForWriterAssumption
  <2>2. ASSUME NEW j \in 1..k PROVE ~Precedes(pos, End(s[j]))
    <3>1. j - 1 \in 0..(n - 1) /\ j - 1 \in 0..Len(s) /\ (j - 1) + 1 = j
      BY <1>4, <1>5
    <3>2. ~Wanted(s, pos, j)
      <4>1. ~Wanted(s, pos, (j - 1) + 1)
        BY <3>1, <1>4
      <4> QED BY <3>1, <4>1
    <3> DEFINE u == SubSeq(s, j, Len(s))
    <3>3. /\ TotalSampleBytes(u) \in Nat /\ TotalSampleBytes(s) \in Nat
          /\ TotalSampleBytes(u) <= TotalSampleBytes(s)
      <4>1. u = SubSeq(s, (j - 1) + 1, Len(s))
        BY <3>1
      <4> QED BY <3>1, <4>1, LastFramesFit
    <3>4. TotalSampleBytes(u) <= BytesForWriter
      BY <3>3, <1>7, BytesForWriterAssumption DEF BytesForWriterAssumption
    <3> QED BY <3>2, <3>4 DEF Wanted
  <2> QED BY <2>1, <2>2 DEF f
<1> QED BY <1>6, <1>7 DEF Fits

LEMMA ShortenedIsContiguous ==
  ASSUME NEW s \in Seq(Frame), Contiguous(s), NEW k, NEW f, Shortens(s, f, k)
  PROVE  Contiguous(f)
<1>1. /\ k \in 0..Len(s) /\ Len(s) \in Nat /\ f \in Seq(Frame) /\ Len(f) = Len(s) - k
      /\ \A i \in 1..(Len(s) - k) : f[i] = s[i + k]
  BY DEF Shortens
<1>2. SUFFICES ASSUME NEW i \in 1..(Len(f) - 1)
               PROVE  \/ /\ f[i + 1].recording_id = f[i].recording_id
                         /\ f[i + 1].sample_start = f[i].sample_start + f[i].len
                      \/ /\ f[i + 1].recording_id = f[i].recording_id + 1
                         /\ f[i + 1].sample_start = 0
  BY DEF Contiguous
<1>3. /\ i \in 1..(Len(s) - k) /\ i + 1 \in 1..(Len(s) - k)
      /\ i + k \in 1..(Len(s) - 1) /\ (i + 1) + k = (i + k) + 1
  BY <1>1
<1>4. f[i] = s[i + k] /\ f[i + 1] = s[(i + k) + 1]
  BY <1>1, <1>3
<1> QED BY <1>3, <1>4 DEF Contiguous

-----------------------------------------------------------------------------
(* The worker's preparations.                                              *)

\* Where the last outcome leaves the worker, frames cover what isn't written.
LEMMA PreparesCovers ==
  ASSUME Inv, Kept, NEW n, NEW m, NEW ws, Rechosen(n, m, ws),
         NEW i \in DOMAIN recent_recordings, recent_recordings[i].id >= ws.recording_id,
         recent_recordings[i].id \notin excused
  PROVE  LET r == recent_recordings[i]
             w == WrittenOf(r, ws)
         IN  /\ w \in Nat /\ w <= r.sample_file_bytes
             /\ Covers(recent_frames', r, w)
             /\ ~Behind(r, w, recent_frames')
<1> DEFINE R == recent_recordings
           F == recent_frames
           r == recent_recordings[i]
           w0 == WrittenOf(r, writer_state)
           w == WrittenOf(r, ws)
<1>1. /\ r.id \in Nat /\ r.id <= Top /\ r.sample_file_bytes \in Nat /\ R # << >>
      /\ writer_state.written \in Nat /\ writer_state.recording_id = Current /\ Current \in Nat
      /\ io.n \in Nat
      /\ F \in Seq(Frame) /\ Contiguous(F) /\ F # << >> /\ F[Len(F)].recording_id = Top
  <2>1. R # << >> /\ R \in Seq(Recording) /\ i \in 1..Len(R)
    BY RecentRanges, Ranges
  <2>2. Len(R) \in DOMAIN R /\ R[Len(R)].id = (Top - Len(R)) + Len(R) /\ Len(R) \in Nat
    <3>1. Len(R) \in DOMAIN R /\ Len(R) \in Nat
      BY <2>1
    <3> QED BY <3>1, RecentRanges
  <2>3. R[Len(R)].id = Top
    BY <2>2, Ranges
  <2>4. F # << >> /\ F[Len(F)].recording_id = R[Len(R)].id
    BY <2>1 DEF Inv, Window, End, BytePos, Last
  <2>5. MaxBytes \in Nat
    BY Ranges
  <2>6. r.id \in Nat /\ r.id <= Top /\ r.sample_file_bytes \in Nat
    BY <2>5, RecentRanges
  <2>7. /\ writer_state.written \in Nat /\ writer_state.recording_id = Current
        /\ Current \in Nat /\ io.n \in Nat
    BY <2>5, Ranges
  <2> QED BY <2>1, <2>3, <2>4, <2>6, <2>7, InvIsContiguous
<1>2. /\ Shortens(F, F', m) /\ ws \in WriterState
      /\ \/ io.op = "Start" /\ ws = writer_state /\ F' = F
         \/ /\ io.op = "Written" /\ ws.recording_id = Current
            /\ ws.written = writer_state.written + io.n
            /\ F' = PruneFront(F, Pos(ws))
         \/ /\ io.op \in {"Synced", "Aborted"}
            /\ ws.recording_id = Current + 1 /\ ws.written = 0
            /\ F' = PruneFront(F, Pos(ws))
  <2>1. After(Current).written = 0
    BY DEF After
  <2> QED BY <2>1 DEF Rechosen
<1>3. ws.recording_id \in Nat /\ ws.written \in Nat /\ ws.recording_id >= Current
  <2>1. ws.recording_id \in Nat /\ ws.written \in Nat
    BY <1>2, Ranges DEF WriterState
  <2> QED BY <2>1, <1>1, <1>2
<1>4. \A j \in 1..m : ~Precedes(Pos(ws), End(F[j]))
  <2>1. CASE F' = F
    <3>1. m \in 0..Len(F) /\ Len(F) = Len(F) - m /\ Len(F) \in Nat
      BY <2>1, <1>1, <1>2 DEF Shortens
    <3>2. m = 0
      BY <3>1
    <3> QED BY <3>2
  <2>2. CASE F' = PruneFront(F, Pos(ws))
    BY <2>2, <1>1, <1>2, FullyPruned DEF Kept
  <2> QED BY <1>2, <2>1, <2>2
<1>5. Covers(F, r, w0) /\ EndsAt(F, r)
  <2>1. r.id >= Current
    BY <1>1, <1>3
  <2> QED BY <2>1 DEF Kept, Covered, FramesEnd
<1>6. w0 \in Nat /\ w \in Nat /\ w0 <= w
  <2>1. w0 = IF r.id = Current THEN writer_state.written ELSE 0
    BY <1>1 DEF WrittenOf
  <2>2. w = IF r.id = ws.recording_id THEN ws.written ELSE 0
    BY DEF WrittenOf
  <2> HIDE DEF w0, w, r
  <2>3. CASE ws.recording_id = Current
    <3>1. ws.written >= writer_state.written
      BY <2>3, <1>1, <1>2, <1>3
    <3> QED BY <2>1, <2>2, <2>3, <3>1, <1>1, <1>3
  <2>4. CASE ws.recording_id # Current
    <3>1. r.id # Current
      BY <2>4, <1>1, <1>3 DEF r
    <3> QED BY <3>1, <2>1, <2>2, <1>3
  <2> QED BY <2>3, <2>4
<1>7. w <= r.sample_file_bytes
  <2>1. CASE r.id = ws.recording_id /\ ws.recording_id = Current
    <3>1. InFile = ws.written
      <4>1. io.op \in {"Start", "Written"}
        BY <2>1, <1>1, <1>2
      <4> QED BY <2>1, <4>1, <1>1, <1>2 DEF InFile
    <3>2. InFile <= r.sample_file_bytes
      BY <2>1 DEF Kept, WrittenFits
    <3> QED BY <2>1, <3>1, <3>2 DEF WrittenOf
  <2>2. CASE ~(r.id = ws.recording_id /\ ws.recording_id = Current)
    <3>1. w = 0
      BY <2>2, <1>1, <1>2 DEF WrittenOf
    <3> QED BY <3>1, <1>1
  <2> QED BY <2>1, <2>2
<1>8. Covers(F, r, w)
  <2> HIDE DEF w0, w, r
  <2>1. CASE r.sample_file_bytes = w0
    <3>1. r.sample_file_bytes = w
      BY <2>1, <1>1, <1>6, <1>7
    <3> QED BY <3>1 DEF Covers
  <2>2. CASE ~Precedes(BytePos(r.id, w0), StartOf(F[1]))
    <3>1. F[1].recording_id \in Nat /\ F[1].sample_start \in Nat
      <4>1. 1 \in 1..Len(F)
        BY <1>1
      <4> QED BY <4>1, <1>1, FrameTypes
    <3>2. ~Precedes(BytePos(r.id, w), StartOf(F[1]))
      BY <2>2, <3>1, <1>1, <1>6 DEF Precedes, BytePos, StartOf
    <3> QED BY <3>2, <1>1 DEF Covers
  <2> QED BY <2>1, <2>2, <1>5 DEF Covers
<1>9. \A j \in 1..m : F[j].recording_id = r.id => ~Precedes(BytePos(r.id, w), End(F[j]))
  <2>1. SUFFICES ASSUME NEW j \in 1..m, F[j].recording_id = r.id
                 PROVE  ~Precedes(BytePos(r.id, w), End(F[j]))
    OBVIOUS
  <2>2. ~Precedes(Pos(ws), End(F[j]))
    BY <1>4
  <2>3. r.id = ws.recording_id
    <3>1. j \in 1..Len(F)
      BY <1>2, <1>1 DEF Shortens
    <3> QED BY <2>1, <2>2, <1>1, <1>3 DEF Precedes, Pos, BytePos, End
  <2>4. BytePos(r.id, w) = Pos(ws)
    BY <2>3 DEF Pos, WrittenOf
  <2> QED BY <2>2, <2>4
<1> HIDE DEF w, r
<1>10. Covers(F', r, w)
  BY <1>1, <1>2, <1>5, <1>6, <1>7, <1>8, <1>9, StillCovers
<1>11. F' \in Seq(Frame) /\ EndsAt(F', r) /\ F' # << >> /\ F'[Len(F')] = F[Len(F)]
  BY <1>1, <1>2, <1>5, ShortenedEnds DEF Shortens
<1>12. Contiguous(F')
  BY <1>1, <1>2, ShortenedIsContiguous
<1>13. ~Behind(r, w, F')
  <2>1. r.id <= F'[Len(F')].recording_id
    BY <1>1, <1>11
  <2> QED BY <2>1, <1>1, <1>6, <1>7, <1>10, <1>11, <1>12, CoveredIsNotBehind
<1> QED BY <1>6, <1>7, <1>10, <1>13 DEF w, r

LEMMA PreparesKeepsWindow ==
  ASSUME Inv, Kept, NEW n, NEW m, NEW ws, Rechosen(n, m, ws), UNCHANGED excused
  PROVE  Covered' /\ Fits(recent_frames)' /\ FramesEnd' /\ WrittenFits'
<1> DEFINE R == recent_recordings
           F == recent_frames
<1>1. /\ DOMAIN R' = 1..Len(R')
      /\ \A i \in DOMAIN R' :
           /\ i + n \in DOMAIN R /\ R'[i].id = R[i + n].id
           /\ R'[i].sample_file_bytes = R[i + n].sample_file_bytes
           /\ R'[i].id \in Nat /\ R'[i].sample_file_bytes \in Nat
  <2>1. R' \in Seq(Recording) /\ DOMAIN R' = 1..Len(R')
    BY DEF Rechosen
  <2>2. ASSUME NEW i \in DOMAIN R'
        PROVE  /\ i + n \in DOMAIN R /\ R'[i].id = R[i + n].id
               /\ R'[i].sample_file_bytes = R[i + n].sample_file_bytes
    BY <2>1 DEF Rechosen
  <2>3. ASSUME NEW i \in DOMAIN R' PROVE R'[i].id \in Nat /\ R'[i].sample_file_bytes \in Nat
    <3>1. MaxBytes \in Nat
      BY Ranges
    <3>2. R[i + n].id \in Nat /\ R[i + n].sample_file_bytes \in 1..MaxBytes
      BY <2>2, RecentRanges
    <3>3. R[i + n].sample_file_bytes \in Nat
      BY <3>1, <3>2
    <3> QED BY <2>2, <3>2, <3>3
  <2> QED BY <2>1, <2>2, <2>3
<1>2. /\ F \in Seq(Frame) /\ Shortens(F, F', m) /\ ws \in WriterState
      /\ ws.recording_id \in Nat /\ ws.written \in Nat
      /\ Current' = writer_state'.recording_id
  <2>1. MaxRecordings \in Nat /\ MaxBytes \in Nat
    BY Ranges
  <2>2. ws \in WriterState
    BY DEF Rechosen
  <2> QED BY <2>1, <2>2, Ranges DEF Rechosen, WriterState, Current
<1>3. /\ Current' \in Nat
      /\ \/ Current' = ws.recording_id /\ writer_state'.written = ws.written
         \/ Current' > ws.recording_id /\ writer_state'.written = 0
  BY DEF Rechosen
<1>4. Fits(F')
  <2>1. CASE F' = F
    BY <2>1 DEF Kept
  <2>2. CASE F' = PruneFront(F, Pos(ws))
    <3>1. Fits(F)
      BY DEF Kept
    <3> QED BY <2>2, <3>1, <1>2, FullyPruned
  <2> QED BY <2>1, <2>2 DEF Rechosen
<1>5. ASSUME NEW i \in DOMAIN R' PROVE EndsAt(F', R'[i])
  <2>1. EndsAt(F, R[i + n])
    BY <1>1 DEF Kept, FramesEnd
  <2>2. EndsAt(F', R[i + n])
    BY <2>1, <1>2, ShortenedEnds
  <2> QED BY <2>2, <1>1 DEF EndsAt
<1>6. ASSUME NEW i \in DOMAIN R', R'[i].id >= Current'
      PROVE  WrittenOf(R'[i], writer_state') = WrittenOf(R[i + n], ws)
             /\ R[i + n].id >= ws.recording_id
  <2>1. R'[i].id \in Nat /\ R'[i].id = R[i + n].id
    BY <1>1
  <2>2. CASE Current' = ws.recording_id /\ writer_state'.written = ws.written
    BY <2>1, <2>2, <1>2, <1>6 DEF WrittenOf
  <2>3. CASE Current' > ws.recording_id /\ writer_state'.written = 0
    <3>1. R[i + n].id > ws.recording_id
      BY <2>1, <2>3, <1>2, <1>3, <1>6
    <3>2. R[i + n].id # ws.recording_id
      BY <3>1, <2>1, <1>2
    <3> QED BY <3>1, <3>2, <2>1, <2>3, <1>2 DEF WrittenOf
  <2> QED BY <1>3, <2>2, <2>3
<1>7. ASSUME NEW i \in DOMAIN R', R'[i].id >= Current', R'[i].id \notin excused
      PROVE  Covers(F', R'[i], WrittenOf(R'[i], writer_state'))
  <2>1. Covers(F', R[i + n], WrittenOf(R[i + n], ws))
    BY <1>1, <1>6, <1>7, PreparesCovers
  <2> QED BY <2>1, <1>1, <1>6, <1>7 DEF Covers
<1>8. Covered'
  BY <1>2, <1>7 DEF Covered
<1>9. ASSUME NEW i \in DOMAIN R', R'[i].id = Current' PROVE InFile' <= R'[i].sample_file_bytes
  <2>1. CASE io'.op \in {"Create", "Write"}
    <3>1. InFile' = writer_state'.written + io'.n
      BY <2>1 DEF InFile
    <3>2. InFile' = R'[i].sample_file_bytes
      BY <3>1, <2>1, <1>1, <1>9 DEF Rechosen
    <3> QED BY <3>2, <1>1
  <2>2. CASE io'.op \notin {"Create", "Write"}
    <3>1. InFile' = writer_state'.written
      BY <2>2 DEF InFile, Rechosen
    <3>2. CASE writer_state'.written = 0
      BY <3>1, <3>2, <1>1
    <3>3. CASE Current' = ws.recording_id /\ writer_state'.written = ws.written
      <4>1. /\ \/ io.op = "Start" /\ ws = writer_state
               \/ /\ io.op = "Written" /\ ws.recording_id = Current
                  /\ ws.written = writer_state.written + io.n
               \/ io.op \in {"Synced", "Aborted"} /\ ws = After(Current)
        BY DEF Rechosen
      <4>2. CASE io.op \in {"Synced", "Aborted"}
        <5>1. ws.written = 0
          BY <4>1, <4>2 DEF After
        <5> QED BY <5>1, <3>1, <3>3, <1>1
      <4>3. CASE io.op \in {"Start", "Written"}
        <5>1. InFile = ws.written /\ ws.recording_id = Current
          BY <4>1, <4>3 DEF InFile, Current
        <5>2. R[i + n].id = Current
          BY <5>1, <3>3, <1>1, <1>9
        <5>3. InFile <= R[i + n].sample_file_bytes
          BY <5>2, <1>1 DEF Kept, WrittenFits
        <5> QED BY <5>1, <5>3, <3>1, <3>3, <1>1
      <4> QED BY <4>1, <4>2, <4>3
    <3> QED BY <1>3, <3>2, <3>3
  <2> QED BY <2>1, <2>2
<1>10. FramesEnd' /\ WrittenFits'
  BY <1>5, <1>9 DEF FramesEnd, WrittenFits
<1>11. Fits(recent_frames)'
  BY <1>4 DEF Fits
<1> QED BY <1>8, <1>10, <1>11

LEMMA PreparesKeepsAccounts ==
  ASSUME Inv, Inv', Kept, NEW n, NEW m, NEW ws, Rechosen(n, m, ws), WorkerUnchanged
  PROVE  Accounted'
<1> DEFINE R == recent_recordings
           F == recent_frames
<1>1. UNCHANGED <<committed, flush, row, removed, excused, cum_recordings>> /\ Top' = Top
  BY DEF WorkerUnchanged, historyVars, dbVars, Rechosen
<1>2. /\ DOMAIN R' = 1..Len(R') /\ DOMAIN R = 1..Len(R) /\ Len(R) \in Nat /\ n \in 0..Len(R)
      /\ Len(R') = Len(R) - n
  <2>1. R' \in Seq(Recording) /\ R \in Seq(Recording)
    BY Ranges DEF Rechosen
  <2> QED BY <2>1 DEF Rechosen
<1>3. /\ ws.recording_id \in Nat /\ Current \in Nat
      /\ ws.recording_id = Current \/ ws.recording_id = Current + 1
      /\ io.op = "Aborted" => ws.recording_id = Current + 1
  <2>1. ws \in WriterState
    BY DEF Rechosen
  <2>2. \/ io.op \in {"Start", "Written"} /\ ws.recording_id = Current
        \/ io.op \in {"Synced", "Aborted"} /\ ws.recording_id = Current + 1
    BY DEF Rechosen, Current
  <2> QED BY <2>1, <2>2, Ranges DEF WriterState
<1>4. ASSUME NEW id \in committed..Top, id \notin excused PROVE Alive(id)'
  <2>1. PICK k \in DOMAIN R : R[k].id = id /\ ~Deleted(R[k])
    BY <1>4 DEF Kept, Accounted, Alive
  <2>2. id \in Nat /\ committed \in Nat /\ committed <= id /\ id = R[k].id
    BY <2>1, <1>4, RecentRanges, Ranges
  <2>3. io.op = "Aborted" => id # Current
    BY <1>4 DEF Kept, Accounted
  <2>4. Uncommitted(R[k])
    BY <2>1, <2>2 DEF Inv, Working
  <2>5. id >= ws.recording_id =>
          /\ Covers(F', R[k], WrittenOf(R[k], ws))
          /\ WrittenOf(R[k], ws) \in Nat
          /\ ~Behind(R[k], WrittenOf(R[k], ws), F')
    BY <2>1, <2>2, <1>4, PreparesCovers
  <2>6. k \notin 1..n
    <3>1. SUFFICES ASSUME k \in 1..n PROVE FALSE
      OBVIOUS
    <3>2. /\ io.op = "Aborted" /\ R[k].id >= Current
          /\ F' # << >> => R[k].id < F'[1].recording_id
      BY <3>1, <2>1, <2>4 DEF Rechosen
    <3>3. id >= ws.recording_id /\ id # ws.recording_id - 1
      BY <3>2, <2>2, <2>3, <1>3
    <3>4. \/ R[k].sample_file_bytes = WrittenOf(R[k], ws)
          \/ ~(id < F'[1].recording_id) /\ F' # << >>
      BY <2>2, <2>5, <3>3 DEF Covers, Precedes, BytePos, StartOf
    <3>5. R[k].sample_file_bytes # WrittenOf(R[k], ws)
      <4>1. WrittenOf(R[k], ws) = 0
        BY <3>2 DEF WrittenOf, Rechosen, After
      <4>2. R[k].sample_file_bytes \in 1..MaxBytes /\ MaxBytes \in Nat
        BY RecentRanges, Ranges
      <4> QED BY <4>1, <4>2
    <3> QED BY <2>2, <3>2, <3>4, <3>5
  <2>7. k - n \in DOMAIN R' /\ (k - n) + n = k
    BY <2>1, <2>6, <1>2
  <2> DEFINE i == k - n
  <2> HIDE DEF i
  <2>8. i \in 1..Len(R') /\ i \in DOMAIN R' /\ i + n = k
    BY <2>7, <1>2 DEF i
  <2>9. /\ R'[i].id = R[k].id
        /\ R'[i].sample_file_bytes = R[k].sample_file_bytes
        /\ Deleted(R'[i]) => \/ Deleted(R[k])
                             \/ io.op = "Aborted" /\ R[k].id = Current
                             \/ /\ R[k].id \in ws.recording_id..(Current' - 1)
                                /\ Behind(R'[i], WrittenOf(R'[i], ws), F')
    BY <2>8 DEF Rechosen
  <2>10. WrittenOf(R'[i], ws) = WrittenOf(R[k], ws)
         /\ (Behind(R'[i], WrittenOf(R'[i], ws), F') <=> Behind(R[k], WrittenOf(R[k], ws), F'))
    BY <2>9 DEF WrittenOf, Behind
  <2>11. ~Deleted(R'[i])
    <3>1. SUFFICES ASSUME R[k].id \in ws.recording_id..(Current' - 1),
                          Behind(R[k], WrittenOf(R[k], ws), F')
                   PROVE  FALSE
      BY <2>1, <2>3, <2>9, <2>10
    <3>2. id >= ws.recording_id
      <4>1. Current' \in Nat
        BY DEF Rechosen
      <4> QED BY <3>1, <4>1, <2>2, <1>3
    <3> QED BY <3>1, <3>2, <2>5
  <2> QED BY <2>2, <2>8, <2>9, <2>11 DEF Alive
<1>5. \A id \in (committed..Top)' : Alive(id)' \/ id \in excused'
  BY <1>1, <1>4
<1>6. io'.op \in {"Abort", "Aborted"} => Current' \in excused'
  <2>1. SUFFICES ASSUME io'.op = "Abort", Current' \notin excused PROVE FALSE
    BY <1>1 DEF Rechosen
  <2>2. Current' \in cum_recordings'..Top'
    BY <2>1 DEF Inv, Working, Busy
  <2>3. Current' \in committed..Top
    <3>1. /\ committed \in Nat /\ cum_recordings \in Nat /\ committed <= cum_recordings
          /\ Top \in Int
      BY Ranges
    <3>2. \A id \in cum_recordings..Top : id \in committed..Top
      BY <3>1
    <3> QED BY <3>2, <2>2, <1>1
  <2>4. Alive(Current)'
    <3>1. ASSUME NEW id \in committed..Top, id = Current' PROVE Alive(Current)'
      BY <1>4, <2>1, <3>1 DEF Alive
    <3> QED BY <3>1, <2>3
  <2>5. PICK i \in DOMAIN R' : R'[i].id = Current'
    BY <2>4 DEF Alive
  <2>6. Behind(R'[i], writer_state'.written, F')
    BY <2>1, <2>5, <1>2 DEF Rechosen
  <2>7. /\ i + n \in DOMAIN R /\ R'[i].id = R[i + n].id
        /\ R'[i].sample_file_bytes = R[i + n].sample_file_bytes
    BY <2>5, <1>2 DEF Rechosen
  <2>8. R[i + n].id \in Nat
    BY <2>7, RecentRanges
  <2>9. /\ writer_state'.written = WrittenOf(R[i + n], ws)
        /\ R[i + n].id >= ws.recording_id
    <3>1. \/ Current' = ws.recording_id /\ writer_state'.written = ws.written
          \/ Current' > ws.recording_id /\ writer_state'.written = 0
      BY DEF Rechosen
    <3>2. R[i + n].id = Current'
      BY <2>5, <2>7
    <3> HIDE DEF R
    <3> QED BY <3>1, <3>2, <2>8, <1>3 DEF WrittenOf
  <2>10. ~Behind(R[i + n], WrittenOf(R[i + n], ws), F')
    BY <2>1, <2>5, <2>7, <2>9, PreparesCovers
  <2> QED BY <2>6, <2>7, <2>9, <2>10 DEF Behind
<1> QED BY <1>1, <1>5, <1>6 DEF Accounted, Kept

-----------------------------------------------------------------------------
(* The Writer.                                                             *)

\* The window with the frame that is pushed, and what is dropped from it.
Appended(G, m) ==
  /\ G \in Seq(Frame) /\ Contiguous(G) /\ Len(G) = Len(recent_frames) + 1
  /\ \A i \in 1..Len(recent_frames) : G[i] = recent_frames[i]
  /\ G[Len(G)].recording_id = complete
  /\ G[Len(G)].sample_start =
       IF recording_id = NoId THEN 0
       ELSE recent_recordings[Len(recent_recordings)].sample_file_bytes
  /\ Shortens(G, recent_frames', m)
  /\ m = PruneCount(G, Pos(writer_state))
  /\ recent_frames' = PruneFront(G, Pos(writer_state))
  /\ excused' = excused \cup Outrun(G, writer_state)

LEMMA PushAppends ==
  ASSUME Inv, NEW is_key \in BOOLEAN, NEW len \in FrameSizes, NEW close \in BOOLEAN,
         PushAndMaybeClose(is_key, len, close)
  PROVE  \E n, m, G : Written(is_key, close, n, m) /\ Appended(G, m)
<1> DEFINE R == recent_recordings
           F == recent_frames
           id == IF recording_id = NoId THEN complete ELSE recording_id
           fresh == [id |-> id, sample_file_bytes |-> 0, flags |-> {"GROWING", "UNCOMMITTED"}]
           opened == IF recording_id = NoId THEN Append(R, fresh) ELSE R
           begin == opened[Len(opened)].sample_file_bytes
           start == IF recording_id = NoId THEN 0 ELSE R[Len(R)].sample_file_bytes
           frame == [recording_id |-> id, is_key |-> is_key, sample_start |-> begin, len |-> len]
           G == Append(F, frame)
<1>1. PICK n, m : Written(is_key, close, n, m)
  BY PushIsWritten
<1>2. /\ recent_frames' = PruneFront(G, Pos(writer_state))
      /\ excused' = excused \cup Outrun(G, writer_state)
      /\ id < MaxRecordings /\ begin + len <= MaxBytes
  BY DEF PushAndMaybeClose
<1>3. /\ R \in Seq(Recording) /\ F \in Seq(Frame) /\ Len(R) \in Nat /\ Len(F) \in Nat
      /\ complete \in Nat /\ MaxRecordings \in Nat /\ MaxBytes \in Nat /\ Contiguous(F)
  BY InvIsContiguous, Ranges
<1>4. id = complete
  BY DEF Inv, Window
<1>5. begin = start
  <2>1. CASE recording_id = NoId
    <3>1. opened[Len(opened)] = fresh
      <4> HIDE DEF fresh
      <4> QED BY <1>3, <2>1
    <3> HIDE DEF opened
    <3> QED BY <2>1, <3>1
  <2>2. CASE recording_id # NoId
    BY <2>2
  <2> QED BY <2>1, <2>2
<1>6. start \in 0..MaxBytes
  <2>1. CASE recording_id # NoId
    <3>1. R # << >> /\ Len(R) \in DOMAIN R
      BY <2>1, LastGrows
    <3>2. R[Len(R)] \in Recording
      BY <1>3, <3>1
    <3> QED BY <2>1, <3>2 DEF Recording
  <2> QED BY <1>3, <2>1
<1>7. frame \in Frame /\ frame.recording_id = complete /\ frame.sample_start = start
  <2>1. complete \in Ids
    BY <1>2, <1>3, <1>4 DEF Ids
  <2> HIDE DEF id, begin, start
  <2> QED BY <2>1, <1>4, <1>5, <1>6 DEF Frame
<1> HIDE DEF frame, start
<1>8. /\ G \in Seq(Frame) /\ Len(G) = Len(F) + 1 /\ G[Len(F) + 1] = frame
      /\ \A i \in 1..Len(F) : G[i] = F[i]
  BY <1>3, <1>7
<1> HIDE DEF G
<1>9. Contiguous(G)
  <2>1. SUFFICES ASSUME NEW i \in 1..(Len(G) - 1)
                 PROVE  \/ /\ G[i + 1].recording_id = G[i].recording_id
                           /\ G[i + 1].sample_start = G[i].sample_start + G[i].len
                        \/ /\ G[i + 1].recording_id = G[i].recording_id + 1
                           /\ G[i + 1].sample_start = 0
    BY DEF Contiguous
  <2>2. i \in 1..Len(F) /\ G[i] = F[i]
    BY <1>3, <1>8
  <2>3. CASE i # Len(F)
    <3>1. i \in 1..(Len(F) - 1) /\ i + 1 \in 1..Len(F)
      BY <2>2, <2>3, <1>3
    <3>2. G[i + 1] = F[i + 1]
      BY <3>1, <1>8
    <3> QED BY <2>2, <3>1, <3>2, <1>3 DEF Contiguous
  <2>4. CASE i = Len(F)
    <3>1. F # << >> /\ R # << >> /\ Len(R) \in DOMAIN R
      <4>1. F # << >>
        BY <2>2, <2>4, <1>3
      <4>2. R # << >>
        BY <4>1 DEF Inv, Window
      <4> QED BY <4>1, <4>2, <1>3
    <3>2. End(F[Len(F)]) = BytePos(R[Len(R)].id, R[Len(R)].sample_file_bytes)
      BY <3>1 DEF Inv, Window, Last
    <3>3. /\ F[Len(F)].recording_id = R[Len(R)].id
          /\ F[Len(F)].sample_start + F[Len(F)].len = R[Len(R)].sample_file_bytes
      BY <3>2 DEF End, BytePos
    <3>4. R[Len(R)].id = Top
      <4>1. R[Len(R)].id = (Top - Len(R)) + Len(R)
        BY <3>1, RecentRanges
      <4> QED BY <4>1, <1>3, Ranges
    <3>5. G[i + 1] = frame
      BY <2>4, <1>8
    <3>6. CASE recording_id = NoId
      <4>1. start = 0 /\ complete = Top + 1
        BY <3>6, <1>3 DEF start, Top
      <4> QED BY <4>1, <2>2, <2>4, <3>3, <3>4, <3>5, <1>7
    <3>7. CASE recording_id # NoId
      <4>1. start = R[Len(R)].sample_file_bytes /\ complete = Top
        BY <3>7 DEF start, Top
      <4> QED BY <4>1, <2>2, <2>4, <3>3, <3>4, <3>5, <1>7
    <3> QED BY <3>6, <3>7
  <2> QED BY <2>3, <2>4
<1>10. Shortens(G, F', m) /\ m = PruneCount(G, Pos(writer_state))
  <2>1. PICK k \in 0..Len(G) :
          /\ k = PruneCount(G, Pos(writer_state))
          /\ G # << >> => k < Len(G)
          /\ F' \in Seq(Frame)
          /\ Len(F') = Len(G) - k
          /\ \A i \in 1..(Len(G) - k) : F'[i] = G[i + k]
    BY <1>2, <1>8, PruneFrontIsSuffix
  <2>2. m \in 0..Len(F) /\ Len(F') = Len(F) + 1 - m
    BY <1>1 DEF Written
  <2>3. m = k
    BY <2>1, <2>2, <1>3, <1>8
  <2> QED BY <2>1, <2>3 DEF Shortens
<1>11. G[Len(G)] = frame
  BY <1>8
<1>12. Appended(G, m)
  BY <1>2, <1>7, <1>8, <1>9, <1>10, <1>11 DEF Appended, start
<1> QED BY <1>1, <1>12

\* The recordings as the Writer leaves them, before any is dropped.
InPlay(r) ==
  \/ \E i \in DOMAIN recent_recordings : r = recent_recordings[i] /\ r.id < complete
  \/ r = recent_recordings'[Len(recent_recordings')]

LEMMA PushedInPlay ==
  ASSUME Inv, Kept, NEW is_key, NEW close, NEW n, NEW m, NEW G,
         Written(is_key, close, n, m), Appended(G, m), NEW r, InPlay(r)
  PROVE  LET w == WrittenOf(r, writer_state)
         IN  /\ r.id \in Nat /\ r.sample_file_bytes \in Nat /\ r.sample_file_bytes >= 1
             /\ w \in Nat
             /\ r.id = Current => InFile <= r.sample_file_bytes
             /\ r.id >= Current => w <= r.sample_file_bytes
             /\ EndsAt(G, r)
             /\ r.id >= Current /\ r.id \notin excused => Covers(G, r, w)
<1> DEFINE R == recent_recordings
           F == recent_frames
           w == WrittenOf(r, writer_state)
           q == R'[Len(R')]
<1>1. /\ R \in Seq(Recording) /\ F \in Seq(Frame) /\ Len(R) \in Nat /\ Len(F) \in Nat
      /\ DOMAIN R = 1..Len(R) /\ DOMAIN F = 1..Len(F) /\ Contiguous(F)
      /\ complete \in Nat /\ Current \in Nat /\ MaxBytes \in Nat
      /\ writer_state.written \in Nat /\ writer_state.recording_id = Current /\ io.n \in Nat
      /\ Top = IF recording_id = NoId THEN complete - 1 ELSE complete
  <2>1. MaxBytes \in Nat
    BY Ranges
  <2>2. writer_state.written \in Nat /\ io.n \in Nat /\ complete \in Nat /\ Current \in Nat
    BY <2>1, Ranges
  <2> QED BY <2>1, <2>2, InvIsContiguous, Ranges DEF Top
<1>2. /\ G \in Seq(Frame) /\ Contiguous(G) /\ Len(G) = Len(F) + 1
      /\ \A i \in 1..Len(F) : G[i] = F[i]
      /\ G[Len(G)].recording_id = complete
      /\ G[Len(G)].sample_start = IF recording_id = NoId THEN 0 ELSE R[Len(R)].sample_file_bytes
      /\ Shortens(G, F', m)
  BY DEF Appended
<1>3. /\ G # << >> /\ Len(G) \in 1..Len(G) /\ 1 \in 1..Len(G)
      /\ G[Len(G)].len \in Nat /\ G[Len(G)].len >= 1
      /\ G[1].recording_id \in Nat /\ G[1].sample_start \in Nat /\ G[1].len \in Nat
  <2>1. G # << >> /\ Len(G) \in 1..Len(G) /\ 1 \in 1..Len(G)
    BY <1>1, <1>2
  <2> QED BY <2>1, <1>2, FrameTypes
<1>4. F'[Len(F')] = G[Len(G)]
  <2>1. /\ m \in 0..Len(G) /\ m < Len(G) /\ Len(F') = Len(G) - m
        /\ \A i \in 1..(Len(G) - m) : F'[i] = G[i + m]
    BY <1>2, <1>3 DEF Shortens
  <2>2. Len(F') \in 1..(Len(G) - m) /\ Len(F') + m = Len(G)
    BY <2>1, <1>1, <1>2
  <2> QED BY <2>1, <2>2
<1>5. /\ q.id = complete
      /\ q.sample_file_bytes = G[Len(G)].sample_start + G[Len(G)].len
      /\ recording_id # NoId => R # << >> /\ Len(R) \in DOMAIN R /\ R[Len(R)].id = complete
  BY <1>4 DEF Written
<1>6. /\ w \in Nat
      /\ w = IF r.id = Current THEN writer_state.written ELSE 0
      /\ w <= InFile \/ r.id # Current
      /\ InFile \in Nat
  BY <1>1 DEF WrittenOf, InFile
<1> HIDE DEF q, w
<1>7. ASSUME NEW i \in DOMAIN R
      PROVE  /\ R[i].id \in Nat /\ R[i].sample_file_bytes \in Nat /\ R[i].sample_file_bytes >= 1
             /\ R[i].id = Current => InFile <= R[i].sample_file_bytes
             /\ EndsAt(F, R[i])
             /\ R[i].id >= Current /\ R[i].id \notin excused =>
                  Covers(F, R[i], WrittenOf(R[i], writer_state))
  <2>1. R[i].id \in Nat /\ R[i].sample_file_bytes \in 1..MaxBytes
    BY RecentRanges
  <2>2. R[i].sample_file_bytes \in Nat /\ R[i].sample_file_bytes >= 1
    BY <2>1, <1>1
  <2> QED BY <2>1, <2>2 DEF Kept, WrittenFits, FramesEnd, Covered
<1>8. CASE \E i \in DOMAIN R : r = R[i] /\ r.id < complete
  <2>1. PICK i \in DOMAIN R : r = R[i] /\ r.id < complete
    BY <1>8
  <2>2. /\ r.id \in Nat /\ r.sample_file_bytes \in Nat /\ r.sample_file_bytes >= 1
        /\ r.id = Current => InFile <= r.sample_file_bytes
        /\ EndsAt(F, r)
        /\ r.id >= Current /\ r.id \notin excused => Covers(F, r, w)
    BY <2>1, <1>7 DEF w
  <2>3. r.id >= Current => w <= r.sample_file_bytes
    BY <2>2, <1>6
  <2>4. EndsAt(G, r)
    <3>1. SUFFICES ASSUME NEW j \in 1..Len(G), G[j].recording_id = r.id
                   PROVE  /\ G[j].sample_start + G[j].len <= r.sample_file_bytes
                          /\ \/ G[j].sample_start + G[j].len = r.sample_file_bytes
                             \/ j < Len(G) /\ G[j + 1].recording_id = r.id
      BY DEF EndsAt
    <3>2. j # Len(G)
      BY <3>1, <2>1, <2>2, <1>1, <1>2
    <3>3. j \in 1..Len(F) /\ G[j] = F[j] /\ j < Len(G)
      BY <3>2, <1>1, <1>2
    <3>4. j < Len(F) => j + 1 \in 1..Len(F) /\ G[j + 1] = F[j + 1]
      BY <3>3, <1>1, <1>2
    <3> QED BY <3>1, <3>3, <3>4, <2>2 DEF EndsAt
  <2>5. r.id >= Current /\ r.id \notin excused => Covers(G, r, w)
    <3>1. F # << >> => G[1] = F[1]
      BY <1>1, <1>2
    <3> QED BY <3>1, <2>2, <1>3 DEF Covers
  <2> QED BY <2>2, <2>3, <2>4, <2>5, <1>6 DEF w
<1>9. CASE r = q /\ recording_id # NoId
  <2> DEFINE r0 == R[Len(R)]
  <2>1. /\ r.id = complete /\ r0.id = complete /\ Len(R) \in DOMAIN R /\ R # << >>
        /\ r.sample_file_bytes = r0.sample_file_bytes + G[Len(G)].len
        /\ G[Len(G)].sample_start = r0.sample_file_bytes
    BY <1>2, <1>5, <1>9
  <2>2. /\ r0.sample_file_bytes \in Nat /\ r0.sample_file_bytes >= 1
        /\ r0.id = Current => InFile <= r0.sample_file_bytes
        /\ EndsAt(F, r0)
        /\ r0.id >= Current /\ r0.id \notin excused =>
             Covers(F, r0, WrittenOf(r0, writer_state))
    BY <2>1, <1>7
  <2>3. WrittenOf(r0, writer_state) = w
    BY <2>1 DEF WrittenOf, w
  <2> HIDE DEF r0
  <2>4. /\ r.sample_file_bytes \in Nat /\ r.sample_file_bytes >= 1
        /\ r0.sample_file_bytes <= r.sample_file_bytes
    BY <2>1, <2>2, <1>3
  <2>5. r.id = Current => InFile <= r0.sample_file_bytes /\ InFile <= r.sample_file_bytes
    BY <2>1, <2>2, <2>4, <1>6
  <2>6. r.id >= Current => w <= r0.sample_file_bytes /\ w <= r.sample_file_bytes
    BY <2>2, <2>4, <2>5, <1>6
  <2>7. EndsAt(G, r)
    <3>1. SUFFICES ASSUME NEW j \in 1..Len(G), G[j].recording_id = complete
                   PROVE  /\ G[j].sample_start + G[j].len <= r.sample_file_bytes
                          /\ \/ G[j].sample_start + G[j].len = r.sample_file_bytes
                             \/ j < Len(G) /\ G[j + 1].recording_id = complete
      BY <2>1 DEF EndsAt
    <3>2. CASE j = Len(G)
      BY <3>2, <2>1, <2>4
    <3>3. CASE j # Len(G)
      <4>1. j \in 1..Len(F) /\ G[j] = F[j] /\ j + 1 \in 1..Len(G) /\ j < Len(G)
            /\ j + 1 \in j..Len(G) /\ Len(G) \in (j + 1)..Len(G)
        BY <3>3, <1>1, <1>2
      <4>2. /\ G[j].sample_start \in Nat /\ G[j].len \in Nat /\ G[j + 1].recording_id \in Nat
        BY <4>1, <1>2, FrameTypes
      <4>3. G[j].sample_start + G[j].len <= r0.sample_file_bytes
        BY <3>1, <4>1, <2>1, <2>2 DEF EndsAt
      <4>4. /\ G[j].recording_id <= G[j + 1].recording_id
            /\ G[j + 1].recording_id <= G[Len(G)].recording_id
        BY <4>1, <1>2, FramesOrdered
      <4>5. G[j + 1].recording_id = complete
        BY <3>1, <4>2, <4>4, <1>1, <1>2
      <4> QED BY <4>1, <4>2, <4>3, <4>5, <2>2, <2>4
    <3> QED BY <3>2, <3>3
  <2>8. r.id >= Current /\ r.id \notin excused => Covers(G, r, w)
    <3>1. SUFFICES ASSUME r.id >= Current, r.id \notin excused
                   PROVE  ~Precedes(BytePos(complete, w), StartOf(G[1]))
      BY <2>1, <1>3 DEF Covers
    <3>2. F # << >>
      BY <2>1 DEF Inv, Window
    <3>3. G[1] = F[1] /\ 1 \in 1..Len(F)
      BY <3>2, <1>1, <1>2
    <3>4. CASE ~Precedes(BytePos(complete, w), StartOf(F[1]))
      BY <3>3, <3>4
    <3>5. CASE r0.sample_file_bytes = w
      <4>1. F[1].recording_id <= complete
        <5>1. F[1].recording_id <= Top
          BY <3>3, <1>1 DEF Inv, Window
        <5>2. Top = complete
          BY <1>1, <1>9
        <5> QED BY <5>1, <5>2
      <4>2. F[1].recording_id = complete => F[1].sample_start + F[1].len <= w
        BY <3>3, <3>5, <2>1, <2>2 DEF EndsAt
      <4> QED BY <4>1, <4>2, <3>3, <1>1, <1>3, <1>6 DEF Precedes, BytePos, StartOf
    <3> QED BY <3>1, <3>4, <3>5, <2>1, <2>2, <2>3 DEF Covers
  <2> QED BY <2>1, <2>4, <2>5, <2>6, <2>7, <2>8, <1>1, <1>6 DEF w
<1>10. CASE r = q /\ recording_id = NoId
  <2>1. /\ r.id = complete /\ r.sample_file_bytes = G[Len(G)].len
        /\ G[Len(G)].sample_start = 0 /\ complete = Top + 1
    BY <1>1, <1>2, <1>3, <1>5, <1>10
  <2>2. r.sample_file_bytes \in Nat /\ r.sample_file_bytes >= 1
    BY <2>1, <1>3
  <2>3. r.id = Current => InFile = 0
    <3>1. SUFFICES ASSUME Current = Top + 1 PROVE InFile = 0
      BY <2>1
    <3>2. Current \notin cum_recordings..Top
      <4>1. cum_recordings \in Nat /\ Top \in Int
        BY Ranges
      <4> QED BY <4>1, <3>1
    <3>3. ~Busy /\ ~writer_state.file
      BY <3>2 DEF Inv, Working
    <3>4. ~(writer_state.written > 0)
      BY <3>3 DEF Inv, Working, FileIffWritten, Busy
    <3>5. InFile = writer_state.written
      BY <3>3 DEF InFile, Busy
    <3> QED BY <3>4, <3>5, <1>1
  <2>4. w = 0
    BY <2>3, <1>6
  <2>5. EndsAt(G, r)
    <3>1. SUFFICES ASSUME NEW j \in 1..Len(G), G[j].recording_id = complete
                   PROVE  /\ G[j].sample_start + G[j].len <= r.sample_file_bytes
                          /\ G[j].sample_start + G[j].len = r.sample_file_bytes
      BY <2>1 DEF EndsAt
    <3>2. j = Len(G)
      <4>1. SUFFICES ASSUME j \in 1..Len(F) PROVE FALSE
        BY <1>1, <1>2
      <4>2. F[j].recording_id <= Top
        BY <4>1, <1>1 DEF Inv, Window
      <4>3. F[j].recording_id = Top + 1 /\ Top \in Int
        BY <3>1, <4>1, <2>1, <1>1, <1>2, Ranges
      <4> QED BY <4>2, <4>3
    <3> QED BY <3>2, <2>1, <2>2
  <2>6. Covers(G, r, w)
    <3>1. SUFFICES ~Precedes(BytePos(complete, 0), StartOf(G[1]))
      BY <2>1, <2>4, <1>3 DEF Covers
    <3>2. CASE F = << >>
      <4>1. Len(G) = 1
        BY <3>2, <1>2
      <4> QED BY <4>1, <2>1, <1>1, <1>2 DEF Precedes, BytePos, StartOf
    <3>3. CASE F # << >>
      <4>1. 1 \in 1..Len(F) /\ G[1] = F[1]
        BY <3>3, <1>1, <1>2
      <4>2. G[1].recording_id <= Top
        BY <4>1, <1>1 DEF Inv, Window
      <4>3. G[1].recording_id < complete
        <5>1. Top \in Int
          BY Ranges
        <5> QED BY <4>2, <5>1, <2>1, <1>3
      <4> QED BY <4>3, <1>1, <1>3 DEF Precedes, BytePos, StartOf
    <3> QED BY <3>2, <3>3
  <2>7. InFile <= r.sample_file_bytes \/ r.id # Current
    BY <2>2, <2>3
  <2> QED BY <2>1, <2>2, <2>4, <2>5, <2>6, <2>7, <1>1 DEF w
<1> QED BY <1>8, <1>9, <1>10 DEF InPlay, q

\* Without what lies before it, the last group of pictures is the first.
LEMMA LastGopDropped ==
  ASSUME NEW s \in Seq(Frame), NEW f, Shortens(s, f, LastGopI(s))
  PROVE  LastGopI(f) = 0
<1> DEFINE k == LastGopI(s)
           keys == {i \in 1..Len(f) : f[i].is_key}
<1>1. /\ k \in Nat /\ k \in 0..Len(s) /\ Len(s) \in Nat /\ Len(f) = Len(s) - k
      /\ \A i \in 1..(Len(s) - k) : f[i] = s[i + k]
  BY LastGopIsFrame DEF Shortens
<1> HIDE DEF k
<1>2. ASSUME NEW i \in keys PROVE i = 1
  <2>1. i \in 1..(Len(s) - k) /\ f[i].is_key /\ i + k \in 1..Len(s)
    BY <1>1
  <2>2. s[i + k].is_key
    BY <2>1, <1>1
  <2>3. (i + k) - 1 <= k
    BY <2>1, <2>2, KeysLead DEF k
  <2> QED BY <2>1, <2>3, <1>1
<1>3. CASE keys = {}
  BY <1>3 DEF LastGopI
<1>4. CASE keys # {}
  <2>1. keys = {1}
    <3> HIDE DEF keys
    <3> QED BY <1>2, <1>4
  <2>2. keys \subseteq 0..1 /\ 1 \in Nat
    BY <2>1
  <2> HIDE DEF keys
  <2>3. Max(keys) \in keys
    BY <1>4, <2>2, MaxIsGreatest
  <2>4. LastGopI(f) = Max(keys) - 1
    BY <1>4 DEF LastGopI, keys
  <2> QED BY <2>1, <2>3, <2>4
<1> QED BY <1>3, <1>4

\* prune_front leaves no more than the budget, or one group of pictures.
LEMMA PrunedFits ==
  ASSUME NEW s \in Seq(Frame), NEW pos,
         Shortens(s, PruneFront(s, pos), PruneCount(s, pos))
  PROVE  Fits(PruneFront(s, pos))
<1> DEFINE n == PruneCount(s, pos)
           f == PruneFront(s, pos)
<1>1. f = SubSeq(s, n + 1, Len(s))
  BY DEF PruneFront
<1>2. n = LastGopI(s) \/ Wanted(s, pos, n + 1)
  BY PruneCountStops
<1> HIDE DEF n, f
<1>3. CASE n = LastGopI(s)
  BY <1>3, LastGopDropped DEF Fits, n, f
<1>4. CASE Wanted(s, pos, n + 1)
  BY <1>1, <1>4 DEF Fits, Wanted, f
<1> QED BY <1>2, <1>3, <1>4

\* What lost frames before it was written is excused.
LEMMA PushedIsCovered ==
  ASSUME Inv, Kept, NEW is_key, NEW close, NEW n, NEW m, NEW G,
         Written(is_key, close, n, m), Appended(G, m), NEW r, InPlay(r),
         r.id >= Current, r.id \notin excused'
  PROVE  Covers(recent_frames', r, WrittenOf(r, writer_state))
<1> DEFINE F == recent_frames
           w == WrittenOf(r, writer_state)
<1>1. /\ r.id \in Nat /\ r.sample_file_bytes \in Nat /\ w \in Nat
      /\ w <= r.sample_file_bytes /\ EndsAt(G, r)
      /\ r.id \notin excused => Covers(G, r, w)
  BY PushedInPlay
<1>2. /\ G \in Seq(Frame) /\ Contiguous(G) /\ Shortens(G, F', m) /\ Len(G) \in Nat
      /\ m = PruneCount(G, Pos(writer_state)) /\ m \in 0..Len(G)
      /\ excused' = excused \cup Outrun(G, writer_state)
  BY DEF Appended, Shortens
<1>3. Current \in Nat /\ writer_state.recording_id = Current
  <2>1. MaxRecordings \in Nat
    BY Ranges
  <2> QED BY <2>1, Ranges
<1>4. ASSUME NEW j \in 1..m, G[j].recording_id = r.id, Precedes(BytePos(r.id, w), End(G[j]))
      PROVE  FALSE
  <2>1. Precedes(Pos(writer_state), End(G[j]))
    <3>1. CASE r.id = Current
      BY <3>1, <1>3, <1>4 DEF Pos, WrittenOf
    <3>2. CASE r.id # Current
      BY <3>2, <1>1, <1>3, <1>4 DEF Pos, BytePos, Precedes, End
    <3> QED BY <3>1, <3>2
  <2>2. G[j].recording_id \in Outrun(G, writer_state)
    BY <2>1, <1>2 DEF Outrun
  <2> QED BY <2>2, <1>2, <1>4
<1> HIDE DEF w
<1>5. Covers(G, r, w)
  BY <1>1, <1>2
<1> QED BY <1>1, <1>2, <1>4, <1>5, StillCovers DEF w

LEMMA WriteKeepsKept ==
  ASSUME Inv, Inv', Kept, Write
  PROVE  Kept'
<1> DEFINE R == recent_recordings
           F == recent_frames
           q == R'[Len(R')]
<1>1. PICK is_key \in BOOLEAN, len \in FrameSizes, close \in BOOLEAN :
        PushAndMaybeClose(is_key, len, close)
  BY DEF Write
<1>2. PICK n, m, G : Written(is_key, close, n, m) /\ Appended(G, m)
  BY <1>1, PushAppends
<1>3. /\ UNCHANGED <<writer_state, committed, flush, row, cum_recordings, removed>>
      /\ excused \subseteq excused'
      /\ io' = io \/ (io.op = "Idle" /\ io'.op = "Start")
      /\ Current' = Current
  <2>1. UNCHANGED <<writer_state, committed, flush, dbVars, removed>>
    BY <1>1 DEF PushAndMaybeClose
  <2>2. io' = io \/ (io.op = "Idle" /\ io' = [op |-> "Start", n |-> 0])
    BY <1>1 DEF PushAndMaybeClose
  <2>3. excused \subseteq excused'
    BY <1>2 DEF Appended
  <2> QED BY <2>1, <2>2, <2>3 DEF Current, dbVars
<1>4. Top' = complete
  <2>1. complete \in Nat /\ recording_id \in {NoId, complete}
    BY Ranges DEF Inv, Window
  <2>2. /\ complete' = IF close THEN complete + 1 ELSE complete
        /\ recording_id' = IF close THEN NoId
                           ELSE IF recording_id = NoId THEN complete ELSE recording_id
    BY <1>1 DEF PushAndMaybeClose
  <2> QED BY <2>1, <2>2 DEF Top, NoId
<1>5. /\ DOMAIN R = 1..Len(R) /\ Len(R) \in Nat /\ Len(R') \in Nat
      /\ n \in Nat /\ Current \in Nat /\ committed \in Nat /\ complete \in Nat
      /\ writer_state.recording_id = Current
      /\ Top = IF recording_id = NoId THEN complete - 1 ELSE complete
  <2>1. R \in Seq(Recording) /\ R' \in Seq(Recording)
    BY DEF Inv, Typed
  <2>2. MaxRecordings \in Nat /\ Current \in 0..MaxRecordings /\ committed \in 0..MaxRecordings
        /\ complete \in 0..MaxRecordings /\ writer_state.recording_id = Current
    BY Ranges
  <2>3. n \in Nat
    BY <1>2 DEF Written
  <2>4. DOMAIN R = 1..Len(R) /\ Len(R) \in Nat /\ Len(R') \in Nat
    BY <2>1
  <2>5. Current \in Nat /\ committed \in Nat /\ complete \in Nat
    BY <2>2
  <2> QED BY <2>2, <2>3, <2>4, <2>5 DEF Top
<1>6. /\ Len(R') = IF recording_id = NoId THEN Len(R) + 1 - n ELSE Len(R) - n
      /\ Len(R') \in DOMAIN R' /\ DOMAIN R' = 1..Len(R')
      /\ \A i \in 1..(Len(R') - 1) : i + n \in DOMAIN R /\ R'[i] = R[i + n]
      /\ \A i \in 1..n : i \in DOMAIN R /\ ~StillNeeded(R[i], F', writer_state)
      /\ q.id = complete
      /\ IF recording_id = NoId THEN ~Deleted(q)
         ELSE /\ Len(R) \in DOMAIN R /\ R[Len(R)].id = complete
              /\ Deleted(q) <=> Deleted(R[Len(R)])
  BY <1>2 DEF Written
<1> HIDE DEF q
<1>7. ASSUME NEW k \in DOMAIN R
      PROVE  /\ R[k].id = (Top - Len(R)) + k /\ R[k].id \in Nat /\ k \in 1..Len(R)
             /\ R[k].id < complete <=> k < Len(R) \/ recording_id = NoId
  <2>1. R[k].id = (Top - Len(R)) + k /\ R[k].id \in Nat /\ k \in 1..Len(R)
    BY RecentRanges
  <2> HIDE DEF R
  <2> QED BY <2>1, <1>5
<1>8. ASSUME NEW i \in DOMAIN R' PROVE InPlay(R'[i])
  <2>1. CASE i = Len(R')
    BY <2>1 DEF InPlay
  <2>2. CASE i # Len(R')
    <3> DEFINE last == Len(R')
    <3>0. last \in Nat /\ i \in 1..last /\ n \in Nat /\ Len(R) \in Nat
          /\ last = IF recording_id = NoId THEN Len(R) + 1 - n ELSE Len(R) - n
      BY <1>5, <1>6
    <3> HIDE DEF last
    <3>1. i \in 1..(last - 1)
      BY <2>2, <3>0 DEF last
    <3>2. i + n \in DOMAIN R /\ R'[i] = R[i + n]
      BY <3>1, <1>6 DEF last
    <3>3. i + n < Len(R) \/ recording_id = NoId
      BY <3>0, <3>1
    <3> QED BY <3>2, <3>3, <1>7 DEF InPlay
  <2> QED BY <2>1, <2>2
<1>9. ASSUME NEW r, InPlay(r)
      PROVE  /\ EndsAt(F', r)
             /\ r.id = Current => InFile' <= r.sample_file_bytes
             /\ r.id >= Current /\ r.id \notin excused' => Covers(F', r, WrittenOf(r, writer_state))
  <2>1. EndsAt(G, r) /\ (r.id = Current => InFile <= r.sample_file_bytes)
    BY <1>2, <1>9, PushedInPlay
  <2>2. G \in Seq(Frame) /\ Shortens(G, F', m)
    BY <1>2 DEF Appended
  <2>3. InFile' = InFile
    BY <1>3 DEF InFile
  <2> QED BY <2>1, <2>2, <2>3, <1>2, <1>9, ShortenedEnds, PushedIsCovered
<1>10. Covered' /\ FramesEnd' /\ WrittenFits'
  <2>1. WrittenFits' /\ FramesEnd'
    BY <1>3, <1>8, <1>9 DEF FramesEnd, WrittenFits
  <2>2. Covered'
    BY <1>3, <1>8, <1>9 DEF Covered
  <2> QED BY <2>1, <2>2
<1>11. Fits(F')
  <2>1. /\ G \in Seq(Frame) /\ F' = PruneFront(G, Pos(writer_state))
        /\ Shortens(G, F', PruneCount(G, Pos(writer_state)))
    BY <1>2 DEF Appended
  <2> QED BY <2>1, PrunedFits
<1>12. ASSUME NEW id \in committed..complete, id \notin excused' PROVE Alive(id)'
  <2>1. id \in Nat /\ committed <= id /\ id <= complete
    BY <1>5
  <2>2. CASE recording_id = NoId /\ id = complete
    BY <2>2, <1>6 DEF Alive, q
  <2>3. CASE ~(recording_id = NoId /\ id = complete)
    <3>1. id \in committed..Top
      BY <2>1, <2>3, <1>5
    <3>2. PICK k \in DOMAIN R : R[k].id = id /\ ~Deleted(R[k])
      BY <3>1, <1>3, <1>12 DEF Kept, Accounted, Alive
    <3>3. Uncommitted(R[k])
      BY <3>2, <2>1 DEF Inv, Working
    <3>4. CASE id = complete
      <4>1. recording_id # NoId /\ k = Len(R)
        BY <2>3, <3>2, <3>4, <1>5, <1>7
      <4> QED BY <3>2, <3>4, <4>1, <1>6 DEF Alive, q
    <3>5. CASE id < complete
      <4>1. InPlay(R[k])
        BY <3>2, <3>5 DEF InPlay
      <4>2. k \notin 1..n
        <5>1. SUFFICES ASSUME k \in 1..n PROVE FALSE
          OBVIOUS
        <5>2. ~StillNeeded(R[k], F', writer_state)
          BY <5>1, <1>6
        <5>3. /\ id >= Current
              /\ ~(id = Current /\ writer_state.written = R[k].sample_file_bytes)
              /\ F' # << >> => ~(id >= Head(F').recording_id)
          BY <5>2, <3>2, <3>3, <2>1, <1>5 DEF StillNeeded
        <5>4. Covers(F', R[k], WrittenOf(R[k], writer_state))
          BY <4>1, <5>3, <3>2, <1>9, <1>12
        <5>5. R[k].sample_file_bytes # WrittenOf(R[k], writer_state)
          <6>1. R[k].sample_file_bytes \in 1..MaxBytes /\ MaxBytes \in Nat
            BY RecentRanges, Ranges
          <6> HIDE DEF R
          <6> QED BY <6>1, <5>3, <3>2, <1>5 DEF WrittenOf
        <5>6. F' # << >> /\ ~(id < F'[1].recording_id)
          BY <5>4, <5>5, <3>2 DEF Covers, Precedes, BytePos, StartOf
        <5>7. F' \in Seq(Frame) /\ Head(F') = F'[1] /\ F'[1].recording_id \in Nat
          <6>1. F' \in Seq(Frame)
            BY DEF Inv, Typed
          <6>2. 1 \in 1..Len(F') /\ Head(F') = F'[1]
            BY <6>1, <5>6
          <6> QED BY <6>1, <6>2, FrameTypes
        <5> QED BY <5>3, <5>6, <5>7, <2>1
      <4>3. k - n \in 1..(Len(R') - 1) /\ (k - n) + n = k
        <5>1. k \in 1..Len(R) /\ (k < Len(R) \/ recording_id = NoId)
          BY <3>2, <3>5, <1>7
        <5>2. k > n
          BY <5>1, <4>2, <1>5
        <5> QED BY <5>1, <5>2, <1>5, <1>6
      <4>4. R'[k - n] = R[k] /\ k - n \in DOMAIN R'
        <5>1. k - n \in DOMAIN R'
          <6>1. Len(R') \in Nat /\ DOMAIN R' = 1..Len(R')
            BY <1>5, <1>6
          <6> QED BY <4>3, <6>1
        <5>2. R'[k - n] = R[(k - n) + n]
          BY <4>3, <1>6
        <5> QED BY <5>1, <5>2, <4>3
      <4> QED BY <4>4, <3>2 DEF Alive
    <3> QED BY <3>4, <3>5, <2>1, <1>5
  <2> QED BY <2>2, <2>3
<1>13. Accounted'
  <2>1. \A id \in (committed..Top)' : Alive(id)' \/ id \in excused'
    BY <1>3, <1>4, <1>12
  <2>2. \A id \in 0..(cum_recordings - 1) : id \in DOMAIN row \cup removed \cup excused'
    BY <1>3 DEF Kept, Accounted
  <2>3. flush.pc = "Collected" /\ flush.cum # NoId =>
          \A id \in committed..(flush.cum - 1) : id \in DOMAIN flush.new \cup excused'
    BY <1>3 DEF Kept, Accounted
  <2>4. io'.op \in {"Abort", "Aborted"} => Current \in excused'
    BY <1>3 DEF Kept, Accounted
  <2> QED BY <2>1, <2>2, <2>3, <2>4, <1>3 DEF Accounted
<1>14. Fits(recent_frames)'
  BY <1>11 DEF Fits
<1> QED BY <1>10, <1>13, <1>14 DEF Kept

-----------------------------------------------------------------------------
(* The worker's I/O, and steps that touch neither recordings nor frames.   *)

Scene == <<recent_recordings, recent_frames, complete, recording_id, committed,
           writer_state>>

\* What a flush has collected leaves none out.
CollectedAll ==
  flush.pc = "Collected" /\ flush.cum # NoId =>
    \A id \in committed..(flush.cum - 1) : id \in DOMAIN flush.new \cup excused

LEMMA InFileIsNatural ==
  ASSUME Inv
  PROVE  InFile \in Nat /\ writer_state.written \in Nat /\ io.n \in Nat
<1>1. MaxBytes \in Nat
  BY Ranges
<1>2. writer_state.written \in Nat /\ io.n \in Nat
  BY <1>1, Ranges
<1> QED BY <1>2 DEF InFile

LEMMA SteadyKeepsKept ==
  ASSUME Inv, Inv', Kept, UNCHANGED <<Scene, row, removed, cum_recordings>>,
         excused \subseteq excused', InFile' <= InFile,
         io'.op \in {"Abort", "Aborted"} => Current \in excused',
         CollectedAll'
  PROVE  Kept'
<1>1. /\ UNCHANGED <<recent_recordings, recent_frames, complete, recording_id, committed,
                     writer_state, row, removed, cum_recordings>>
      /\ Current' = Current /\ Top' = Top
  BY DEF Scene, Current, Top
<1>2. Covered' /\ Fits(recent_frames)' /\ FramesEnd'
  BY <1>1 DEF Kept, Covered, Fits, FramesEnd
<1>3. WrittenFits'
  <2>1. ASSUME NEW i \in DOMAIN recent_recordings, recent_recordings[i].id = Current
        PROVE  InFile' <= recent_recordings[i].sample_file_bytes
    <3>1. InFile <= recent_recordings[i].sample_file_bytes
      BY <2>1 DEF Kept, WrittenFits
    <3>2. InFile \in Nat /\ InFile' \in Nat
      <4>1. writer_state'.written \in 0..MaxBytes /\ io'.n \in 0..MaxBytes /\ MaxBytes \in Nat
        BY Ranges DEF Inv, Typed
      <4>2. writer_state'.written \in Nat /\ io'.n \in Nat
        BY <4>1
      <4> QED BY <4>2, InFileIsNatural DEF InFile
    <3>3. recent_recordings[i].sample_file_bytes \in 1..MaxBytes /\ MaxBytes \in Nat
      BY RecentRanges, Ranges
    <3> HIDE DEF InFile
    <3> QED BY <3>1, <3>2, <3>3
  <2> QED BY <2>1, <1>1 DEF WrittenFits
<1>4. Accounted'
  <2>1. ASSUME NEW id \in committed..Top PROVE Alive(id)' \/ id \in excused'
    BY <2>1, <1>1 DEF Kept, Accounted, Alive
  <2> QED BY <2>1, <1>1 DEF Kept, Accounted, CollectedAll
<1> QED BY <1>2, <1>3, <1>4 DEF Kept

LEMMA WorkerKeepsKept ==
  ASSUME Inv, Inv', FilesKnown, Kept, Worker
  PROVE  Kept'
<1>1. CASE PrepStart \/ PrepWritten \/ PrepAborted \/ PrepSynced
  <2>1. Prepares
    BY <1>1, PrepPrepares
  <2>2. PICK n, m, ws : Rechosen(n, m, ws) /\ WorkerUnchanged
    BY <2>1, PreparesRechoose
  <2>3. UNCHANGED excused
    BY <2>2 DEF WorkerUnchanged, historyVars
  <2> QED BY <2>2, <2>3, PreparesKeepsWindow, PreparesKeepsAccounts DEF Kept
<1>2. ASSUME UNCHANGED streamVars, UNCHANGED recording_id, UNCHANGED flush, UNCHANGED dbVars,
             UNCHANGED removed, excused \subseteq excused', InFile' <= InFile,
             io'.op \in {"Abort", "Aborted"} => Current \in excused'
      PROVE  Kept'
  <2>1. UNCHANGED <<Scene, row, removed, cum_recordings>>
    BY <1>2 DEF Scene, streamVars, dbVars
  <2>2. CollectedAll'
    BY <1>2, <2>1 DEF Scene, CollectedAll, Kept, Accounted
  <2> QED BY <1>2, <2>1, <2>2, SteadyKeepsKept
<1>3. /\ writer_state.written \in Nat /\ io.n \in Nat
      /\ InFile = IF io.op \in {"Create", "Write", "Written"}
                  THEN writer_state.written + io.n ELSE writer_state.written
  BY InFileIsNatural DEF InFile
<1>4. ASSUME UNCHANGED writer_state, io'.op \notin {"Create", "Write", "Written"}
      PROVE  InFile' <= InFile
  <2>1. InFile' = writer_state.written
    BY <1>4 DEF InFile
  <2> QED BY <2>1, <1>3
<1>5. CASE WriteBytes
  <2>1. /\ UNCHANGED streamVars /\ UNCHANGED recording_id /\ UNCHANGED flush /\ UNCHANGED dbVars
        /\ UNCHANGED removed /\ UNCHANGED excused /\ UNCHANGED writer_state
        /\ io.op \in {"Create", "Write"}
    BY <1>5 DEF WriteBytes, historyVars, streamVars
  <2>2. PICK k \in 1..io.n : io' = [op |-> "Written", n |-> k]
    BY <1>5 DEF WriteBytes
  <2>3. InFile' = writer_state.written + k /\ InFile = writer_state.written + io.n
    BY <2>1, <2>2 DEF InFile
  <2>4. InFile' <= InFile
    BY <2>3, <1>3
  <2>5. io'.op = "Written"
    BY <2>2
  <2> QED BY <2>1, <2>4, <2>5, <1>2
<1>6. CASE CreateFails
  <2>1. /\ UNCHANGED streamVars /\ UNCHANGED recording_id /\ UNCHANGED flush /\ UNCHANGED dbVars
        /\ UNCHANGED removed /\ UNCHANGED writer_state
        /\ io.op = "Create" /\ io'.op = "Aborted" /\ Busy
    BY <1>6 DEF CreateFails, streamVars, Busy
  <2>2. ~file[Current].exists
    <3>1. ~InHand /\ process = "running" /\ Current \in Ids /\ committed <= Current
          /\ Current >= Current
      BY <2>1, BusyIsAhead, FileTypes DEF InHand
    <3> QED BY <3>1 DEF FilesKnown, FilesAhead
  <2>3. excused' = excused \cup {Current}
    BY <2>2, <1>6 DEF CreateFails
  <2> QED BY <2>1, <2>3, <1>2, <1>4
<1>7. ASSUME NEW unlinked \in BOOLEAN, AbortFile(unlinked), excused \subseteq excused',
             Current \in excused'
      PROVE  Kept'
  <2>1. /\ UNCHANGED streamVars /\ UNCHANGED recording_id /\ UNCHANGED flush /\ UNCHANGED dbVars
        /\ UNCHANGED removed /\ UNCHANGED writer_state /\ io'.op = "Aborted"
    BY <1>7 DEF AbortFile, streamVars
  <2> QED BY <2>1, <1>2, <1>4, <1>7
<1>8. CASE Abort
  <2>1. Current \in excused /\ UNCHANGED excused
    BY <1>8 DEF Abort, Kept, Accounted
  <2> QED BY <2>1, <1>7, <1>8 DEF Abort
<1>9. CASE FileIoFails
  BY <1>7, <1>9 DEF FileIoFails
<1>10. CASE SyncFile \/ SyncDir
  <2>1. /\ UNCHANGED streamVars /\ UNCHANGED recording_id /\ UNCHANGED flush /\ UNCHANGED dbVars
        /\ UNCHANGED removed /\ UNCHANGED excused /\ UNCHANGED writer_state
        /\ io'.op \in {"SyncDir", "Synced"}
    BY <1>10 DEF SyncFile, SyncDir, historyVars, streamVars
  <2> QED BY <2>1, <1>2, <1>4
<1> QED BY <1>1, <1>5, <1>6, <1>8, <1>9, <1>10 DEF Worker

-----------------------------------------------------------------------------
(* Flushes.                                                                *)

\* All ids before the last that is ready are collected, or excused.
LEMMA CollectsAll ==
  ASSUME Inv, Kept, FlushCollect
  PROVE  CollectedAll'
<1> DEFINE ids == {r.id : r \in Ready}
<1>1. /\ UNCHANGED <<committed, excused>>
      /\ DOMAIN flush'.new = ids
      /\ flush'.cum = IF Ready = {} THEN NoId ELSE Max(ids) + 1
  BY DEF FlushCollect, streamVars, historyVars
<1>2. SUFFICES ASSUME Ready # {}, flush'.cum = Max(ids) + 1, NEW id \in committed..(flush'.cum - 1)
               PROVE  id \in ids \cup excused
  BY <1>1 DEF CollectedAll
<1>3. ids # {} /\ ids \subseteq 0..MaxRecordings /\ MaxRecordings \in Nat
  <2>1. \A r \in Ready : r.id \in 0..MaxRecordings
    BY ReadyIsDurable, Ranges DEF Ids
  <2> QED BY <1>2, <2>1, Ranges
<1>4. Max(ids) \in ids
  BY <1>3, MaxIsGreatest
<1>5. PICK r \in Ready : r.id = Max(ids)
  BY <1>4
<1>6. PICK i \in DOMAIN recent_recordings : recent_recordings[i] = r
  BY <1>5 DEF Ready, ToSet
<1>7. /\ r.id \in Nat /\ r.id < flush_ready /\ flush_ready \in Nat /\ committed \in Nat
      /\ r.id <= Top /\ Top \in Int
  <2>1. r.id \in Nat /\ r.id < flush_ready
    BY ReadyIsDurable
  <2>2. r.id <= Top /\ Top \in Int
    BY <1>6, RecentRanges, Ranges
  <2>3. flush_ready \in 0..MaxRecordings
    BY DEF Inv, Typed
  <2> QED BY <1>3, <2>1, <2>2, <2>3, FileTypes
<1> HIDE DEF ids
<1>8. id \in committed..Top /\ id \in committed..(flush_ready - 1)
  BY <1>2, <1>5, <1>7
<1>9. CASE id \in excused
  BY <1>9
<1>10. CASE Alive(id)
  <2>1. PICK k \in DOMAIN recent_recordings :
          recent_recordings[k].id = id /\ ~Deleted(recent_recordings[k])
    BY <1>10 DEF Alive
  <2>2. recent_recordings[k] \in Ready
    BY <1>8, <2>1, Ranges DEF Ready, ToSet
  <2> QED BY <2>1, <2>2 DEF ids
<1> QED BY <1>8, <1>9, <1>10 DEF Kept, Accounted

LEMMA CommitKeepsKept ==
  ASSUME Inv, Inv', Kept, FlushCommit
  PROVE  Kept'
<1>1. /\ UNCHANGED <<recent_recordings, recent_frames, complete, recording_id, committed,
                     writer_state, io, excused>>
      /\ flush.pc = "Collected" /\ cum_recordings = committed
      /\ cum_recordings' = IF flush.cum = NoId THEN cum_recordings ELSE flush.cum
      /\ removed' = removed \cup DeletionRange
      /\ DOMAIN row' = (DOMAIN row \cup DOMAIN flush.new) \ DeletionRange
      /\ Current' = Current /\ Top' = Top
  <2>1. cum_recordings = committed
    BY DEF FlushCommit, Inv, Flushing
  <2> QED BY <2>1 DEF FlushCommit, streamVars, Current, Top
<1>2. flush'.pc = "Committed"
  <2>1. flush \in [pc : {"Idle", "Collected", "Committed"}, new : Rows,
                   cum : {NoId} \cup 0..MaxRecordings, deletion : SUBSET Ids, gced : SUBSET Ids]
    BY DEF Inv, Typed
  <2> QED BY <2>1 DEF FlushCommit
<1>3. InFile' = InFile
  BY <1>1 DEF InFile
<1>4. Covered' /\ Fits(recent_frames)' /\ FramesEnd' /\ WrittenFits'
  BY <1>1, <1>3 DEF Kept, Covered, Fits, FramesEnd, WrittenFits
<1>5. ASSUME NEW id \in 0..(cum_recordings' - 1)
      PROVE  id \in DOMAIN row' \cup removed' \cup excused
  <2>1. CASE id \in DOMAIN row \cup removed \cup excused
    BY <2>1, <1>1
  <2>2. CASE id \notin DOMAIN row \cup removed \cup excused
    <3>1. id \notin 0..(cum_recordings - 1)
      BY <2>2 DEF Kept, Accounted
    <3>2. flush.cum # NoId /\ id \in committed..(flush.cum - 1)
      BY <3>1, <1>1, <1>5, FileTypes
    <3>3. id \in DOMAIN flush.new
      BY <3>2, <2>2, <1>1 DEF Kept, Accounted
    <3> QED BY <3>3, <1>1
  <2> QED BY <2>1, <2>2
<1>6. Accounted'
  BY <1>1, <1>2, <1>5 DEF Kept, Accounted, Alive
<1> QED BY <1>4, <1>6 DEF Kept

LEMMA ApplyKeepsKept ==
  ASSUME Inv, Inv', Kept, FlushApply
  PROVE  Kept'
<1> DEFINE R == recent_recordings
           F == recent_frames
<1>1. /\ UNCHANGED <<recent_frames, complete, recording_id, writer_state, io, row, removed,
                     cum_recordings, excused>>
      /\ flush'.pc = "Idle" /\ Current' = Current /\ Top' = Top
      /\ committed' = IF flush.cum = NoId THEN committed ELSE flush.cum
  BY DEF FlushApply, historyVars, dbVars, NoFlush, Current, Top
<1>2. PICK n : Refreshed(n)
  BY ApplyRefreshes
<1>3. /\ committed \in Nat /\ committed' \in Nat /\ committed <= committed'
      /\ Current \in Nat /\ Top \in Int /\ writer_state.recording_id = Current
  BY <1>1, FileTypes, Ranges
<1>4. /\ n \in 0..Len(R) /\ Len(R') = Len(R) - n /\ Len(R) \in Nat
      /\ DOMAIN R' = 1..Len(R') /\ DOMAIN R = 1..Len(R)
  BY <1>2, Ranges DEF Refreshed
<1>5. ASSUME NEW i \in DOMAIN R'
      PROVE  /\ i + n \in DOMAIN R
             /\ R'[i].id = R[i + n].id
             /\ R'[i].sample_file_bytes = R[i + n].sample_file_bytes
             /\ Deleted(R'[i]) => Deleted(R[i + n]) \/ R'[i].id < committed
  BY <1>2 DEF Refreshed
<1>6. InFile' = InFile
  BY <1>1 DEF InFile
<1>7. Covered' /\ Fits(recent_frames)' /\ FramesEnd' /\ WrittenFits'
  <2>1. ASSUME NEW i \in DOMAIN R', R'[i].id >= Current, R'[i].id \notin excused
        PROVE  Covers(F, R'[i], WrittenOf(R'[i], writer_state))
    <3>1. Covers(F, R[i + n], WrittenOf(R[i + n], writer_state))
      BY <2>1, <1>5 DEF Kept, Covered
    <3> QED BY <3>1, <1>5 DEF Covers, WrittenOf
  <2>2. ASSUME NEW i \in DOMAIN R' PROVE EndsAt(F, R'[i])
    BY <1>5 DEF Kept, FramesEnd, EndsAt
  <2>3. ASSUME NEW i \in DOMAIN R', R'[i].id = Current PROVE InFile <= R'[i].sample_file_bytes
    BY <2>3, <1>5 DEF Kept, WrittenFits
  <2>4. Fits(recent_frames)'
    BY <1>1 DEF Kept, Fits
  <2>5. Covered'
    BY <2>1, <1>1 DEF Covered
  <2> QED BY <2>2, <2>3, <2>4, <2>5, <1>1, <1>6 DEF FramesEnd, WrittenFits
<1>8. ASSUME NEW id \in committed'..Top, id \notin excused PROVE Alive(id)'
  <2>1. id \in Nat /\ committed' <= id /\ committed <= id /\ id \in committed..Top
    BY <1>3
  <2>2. PICK k \in DOMAIN R : R[k].id = id /\ ~Deleted(R[k])
    BY <2>1, <1>8 DEF Kept, Accounted, Alive
  <2>3. k \notin 1..n
    <3>1. SUFFICES ASSUME k \in 1..n PROVE FALSE
      OBVIOUS
    <3>2. /\ F # << >> => id < F[1].recording_id
          /\ ~(id = Current /\ writer_state.written = R[k].sample_file_bytes)
          /\ id < committed' \/ id >= Current
      BY <3>1, <2>2, <1>2 DEF Refreshed
    <3>3. id >= Current
      BY <3>2, <2>1, <1>3
    <3>4. Covers(F, R[k], WrittenOf(R[k], writer_state))
      BY <3>3, <2>2, <1>8 DEF Kept, Covered
    <3>5. R[k].sample_file_bytes # WrittenOf(R[k], writer_state)
      <4>1. R[k].sample_file_bytes \in 1..MaxBytes /\ MaxBytes \in Nat
        BY RecentRanges, Ranges
      <4> HIDE DEF R
      <4> QED BY <4>1, <3>2, <2>2, <1>3 DEF WrittenOf
    <3> QED BY <3>2, <3>4, <3>5, <2>2 DEF Covers, Precedes, BytePos, StartOf
  <2>4. k - n \in DOMAIN R' /\ (k - n) + n = k
    <3>1. k \in 1..Len(R) /\ n \in Nat /\ n <= Len(R)
      BY <2>2, <1>4
    <3> QED BY <2>3, <3>1, <1>4
  <2> DEFINE i == k - n
  <2> HIDE DEF i
  <2>5. i \in DOMAIN R' /\ i + n = k
    BY <2>4 DEF i
  <2>6. R'[i].id = id /\ ~Deleted(R'[i])
    BY <2>1, <2>2, <2>5, <1>3, <1>5
  <2> QED BY <2>5, <2>6 DEF Alive
<1>9. Accounted'
  BY <1>1, <1>8 DEF Kept, Accounted
<1> QED BY <1>7, <1>9 DEF Kept

-----------------------------------------------------------------------------
(* The whole specification.                                                *)

LEMMA CrashKeepsKept ==
  ASSUME Inv, Kept, Crash
  PROVE  Kept'
<1>1. /\ recent_recordings' = << >> /\ recent_frames' = << >> /\ recording_id' = NoId
      /\ committed' = cum_recordings /\ complete' = cum_recordings
      /\ io'.op = "Idle" /\ flush'.pc = "Idle"
      /\ excused' = {id \in excused : id < cum_recordings}
      /\ UNCHANGED <<row, cum_recordings, removed>>
  BY DEF Crash, Idle, NoFlush, dbVars
<1>2. Covered' /\ FramesEnd' /\ WrittenFits'
  BY <1>1 DEF Covered, FramesEnd, WrittenFits
<1>3. Fits(recent_frames)'
  <2>1. LastGopI(<< >>) = 0
    BY DEF LastGopI
  <2> QED BY <2>1, <1>1 DEF Fits
<1>4. cum_recordings \in Nat
  BY FileTypes
<1>5. \A id \in 0..(cum_recordings - 1) : id \in DOMAIN row \cup removed \cup excused'
  BY <1>1, <1>4 DEF Kept, Accounted
<1>6. \A id \in (committed..Top)' : FALSE
  BY <1>1, <1>4 DEF Top
<1>7. Accounted'
  BY <1>1, <1>5, <1>6 DEF Accounted
<1> QED BY <1>2, <1>3, <1>7 DEF Kept

LEMMA InitKept ==
  ASSUME Init
  PROVE  Kept
<1>1. /\ recent_recordings = << >> /\ recent_frames = << >> /\ recording_id = NoId
      /\ committed = 0 /\ complete = 0 /\ cum_recordings = 0
      /\ io.op = "Idle" /\ flush.pc = "Idle"
  BY DEF Init, Idle, NoFlush
<1>2. Covered /\ FramesEnd /\ WrittenFits
  BY <1>1 DEF Covered, FramesEnd, WrittenFits
<1>3. Fits(recent_frames)
  <2>1. LastGopI(<< >>) = 0
    BY DEF LastGopI
  <2> QED BY <2>1, <1>1 DEF Fits
<1>4. (\A id \in 0..(cum_recordings - 1) : FALSE) /\ (\A id \in committed..Top : FALSE)
  BY <1>1 DEF Top
<1> QED BY <1>1, <1>2, <1>3, <1>4 DEF Kept, Accounted

LEMMA NextKeepsKept ==
  ASSUME Inv, Inv', FilesKnown, Kept, [Next]_vars
  PROVE  Kept'
<1>1. ASSUME UNCHANGED <<Scene, row, removed, cum_recordings, io, excused>>, CollectedAll'
      PROVE  Kept'
  <2>1. InFile' = InFile
    BY <1>1 DEF Scene, InFile
  <2>2. InFile' <= InFile
    BY <2>1, InFileIsNatural
  <2>3. io'.op \in {"Abort", "Aborted"} => Current \in excused'
    BY <1>1 DEF Kept, Accounted
  <2> QED BY <1>1, <2>2, <2>3, SteadyKeepsKept
<1>2. UNCHANGED <<flush, committed, excused>> => CollectedAll'
  BY DEF CollectedAll, Kept, Accounted
<1>3. CASE HandleNotify \/ Collect \/ Abandon \/ InitialRotation \/ UNCHANGED vars
  <2>1. UNCHANGED <<Scene, row, removed, cum_recordings, io, excused, flush, committed>>
    BY <1>3 DEF HandleNotify, Collect, GcUnlink, GcSync, GcSyncFails, Abandon, InitialRotation,
                vars, streamVars, threadVars, dbVars, historyVars, Scene
  <2> QED BY <2>1, <1>1, <1>2
<1>4. CASE FlushFails
  <2>1. UNCHANGED <<Scene, row, removed, cum_recordings, io, excused>> /\ flush'.pc = "Idle"
    BY <1>4 DEF FlushFails, NoFlush, streamVars, dbVars, historyVars, Scene
  <2> QED BY <2>1, <1>1 DEF CollectedAll
<1>5. CASE FlushCollect
  <2>1. UNCHANGED <<Scene, row, removed, cum_recordings, io, excused>>
    BY <1>5 DEF FlushCollect, streamVars, dbVars, historyVars, Scene
  <2> QED BY <2>1, <1>1, <1>5, CollectsAll
<1> QED BY <1>3, <1>4, <1>5, WriteKeepsKept, WorkerKeepsKept, CommitKeepsKept, ApplyKeepsKept,
           CrashKeepsKept DEF Next, Flush

\* In every reachable state the frames not written and the recordings not
\* committed are held, as Kept says.
THEOREM KeptHolds == Spec => []Kept
<1>1. Inv /\ Inv' /\ FilesKnown /\ Kept /\ [Next]_vars => Kept'
  BY NextKeepsKept
<1> QED BY InitKept, InvHolds, FilesKnownHolds, <1>1, PTL DEF Spec

LEMMA KeptDoesNotVanish ==
  ASSUME Inv, Kept
  PROVE  NothingVanishes
<1>1. SUFFICES ASSUME NEW id \in Ids, id < complete \/ id = recording_id
               PROVE  Listed(id) \/ id \in removed \cup excused
  BY DEF NothingVanishes
<1>2. /\ id \in Nat /\ committed \in Nat /\ cum_recordings \in Nat /\ committed <= cum_recordings
      /\ complete \in 0..MaxRecordings /\ MaxRecordings \in Nat
      /\ recording_id \in {NoId, complete}
  BY FileTypes, Ranges DEF Inv, Window
<1>3. id <= Top /\ Top \in Int
  BY <1>1, <1>2 DEF Top, NoId
<1>4. CASE id < committed
  <2>1. id \in 0..(cum_recordings - 1)
    BY <1>2, <1>4
  <2> QED BY <2>1 DEF Kept, Accounted, Listed
<1>5. CASE id \in committed..Top
  BY <1>5 DEF Kept, Accounted, Alive, Listed
<1> QED BY <1>2, <1>3, <1>4, <1>5

\* No recording vanishes: each id handed out is in the table or still recent,
\* unless retention deleted it, an I/O error hit it, or the worker fell behind.
THEOREM RecordingsDoNotVanish == Spec => []NothingVanishes
BY InvHolds, KeptHolds, KeptDoesNotVanish, PTL

-----------------------------------------------------------------------------
(* Retention: RetentionKept.                                               *)

\* What ids take on the filesystem, w being their bytes.
BytesOf(w, ids) == FsBytes([id \in ids |-> w[id]])

\* What the next flush will insert, and the sizes of the files there are.
Waiting == {id \in committed..(flush_ready - 1) : Alive(id)}
Sizes   == [id \in Ids |-> file[id].size]

Counted == fs_bytes \in Nat /\ fs_bytes_to_delete \in 0..fs_bytes

\* Between flushes, the counters tally with the table.
Tallied ==
  flush.pc # "Committed" =>
    /\ fs_bytes = BytesOf(row, DOMAIN row)
    /\ fs_bytes_to_delete = BytesOf(row, to_delete)

\* There is room for what is waiting, or nothing else will be kept, unless the
\* last choice of what to delete failed.
Room ==
  flush.pc # "Committed" /\ Waiting # {} /\ ~overdue =>
    \/ BytesOf(row, DOMAIN row \ to_delete) + BytesOf(Sizes, Waiting) <= retain_bytes
    \/ to_delete = DOMAIN row

\* A flush has collected what was waiting, and nothing has joined since.
Gathered ==
  flush.pc # "Idle" =>
    /\ DOMAIN flush.new = Waiting
    /\ IF Waiting = {} THEN flush.cum = NoId
                       ELSE /\ flush.cum # NoId /\ flush.cum <= flush_ready
                            /\ \A id \in Waiting : id < flush.cum

\* Once it is in the table, the counters lag behind by just that.
Lagging ==
  flush.pc = "Committed" =>
    /\ fs_bytes - fs_bytes_to_delete + BytesOf(flush.new, DOMAIN flush.new)
         = BytesOf(row, DOMAIN row)
    /\ \A id \in DOMAIN flush.new : id \in DOMAIN row /\ row[id] = flush.new[id]
    /\ flush.cum # NoId /\ ~overdue =>
         BytesOf(row, DOMAIN row) <= retain_bytes \/ DOMAIN row \subseteq DOMAIN flush.new

Retained == Counted /\ Tallied /\ Room /\ Gathered /\ Lagging

-----------------------------------------------------------------------------
LEMMA BytesOfIsTotal ==
  ASSUME NEW w, NEW ids, IsFiniteSet(ids), \A id \in ids : w[id] \in Nat
  PROVE  /\ \E h : /\ Totals(h, [id \in ids |-> RoundUp(w[id])], ids)
                   /\ BytesOf(w, ids) = h[ids]
         /\ [id \in ids |-> RoundUp(w[id])] \in [ids -> Nat]
         /\ BytesOf(w, ids) \in Nat
<1> DEFINE rows == [id \in ids |-> w[id]]
<1>1. DOMAIN rows = ids /\ \A id \in ids : rows[id] = w[id]
  OBVIOUS
<1> HIDE DEF rows
<1>2. Weights(rows) = [id \in ids |-> RoundUp(w[id])]
  BY <1>1 DEF Weights
<1>3. /\ \E h : Totals(h, Weights(rows), DOMAIN rows) /\ FsBytes(rows) = h[DOMAIN rows]
      /\ Weights(rows) \in [DOMAIN rows -> Nat]
      /\ FsBytes(rows) \in Nat
  BY <1>1, FsBytesIsTotal
<1> QED BY <1>1, <1>2, <1>3 DEF BytesOf, rows

LEMMA BytesOfNone ==
  ASSUME NEW w
  PROVE  BytesOf(w, {}) = 0
<1>1. IsFiniteSet({})
  BY FS_EmptySet
<1>2. PICK h : Totals(h, [id \in {} |-> RoundUp(w[id])], {}) /\ BytesOf(w, {}) = h[{}]
  BY <1>1, BytesOfIsTotal
<1> QED BY <1>2, TotalsStep

LEMMA BytesOfUnion ==
  ASSUME NEW w, NEW s, NEW t, IsFiniteSet(s), IsFiniteSet(t), s \cap t = {},
         \A id \in s \cup t : w[id] \in Nat
  PROVE  BytesOf(w, s \cup t) = BytesOf(w, s) + BytesOf(w, t)
<1> DEFINE u == s \cup t
           R(x) == [id \in x |-> RoundUp(w[id])]
<1>1. IsFiniteSet(u) /\ s \in SUBSET u /\ t \in SUBSET u
  BY FS_Union
<1>2. \A id \in u : w[id] \in Nat
  OBVIOUS
<1>3. u = s \cup t /\ (\A id \in s : w[id] \in Nat) /\ (\A id \in t : w[id] \in Nat)
  OBVIOUS
<1>4. \A x : \A id \in x : R(x)[id] = RoundUp(w[id])
  OBVIOUS
<1> HIDE DEF u
<1>5. PICK h : Totals(h, R(u), u) /\ BytesOf(w, u) = h[u]
  BY <1>1, <1>2, BytesOfIsTotal
<1>6. PICK f : Totals(f, R(s), s) /\ BytesOf(w, s) = f[s]
  BY <1>3, BytesOfIsTotal
<1>7. PICK g : Totals(g, R(t), t) /\ BytesOf(w, t) = g[t]
  BY <1>3, BytesOfIsTotal
<1>8. R(u) \in [u -> Nat]
  BY <1>1, <1>2, BytesOfIsTotal
<1> HIDE DEF R
<1>9. f[s] = h[s]
  <2>1. \A id \in s : R(s)[id] = R(u)[id]
    BY <1>1, <1>4
  <2> QED BY <1>1, <1>5, <1>6, <2>1, TotalsAgree
<1>10. g[t] = h[t]
  <2>1. \A id \in t : R(t)[id] = R(u)[id]
    BY <1>1, <1>4
  <2> QED BY <1>1, <1>5, <1>7, <2>1, TotalsAgree
<1>11. h[s \cup t] = h[s] + h[t]
  BY <1>1, <1>5, <1>8, TotalsUnion
<1> QED BY <1>3, <1>5, <1>6, <1>7, <1>9, <1>10, <1>11

LEMMA BytesOfAgree ==
  ASSUME NEW w, NEW v, NEW ids, \A id \in ids : w[id] = v[id]
  PROVE  BytesOf(w, ids) = BytesOf(v, ids)
<1>1. [id \in ids |-> w[id]] = [id \in ids |-> v[id]]
  OBVIOUS
<1> QED BY <1>1 DEF BytesOf

LEMMA BytesOfGrow ==
  ASSUME NEW w, NEW t, IsFiniteSet(t), NEW s \in SUBSET t, \A id \in t : w[id] \in Nat
  PROVE  BytesOf(w, s) \in Nat /\ BytesOf(w, t) \in Nat /\ BytesOf(w, s) <= BytesOf(w, t)
BY FsBytesGrow DEF BytesOf

\* The table's own bytes, and those of some of its rows.
LEMMA RowBytes ==
  ASSUME Inv
  PROVE  /\ FsBytes(row) = BytesOf(row, DOMAIN row)
         /\ \A ids \in SUBSET DOMAIN row :
              /\ FsBytes(Restrict(row, ids)) = BytesOf(row, ids)
              /\ BytesOf(row, ids) \in Nat
              /\ IsFiniteSet(ids)
<1>1. row \in Rows
  BY DEF Inv, Typed
<1>2. row = [id \in DOMAIN row |-> row[id]]
  BY <1>1 DEF Rows
<1>3. ASSUME NEW ids \in SUBSET DOMAIN row
      PROVE  /\ FsBytes(Restrict(row, ids)) = BytesOf(row, ids)
             /\ BytesOf(row, ids) \in Nat
             /\ IsFiniteSet(ids)
  <2>1. IsFiniteSet(ids) /\ \A id \in ids : row[id] \in Nat
    BY RowSets
  <2>2. Restrict(row, ids) = [id \in ids |-> row[id]]
    BY DEF Restrict
  <2> QED BY <2>1, <2>2, BytesOfIsTotal DEF BytesOf
<1> QED BY <1>2, <1>3 DEF BytesOf

-----------------------------------------------------------------------------
\* The recording of an id that is alive, and synced: its file is as large.
LEMMA AliveIsDurable ==
  ASSUME Inv, NEW id \in committed..(Current - 1), Alive(id)
  PROVE  \E i \in DOMAIN recent_recordings :
           LET r == recent_recordings[i]
           IN  /\ r.id = id /\ ~Deleted(r) /\ Uncommitted(r)
               /\ Durable(id, r.sample_file_bytes)
               /\ r.sample_file_bytes = file[id].size
               /\ r.sample_file_bytes \in Nat
<1>1. PICK i \in DOMAIN recent_recordings :
        recent_recordings[i].id = id /\ ~Deleted(recent_recordings[i])
  BY DEF Alive
<1> DEFINE r == recent_recordings[i]
<1>2. committed <= r.id /\ r.id < Current
  BY <1>1, FileTypes
<1>3. Durable(r.id, r.sample_file_bytes) /\ Uncommitted(r)
  BY <1>1, <1>2 DEF Inv, Working
<1>4. r.sample_file_bytes = file[id].size
  BY <1>1, <1>3 DEF Durable, IsDurable
<1>5. r.sample_file_bytes \in Nat
  <2>1. r.sample_file_bytes \in 1..MaxBytes /\ MaxBytes \in Nat
    BY RecentRanges, Ranges
  <2> HIDE DEF r
  <2> QED BY <2>1
<1> QED BY <1>1, <1>3, <1>4, <1>5

LEMMA WaitingIsSynced ==
  ASSUME Inv
  PROVE  /\ Waiting \subseteq Ids /\ IsFiniteSet(Waiting)
         /\ \A id \in committed..(flush_ready - 1) : id \in committed..(Current - 1)
         /\ \A id \in Waiting : /\ id \in committed..(Current - 1) /\ Alive(id)
                                /\ Sizes[id] = file[id].size /\ Sizes[id] \in Nat
<1>1. flush_ready \in Nat /\ (flush_ready <= Current \/ flush_ready <= committed)
  BY Ranges DEF Inv, Typed, Flushing
<1>2. \A id \in committed..(flush_ready - 1) : id \in committed..(Current - 1)
  BY <1>1, FileTypes
<1>3. Waiting \subseteq Ids
  BY <1>2, FileTypes DEF Waiting
<1>4. ASSUME NEW id \in Waiting
      PROVE  /\ id \in committed..(Current - 1) /\ Alive(id)
             /\ Sizes[id] = file[id].size /\ Sizes[id] \in Nat
  <2>1. id \in committed..(Current - 1) /\ Alive(id)
    BY <1>2 DEF Waiting
  <2>2. file[id].size \in Nat
    BY <2>1, AliveIsDurable
  <2> QED BY <1>3, <2>1, <2>2 DEF Sizes
<1> QED BY <1>2, <1>3, <1>4, RowSets

\* What handle_notify makes room for is at least what will be waiting.
LEMMA BytesToAddSuffice ==
  ASSUME Inv, NEW ids, ids = {id \in committed..(Current - 1) : Alive(id)}
  PROVE  /\ BytesOf(Sizes, ids) \in Nat
         /\ BytesOf(Sizes, ids) <= FsBytesToAdd(Current)
<1> DEFINE S == Examined(Current)
           Of(id) == CHOOSE r \in S : r.id = id /\ r.sample_file_bytes = file[id].size
           rec == [id \in ids |-> Of(id)]
           v == [id \in ids |-> RoundUp(Sizes[id])]
           w == Takes(Current)
<1>1. ids \subseteq Ids /\ IsFiniteSet(ids)
  BY FileTypes, RowSets
<1>2. ASSUME NEW id \in ids
      PROVE  Of(id) \in S /\ Of(id).id = id /\ Of(id).sample_file_bytes = Sizes[id]
  <2>1. PICK i \in DOMAIN recent_recordings :
          recent_recordings[i].id = id /\ recent_recordings[i].sample_file_bytes = file[id].size
    BY AliveIsDurable
  <2>2. recent_recordings[i] \in S
    BY <2>1, Ranges DEF Examined, ToSet
  <2>3. Sizes[id] = file[id].size
    BY <1>1 DEF Sizes
  <2> QED BY <2>1, <2>2, <2>3
<1>3. \A id \in ids : Sizes[id] \in Nat
  BY AliveIsDurable, <1>1 DEF Sizes
<1>4. PICK g : Totals(g, w, S) /\ FsBytesToAdd(Current) = g[S]
  BY FsBytesToAddIsTotal
<1>5. IsFiniteSet(S) /\ w \in [S -> Nat]
  BY FsBytesToAddIsTotal
<1>6. PICK h : Totals(h, v, ids) /\ BytesOf(Sizes, ids) = h[ids]
  BY <1>1, <1>3, BytesOfIsTotal
<1>7. rec \in [ids -> S] /\ \A id \in ids : rec[id].id = id
  <2> HIDE DEF S
  <2>1. \A id \in ids : Of(id) \in S /\ Of(id).id = id
    BY <1>2
  <2> HIDE DEF Of
  <2> QED BY <2>1
<1>8. \A id \in ids : v[id] = w[rec[id]]
  <2>1. \A r \in S : w[r] = RoundUp(r.sample_file_bytes)
    BY DEF Takes
  <2>2. \A id \in ids : rec[id] \in S /\ rec[id].sample_file_bytes = Sizes[id]
    <3>1. \A id \in ids : Of(id) \in S /\ Of(id).sample_file_bytes = Sizes[id]
      BY <1>2
    <3> HIDE DEF S, Of
    <3> QED BY <3>1
  <2> HIDE DEF S, w, rec
  <2> QED BY <2>1, <2>2
<1>9. \A x, y \in ids : rec[x] = rec[y] => x = y
  <2> HIDE DEF rec
  <2> QED BY <1>7
<1> HIDE DEF S, w, v, rec
<1>10. h[ids] = g[{rec[x] : x \in ids}]
  BY <1>1, <1>4, <1>5, <1>6, <1>7, <1>8, <1>9, TotalsMoved
<1>11. {rec[x] : x \in ids} \in SUBSET S
  BY <1>7
<1>12. g[{rec[x] : x \in ids}] <= g[S]
  <2>1. S \in SUBSET S
    OBVIOUS
  <2> QED BY <1>4, <1>5, <1>11, <2>1, TotalsGrow
<1>13. BytesOf(Sizes, ids) \in Nat
  BY <1>1, <1>3, BytesOfIsTotal
<1> QED BY <1>4, <1>6, <1>10, <1>12, <1>13

-----------------------------------------------------------------------------
(* Steps that leave what is waiting alone.                                 *)

LEMMA WaitingStays ==
  ASSUME Inv, UNCHANGED <<committed, flush_ready>>,
         \A id \in committed..(Current - 1) : Alive(id)' <=> Alive(id)
  PROVE  Waiting' = Waiting
<1>1. \A id \in committed..(flush_ready - 1) : Alive(id)' <=> Alive(id)
  BY WaitingIsSynced
<1> QED BY <1>1 DEF Waiting

\* There stays room for fewer.
LEMMA RoomStays ==
  ASSUME Inv, Room, retain_bytes \in Int, flush.pc # "Committed",
         UNCHANGED <<row, retain_bytes, to_delete, overdue>>,
         Waiting' \subseteq Waiting,
         \A id \in Waiting' : Sizes'[id] = Sizes[id]
  PROVE  Room'
<1> DEFINE few == Waiting'
           sizes == Sizes'
           Left == BytesOf(row, DOMAIN row \ to_delete)
<1>1. SUFFICES ASSUME few # {}, ~overdue
               PROVE  Left + BytesOf(sizes, few) <= retain_bytes \/ to_delete = DOMAIN row
  BY DEF Room, BytesOf
<1>2. Left + BytesOf(Sizes, Waiting) <= retain_bytes \/ to_delete = DOMAIN row
  BY <1>1 DEF Room
<1>3. BytesOf(sizes, few) = BytesOf(Sizes, few)
  <2> HIDE DEF few, sizes
  <2>1. \A id \in few : sizes[id] = Sizes[id]
    BY DEF few, sizes
  <2> QED BY <2>1, BytesOfAgree
<1>4. /\ BytesOf(Sizes, few) \in Nat /\ BytesOf(Sizes, Waiting) \in Nat
      /\ BytesOf(Sizes, few) <= BytesOf(Sizes, Waiting)
  <2>1. few \in SUBSET Waiting
    OBVIOUS
  <2> HIDE DEF few
  <2> QED BY <2>1, WaitingIsSynced, BytesOfGrow
<1>5. Left \in Nat
  BY RowBytes
<1> HIDE DEF few, sizes, Left
<1> QED BY <1>2, <1>3, <1>4, <1>5

\* Steps that leave the table, the counters and the flush alone.
LEMMA SteadyKeepsRetained ==
  ASSUME Inv, Retained, retain_bytes \in Int,
         UNCHANGED <<row, byteVars, retain_bytes, to_delete, flush, flush_ready, overdue>>,
         Waiting' = Waiting,
         \A id \in Waiting : file'[id].size = file[id].size
  PROVE  Retained'
<1>1. UNCHANGED <<row, fs_bytes, fs_bytes_to_delete, retain_bytes, to_delete, flush, flush_ready,
                  overdue>>
  BY DEF byteVars
<1>2. Counted' /\ Tallied'
  BY <1>1 DEF Retained, Counted, Tallied, BytesOf
<1>3. Room'
  <2>1. \A id \in Waiting' : Sizes'[id] = Sizes[id]
    BY WaitingIsSynced DEF Sizes
  <2>2. CASE flush.pc = "Committed"
    BY <1>1, <2>2 DEF Room
  <2>3. CASE flush.pc # "Committed"
    BY <1>1, <2>1, <2>3, RoomStays DEF Retained
  <2> QED BY <2>2, <2>3
<1>4. Gathered'
  BY <1>1 DEF Retained, Gathered
<1>5. Lagging'
  BY <1>1 DEF Retained, Lagging, BytesOf
<1> QED BY <1>2, <1>3, <1>4, <1>5 DEF Retained

LEMMA WorkerKeepsRetained ==
  ASSUME Inv, Retained, retain_bytes \in Int, Worker
  PROVE  Retained'
<1>1. CASE Prepares
  <2>1. PICK n, m, ws : Rechosen(n, m, ws)
    BY <1>1, PreparesRechoose
  <2>2. UNCHANGED <<committed, flush_ready, file, row, byteVars, retain_bytes, to_delete, flush,
                    overdue>>
    BY <1>1, PreparesRechoose DEF WorkerUnchanged, dbVars, historyVars
  <2>3. ASSUME NEW id, Alive(id)' PROVE Alive(id)
    <3>1. PICK i \in DOMAIN recent_recordings' :
            recent_recordings'[i].id = id /\ ~Deleted(recent_recordings'[i])
      BY <2>3 DEF Alive
    <3>2. i \in 1..Len(recent_recordings')
      BY <2>1, <3>1 DEF Rechosen
    <3> QED BY <2>1, <3>1, <3>2 DEF Rechosen, Alive
  <2>4. \A id \in committed..(Current - 1) : Alive(id) => Alive(id)'
    BY <2>1, AliveWhilePrepared
  <2>5. Waiting' = Waiting
    BY <2>2, <2>3, <2>4, WaitingStays
  <2> QED BY <2>2, <2>5, SteadyKeepsRetained
<1>2. CASE WriteBytes \/ CreateFails \/ Abort \/ FileIoFails \/ SyncFile \/ SyncDir
  <2>1. UNCHANGED <<streamVars, flush, dbVars, overdue>>
    BY <1>2 DEF WriteBytes, CreateFails, Abort, FileIoFails, SyncFile, SyncDir, AbortFile,
                historyVars
  <2>2. UNCHANGED <<recent_recordings, committed, flush_ready, row, byteVars, retain_bytes,
                    to_delete, flush, overdue>>
    BY <2>1 DEF streamVars, dbVars
  <2>3. Waiting' = Waiting
    BY <2>2 DEF Waiting, Alive
  <2>4. ASSUME NEW id \in Waiting PROVE file'[id].size = file[id].size
    <3>1. id \in Ids /\ id # Current /\ file \in [Ids -> FileRecord]
      BY WaitingIsSynced, FileTypes
    <3>2. CASE file' = DirSynced
      BY <3>1, <3>2, SyncedDirectory
    <3>3. CASE \E f : file' = [file EXCEPT ![Current] = f]
      BY <3>1, <3>3
    <3>4. CASE file' = file
      BY <3>4
    <3>5. file' = DirSynced \/ (\E f : file' = [file EXCEPT ![Current] = f]) \/ file' = file
      <4>1. CASE WriteBytes
        BY <4>1 DEF WriteBytes
      <4>2. CASE CreateFails \/ Abort \/ FileIoFails
        BY <4>2 DEF CreateFails, Abort, FileIoFails, AbortFile
      <4>3. CASE SyncFile
        BY <4>3 DEF SyncFile
      <4>4. CASE SyncDir
        BY <4>4 DEF SyncDir
      <4> QED BY <1>2, <4>1, <4>2, <4>3, <4>4
    <3> QED BY <3>2, <3>3, <3>4, <3>5
  <2> QED BY <2>2, <2>3, <2>4, SteadyKeepsRetained
<1> QED BY <1>1, <1>2, PrepPrepares DEF Worker

LEMMA WriteKeepsRetained ==
  ASSUME Inv, Retained, retain_bytes \in Int, Write
  PROVE  Retained'
<1>1. PICK is_key \in BOOLEAN, len \in FrameSizes, close \in BOOLEAN :
        PushAndMaybeClose(is_key, len, close)
  BY DEF Write
<1>2. UNCHANGED <<committed, flush_ready, file, row, byteVars, retain_bytes, to_delete, flush,
                  overdue>>
  <2>1. UNCHANGED <<committed, flush_ready, file, dbVars, byteVars, retain_bytes, to_delete, flush,
                    overdue>>
    BY <1>1 DEF PushAndMaybeClose
  <2> QED BY <2>1 DEF dbVars
<1>3. ASSUME NEW id \in committed..(Current - 1), Alive(id)' PROVE Alive(id)
  <2>1. PICK i \in DOMAIN recent_recordings' :
          recent_recordings'[i].id = id /\ ~Deleted(recent_recordings'[i])
    BY <1>3 DEF Alive
  <2>2. CASE \E k \in DOMAIN recent_recordings :
               /\ recent_recordings[k].id = recent_recordings'[i].id
               /\ Deleted(recent_recordings[k]) <=> Deleted(recent_recordings'[i])
    BY <2>1, <2>2 DEF Alive
  <2>3. ~(recording_id = NoId /\ id = complete)
    <3>1. SUFFICES ASSUME recording_id = NoId, id = complete PROVE FALSE
      OBVIOUS
    <3>2. Top = complete - 1 /\ Current <= Top + 1
      BY <3>1 DEF Top, Inv, Working
    <3>3. id < Current /\ complete \in Nat /\ Current \in Nat
      BY Ranges, FileTypes
    <3> QED BY <3>1, <3>2, <3>3
  <2> QED BY <1>1, <2>1, <2>2, <2>3, PushKeepsAlive
<1>4. \A id \in committed..(Current - 1) : Alive(id) => Alive(id)'
  BY <1>1, PushKeepsAlive
<1>5. Waiting' = Waiting
  BY <1>2, <1>3, <1>4, WaitingStays
<1> QED BY <1>2, <1>5, SteadyKeepsRetained

LEMMA CollectKeepsRetained ==
  ASSUME Inv, Retained, retain_bytes \in Int, Collect
  PROVE  Retained'
<1>1. UNCHANGED <<streamVars, dbVars, flush, overdue>>
  BY DEF Collect, GcUnlink, GcSync, GcSyncFails, historyVars
<1>2. UNCHANGED <<recent_recordings, committed, flush_ready, row, byteVars, retain_bytes,
                  to_delete, flush, overdue>>
  BY <1>1 DEF streamVars, dbVars
<1>3. Waiting' = Waiting
  BY <1>2 DEF Waiting, Alive
<1>4. ASSUME NEW id \in Waiting PROVE file'[id].size = file[id].size
  <2>1. id \in Ids /\ committed <= id /\ file \in [Ids -> FileRecord]
    BY WaitingIsSynced, FileTypes
  <2>2. PICK c \in Collectors : GcUnlink(c) \/ GcSync(c) \/ GcSyncFails(c)
    BY DEF Collect
  <2>3. CASE GcUnlink(c)
    <3>1. PICK ids \in SUBSET garbage_needs_unlink :
            file' = [x \in Ids |->
                       IF x \in ids /\ file[x].exists THEN Unlinked ELSE file[x]]
      BY <2>3 DEF GcUnlink
    <3>2. id \notin ids
      <4>1. garbage_needs_unlink \subseteq garbage /\ \A x \in garbage : x < committed
        BY DEF Inv, Flushing
      <4>2. id \in Nat /\ committed \in Nat
        BY <2>1, FileTypes
      <4> QED BY <4>1, <4>2, <2>1
    <3> QED BY <2>1, <3>1, <3>2
  <2>4. CASE GcSync(c)
    BY <2>1, <2>4, SyncedDirectory DEF GcSync
  <2>5. CASE GcSyncFails(c)
    BY <2>5 DEF GcSyncFails
  <2> QED BY <2>2, <2>3, <2>4, <2>5
<1> QED BY <1>2, <1>3, <1>4, SteadyKeepsRetained

-----------------------------------------------------------------------------
(* Making room.                                                            *)

\* The oldest rows, until they take more than is needed: if some are left,
\* they take more.
LEMMA OldestTakeEnough ==
  ASSUME Inv, NEW needed \in Int, NEW after \in SUBSET DOMAIN row
  PROVE  LET more == Oldest(needed, after)
         IN  /\ more \subseteq after
             /\ more = after \/ BytesOf(row, more) > needed
<1> DEFINE more == Oldest(needed, after)
           upTo(x) == {o \in after : o < x}
<1>1. more = {id \in after : BytesOf(row, upTo(id)) <= needed}
  BY DEF Oldest, BytesOf
<1> HIDE DEF more
<1>2. more \subseteq after /\ after \subseteq Nat
  BY <1>1, RowSets
<1>3. SUFFICES ASSUME more # after PROVE BytesOf(row, more) > needed
  BY <1>2 DEF more
<1> DEFINE rest == after \ more
<1>4. PICK m \in rest : \A id \in rest : m <= id
  <2>1. rest # {} /\ rest \subseteq Nat
    BY <1>2, <1>3
  <2> HIDE DEF rest
  <2> QED BY <2>1, LeastExists
<1>5. m \in after /\ m \in Nat /\ ~(BytesOf(row, upTo(m)) <= needed)
  BY <1>1, <1>2
<1>6. upTo(m) \subseteq more
  <2>1. ASSUME NEW o \in after, o < m PROVE o \in more
    <3>1. o \in Nat
      BY <1>2
    <3>2. SUFFICES ASSUME o \in rest PROVE FALSE
      OBVIOUS
    <3>3. m <= o
      BY <1>4, <3>2
    <3> QED BY <1>5, <2>1, <3>1, <3>3
  <2> QED BY <2>1
<1>7. IsFiniteSet(more) /\ \A id \in more : row[id] \in Nat
  BY <1>2, RowBytes, RowSets
<1> HIDE DEF rest, upTo
<1>8. /\ BytesOf(row, upTo(m)) \in Nat /\ BytesOf(row, more) \in Nat
      /\ BytesOf(row, upTo(m)) <= BytesOf(row, more)
  BY <1>6, <1>7, BytesOfGrow
<1> QED BY <1>5, <1>8

LEMMA EnqueueMakesRoom ==
  ASSUME Inv, QueuedOldest, Counted, Tallied, flush.pc # "Committed",
         UNCHANGED <<row, fs_bytes>>, retain_bytes' \in Int,
         NEW ready, EnqueueDelete(ready),
         NEW extra \in Nat, extra <= FsBytesToAdd(ready)
  PROVE  /\ to_delete' \subseteq DOMAIN row
         /\ fs_bytes_to_delete' = BytesOf(row, to_delete')
         /\ fs_bytes_to_delete' \in 0..fs_bytes
         /\ \/ BytesOf(row, DOMAIN row \ to_delete') + extra <= retain_bytes'
            \/ to_delete' = DOMAIN row
<1> DEFINE all == DOMAIN row
           add == FsBytesToAdd(ready)
           left == all \ to_delete
           needed == fs_bytes + add - fs_bytes_to_delete - retain_bytes'
<1>1. to_delete \subseteq all /\ left \subseteq all
  BY DEF Inv, Flushing
<1>2. \A ids \in SUBSET all :
        /\ BytesOf(row, ids) \in Nat /\ IsFiniteSet(ids) /\ \A id \in ids : row[id] \in Nat
  BY RowBytes, RowSets
<1>3. ASSUME NEW s \in SUBSET all, NEW t \in SUBSET all, s \cap t = {}
      PROVE  BytesOf(row, s \cup t) = BytesOf(row, s) + BytesOf(row, t)
  <2>1. IsFiniteSet(s) /\ IsFiniteSet(t) /\ \A id \in s \cup t : row[id] \in Nat
    BY <1>2
  <2> QED BY <1>3, <2>1, BytesOfUnion
<1>4. fs_bytes = BytesOf(row, to_delete) + BytesOf(row, left) /\ fs_bytes_to_delete = BytesOf(row, to_delete)
  <2>1. to_delete \cup left = all /\ to_delete \cap left = {}
    BY <1>1
  <2>2. fs_bytes = BytesOf(row, to_delete \cup left)
    BY <2>1 DEF Tallied
  <2> HIDE DEF all, left
  <2> QED BY <1>1, <1>3, <2>1, <2>2 DEF Tallied, all
<1>5. add \in Nat /\ BytesOf(row, to_delete) \in Nat /\ BytesOf(row, left) \in Nat
  BY <1>1, <1>2, FsBytesToAddIsTotal
<1> DEFINE bLeft == BytesOf(row, left)
           bQueued == BytesOf(row, to_delete)
<1>6. needed \in Int /\ needed = bLeft + add - retain_bytes'
  <2> HIDE DEF bLeft, bQueued, add
  <2>1. fs_bytes = bQueued + bLeft /\ fs_bytes_to_delete = bQueued
    BY <1>4 DEF bLeft, bQueued
  <2>2. add \in Nat /\ bQueued \in Nat /\ bLeft \in Nat
    BY <1>5 DEF bLeft, bQueued
  <2> QED BY <2>1, <2>2
<1>7. CASE needed <= 0 /\ UNCHANGED <<to_delete, fs_bytes_to_delete>>
  <2>1. bLeft + extra <= retain_bytes'
    <3> HIDE DEF bLeft, add, needed
    <3>1. bLeft \in Nat /\ add \in Nat /\ extra <= add /\ needed <= 0
      BY <1>5, <1>7 DEF bLeft, add
    <3>2. bLeft + add - retain_bytes' <= 0
      BY <3>1, <1>6
    <3>3. \A l, a, x, r \in Int : l + a - r <= 0 /\ x <= a => l + x <= r
      OBVIOUS
    <3>4. retain_bytes' \in Int
      OBVIOUS
    <3>5. bLeft \in Int /\ add \in Int
      BY <3>1
    <3>6. extra \in Int
      OBVIOUS
    <3>7. extra <= add
      BY <3>1
    <3> QED BY <3>2, <3>3, <3>4, <3>5, <3>6, <3>7
  <2> QED BY <1>1, <1>4, <1>7, <2>1 DEF Counted
<1>8. CASE DeleteOldest(needed)
  <2> DEFINE after == {id \in DOMAIN row : \A d \in to_delete : d < id}
             more == Oldest(needed, after)
             stays == all \ to_delete'
  <2>1. /\ to_delete' = to_delete \cup more
        /\ fs_bytes_to_delete' = fs_bytes_to_delete + FsBytes(Restrict(row, more))
    BY <1>8 DEF DeleteOldest
  <2>2. after = left
    <3>1. \A id \in all : id \in Nat
      BY RowSets
    <3>2. ASSUME NEW id \in after PROVE id \in left
      BY <3>1, <3>2, <1>1
    <3>3. ASSUME NEW id \in left, NEW d \in to_delete PROVE d < id
      <4>1. id \in Nat /\ d \in Nat /\ id # d
        BY <3>1, <1>1
      <4>2. ~(id < d)
        BY <1>1 DEF QueuedOldest
      <4> QED BY <4>1, <4>2
    <3> QED BY <3>2, <3>3
  <2>3. more \subseteq left /\ (more = left \/ BytesOf(row, more) > needed)
    <3>1. left \in SUBSET DOMAIN row
      BY <1>1
    <3> HIDE DEF left, after, needed
    <3> QED BY <1>6, <2>2, <3>1, OldestTakeEnough
  <2> HIDE DEF more, after
  <2>4. /\ to_delete' \subseteq all /\ to_delete \cap more = {} /\ more \in SUBSET all
        /\ stays \in SUBSET all /\ more \cap stays = {} /\ more \cup stays = left
    BY <2>1, <2>3, <1>1
  <2>5. fs_bytes_to_delete' = BytesOf(row, to_delete')
    <3>1. FsBytes(Restrict(row, more)) = BytesOf(row, more)
      BY <2>4, RowBytes
    <3>2. BytesOf(row, to_delete \cup more) = BytesOf(row, to_delete) + BytesOf(row, more)
      BY <1>1, <1>3, <2>4
    <3> QED BY <1>4, <2>1, <3>1, <3>2
  <2>6. fs_bytes_to_delete' \in 0..fs_bytes
    <3>1. /\ BytesOf(row, to_delete') \in Nat /\ BytesOf(row, all) \in Nat
          /\ BytesOf(row, to_delete') <= BytesOf(row, all)
      <4>1. to_delete' \in SUBSET all /\ IsFiniteSet(all) /\ \A id \in all : row[id] \in Nat
        BY <1>2, <2>4
      <4> HIDE DEF all
      <4> QED BY <4>1, BytesOfGrow
    <3>2. fs_bytes = BytesOf(row, all)
      BY DEF Tallied
    <3> HIDE DEF all
    <3> QED BY <2>5, <3>1, <3>2
  <2>7. CASE more = left
    <3>1. to_delete' = all
      BY <2>1, <2>7, <1>1
    <3> QED BY <2>4, <2>5, <2>6, <3>1
  <2>8. CASE BytesOf(row, more) > needed
    <3> DEFINE bMore == BytesOf(row, more)
               bStays == BytesOf(row, stays)
    <3>1. bLeft = bMore + bStays
      <4> HIDE DEF stays, left
      <4> QED BY <1>3, <2>4
    <3>2. bMore \in Nat /\ bStays \in Nat /\ bLeft \in Nat /\ add \in Nat
      BY <1>2, <1>5, <2>4
    <3>3. bMore > needed
      BY <2>8
    <3>4. bStays + extra <= retain_bytes'
      <4> HIDE DEF bMore, bStays, bLeft, add, needed
      <4>1. extra <= add
        BY DEF add
      <4>2. needed = bLeft + add - retain_bytes' /\ retain_bytes' \in Int
        BY <1>6
      <4>3. bMore > bMore + bStays + add - retain_bytes'
        BY <3>1, <3>2, <3>3, <4>2
      <4>4. \A m, l, a, x, r \in Int : m > m + l + a - r /\ x <= a => l + x <= r
        OBVIOUS
      <4>5. bMore \in Int /\ bStays \in Int /\ add \in Int
        BY <3>2
      <4>6. retain_bytes' \in Int
        OBVIOUS
      <4>7. extra \in Int
        OBVIOUS
      <4> QED BY <4>1, <4>3, <4>4, <4>5, <4>6, <4>7
    <3> QED BY <2>4, <2>5, <2>6, <3>4
  <2> QED BY <2>3, <2>7, <2>8
<1>9. (needed <= 0 /\ UNCHANGED <<to_delete, fs_bytes_to_delete>>) \/ DeleteOldest(needed)
  BY DEF EnqueueDelete, Needed
<1> QED BY <1>7, <1>8, <1>9

-----------------------------------------------------------------------------
(* The flusher, crashes and the start.                                     *)

LEMMA HandleNotifyKeepsRetained ==
  ASSUME Inv, QueuedOldest, retain_bytes \in Int, Retained, HandleNotify
  PROVE  Retained'
<1> DEFINE ids == {id \in committed..(Current - 1) : Alive(id)}
           Joins == \E i \in DOMAIN recent_recordings :
                      LET r == recent_recordings[i]
                      IN  r.id \in flush_ready..(Current - 1) /\ ~Deleted(r)
<1>1. /\ flush_ready' = Current /\ flush.pc = "Idle"
      /\ UNCHANGED <<recent_recordings, committed, fs_bytes, retain_bytes, row, flush, file>>
      /\ IF Joins THEN \/ EnqueueDelete(Current)
                       \/ overdue' = TRUE /\ UNCHANGED <<to_delete, fs_bytes_to_delete>>
                  ELSE UNCHANGED <<to_delete, fs_bytes_to_delete, overdue>>
  BY DEF HandleNotify, EnqueueFails, DbUnlocked, threadVars, dbVars, Current
<1> HIDE DEF Joins
<1>2. Waiting' = ids /\ Sizes' = Sizes
  <2>1. \A id : Alive(id)' <=> Alive(id)
    BY <1>1 DEF Alive
  <2> QED BY <1>1, <2>1 DEF Waiting, Sizes
<1>3. Gathered' /\ Lagging'
  BY <1>1 DEF Gathered, Lagging
<1>4. CASE Joins /\ EnqueueDelete(Current)
  <2> DEFINE extra == BytesOf(Sizes, ids)
  <2>1. extra \in Nat /\ extra <= FsBytesToAdd(Current)
    BY BytesToAddSuffice
  <2>2. EnqueueDelete(Current) /\ retain_bytes' \in Int /\ flush.pc # "Committed"
    BY <1>1, <1>4
  <2> HIDE DEF extra
  <2>3. /\ to_delete' \subseteq DOMAIN row
        /\ fs_bytes_to_delete' = BytesOf(row, to_delete')
        /\ fs_bytes_to_delete' \in 0..fs_bytes
        /\ \/ BytesOf(row, DOMAIN row \ to_delete') + extra <= retain_bytes'
           \/ to_delete' = DOMAIN row
    BY <1>1, <2>1, <2>2, EnqueueMakesRoom DEF Retained
  <2>4. Counted' /\ Tallied'
    BY <1>1, <2>3 DEF Retained, Counted, Tallied, BytesOf
  <2>5. Room'
    BY <1>1, <1>2, <2>3 DEF Room, BytesOf, extra
  <2> QED BY <1>3, <2>4, <2>5 DEF Retained
<1>4a. CASE overdue' = TRUE /\ UNCHANGED <<to_delete, fs_bytes_to_delete>>
  <2>1. Counted' /\ Tallied'
    BY <1>1, <1>4a DEF Retained, Counted, Tallied, BytesOf
  <2>2. Room'
    BY <1>4a DEF Room
  <2> QED BY <1>3, <2>1, <2>2 DEF Retained
<1>5. CASE ~Joins
  <2>1. UNCHANGED <<to_delete, fs_bytes_to_delete, overdue>>
    BY <1>1, <1>5
  <2>2. Counted' /\ Tallied'
    BY <1>1, <2>1 DEF Retained, Counted, Tallied, BytesOf
  <2>3. ids \subseteq Waiting
    <3>1. SUFFICES ASSUME NEW id \in ids PROVE id \in committed..(flush_ready - 1)
      BY DEF Waiting
    <3>2. PICK i \in DOMAIN recent_recordings :
            recent_recordings[i].id = id /\ ~Deleted(recent_recordings[i])
      BY DEF Alive
    <3>3. id \notin flush_ready..(Current - 1)
      BY <1>5, <3>2 DEF Joins
    <3>4. flush_ready \in Nat /\ committed \in Nat /\ Current \in Nat /\ id \in Nat
      BY FileTypes, Ranges DEF Inv, Typed
    <3>5. committed <= id /\ id < Current
      BY <3>4
    <3> QED BY <3>3, <3>4, <3>5
  <2>4. Room'
    <3>1. Waiting' \subseteq Waiting /\ \A id \in Waiting' : Sizes'[id] = Sizes[id]
      BY <1>2, <2>3
    <3> QED BY <1>1, <2>1, <3>1, RoomStays DEF Retained
  <2> QED BY <1>3, <2>2, <2>4 DEF Retained
<1> QED BY <1>1, <1>4, <1>4a, <1>5

LEMMA FlushCollectKeepsRetained ==
  ASSUME Inv, retain_bytes \in Int, Retained, FlushCollect
  PROVE  Retained'
<1> DEFINE ids == {r.id : r \in Ready}
<1>1. /\ flush.pc = "Idle" /\ flush'.pc = "Collected"
      /\ DOMAIN flush'.new = ids
      /\ flush'.cum = IF Ready = {} THEN NoId ELSE Max(ids) + 1
      /\ UNCHANGED <<streamVars, file, row, overdue>>
  BY DEF FlushCollect, DbUnlocked, dbVars, historyVars
<1>2. UNCHANGED <<recent_recordings, committed, flush_ready, fs_bytes, fs_bytes_to_delete,
                  retain_bytes, to_delete, file, row>>
  BY <1>1 DEF streamVars, byteVars
<1>3. Waiting' = Waiting /\ Sizes' = Sizes
  BY <1>2 DEF Waiting, Alive, Sizes
<1>4. Counted' /\ Tallied' /\ Lagging'
  BY <1>1, <1>2 DEF Retained, Counted, Tallied, Lagging, BytesOf
<1>5. Room'
  BY <1>1, <1>2, <1>3 DEF Retained, Room, BytesOf
<1>6. ids = Waiting
  <2>1. ASSUME NEW r \in Ready PROVE r.id \in Waiting
    <3>1. r.id \in committed..(flush_ready - 1) /\ ~Deleted(r)
      BY DEF Ready
    <3>2. PICK i \in DOMAIN recent_recordings : recent_recordings[i] = r
      BY DEF Ready, ToSet
    <3> QED BY <3>1, <3>2 DEF Waiting, Alive
  <2>2. ASSUME NEW id \in Waiting PROVE id \in ids
    <3>1. PICK i \in DOMAIN recent_recordings :
            recent_recordings[i].id = id /\ ~Deleted(recent_recordings[i])
      BY DEF Waiting, Alive
    <3>2. recent_recordings[i] \in Ready
      BY <3>1, Ranges DEF Waiting, Ready, ToSet
    <3> QED BY <3>1, <3>2
  <2> QED BY <2>1, <2>2
<1>7. Gathered'
  <2>1. CASE Waiting = {}
    <3>1. Ready = {}
      BY <1>6, <2>1
    <3> QED BY <1>1, <1>3, <1>6, <2>1, <3>1 DEF Gathered
  <2>2. CASE Waiting # {}
    <3>1. Ready # {}
      BY <1>6, <2>2
    <3> HIDE DEF ids
    <3>2. flush'.cum = Max(ids) + 1
      BY <1>1, <3>1
    <3>3. ids # {} /\ ids \subseteq 0..MaxRecordings /\ MaxRecordings \in Nat
      BY <1>6, <2>2, WaitingIsSynced, Ranges DEF Ids
    <3>4. Max(ids) \in ids /\ \A id \in ids : id <= Max(ids)
      BY <3>3, MaxIsGreatest
    <3>5. \A n \in Nat : n + 1 # NoId /\ \A id \in Nat : id <= n => id < n + 1
      BY DEF NoId
    <3>6. \A id \in ids : id \in Nat
      BY <3>3
    <3> DEFINE top == Max(ids)
    <3>7. top \in Nat /\ flush'.cum = top + 1 /\ \A id \in ids : id <= top
      BY <3>2, <3>4, <3>6
    <3> HIDE DEF top
    <3>8. flush'.cum # NoId /\ \A id \in ids : id < flush'.cum
      BY <3>5, <3>6, <3>7
    <3>9. top < flush_ready
      <4>1. top \in committed..(flush_ready - 1)
        BY <1>6, <3>4 DEF top, Waiting
      <4>2. flush_ready \in Nat /\ committed \in Nat
        BY Ranges DEF Inv, Typed
      <4> QED BY <4>1, <4>2
    <3>10. flush'.cum <= flush_ready'
      <4>1. \A n, m \in Nat : n < m => n + 1 <= m
        OBVIOUS
      <4>2. flush_ready \in Nat /\ flush_ready' = flush_ready
        BY <1>2, Ranges DEF Inv, Typed
      <4> QED BY <3>7, <3>9, <4>1, <4>2
    <3> QED BY <1>1, <1>3, <1>6, <2>2, <3>8, <3>10 DEF Gathered
  <2> QED BY <2>1, <2>2
<1> QED BY <1>4, <1>5, <1>7 DEF Retained

LEMMA FlushFailsKeepsRetained ==
  ASSUME Inv, retain_bytes \in Int, Retained, FlushFails
  PROVE  Retained'
<1>1. /\ flush.pc = "Collected" /\ flush'.pc = "Idle"
      /\ UNCHANGED <<streamVars, file, row, overdue>>
  BY DEF FlushFails, NoFlush, dbVars, historyVars
<1>2. UNCHANGED <<recent_recordings, committed, flush_ready, fs_bytes, fs_bytes_to_delete,
                  retain_bytes, to_delete, file, row>>
  BY <1>1 DEF streamVars, byteVars
<1>3. Waiting' = Waiting /\ Sizes' = Sizes
  BY <1>2 DEF Waiting, Alive, Sizes
<1>4. Counted' /\ Tallied' /\ Lagging' /\ Gathered'
  BY <1>1, <1>2 DEF Retained, Counted, Tallied, Lagging, Gathered, BytesOf
<1>5. Room'
  BY <1>1, <1>2, <1>3 DEF Retained, Room, BytesOf
<1> QED BY <1>4, <1>5 DEF Retained

LEMMA FlushCommitKeepsRetained ==
  ASSUME Inv, Sound, Retained, FlushCommit
  PROVE  Retained'
<1> DEFINE new == flush.new
           all == DOMAIN row
           stays == all \ to_delete
           bNew == BytesOf(new, DOMAIN new)
           bStays == BytesOf(row, stays)
           bQueued == BytesOf(row, to_delete)
<1>1. /\ flush.pc = "Collected" /\ UNCHANGED <<streamVars, file, overdue>>
      /\ row' = [id \in (all \cup DOMAIN new) \ DeletionRange |->
                   IF id \in DOMAIN new THEN new[id] ELSE row[id]]
      /\ flush' = [flush EXCEPT !.pc = "Committed", !.gced = garbage_unlinked]
  BY DEF FlushCommit
<1>2. UNCHANGED <<recent_recordings, committed, flush_ready, fs_bytes, fs_bytes_to_delete,
                  retain_bytes, to_delete, file>>
  BY <1>1 DEF streamVars, byteVars
<1>3. Waiting' = Waiting
  BY <1>2 DEF Waiting, Alive
<1>4. flush'.pc = "Committed" /\ flush'.new = new /\ flush'.cum = flush.cum
  BY <1>1 DEF Inv, Typed
<1>5. DeletionRange = to_delete /\ to_delete \subseteq all
  BY <1>1, DeletesTheQueue DEF Inv, Flushing
<1>6. /\ \A id \in DOMAIN new : committed <= id /\ Durable(id, new[id])
      /\ \A id \in all : id < committed
  BY <1>1 DEF Inv, Flushing
<1>7. /\ DOMAIN new \subseteq Ids /\ IsFiniteSet(DOMAIN new)
      /\ \A id \in DOMAIN new : new[id] \in Nat
  <2>1. DOMAIN new \subseteq Ids /\ \A id \in DOMAIN new : new[id] \in 1..MaxBytes
    BY DEF Inv, Typed, Rows
  <2>2. \A b \in 1..MaxBytes : b \in Nat
    BY Ranges
  <2> QED BY <2>1, <2>2, RowSets
<1>8. DOMAIN new \cap all = {}
  <2>1. SUFFICES ASSUME NEW id \in DOMAIN new, id \in all PROVE FALSE
    OBVIOUS
  <2>2. id \in Nat /\ committed \in Nat
    BY <1>7, FileTypes
  <2> QED BY <2>1, <2>2, <1>6
<1>9. /\ DOMAIN row' = stays \cup DOMAIN new
      /\ \A id \in DOMAIN new : row'[id] = new[id]
      /\ \A id \in stays : row'[id] = row[id]
  <2>1. (all \cup DOMAIN new) \ DeletionRange = stays \cup DOMAIN new
    BY <1>5, <1>8
  <2> QED BY <1>1, <1>8, <2>1
<1>10. /\ stays \subseteq all /\ IsFiniteSet(stays) /\ IsFiniteSet(to_delete)
       /\ \A id \in all : row[id] \in Nat
       /\ bStays \in Nat /\ bQueued \in Nat /\ bNew \in Nat
  BY <1>5, <1>7, RowBytes, RowSets, BytesOfIsTotal
<1>11. BytesOf(row', DOMAIN row') = bStays + bNew
  <2>1. BytesOf(row', stays) = bStays /\ BytesOf(row', DOMAIN new) = bNew
    BY <1>9, BytesOfAgree
  <2>2. stays \cap DOMAIN new = {} /\ \A id \in stays \cup DOMAIN new : row'[id] \in Nat
    BY <1>7, <1>8, <1>9, <1>10
  <2> DEFINE after == row'
  <2>3. /\ stays \cap DOMAIN new = {} /\ \A id \in stays \cup DOMAIN new : after[id] \in Nat
        /\ IsFiniteSet(stays) /\ IsFiniteSet(DOMAIN new)
    BY <1>7, <1>10, <2>2
  <2>4. DOMAIN after = stays \cup DOMAIN new
    BY <1>9
  <2>5. BytesOf(after, stays) = bStays /\ BytesOf(after, DOMAIN new) = bNew
    BY <2>1
  <2> HIDE DEF after, stays, new, bStays, bNew
  <2>6. BytesOf(after, stays \cup DOMAIN new) = BytesOf(after, stays) + BytesOf(after, DOMAIN new)
    BY <2>3, BytesOfUnion
  <2>7. BytesOf(after, DOMAIN after) = bStays + bNew
    BY <2>4, <2>5, <2>6
  <2> QED BY <2>7 DEF after
<1>12. fs_bytes = bQueued + bStays /\ fs_bytes_to_delete = bQueued
  <2>1. to_delete \cup stays = all /\ to_delete \cap stays = {}
    BY <1>5
  <2>2. fs_bytes = BytesOf(row, to_delete \cup stays) /\ fs_bytes_to_delete = bQueued
    BY <1>1, <2>1 DEF Retained, Tallied
  <2>3. \A id \in to_delete \cup stays : row[id] \in Nat
    BY <1>10, <2>1
  <2> HIDE DEF all, stays
  <2> QED BY <1>10, <2>1, <2>2, <2>3, BytesOfUnion
<1>13. flush.cum # NoId /\ ~overdue => bStays + bNew <= retain_bytes \/ to_delete = all
  <2>1. SUFFICES ASSUME flush.cum # NoId, ~overdue PROVE bStays + bNew <= retain_bytes \/ to_delete = all
    OBVIOUS
  <2>2. DOMAIN new = Waiting /\ Waiting # {}
    BY <1>1, <2>1 DEF Retained, Gathered
  <2>3. \A id \in DOMAIN new : new[id] = Sizes[id]
    <3>1. \A f, size : IsDurable(f, size) => f.size = size
      BY DEF IsDurable
    <3>2. \A id \in DOMAIN new : new[id] = file[id].size
      BY <1>6, <3>1 DEF Durable
    <3> QED BY <1>7, <3>2 DEF Sizes
  <2>4. bNew = BytesOf(Sizes, Waiting)
    BY <2>2, <2>3, BytesOfAgree
  <2> QED BY <1>1, <2>1, <2>2, <2>4 DEF Retained, Room
<1>14. Lagging'
  <2>2. fs_bytes - fs_bytes_to_delete + bNew = BytesOf(row', DOMAIN row')
    <3> HIDE DEF bNew, bStays, bQueued
    <3> QED BY <1>10, <1>11, <1>12
  <2>3. \A id \in DOMAIN new : id \in DOMAIN row' /\ row'[id] = new[id]
    BY <1>9
  <2>4. flush.cum # NoId /\ ~overdue =>
          BytesOf(row', DOMAIN row') <= retain_bytes \/ DOMAIN row' \subseteq DOMAIN new
    BY <1>9, <1>11, <1>13
  <2> HIDE DEF new
  <2> QED BY <1>1, <1>2, <1>4, <2>2, <2>3, <2>4 DEF Lagging, BytesOf, new
<1>15. Counted' /\ Tallied' /\ Room'
  BY <1>2, <1>4 DEF Retained, Counted, Tallied, Room
<1>16. Gathered'
  BY <1>1, <1>2, <1>3, <1>4 DEF Retained, Gathered
<1> QED BY <1>14, <1>15, <1>16 DEF Retained

\* What a flush adds to the counter is what it inserted.
LEMMA InsertedBytes ==
  ASSUME Inv, Gathered, Lagging, flush.pc = "Committed",
         NEW added,
         added = {i \in DOMAIN recent_recordings :
                    LET r == recent_recordings[i]
                    IN  /\ flush.cum # NoId /\ r.id \in committed..(flush.cum - 1)
                        /\ ~Deleted(r)}
  PROVE  FsBytes([i \in added |-> recent_recordings[i].sample_file_bytes])
           = BytesOf(flush.new, DOMAIN flush.new)
<1> DEFINE R == recent_recordings
           new == flush.new
           ids == DOMAIN new
           rows == [i \in added |-> R[i].sample_file_bytes]
           b == [i \in added |-> R[i].id]
           w == [id \in ids |-> RoundUp(new[id])]
<1>1. IsFiniteSet(ids) /\ \A id \in ids : new[id] \in Nat
  <2>1. ids \subseteq Ids /\ \A id \in ids : new[id] \in 1..MaxBytes
    BY DEF Inv, Typed, Rows
  <2>2. \A n \in 1..MaxBytes : n \in Nat
    BY Ranges
  <2> QED BY <2>1, <2>2, RowSets
<1>2. ids = Waiting /\ (flush.cum # NoId => flush.cum <= flush_ready)
      /\ \A id \in Waiting : flush.cum # NoId /\ id < flush.cum
  BY DEF Gathered
<1>3. flush_ready \in Nat /\ committed \in Nat /\ Current \in Nat
      /\ (flush.cum # NoId => flush.cum \in Nat /\ flush.cum <= Current)
  <2>1. flush_ready \in Nat
    BY Ranges DEF Inv, Typed
  <2> QED BY <2>1, FileTypes
<1>4. ASSUME NEW i \in DOMAIN R
      PROVE  /\ R[i].id \in Nat /\ R[i].sample_file_bytes \in Nat /\ i \in 1..Len(R)
             /\ R[i].id = Top - Len(R) + i
  <2>1. \A n \in 1..MaxBytes : n \in Nat
    BY Ranges
  <2> QED BY <2>1, RecentRanges
<1>5. ASSUME NEW i \in added
      PROVE  /\ i \in DOMAIN R /\ R[i].id \in ids
             /\ new[R[i].id] = R[i].sample_file_bytes
  <2>1. /\ i \in DOMAIN R /\ flush.cum # NoId /\ R[i].id \in committed..(flush.cum - 1)
        /\ ~Deleted(R[i])
    OBVIOUS
  <2>2. R[i].id \in Nat /\ committed <= R[i].id /\ R[i].id < flush.cum
    BY <1>3, <1>4, <2>1
  <2>3. R[i].id \in committed..(flush_ready - 1) /\ R[i].id < Current
    BY <1>2, <1>3, <2>1, <2>2
  <2>4. R[i].id \in ids
    BY <1>2, <2>1, <2>3 DEF Waiting, Alive
  <2>5. Durable(R[i].id, R[i].sample_file_bytes)
    BY <2>1, <2>2, <2>3 DEF Inv, Working
  <2>6. R[i].id \in DOMAIN row /\ row[R[i].id] = new[R[i].id]
    BY <2>4 DEF Lagging
  <2>7. Durable(R[i].id, row[R[i].id])
    BY <2>6 DEF Inv, Flushing, CommittedDurable, Durable, IsDurable
  <2>8. \A f, x, y : IsDurable(f, x) /\ IsDurable(f, y) => x = y
    <3>1. \A f, x : IsDurable(f, x) => f.size = x
      BY DEF IsDurable
    <3> QED BY <3>1
  <2>9. row[R[i].id] = R[i].sample_file_bytes
    BY <2>5, <2>7, <2>8 DEF Durable
  <2> QED BY <2>1, <2>4, <2>6, <2>9
<1>6. ASSUME NEW id \in ids PROVE \E i \in added : R[i].id = id
  <2>1. id \in committed..(flush_ready - 1) /\ flush.cum # NoId /\ id < flush.cum
    BY <1>2 DEF Waiting
  <2>2. PICK i \in DOMAIN R : R[i].id = id /\ ~Deleted(R[i])
    BY <1>2 DEF Waiting, Alive
  <2>3. id \in committed..(flush.cum - 1)
    BY <1>3, <2>1
  <2> QED BY <2>1, <2>2, <2>3
<1>7. IsFiniteSet(added)
  <2>1. Len(R) \in Int
    BY Ranges
  <2>2. IsFiniteSet(1..Len(R))
    BY <2>1, FS_Interval
  <2>3. added \subseteq 1..Len(R)
    BY <1>4, <1>5
  <2> QED BY <2>2, <2>3, FS_Subset
<1>8. \A x, y \in added : R[x].id = R[y].id => x = y
  <2>1. \A x \in added : x \in Int /\ R[x].id = Top - Len(R) + x
    BY <1>4, <1>5
  <2>2. Top \in Int /\ Len(R) \in Int
    BY Ranges
  <2>3. \A t, l, x, y \in Int : t - l + x = t - l + y => x = y
    OBVIOUS
  <2> QED BY <2>1, <2>2, <2>3
<1>9. /\ DOMAIN rows = added /\ \A i \in added : rows[i] = R[i].sample_file_bytes /\ rows[i] \in Nat
      /\ b \in [added -> ids] /\ \A i \in added : b[i] = R[i].id
      /\ \A id \in ids : w[id] = RoundUp(new[id])
  BY <1>4, <1>5
<1>10. {b[i] : i \in added} = ids
  <2>1. \A id \in ids : \E i \in added : b[i] = id
    BY <1>6, <1>9
  <2>2. b \in [added -> ids]
    BY <1>9
  <2> HIDE DEF b, ids
  <2> QED BY <2>1, <2>2
<1> HIDE DEF rows, ids, R, new, b, w
<1>11. PICK h : Totals(h, Weights(rows), added) /\ FsBytes(rows) = h[added]
  BY <1>7, <1>9, FsBytesIsTotal
<1>12. /\ \E g : Totals(g, w, ids) /\ BytesOf(new, ids) = g[ids]
       /\ w \in [ids -> Nat]
  BY <1>1, BytesOfIsTotal DEF w
<1>13. PICK g : Totals(g, w, ids) /\ BytesOf(new, ids) = g[ids]
  BY <1>12
<1>14. \A i \in added : Weights(rows)[i] = w[b[i]]
  BY <1>5, <1>9 DEF Weights
<1>15. \A x, y \in added : b[x] = b[y] => x = y
  BY <1>8, <1>9
<1>16. h[added] = g[{b[i] : i \in added}]
  BY SMTT(30), <1>1, <1>7, <1>9, <1>11, <1>12, <1>13, <1>14, <1>15, TotalsMoved
<1> QED BY <1>10, <1>11, <1>13, <1>16 DEF rows, ids, R, new

\* The recordings that the third scope counts are those the flush inserted:
\* what it deletes is older.
LEMMA ApplyAdds ==
  ASSUME Inv, FlushApply
  PROVE  \E added :
           /\ added = {i \in DOMAIN recent_recordings :
                         LET r == recent_recordings[i]
                         IN  /\ flush.cum # NoId /\ r.id \in committed..(flush.cum - 1)
                             /\ ~Deleted(r)}
           /\ fs_bytes' = fs_bytes - fs_bytes_to_delete
                          + FsBytes([i \in added |-> recent_recordings[i].sample_file_bytes])
<1> DEFINE R == recent_recordings
           end == IF to_delete = {} THEN 0 ELSE Max(to_delete) + 1
           ids == {id \in Ids : id < end}
           deleted == DeleteUntil(R, end)
           new(r) == /\ flush.cum # NoId /\ r.id \in committed..(flush.cum - 1)
                     /\ ~Deleted(r)
           among == {i \in DOMAIN deleted : new(deleted[i])}
           added == {i \in DOMAIN R : new(R[i])}
<1>1. fs_bytes' = fs_bytes - fs_bytes_to_delete
                    + FsBytes([i \in among |-> deleted[i].sample_file_bytes])
  BY DEF FlushApply
<1>2. end \in Nat /\ end <= committed
  <2>1. CASE to_delete = {}
    BY <2>1, FileTypes
  <2>2. CASE to_delete # {}
    <3>1. to_delete \subseteq 0..MaxRecordings /\ to_delete \subseteq Nat
      BY Ranges, RowSets DEF Ids
    <3>2. Max(to_delete) \in to_delete
      BY <2>2, <3>1, Ranges, MaxIsGreatest
    <3>3. to_delete \subseteq garbage /\ \A id \in garbage : id < committed
      BY DEF FlushApply, Inv, Flushing
    <3>4. Max(to_delete) \in Nat /\ Max(to_delete) < committed /\ committed \in Nat
      BY <3>1, <3>2, <3>3, FileTypes
    <3> DEFINE top == Max(to_delete)
    <3>5. end = top + 1
      BY <2>2
    <3> HIDE DEF top, end
    <3> QED BY <3>4, <3>5 DEF top
  <2> QED BY <2>1, <2>2
<1> HIDE DEF end
<1>3. /\ R \in Seq(Recording) /\ DOMAIN R = 1..Len(R)
      /\ \A i \in DOMAIN R : R[i].id \in Nat
  BY SMTT(30), Ranges, RecentRanges
<1>4. /\ deleted \in Seq(Recording) /\ Len(deleted) = Len(R)
      /\ \A i \in 1..Len(R) :
           /\ deleted[i].id = R[i].id
           /\ deleted[i].sample_file_bytes = R[i].sample_file_bytes
           /\ Deleted(deleted[i]) = (Deleted(R[i]) \/ R[i].id \in ids)
  BY <1>3, MarkedRecordings DEF DeleteUntil
<1>5. DOMAIN deleted = DOMAIN R
  BY <1>3, <1>4
<1> HIDE DEF deleted, R
<1>6. ASSUME NEW i \in DOMAIN R PROVE new(deleted[i]) <=> new(R[i])
  <2>1. i \in 1..Len(R) /\ R[i].id \in Nat /\ committed \in Nat
    BY <1>3, FileTypes
  <2>2. committed <= R[i].id => R[i].id \notin ids
    BY <1>2, <2>1
  <2>3. R[i].id \in committed..(flush.cum - 1) => committed <= R[i].id
    OBVIOUS
  <2>4. deleted[i].id = R[i].id /\ Deleted(deleted[i]) = (Deleted(R[i]) \/ R[i].id \in ids)
    BY <1>4, <2>1
  <2> HIDE DEF ids
  <2> QED BY <2>2, <2>3, <2>4
<1>7. among = added
  BY <1>5, <1>6
<1>8. \A i \in added : deleted[i].sample_file_bytes = R[i].sample_file_bytes
  BY <1>3, <1>4
<1>9. [i \in among |-> deleted[i].sample_file_bytes] = [i \in added |-> R[i].sample_file_bytes]
  <2> HIDE DEF among, added
  <2> QED BY <1>7, <1>8
<1>10. fs_bytes' = fs_bytes - fs_bytes_to_delete
                    + FsBytes([i \in added |-> R[i].sample_file_bytes])
  BY <1>1, <1>9
<1> QED BY <1>10 DEF R

LEMMA FlushApplyKeepsRetained ==
  ASSUME Inv, retain_bytes \in Int, Retained, FlushApply
  PROVE  Retained'
<1> DEFINE bNew == BytesOf(flush.new, DOMAIN flush.new)
<1>1. /\ flush.pc = "Committed" /\ to_delete' = {} /\ fs_bytes_to_delete' = 0
      /\ committed' = IF flush.cum = NoId THEN committed ELSE flush.cum
      /\ flush'.pc = "Idle" /\ UNCHANGED <<row, flush_ready>>
  BY DEF FlushApply, NoFlush, dbVars
<1>2. fs_bytes' = BytesOf(row, DOMAIN row)
  <2>1. PICK added :
          /\ added = {i \in DOMAIN recent_recordings :
                        LET r == recent_recordings[i]
                        IN  /\ flush.cum # NoId /\ r.id \in committed..(flush.cum - 1)
                            /\ ~Deleted(r)}
          /\ fs_bytes' = fs_bytes - fs_bytes_to_delete
                         + FsBytes([i \in added |-> recent_recordings[i].sample_file_bytes])
    BY ApplyAdds
  <2>2. FsBytes([i \in added |-> recent_recordings[i].sample_file_bytes]) = bNew
    BY <1>1, <2>1, InsertedBytes DEF Retained
  <2>3. fs_bytes - fs_bytes_to_delete + bNew = BytesOf(row, DOMAIN row)
    BY <1>1 DEF Retained, Lagging
  <2> QED BY <2>1, <2>2, <2>3
<1>3. Waiting' = {}
  <2>1. SUFFICES ASSUME NEW id \in Waiting' PROVE FALSE
    OBVIOUS
  <2>2. id \in committed'..(flush_ready - 1) /\ Alive(id)'
    BY <1>1, <2>1 DEF Waiting
  <2>3. PICK n : Refreshed(n)
    BY ApplyRefreshes
  <2>4. PICK i \in DOMAIN recent_recordings' :
          recent_recordings'[i].id = id /\ ~Deleted(recent_recordings'[i])
    BY <2>2 DEF Alive
  <2>5. Alive(id)
    BY <2>3, <2>4 DEF Refreshed, Alive
  <2>6. /\ committed \in Nat /\ flush_ready \in Nat
        /\ (flush.cum # NoId => flush.cum \in Nat /\ committed < flush.cum)
    <3>1. flush_ready \in Nat
      BY Ranges DEF Inv, Typed
    <3> QED BY <3>1, FileTypes
  <2>7. id \in committed..(flush_ready - 1) /\ (flush.cum # NoId => flush.cum <= id)
    BY <1>1, <2>2, <2>6
  <2>8. id \in Waiting
    BY <2>5, <2>7 DEF Waiting
  <2>9. flush.cum # NoId /\ id < flush.cum
    BY <1>1, <2>8 DEF Retained, Gathered
  <2> QED BY <2>6, <2>7, <2>9
<1>4. BytesOf(row, DOMAIN row) \in Nat /\ BytesOf(row, {}) = 0
  BY RowBytes, BytesOfNone
<1>5. Counted' /\ Tallied'
  BY <1>1, <1>2, <1>4 DEF Counted, Tallied, BytesOf
<1>6. Room' /\ Gathered' /\ Lagging'
  BY <1>1, <1>3 DEF Room, Gathered, Lagging
<1> QED BY <1>5, <1>6 DEF Retained

LEMMA CrashKeepsRetained ==
  ASSUME Inv, Crash
  PROVE  Retained'
<1>1. /\ recent_recordings' = << >> /\ to_delete' = {} /\ fs_bytes_to_delete' = 0
      /\ fs_bytes' = FsBytes(row) /\ flush'.pc = "Idle" /\ row' = row
  BY DEF Crash, NoFlush, dbVars
<1>2. Waiting' = {}
  BY <1>1 DEF Waiting, Alive
<1>3. /\ BytesOf(row, DOMAIN row) \in Nat /\ BytesOf(row, {}) = 0
      /\ FsBytes(row) = BytesOf(row, DOMAIN row)
  BY RowBytes, BytesOfNone
<1>4. Counted' /\ Tallied'
  BY <1>1, <1>3 DEF Counted, Tallied, BytesOf
<1>5. Room' /\ Gathered' /\ Lagging'
  BY <1>1, <1>2 DEF Room, Gathered, Lagging
<1> QED BY <1>4, <1>5 DEF Retained

\* Nothing is waiting while the process does not run.
LEMMA StoppedWaitsForNothing ==
  ASSUME Inv, process # "running"
  PROVE  flush.pc = "Idle" /\ Waiting = {}
<1>1. recent_recordings = << >> /\ flush = NoFlush
  BY DEF Inv, Stopped
<1> QED BY <1>1 DEF Waiting, Alive, NoFlush

LEMMA AbandonKeepsRetained ==
  ASSUME Inv, retain_bytes \in Int, Retained, Abandon
  PROVE  Retained'
<1>1. UNCHANGED <<streamVars, dbVars, threadVars, overdue>> /\ process # "running"
  BY DEF Abandon, historyVars
<1>2. UNCHANGED <<recent_recordings, committed, flush_ready, row, byteVars, retain_bytes,
                  to_delete, flush, overdue>>
  BY <1>1 DEF streamVars, dbVars, threadVars
<1>3. Waiting' = Waiting
  BY <1>2 DEF Waiting, Alive
<1> QED BY <1>1, <1>2, <1>3, StoppedWaitsForNothing, SteadyKeepsRetained

LEMMA InitialRotationKeepsRetained ==
  ASSUME Inv, Sound, Retained, InitialRotation
  PROVE  Retained'
<1>1. /\ UNCHANGED <<recent_recordings, committed, flush_ready, row, fs_bytes, flush>>
      /\ retain_bytes' \in Limits /\ EnqueueDelete(flush_ready) /\ process # "running"
  BY DEF InitialRotation, threadVars, dbVars
<1>2. flush.pc = "Idle" /\ Waiting = {} /\ Waiting' = Waiting
  BY <1>1, StoppedWaitsForNothing DEF Waiting, Alive
<1>3. retain_bytes' \in Int
  BY <1>1, RecordingsAssumption DEF RecordingsAssumption
<1>4. 0 \in Nat /\ 0 <= FsBytesToAdd(flush_ready)
  BY FsBytesToAddIsTotal
<1>5. /\ fs_bytes_to_delete' = BytesOf(row, to_delete')
      /\ fs_bytes_to_delete' \in 0..fs_bytes
  BY <1>1, <1>2, <1>3, <1>4, EnqueueMakesRoom DEF Sound, Retained
<1>6. Counted' /\ Tallied'
  BY <1>1, <1>2, <1>5 DEF Retained, Counted, Tallied, BytesOf
<1>7. Room' /\ Gathered' /\ Lagging'
  BY <1>1, <1>2 DEF Room, Gathered, Lagging
<1> QED BY <1>6, <1>7 DEF Retained

LEMMA NextKeepsRetained ==
  ASSUME Inv, Sound, Retained, [Next]_vars
  PROVE  Retained'
<1>1. retain_bytes \in Int /\ QueuedOldest
  BY DEF Sound, Counters
<1>2. CASE UNCHANGED vars
  <2>1. UNCHANGED <<recent_recordings, committed, flush_ready, row, byteVars, retain_bytes,
                    to_delete, flush, file, overdue>>
    BY <1>2 DEF vars, streamVars, threadVars, dbVars, historyVars
  <2>2. Waiting' = Waiting
    BY <2>1 DEF Waiting, Alive
  <2> QED BY <1>1, <2>1, <2>2, SteadyKeepsRetained
<1>3. CASE Flush
  BY <1>1, <1>3, FlushCollectKeepsRetained, FlushCommitKeepsRetained,
     FlushFailsKeepsRetained, FlushApplyKeepsRetained DEF Flush
<1> QED BY <1>1, <1>2, <1>3, WriteKeepsRetained, WorkerKeepsRetained,
           HandleNotifyKeepsRetained, CollectKeepsRetained, CrashKeepsRetained,
           AbandonKeepsRetained, InitialRotationKeepsRetained DEF Next

LEMMA InitRetained ==
  ASSUME Init
  PROVE  Retained
<1>1. /\ recent_recordings = << >> /\ row = << >> /\ to_delete = {} /\ flush.pc = "Idle"
      /\ fs_bytes = 0 /\ fs_bytes_to_delete = 0
  BY DEF Init, NoFlush
<1>2. Waiting = {} /\ DOMAIN row = {}
  BY <1>1 DEF Waiting, Alive
<1>3. BytesOf(row, DOMAIN row) = 0 /\ BytesOf(row, to_delete) = 0
  BY <1>1, <1>2, BytesOfNone
<1> QED BY <1>1, <1>2, <1>3 DEF Retained, Counted, Tallied, Room, Gathered, Lagging

\* In every reachable state the byte counters tally with the table, or lag
\* behind it by one flush, and there is room for what the next flush inserts,
\* unless enqueue_delete_recordings last failed.
THEOREM RetainedHolds == Spec => []Retained
<1>1. Inv /\ Sound /\ Retained /\ [Next]_vars => Retained'
  BY NextKeepsRetained
<1> QED BY InitRetained, InvHolds, SoundHolds, <1>1, PTL DEF Spec

LEMMA RetainedIsKept ==
  ASSUME Inv, Retained
  PROVE  RetentionKept
<1>1. FsBytes(row) = BytesOf(row, DOMAIN row)
  BY RowBytes
<1>2. CASE flush.pc = "Committed"
  BY <1>1, <1>2 DEF Retained, Lagging, RetentionKept
<1>3. CASE flush.pc # "Committed"
  <2>1. to_delete \in SUBSET DOMAIN row
    BY <1>3 DEF Inv, Flushing
  <2>2. FsBytes(Restrict(row, to_delete)) = BytesOf(row, to_delete)
    BY <2>1, RowBytes
  <2> QED BY <1>1, <1>3, <2>2 DEF Retained, Tallied, RetentionKept
<1> QED BY <1>2, <1>3

\* A flush that inserts recordings leaves the table within retain_bytes, or
\* with nothing but those, whatever happened since the rows to delete were
\* queued, unless queueing them failed and has not succeeded since; at any
\* other time the counters tally with the table.
THEOREM RetentionIsKept == Spec => []RetentionKept
<1>1. Inv /\ Retained => RetentionKept
  BY RetainedIsKept
<1> QED BY InvHolds, RetainedHolds, <1>1, PTL

-----------------------------------------------------------------------------
(* Types: TypeOK.                                                          *)

\* The types that no other invariant gives: those of what a run remembers.
Remembered ==
  /\ retain_bytes \in Limits /\ pinned \in BOOLEAN /\ faults \in 0..MaxFaults
  /\ removed \subseteq Ids /\ excused \subseteq Ids /\ leaked \subseteq Ids
  /\ overdue \in BOOLEAN

LEMMA OutrunIsKnown ==
  ASSUME NEW frames \in Seq(Frame), NEW ws
  PROVE  Outrun(frames, ws) \subseteq Ids
<1> DEFINE n == PruneCount(frames, Pos(ws))
<1>1. n \in 0..Len(frames) /\ Len(frames) \in Nat
  BY PruneCountBound
<1>2. \A i \in 1..Len(frames) : frames[i].recording_id \in Ids
  <2>1. \A i \in 1..Len(frames) : frames[i] \in Frame
    OBVIOUS
  <2>2. \A f \in Frame : f.recording_id \in Ids
    BY DEF Frame
  <2> QED BY <2>1, <2>2
<1>3. \A j \in 1..n : j \in 1..Len(frames)
  BY <1>1
<1>4. Outrun(frames, ws) = {frames[i].recording_id : i \in
                              {j \in 1..n : Precedes(Pos(ws), End(frames[j]))}}
  BY DEF Outrun
<1> HIDE DEF n
<1> QED BY <1>2, <1>3, <1>4

LEMMA WriteRemembers ==
  ASSUME Inv, Remembered, Write
  PROVE  Remembered'
<1>1. PICK is_key \in BOOLEAN, len \in FrameSizes, close \in BOOLEAN :
        PushAndMaybeClose(is_key, len, close)
  BY DEF Write
<1> DEFINE R == recent_recordings
           opening == recording_id = NoId
           id == IF opening THEN complete ELSE recording_id
           opened == IF opening
                     THEN Append(R, [id |-> id, sample_file_bytes |-> 0,
                                     flags |-> {"GROWING", "UNCOMMITTED"}])
                     ELSE R
           start == opened[Len(opened)].sample_file_bytes
           frame == [recording_id |-> id, is_key |-> is_key, sample_start |-> start, len |-> len]
           frames == Append(recent_frames, frame)
<1>2. /\ id < MaxRecordings /\ excused' = excused \cup Outrun(frames, writer_state)
      /\ UNCHANGED <<retain_bytes, pinned, faults, removed, leaked, overdue>>
  BY <1>1 DEF PushAndMaybeClose
<1>3. /\ R \in Seq(Recording) /\ recent_frames \in Seq(Frame) /\ MaxBytes \in Nat
      /\ MaxRecordings \in Nat /\ complete \in 0..MaxRecordings
  BY Ranges
<1>4. id \in Ids
  <2>1. id = complete
    BY DEF Inv, Window
  <2>2. complete < MaxRecordings
    BY <1>2, <2>1
  <2>3. complete \in Ids
    BY <1>3, <2>2 DEF Ids
  <2> QED BY <2>1, <2>3
<1>5. start \in 0..MaxBytes
  <2>1. CASE opening
    <3>1. \A r : Append(R, r)[Len(Append(R, r))] = r
      BY <1>3
    <3>2. start = 0
      BY <2>1, <3>1
    <3> QED BY <1>3, <3>2
  <2>2. CASE ~opening
    <3>1. R # << >>
      BY <2>2 DEF Inv, Window
    <3>2. Len(R) \in 1..Len(R)
      BY <1>3, <3>1
    <3>3. R[Len(R)] \in Recording /\ start = R[Len(R)].sample_file_bytes
      BY <1>3, <2>2, <3>2
    <3> QED BY <3>3 DEF Recording
  <2> QED BY <2>1, <2>2
<1>6. frame \in Frame
  <2> HIDE DEF id, start
  <2> QED BY <1>1, <1>4, <1>5 DEF Frame
<1>7. frames \in Seq(Frame)
  <2> HIDE DEF frame
  <2> QED BY <1>3, <1>6
<1> HIDE DEF frames
<1>8. Outrun(frames, writer_state) \subseteq Ids
  BY <1>7, OutrunIsKnown
<1> QED BY <1>2, <1>8 DEF Remembered

\* Each fault is counted, and its number bounded.
LEMMA FaultIsBounded ==
  ASSUME faults \in 0..MaxFaults, Fault
  PROVE  faults' \in 0..MaxFaults
BY RecordingsAssumption DEF RecordingsAssumption, Fault

LEMMA WorkerRemembers ==
  ASSUME Inv, Remembered, Worker
  PROVE  Remembered'
<1>1. CASE Prepares
  BY <1>1, PreparesRechoose DEF WorkerUnchanged, historyVars, Remembered
<1>2. CASE WriteBytes \/ CreateFails \/ Abort \/ FileIoFails \/ SyncFile \/ SyncDir
  <2>1. UNCHANGED <<retain_bytes, pinned, removed, overdue>>
    BY <1>2 DEF WriteBytes, CreateFails, Abort, FileIoFails, SyncFile, SyncDir, AbortFile,
                historyVars, streamVars
  <2>2. io.op \in {"Create", "Write", "Abort", "Sync", "SyncDir"}
    BY <1>2 DEF WriteBytes, CreateFails, Abort, FileIoFails, SyncFile, SyncDir
  <2>3. Current \in Ids
    BY <2>2, FileAtHand DEF Busy
  <2>4. excused' \subseteq excused \cup {Current} /\ leaked' \subseteq leaked \cup {Current}
    BY <1>2 DEF WriteBytes, CreateFails, Abort, FileIoFails, SyncFile, SyncDir, AbortFile,
                historyVars
  <2>5. UNCHANGED faults \/ Fault
    BY <1>2 DEF WriteBytes, CreateFails, Abort, FileIoFails, SyncFile, SyncDir
  <2>6. faults' \in 0..MaxFaults
    BY <2>5, FaultIsBounded DEF Remembered
  <2> QED BY <2>1, <2>3, <2>4, <2>6 DEF Remembered
<1> QED BY <1>1, <1>2, PrepPrepares DEF Worker

LEMMA FlushRemembers ==
  ASSUME Inv, Remembered, Flush
  PROVE  Remembered'
<1>1. CASE FlushCollect \/ FlushApply
  BY <1>1 DEF FlushCollect, FlushApply, streamVars, historyVars, Remembered
<1>2. CASE FlushCommit
  <2>1. DeletionRange \subseteq Ids
    BY <1>2, DeletedWereRows, RowSets DEF FlushCommit
  <2> QED BY <1>2, <2>1 DEF FlushCommit, streamVars, Remembered
<1>3. CASE FlushFails
  <2>1. faults' \in 0..MaxFaults
    BY <1>3, FaultIsBounded DEF FlushFails, Remembered
  <2> QED BY <1>3, <2>1 DEF FlushFails, streamVars, historyVars, Remembered
<1> QED BY <1>1, <1>2, <1>3 DEF Flush

LEMMA CollectRemembers ==
  ASSUME Remembered, Collect
  PROVE  Remembered'
<1>1. PICK c \in Collectors : GcUnlink(c) \/ GcSync(c) \/ GcSyncFails(c)
  BY DEF Collect
<1>2. UNCHANGED <<retain_bytes, pinned, removed, excused, leaked, overdue>>
  BY <1>1 DEF GcUnlink, GcSync, GcSyncFails, streamVars, historyVars
<1>3. faults' \in 0..MaxFaults
  <2>1. CASE GcUnlink(c)
    <3>1. faults' = faults \/ (faults < MaxFaults /\ faults' = faults + 1)
      BY <2>1 DEF GcUnlink
    <3> QED BY <3>1, FaultIsBounded DEF Fault, Remembered
  <2>2. CASE GcSync(c) \/ GcSyncFails(c)
    BY <2>2, FaultIsBounded DEF GcSync, GcSyncFails, Remembered
  <2> QED BY <1>1, <2>1, <2>2
<1> QED BY <1>2, <1>3 DEF Remembered

LEMMA NextRemembers ==
  ASSUME Inv, Remembered, [Next]_vars
  PROVE  Remembered'
<1>1. CASE Abandon \/ InitialRotation
  BY <1>1 DEF Abandon, InitialRotation, streamVars, historyVars, Remembered
<1>1a. CASE HandleNotify
  <2>1. /\ UNCHANGED <<retain_bytes, pinned, removed, excused, leaked>>
        /\ overdue' \in {TRUE, FALSE, overdue}
        /\ UNCHANGED faults \/ Fault
    BY <1>1a DEF HandleNotify, EnqueueFails
  <2>2. faults' \in 0..MaxFaults
    BY <2>1, FaultIsBounded DEF Remembered
  <2> QED BY <2>1, <2>2 DEF Remembered
<1>2. CASE Crash
  <2>1. faults' \in 0..MaxFaults
    BY <1>2, FaultIsBounded DEF Crash, Remembered
  <2> QED BY <1>2, <2>1 DEF Crash, Remembered
<1>3. CASE UNCHANGED vars
  BY <1>3 DEF vars, streamVars, historyVars, Remembered
<1> QED BY <1>1, <1>1a, <1>2, <1>3, WriteRemembers, WorkerRemembers, FlushRemembers,
           CollectRemembers DEF Next

LEMMA TypesFollow ==
  ASSUME Inv, Retained, Remembered
  PROVE  TypeOK
<1>1. /\ flush.pc \in {"Idle", "Collected", "Committed"} /\ DOMAIN flush.new \subseteq Ids
      /\ flush.cum \in {NoId} \cup 0..MaxRecordings /\ flush.deletion \in SUBSET Ids
      /\ flush.gced \in SUBSET Ids
  BY DEF Inv, Typed, Rows
<1>2. DOMAIN row \subseteq Ids /\ \A id \in DOMAIN row : row[id] \in 1..MaxBytes
  BY RowSets
<1>3. fs_bytes \in Nat /\ fs_bytes_to_delete \in 0..fs_bytes
  BY DEF Retained, Counted
<1>4. /\ file \in [Ids -> [exists : BOOLEAN, pending : BOOLEAN, size : 0..MaxBytes,
                            synced : BOOLEAN]]
      /\ gc \in [Collectors -> SUBSET Ids]
      /\ writer_state \in [recording_id : 0..MaxRecordings, written : 0..MaxBytes,
                            file : BOOLEAN]
      /\ io \in [op : {"Idle"} \cup Outcomes \cup IoSteps, n : 0..MaxBytes]
  BY DEF Inv, Typed
<1>5. /\ recent_recordings \in Seq(Recording) /\ recent_frames \in Seq(Frame)
      /\ complete \in 0..MaxRecordings /\ committed \in 0..MaxRecordings
      /\ flush_ready \in 0..MaxRecordings /\ cum_recordings \in 0..MaxRecordings
      /\ to_delete \in SUBSET Ids /\ garbage \in SUBSET Ids
      /\ garbage_needs_unlink \in SUBSET Ids /\ garbage_unlinked \in SUBSET Ids
      /\ recording_id \in Ids \cup {NoId} /\ process \in {"down", "abandoned", "running"}
  BY DEF Inv, Typed
<1>6. /\ retain_bytes \in Limits /\ pinned \in BOOLEAN /\ faults \in 0..MaxFaults
      /\ removed \in SUBSET Ids /\ excused \in SUBSET Ids /\ leaked \in SUBSET Ids
      /\ overdue \in BOOLEAN
  BY DEF Remembered
<1> QED BY <1>1, <1>2, <1>3, <1>4, <1>5, <1>6, Zenon DEF TypeOK

\* Every variable has its type in every reachable state; that the byte
\* counters stay natural numbers, and the first at least as large as the
\* second, takes the accounting of Retained.
THEOREM TypesHold == Spec => []TypeOK
<1>1. Init => Remembered
  <2>1. 0 \in 0..MaxFaults
    BY RecordingsAssumption DEF RecordingsAssumption
  <2> QED BY <2>1 DEF Init, Remembered
<1>2. Inv /\ Remembered /\ [Next]_vars => Remembered'
  BY NextRemembers
<1>3. Inv /\ Retained /\ Remembered => TypeOK
  BY TypesFollow
<1> QED BY InvHolds, RetainedHolds, <1>1, <1>2, <1>3, PTL DEF Spec

-----------------------------------------------------------------------------
(* Sets of numbers in ascending order.                                     *)

LEMMA RankGrows ==
  ASSUME NEW ids, ids \subseteq Nat, IsFiniteSet(ids), NEW a \in ids, NEW b \in ids, a < b
  PROVE  Cardinality(UpTo(ids, a)) < Cardinality(UpTo(ids, b))
<1>0. a \in Nat /\ b \in Nat /\ \A o \in ids : o \in Nat
  OBVIOUS
<1>1. /\ UpTo(ids, a) \in SUBSET UpTo(ids, b) /\ UpTo(ids, b) \in SUBSET ids
      /\ b \in UpTo(ids, b) /\ b \notin UpTo(ids, a)
  <2>1. \A o \in ids : o <= a => o <= b
    BY <1>0
  <2>2. b <= b /\ ~(b <= a)
    BY <1>0
  <2> QED BY <2>1, <2>2 DEF UpTo
<1>2. UpTo(ids, a) # UpTo(ids, b)
  BY <1>1
<1>3. IsFiniteSet(UpTo(ids, b)) /\ IsFiniteSet(UpTo(ids, a))
  BY <1>1, FS_Subset
<1>4. Cardinality(UpTo(ids, a)) \in Nat /\ Cardinality(UpTo(ids, b)) \in Nat
  BY <1>3, FS_CardinalityType
<1>5. /\ Cardinality(UpTo(ids, a)) <= Cardinality(UpTo(ids, b))
      /\ Cardinality(UpTo(ids, a)) # Cardinality(UpTo(ids, b))
  BY <1>1, <1>2, <1>3, FS_Subset
<1> QED BY <1>4, <1>5

LEMMA Ranks ==
  ASSUME NEW ids, ids \subseteq Nat, IsFiniteSet(ids)
  PROVE  /\ Cardinality(ids) \in Nat
         /\ \A id \in ids : Cardinality(UpTo(ids, id)) \in 1..Cardinality(ids)
         /\ \A a, b \in ids : Cardinality(UpTo(ids, a)) = Cardinality(UpTo(ids, b)) => a = b
         /\ \A k \in 1..Cardinality(ids) : \E id \in ids : Cardinality(UpTo(ids, id)) = k
<1> DEFINE n == Cardinality(ids)
           rank == [id \in ids |-> Cardinality(UpTo(ids, id))]
<1>1. n \in Nat
  BY FS_CardinalityType
<1>2. ASSUME NEW id \in ids PROVE Cardinality(UpTo(ids, id)) \in 1..n
  <2>1. UpTo(ids, id) \in SUBSET ids /\ id \in UpTo(ids, id)
    BY DEF UpTo
  <2>2. IsFiniteSet(UpTo(ids, id)) /\ Cardinality(UpTo(ids, id)) <= n
    BY <2>1, FS_Subset
  <2>3. Cardinality(UpTo(ids, id)) \in Nat /\ Cardinality(UpTo(ids, id)) # 0
    BY <2>1, <2>2, FS_CardinalityType, FS_EmptySet
  <2> QED BY <1>1, <2>2, <2>3
<1>3. ASSUME NEW a \in ids, NEW b \in ids, Cardinality(UpTo(ids, a)) = Cardinality(UpTo(ids, b))
      PROVE  a = b
  <2>1. a < b \/ b < a \/ a = b
    OBVIOUS
  <2>2. Cardinality(UpTo(ids, a)) \in Nat
    BY <1>1, <1>2
  <2>3. ASSUME a < b PROVE FALSE
    <3>1. Cardinality(UpTo(ids, a)) < Cardinality(UpTo(ids, b))
      BY <2>3, RankGrows
    <3> QED BY <1>3, <2>2, <3>1
  <2>4. ASSUME b < a PROVE FALSE
    <3>1. Cardinality(UpTo(ids, b)) < Cardinality(UpTo(ids, a))
      BY <2>4, RankGrows
    <3> QED BY <1>3, <2>2, <3>1
  <2> QED BY <2>1, <2>3, <2>4
<1>4. rank \in Injection(ids, 1..n)
  <2>1. rank \in [ids -> 1..n]
    BY <1>2
  <2>2. \A a, b \in ids : rank[a] = rank[b] => a = b
    BY <1>3
  <2> HIDE DEF rank
  <2>3. DOMAIN rank = ids
    BY <2>1
  <2> QED BY <2>1, <2>2, <2>3, Zenon DEF Injection, IsInjective
<1>5. IsFiniteSet(1..n) /\ Cardinality(1..n) = n
  <2>1. IsFiniteSet(1..n) /\ Cardinality(1..n) = IF 1 > n THEN 0 ELSE n - 1 + 1
    BY <1>1, FS_Interval
  <2> QED BY <1>1, <2>1
<1>6. rank \in Surjection(ids, 1..n)
  BY <1>4, <1>5, FS_Injection
<1>7. ASSUME NEW k \in 1..n PROVE \E id \in ids : Cardinality(UpTo(ids, id)) = k
  BY <1>6 DEF Surjection
<1> QED BY <1>1, <1>2, <1>3, <1>7

LEMMA AscendingRanks ==
  ASSUME NEW ids, ids \subseteq Nat, IsFiniteSet(ids)
  PROVE  /\ Cardinality(ids) \in Nat /\ DOMAIN Ascending(ids) = 1..Cardinality(ids)
         /\ \A k \in 1..Cardinality(ids) :
              /\ Ascending(ids)[k] \in ids
              /\ Cardinality(UpTo(ids, Ascending(ids)[k])) = k
              /\ \A id \in ids : Cardinality(UpTo(ids, id)) = k => Ascending(ids)[k] = id
<1>1. ASSUME NEW k \in 1..Cardinality(ids)
      PROVE  LET a == Ascending(ids)[k] IN a \in ids /\ Cardinality(UpTo(ids, a)) = k
  <2>1. \E id \in ids : Cardinality(UpTo(ids, id)) = k
    BY Ranks
  <2>2. Ascending(ids)[k] = CHOOSE id \in ids : Cardinality(UpTo(ids, id)) = k
    BY DEF Ascending
  <2> QED BY <2>1, <2>2
<1>2. DOMAIN Ascending(ids) = 1..Cardinality(ids)
  BY DEF Ascending
<1>3. Cardinality(ids) \in Nat /\ \A a, b \in ids :
        Cardinality(UpTo(ids, a)) = Cardinality(UpTo(ids, b)) => a = b
  BY Ranks
<1> QED BY <1>1, <1>2, <1>3, Zenon

LEMMA AscendingIsFunction ==
  ASSUME NEW ids
  PROVE  Ascending(ids) = [k \in 1..Cardinality(ids) |-> Ascending(ids)[k]]
<1> DEFINE ranked(k) == CHOOSE id \in ids : Cardinality(UpTo(ids, id)) = k
<1>1. Ascending(ids) = [k \in 1..Cardinality(ids) |-> ranked(k)]
  BY DEF Ascending
<1> HIDE DEF ranked
<1> QED BY <1>1, Zenon

LEMMA Joined ==
  ASSUME NEW q \in Seq(Nat), NEW r \in Seq(Nat), NEW u \in Seq(Nat),
         Len(u) = Len(q) + Len(r), \A k \in 1..Len(q) : u[k] = q[k],
         \A k \in (Len(q) + 1)..(Len(q) + Len(r)) : u[k] = r[k - Len(q)]
  PROVE  q \o r = u
<1>1. /\ q \o r \in Seq(Nat) /\ Len(q \o r) = Len(q) + Len(r)
      /\ \A k \in 1..(Len(q) + Len(r)) :
           (q \o r)[k] = IF k <= Len(q) THEN q[k] ELSE r[k - Len(q)]
  BY ConcatProperties
<1>2. Len(q) \in Nat /\ Len(r) \in Nat
  OBVIOUS
<1>3. ASSUME NEW k \in 1..(Len(q) + Len(r)) PROVE (q \o r)[k] = u[k]
  BY SMTT(30), <1>1, <1>2
<1> QED BY <1>1, <1>3, SeqEqual

\* One set after another is the two of them together.
LEMMA AscendingJoins ==
  ASSUME NEW a, a \subseteq Nat, IsFiniteSet(a),
         NEW b, b \subseteq Nat, IsFiniteSet(b),
         \A x \in a, y \in b : x < y
  PROVE  Ascending(a) \o Ascending(b) = Ascending(a \cup b)
<1> DEFINE s == a \cup b
           n == Cardinality(a)
           m == Cardinality(b)
<1>1. n \in Nat /\ m \in Nat /\ a \cap b = {}
  BY FS_CardinalityType
<1>2. s \subseteq Nat /\ IsFiniteSet(s) /\ Cardinality(s) = n + m
  <2>1. IsFiniteSet(s) /\ Cardinality(s) = n + m - Cardinality(a \cap b)
    BY FS_Union
  <2>2. Cardinality(a \cap b) = 0
    BY <1>1, FS_EmptySet
  <2>3. s \subseteq Nat
    OBVIOUS
  <2> QED BY <1>1, <2>1, <2>2, <2>3
<1>0. \A x \in a, y \in b : x <= y /\ ~(y <= x)
  OBVIOUS
<1>3. ASSUME NEW x \in a PROVE Cardinality(UpTo(s, x)) = Cardinality(UpTo(a, x))
  <2>1. UpTo(s, x) = UpTo(a, x)
    BY <1>0, Zenon DEF UpTo
  <2> QED BY <2>1
<1>4. ASSUME NEW y \in b PROVE Cardinality(UpTo(s, y)) = n + Cardinality(UpTo(b, y))
  <2>1. /\ UpTo(s, y) = a \cup UpTo(b, y) /\ UpTo(b, y) \in SUBSET b
        /\ a \cap UpTo(b, y) = {}
    <3>1. UpTo(s, y) = a \cup UpTo(b, y)
      BY <1>0, Zenon DEF UpTo
    <3>2. UpTo(b, y) \in SUBSET b
      BY Zenon DEF UpTo
    <3> QED BY <1>1, <3>1, <3>2
  <2>2. IsFiniteSet(UpTo(b, y))
    BY <2>1, FS_Subset
  <2>3. Cardinality(UpTo(b, y)) \in Nat
    BY <2>2, FS_CardinalityType
  <2>4. Cardinality(a \cup UpTo(b, y)) =
          n + Cardinality(UpTo(b, y)) - Cardinality(a \cap UpTo(b, y))
    BY <2>2, FS_Union
  <2>5. Cardinality(a \cap UpTo(b, y)) = 0
    BY <2>1, FS_EmptySet
  <2>6. Cardinality(UpTo(s, y)) = Cardinality(a \cup UpTo(b, y))
    BY <2>1
  <2>7. Cardinality(a \cup UpTo(b, y)) = n + Cardinality(UpTo(b, y))
    <3> HIDE DEF n
    <3> QED BY <1>1, <2>3, <2>4, <2>5
  <2> QED BY <2>6, <2>7
<1>5. ASSUME NEW k \in 1..n PROVE Ascending(s)[k] = Ascending(a)[k]
  <2>1. Ascending(a)[k] \in a /\ Cardinality(UpTo(a, Ascending(a)[k])) = k
    BY AscendingRanks
  <2>2. Cardinality(UpTo(s, Ascending(a)[k])) = k
    BY <1>3, <2>1
  <2>3. k \in 1..Cardinality(s) /\ Ascending(a)[k] \in s
    BY <1>1, <1>2, <2>1
  <2> HIDE DEF s
  <2> QED BY <1>2, <2>2, <2>3, AscendingRanks
<1>6. ASSUME NEW k \in (n + 1)..(n + m) PROVE Ascending(s)[k] = Ascending(b)[k - n]
  <2>1. k - n \in 1..m
    BY <1>1
  <2>2. Ascending(b)[k - n] \in b /\ Cardinality(UpTo(b, Ascending(b)[k - n])) = k - n
    BY <2>1, AscendingRanks
  <2>3. Cardinality(UpTo(s, Ascending(b)[k - n])) = k
    <3>1. Cardinality(UpTo(s, Ascending(b)[k - n])) = n + (k - n)
      BY <1>4, <2>2
    <3> QED BY <1>1, <3>1
  <2>4. k \in 1..Cardinality(s) /\ Ascending(b)[k - n] \in s
    BY <1>1, <1>2, <2>2
  <2>5. s \subseteq Nat /\ IsFiniteSet(s)
    BY <1>2
  <2> HIDE DEF s
  <2>6. \A id \in s : Cardinality(UpTo(s, id)) = k => Ascending(s)[k] = id
    BY <2>4, <2>5, AscendingRanks
  <2> QED BY <2>3, <2>4, <2>6
<1>7. ASSUME NEW ids, ids \subseteq Nat, IsFiniteSet(ids)
      PROVE  Ascending(ids) \in Seq(Nat) /\ Len(Ascending(ids)) = Cardinality(ids)
  <2>1. Cardinality(ids) \in Nat /\ \A k \in 1..Cardinality(ids) : Ascending(ids)[k] \in Nat
    BY <1>7, AscendingRanks
  <2>2. Ascending(ids) = [k \in 1..Cardinality(ids) |-> Ascending(ids)[k]]
    BY AscendingIsFunction
  <2> QED BY <2>1, <2>2
<1>8. /\ Ascending(a) \in Seq(Nat) /\ Len(Ascending(a)) = n
      /\ Ascending(b) \in Seq(Nat) /\ Len(Ascending(b)) = m
  BY <1>7
<1>9. Ascending(s) \in Seq(Nat) /\ Len(Ascending(s)) = n + m
  <2>1. s \subseteq Nat /\ IsFiniteSet(s)
    BY <1>2
  <2>2. Ascending(s) \in Seq(Nat) /\ Len(Ascending(s)) = Cardinality(s)
    BY <2>1, <1>7
  <2> QED BY <1>2, <2>2
<1>10. PICK q \in Seq(Nat) : q = Ascending(a) /\ Len(q) = n /\ \A k \in 1..n : Ascending(s)[k] = q[k]
  BY <1>5, <1>8
<1>11. PICK r \in Seq(Nat) : /\ r = Ascending(b) /\ Len(r) = m
                             /\ \A k \in (n + 1)..(n + m) : Ascending(s)[k] = r[k - n]
  BY <1>6, <1>8
<1>12. PICK u \in Seq(Nat) : /\ u = Ascending(s) /\ Len(u) = n + m
                             /\ \A k \in 1..n : u[k] = q[k]
                             /\ \A k \in (n + 1)..(n + m) : u[k] = r[k - n]
  BY <1>9, <1>10, <1>11
<1> HIDE DEF n, m, s
<1>13. q \o r = u
  <2>1. /\ Len(u) = Len(q) + Len(r) /\ \A k \in 1..Len(q) : u[k] = q[k]
        /\ \A k \in (Len(q) + 1)..(Len(q) + Len(r)) : u[k] = r[k - Len(q)]
    BY <1>10, <1>11, <1>12
  <2> QED BY <2>1, Joined
<1> QED BY <1>10, <1>11, <1>12, <1>13 DEF s

\* The same amount added to each number.
LEMMA AscendingShifts ==
  ASSUME NEW p, p \subseteq Nat, IsFiniteSet(p), NEW base \in Int,
         NEW s, s \subseteq Nat, s = {base + i : i \in p}
  PROVE  /\ IsFiniteSet(s)
         /\ Ascending(s) = [k \in DOMAIN Ascending(p) |-> base + Ascending(p)[k]]
<1>1. ASSUME NEW t \in SUBSET p
      PROVE  /\ IsFiniteSet({base + i : i \in t})
             /\ Cardinality({base + i : i \in t}) = Cardinality(t)
  <2> DEFINE image == {base + i : i \in t}
             f == [i \in t |-> base + i]
  <2>1. IsFiniteSet(t)
    BY FS_Subset
  <2>2. \A i, j \in t : base + i = base + j => i = j
    OBVIOUS
  <2>3. /\ f \in [t -> image] /\ DOMAIN f = t
        /\ \A i, j \in t : f[i] = f[j] => i = j
        /\ \A x \in image : \E i \in t : f[i] = x
    BY <2>2
  <2>4. f \in Injection(t, image) /\ f \in Surjection(t, image)
    <3> HIDE DEF f, image
    <3> QED BY <2>3, Zenon DEF Injection, IsInjective, Surjection
  <2> HIDE DEF f, image
  <2>5. IsFiniteSet(image) /\ Cardinality(image) = Cardinality(t)
    BY <2>1, <2>4, FS_Surjection
  <2> QED BY <2>5 DEF image
<1>2. IsFiniteSet(s) /\ Cardinality(s) = Cardinality(p)
  BY <1>1
<1>3. ASSUME NEW i \in p PROVE Cardinality(UpTo(s, base + i)) = Cardinality(UpTo(p, i))
  <2>1. UpTo(s, base + i) = {base + o : o \in UpTo(p, i)} /\ UpTo(p, i) \in SUBSET p
    BY DEF UpTo
  <2> QED BY <2>1, <1>1
<1>4. ASSUME NEW k \in 1..Cardinality(p) PROVE Ascending(s)[k] = base + Ascending(p)[k]
  <2>1. Ascending(p)[k] \in p /\ Cardinality(UpTo(p, Ascending(p)[k])) = k
    BY AscendingRanks
  <2>2. base + Ascending(p)[k] \in s /\ Cardinality(UpTo(s, base + Ascending(p)[k])) = k
    BY <1>3, <2>1
  <2> QED BY <1>2, <2>2, AscendingRanks
<1>5. DOMAIN Ascending(p) = 1..Cardinality(p)
  BY AscendingRanks
<1>6. Ascending(s) = [k \in 1..Cardinality(s) |-> Ascending(s)[k]]
  BY AscendingIsFunction
<1> QED BY <1>2, <1>4, <1>5, <1>6

-----------------------------------------------------------------------------
(* Listings leave alone what Recordings describes, but for the pin.        *)

\* The id of the first recent recording, or of the next one to be opened.
FirstRecent == Top - Len(recent_recordings) + 1

LEMMA ListingIsQuiet ==
  ASSUME List
  PROVE  UNCHANGED <<recent_recordings, recent_frames, complete, committed, flush_ready,
                     writer_state, to_delete, byteVars, retain_bytes, threadVars, poolVars,
                     file, dbVars, process, faults, historyVars>>
BY DEF List, ListPin, ListQuery, ListUnpin, vars, streamVars

LEMMA ListingKeepsInv ==
  ASSUME Inv, List
  PROVE  Inv'
<1>1. UNCHANGED <<recent_recordings, recent_frames, complete, committed, flush_ready,
                  writer_state, to_delete, recording_id, io, flush, gc, garbage_needs_unlink,
                  garbage_unlinked, file, row, garbage, cum_recordings, process>>
  BY ListingIsQuiet DEF threadVars, poolVars, dbVars
<1>2. Typed' /\ Window'
  BY <1>1 DEF Inv, Typed, Window, FramesContiguous, Top
<1>3. Working' /\ Flushing' /\ Stopped'
  BY <1>1 DEF Inv, Working, Flushing, Stopped, FileIffWritten, SyncedIsRecent, Busy, Current,
              Top, Durable, UnlinkedIsGarbage, CommittedDurable
<1> QED BY <1>2, <1>3 DEF Inv

LEMMA ListingKeepsTracked ==
  ASSUME Tracked, List
  PROVE  Tracked'
<1>1. UNCHANGED <<recent_recordings, complete, recording_id, committed, flush, row, garbage,
                  removed, cum_recordings>>
  BY ListingIsQuiet DEF threadVars, dbVars, historyVars
<1> QED BY <1>1 DEF Tracked, Removal, NothingSkipped, CollectedAlive, Recorded, Alive

\* ListSpec runs a Recordings whose pin others set.
LEMMA ListInvStep ==
  ASSUME Inv, Tracked, [ListNext]_<<vars, list>>
  PROVE  Inv' /\ Tracked'
<1>1. CASE List
  BY <1>1, ListingKeepsInv, ListingKeepsTracked
<1>2. CASE Next
  BY <1>2, NextKeepsInv, NextLives
<1>3. CASE UNCHANGED vars
  BY <1>3, StutterKeepsInv, StutterLives
<1> QED BY <1>1, <1>2, <1>3 DEF ListNext

LEMMA ListInvHolds == ListSpec => [](Inv /\ Tracked)
<1>1. ListInit => Inv /\ Tracked
  BY InitInv, InitLives DEF ListInit
<1> QED BY <1>1, ListInvStep, PTL DEF ListSpec

-----------------------------------------------------------------------------
(* PlaybackFindsListed.                                                    *)

\* Where an id is among the recent recordings.
LEMMA RecentIsHeld ==
  ASSUME Inv, NEW id \in Nat, FirstRecent <= id, id <= Top
  PROVE  \E i \in DOMAIN recent_recordings : recent_recordings[i].id = id
<1> DEFINE i == id - FirstRecent + 1
<1>1. Top \in Int /\ Len(recent_recordings) \in Nat /\ recent_recordings \in Seq(Recording)
  BY Ranges
<1>2. i \in 1..Len(recent_recordings) /\ Top - Len(recent_recordings) + i = id
  BY <1>1 DEF FirstRecent
<1>3. i \in DOMAIN recent_recordings
  BY <1>1, <1>2
<1>4. recent_recordings[i].id = Top - Len(recent_recordings) + i
  BY <1>3 DEF Inv, Window
<1> QED BY <1>2, <1>3, <1>4

LEMMA HeadIsFirst ==
  ASSUME Inv, recent_recordings # << >>
  PROVE  Head(recent_recordings).id = FirstRecent
<1>1. recent_recordings \in Seq(Recording) /\ Top \in Int
  BY Ranges
<1>2. 1 \in DOMAIN recent_recordings /\ Head(recent_recordings) = recent_recordings[1]
  BY <1>1
<1>3. recent_recordings[1].id = Top - Len(recent_recordings) + 1
  BY <1>2 DEF Inv, Window
<1> QED BY <1>2, <1>3 DEF FirstRecent

\* Between flushes, a row is of an id below the next one to commit.
LEMMA RowsAreCommitted ==
  ASSUME Inv, flush.pc = "Idle", NEW id \in DOMAIN row
  PROVE  id \in Ids /\ id \in Nat /\ id < committed /\ id <= Top /\ committed \in Nat
<1>1. id < cum_recordings /\ cum_recordings = committed /\ complete >= cum_recordings
  BY DEF Inv, Flushing, Window
<1>2. id \in Ids /\ id \in Nat
  <2>1. row \in Rows
    BY DEF Inv, Typed
  <2>2. id \in Ids
    BY <2>1 DEF Rows
  <2> QED BY <2>2, FileTypes
<1>3. Top \in {complete - 1, complete} /\ complete \in Nat /\ committed \in Nat
  BY Ranges
<1> QED BY <1>1, <1>2, <1>3

LEMMA ListedIsFound ==
  ASSUME Inv
  PROVE  PlaybackFindsListed
<1>1. SUFFICES ASSUME flush.pc = "Idle", NEW id \in Ids, Listed(id),
                      ~\E i \in DOMAIN recent_recordings : recent_recordings[i].id = id
               PROVE  PlaybackPath(id) = "database" /\ id \in DOMAIN row
  BY DEF PlaybackFindsListed, PlaybackPath
<1>2. id \in DOMAIN row
  BY <1>1 DEF Listed
<1>3. id \in Nat /\ id < committed /\ id <= Top /\ committed \in Nat
  BY <1>1, <1>2, RowsAreCommitted
<1>4. ~(FirstRecent <= id)
  BY <1>1, <1>3, RecentIsHeld
<1>5. ~(recent_recordings # << >> /\ Head(recent_recordings).id <= id)
  BY <1>4, HeadIsFirst
<1>6. ~(id >= committed)
  BY <1>3
<1> QED BY <1>1, <1>2, <1>5, <1>6 DEF PlaybackPath

\* with_recording_playback finds the index of whatever a listing would return,
\* however pushes, flushes, prunes, listings and crashes interleave.
THEOREM PlaybackFindsWhatIsListed == ListSpec => []PlaybackFindsListed
<1>1. Inv => PlaybackFindsListed
  BY ListedIsFound
<1> QED BY ListInvHolds, <1>1, PTL

-----------------------------------------------------------------------------
(* A recent recording that has a row is not marked deleted.                *)

RowsAlive ==
  /\ \A i \in DOMAIN recent_recordings :
       recent_recordings[i].id \in DOMAIN row => ~Deleted(recent_recordings[i])
  /\ flush.pc = "Committed" =>
       \A d \in to_delete, id \in DOMAIN row : d < id

\* Steps that change neither recordings nor rows.
LEMMA SteadyKeepsRowsAlive ==
  ASSUME RowsAlive, UNCHANGED <<recent_recordings, row>>,
         flush'.pc = "Committed" => flush.pc = "Committed" /\ to_delete' = to_delete
  PROVE  RowsAlive'
BY DEF RowsAlive

LEMMA WriteKeepsRowsAlive ==
  ASSUME Inv, RowsAlive, Write
  PROVE  RowsAlive'
<1>1. PICK is_key \in BOOLEAN, len \in FrameSizes, close \in BOOLEAN :
        PushAndMaybeClose(is_key, len, close)
  BY DEF Write
<1>2. UNCHANGED <<row, flush, to_delete>>
  BY <1>1 DEF PushAndMaybeClose, dbVars
<1>3. ASSUME NEW i \in DOMAIN recent_recordings', recent_recordings'[i].id \in DOMAIN row
      PROVE  ~Deleted(recent_recordings'[i])
  <2>1. \/ \E k \in DOMAIN recent_recordings :
             /\ recent_recordings[k].id = recent_recordings'[i].id
             /\ Deleted(recent_recordings[k]) <=> Deleted(recent_recordings'[i])
        \/ ~Deleted(recent_recordings'[i])
    BY <1>1, <1>3, PushKeepsAlive
  <2> QED BY <1>3, <2>1 DEF RowsAlive
<1> QED BY <1>2, <1>3 DEF RowsAlive

\* The worker gives up only recordings it has not passed, which have no row.
LEMMA WorkerKeepsRowsAlive ==
  ASSUME Inv, RowsAlive, Worker
  PROVE  RowsAlive'
<1>1. CASE Prepares
  <2>1. PICK n, m, ws : Rechosen(n, m, ws)
    BY <1>1, PreparesRechoose
  <2>2. UNCHANGED <<row, flush, to_delete>>
    BY <1>1, PreparesRechoose DEF WorkerUnchanged, dbVars
  <2>3. ASSUME NEW i \in DOMAIN recent_recordings', recent_recordings'[i].id \in DOMAIN row,
               Deleted(recent_recordings'[i])
        PROVE  FALSE
    <3>1. i \in 1..Len(recent_recordings')
      BY <2>1, <2>3 DEF Rechosen
    <3> DEFINE k == i + n
    <3>2. /\ k \in DOMAIN recent_recordings
          /\ recent_recordings'[i].id = recent_recordings[k].id
          /\ \/ Deleted(recent_recordings[k])
             \/ io.op = "Aborted" /\ recent_recordings[k].id = Current
             \/ recent_recordings[k].id \in ws.recording_id..(Current' - 1)
      BY <2>1, <2>3, <3>1 DEF Rechosen
    <3> HIDE DEF k
    <3>3. ~Deleted(recent_recordings[k])
      BY <2>3, <3>2 DEF RowsAlive
    <3>4. recent_recordings[k].id < cum_recordings
      BY <2>3, <3>2 DEF Inv, Flushing
    <3>5. recent_recordings[k].id \in Nat /\ cum_recordings \in Nat /\ Current \in Nat
      BY <3>2, RecentRanges, FileTypes
    <3>6. io.op # "Aborted" \/ recent_recordings[k].id # Current
      <4>1. io.op = "Aborted" => cum_recordings <= Current
        BY BusyIsAhead DEF Busy
      <4> QED BY <3>4, <3>5, <4>1
    <3>7. recent_recordings[k].id \in ws.recording_id..(Current' - 1)
      BY <3>2, <3>3, <3>6
    <3>8. ws.recording_id \in {Current, Current + 1} /\ Current' \in Nat
      BY <2>1, Ranges DEF Rechosen
    <3>9. Current <= recent_recordings[k].id
      BY <3>5, <3>7, <3>8
    <3>10. recent_recordings[k].id >= cum_recordings
      <4>1. Current < cum_recordings
        BY <3>4, <3>5, <3>9
      <4> QED BY <4>1, <3>2 DEF Inv, Working
    <3> QED BY <3>4, <3>5, <3>10
  <2> QED BY <2>2, <2>3 DEF RowsAlive
<1>2. CASE WriteBytes \/ CreateFails \/ Abort \/ FileIoFails \/ SyncFile \/ SyncDir
  <2>1. UNCHANGED <<streamVars, flush, dbVars>>
    BY <1>2 DEF WriteBytes, CreateFails, Abort, FileIoFails, SyncFile, SyncDir, AbortFile
  <2> QED BY <2>1, SteadyKeepsRowsAlive DEF streamVars, dbVars
<1> QED BY <1>1, <1>2, PrepPrepares DEF Worker

\* What a flush inserts is alive, and what it leaves is past what it deletes.
LEMMA CommitKeepsRowsAlive ==
  ASSUME Inv, Tracked, RowsAlive, FlushCommit
  PROVE  RowsAlive'
<1>1. /\ flush.pc = "Collected" /\ UNCHANGED <<recent_recordings, to_delete>>
      /\ DOMAIN row' = (DOMAIN row \cup DOMAIN flush.new) \ DeletionRange
  BY DEF FlushCommit, streamVars
<1>2. ASSUME NEW i \in DOMAIN recent_recordings, recent_recordings[i].id \in DOMAIN row'
      PROVE  ~Deleted(recent_recordings[i])
  <2>1. CASE recent_recordings[i].id \in DOMAIN row
    BY <2>1 DEF RowsAlive
  <2>2. CASE recent_recordings[i].id \in DOMAIN flush.new
    <3>1. PICK k \in DOMAIN recent_recordings :
            recent_recordings[k].id = recent_recordings[i].id /\ ~Deleted(recent_recordings[k])
      BY <1>1, <2>2 DEF Tracked, CollectedAlive, Alive
    <3>2. /\ recent_recordings[i].id = (Top - Len(recent_recordings)) + i /\ i \in 1..Len(recent_recordings)
          /\ recent_recordings[k].id = (Top - Len(recent_recordings)) + k /\ k \in 1..Len(recent_recordings)
      BY RecentRanges
    <3>3. Top - Len(recent_recordings) \in Int
      BY Ranges
    <3>4. i = k
      BY <3>1, <3>2, <3>3
    <3> QED BY <3>1, <3>4
  <2> QED BY <1>1, <1>2, <2>1, <2>2
<1>3. ASSUME NEW d \in to_delete, NEW id \in DOMAIN row' PROVE d < id
  <2>1. to_delete = flush.deletion /\ flush.deletion \subseteq Ids /\ Ids = 0..(MaxRecordings - 1)
    BY <1>1 DEF Inv, Typed, Flushing, Ids
  <2>2. id \notin DeletionRange /\ id \in DOMAIN row \cup DOMAIN flush.new
    BY <1>1, <1>3
  <2>3. id \in Nat
    <3>1. row \in Rows /\ flush.new \in Rows
      BY DEF Inv, Typed
    <3>2. id \in Ids
      BY <2>2, <3>1 DEF Rows
    <3> QED BY <3>2, FileTypes
  <2>4. ~(id <= Max(flush.deletion))
    BY <2>1, <2>2 DEF DeletionRange
  <2>5. Max(flush.deletion) \in flush.deletion /\ \A e \in flush.deletion : e <= Max(flush.deletion)
    <3>1. MaxRecordings \in Nat /\ flush.deletion # {}
      BY <2>1, Ranges
    <3>2. flush.deletion \subseteq 0..MaxRecordings
      BY <2>1, <3>1
    <3> QED BY <3>1, <3>2, MaxIsGreatest
  <2>6. Max(flush.deletion) \in Nat /\ d \in Nat /\ d <= Max(flush.deletion)
    BY <2>1, <2>5, FileTypes
  <2> QED BY <2>3, <2>4, <2>6
<1> QED BY <1>1, <1>2, <1>3 DEF RowsAlive

LEMMA ApplyKeepsRowsAlive ==
  ASSUME Inv, RowsAlive, FlushApply
  PROVE  RowsAlive'
<1> DEFINE R == recent_recordings
<1>1. /\ flush.pc = "Committed" /\ row' = row /\ flush' = NoFlush
      /\ R' = MaybePrune(Applied, recent_frames, writer_state)
  BY DEF FlushApply, Applied, dbVars
<1>2. /\ Applied \in Seq(Recording) /\ Len(Applied) = Len(R)
      /\ \A i \in 1..Len(R) :
           /\ Applied[i].id = R[i].id
           /\ Deleted(Applied[i]) => \/ Deleted(R[i])
                                     \/ to_delete # {} /\ R[i].id < Max(to_delete) + 1
  BY AppliedRecordings
<1>3. PICK applied \in Seq(Recording) : applied = Applied
  BY <1>2
<1>4. PICK n \in 0..Len(applied) :
        /\ Follows(applied, MaybePrune(applied, recent_frames, writer_state), n)
        /\ \A i \in 1..(Len(applied) - n) :
             MaybePrune(applied, recent_frames, writer_state)[i] = applied[i + n]
  BY MaybePruneFollows
<1>5. /\ R' \in Seq(Recording) /\ Len(R') = Len(R) - n /\ n \in 0..Len(R) /\ Len(R) \in Nat
      /\ \A i \in 1..(Len(R) - n) : R'[i] = applied[i + n]
  BY <1>1, <1>2, <1>3, <1>4, Ranges DEF Follows
<1>6. ASSUME NEW i \in DOMAIN R', R'[i].id \in DOMAIN row, Deleted(R'[i])
      PROVE  FALSE
  <2>1. i \in 1..(Len(R) - n) /\ i + n \in 1..Len(R)
    BY <1>5
  <2> DEFINE k == i + n
  <2>2. k \in 1..Len(R) /\ R'[i] = applied[k]
    BY <1>5, <2>1
  <2> HIDE DEF k
  <2>3. /\ R[k].id = R'[i].id
        /\ Deleted(R[k]) \/ (to_delete # {} /\ R[k].id < Max(to_delete) + 1)
    BY <1>2, <1>3, <1>6, <2>2
  <2>4. k \in DOMAIN R /\ R[k].id \in DOMAIN row
    BY <1>6, <2>2, <2>3, Ranges
  <2>5. to_delete # {} /\ R[k].id < Max(to_delete) + 1
    BY <2>3, <2>4 DEF RowsAlive
  <2>6. Max(to_delete) \in to_delete
    <3>1. MaxRecordings \in Nat /\ to_delete \subseteq Ids
      BY Ranges DEF Inv, Typed
    <3>2. to_delete \subseteq 0..MaxRecordings
      BY <3>1 DEF Ids
    <3> QED BY <2>5, <3>1, <3>2, MaxIsGreatest
  <2>7. Max(to_delete) < R[k].id
    BY <1>1, <2>4, <2>6 DEF RowsAlive
  <2>8. Max(to_delete) \in Nat /\ R[k].id \in Nat
    <3>1. to_delete \subseteq Ids
      BY DEF Inv, Typed
    <3> QED BY <2>4, <2>6, <3>1, FileTypes, RecentRanges
  <2> QED BY <2>5, <2>7, <2>8
<1> QED BY <1>1, <1>6 DEF RowsAlive, NoFlush

LEMMA StepKeepsRowsAlive ==
  ASSUME Inv, Tracked, RowsAlive, [ListNext]_<<vars, list>>
  PROVE  RowsAlive'
<1>1. CASE List
  BY <1>1, ListingIsQuiet, SteadyKeepsRowsAlive DEF threadVars, dbVars
<1>2. CASE UNCHANGED vars
  BY <1>2, SteadyKeepsRowsAlive DEF vars, streamVars, threadVars, dbVars
<1>3. CASE FlushCollect \/ FlushFails \/ Collect \/ HandleNotify \/ Abandon \/ InitialRotation
  <2>1. /\ UNCHANGED <<recent_recordings, row>>
        /\ flush'.pc = "Committed" => flush.pc = "Committed" /\ to_delete' = to_delete
    <3>1. CASE FlushCollect
      BY <3>1 DEF FlushCollect, streamVars, dbVars
    <3>2. CASE FlushFails
      BY <3>2 DEF FlushFails, streamVars, dbVars, NoFlush
    <3>3. CASE Collect
      BY <3>3 DEF Collect, GcUnlink, GcSync, GcSyncFails, streamVars, dbVars
    <3>4. CASE HandleNotify
      BY <3>4 DEF HandleNotify, DbUnlocked, threadVars, dbVars
    <3>5. CASE Abandon
      BY <3>5 DEF Abandon, streamVars, threadVars, dbVars
    <3>6. CASE InitialRotation
      <4>1. flush = NoFlush /\ flush' = flush
        BY <3>6 DEF InitialRotation, Inv, Stopped, threadVars
      <4> QED BY <3>6, <4>1 DEF InitialRotation, dbVars, NoFlush
    <3> QED BY <1>3, <3>1, <3>2, <3>3, <3>4, <3>5, <3>6
  <2> QED BY <2>1, SteadyKeepsRowsAlive
<1>4. CASE Crash
  BY <1>4 DEF Crash, RowsAlive, NoFlush
<1> QED BY <1>1, <1>2, <1>3, <1>4, WriteKeepsRowsAlive, WorkerKeepsRowsAlive,
           CommitKeepsRowsAlive, ApplyKeepsRowsAlive DEF ListNext, Next, Flush

-----------------------------------------------------------------------------
(* A listing in progress.                                                  *)

ListTyped ==
  /\ list = [pc |-> list.pc, from |-> list.from, to |-> list.to, db_end |-> list.db_end,
             result |-> list.result]
  /\ list.from \in 0..MaxRecordings
  /\ list.to \in 0..MaxRecordings
  /\ list.db_end \in 0..MaxRecordings

\* No flush runs meanwhile, nothing leaves the recent recordings, and what
\* the query does not cover they do.
Listing ==
  list.pc # "Idle" =>
    /\ process = "running" /\ pinned /\ flush.pc = "Idle"
    /\ list.db_end <= list.to /\ list.db_end <= FirstRecent
    /\ \A id \in DOMAIN row : list.db_end <= id /\ id < list.to => FirstRecent <= id
    /\ list.pc = "Queried" => list.result = DbIds(list.from, list.db_end)

Lists == ListTyped /\ Listing

\* While it is pinned, the Writer only adds recordings at the end.
LEMMA PinnedWrite ==
  ASSUME Inv, pinned, Write
  PROVE  FirstRecent' = FirstRecent
<1> DEFINE R == recent_recordings
<1>1. PICK is_key \in BOOLEAN, len \in FrameSizes, close \in BOOLEAN :
        PushAndMaybeClose(is_key, len, close)
  BY DEF Write
<1> DEFINE opening == recording_id = NoId
           id == IF opening THEN complete ELSE recording_id
           opened == IF opening
                     THEN Append(R, [id |-> id, sample_file_bytes |-> 0,
                                     flags |-> {"GROWING", "UNCOMMITTED"}])
                     ELSE R
           bytes == opened[Len(opened)].sample_file_bytes + len
           grown == [opened EXCEPT ![Len(opened)].sample_file_bytes = bytes]
<1>2. /\ R' = IF close THEN [grown EXCEPT ![Len(grown)].flags = @ \ {"GROWING"}] ELSE grown
      /\ complete' = IF close THEN complete + 1 ELSE complete
      /\ recording_id' = IF close THEN NoId ELSE id
  BY <1>1 DEF PushAndMaybeClose, MaybePrune
<1>3. R \in Seq(Recording) /\ Len(R) \in Nat /\ complete \in Nat /\ NoId \notin Nat
  BY Ranges DEF NoId
<1>4. recording_id = NoId \/ recording_id = complete
  BY DEF Inv, Window
<1>5. /\ DOMAIN opened = 1..Len(opened) /\ Len(opened) \in Nat
      /\ Len(opened) = IF opening THEN Len(R) + 1 ELSE Len(R)
  <2>1. CASE opening
    <3>1. \A e : LET q == Append(R, e) IN DOMAIN q = 1..Len(q) /\ Len(q) = Len(R) + 1
      BY <1>3
    <3> QED BY <2>1, <3>1, <1>3
  <2>2. CASE ~opening
    BY <2>2, <1>3
  <2> QED BY <2>1, <2>2
<1> HIDE DEF opened
<1>6. DOMAIN grown = 1..Len(opened)
  BY <1>5
<1> HIDE DEF grown
<1>7. DOMAIN R' = 1..Len(opened)
  BY <1>2, <1>6
<1>8. Len(R') = Len(opened)
  BY <1>5, <1>7
<1>9. Top' = IF opening THEN Top + 1 ELSE Top
  BY <1>2, <1>3, <1>4 DEF Top
<1> QED BY <1>3, <1>5, <1>8, <1>9, Ranges DEF FirstRecent

\* And the worker only marks them.
LEMMA ChooseKeepsLength ==
  ASSUME NEW recents \in Seq(Recording), NEW frames, NEW ws, Choose(recents, frames, ws)
  PROVE  Len(recent_recordings') = Len(recents)
<1>1. \E ids : recent_recordings' \in {recents, MarkDeleted(recents, ids)}
  BY DEF Choose
<1> QED BY <1>1, MarkedRecordings

LEMMA PinnedWorker ==
  ASSUME Inv, pinned, Worker
  PROVE  FirstRecent' = FirstRecent
<1> DEFINE R == recent_recordings
<1>1. Len(R') = Len(R)
  <2>1. R \in Seq(Recording)
    BY Ranges
  <2>2. CASE PrepStart \/ PrepWritten \/ PrepSynced
    <3>1. \E frames, ws : Choose(R, frames, ws)
      BY <2>2 DEF PrepStart, PrepWritten, PrepSynced
    <3> QED BY <2>1, <3>1, ChooseKeepsLength
  <2>3. CASE PrepAborted
    <3>1. \E frames, ws : Choose(MarkDeleted(R, {writer_state.recording_id}), frames, ws)
      BY <2>3 DEF PrepAborted, MaybePrune
    <3> QED BY <2>1, <3>1, ChooseKeepsLength, MarkedRecordings
  <2>4. CASE WriteBytes \/ CreateFails \/ Abort \/ FileIoFails \/ SyncFile \/ SyncDir
    BY <2>4 DEF WriteBytes, CreateFails, Abort, FileIoFails, SyncFile, SyncDir, AbortFile,
                streamVars
  <2> QED BY <2>2, <2>3, <2>4 DEF Worker
<1>2. UNCHANGED <<complete, recording_id>>
  BY DEF Worker, PrepStart, PrepWritten, PrepSynced, PrepAborted, WorkerUnchanged, WriteBytes,
         CreateFails, Abort, FileIoFails, SyncFile, SyncDir, AbortFile, streamVars
<1> QED BY <1>1, <1>2 DEF FirstRecent, Top

\* The pin and the database lock keep rows, and where the recent recordings
\* start, as they are.
LEMMA PinnedStep ==
  ASSUME Inv, pinned, flush.pc = "Idle", process = "running", process' = "running", Next
  PROVE  FirstRecent' = FirstRecent /\ UNCHANGED <<row, pinned, flush>>
<1>1. CASE Write
  <2>1. UNCHANGED <<row, pinned, flush>>
    <3>1. PICK is_key \in BOOLEAN, len \in FrameSizes, close \in BOOLEAN :
            PushAndMaybeClose(is_key, len, close)
      BY <1>1 DEF Write
    <3> QED BY <3>1 DEF PushAndMaybeClose, dbVars
  <2> QED BY <1>1, <2>1, PinnedWrite
<1>2. CASE Worker
  <2>1. UNCHANGED <<row, pinned, flush>>
    BY <1>2 DEF Worker, PrepStart, PrepWritten, PrepSynced, PrepAborted, WorkerUnchanged,
                WriteBytes, CreateFails, Abort, FileIoFails, SyncFile, SyncDir, AbortFile,
                streamVars, dbVars
  <2> QED BY <1>2, <2>1, PinnedWorker
<1>3. CASE Collect
  BY <1>3 DEF Collect, GcUnlink, GcSync, GcSyncFails, streamVars, dbVars, FirstRecent, Top
<1>4. ~HandleNotify /\ ~Flush /\ ~Crash /\ ~Abandon /\ ~InitialRotation
  BY DEF HandleNotify, DbUnlocked, Flush, FlushCollect, FlushCommit, FlushFails, FlushApply,
         Crash, Abandon, InitialRotation
<1> QED BY <1>1, <1>2, <1>3, <1>4 DEF Next

-----------------------------------------------------------------------------
LEMMA PinStartsListing ==
  ASSUME Inv, NEW from \in 0..MaxRecordings, NEW to \in 0..MaxRecordings, NEW by_time \in BOOLEAN,
         by_time => to = MaxRecordings, ListPin(from, to, by_time)
  PROVE  Lists'
<1>1. /\ process = "running" /\ process' = "running" /\ pinned' = TRUE /\ flush.pc = "Idle"
      /\ flush' = flush /\ row' = row
      /\ list' = [pc |-> "Pinned", from |-> from, to |-> to,
                  db_end |-> IF by_time THEN MinRecent ELSE Min({MinRecent, to}),
                  result |-> << >>]
      /\ UNCHANGED <<recent_recordings, complete, recording_id>>
  BY DEF ListPin, DbUnlocked, threadVars, dbVars
<1>2. FirstRecent' = FirstRecent
  BY <1>1 DEF FirstRecent, Top
<1>3. /\ Top \in Int /\ Top \in {complete - 1, complete} /\ complete \in Nat /\ committed \in Nat
      /\ committed <= complete /\ committed <= MaxRecordings /\ MaxRecordings \in Nat
      /\ recent_recordings \in Seq(Recording) /\ Len(recent_recordings) \in Nat
  BY Ranges DEF Inv, Window
<1>4. /\ MinRecent \in 0..MaxRecordings /\ MinRecent <= FirstRecent
      /\ \A id \in DOMAIN row : MinRecent <= id => FirstRecent <= id
  <2>1. CASE recent_recordings = << >>
    <3>1. MinRecent = committed /\ FirstRecent = Top + 1
      BY <1>3, <2>1 DEF MinRecent, FirstRecent
    <3>2. \A id \in DOMAIN row : id \in Nat /\ id < committed
      BY <1>1, RowsAreCommitted
    <3> QED BY <1>3, <3>1, <3>2
  <2>2. CASE recent_recordings # << >>
    <3>1. MinRecent = FirstRecent
      BY <2>2, HeadIsFirst DEF MinRecent
    <3>2. 1 \in DOMAIN recent_recordings /\ Head(recent_recordings) = recent_recordings[1]
      BY <1>3, <2>2
    <3>3. recent_recordings[1].id \in Ids
      BY <3>2, RecentRanges
    <3>4. MinRecent \in 0..MaxRecordings
      BY <1>3, <2>2, <3>2, <3>3 DEF MinRecent, Ids
    <3> QED BY <3>1, <3>4
  <2> QED BY <2>1, <2>2
<1>5. PICK least : least = MinRecent
  OBVIOUS
<1>6. /\ list'.db_end \in 0..MaxRecordings /\ list'.db_end <= to
      /\ list'.db_end = least \/ list'.db_end = to
      /\ list'.db_end <= least
  <2>1. least \in 0..MaxRecordings
    BY <1>4, <1>5
  <2>2. /\ Min({least, to}) \in {least, to}
        /\ Min({least, to}) <= least /\ Min({least, to}) <= to
    <3>1. {least, to} \subseteq Nat /\ {least, to} # {}
      BY <2>1, <1>3
    <3> QED BY <3>1, MinIsLeast
  <2>3. list'.db_end = IF by_time THEN least ELSE Min({least, to})
    BY <1>1, <1>5
  <2> QED BY <2>1, <2>2, <2>3, <1>3
<1>7. PICK db_end \in 0..MaxRecordings :
        db_end = list'.db_end /\ db_end <= to /\ (db_end = least \/ db_end = to) /\ db_end <= least
  BY <1>6
<1>8. db_end <= FirstRecent
  BY <1>3, <1>4, <1>5, <1>7 DEF FirstRecent
<1>9. ASSUME NEW id \in DOMAIN row, db_end <= id, id < to PROVE FirstRecent <= id
  <2>1. id \in Nat
    BY <1>1, RowsAreCommitted
  <2>2. db_end # to
    BY <2>1, <1>9
  <2> QED BY <1>4, <1>5, <1>7, <1>9, <2>2
<1>10. list'.pc = "Pinned" /\ list'.from = from /\ list'.to = to
  BY <1>1
<1>11. ListTyped'
  BY <1>1, <1>7, <1>10 DEF ListTyped
<1>12. Listing'
  BY <1>1, <1>2, <1>7, <1>8, <1>9, <1>10 DEF Listing
<1> QED BY <1>11, <1>12 DEF Lists

LEMMA QueryKeepsListing ==
  ASSUME Lists, ListQuery
  PROVE  Lists'
<1>1. UNCHANGED <<process, pinned, flush, row, recent_recordings, complete, recording_id>>
  BY DEF ListQuery, vars, streamVars, threadVars, dbVars
<1>2. FirstRecent' = FirstRecent
  BY <1>1 DEF FirstRecent, Top
<1>3. list.pc = "Pinned" /\ list' = [list EXCEPT !.pc = "Queried",
                                                  !.result = DbIds(list.from, list.db_end)]
  BY DEF ListQuery
<1>4. /\ list'.pc = "Queried" /\ list'.from = list.from /\ list'.to = list.to
      /\ list'.db_end = list.db_end /\ list'.result = DbIds(list.from, list.db_end)
      /\ ListTyped'
  <2> DEFINE ids == DbIds(list.from, list.db_end)
  <2> HIDE DEF ids
  <2>1. list' = [pc |-> "Queried", from |-> list.from, to |-> list.to, db_end |-> list.db_end,
                 result |-> ids]
    BY <1>3 DEF Lists, ListTyped, ids
  <2> QED BY <2>1 DEF Lists, ListTyped, ids
<1>5. DbIds(list.from, list.db_end)' = DbIds(list.from, list.db_end)
  BY <1>1, <1>4 DEF DbIds
<1>6. Listing'
  BY <1>1, <1>2, <1>3, <1>4, <1>5 DEF Lists, Listing
<1> QED BY <1>4, <1>6 DEF Lists

LEMMA StepKeepsListing ==
  ASSUME Inv, Lists, [ListNext]_<<vars, list>>
  PROVE  Lists'
<1>1. CASE ListUnpin
  <2>1. list'.pc = "Idle" /\ ListTyped'
    <3> DEFINE ids == list.result \o RecentIds(list.from, list.to)
    <3>1. list' = [list EXCEPT !.pc = "Idle", !.result = ids]
      BY <1>1 DEF ListUnpin
    <3> HIDE DEF ids
    <3>2. list' = [pc |-> "Idle", from |-> list.from, to |-> list.to, db_end |-> list.db_end,
                   result |-> ids]
      BY <3>1 DEF Lists, ListTyped
    <3> QED BY <3>2 DEF Lists, ListTyped
  <2> QED BY <2>1 DEF Lists, Listing
<1>2. CASE \E from, to \in 0..MaxRecordings : from < to /\ ListPin(from, to, FALSE)
  BY <1>2, PinStartsListing
<1>3. CASE ListPin(0, MaxRecordings, TRUE)
  <2>1. 0 \in 0..MaxRecordings /\ MaxRecordings \in 0..MaxRecordings
    BY Ranges
  <2> QED BY <1>3, <2>1, PinStartsListing
<1>4. CASE UNCHANGED <<vars, list>>
  <2>1. UNCHANGED <<process, pinned, flush, row, recent_recordings, complete, recording_id, list>>
    BY <1>4 DEF vars, streamVars, threadVars, dbVars
  <2> QED BY <2>1 DEF Lists, Listing, ListTyped, FirstRecent, Top, DbIds
<1>5. CASE Next /\ list' = NoList
  <2>1. 0 \in 0..MaxRecordings
    BY Ranges
  <2> QED BY <1>5, <2>1 DEF NoList, Lists, Listing, ListTyped
<1>6. CASE Next /\ list' = list /\ process' = "running"
  <2>1. CASE list.pc = "Idle"
    BY <1>6, <2>1 DEF Lists, Listing, ListTyped
  <2>2. CASE list.pc # "Idle"
    <3>1. pinned /\ flush.pc = "Idle" /\ process = "running"
      BY <2>2 DEF Lists, Listing
    <3>2. FirstRecent' = FirstRecent /\ UNCHANGED <<row, pinned, flush>>
      BY <1>6, <3>1, PinnedStep
    <3> QED BY <1>6, <2>2, <3>2 DEF Lists, Listing, ListTyped, DbIds
  <2> QED BY <2>1, <2>2
<1> QED BY <1>1, <1>2, <1>3, <1>4, <1>5, <1>6, QueryKeepsListing DEF ListNext, List

\* What the recent recordings contribute.
LEMMA RecentPart ==
  ASSUME Inv, NEW from \in Nat, NEW to \in Nat
  PROVE  LET ids == {id \in from..(to - 1) : Alive(id)}
         IN  /\ ids \subseteq Nat /\ IsFiniteSet(ids)
             /\ \A id \in ids : FirstRecent <= id
             /\ RecentIds(from, to) = Ascending(ids)
<1> DEFINE R == recent_recordings
           ids == {id \in from..(to - 1) : Alive(id)}
           p == {i \in DOMAIN R : Returned(R[i], from, to)}
           base == Top - Len(R)
<1>1. R \in Seq(Recording) /\ Len(R) \in Nat /\ Top \in Int /\ DOMAIN R = 1..Len(R)
  BY Ranges
<1>2. \A i \in DOMAIN R : R[i].id = base + i /\ R[i].id \in Nat /\ i \in Nat /\ i >= 1
  BY <1>1, RecentRanges
<1>3. p \subseteq Nat /\ IsFiniteSet(p)
  <2>1. p \in SUBSET (1..Len(R)) /\ IsFiniteSet(1..Len(R))
    BY <1>1, FS_Interval
  <2> QED BY <2>1, FS_Subset
<1>4. ids = {R[i].id : i \in p}
  BY DEF Alive, Returned
<1>5. ids = {base + i : i \in p}
  BY <1>2, <1>4
<1>6. ids \subseteq Nat
  OBVIOUS
<1>7. \A id \in ids : FirstRecent <= id
  <2>1. \A i \in p : base + i >= FirstRecent
    BY <1>1, <1>2 DEF FirstRecent
  <2> QED BY <1>5, <2>1
<1>8. base \in Int
  BY <1>1
<1>9. \A k \in DOMAIN Ascending(p) : Ascending(p)[k] \in p
  <2> HIDE DEF p
  <2> QED BY <1>3, AscendingRanks
<1>10. RecentIds(from, to) = [k \in DOMAIN Ascending(p) |-> R[Ascending(p)[k]].id]
  BY DEF RecentIds
<1>11. \A k \in DOMAIN Ascending(p) : R[Ascending(p)[k]].id = base + Ascending(p)[k]
  BY <1>2, <1>9
<1> HIDE DEF p, base, ids
<1>12. IsFiniteSet(ids) /\ Ascending(ids) = [k \in DOMAIN Ascending(p) |-> base + Ascending(p)[k]]
  BY <1>3, <1>5, <1>6, <1>8, AscendingShifts
<1>13. RecentIds(from, to) = Ascending(ids)
  BY <1>10, <1>11, <1>12
<1> QED BY <1>6, <1>7, <1>12, <1>13 DEF ids

LEMMA UnpinCompletes ==
  ASSUME Inv, RowsAlive, Lists, ListUnpin
  PROVE  list'.result = Ascending({id \in list.from..(list.to - 1) : Listed(id)})
<1> DEFINE rows == {id \in DOMAIN row : id \in list.from..(list.db_end - 1)}
           recents == {id \in list.from..(list.to - 1) : Alive(id)}
           both == {id \in list.from..(list.to - 1) : Listed(id)}
<1>1. /\ list.pc = "Queried" /\ list'.result = list.result \o RecentIds(list.from, list.to)
  <2> DEFINE ids == list.result \o RecentIds(list.from, list.to)
  <2>1. list.pc = "Queried" /\ list' = [list EXCEPT !.pc = "Idle", !.result = ids]
    BY DEF ListUnpin
  <2> HIDE DEF ids
  <2>2. list'.result = ids
    BY <2>1 DEF Lists, ListTyped
  <2> QED BY <2>1, <2>2 DEF ids
<1>2. /\ list.from \in Nat /\ list.to \in Nat /\ list.db_end \in Nat
      /\ list.db_end <= list.to /\ list.db_end <= FirstRecent /\ flush.pc = "Idle"
      /\ \A id \in DOMAIN row : list.db_end <= id /\ id < list.to => FirstRecent <= id
      /\ list.result = Ascending(rows)
  <2>1. list.from \in Nat /\ list.to \in Nat /\ list.db_end \in Nat
    BY Ranges DEF Lists, ListTyped
  <2> QED BY <2>1, <1>1 DEF Lists, Listing, DbIds
<1>3. FirstRecent \in Int
  BY Ranges DEF FirstRecent
<1>4. /\ recents \subseteq Nat /\ IsFiniteSet(recents)
      /\ \A id \in recents : FirstRecent <= id
      /\ RecentIds(list.from, list.to) = Ascending(recents)
  BY <1>2, RecentPart
<1>5. rows \subseteq Nat /\ IsFiniteSet(rows)
  <2>1. rows \in SUBSET (list.from..(list.db_end - 1))
    OBVIOUS
  <2>2. list.from \in Int /\ list.db_end - 1 \in Int
    BY <1>2
  <2>3. IsFiniteSet(list.from..(list.db_end - 1))
    BY <2>2, FS_Interval
  <2> QED BY <1>2, <2>1, <2>3, FS_Subset
<1>6. \A x \in rows, y \in recents : x < y
  <2>1. \A x \in rows : x < list.db_end /\ x \in Nat
    BY <1>2
  <2> QED BY <1>2, <1>3, <1>4, <2>1
<1>7. rows \cup recents = both
  <2>1. ASSUME NEW id \in rows PROVE id \in both
    <3>1. id \in list.from..(list.to - 1)
      BY <1>2
    <3> QED BY <3>1 DEF Listed
  <2>2. ASSUME NEW id \in recents PROVE id \in both
    BY DEF Alive, Listed
  <2>3. ASSUME NEW id \in both, id \notin rows PROVE id \in recents
    <3>1. CASE Alive(id)
      BY <3>1
    <3>2. CASE id \in DOMAIN row
      <4>1. id \in Nat /\ list.db_end <= id /\ id < list.to
        BY <1>2, <2>3, <3>2
      <4>2. FirstRecent <= id
        BY <1>2, <3>2, <4>1
      <4>3. id <= Top
        BY <1>2, <3>2, RowsAreCommitted
      <4>4. PICK i \in DOMAIN recent_recordings : recent_recordings[i].id = id
        BY <4>1, <4>2, <4>3, RecentIsHeld
      <4>5. ~Deleted(recent_recordings[i])
        BY <3>2, <4>4 DEF RowsAlive
      <4> QED BY <4>4, <4>5 DEF Alive
    <3> QED BY <2>3, <3>1, <3>2 DEF Listed, Alive
  <2> QED BY <2>1, <2>2, <2>3
<1> HIDE DEF rows, recents, both
<1>8. Ascending(rows) \o Ascending(recents) = Ascending(rows \cup recents)
  BY <1>4, <1>5, <1>6, AscendingJoins
<1>9. list'.result = Ascending(both)
  BY <1>1, <1>2, <1>4, <1>7, <1>8
<1> QED BY <1>9 DEF both

\* Whatever the Writer, the worker and collectors do between its query and
\* its unpin, a listing returns the recordings that exist at its end, each
\* once and in order: it might have been made in one step.
THEOREM ListingsAreAtomic == ListSpec => ListIsAtomic
<1> DEFINE Atomic == list.pc = "Queried" /\ list'.pc = "Idle" /\ process' = "running" =>
                       list'.result = Ascending({id \in list.from..(list.to - 1) : Listed(id)})
<1>1. ListInit => RowsAlive /\ Lists
  <2>1. ASSUME ListInit PROVE RowsAlive /\ Lists
    <3>1. 0 \in 0..MaxRecordings
      BY RecordingsAssumption DEF RecordingsAssumption
    <3>2. RowsAlive
      BY <2>1 DEF ListInit, Init, RowsAlive, NoFlush
    <3> QED BY <2>1, <3>1, <3>2 DEF ListInit, NoList, Lists, Listing, ListTyped
  <2> QED BY <2>1
<1>2. Inv /\ Tracked /\ RowsAlive /\ Lists /\ [ListNext]_<<vars, list>> => RowsAlive' /\ Lists'
  BY StepKeepsRowsAlive, StepKeepsListing
<1>3. Inv /\ RowsAlive /\ Lists /\ [ListNext]_<<vars, list>> => [Atomic]_<<vars, list>>
  <2>1. SUFFICES ASSUME Inv, RowsAlive, Lists, ListNext, list.pc = "Queried",
                        list'.pc = "Idle", process' = "running"
                 PROVE  list'.result =
                          Ascending({id \in list.from..(list.to - 1) : Listed(id)})
    OBVIOUS
  <2>2. ListUnpin
    <3>1. ~(Next /\ list' = IF process' = "running" THEN list ELSE NoList)
      BY <2>1
    <3>2. List
      BY <2>1, <3>1 DEF ListNext
    <3>3. \A from, to : \A by_time \in BOOLEAN : ~ListPin(from, to, by_time)
      <4>1. \A from, to : \A by_time \in BOOLEAN : ListPin(from, to, by_time) => list'.pc = "Pinned"
        BY DEF ListPin
      <4> QED BY <2>1, <4>1
    <3>4. ~ListQuery
      BY <2>1 DEF ListQuery
    <3> QED BY <3>2, <3>3, <3>4 DEF List
  <2> QED BY <2>1, <2>2, UnpinCompletes
<1> QED BY ListInvHolds, <1>1, <1>2, <1>3, PTL DEF ListSpec, ListIsAtomic
=============================================================================

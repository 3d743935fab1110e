------------------------------ MODULE DirOpen -------------------------------
(***************************************************************************)
(* Sample file directories between the database and their own metadata     *)
(* file: open_sample_file_dirs, add_sample_file_dir and                    *)
(* delete_sample_file_dir (server/db/db.rs), with the stages of the pool   *)
(* that they drive (server/db/dir/mod.rs), when the process may end and    *)
(* I/O may fail between any two of them.                                   *)
(*                                                                         *)
(* A row of sample_file_dir and a metadata file name each other by a uuid  *)
(* and by opens: rows of the table open, one per start of the process for  *)
(* writing.  Neither can be updated together with the other.  The          *)
(* directory's uuid stands for its row's id as well.                       *)
(***************************************************************************)
EXTENDS Integers, Functions

CONSTANTS
    Paths,      \* paths of directories
    MaxOpens,   \* bounds the starts of the process
    MaxDirs,    \* bounds the directories added, and so their uuids
    MaxFaults   \* bounds I/O and SQL errors

ASSUME DirOpenAssumption == MaxOpens \in Nat /\ MaxDirs \in Nat /\ MaxFaults \in Nat

VARIABLES
    rows,       \* sample_file_dir: uuid -> [path, last], last an open
    meta,       \* path -> metadata file
    files,      \* paths that hold sample files
    opens,      \* open rows inserted so far
    uuids,      \* uuids handed out so far
    streams,    \* rows that a stream refers to
    up,         \* the process runs
    open,       \* LockedDatabase::open; NoOpen when it reads only
    pools,      \* uuid -> pool, of a row or of a directory being added
    op,         \* the call that runs; callers make one at a time
    claimed,    \* paths of a row that were added again
    faults

\* streams, stored as well, is with the variables that only its own action changes.
stored == <<rows, meta, files, opens, uuids>>
memory == <<streams, up, open, pools, op, claimed, faults>>
vars == <<stored, memory>>

Uuids == 1..MaxDirs
NoOpen == 0
Opens == 0..MaxOpens

(***************************************************************************)
(* DirMeta.  A file of length 0 is what a crash may leave of a new one,    *)
(* and cannot be decoded; an existing one is rewritten in place, within a  *)
(* sector, which its format relies on being atomic.                        *)
(***************************************************************************)
NoMeta == [kind |-> "none"]
EmptyMeta == [kind |-> "empty"]
Meta(uuid, last, inProgress) ==
    [kind |-> "meta", uuid |-> uuid, last_complete_open |-> last, in_progress_open |-> inProgress]
\* "Stuck" is OpeningStage2 with no command queued that would leave it.
States == {"Closed", "OpeningStage1", "OpenStage1", "OpeningStage2", "Stuck", "Open", "Deleting"}
Pool(path, last, state) == [path |-> path, last |-> last, state |-> state]

Op(kind, us) == [kind |-> kind, uuids |-> us]
NoOp == Op("none", {})
Kinds == {"none", "open", "complete", "add", "delete"}

\* Config::check_consistent: a row that was ever opened must be at the last or
\* the unfinished open of the metadata; one being created must not find a
\* complete open.
NamesOpen(m, uuid, o) ==
    m.kind = "meta" /\ m.uuid = uuid /\ o \in {m.last_complete_open, m.in_progress_open}

CheckConsistent(m, uuid, last) ==
    IF last # NoOpen THEN NamesOpen(m, uuid, last)
    ELSE m.kind # "empty" /\ (m.kind = "meta" => m.last_complete_open = NoOpen)

In(u, states) == u \in DOMAIN pools /\ pools[u].state \in states
Becomes(us, state) ==
    [u \in DOMAIN pools |-> IF u \in us THEN [pools[u] EXCEPT !.state = state] ELSE pools[u]]
Path(u) == pools[u].path

\* flock: a pool keeps its directory locked while its workers live, which is
\* also after its row is deleted.
\* Mutation of Locked: flock is forgotten.
NeverLocked(u) == FALSE

Locked(u) == \E v \in DOMAIN pools \ {u} : Path(v) = Path(u) /\ ~In(v, {"Closed", "OpeningStage1"})

Fault == faults < MaxFaults /\ faults' = faults + 1

-----------------------------------------------------------------------------
Init ==
    /\ rows = <<>> /\ meta = [p \in Paths |-> NoMeta] /\ files = {} /\ opens = 0 /\ uuids = 0
    /\ streams = {} /\ up = FALSE /\ open = NoOpen /\ pools = <<>> /\ op = NoOp
    /\ claimed = {} /\ faults = 0

\* Database::new, init_sample_file_dirs: a pool keeps, for the life of the
\* process, the last open its row has at the start.
Start(forWriting) ==
    /\ ~up /\ up' = TRUE
    /\ forWriting => opens < MaxOpens
    /\ opens' = IF forWriting THEN opens + 1 ELSE opens
    /\ open' = IF forWriting THEN opens + 1 ELSE NoOpen
    /\ pools' = [u \in DOMAIN rows |-> Pool(rows[u].path, rows[u].last, "Closed")]
    /\ UNCHANGED <<rows, meta, files, uuids, streams, op, claimed, faults>>

\* Worker::open, the checks: the lock, the metadata, no files where a directory
\* is created.
Openable(u) ==
    /\ In(u, {"OpeningStage1"}) /\ ~Locked(u)
    /\ CheckConsistent(meta[Path(u)], u, pools[u].last)
    /\ pools[u].last = NoOpen => Path(u) \notin files

\* The files that write_meta may be creating.
BeingCreated == {Path(u) : u \in {v \in DOMAIN pools : Openable(v) /\ open # NoOpen}}
Torn(ps) == [p \in Paths |-> IF p \in ps /\ meta[p] = NoMeta THEN EmptyMeta ELSE meta[p]]

\* The process ends, at any point, also while it creates a file.
Stop ==
    /\ up /\ up' = FALSE /\ open' = NoOpen /\ pools' = <<>> /\ op' = NoOp
    /\ \E torn \in SUBSET BeingCreated : meta' = Torn(torn)
    /\ UNCHANGED <<rows, files, opens, uuids, streams, claimed, faults>>

-----------------------------------------------------------------------------
(***************************************************************************)
(* Worker::create, on a thread of the pool, whether or not somebody still  *)
(* waits for it.                                                           *)
(***************************************************************************)
\* Mutation of StageOneMeta: the last complete open is not carried over.
StageOneForgets(u) == Meta(u, NoOpen, open)

StageOneMeta(u) == Meta(u, pools[u].last, open)

StageOne(u) ==
    /\ Openable(u)
    /\ IF open = NoOpen
       THEN pools' = Becomes({u}, "Open") /\ UNCHANGED meta
       ELSE /\ pools' = Becomes({u}, "OpenStage1")
            /\ meta' = [meta EXCEPT ![Path(u)] = StageOneMeta(u)]
    /\ claimed' = claimed \cup {p \in {Path(u)} : \E v \in DOMAIN rows \ {u} : rows[v].path = p}
    /\ UNCHANGED <<rows, files, opens, uuids, streams, up, open, op, faults>>

StageOneRefused(u) ==
    /\ In(u, {"OpeningStage1"}) /\ ~Openable(u)
    /\ pools' = Becomes({u}, "Closed")
    /\ UNCHANGED <<stored, streams, up, open, op, claimed, faults>>

StageOneFails(u) ==
    /\ Openable(u) /\ Fault
    /\ pools' = Becomes({u}, "Closed")
    /\ \E torn \in SUBSET (BeingCreated \cap {Path(u)}) : meta' = Torn(torn)
    /\ UNCHANGED <<rows, files, opens, uuids, streams, up, open, op, claimed>>

(***************************************************************************)
(* complete_open_for_write, the command on a worker.  An error leaves the  *)
(* state as it is, and no other call accepts it.                           *)
(***************************************************************************)
StageTwoMeta(u) == Meta(u, NoOpen, open)

StageTwo(u) ==
    /\ In(u, {"OpeningStage2"})
    /\ pools' = Becomes({u}, "Open")
    /\ meta' = [meta EXCEPT ![Path(u)] = StageTwoMeta(u)]
    /\ UNCHANGED <<rows, files, opens, uuids, streams, up, open, op, claimed, faults>>

StageTwoFails(u) ==
    /\ In(u, {"OpeningStage2"}) /\ Fault
    /\ pools' = Becomes({u}, "Stuck")
    /\ UNCHANGED <<stored, streams, up, open, op, claimed>>

\* CompleteOpen's effect on the pools of a call, and what is left to wait for.
Completed(us) == Becomes({u \in us : In(u, {"OpenStage1"})}, "OpeningStage2")
Completing(us) ==
    IF \A u \in us : In(u, {"OpenStage1", "Open"}) THEN Op("complete", us) ELSE NoOp

EndComplete ==
    /\ op.kind = "complete" /\ \A u \in op.uuids : ~In(u, {"OpeningStage2"})
    /\ op' = NoOp
    /\ UNCHANGED <<stored, streams, up, open, pools, claimed, faults>>

-----------------------------------------------------------------------------
(***************************************************************************)
(* open_sample_file_dirs: start the pools; when all are in stage 1, one    *)
(* transaction for all rows; then complete them.                           *)
(***************************************************************************)
BeginOpen(us) ==
    /\ up /\ op = NoOp /\ us # {} /\ us \subseteq DOMAIN rows
    /\ LET opening == {u \in us : ~In(u, {"Open"})}
       IN  /\ pools' = Becomes({u \in opening : In(u, {"Closed"})}, "OpeningStage1")
           /\ op' = Op("open", opening)
    /\ UNCHANGED <<stored, streams, up, open, claimed, faults>>

\* A pool that fails ends the call; the others go on.
OpenFails ==
    /\ op.kind \in {"open", "add"} /\ \E u \in op.uuids : In(u, {"Closed"})
    /\ op' = NoOp
    /\ pools' = Restrict(pools, IF op.kind = "add" THEN DOMAIN pools \ op.uuids ELSE DOMAIN pools)
    /\ UNCHANGED <<stored, streams, up, open, claimed, faults>>

InStageOne == \A u \in op.uuids : ~In(u, {"Closed", "OpeningStage1"})

RecordOpen ==
    /\ op.kind = "open" /\ InStageOne
    /\ IF open = NoOpen
       THEN op' = NoOp /\ UNCHANGED <<rows, pools>>
       ELSE /\ rows' = [u \in DOMAIN rows |->
                          IF u \in op.uuids THEN [rows[u] EXCEPT !.last = open] ELSE rows[u]]
            /\ pools' = Completed(op.uuids)
            /\ op' = Completing(op.uuids)
    /\ UNCHANGED <<meta, files, opens, uuids, streams, up, open, claimed, faults>>

(***************************************************************************)
(* add_sample_file_dir: a pool that expects no open; the row when stage 1  *)
(* has succeeded.                                                          *)
(***************************************************************************)
BeginAdd(p) ==
    /\ up /\ op = NoOp /\ open # NoOpen /\ uuids < MaxDirs
    /\ uuids' = uuids + 1
    /\ pools' = [u \in DOMAIN pools \cup {uuids + 1} |->
                   IF u = uuids + 1 THEN Pool(p, NoOpen, "OpeningStage1") ELSE pools[u]]
    /\ op' = Op("add", {uuids + 1})
    /\ UNCHANGED <<rows, meta, files, opens, streams, up, open, claimed, faults>>

NewRow(u) == [path |-> Path(u), last |-> open]

InsertRow ==
    /\ op.kind = "add" /\ InStageOne
    /\ rows' = [u \in DOMAIN rows \cup op.uuids |->
                  IF u \in op.uuids THEN NewRow(u) ELSE rows[u]]
    /\ pools' = Completed(op.uuids)
    /\ op' = Completing(op.uuids)
    /\ UNCHANGED <<meta, files, opens, uuids, streams, up, open, claimed, faults>>

SqlFails ==
    /\ \/ op.kind \in {"open", "add"} /\ InStageOne /\ open # NoOpen
       \/ op.kind = "delete" /\ \A u \in op.uuids : In(u, {"OpenStage1"})
    /\ Fault /\ op' = NoOp
    /\ UNCHANGED <<stored, streams, up, open, pools, claimed>>

(***************************************************************************)
(* delete_sample_file_dir: the metadata first, then the row, if no stream  *)
(* has come to refer to it meanwhile.  mark_deleted's notification of a    *)
(* worker is DirPool's subject.                                            *)
(***************************************************************************)
BeginDelete(u) ==
    /\ up /\ op = NoOp /\ open # NoOpen /\ u \in DOMAIN rows \ streams /\ In(u, {"Open"})
    /\ pools' = Becomes({u}, "Deleting")
    /\ op' = Op("delete", {u})
    /\ UNCHANGED <<stored, streams, up, open, claimed, faults>>

MarkDeleted(u) ==
    /\ In(u, {"Deleting"}) /\ Path(u) \notin files
    /\ pools' = Becomes({u}, "OpenStage1")
    /\ meta' = [meta EXCEPT ![Path(u)] = Meta(u, open, NoOpen)]
    /\ UNCHANGED <<rows, files, opens, uuids, streams, up, open, op, claimed, faults>>

MarkDeletedFails(u) ==
    /\ In(u, {"Deleting"})
    /\ IF Path(u) \in files THEN UNCHANGED faults ELSE Fault
    /\ pools' = Becomes({u}, "Open")
    /\ UNCHANGED <<stored, streams, up, open, op, claimed>>

RemoveRow ==
    /\ op.kind = "delete" /\ \A u \in op.uuids : ~In(u, {"Deleting"})
    /\ op' = NoOp
    /\ rows' = Restrict(rows, DOMAIN rows \ {u \in op.uuids \ streams : In(u, {"OpenStage1"})})
    /\ UNCHANGED <<meta, files, opens, uuids, streams, up, open, pools, claimed, faults>>

-----------------------------------------------------------------------------
\* A stream comes to refer to a row, or ceases to when it has no files.
ChangeStream(u) ==
    /\ up /\ u \in DOMAIN rows /\ (u \in streams => rows[u].path \notin files)
    /\ streams' = IF u \in streams THEN streams \ {u} ELSE streams \cup {u}
    /\ UNCHANGED <<stored, up, open, pools, op, claimed, faults>>

\* A recording's file appears, which needs the pool Open; or the last is unlinked.
ChangeFiles(u) ==
    /\ u \in DOMAIN rows /\ u \in streams /\ In(u, {"Open"}) /\ open # NoOpen
    /\ files' = IF Path(u) \in files THEN files \ {Path(u)} ELSE files \cup {Path(u)}
    /\ UNCHANGED <<rows, meta, opens, uuids, memory>>

OpenCall == \/ \E us \in SUBSET Uuids : BeginOpen(us)
            \/ OpenFails \/ RecordOpen \/ SqlFails \/ EndComplete
AddCall == InsertRow \/ \E p \in Paths : BeginAdd(p)
DeleteCall == RemoveRow \/ \E u \in Uuids : BeginDelete(u)
Worker(u) == \/ StageOne(u) \/ StageOneRefused(u) \/ StageOneFails(u)
             \/ StageTwo(u) \/ StageTwoFails(u)
             \/ MarkDeleted(u) \/ MarkDeletedFails(u)

Next ==
    \/ \E forWriting \in BOOLEAN : Start(forWriting)
    \/ Stop
    \/ OpenCall \/ AddCall \/ DeleteCall
    \/ \E u \in Uuids : Worker(u) \/ ChangeStream(u) \/ ChangeFiles(u)

Spec == Init /\ [][Next]_vars

-----------------------------------------------------------------------------
\* Would the next start open the directory of row u?
OpensAgain(u) == CheckConsistent(meta[rows[u].path], u, rows[u].last)

(***************************************************************************)
(* At every point between the writes of metadata and row, of any open,     *)
(* addition or deletion, complete or not, a start would accept the         *)
(* directory of each row, unless its path was added a second time.         *)
(***************************************************************************)
CrashLeavesOpenable == \A u \in DOMAIN rows : rows[u].path \notin claimed => OpensAgain(u)

(***************************************************************************)
(* While a pool accepts recordings, its row names the open that writes     *)
(* them, its metadata names it as the open in progress and none as         *)
(* complete (complete_open_for_write, dir/mod.rs:511), and no other pool   *)
(* holds the directory.  This is what the code does.  schema.proto:51-60   *)
(* and design/schema.md:403-404 say the two fields the other way round: no *)
(* data has been written by an open in progress, and to complete an open   *)
(* is to name it in last_complete_open.                                    *)
(***************************************************************************)
WritersAreRecorded ==
    open # NoOpen =>
        \A u \in DOMAIN pools :
            In(u, {"Open"}) =>
                /\ u \in DOMAIN rows /\ rows[u].last = open
                /\ meta[Path(u)] = Meta(u, NoOpen, open)
                /\ \A v \in DOMAIN pools \ {u} : Path(v) = Path(u) => In(v, {"Closed", "OpeningStage1"})
=============================================================================

---------------------------- MODULE DirOpenProofs ------------------------------
(***************************************************************************)
(* Proofs about module DirOpen.  What makes the two writes of metadata and *)
(* row safe is that a pool keeps its directory locked from stage 1 on: no  *)
(* other pool rewrites the metadata in between, so that it goes on naming  *)
(* the present open.  Inv says so, and where rows, pools and the two open  *)
(* fields of the metadata stand in each state of a pool.                   *)
(***************************************************************************)
EXTENDS DirOpen, TLAPS

\* From stage 1 on; the flock is held, and the metadata written.
Holds(u) == u \in DOMAIN pools /\ ~In(u, {"Closed", "OpeningStage1"})

\* States that a pool enters only once its row names the present open.
AfterRow == {"OpeningStage2", "Stuck", "Open", "Deleting"}

\* States that a pool enters only once its metadata has been written again.
InUse == {"Open", "Deleting"}

Types ==
    /\ meta = [p \in Paths |-> meta[p]]
    /\ rows \in [DOMAIN rows -> [path : Paths, last : Nat \ {NoOpen}]]
    /\ pools \in [DOMAIN pools -> [path : Paths, last : Nat, state : States]]
    /\ opens \in Nat /\ open \in Nat /\ uuids \in Nat /\ up \in BOOLEAN
    /\ DOMAIN rows \subseteq 1..uuids /\ DOMAIN pools \subseteq 1..uuids

\* A pool has its row's path, and until stage 1 the open its row had at the start.
PoolsKnowRows ==
    /\ IF up THEN DOMAIN rows \subseteq DOMAIN pools
       ELSE pools = <<>> /\ op = NoOp /\ open = NoOpen
    /\ \A u \in DOMAIN rows \cap DOMAIN pools :
          rows[u].path = Path(u) /\ (~Holds(u) => rows[u].last = pools[u].last)
    /\ op.kind = "open" => op.uuids \subseteq DOMAIN rows
    /\ op.kind = "add" => open # NoOpen /\ op.uuids \subseteq DOMAIN pools \ DOMAIN rows

\* One pool at a time holds a directory, and one row has it, unless it was
\* added a second time.
Exclusive ==
    /\ \A u, v \in DOMAIN pools : Holds(u) /\ Holds(v) /\ Path(u) = Path(v) => u = v
    /\ \A u \in DOMAIN pools, v \in DOMAIN rows :
          Holds(u) /\ rows[v].path = Path(u) => u = v \/ Path(u) \in claimed
    /\ \A u, v \in DOMAIN rows :
          rows[u].path = rows[v].path => u = v \/ rows[u].path \in claimed

Named ==
    /\ \A u \in DOMAIN pools : In(u, States \ {"Closed", "OpeningStage1", "Open"}) => open # NoOpen
    /\ open # NoOpen =>
          \A u \in DOMAIN pools :
             /\ Holds(u) => NamesOpen(meta[Path(u)], u, open)
             /\ In(u, AfterRow) => u \in DOMAIN rows /\ rows[u].last = open
    /\ \A u \in DOMAIN rows :
          rows[u].path \notin claimed => NamesOpen(meta[rows[u].path], u, rows[u].last)

\* A pool in use has in its metadata the present open as the one in progress.
Rewritten ==
    open # NoOpen =>
        \A u \in DOMAIN pools : In(u, InUse) => meta[Path(u)] = Meta(u, NoOpen, open)

Inv == Types /\ PoolsKnowRows /\ Exclusive /\ Named /\ Rewritten

-----------------------------------------------------------------------------
(***************************************************************************)
(* What the operators of the model do to pools.                            *)
(***************************************************************************)
\* Becomes changes states only, and only those of us.
LEMMA BecomesFacts ==
  ASSUME Types, NEW us, NEW state \in States, pools' = Becomes(us, state)
  PROVE  /\ DOMAIN pools' = DOMAIN pools
         /\ pools' \in [DOMAIN pools -> [path : Paths, last : Nat, state : States]]
         /\ \A u \in DOMAIN pools :
              /\ Path(u)' = Path(u)
              /\ pools'[u].last = pools[u].last
              /\ pools'[u].state = IF u \in us THEN state ELSE pools[u].state
BY DEF Types, Becomes, Path

LEMMA NothingBecomes ==
  ASSUME Types
  PROVE  pools = Becomes({}, "Closed")
BY DEF Types, Becomes

\* A torn write leaves every metadata file that is there.
LEMMA TornKeeps ==
  ASSUME Types, NEW ps
  PROVE  /\ Torn(ps) = [p \in Paths |-> Torn(ps)[p]]
         /\ \A p \in Paths : meta[p].kind = "meta" => Torn(ps)[p] = meta[p]
BY DEF Types, Torn, NoMeta

\* A step that neither locks a directory nor releases one, nor writes a row.
LEMMA HoldersStay ==
  ASSUME Inv, up, UNCHANGED <<rows, opens, uuids, up, open, claimed>>,
         NEW us, NEW state \in States, pools' = Becomes(us, state),
         \A u \in us \cap DOMAIN pools :
            \/ ~Holds(u) /\ state \in {"Closed", "OpeningStage1"}
            \/ /\ In(u, AfterRow) /\ state \in AfterRow
               /\ state = "Open" \/ open # NoOpen
               /\ state \in InUse => In(u, InUse),
         meta' = [p \in Paths |-> meta'[p]],
         \A p \in Paths : meta[p].kind = "meta" => meta'[p] = meta[p],
         op'.kind = "open" => op'.uuids \subseteq DOMAIN rows,
         op'.kind = "add" => op' = op
  PROVE  Inv'
<1>1. /\ Types /\ PoolsKnowRows /\ Exclusive /\ Named /\ Rewritten
  BY DEF Inv
<1>2. /\ DOMAIN pools' = DOMAIN pools
      /\ pools' \in [DOMAIN pools -> [path : Paths, last : Nat, state : States]]
      /\ \A u \in DOMAIN pools :
           /\ Path(u)' = Path(u)
           /\ pools'[u].last = pools[u].last
           /\ pools'[u].state = IF u \in us THEN state ELSE pools[u].state
  BY <1>1, BecomesFacts
<1>3. \A u \in DOMAIN pools : Path(u) \in Paths /\ pools[u].state \in States
  BY <1>1 DEF Types, Path
<1>4. \A u \in DOMAIN rows : rows[u].path \in Paths
  BY <1>1 DEF Types
<1>5. \A u : Holds(u)' <=> Holds(u)
  BY <1>2, <1>3 DEF Holds, In, AfterRow
<1>6. \A u : In(u, AfterRow)' => In(u, AfterRow)
  BY <1>2 DEF In, Holds, AfterRow
<1>7. Types'
  BY <1>1, <1>2 DEF Types
<1>8. PoolsKnowRows'
  BY <1>1, <1>2, <1>5 DEF PoolsKnowRows
<1>9. Exclusive'
  BY <1>1, <1>2, <1>5 DEF Exclusive
<1>10. Named'
  <2>1. \A u \in DOMAIN pools' : In(u, States \ {"Closed", "OpeningStage1", "Open"})' => open # NoOpen
    BY <1>1, <1>2, <1>3 DEF Named, In
  <2>2. ASSUME open # NoOpen, NEW u \in DOMAIN pools, Holds(u)'
        PROVE  NamesOpen(meta[Path(u)], u, open)'
    BY <1>1, <1>2, <1>3, <1>5, <2>2 DEF Named, NamesOpen
  <2>3. ASSUME open # NoOpen, NEW u \in DOMAIN pools, In(u, AfterRow)'
        PROVE  u \in DOMAIN rows /\ rows[u].last = open
    BY <1>1, <1>6, <2>3 DEF Named
  <2>4. \A u \in DOMAIN rows :
          rows[u].path \notin claimed => NamesOpen(meta'[rows[u].path], u, rows[u].last)
    BY <1>1, <1>4 DEF Named, NamesOpen
  <2> QED
    BY <1>2, <2>1, <2>2, <2>3, <2>4 DEF Named
<1>11. Rewritten'
  <2>1. \A u : In(u, InUse)' => In(u, InUse)
    BY <1>2 DEF In, Holds, AfterRow, InUse
  <2> QED
    BY <1>1, <1>2, <1>3, <2>1 DEF Rewritten, Meta
<1> QED
  BY <1>7, <1>8, <1>9, <1>10, <1>11 DEF Inv

LEMMA InvInit == Init => Inv
<1> SUFFICES ASSUME Init
             PROVE  Inv
  OBVIOUS
<1>1. rows = <<>> /\ pools = <<>> /\ DOMAIN rows = {} /\ DOMAIN pools = {}
  BY DEF Init
<1>2. meta = [p \in Paths |-> NoMeta]
  BY DEF Init
<1>3. Types
  <2>1. meta = [p \in Paths |-> meta[p]]
    BY <1>2
  <2>2. /\ rows \in [DOMAIN rows -> [path : Paths, last : Nat \ {NoOpen}]]
        /\ pools \in [DOMAIN pools -> [path : Paths, last : Nat, state : States]]
    BY <1>1
  <2> QED
    BY <1>1, <2>1, <2>2 DEF Init, Types, NoOpen
<1>4. PoolsKnowRows
  BY <1>1 DEF Init, PoolsKnowRows, NoOp, Op, NoOpen
<1>5. Exclusive /\ Named /\ Rewritten
  BY <1>1 DEF Exclusive, Named, Rewritten, In
<1> QED
  BY <1>3, <1>4, <1>5 DEF Inv

LEMMA StartKeeps ==
  ASSUME Inv, NEW forWriting \in BOOLEAN, Start(forWriting)
  PROVE  Inv'
<1>1. /\ Types /\ PoolsKnowRows /\ Exclusive /\ Named /\ Rewritten
  BY DEF Inv
<1>2. /\ ~up /\ up' = TRUE /\ op' = op /\ op = NoOp
      /\ pools' = [u \in DOMAIN rows |-> Pool(rows[u].path, rows[u].last, "Closed")]
      /\ UNCHANGED <<rows, meta, uuids, claimed>>
  BY <1>1 DEF Start, PoolsKnowRows
<1>3. opens' \in Nat /\ open' \in Nat
  BY <1>1 DEF Start, Types, NoOpen
<1>4. /\ DOMAIN pools' = DOMAIN rows
      /\ \A u \in DOMAIN rows :
           /\ Path(u)' = rows[u].path /\ pools'[u].last = rows[u].last
           /\ pools'[u].state = "Closed"
  BY <1>2 DEF Pool, Path
<1>5. \A u : ~Holds(u)'
  BY <1>4 DEF Holds, In
<1>6. Types'
  <2>1. pools' \in [DOMAIN pools' -> [path : Paths, last : Nat, state : States]]
    BY <1>1, <1>2 DEF Types, Pool, States
  <2> QED
    BY <1>1, <1>2, <1>3, <1>4, <2>1 DEF Types
<1>7. PoolsKnowRows'
  BY <1>2, <1>4 DEF PoolsKnowRows, NoOp, Op
<1>8. Exclusive'
  BY <1>1, <1>2, <1>5 DEF Exclusive
<1>9. Named'
  <2>1. \A u \in DOMAIN pools' : ~In(u, States \ {"Closed", "OpeningStage1", "Open"})' /\ ~In(u, AfterRow)'
    BY <1>4 DEF In, AfterRow
  <2> QED
    BY <1>1, <1>2, <1>5, <2>1 DEF Named
<1>10. Rewritten'
  BY <1>4 DEF Rewritten, In, InUse
<1> QED
  BY <1>6, <1>7, <1>8, <1>9, <1>10 DEF Inv

LEMMA StopKeeps ==
  ASSUME Inv, Stop
  PROVE  Inv'
<1>1. /\ Types /\ PoolsKnowRows /\ Exclusive /\ Named /\ Rewritten
  BY DEF Inv
<1>2. PICK torn : meta' = Torn(torn)
  BY DEF Stop
<1>3. /\ meta' = [p \in Paths |-> meta'[p]]
      /\ \A p \in Paths : meta[p].kind = "meta" => meta'[p] = meta[p]
  BY <1>1, <1>2, TornKeeps
<1>4. /\ up' = FALSE /\ open' = NoOpen /\ pools' = <<>> /\ op' = NoOp
      /\ UNCHANGED <<rows, opens, uuids, claimed>>
  BY DEF Stop
<1>4a. DOMAIN pools' = {}
  BY <1>4
<1>5. Types'
  <2>1. pools' \in [DOMAIN pools' -> [path : Paths, last : Nat, state : States]]
    BY <1>4, <1>4a
  <2> QED
    BY <1>1, <1>3, <1>4, <1>4a, <2>1 DEF Types, NoOpen
<1>6. PoolsKnowRows'
  BY <1>4, <1>4a DEF PoolsKnowRows, NoOp, Op
<1>7. Exclusive'
  BY <1>1, <1>4, <1>4a DEF Exclusive
<1>8. Named'
  <2>1. \A u \in DOMAIN rows : rows[u].path \in Paths
    BY <1>1 DEF Types
  <2> QED
    BY <1>1, <1>3, <1>4, <1>4a, <2>1 DEF Named, NamesOpen
<1>9. Rewritten'
  BY <1>4, <1>4a DEF Rewritten
<1> QED
  BY <1>5, <1>6, <1>7, <1>8, <1>9 DEF Inv

-----------------------------------------------------------------------------
\* Stage 1 takes the lock of a directory that no pool holds; the metadata then
\* names the present open next to the row's.
LEMMA StageOneKeeps ==
  ASSUME Inv, NEW u, StageOne(u)
  PROVE  Inv'
<1>1. /\ Types /\ PoolsKnowRows /\ Exclusive /\ Named /\ Rewritten
  BY DEF Inv
<1>2. /\ u \in DOMAIN pools /\ pools[u].state = "OpeningStage1" /\ ~Holds(u)
      /\ \A v \in DOMAIN pools : Holds(v) => Path(v) # Path(u)
  BY DEF StageOne, Openable, Locked, In, Holds
<1> DEFINE state == IF open = NoOpen THEN "Open" ELSE "OpenStage1"
<1>3. pools' = Becomes({u}, state)
  BY DEF StageOne
<1>4. state \in States
  BY DEF States
<1> HIDE DEF state
<1>5. /\ DOMAIN pools' = DOMAIN pools
      /\ pools' \in [DOMAIN pools -> [path : Paths, last : Nat, state : States]]
      /\ \A v \in DOMAIN pools :
           /\ Path(v)' = Path(v)
           /\ pools'[v].last = pools[v].last
           /\ pools'[v].state = IF v \in {u} THEN state ELSE pools[v].state
  BY <1>1, <1>3, <1>4, BecomesFacts
<1>6. \A v \in DOMAIN pools : Path(v) \in Paths /\ pools[v].state \in States
  BY <1>1 DEF Types, Path
<1>7. UNCHANGED <<rows, opens, uuids, up, open, op>>
  BY DEF StageOne
<1>8. \A v : Holds(v)' <=> v = u \/ Holds(v)
  BY <1>2, <1>5 DEF Holds, In, state
<1>9. meta' = [p \in Paths |-> IF open # NoOpen /\ p = Path(u) THEN StageOneMeta(u) ELSE meta[p]]
  BY <1>1 DEF StageOne, Types
<1>10. /\ claimed \subseteq claimed'
       /\ \A v \in DOMAIN rows : v # u /\ rows[v].path = Path(u) => Path(u) \in claimed'
  BY DEF StageOne
<1>11. Types'
  BY <1>1, <1>5, <1>7, <1>9 DEF Types
<1>12. PoolsKnowRows'
  BY <1>1, <1>5, <1>7, <1>8 DEF PoolsKnowRows
<1>13. Exclusive'
  BY <1>1, <1>2, <1>5, <1>7, <1>8, <1>10 DEF Exclusive
<1>14. Named'
  <2>1. \A v \in DOMAIN pools' : In(v, States \ {"Closed", "OpeningStage1", "Open"})' => open # NoOpen
    BY <1>1, <1>5 DEF Named, In, state
  <2>2. ASSUME open # NoOpen, NEW v \in DOMAIN pools, Holds(v)'
        PROVE  NamesOpen(meta[Path(v)], v, open)'
    <3>1. CASE v = u
      BY <1>5, <1>6, <1>7, <1>9, <2>2, <3>1 DEF NamesOpen, StageOneMeta, Meta
    <3>2. CASE v # u
      BY <1>1, <1>2, <1>5, <1>6, <1>7, <1>8, <1>9, <2>2, <3>2 DEF Named, NamesOpen
    <3> QED
      BY <3>1, <3>2
  <2>3. ASSUME open # NoOpen, NEW v \in DOMAIN pools, In(v, AfterRow)'
        PROVE  v \in DOMAIN rows /\ rows[v].last = open
    BY <1>1, <1>5, <2>3 DEF Named, In, AfterRow, state
  <2>4. ASSUME NEW v \in DOMAIN rows, rows[v].path \notin claimed'
        PROVE  NamesOpen(meta'[rows[v].path], v, rows[v].last)
    <3>1. rows[v].path \in Paths /\ NamesOpen(meta[rows[v].path], v, rows[v].last)
      BY <1>1, <1>10, <2>4 DEF Types, Named
    <3>2. CASE rows[v].path = Path(u)
      <4>1. v = u
        BY <1>10, <2>4, <3>2
      <4>2. rows[v].last = pools[u].last
        BY <1>1, <1>2, <4>1 DEF PoolsKnowRows
      <4> QED
        BY <1>9, <3>1, <3>2, <4>1, <4>2 DEF NamesOpen, StageOneMeta, Meta
    <3>3. CASE rows[v].path # Path(u)
      BY <1>9, <3>1, <3>3 DEF NamesOpen
    <3> QED
      BY <3>2, <3>3
  <2> QED
    BY <1>5, <1>7, <2>1, <2>2, <2>3, <2>4 DEF Named
<1>15. Rewritten'
  <2>1. ASSUME open # NoOpen, NEW v \in DOMAIN pools, In(v, InUse)'
        PROVE  meta'[Path(v)] = Meta(v, NoOpen, open)
    <3>1. v # u /\ In(v, InUse) /\ Holds(v)
      BY <1>5, <2>1 DEF In, InUse, Holds, state
    <3> QED
      BY <1>1, <1>2, <1>6, <1>9, <2>1, <3>1 DEF Rewritten
  <2> QED
    BY <1>5, <1>7, <2>1 DEF Rewritten
<1> QED
  BY <1>11, <1>12, <1>13, <1>14, <1>15 DEF Inv

\* The pool that holds a directory rewrites its metadata, with the present open.
LEMMA HolderWrites ==
  ASSUME Inv, NEW u, In(u, {"OpeningStage2", "Deleting"}), NEW state \in {"Open", "OpenStage1"},
         pools' = Becomes({u}, state),
         NEW m, NamesOpen(m, u, open), meta' = [meta EXCEPT ![Path(u)] = m],
         state = "Open" => m = Meta(u, NoOpen, open),
         UNCHANGED <<rows, opens, uuids, up, open, op, claimed>>
  PROVE  Inv'
<1>1. /\ Types /\ PoolsKnowRows /\ Exclusive /\ Named /\ Rewritten
  BY DEF Inv
<1>2. u \in DOMAIN pools /\ Holds(u) /\ In(u, AfterRow)
  BY DEF In, Holds, AfterRow
<1>3. open # NoOpen
  <2>1. In(u, States \ {"Closed", "OpeningStage1", "Open"})
    BY DEF In, States
  <2> QED
    BY <1>1, <1>2, <2>1 DEF Named
<1>4. u \in DOMAIN rows /\ rows[u].last = open /\ rows[u].path = Path(u)
  BY <1>1, <1>2, <1>3 DEF Named, PoolsKnowRows
<1>5. /\ DOMAIN pools' = DOMAIN pools
      /\ pools' \in [DOMAIN pools -> [path : Paths, last : Nat, state : States]]
      /\ \A v \in DOMAIN pools :
           /\ Path(v)' = Path(v)
           /\ pools'[v].last = pools[v].last
           /\ pools'[v].state = IF v \in {u} THEN state ELSE pools[v].state
  <2>1. state \in States
    BY DEF States
  <2> QED
    BY <1>1, <2>1, BecomesFacts
<1>6. \A v \in DOMAIN pools : Path(v) \in Paths /\ pools[v].state \in States
  BY <1>1 DEF Types, Path
<1>7. meta' = [p \in Paths |-> IF p = Path(u) THEN m ELSE meta[p]]
  BY <1>1 DEF Types
<1>8. \A v : Holds(v)' <=> Holds(v)
  BY <1>2, <1>5 DEF Holds, In
<1>8a. UNCHANGED <<rows, opens, uuids, up, open, op, claimed>>
  OBVIOUS
<1>9. Types'
  BY <1>1, <1>5, <1>7 DEF Types
<1>10. PoolsKnowRows'
  <2>1. /\ up' = up /\ op' = op /\ open' = open /\ rows' = rows /\ up
    BY <1>1, <1>2, <1>8a DEF PoolsKnowRows
  <2>2. \A v \in DOMAIN rows' \cap DOMAIN pools' :
          rows'[v].path = Path(v)' /\ (~Holds(v)' => rows'[v].last = pools'[v].last)
    BY <1>1, <1>5, <1>8, <2>1 DEF PoolsKnowRows
  <2>3. DOMAIN pools' = DOMAIN pools
    BY <1>5
  <2>4. up' /\ DOMAIN rows' \subseteq DOMAIN pools'
    BY <1>1, <2>1, <2>3 DEF PoolsKnowRows
  <2>5. op'.kind = "open" => op'.uuids \subseteq DOMAIN rows'
    BY <1>1, <2>1 DEF PoolsKnowRows
  <2>6. op'.kind = "add" => open' # NoOpen /\ op'.uuids \subseteq DOMAIN pools' \ DOMAIN rows'
    BY <1>1, <2>1, <2>3 DEF PoolsKnowRows
  <2> QED
    BY <2>2, <2>4, <2>5, <2>6 DEF PoolsKnowRows
<1>11. Exclusive'
  <2>1. claimed' = claimed /\ rows' = rows
    BY <1>8a
  <2>2. \A v, w \in DOMAIN pools' : Holds(v)' /\ Holds(w)' /\ Path(v)' = Path(w)' => v = w
    BY <1>1, <1>5, <1>8 DEF Exclusive
  <2>3. \A v \in DOMAIN pools', w \in DOMAIN rows' :
          Holds(v)' /\ rows'[w].path = Path(v)' => v = w \/ Path(v)' \in claimed'
    BY <1>1, <1>5, <1>8, <2>1 DEF Exclusive
  <2> QED
    BY <1>1, <2>1, <2>2, <2>3 DEF Exclusive
<1>12. Named'
  <2>1. ASSUME NEW v \in DOMAIN pools, Holds(v)'
        PROVE  NamesOpen(meta[Path(v)], v, open)'
    <3>1. CASE v = u
      BY <1>5, <1>6, <1>7, <2>1, <3>1 DEF NamesOpen
    <3>2. CASE v # u
      BY <1>1, <1>2, <1>3, <1>5, <1>6, <1>7, <1>8, <2>1, <3>2 DEF Named, Exclusive, NamesOpen
    <3> QED
      BY <3>1, <3>2
  <2>2. ASSUME NEW v \in DOMAIN pools, In(v, AfterRow)'
        PROVE  v \in DOMAIN rows /\ rows[v].last = open
    BY <1>1, <1>3, <1>4, <1>5, <2>2 DEF Named, In, AfterRow
  <2>3. ASSUME NEW v \in DOMAIN rows, rows[v].path \notin claimed
        PROVE  NamesOpen(meta'[rows[v].path], v, rows[v].last)
    <3>1. rows[v].path \in Paths /\ NamesOpen(meta[rows[v].path], v, rows[v].last)
      BY <1>1, <2>3 DEF Types, Named
    <3>2. rows[v].path = Path(u) => v = u
      BY <1>1, <1>2, <2>3 DEF Exclusive
    <3> QED
      BY <1>4, <1>7, <3>1, <3>2 DEF NamesOpen
  <2> QED
    BY <1>3, <1>5, <2>1, <2>2, <2>3 DEF Named
<1>13. Rewritten'
  <2>1. ASSUME NEW v \in DOMAIN pools, In(v, InUse)'
        PROVE  meta'[Path(v)] = Meta(v, NoOpen, open)
    <3>1. CASE v = u
      <4>1. state = "Open"
        BY <1>5, <2>1, <3>1 DEF In, InUse
      <4> QED
        BY <1>6, <1>7, <3>1, <4>1
    <3>2. CASE v # u
      <4>1. In(v, InUse) /\ Holds(v)
        BY <1>5, <2>1, <3>2 DEF In, InUse, Holds
      <4>2. Path(v) # Path(u)
        BY <1>1, <1>2, <3>2, <4>1 DEF Exclusive
      <4> QED
        BY <1>1, <1>3, <1>6, <1>7, <4>1, <4>2 DEF Rewritten
    <3> QED
      BY <3>1, <3>2
  <2> QED
    BY <1>5, <1>8a, <2>1 DEF Rewritten
<1> QED
  BY <1>9, <1>10, <1>11, <1>12, <1>13 DEF Inv

LEMMA StageTwoKeeps ==
  ASSUME Inv, NEW u, StageTwo(u)
  PROVE  Inv'
<1>1. NamesOpen(StageTwoMeta(u), u, open) /\ StageTwoMeta(u) = Meta(u, NoOpen, open)
  BY DEF NamesOpen, StageTwoMeta, Meta
<1>2. /\ In(u, {"OpeningStage2", "Deleting"}) /\ pools' = Becomes({u}, "Open")
      /\ meta' = [meta EXCEPT ![Path(u)] = StageTwoMeta(u)]
      /\ UNCHANGED <<rows, opens, uuids, up, open, op, claimed>>
  BY DEF StageTwo, In
<1> QED
  BY <1>1, <1>2, HolderWrites

LEMMA MarkDeletedKeeps ==
  ASSUME Inv, NEW u, MarkDeleted(u)
  PROVE  Inv'
<1>1. NamesOpen(Meta(u, open, NoOpen), u, open)
  BY DEF NamesOpen, Meta
<1>2. /\ In(u, {"OpeningStage2", "Deleting"}) /\ pools' = Becomes({u}, "OpenStage1")
      /\ meta' = [meta EXCEPT ![Path(u)] = Meta(u, open, NoOpen)]
      /\ UNCHANGED <<rows, opens, uuids, up, open, op, claimed>>
  BY DEF MarkDeleted, In
<1> QED
  BY <1>1, <1>2, HolderWrites

-----------------------------------------------------------------------------
\* The pools of a call that are in stage 1 when rows are written, and go on.
LEMMA CompletedFacts ==
  ASSUME Types, NEW us, pools' = Completed(us)
  PROVE  /\ DOMAIN pools' = DOMAIN pools
         /\ pools' \in [DOMAIN pools -> [path : Paths, last : Nat, state : States]]
         /\ \A u \in DOMAIN pools :
              /\ Path(u)' = Path(u)
              /\ pools'[u].last = pools[u].last
              /\ pools'[u].state = IF u \in us /\ pools[u].state = "OpenStage1"
                                   THEN "OpeningStage2" ELSE pools[u].state
<1> DEFINE moved == {u \in us : In(u, {"OpenStage1"})}
<1>1. pools' = Becomes(moved, "OpeningStage2")
  BY DEF Completed
<1>2. \A u \in DOMAIN pools : u \in moved <=> u \in us /\ pools[u].state = "OpenStage1"
  BY DEF In
<1> HIDE DEF moved
<1>3. "OpeningStage2" \in States
  BY DEF States
<1>4. /\ DOMAIN pools' = DOMAIN pools
      /\ pools' \in [DOMAIN pools -> [path : Paths, last : Nat, state : States]]
      /\ \A u \in DOMAIN pools :
           /\ Path(u)' = Path(u)
           /\ pools'[u].last = pools[u].last
           /\ pools'[u].state = IF u \in moved THEN "OpeningStage2" ELSE pools[u].state
  BY <1>1, <1>3, BecomesFacts
<1> QED
  BY <1>2, <1>4

\* Rows that name the present open, of directories that pools hold: those of us.
LEMMA RowsWritten ==
  ASSUME Inv, open # NoOpen, NEW us, \A u \in us : Holds(u), pools' = Completed(us),
         rows' = [u \in DOMAIN rows \cup us |->
                    IF u \in us THEN [path |-> Path(u), last |-> open] ELSE rows[u]],
         op' = Completing(us),
         UNCHANGED <<meta, opens, uuids, up, open, claimed>>
  PROVE  Inv'
<1>1. /\ Types /\ PoolsKnowRows /\ Exclusive /\ Named /\ Rewritten
  BY DEF Inv
<1>2. /\ DOMAIN pools' = DOMAIN pools
      /\ pools' \in [DOMAIN pools -> [path : Paths, last : Nat, state : States]]
      /\ \A u \in DOMAIN pools :
           /\ Path(u)' = Path(u)
           /\ pools'[u].last = pools[u].last
           /\ pools'[u].state = IF u \in us /\ pools[u].state = "OpenStage1"
                                THEN "OpeningStage2" ELSE pools[u].state
  BY <1>1, CompletedFacts
<1>3. us \subseteq DOMAIN pools
  BY DEF Holds
<1>4. \A u \in DOMAIN pools : Path(u) \in Paths /\ pools[u].state \in States
  BY <1>1 DEF Types, Path
<1>5. /\ DOMAIN rows' = DOMAIN rows \cup us
      /\ \A u \in us : rows'[u].path = Path(u) /\ rows'[u].last = open
      /\ \A u \in DOMAIN rows \ us : rows'[u] = rows[u]
  OBVIOUS
<1>6. \A u : Holds(u)' <=> Holds(u)
  BY <1>2 DEF Holds, In
<1>7. /\ op'.kind # "open" /\ op'.kind # "add"
      /\ up
  BY <1>1 DEF Completing, NoOp, Op, PoolsKnowRows
<1>8. \A u \in DOMAIN rows \cap us : rows[u].path = Path(u)
  BY <1>1, <1>3 DEF PoolsKnowRows
<1>9. Types'
  <2>1. rows' \in [DOMAIN rows' -> [path : Paths, last : Nat \ {NoOpen}]]
    BY <1>1, <1>3, <1>4 DEF Types
  <2>2. DOMAIN rows' \subseteq 1..uuids
    BY <1>1, <1>3, <1>5 DEF Types
  <2> QED
    BY <1>1, <1>2, <2>1, <2>2 DEF Types
<1>10. PoolsKnowRows'
  <2>1. DOMAIN rows' \subseteq DOMAIN pools'
    BY <1>1, <1>2, <1>3, <1>5, <1>7 DEF PoolsKnowRows
  <2>2. \A u \in DOMAIN rows' : rows'[u].path = Path(u)' /\ (~Holds(u)' => rows'[u].last = pools'[u].last)
    BY <1>1, <1>2, <1>5, <1>6, <2>1 DEF PoolsKnowRows
  <2> QED
    BY <1>7, <2>1, <2>2 DEF PoolsKnowRows
<1>11. Exclusive'
  <2>1. ASSUME NEW u \in DOMAIN pools', NEW v \in DOMAIN rows', Holds(u)', rows'[v].path = Path(u)'
        PROVE  u = v \/ Path(u)' \in claimed'
    <3>1. Holds(u) /\ Path(u)' = Path(u) /\ u \in DOMAIN pools
      BY <1>2, <1>6, <2>1
    <3>2. CASE v \in us
      BY <1>1, <1>3, <1>5, <2>1, <3>1, <3>2 DEF Exclusive
    <3>3. CASE v \notin us
      BY <1>1, <1>5, <2>1, <3>1, <3>3 DEF Exclusive
    <3> QED
      BY <3>2, <3>3
  <2>2. ASSUME NEW u \in DOMAIN rows', NEW v \in DOMAIN rows', rows'[u].path = rows'[v].path
        PROVE  u = v \/ rows'[u].path \in claimed'
    <3>0. \A w \in us : w \in DOMAIN pools' /\ Holds(w)' /\ rows'[w].path = Path(w)'
      BY <1>2, <1>3, <1>5, <1>6
    <3>1. CASE u \in us
      <4>1. Holds(u)' /\ u \in DOMAIN pools' /\ rows'[v].path = Path(u)' /\ rows'[u].path = Path(u)'
        BY <2>2, <3>0, <3>1
      <4> QED
        BY <2>1, <4>1
    <3>2. CASE v \in us
      <4>1. Holds(v)' /\ v \in DOMAIN pools' /\ rows'[u].path = Path(v)'
        BY <2>2, <3>0, <3>2
      <4> QED
        BY <2>1, <2>2, <4>1
    <3>3. CASE u \notin us /\ v \notin us
      BY <1>1, <1>5, <2>2, <3>3 DEF Exclusive
    <3> QED
      BY <3>1, <3>2, <3>3
  <2>3. \A u, v \in DOMAIN pools' : Holds(u)' /\ Holds(v)' /\ Path(u)' = Path(v)' => u = v
    BY <1>1, <1>2, <1>6 DEF Exclusive
  <2> QED
    BY <2>1, <2>2, <2>3 DEF Exclusive
<1>12. Named'
  <2>1. ASSUME NEW u \in DOMAIN pools, Holds(u)'
        PROVE  NamesOpen(meta[Path(u)], u, open)'
    BY <1>1, <1>2, <1>6, <2>1 DEF Named
  <2>2. ASSUME NEW u \in DOMAIN pools, In(u, AfterRow)'
        PROVE  u \in DOMAIN rows' /\ rows'[u].last = open
    <3>1. CASE u \in us
      BY <1>5, <3>1
    <3>2. CASE u \notin us
      <4>1. In(u, AfterRow)
        BY <1>2, <2>2, <3>2 DEF In
      <4> QED
        BY <1>1, <1>5, <3>2, <4>1 DEF Named
    <3> QED
      BY <3>1, <3>2
  <2>3. ASSUME NEW u \in DOMAIN rows', rows'[u].path \notin claimed
        PROVE  NamesOpen(meta[rows'[u].path], u, rows'[u].last)
    <3>1. CASE u \in us
      BY <1>1, <1>3, <1>5, <3>1 DEF Named
    <3>2. CASE u \notin us
      BY <1>1, <1>5, <2>3, <3>2 DEF Named
    <3> QED
      BY <3>1, <3>2
  <2> QED
    BY <1>2, <2>1, <2>2, <2>3 DEF Named
<1>13. Rewritten'
  <2>1. \A u : In(u, InUse)' => In(u, InUse)
    BY <1>2 DEF In, InUse
  <2> QED
    BY <1>1, <1>2, <2>1 DEF Rewritten
<1> QED
  BY <1>9, <1>10, <1>11, <1>12, <1>13 DEF Inv

LEMMA RecordOpenKeeps ==
  ASSUME Inv, RecordOpen
  PROVE  Inv'
<1>1. /\ Types /\ PoolsKnowRows /\ Exclusive /\ Named /\ Rewritten
  BY DEF Inv
<1>2. op.kind = "open" /\ op.uuids \subseteq DOMAIN rows /\ up /\ DOMAIN rows \subseteq DOMAIN pools
  BY <1>1 DEF RecordOpen, PoolsKnowRows, NoOp, Op
<1>3. UNCHANGED <<meta, opens, uuids, up, open, claimed>>
  BY DEF RecordOpen
<1>4. CASE open = NoOpen
  <2>1. pools' = Becomes({}, "Closed") /\ rows' = rows /\ op' = NoOp
    BY <1>1, <1>4, NothingBecomes DEF RecordOpen
  <2>2. "Closed" \in States /\ op'.kind = "none"
    BY <2>1 DEF States, NoOp, Op
  <2>3. meta' = [p \in Paths |-> meta'[p]] /\ \A p \in Paths : meta[p].kind = "meta" => meta'[p] = meta[p]
    BY <1>1, <1>3 DEF Types
  <2> QED
    BY <1>2, <1>3, <2>1, <2>2, <2>3, HoldersStay
<1>5. CASE open # NoOpen
  <2>1. \A u \in op.uuids : Holds(u)
    BY <1>2 DEF RecordOpen, InStageOne, Holds
  <2>2. /\ pools' = Completed(op.uuids) /\ op' = Completing(op.uuids)
        /\ rows' = [u \in DOMAIN rows |->
                      IF u \in op.uuids THEN [rows[u] EXCEPT !.last = open] ELSE rows[u]]
    BY <1>5 DEF RecordOpen
  <2>3. \A u \in op.uuids : [rows[u] EXCEPT !.last = open] = [path |-> Path(u), last |-> open]
    BY <1>1, <1>2 DEF Types, PoolsKnowRows
  <2>4. DOMAIN rows = DOMAIN rows \cup op.uuids
    BY <1>2
  <2>5. rows' = [u \in DOMAIN rows \cup op.uuids |->
                   IF u \in op.uuids THEN [path |-> Path(u), last |-> open] ELSE rows[u]]
    BY <2>2, <2>3, <2>4
  <2> QED
    BY <1>3, <1>5, <2>1, <2>2, <2>5, RowsWritten
<1> QED
  BY <1>4, <1>5

LEMMA InsertRowKeeps ==
  ASSUME Inv, InsertRow
  PROVE  Inv'
<1>1. open # NoOpen /\ \A u \in op.uuids : Holds(u)
  BY DEF Inv, PoolsKnowRows, InsertRow, InStageOne, Holds
<1>2. /\ pools' = Completed(op.uuids) /\ op' = Completing(op.uuids)
      /\ UNCHANGED <<meta, opens, uuids, up, open, claimed>>
  BY DEF InsertRow
<1>3. rows' = [u \in DOMAIN rows \cup op.uuids |->
                 IF u \in op.uuids THEN [path |-> Path(u), last |-> open] ELSE rows[u]]
  BY DEF InsertRow, NewRow
<1> QED
  BY <1>1, <1>2, <1>3, RowsWritten

-----------------------------------------------------------------------------
\* A new pool has no row yet, and does not hold its directory.
LEMMA BeginAddKeeps ==
  ASSUME Inv, NEW p \in Paths, BeginAdd(p)
  PROVE  Inv'
<1>1. /\ Types /\ PoolsKnowRows /\ Exclusive /\ Named /\ Rewritten
  BY DEF Inv
<1> DEFINE new == uuids + 1
<1>2. /\ up /\ open # NoOpen /\ uuids' = new /\ op' = Op("add", {new})
      /\ pools' = [u \in DOMAIN pools \cup {new} |->
                     IF u = new THEN Pool(p, NoOpen, "OpeningStage1") ELSE pools[u]]
      /\ UNCHANGED <<rows, meta, opens, up, open, claimed>>
  BY DEF BeginAdd
<1>3. new \in Nat /\ new \notin 1..uuids /\ 1..uuids \subseteq 1..new /\ new \in 1..new
  BY <1>1 DEF Types
<1> HIDE DEF new
<1>4. new \notin DOMAIN pools /\ new \notin DOMAIN rows
  BY <1>1, <1>3 DEF Types
<1>5. /\ DOMAIN pools' = DOMAIN pools \cup {new} /\ pools'[new] = Pool(p, NoOpen, "OpeningStage1")
      /\ \A u \in DOMAIN pools : pools'[u] = pools[u] /\ Path(u)' = Path(u)
  BY <1>2, <1>4 DEF Path
<1>6. \A u : Holds(u)' <=> Holds(u)
  BY <1>4, <1>5 DEF Holds, In, Pool
<1>7. Types'
  <2>1. pools' \in [DOMAIN pools' -> [path : Paths, last : Nat, state : States]]
    BY <1>1, <1>2 DEF Types, Pool, States, NoOpen
  <2>2. /\ DOMAIN rows' \subseteq 1..uuids' /\ DOMAIN pools' \subseteq 1..uuids'
    BY <1>1, <1>2, <1>3, <1>5 DEF Types
  <2> QED
    BY <1>1, <1>2, <1>3, <2>1, <2>2 DEF Types
<1>8. PoolsKnowRows'
  <2>1. op'.kind = "add" /\ op'.uuids \subseteq DOMAIN pools' \ DOMAIN rows'
    BY <1>2, <1>4, <1>5 DEF Op
  <2>2. up' /\ open' # NoOpen /\ DOMAIN rows' \subseteq DOMAIN pools'
    BY <1>1, <1>2, <1>5 DEF PoolsKnowRows
  <2>3. \A u \in DOMAIN rows' \cap DOMAIN pools' :
          rows'[u].path = Path(u)' /\ (~Holds(u)' => rows'[u].last = pools'[u].last)
    BY <1>1, <1>2, <1>4, <1>5, <1>6 DEF PoolsKnowRows
  <2> QED
    BY <2>1, <2>2, <2>3 DEF PoolsKnowRows
<1>9. Exclusive'
  <2>1. \A u : Holds(u) => u \in DOMAIN pools
    BY DEF Holds
  <2>2. rows' = rows /\ claimed' = claimed
    BY <1>2
  <2> QED
    BY <1>1, <1>5, <1>6, <2>1, <2>2 DEF Exclusive
<1>10. Named'
  <2>1. \A u : In(u, AfterRow)' => In(u, AfterRow) /\ u \in DOMAIN pools
    BY <1>4, <1>5 DEF In, Pool, AfterRow
  <2>2. \A u : Holds(u) => u \in DOMAIN pools
    BY DEF Holds
  <2>3. rows' = rows /\ claimed' = claimed /\ meta' = meta /\ open' = open
    BY <1>2
  <2> QED
    BY <1>1, <1>2, <1>5, <1>6, <2>1, <2>2, <2>3 DEF Named, NamesOpen
<1>11. Rewritten'
  <2>1. \A u : In(u, InUse)' => In(u, InUse) /\ u \in DOMAIN pools
    BY <1>4, <1>5 DEF In, Pool, InUse
  <2>2. meta' = meta /\ open' = open
    BY <1>2
  <2> QED
    BY <1>1, <1>5, <2>1, <2>2 DEF Rewritten
<1> QED
  BY <1>7, <1>8, <1>9, <1>10, <1>11 DEF Inv

\* A call that fails to open drops the pool that it was adding, which has no row.
LEMMA OpenFailsKeeps ==
  ASSUME Inv, OpenFails
  PROVE  Inv'
<1>1. /\ Types /\ PoolsKnowRows /\ Exclusive /\ Named /\ Rewritten
  BY DEF Inv
<1>2. /\ op.kind \in {"open", "add"} /\ op' = NoOp
      /\ UNCHANGED <<rows, meta, opens, uuids, up, open, claimed>>
  BY DEF OpenFails, stored
<1>3. up
  BY <1>1, <1>2 DEF PoolsKnowRows, NoOp, Op
<1> DEFINE kept == IF op.kind = "add" THEN DOMAIN pools \ op.uuids ELSE DOMAIN pools
<1>4. /\ kept \subseteq DOMAIN pools /\ DOMAIN rows \subseteq kept
      /\ pools' = [u \in kept |-> pools[u]]
  BY <1>1, <1>2, <1>3 DEF PoolsKnowRows, OpenFails, Restrict
<1> HIDE DEF kept
<1>5. /\ DOMAIN pools' = kept
      /\ \A u \in kept : pools'[u] = pools[u] /\ Path(u)' = Path(u)
  BY <1>4 DEF Path
<1>6. /\ \A u : Holds(u)' <=> u \in kept /\ Holds(u)
      /\ \A u : In(u, AfterRow)' => In(u, AfterRow)
      /\ \A u : In(u, States \ {"Closed", "OpeningStage1", "Open"})'
                  => In(u, States \ {"Closed", "OpeningStage1", "Open"})
  BY <1>4, <1>5 DEF Holds, In
<1>7. rows' = rows /\ claimed' = claimed /\ meta' = meta /\ open' = open /\ up' = up
  BY <1>2
<1>8. Types'
  <2>1. pools' \in [DOMAIN pools' -> [path : Paths, last : Nat, state : States]]
    BY <1>1, <1>4, <1>5 DEF Types
  <2> QED
    BY <1>1, <1>2, <1>4, <1>5, <2>1 DEF Types
<1>9. PoolsKnowRows'
  <2>1. op'.kind = "none"
    BY <1>2 DEF NoOp, Op
  <2> QED
    BY <1>1, <1>3, <1>4, <1>5, <1>6, <1>7, <2>1 DEF PoolsKnowRows
<1>10. Exclusive'
  BY <1>1, <1>4, <1>5, <1>6, <1>7 DEF Exclusive
<1>11. Named'
  <2>1. \A u \in DOMAIN pools' : In(u, States \ {"Closed", "OpeningStage1", "Open"})' => open' # NoOpen
    BY <1>1, <1>4, <1>5, <1>6, <1>7 DEF Named
  <2>2. open' # NoOpen =>
          \A u \in DOMAIN pools' : /\ Holds(u)' => NamesOpen(meta[Path(u)], u, open)'
                                   /\ In(u, AfterRow)' => u \in DOMAIN rows' /\ rows'[u].last = open'
    BY <1>1, <1>4, <1>5, <1>6, <1>7 DEF Named, NamesOpen
  <2> QED
    BY <1>1, <1>7, <2>1, <2>2 DEF Named, NamesOpen
<1>12. Rewritten'
  <2>1. \A u : In(u, InUse)' => In(u, InUse)
    BY <1>4, <1>5 DEF In
  <2> QED
    BY <1>1, <1>4, <1>5, <1>7, <2>1 DEF Rewritten
<1> QED
  BY <1>8, <1>9, <1>10, <1>11, <1>12 DEF Inv

\* A row that is removed leaves its pool, in stage 1 or deleting.
LEMMA RemoveRowKeeps ==
  ASSUME Inv, RemoveRow
  PROVE  Inv'
<1>1. /\ Types /\ PoolsKnowRows /\ Exclusive /\ Named /\ Rewritten
  BY DEF Inv
<1> DEFINE removed == {u \in op.uuids \ streams : In(u, {"OpenStage1"})}
<1>2. /\ op.kind = "delete" /\ op' = NoOp
      /\ rows' = [u \in DOMAIN rows \ removed |-> rows[u]]
      /\ UNCHANGED <<meta, pools, opens, uuids, up, open, claimed>>
  BY DEF RemoveRow, Restrict
<1>3. \A u \in removed : ~In(u, AfterRow)
  BY DEF In, AfterRow
<1> HIDE DEF removed
<1>4. /\ DOMAIN rows' = DOMAIN rows \ removed
      /\ \A u \in DOMAIN rows' : rows'[u] = rows[u] /\ u \in DOMAIN rows
  BY <1>2
<1>5. claimed' = claimed /\ meta' = meta /\ open' = open /\ up' = up /\ pools' = pools
  BY <1>2
<1>6. \A u : /\ Holds(u)' <=> Holds(u)
             /\ Path(u)' = Path(u)
             /\ In(u, AfterRow)' <=> In(u, AfterRow)
             /\ In(u, States \ {"Closed", "OpeningStage1", "Open"})'
                  <=> In(u, States \ {"Closed", "OpeningStage1", "Open"})
  BY <1>5 DEF Holds, In, Path
<1>7. Types'
  <2>1. rows' \in [DOMAIN rows' -> [path : Paths, last : Nat \ {NoOpen}]]
    BY <1>1, <1>2, <1>4 DEF Types
  <2> QED
    BY <1>1, <1>2, <1>4, <2>1 DEF Types
<1>8. PoolsKnowRows'
  <2>1. op'.kind = "none" /\ up
    BY <1>1, <1>2 DEF NoOp, Op, PoolsKnowRows
  <2> QED
    BY <1>1, <1>4, <1>5, <1>6, <2>1 DEF PoolsKnowRows
<1>9. Exclusive'
  BY <1>1, <1>4, <1>5, <1>6 DEF Exclusive
<1>10. Named'
  <2>1. \A u \in DOMAIN pools' : In(u, States \ {"Closed", "OpeningStage1", "Open"})' => open' # NoOpen
    BY <1>1, <1>5, <1>6 DEF Named
  <2>2. ASSUME open # NoOpen, NEW u \in DOMAIN pools
        PROVE  /\ Holds(u)' => NamesOpen(meta'[Path(u)'], u, open)
               /\ In(u, AfterRow)' => u \in DOMAIN rows' /\ rows'[u].last = open
    <3>1. u \in removed => ~In(u, AfterRow)
      BY <1>3
    <3> QED
      BY <1>1, <1>4, <1>5, <1>6, <2>2, <3>1 DEF Named
  <2>3. \A u \in DOMAIN rows' :
          rows'[u].path \notin claimed => NamesOpen(meta'[rows'[u].path], u, rows'[u].last)
    BY <1>1, <1>4, <1>5 DEF Named
  <2> QED
    BY <1>5, <2>1, <2>2, <2>3 DEF Named
<1>11. Rewritten'
  <2>1. \A u : In(u, InUse)' <=> In(u, InUse)
    BY <1>5 DEF In
  <2> QED
    BY <1>1, <1>5, <1>6, <2>1 DEF Rewritten
<1> QED
  BY <1>7, <1>8, <1>9, <1>10, <1>11 DEF Inv

-----------------------------------------------------------------------------
LEMMA InvStutter ==
  ASSUME Inv, UNCHANGED <<rows, meta, opens, uuids, up, open, pools, op, claimed>>
  PROVE  Inv'
<1>1. /\ Types /\ PoolsKnowRows /\ Exclusive /\ Named /\ Rewritten
  BY DEF Inv
<1>2. \A u : /\ Holds(u)' <=> Holds(u)
             /\ Path(u)' = Path(u)
             /\ In(u, AfterRow)' <=> In(u, AfterRow)
             /\ In(u, States \ {"Closed", "OpeningStage1", "Open"})'
                  <=> In(u, States \ {"Closed", "OpeningStage1", "Open"})
  BY DEF Holds, In, Path
<1>3. Types'
  BY <1>1 DEF Types
<1>4. PoolsKnowRows'
  BY <1>1, <1>2 DEF PoolsKnowRows
<1>5. Exclusive'
  BY <1>1, <1>2 DEF Exclusive
<1>6. Named'
  BY <1>1, <1>2 DEF Named, NamesOpen
<1>7. Rewritten'
  <2>1. \A u : In(u, InUse)' <=> In(u, InUse)
    BY DEF In
  <2> QED
    BY <1>1, <1>2, <2>1 DEF Rewritten
<1> QED
  BY <1>3, <1>4, <1>5, <1>6, <1>7 DEF Inv

\* The steps that change states on one side of the lock only.
LEMMA QuietStepsKeep ==
  ASSUME Inv, NEW u, NEW us,
         \/ StageOneRefused(u) \/ StageOneFails(u) \/ StageTwoFails(u)
         \/ MarkDeletedFails(u) \/ BeginDelete(u) \/ BeginOpen(us)
  PROVE  Inv'
<1>1. /\ Types /\ PoolsKnowRows /\ Named
  BY DEF Inv
<1>2. /\ UNCHANGED <<rows, opens, uuids, up, open, claimed>>
  BY DEF StageOneRefused, StageOneFails, StageTwoFails, MarkDeletedFails, BeginDelete, BeginOpen, stored
<1>3. ASSUME NEW v, v \in DOMAIN pools  PROVE up
  BY <1>1, <1>3 DEF PoolsKnowRows
<1>4. ASSUME meta' = meta
      PROVE  /\ meta' = [p \in Paths |-> meta'[p]]
             /\ \A p \in Paths : meta[p].kind = "meta" => meta'[p] = meta[p]
  BY <1>1, <1>4 DEF Types
<1>5. ASSUME op' = op
      PROVE  /\ op'.kind = "open" => op'.uuids \subseteq DOMAIN rows
             /\ op'.kind = "add" => op' = op
  BY <1>1, <1>5 DEF PoolsKnowRows
<1>6. \A s \in AfterRow \cup {"Closed", "OpeningStage1"} : s \in States
  BY DEF AfterRow, States
<1>7. CASE StageOneRefused(u) \/ StageOneFails(u)
  <2>1. u \in DOMAIN pools /\ ~Holds(u) /\ pools' = Becomes({u}, "Closed") /\ op' = op
    BY <1>7 DEF StageOneRefused, StageOneFails, Openable, In, Holds
  <2>2. /\ meta' = [p \in Paths |-> meta'[p]]
        /\ \A p \in Paths : meta[p].kind = "meta" => meta'[p] = meta[p]
    <3>1. CASE StageOneRefused(u)
      BY <1>4, <3>1 DEF StageOneRefused, stored
    <3>2. CASE StageOneFails(u)
      <4>1. PICK torn : meta' = Torn(torn)
        BY <3>2 DEF StageOneFails
      <4> QED
        BY <1>1, <4>1, TornKeeps
    <3> QED
      BY <1>7, <3>1, <3>2
  <2>3. "Closed" \in States /\ up
    BY <1>3, <1>6, <2>1
  <2> QED
    BY <1>2, <1>5, <2>1, <2>2, <2>3, HoldersStay
<1>8. CASE StageTwoFails(u) \/ MarkDeletedFails(u) \/ BeginDelete(u)
  <2> DEFINE state == IF StageTwoFails(u) THEN "Stuck" ELSE IF MarkDeletedFails(u) THEN "Open" ELSE "Deleting"
  <2>1. pools' = Becomes({u}, state) /\ meta' = meta
    BY <1>8 DEF StageTwoFails, MarkDeletedFails, BeginDelete, stored
  <2>2. In(u, AfterRow) /\ u \in DOMAIN pools
    BY <1>8 DEF StageTwoFails, MarkDeletedFails, BeginDelete, In, AfterRow
  <2>3. state = "Open" \/ open # NoOpen
    <3>1. CASE StageTwoFails(u)
      <4>1. In(u, States \ {"Closed", "OpeningStage1", "Open"})
        BY <3>1 DEF StageTwoFails, In, States
      <4> QED
        BY <1>1, <2>2, <4>1 DEF Named
    <3> QED
      BY <1>8, <3>1 DEF BeginDelete
  <2>4. state \in AfterRow
    BY DEF AfterRow
  <2>4a. state \in InUse => In(u, InUse)
    BY <1>8 DEF StageTwoFails, MarkDeletedFails, BeginDelete, In, InUse
  <2>5. op'.kind = "open" => op'.uuids \subseteq DOMAIN rows
    BY <1>1, <1>8 DEF PoolsKnowRows, StageTwoFails, MarkDeletedFails, BeginDelete, Op
  <2>6. op'.kind = "add" => op' = op
    BY <1>8 DEF StageTwoFails, MarkDeletedFails, BeginDelete, Op
  <2> HIDE DEF state
  <2>7. state \in States /\ up
    BY <1>3, <1>6, <2>2, <2>4
  <2> QED
    BY <1>2, <1>4, <2>1, <2>2, <2>3, <2>4, <2>4a, <2>5, <2>6, <2>7, HoldersStay
<1>9. CASE BeginOpen(us)
  <2> DEFINE opening == {v \in us : ~In(v, {"Open"})}
             start == {v \in opening : In(v, {"Closed"})}
  <2>1. /\ up /\ us \subseteq DOMAIN rows /\ meta' = meta
        /\ pools' = Becomes(start, "OpeningStage1") /\ op' = Op("open", opening)
    BY <1>9 DEF BeginOpen, stored
  <2>2. opening \subseteq us /\ \A v \in start : ~Holds(v)
    BY DEF Holds, In
  <2> HIDE DEF opening, start
  <2>3. op'.kind = "open" /\ op'.uuids \subseteq DOMAIN rows
    BY <2>1, <2>2 DEF Op
  <2>4. "OpeningStage1" \in States
    BY <1>6
  <2> QED
    BY <1>2, <1>4, <2>1, <2>2, <2>3, <2>4, HoldersStay
<1> QED
  BY <1>7, <1>8, <1>9

\* A call that ends and leaves everything else.
LEMMA EndOfCallKeeps ==
  ASSUME Inv, SqlFails \/ EndComplete
  PROVE  Inv'
<1>1. /\ Types /\ PoolsKnowRows
  BY DEF Inv
<1>2. op' = NoOp /\ op # NoOp /\ UNCHANGED <<rows, meta, opens, uuids, up, open, pools, claimed>>
  BY DEF SqlFails, EndComplete, NoOp, Op, stored
<1>3. up /\ op'.kind = "none"
  BY <1>1, <1>2 DEF PoolsKnowRows, NoOp, Op
<1>4. pools' = Becomes({}, "Closed") /\ "Closed" \in States
  BY <1>1, <1>2, NothingBecomes DEF States
<1>5. /\ meta' = [p \in Paths |-> meta'[p]]
      /\ \A p \in Paths : meta[p].kind = "meta" => meta'[p] = meta[p]
  BY <1>1, <1>2 DEF Types
<1> QED
  BY <1>2, <1>3, <1>4, <1>5, HoldersStay

LEMMA InvNext ==
  ASSUME Inv, [Next]_vars
  PROVE  Inv'
<1>1. CASE \E forWriting \in BOOLEAN : Start(forWriting)
  BY <1>1, StartKeeps
<1>2. CASE Stop
  BY <1>2, StopKeeps
<1>3. CASE OpenCall
  BY <1>3, QuietStepsKeep, OpenFailsKeeps, RecordOpenKeeps, EndOfCallKeeps DEF OpenCall
<1>4. CASE AddCall
  BY <1>4, InsertRowKeeps, BeginAddKeeps DEF AddCall
<1>5. CASE DeleteCall
  BY <1>5, RemoveRowKeeps, QuietStepsKeep DEF DeleteCall
<1>6. ASSUME NEW u \in Uuids, Worker(u)  PROVE Inv'
  BY <1>6, QuietStepsKeep, StageOneKeeps, StageTwoKeeps, MarkDeletedKeeps DEF Worker
<1>7. ASSUME NEW u \in Uuids, ChangeStream(u) \/ ChangeFiles(u)  PROVE Inv'
  BY <1>7, InvStutter DEF ChangeStream, ChangeFiles, stored, memory
<1>8. CASE UNCHANGED vars
  BY <1>8, InvStutter DEF vars, stored, memory
<1> QED
  BY <1>1, <1>2, <1>3, <1>4, <1>5, <1>6, <1>7, <1>8 DEF Next

-----------------------------------------------------------------------------
\* In every reachable state metadata, rows and pools agree as Inv says: the two
\* writes of an open, an addition or a deletion never leave them further apart.
THEOREM InvHolds == Spec => []Inv
<1>1. Init => Inv
  BY InvInit
<1>2. Inv /\ [Next]_vars => Inv'
  BY InvNext
<1> QED
  BY <1>1, <1>2, PTL DEF Spec

\* Wherever the process ends, the next start accepts the directory of each row
\* whose path was not added again: db.rs's open, add and delete may be cut off
\* between any two of their writes.
THEOREM NothingLeftUnopenable == Spec => []CrashLeavesOpenable
<1>1. Inv => CrashLeavesOpenable
  <2> SUFFICES ASSUME Inv, NEW u \in DOMAIN rows, rows[u].path \notin claimed
               PROVE  OpensAgain(u)
    BY DEF CrashLeavesOpenable
  <2>1. rows[u].last # NoOpen
    BY DEF Inv, Types
  <2>2. NamesOpen(meta[rows[u].path], u, rows[u].last)
    BY DEF Inv, Named
  <2> QED
    BY <2>1, <2>2 DEF OpensAgain, CheckConsistent
<1> QED
  BY <1>1, InvHolds, PTL

\* A pool that accepts recordings has the open of this process in its row and,
\* as the one in progress, in its metadata, and alone holds its directory.
THEOREM WritersAreKnown == Spec => []WritersAreRecorded
<1>1. Inv => WritersAreRecorded
  <2> SUFFICES ASSUME Inv, open # NoOpen, NEW u \in DOMAIN pools, In(u, {"Open"})
               PROVE  /\ u \in DOMAIN rows /\ rows[u].last = open
                      /\ meta[Path(u)] = Meta(u, NoOpen, open)
                      /\ \A v \in DOMAIN pools \ {u} :
                           Path(v) = Path(u) => In(v, {"Closed", "OpeningStage1"})
    BY DEF WritersAreRecorded
  <2>1. Holds(u) /\ In(u, AfterRow) /\ In(u, InUse)
    BY DEF Holds, In, AfterRow, InUse
  <2>2. \A v \in DOMAIN pools \ {u} : Path(v) = Path(u) => ~Holds(v)
    BY <2>1 DEF Inv, Exclusive
  <2> QED
    BY <2>1, <2>2 DEF Inv, Named, Rewritten, Holds
<1> QED
  BY <1>1, InvHolds, PTL
=============================================================================

------------------------------ MODULE Signals -------------------------------
(***************************************************************************)
(* Enum-valued time series (server/db/signal.rs): a map of points in time, *)
(* edited by updates of ranges, written to the table signal_change by the  *)
(* next flush, pruned by garbage collection, and loaded again at start-up. *)
(*                                                                         *)
(* Every operation runs under the database lock and is one step.  A point  *)
(* keeps the state before it and its changes; both are functions on the    *)
(* signals they name, and a signal that is not named is in state 0.        *)
(***************************************************************************)
EXTENDS Days, FiniteSets

CONSTANTS
    Signals,            \* ids of signals
    ValidStates,        \* signal -> its type's states, 0 (unknown) included
    MaxTime,            \* bounds the times of updates
    MaxSignalChanges,   \* GlobalConfig::max_signal_changes; 0 stands for none
    MaxUpdates          \* bounds the updates of a behaviour

ASSUME SignalsAssumption ==
    /\ Signals \subseteq Nat
    /\ \A s \in Signals : ValidStates[s] \subseteq Nat /\ 0 \in ValidStates[s]
    /\ MaxTime \in Nat /\ MaxSignalChanges \in Nat /\ MaxUpdates \in Nat

VARIABLES
    points,     \* points_by_time: time -> [prev, changes]
    dirty,      \* dirty_by_time
    rows,       \* table signal_change: time -> changes
    index,      \* Signal::days: signal -> [days, ok]
    panicked,   \* an update panicked with the database lock held
    updates,    \* number of updates
    history,    \* what was set last at each instant, for what follows
    durable,    \* history as of the last flush
    exact       \* only updates for which the days are adjusted exactly

vars == <<points, dirty, rows, index, panicked, updates, history, durable, exact>>

Times == 0..MaxTime
States == UNION {ValidStates[s] : s \in Signals}

\* Maps from some of the signals to states.
Maps == UNION {[ss -> States] : ss \in SUBSET Signals}
NoSignals == [s \in {} |-> 0]
Get(map, s) == IF s \in DOMAIN map THEN map[s] ELSE 0

\* BTreeMap::insert, of all of f and of one entry.
Over(f, g) == [x \in DOMAIN f \cup DOMAIN g |-> IF x \in DOMAIN f THEN f[x] ELSE g[x]]
With(map, x, value) == [y \in DOMAIN map \cup {x} |-> IF y = x THEN value ELSE map[y]]

\* PointDataIterator::update_map
UpdateMap(map, changes) ==
    LET kept == {s \in DOMAIN map \cup DOMAIN changes : s \in DOMAIN changes => changes[s] # 0}
    IN  Restrict(Over(changes, map), kept)

After(p) == UpdateMap(p.prev, p.changes)

Before(ps, t) == {u \in DOMAIN ps : u < t}
StateBefore(ps, t) == IF Before(ps, t) = {} THEN NoSignals ELSE After(ps[Max(Before(ps, t))])

-----------------------------------------------------------------------------
(***************************************************************************)
(* update_signals: the end of the range, its start, then all between.      *)
(***************************************************************************)

\* update_signals_end_maps: what has to be undone at the end of the range, and
\* the state just before it.  A signal that `prev` does not name is written to
\* both, even if it is set to 0.
Undone(prev, new) ==
    [s \in {s \in DOMAIN new : s \in DOMAIN prev => new[s] = 0 \/ new[s] # prev[s]} |-> Get(prev, s)]

EndPrev(prev, new) ==
    Restrict(Over(new, prev), {s \in DOMAIN new \cup DOMAIN prev :
                              ~(s \in DOMAIN new /\ s \in DOMAIN prev /\ new[s] = 0)})

PrevAtEnd(ps, end) == IF end \in DOMAIN ps THEN ps[end].prev ELSE StateBefore(ps, end)

\* Mutation of UpdateEnd: going back wins over the changes the end point has.
UpdateEndUndoes(ps, end, new) ==
    LET prev == PrevAtEnd(ps, end)
        undone == Undone(prev, new)
        existing == IF end \in DOMAIN ps THEN ps[end].changes ELSE NoSignals
    IN  IF undone = NoSignals THEN ps
        ELSE With(ps, end, [prev |-> EndPrev(prev, new), changes |-> Over(undone, existing)])

\* Changes the end point has already win over going back to what was before.
UpdateEnd(ps, end, new) ==
    LET prev == PrevAtEnd(ps, end)
        undone == Undone(prev, new)
        existing == IF end \in DOMAIN ps THEN ps[end].changes ELSE NoSignals
    IN  IF undone = NoSignals THEN ps
        ELSE With(ps, end, [prev |-> EndPrev(prev, new), changes |-> Over(existing, undone)])

\* At an existing start point a signal it does not name yet always gets a change,
\* signal 0 none.
ChangesAtStart(p, new) ==
    LET added == DOMAIN new \ (DOMAIN p.changes \cup {0})
        dropped == {s \in DOMAIN new \cap DOMAIN p.changes :
                       new[s] # p.changes[s] /\ new[s] = Get(p.prev, s)}
    IN  Restrict(Over(new, p.changes), (added \cup DOMAIN p.changes) \ dropped)

UpdateStart(ps, start, new) ==
    IF start \in DOMAIN ps
    THEN With(ps, start, [prev |-> ps[start].prev, changes |-> ChangesAtStart(ps[start], new)])
    ELSE LET prev == StateBefore(ps, start)
             changed == {s \in DOMAIN new : new[s] # Get(prev, s)}
         IN  IF changed = {} THEN ps
             ELSE With(ps, start, [prev |-> prev, changes |-> Restrict(new, changed)])

Inside(ps, start, end) == {t \in DOMAIN ps : start < t /\ t < end}

Others(changes, new) == Restrict(changes, DOMAIN changes \ DOMAIN new)

UpdateMiddle(ps, start, end, new) ==
    LET emptied == {t \in Inside(ps, start, end) : Others(ps[t].changes, new) = NoSignals}
        updated == [t \in DOMAIN ps |->
                       IF t \notin Inside(ps, start, end) THEN ps[t]
                       ELSE [prev |-> UpdateMap(ps[t].prev, new), changes |-> Others(ps[t].changes, new)]]
    IN  Restrict(updated, DOMAIN ps \ emptied)

UpdatePoints(ps, start, end, new) ==
    UpdateMiddle(UpdateStart(UpdateEnd(ps, end, new), start, new), start, end, new)

\* The times the three steps mark as dirty.
Dirtied(ps, start, end, new) ==
    LET atEnd == UpdateEnd(ps, end, new)
        atStart == UpdateStart(atEnd, start, new)
    IN  {t \in {end} : Undone(PrevAtEnd(ps, end), new) # NoSignals}
        \cup {t \in {start} : IF t \in DOMAIN atEnd
                              THEN \E s \in DOMAIN new : IF s \in DOMAIN atEnd[t].changes
                                                      THEN atEnd[t].changes[s] # new[s] ELSE s # 0
                              ELSE t \in DOMAIN atStart}
        \cup {t \in Inside(atStart, start, end) : DOMAIN atStart[t].changes \cap DOMAIN new # {}}

-----------------------------------------------------------------------------
(***************************************************************************)
(* The days index of signal s.  The end takes the last stretch of the      *)
(* range.  The middle takes the others, but moves to the next stretch      *)
(* within its loop over signals: after the first signal the stretch is     *)
(* empty, so the others are not adjusted.                                  *)
(***************************************************************************)
\* Mutation of LastStretch: the whole range.
WholeStretch(ps, start, end, new, s) == Piece(start, end, Get(PrevAtEnd(ps, end), s), new[s])

LastStretch(ps, start, end, new, s) ==
    LET from == Max({t \in DOMAIN ps : start <= t /\ t < end} \cup {start})
    IN  Piece(from, end, Get(PrevAtEnd(ps, end), s), new[s])

Stretch(ps, start, t, new, s) ==
    LET from == Max({u \in DOMAIN ps : start < u /\ u < t} \cup {start})
    IN  Piece(from, t, Get(ps[t].prev, s), new[s])

AdjustedInMiddle(new) == {Min(DOMAIN new)}

UpdatedIndex(i, ps, start, end, new, s) ==
    LET moved == UpdateStart(UpdateEnd(ps, end, new), start, new)
        ends == IF s \in AdjustedInMiddle(new) THEN Inside(moved, start, end) ELSE {}
    IN  AdjustInOrder(AdjustSignal(i, LastStretch(ps, start, end, new, s)),
                      ends, LAMBDA t : Stretch(moved, start, t, new, s))

-----------------------------------------------------------------------------
(***************************************************************************)
(* gc: removes the oldest points when there are more than configured, and  *)
(* lets the first that remains start from nothing.  gc_days sets what lies *)
(* between removed points to the state after it rather than to unknown,    *)
(* and only for the signals that change there.                             *)
(***************************************************************************)
Removed(ps) ==
    IF MaxSignalChanges = 0 THEN {}
    ELSE {t \in DOMAIN ps : Cardinality(Before(ps, t)) < Cardinality(DOMAIN ps) - MaxSignalChanges}

\* The code goes on when there are exactly as many points as configured: it
\* then removes none and rewrites the first, which starts from nothing already.
Collects(ps) == MaxSignalChanges # 0 /\ Cardinality(DOMAIN ps) >= MaxSignalChanges

Collected(ps) ==
    LET left == DOMAIN ps \ Removed(ps)
        first == Min(left)
    IN  IF ~Collects(ps) \/ left = {} THEN Restrict(ps, left)
        ELSE [Restrict(ps, left) EXCEPT ![first] = [prev |-> NoSignals, changes |-> After(ps[first])]]

\* Mutation of CollectedTimes: the first point that remains is not written again.
RemovedTimes(ps) == Removed(ps)

CollectedTimes(ps) ==
    IF ~Collects(ps) THEN {}
    ELSE Removed(ps) \cup {t \in DOMAIN ps \ Removed(ps) : \A u \in DOMAIN ps \ Removed(ps) : t <= u}

CollectedIndex(i, ps, s) ==
    LET ends == {t \in DOMAIN ps : /\ Before(ps, t) # {} /\ Before(ps, t) \subseteq Removed(ps)
                                   /\ s \in DOMAIN ps[t].changes}
    IN  AdjustInOrder(i, ends, LAMBDA t :
            Piece(Max(Before(ps, t)), t, Get(StateBefore(ps, t), s), ps[t].changes[s]))

-----------------------------------------------------------------------------
(***************************************************************************)
(* fill_points: memory as loaded from the rows.  A row's changes apply to  *)
(* all that came before; a stretch is counted when it ends.                *)
(***************************************************************************)
ChangeBefore(rs, s, t) == {u \in DOMAIN rs : u < t /\ s \in DOMAIN rs[u]}
RowState(rs, s, t) == IF ChangeBefore(rs, s, t) = {} THEN 0 ELSE rs[Max(ChangeBefore(rs, s, t))][s]

Loaded(rs) ==
    [t \in DOMAIN rs |->
        [prev |-> [s \in {s \in Signals : RowState(rs, s, t) # 0} |-> RowState(rs, s, t)],
         changes |-> rs[t]]]

EmptyIndex == [days |-> [d \in Midnights |-> [x \in States \ {0} |-> 0]], ok |-> TRUE]

LoadedIndex(rs, s) ==
    LET ends == {t \in DOMAIN rs : s \in DOMAIN rs[t] /\ RowState(rs, s, t) # 0}
        stretch(t) == Piece(Max(ChangeBefore(rs, s, t)), t, 0, RowState(rs, s, t))
    IN  AdjustInOrder(EmptyIndex, ends, stretch)

\* The state far in the future has to be unknown, or the database does not open.
Loads(rs) == \A s \in Signals : RowState(rs, s, MaxTime + 1) = 0

-----------------------------------------------------------------------------
NoHistory == [s \in Signals |-> [t \in Times |-> 0]]
NoMap == [t \in {} |-> NoSignals]

Init ==
    /\ points = NoMap /\ dirty = {} /\ rows = NoMap
    /\ index = [s \in Signals |-> EmptyIndex]
    /\ panicked = FALSE /\ updates = 0
    /\ history = NoHistory /\ durable = NoHistory /\ exact = TRUE

\* What an update and the collection that ends it leave of the history.
Recorded(h, ps, start, end, new) ==
    LET left == DOMAIN ps \ Removed(ps)
        gone(t) == Removed(ps) # {} /\ (left = {} \/ t < Min(left))
    IN  [s \in Signals |-> [t \in Times |->
            IF gone(t) THEN 0
            ELSE IF s \in DOMAIN new /\ start <= t /\ t < end THEN new[s]
            ELSE h[s][t]]]

(***************************************************************************)
(* update_signals, for a valid request: the ids increase, and each state   *)
(* is one of its signal's type.  An empty range is accepted and ignored.   *)
(***************************************************************************)
UpdateSignals(start, end, new) ==
    LET ps == UpdatePoints(points, start, end, new)
        updated == [s \in Signals |-> IF s \notin DOMAIN new THEN index[s]
                                      ELSE UpdatedIndex(index[s], points, start, end, new, s)]
    IN  /\ ~panicked /\ start < end /\ updates < MaxUpdates
        /\ points' = Collected(ps)
        /\ dirty' = dirty \cup Dirtied(points, start, end, new) \cup CollectedTimes(ps)
        /\ index' = [s \in Signals |-> CollectedIndex(updated[s], ps, s)]
        /\ panicked' = (\E s \in Signals : ~index'[s].ok)
        /\ updates' = updates + 1
        /\ history' = Recorded(history, ps, start, end, new)
        /\ exact' = (exact /\ Cardinality(DOMAIN new) = 1 /\ Removed(ps) = {})
        /\ UNCHANGED <<rows, durable>>

\* State::flush in the transaction of LockedDatabase::flush, and post_flush after
\* its commit.  A transaction that fails changes nothing, dirty_by_time included.
Flush ==
    /\ ~panicked /\ dirty # {}
    /\ rows' = [t \in (DOMAIN rows \ dirty) \cup (dirty \cap DOMAIN points) |->
                   IF t \in dirty THEN points[t].changes ELSE rows[t]]
    /\ dirty' = {} /\ durable' = history
    /\ UNCHANGED <<points, index, panicked, updates, history, exact>>

\* The process ends in any way, and a new one opens the database.
Restart ==
    /\ Loads(rows)
    /\ points' = Loaded(rows) /\ dirty' = {}
    /\ index' = [s \in Signals |-> LoadedIndex(rows, s)]
    /\ panicked' = FALSE
    /\ history' = durable /\ exact' = TRUE
    /\ UNCHANGED <<rows, updates, durable>>

Updates == {new \in Maps : DOMAIN new # {} /\ \A s \in DOMAIN new : new[s] \in ValidStates[s]}

Next ==
    \/ \E start, end \in Times : \E new \in Updates : UpdateSignals(start, end, new)
    \/ Flush
    \/ Restart

Spec == Init /\ [][Next]_vars

-----------------------------------------------------------------------------
\* The signals of which the code keeps what was set: not the one with id 0, which
\* the schema and update_signals allow, but which update_signals_start passes over
\* at a point that is there already and does not name it.
KeptSignals == Signals \ {0}

\* list_changes_by_time: the state just before the range, as of the last point
\* before it, then the changes within the range.
ListChangesByTime(start, end) ==
    (IF Before(points, start) = {} THEN {}
     ELSE LET when == Max(Before(points, start))
          IN  {[when |-> when, signal |-> s, state |-> After(points[when])[s]] : s \in DOMAIN After(points[when])})
    \cup UNION {{[when |-> t, signal |-> s, state |-> points[t].changes[s]] : s \in DOMAIN points[t].changes} :
                t \in {u \in DOMAIN points : start <= u /\ u < end}}

\* How a client reads such a list: the last row of a signal that is not after t.
Replayed(list, s, t) ==
    LET upTo == {r \in list : r.signal = s /\ r.when <= t}
    IN  IF upTo = {} THEN 0
        ELSE (CHOOSE r \in upTo : \A q \in upTo : q.when <= r.when).state

(***************************************************************************)
(* A listing of any range, read as a client reads it, gives at each        *)
(* instant of the range what was set last there, however updates overlap,  *)
(* for each signal but the one with id 0, and whatever is set of that one; *)
(* what garbage collection removes it removes up to one point in time and  *)
(* changes nothing after it.                                               *)
(***************************************************************************)
HistoryKept ==
    ~panicked =>
        \A start, end \in Times :
            LET list == ListChangesByTime(start, end)
            IN  \A s \in KeptSignals : \A t \in start..(end - 1) : Replayed(list, s, t) = history[s][t]

(***************************************************************************)
(* A restart at any time opens the database, whatever signals it has, and  *)
(* finds what the last flush wrote of each but the one with id 0: no point *)
(* that was changed, or removed, since the flush before it was forgotten   *)
(* in dirty_by_time.                                                       *)
(***************************************************************************)
RestartKeepsHistory ==
    /\ Loads(rows)
    /\ \A s \in KeptSignals : \A t \in Times : RowState(rows, s, t + 1) = durable[s][t]

\* The time a signal spent in a state on a day, counted instant by instant.
Spent(s, d, x) == Cardinality({t \in Times : t < MaxTime /\ history[s][t] = x /\ DayOf(t) = d})

DaysMatchSignal(s) ==
    index[s].ok /\ \A d \in Midnights : \A x \in States \ {0} : index[s].days[d][x] = Spent(s, d, x)

(***************************************************************************)
(* The days index, kept by adding and subtracting stretches of updates or  *)
(* built from the rows at a start, agrees with the history of each signal  *)
(* but the one with id 0 as long as each update names one signal and no    *)
(* point was garbage-collected.                                            *)
(***************************************************************************)
DaysExactForSingles == exact => \A s \in KeptSignals : DaysMatchSignal(s)

(***************************************************************************)
(* The "sub range violation" that SignalValue::apply (server/db/days.rs)   *)
(* panics on, with the database lock held, does not occur: a day's index   *)
(* never has less time in a state than an update takes from it.            *)
(***************************************************************************)
UpdateDoesNotPanic == ~panicked

=============================================================================

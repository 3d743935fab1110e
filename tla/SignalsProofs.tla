---------------------------- MODULE SignalsProofs ----------------------------
(***************************************************************************)
(* HistoryKept and RestartKeepsHistory of module Signals.                  *)
(*                                                                         *)
(* A point holds the state before it as well as its changes, and a row     *)
(* only the changes.  What both say of a signal at a time is RowState: the *)
(* last change before it.  Inv is inductive:                               *)
(*                                                                         *)
(*   Consistent  each point's state is that of the last changes before it, *)
(*               as the comment at State::points_by_time says of the maps  *)
(*   Told        the last changes give the history                         *)
(*   Written     rows and points make the same changes, but at dirty times *)
(*   Stored      the rows give the history as of the last flush            *)
(*   Ended       a state other than 0 that a point tells is changed later  *)
(*   Loads       in the rows each signal ends in state 0                   *)
(*                                                                         *)
(* Of signal 0, which update_signals_start passes over at times, the maps  *)
(* of points and the last changes tell different things: only Written,     *)
(* Ended and Loads hold of it, which is what lets the database open.       *)
(***************************************************************************)
EXTENDS Signals, SetLemmas

\* The changes of points, as rows hold them.
Changes(ps) == [t \in DOMAIN ps |-> ps[t].changes]

Names(rs, t, s) == t \in DOMAIN rs /\ s \in DOMAIN rs[t]

\* The same change of s at t, or none.
Agree(rs, rq, t, s) ==
  /\ Names(rs, t, s) <=> Names(rq, t, s)
  /\ Names(rs, t, s) => rs[t][s] = rq[t][s]

Consistent(ps) ==
  /\ DOMAIN ps \subseteq Times
  /\ \A t \in DOMAIN ps : \A s \in KeptSignals : Get(ps[t].prev, s) = RowState(Changes(ps), s, t)

Told == \A s \in KeptSignals : \A t \in Times : RowState(Changes(points), s, t + 1) = history[s][t]

Written == \A t \in Times \ dirty : \A s \in Signals : Agree(rows, Changes(points), t, s)

Stored ==
  /\ DOMAIN rows \subseteq Times
  /\ \A s \in KeptSignals : \A t \in Times : RowState(rows, s, t + 1) = durable[s][t]

ChangesFrom(ps, t, s) == \E u \in DOMAIN ps : t <= u /\ s \in DOMAIN ps[u].changes
ChangesAfter(ps, t, s) == \E u \in DOMAIN ps : t < u /\ s \in DOMAIN ps[u].changes

Ended(ps) ==
  \A t \in DOMAIN ps : \A s \in Signals :
    /\ Get(ps[t].prev, s) # 0 => ChangesFrom(ps, t, s)
    /\ s \in DOMAIN ps[t].changes /\ ps[t].changes[s] # 0 => ChangesAfter(ps, t, s)

Inv == Consistent(points) /\ Told /\ Written /\ Stored /\ Ended(points) /\ Loads(rows)

-----------------------------------------------------------------------------
(* The last change.                                                        *)

LEMMA TimesAreNatural == MaxTime \in Nat /\ Times \subseteq Nat /\ Times = 0..MaxTime
BY SignalsAssumption DEF SignalsAssumption, Times

LEMMA LastChange ==
  ASSUME NEW rs, DOMAIN rs \subseteq Times, NEW s, NEW t, ChangeBefore(rs, s, t) # {}
  PROVE  \E u \in ChangeBefore(rs, s, t) :
           /\ RowState(rs, s, t) = rs[u][s]
           /\ \A v \in ChangeBefore(rs, s, t) : v <= u
<1>1. ChangeBefore(rs, s, t) \subseteq 0..MaxTime /\ MaxTime \in Nat
  BY TimesAreNatural DEF ChangeBefore
<1> DEFINE u == Max(ChangeBefore(rs, s, t))
<1>2. u \in ChangeBefore(rs, s, t) /\ \A v \in ChangeBefore(rs, s, t) : v <= u
  BY <1>1, MaxIsGreatest
<1>3. RowState(rs, s, t) = rs[u][s]
  BY DEF RowState
<1> QED BY <1>2, <1>3

LEMMA LastChangeIs ==
  ASSUME NEW rs, DOMAIN rs \subseteq Times, NEW s, NEW t, NEW u \in ChangeBefore(rs, s, t),
         \A v \in ChangeBefore(rs, s, t) : v <= u
  PROVE  RowState(rs, s, t) = rs[u][s]
<1>1. PICK w \in ChangeBefore(rs, s, t) :
        RowState(rs, s, t) = rs[w][s] /\ \A v \in ChangeBefore(rs, s, t) : v <= w
  BY LastChange
<1>2. w <= u /\ u <= w
  BY <1>1
<1>3. w \in Nat /\ u \in Nat
  BY <1>1, TimesAreNatural DEF ChangeBefore
<1>4. w = u
  BY <1>2, <1>3
<1> QED BY <1>1, <1>4

LEMMA SameChanges ==
  ASSUME NEW rs, NEW rq, DOMAIN rs \subseteq Times, DOMAIN rq \subseteq Times, NEW s, NEW t,
         \A u \in Times : u < t => Agree(rs, rq, u, s)
  PROVE  RowState(rs, s, t) = RowState(rq, s, t)
<1>1. ChangeBefore(rs, s, t) = ChangeBefore(rq, s, t)
  BY DEF ChangeBefore, Agree, Names
<1>2. CASE ChangeBefore(rs, s, t) = {}
  BY <1>1, <1>2 DEF RowState
<1>3. CASE ChangeBefore(rs, s, t) # {}
  <2>1. PICK u \in ChangeBefore(rs, s, t) :
          RowState(rs, s, t) = rs[u][s] /\ \A v \in ChangeBefore(rs, s, t) : v <= u
    BY <1>3, LastChange
  <2>2. RowState(rq, s, t) = rq[u][s]
    BY <1>1, <2>1, LastChangeIs
  <2>3. rs[u][s] = rq[u][s]
    BY <2>1 DEF ChangeBefore, Agree, Names
  <2> QED BY <2>1, <2>2, <2>3
<1> QED BY <1>2, <1>3

LEMMA NoChangeSince ==
  ASSUME NEW rs, DOMAIN rs \subseteq Times, NEW s, NEW u \in Int, NEW t \in Int, u <= t,
         \A v \in Times : u <= v /\ v < t => ~Names(rs, v, s)
  PROVE  RowState(rs, s, t) = RowState(rs, s, u)
<1>1. ASSUME NEW v \in DOMAIN rs, s \in DOMAIN rs[v]
      PROVE  v < t <=> v < u
  <2>1. v \in Times /\ v \in Int
    BY TimesAreNatural
  <2>2. ~(u <= v /\ v < t)
    BY <1>1, <2>1 DEF Names
  <2> QED BY <2>1, <2>2
<1>2. ChangeBefore(rs, s, t) = ChangeBefore(rs, s, u)
  BY <1>1 DEF ChangeBefore
<1> QED BY <1>2 DEF RowState

\* The last change before t is the last since u, or else the last before u.
LEMMA SameSince ==
  ASSUME NEW rs, NEW rq, DOMAIN rs \subseteq Times, DOMAIN rq \subseteq Times, NEW s,
         NEW u \in Int, NEW t \in Int, u <= t,
         \A v \in Times : u <= v /\ v < t => Agree(rs, rq, v, s),
         \/ \E v \in Times : u <= v /\ v < t /\ Names(rs, v, s)
         \/ RowState(rs, s, u) = RowState(rq, s, u)
  PROVE  RowState(rs, s, t) = RowState(rq, s, t)
<1>1. CASE \E v \in Times : u <= v /\ v < t /\ Names(rs, v, s)
  <2>1. PICK v \in Times : u <= v /\ v < t /\ Names(rs, v, s)
    BY <1>1
  <2>2. v \in ChangeBefore(rs, s, t)
    BY <2>1 DEF ChangeBefore, Names
  <2>3. PICK w \in ChangeBefore(rs, s, t) :
          RowState(rs, s, t) = rs[w][s] /\ \A x \in ChangeBefore(rs, s, t) : x <= w
    BY <2>2, LastChange
  <2>4. w \in Times /\ w < t /\ Names(rs, w, s) /\ v <= w
    BY <2>2, <2>3 DEF ChangeBefore, Names
  <2>5. u <= w
    BY <2>1, <2>4, TimesAreNatural
  <2>6. Agree(rs, rq, w, s)
    BY <2>4, <2>5
  <2>7. w \in ChangeBefore(rq, s, t) /\ rs[w][s] = rq[w][s]
    BY <2>4, <2>6 DEF ChangeBefore, Agree, Names
  <2>8. ASSUME NEW x \in ChangeBefore(rq, s, t) PROVE x <= w
    <3>1. x \in Times /\ x < t /\ Names(rq, x, s)
      BY DEF ChangeBefore, Names
    <3>2. CASE u <= x
      <4>1. Names(rs, x, s)
        BY <3>1, <3>2 DEF Agree
      <4> QED BY <2>3, <3>1, <4>1 DEF ChangeBefore, Names
    <3>3. CASE ~(u <= x)
      BY <2>4, <2>5, <3>1, <3>3, TimesAreNatural
    <3> QED BY <3>2, <3>3
  <2> QED BY <2>3, <2>7, <2>8, LastChangeIs
<1>2. CASE ~\E v \in Times : u <= v /\ v < t /\ Names(rs, v, s)
  <2>1. RowState(rs, s, t) = RowState(rs, s, u)
    BY <1>2, NoChangeSince
  <2>2. \A v \in Times : u <= v /\ v < t => ~Names(rq, v, s)
    BY <1>2 DEF Agree
  <2>3. RowState(rq, s, t) = RowState(rq, s, u)
    BY <2>2, NoChangeSince
  <2> QED BY <1>2, <2>1, <2>3
<1> QED BY <1>1, <1>2

\* A map after changes.
LEMMA GetUpdated ==
  ASSUME NEW map, NEW changes, NEW s
  PROVE  Get(UpdateMap(map, changes), s) = IF s \in DOMAIN changes THEN changes[s] ELSE Get(map, s)
BY DEF Get, UpdateMap, Over, Restrict

\* The state before t, as the last point before t tells it, is the last change's.
LEMMA StateIsLastChange ==
  ASSUME NEW ps, Consistent(ps), NEW s \in KeptSignals, NEW t \in Int
  PROVE  Get(StateBefore(ps, t), s) = RowState(Changes(ps), s, t)
<1> DEFINE rs == Changes(ps)
<1>1. DOMAIN rs = DOMAIN ps /\ DOMAIN ps \subseteq Times
  BY DEF Consistent, Changes
<1>2. CASE Before(ps, t) = {}
  <2>1. ChangeBefore(rs, s, t) = {}
    BY <1>1, <1>2 DEF Before, ChangeBefore
  <2>2. StateBefore(ps, t) = NoSignals
    BY <1>2 DEF StateBefore
  <2>3. RowState(rs, s, t) = 0
    BY <2>1 DEF RowState
  <2>4. Get(NoSignals, s) = 0
    BY DEF Get, NoSignals
  <2> QED BY <2>2, <2>3, <2>4
<1>3. CASE Before(ps, t) # {}
  <2> DEFINE m == Max(Before(ps, t))
  <2>1. Before(ps, t) \subseteq 0..MaxTime /\ MaxTime \in Nat
    BY <1>1, TimesAreNatural DEF Before
  <2>2. m \in Before(ps, t) /\ \A u \in Before(ps, t) : u <= m
    BY <1>3, <2>1, MaxIsGreatest
  <2>3. StateBefore(ps, t) = UpdateMap(ps[m].prev, ps[m].changes)
    BY <1>3 DEF StateBefore, After
  <2>4. m \in DOMAIN ps /\ m < t /\ m \in Int /\ rs[m] = ps[m].changes
    BY <2>1, <2>2 DEF Before, Changes
  <2> HIDE DEF m
  <2>5. Get(StateBefore(ps, t), s) = IF s \in DOMAIN rs[m] THEN rs[m][s] ELSE Get(ps[m].prev, s)
    BY <2>3, <2>4, GetUpdated
  <2>6. CASE s \in DOMAIN rs[m]
    <3>1. m \in ChangeBefore(rs, s, t)
      BY <1>1, <2>4, <2>6 DEF ChangeBefore
    <3>2. \A u \in ChangeBefore(rs, s, t) : u <= m
      BY <1>1, <2>2 DEF ChangeBefore, Before
    <3>3. RowState(rs, s, t) = rs[m][s]
      BY <1>1, <3>1, <3>2, LastChangeIs
    <3> QED BY <2>5, <2>6, <3>3
  <2>7. CASE s \notin DOMAIN rs[m]
    <3>1. ASSUME NEW v \in Times, m <= v, v < t PROVE ~Names(rs, v, s)
      <4>1. CASE v \in DOMAIN ps
        <5>1. v <= m /\ v \in Int
          BY <2>2, <3>1, <4>1, TimesAreNatural DEF Before
        <5>2. v = m
          BY <2>4, <3>1, <5>1
        <5> QED BY <2>7, <5>2 DEF Names
      <4> QED BY <1>1, <4>1 DEF Names
    <3>2. RowState(rs, s, t) = RowState(rs, s, m)
      BY <1>1, <2>4, <3>1, NoChangeSince
    <3>3. Get(ps[m].prev, s) = RowState(rs, s, m)
      BY <2>4 DEF Consistent
    <3> QED BY <2>5, <2>7, <3>2, <3>3
  <2> QED BY <2>6, <2>7
<1> QED BY <1>2, <1>3

-----------------------------------------------------------------------------
(* update_signals, step by step.                                           *)

Update(ps, start, end, new) ==
  /\ Consistent(ps)
  /\ start \in Times /\ end \in Times /\ start < end
  /\ DOMAIN new \subseteq Signals

\* The state before the end point is the new one; what comes after stays.
LEMMA UpdateEndStep ==
  ASSUME NEW ps, NEW start, NEW end, NEW new, Update(ps, start, end, new),
         NEW q, q = UpdateEnd(ps, end, new)
  PROVE  /\ DOMAIN ps \subseteq DOMAIN q /\ DOMAIN q \subseteq DOMAIN ps \cup {end}
         /\ \A t \in DOMAIN q : t # end => q[t] = ps[t]
         /\ end \in DOMAIN q =>
              \A s : Get(q[end].prev, s)
                       = IF s \in DOMAIN new THEN new[s] ELSE Get(PrevAtEnd(ps, end), s)
         /\ \A s :
              \/ Agree(Changes(ps), Changes(q), end, s)
                   /\ (s \in DOMAIN new => Names(Changes(ps), end, s))
              \/ s \in DOMAIN new /\ ~Names(Changes(ps), end, s)
                   /\ IF Names(Changes(q), end, s)
                      THEN Changes(q)[end][s] = Get(PrevAtEnd(ps, end), s)
                      ELSE new[s] = Get(PrevAtEnd(ps, end), s) /\ new[s] # 0
<1> DEFINE prev == PrevAtEnd(ps, end)
           undone == Undone(prev, new)
           existing == IF end \in DOMAIN ps THEN ps[end].changes ELSE NoSignals
           point == [prev |-> EndPrev(prev, new), changes |-> Over(existing, undone)]
<1>3. ASSUME NEW s
      PROVE  Get(EndPrev(prev, new), s) = IF s \in DOMAIN new THEN new[s] ELSE Get(prev, s)
  BY DEF EndPrev, Restrict, Over, Get
<1>4. \A s : s \in DOMAIN undone <=>
               s \in DOMAIN new /\ (s \in DOMAIN prev => new[s] = 0 \/ new[s] # prev[s])
  BY DEF Undone
<1>5. \A s \in DOMAIN undone : undone[s] = Get(prev, s)
  BY DEF Undone
<1>6. ASSUME NEW s \in DOMAIN new, s \notin DOMAIN undone
      PROVE  new[s] = Get(prev, s) /\ new[s] # 0
  BY <1>4, <1>6 DEF Get
<1>7. \A s : Names(Changes(ps), end, s) <=> s \in DOMAIN existing
  BY DEF Names, Changes, NoSignals
<1>8. end \in DOMAIN ps => Changes(ps)[end] = existing
  BY DEF Changes
<1>2. PrevAtEnd(ps, end) = prev
  OBVIOUS
<1> HIDE DEF undone, prev, existing
<1>9. CASE undone = NoSignals
  <2>1. q = ps
    BY <1>9 DEF UpdateEnd, undone, prev
  <2>2. DOMAIN undone = {}
    BY <1>9 DEF NoSignals
  <2>3. ASSUME end \in DOMAIN ps, NEW s
        PROVE  Get(ps[end].prev, s) = IF s \in DOMAIN new THEN new[s] ELSE Get(prev, s)
    <3>1. Get(ps[end].prev, s) = Get(prev, s)
      BY <2>3 DEF prev, PrevAtEnd
    <3> QED BY <1>6, <2>2, <3>1
  <2>4. ASSUME NEW s, s \in DOMAIN new
        PROVE  new[s] = Get(prev, s) /\ new[s] # 0
    BY <1>6, <2>2, <2>4
  <2> QED BY <1>2, <2>1, <2>3, <2>4 DEF Agree
<1>10. CASE undone # NoSignals
  <2>1. q = With(ps, end, point)
    BY <1>10 DEF UpdateEnd, undone, prev, existing
  <2> HIDE DEF point
  <2>2. /\ DOMAIN q = DOMAIN ps \cup {end} /\ q[end] = point
        /\ \A t \in DOMAIN ps : t # end => q[t] = ps[t]
    BY <2>1 DEF With
  <2>3. point.prev = EndPrev(prev, new) /\ point.changes = Over(existing, undone)
    BY DEF point
  <2>4. Changes(q)[end] = Over(existing, undone) /\ end \in DOMAIN Changes(q)
    BY <2>2, <2>3 DEF Changes
  <2>5. ASSUME NEW s
        PROVE  /\ Names(Changes(q), end, s) <=> s \in DOMAIN existing \/ s \in DOMAIN undone
               /\ s \in DOMAIN existing => Changes(q)[end][s] = existing[s]
               /\ s \notin DOMAIN existing /\ s \in DOMAIN undone =>
                    Changes(q)[end][s] = undone[s]
    BY <2>4 DEF Names, Over
  <2>6. ASSUME NEW s
        PROVE  Get(q[end].prev, s) = IF s \in DOMAIN new THEN new[s] ELSE Get(prev, s)
    BY <1>3, <2>2, <2>3
  <2>7. ASSUME NEW s
        PROVE  \/ Agree(Changes(ps), Changes(q), end, s)
                    /\ (s \in DOMAIN new => Names(Changes(ps), end, s))
               \/ s \in DOMAIN new /\ ~Names(Changes(ps), end, s)
                    /\ IF Names(Changes(q), end, s)
                       THEN Changes(q)[end][s] = Get(prev, s)
                       ELSE new[s] = Get(prev, s) /\ new[s] # 0
    <3>1. CASE s \in DOMAIN existing
      <4>1. Changes(ps)[end] = existing /\ Names(Changes(ps), end, s)
        BY <1>7, <1>8, <3>1 DEF existing, NoSignals
      <4> QED BY <2>5, <3>1, <4>1 DEF Agree
    <3>2. CASE s \notin DOMAIN existing /\ s \in DOMAIN undone
      BY <1>4, <1>5, <1>7, <2>5, <3>2
    <3>3. CASE s \notin DOMAIN existing /\ s \notin DOMAIN undone
      <4>1. ~Names(Changes(ps), end, s) /\ ~Names(Changes(q), end, s)
        BY <1>7, <2>5, <3>3
      <4> QED BY <1>6, <3>3, <4>1 DEF Agree
    <3> QED BY <3>1, <3>2, <3>3
  <2> QED BY <1>2, <2>2, <2>6, <2>7
<1> QED BY <1>9, <1>10

LEMMA PrevIsLastChange ==
  ASSUME NEW ps, Consistent(ps), NEW end \in Times, NEW s \in KeptSignals
  PROVE  Get(PrevAtEnd(ps, end), s) = RowState(Changes(ps), s, end)
<1>1. end \in Int
  BY TimesAreNatural
<1>2. CASE end \in DOMAIN ps
  BY <1>2 DEF PrevAtEnd, Consistent
<1>3. CASE end \notin DOMAIN ps
  BY <1>1, <1>3, StateIsLastChange DEF PrevAtEnd
<1> QED BY <1>2, <1>3

\* From the start on the state is the new one, up to the next change.
LEMMA UpdateStartStep ==
  ASSUME NEW ps, NEW start, NEW end, NEW new, Update(ps, start, end, new),
         NEW q, DOMAIN ps \subseteq DOMAIN q, DOMAIN q \subseteq DOMAIN ps \cup {end},
         \A t \in DOMAIN q : t # end => q[t] = ps[t],
         NEW r, r = UpdateStart(q, start, new)
  PROVE  /\ DOMAIN q \subseteq DOMAIN r /\ DOMAIN r \subseteq DOMAIN q \cup {start}
         /\ \A t \in DOMAIN r : t # start => r[t] = q[t]
         /\ start \in DOMAIN r =>
              /\ r[start].prev = IF start \in DOMAIN ps THEN ps[start].prev
                                 ELSE StateBefore(ps, start)
              /\ \A s \in KeptSignals : Get(r[start].prev, s) = RowState(Changes(ps), s, start)
         /\ \A s : s \notin DOMAIN new => Agree(Changes(ps), Changes(r), start, s)
         /\ \A s \in KeptSignals : s \in DOMAIN new =>
              IF Names(Changes(r), start, s) THEN Changes(r)[start][s] = new[s]
              ELSE new[s] = RowState(Changes(ps), s, start)
<1>1. start \in Int /\ end \in Int /\ start # end /\ start < end
  BY TimesAreNatural DEF Update
<1>2. start \in DOMAIN q <=> start \in DOMAIN ps
  BY <1>1
<1>3. CASE start \in DOMAIN q
  <2> DEFINE p == q[start]
             changes == ChangesAtStart(p, new)
  <2>1. p = ps[start] /\ start \in DOMAIN ps
    BY <1>1, <1>2, <1>3
  <2>2. r = With(q, start, [prev |-> p.prev, changes |-> changes])
    BY <1>3 DEF UpdateStart
  <2>3. /\ DOMAIN r = DOMAIN q /\ \A t \in DOMAIN r : t # start => r[t] = q[t]
        /\ r[start] = [prev |-> p.prev, changes |-> changes]
    BY <1>3, <2>2 DEF With
  <2>4. ASSUME NEW s \in KeptSignals PROVE Get(p.prev, s) = RowState(Changes(ps), s, start)
    BY <2>1 DEF Update, Consistent
  <2>5. Changes(r)[start] = changes /\ start \in DOMAIN Changes(r)
    BY <1>3, <2>3 DEF Changes
  <2>6. Changes(ps)[start] = p.changes /\ start \in DOMAIN Changes(ps)
    BY <2>1 DEF Changes
  <2>7. ASSUME NEW s
        PROVE  /\ s \notin DOMAIN new => (s \in DOMAIN changes <=> s \in DOMAIN p.changes)
               /\ s \notin DOMAIN new /\ s \in DOMAIN changes => changes[s] = p.changes[s]
               /\ s \in DOMAIN new /\ s \in DOMAIN changes => changes[s] = new[s]
               /\ s \in DOMAIN new /\ s \notin DOMAIN changes /\ s # 0 => new[s] = Get(p.prev, s)
    BY DEF ChangesAtStart, Restrict, Over
  <2> HIDE DEF p, changes
  <2>8. ASSUME NEW s, s \notin DOMAIN new PROVE Agree(Changes(ps), Changes(r), start, s)
    BY <2>5, <2>6, <2>7, <2>8 DEF Agree, Names
  <2>9. ASSUME NEW s \in KeptSignals, s \in DOMAIN new
        PROVE  IF Names(Changes(r), start, s) THEN Changes(r)[start][s] = new[s]
               ELSE new[s] = RowState(Changes(ps), s, start)
    <3>1. s # 0
      BY DEF KeptSignals
    <3> QED BY <2>4, <2>5, <2>7, <2>9, <3>1 DEF Names
  <2>10. r[start].prev = ps[start].prev
    BY <2>1, <2>3
  <2> QED BY <1>3, <2>1, <2>3, <2>4, <2>8, <2>9, <2>10
<1>4. CASE start \notin DOMAIN q
  <2> DEFINE prev == StateBefore(q, start)
             changed == {s \in DOMAIN new : new[s] # Get(prev, s)}
             point == [prev |-> prev, changes |-> Restrict(new, changed)]
  <2>1. StateBefore(q, start) = StateBefore(ps, start)
    <3>1. ASSUME NEW u \in DOMAIN q, u < start PROVE u \in DOMAIN ps /\ q[u] = ps[u]
      BY <1>1, <3>1
    <3>2. Before(q, start) = Before(ps, start)
      BY <3>1 DEF Before
    <3>3. CASE Before(ps, start) = {}
      BY <3>2, <3>3 DEF StateBefore
    <3>4. CASE Before(ps, start) # {}
      <4>1. Before(ps, start) \subseteq 0..MaxTime /\ MaxTime \in Nat
        BY TimesAreNatural DEF Before, Update, Consistent
      <4>2. Max(Before(ps, start)) \in Before(ps, start)
        BY <3>4, <4>1, MaxIsGreatest
      <4>3. q[Max(Before(ps, start))] = ps[Max(Before(ps, start))]
        BY <3>1, <3>2, <4>2 DEF Before
      <4> QED BY <3>2, <4>3 DEF StateBefore
    <3> QED BY <3>3, <3>4
  <2>6. ASSUME NEW s \in KeptSignals PROVE Get(prev, s) = RowState(Changes(ps), s, start)
    BY <1>1, <2>1, StateIsLastChange DEF Update
  <2>2. ASSUME NEW s \in DOMAIN new PROVE s \in changed \/ new[s] = Get(prev, s)
    OBVIOUS
  <2>3. \A s : ~Names(Changes(ps), start, s)
    BY <1>2, <1>4 DEF Names, Changes
  <2> HIDE DEF prev, changed
  <2>4. CASE changed = {}
    <3>1. r = q
      BY <1>4, <2>4 DEF UpdateStart, prev, changed
    <3>2. \A s : ~Names(Changes(r), start, s)
      BY <1>4, <3>1 DEF Names, Changes
    <3>3. ASSUME NEW s \in KeptSignals, s \in DOMAIN new
          PROVE  new[s] = RowState(Changes(ps), s, start)
      BY <2>2, <2>4, <2>6, <3>3
    <3> QED BY <1>4, <2>3, <3>1, <3>2, <3>3 DEF Agree
  <2>5. CASE changed # {}
    <3>1. r = With(q, start, point)
      BY <1>4, <2>5 DEF UpdateStart, prev, changed
    <3> HIDE DEF point
    <3>2. /\ DOMAIN r = DOMAIN q \cup {start} /\ r[start] = point
          /\ \A t \in DOMAIN r : t # start => r[t] = q[t]
      BY <3>1 DEF With
    <3>3. point.prev = prev /\ point.changes = Restrict(new, changed)
      BY DEF point
    <3>4. Changes(r)[start] = Restrict(new, changed) /\ start \in DOMAIN Changes(r)
      BY <3>2, <3>3 DEF Changes
    <3>5. ASSUME NEW s
          PROVE  /\ Names(Changes(r), start, s) <=> s \in changed
                 /\ s \in changed => Changes(r)[start][s] = new[s]
      BY <3>4 DEF Names, Restrict
    <3>6. changed \subseteq DOMAIN new
      BY DEF changed
    <3>7. ASSUME NEW s, s \notin DOMAIN new PROVE Agree(Changes(ps), Changes(r), start, s)
      BY <2>3, <3>5, <3>6, <3>7 DEF Agree
    <3>8. ASSUME NEW s \in KeptSignals, s \in DOMAIN new
          PROVE  IF Names(Changes(r), start, s) THEN Changes(r)[start][s] = new[s]
                 ELSE new[s] = RowState(Changes(ps), s, start)
      BY <2>2, <2>6, <3>5, <3>8
    <3>9. r[start].prev = StateBefore(ps, start) /\ start \notin DOMAIN ps
      BY <1>2, <1>4, <2>1, <3>2, <3>3 DEF prev
    <3> QED BY <2>6, <3>2, <3>3, <3>7, <3>8, <3>9
  <2> QED BY <2>4, <2>5
<1> QED BY <1>3, <1>4

\* In between no point says anything of the signals updated.
LEMMA UpdateMiddleStep ==
  ASSUME NEW r, NEW start, NEW end, NEW new, NEW w, w = UpdateMiddle(r, start, end, new)
  PROVE  /\ DOMAIN w \subseteq DOMAIN r
         /\ \A t \in DOMAIN r : t \notin Inside(r, start, end) => t \in DOMAIN w /\ w[t] = r[t]
         /\ \A t \in DOMAIN w : t \in Inside(r, start, end) =>
              \A s : Get(w[t].prev, s) = IF s \in DOMAIN new THEN new[s] ELSE Get(r[t].prev, s)
         /\ \A t \in Inside(r, start, end) : \A s :
              IF s \in DOMAIN new THEN ~Names(Changes(w), t, s)
              ELSE Agree(Changes(r), Changes(w), t, s)
<1> DEFINE inside == Inside(r, start, end)
           emptied == {t \in inside : Others(r[t].changes, new) = NoSignals}
           updated == [t \in DOMAIN r |->
                         IF t \notin inside THEN r[t]
                         ELSE [prev |-> UpdateMap(r[t].prev, new),
                               changes |-> Others(r[t].changes, new)]]
<1>1. w = Restrict(updated, DOMAIN r \ emptied) /\ inside \subseteq DOMAIN r
  BY DEF UpdateMiddle, Inside
<1>2. emptied \subseteq inside
  OBVIOUS
<1>3. ASSUME NEW t \in inside, NEW s
      PROVE  /\ s \in DOMAIN Others(r[t].changes, new)
                   <=> s \in DOMAIN r[t].changes /\ s \notin DOMAIN new
             /\ s \in DOMAIN Others(r[t].changes, new) =>
                  Others(r[t].changes, new)[s] = r[t].changes[s]
  BY DEF Others, Restrict
<1>4. ASSUME NEW t \in emptied, NEW s
      PROVE  s \notin DOMAIN Others(r[t].changes, new)
  BY DEF NoSignals
<1> HIDE DEF inside, emptied, updated
<1>5. DOMAIN w = DOMAIN r \ emptied /\ \A t \in DOMAIN w : w[t] = updated[t] /\ t \in DOMAIN r
  BY <1>1 DEF Restrict
<1>6. ASSUME NEW t \in DOMAIN r, t \notin inside PROVE t \in DOMAIN w /\ w[t] = r[t]
  BY <1>2, <1>5, <1>6 DEF updated
<1>7. ASSUME NEW t \in DOMAIN w, t \in inside
      PROVE  w[t].prev = UpdateMap(r[t].prev, new) /\ w[t].changes = Others(r[t].changes, new)
  BY <1>5, <1>7 DEF updated
<1>8. ASSUME NEW t \in inside, NEW s
      PROVE  IF s \in DOMAIN new THEN ~Names(Changes(w), t, s)
             ELSE Agree(Changes(r), Changes(w), t, s)
  <2>1. t \in DOMAIN r /\ Changes(r)[t] = r[t].changes /\ t \in DOMAIN Changes(r)
    BY <1>1 DEF Changes
  <2>2. CASE t \in DOMAIN w
    <3>1. Changes(w)[t] = Others(r[t].changes, new) /\ t \in DOMAIN Changes(w)
      BY <1>7, <2>2 DEF Changes
    <3> QED BY <1>3, <2>1, <3>1 DEF Names, Agree
  <2>3. CASE t \notin DOMAIN w
    <3>1. t \in emptied /\ t \notin DOMAIN Changes(w)
      BY <1>5, <2>1, <2>3 DEF Changes
    <3>2. s \notin DOMAIN new => s \notin DOMAIN r[t].changes
      BY <1>3, <1>4, <3>1
    <3> QED BY <2>1, <3>1, <3>2 DEF Names, Agree
  <2> QED BY <2>2, <2>3
<1>9. ASSUME NEW t \in DOMAIN w, t \in inside, NEW s
      PROVE  Get(w[t].prev, s) = IF s \in DOMAIN new THEN new[s] ELSE Get(r[t].prev, s)
  BY <1>7, <1>9, GetUpdated
<1> QED BY <1>5, <1>6, <1>8, <1>9 DEF inside

\* A start point that makes the changes already is left as it is.
LEMMA UpdateStartKeeps ==
  ASSUME NEW q, NEW start, NEW new, start \in DOMAIN q,
         \A s \in DOMAIN new :
           IF s \in DOMAIN q[start].changes THEN q[start].changes[s] = new[s] ELSE s = 0,
         NEW r, r = UpdateStart(q, start, new), NEW s \in DOMAIN new
  PROVE  Agree(Changes(q), Changes(r), start, s)
<1>1. r = With(q, start, [prev |-> q[start].prev, changes |-> ChangesAtStart(q[start], new)])
  BY DEF UpdateStart
<1>2. r[start].changes = ChangesAtStart(q[start], new) /\ start \in DOMAIN r
  BY <1>1 DEF With
<1>3. /\ s \in DOMAIN ChangesAtStart(q[start], new) <=> s \in DOMAIN q[start].changes
      /\ s \in DOMAIN q[start].changes => ChangesAtStart(q[start], new)[s] = q[start].changes[s]
  BY DEF ChangesAtStart, Restrict, Over
<1>4. Changes(r)[start] = ChangesAtStart(q[start], new) /\ start \in DOMAIN Changes(r)
  BY <1>2 DEF Changes
<1>5. Changes(q)[start] = q[start].changes /\ start \in DOMAIN Changes(q)
  BY DEF Changes
<1> QED BY <1>3, <1>4, <1>5 DEF Agree, Names

LEMMA SamePoint ==
  ASSUME NEW ps, NEW q, NEW t, t \in DOMAIN ps <=> t \in DOMAIN q,
         t \in DOMAIN ps => q[t] = ps[t]
  PROVE  /\ t \in DOMAIN Changes(ps) <=> t \in DOMAIN Changes(q)
         /\ t \in DOMAIN Changes(ps) => Changes(q)[t] = Changes(ps)[t]
         /\ \A s : Agree(Changes(ps), Changes(q), t, s)
BY DEF Changes, Agree, Names

-----------------------------------------------------------------------------
(* update_signals as a whole.                                              *)

\* What an update makes of the changes rs.
ChangesMade(rs, start, end, new, rp) ==
  /\ \A t \in Times : \A s \in Signals :
       t < start \/ end < t \/ s \notin DOMAIN new => Agree(rs, rp, t, s)
  /\ \A s \in DOMAIN new : \A t \in Times : start < t /\ t < end => ~Names(rp, t, s)
  /\ \A s \in DOMAIN new \ {0} :
       IF Names(rp, start, s) THEN rp[start][s] = new[s] ELSE new[s] = RowState(rs, s, start)
  /\ \A s \in DOMAIN new \ {0} :
       \/ Agree(rs, rp, end, s) /\ Names(rs, end, s)
       \/ /\ ~Names(rs, end, s)
          /\ IF Names(rp, end, s) THEN rp[end][s] = RowState(rs, s, end)
             ELSE new[s] = RowState(rs, s, end)

\* The state each point starts from.
Starts(ps, start, end, new, p) ==
  \A t \in DOMAIN p : \A s \in KeptSignals :
    Get(p[t].prev, s) = IF s \in DOMAIN new /\ start < t /\ t <= end THEN new[s]
                        ELSE RowState(Changes(ps), s, t)

LEMMA UpdateMakesChanges ==
  ASSUME NEW ps, NEW start, NEW end, NEW new, Update(ps, start, end, new),
         NEW p, p = UpdatePoints(ps, start, end, new)
  PROVE  /\ DOMAIN p \subseteq Times
         /\ ChangesMade(Changes(ps), start, end, new, Changes(p))
         /\ Starts(ps, start, end, new, p)
         /\ \A t \in Times \ Dirtied(ps, start, end, new) : \A s \in Signals :
              Agree(Changes(ps), Changes(p), t, s)
<1> DEFINE q == UpdateEnd(ps, end, new)
           r == UpdateStart(q, start, new)
           inside == Inside(r, start, end)
           rs == Changes(ps)
           rp == Changes(p)
<1>1. start \in Int /\ end \in Int /\ start < end /\ \A t \in Times : t \in Int
  BY TimesAreNatural DEF Update
<1>2. /\ DOMAIN ps \subseteq DOMAIN q /\ DOMAIN q \subseteq DOMAIN ps \cup {end}
      /\ \A t \in DOMAIN q : t # end => q[t] = ps[t]
  BY UpdateEndStep
<1>3. /\ end \in DOMAIN q =>
           \A s \in KeptSignals :
             Get(q[end].prev, s) = IF s \in DOMAIN new THEN new[s] ELSE RowState(rs, s, end)
      /\ \A s : s \notin DOMAIN new => Agree(rs, Changes(q), end, s)
      /\ \A s \in KeptSignals : s \in DOMAIN new =>
           \/ Agree(rs, Changes(q), end, s) /\ Names(rs, end, s)
           \/ /\ ~Names(rs, end, s)
              /\ IF Names(Changes(q), end, s)
                 THEN Changes(q)[end][s] = RowState(rs, s, end)
                 ELSE new[s] = RowState(rs, s, end)
  <2>1. \A s \in KeptSignals : Get(PrevAtEnd(ps, end), s) = RowState(rs, s, end)
    BY PrevIsLastChange DEF Update
  <2>2. end \in DOMAIN q =>
          \A s : Get(q[end].prev, s)
                   = IF s \in DOMAIN new THEN new[s] ELSE Get(PrevAtEnd(ps, end), s)
    BY UpdateEndStep
  <2>3. \A s :
          \/ Agree(rs, Changes(q), end, s) /\ (s \in DOMAIN new => Names(rs, end, s))
          \/ s \in DOMAIN new /\ ~Names(rs, end, s)
               /\ IF Names(Changes(q), end, s)
                  THEN Changes(q)[end][s] = Get(PrevAtEnd(ps, end), s)
                  ELSE new[s] = Get(PrevAtEnd(ps, end), s) /\ new[s] # 0
    BY UpdateEndStep
  <2> HIDE DEF q, rs
  <2> QED BY <2>1, <2>2, <2>3
<1>4. /\ DOMAIN q \subseteq DOMAIN r /\ DOMAIN r \subseteq DOMAIN q \cup {start}
      /\ \A t \in DOMAIN r : t # start => r[t] = q[t]
  BY <1>2, UpdateStartStep
<1>5. /\ start \in DOMAIN r =>
           \A s \in KeptSignals : Get(r[start].prev, s) = RowState(rs, s, start)
      /\ \A s : s \notin DOMAIN new => Agree(rs, Changes(r), start, s)
      /\ \A s \in KeptSignals : s \in DOMAIN new =>
           IF Names(Changes(r), start, s) THEN Changes(r)[start][s] = new[s]
           ELSE new[s] = RowState(rs, s, start)
  BY <1>2, UpdateStartStep
<1>6. p = UpdateMiddle(r, start, end, new)
  BY DEF UpdatePoints
<1>7. /\ DOMAIN p \subseteq DOMAIN r
      /\ \A t \in DOMAIN r : t \notin inside => t \in DOMAIN p /\ p[t] = r[t]
      /\ \A t \in DOMAIN p : t \in inside =>
           \A s : Get(p[t].prev, s) = IF s \in DOMAIN new THEN new[s] ELSE Get(r[t].prev, s)
      /\ \A t \in inside : \A s :
           IF s \in DOMAIN new THEN ~Names(rp, t, s) ELSE Agree(Changes(r), rp, t, s)
  BY <1>6, UpdateMiddleStep
<1>8. inside = {t \in DOMAIN r : start < t /\ t < end}
  BY DEF Inside
<1>9. DOMAIN ps \subseteq Times /\ start \in Times /\ end \in Times /\ DOMAIN new \subseteq Signals
  BY DEF Update, Consistent
<1>10. Dirtied(ps, start, end, new)
         = {t \in {end} : Undone(PrevAtEnd(ps, end), new) # NoSignals}
           \cup {t \in {start} : IF t \in DOMAIN q
                                 THEN \E s \in DOMAIN new : IF s \in DOMAIN q[t].changes
                                                         THEN q[t].changes[s] # new[s] ELSE s # 0
                                 ELSE t \in DOMAIN r}
           \cup {t \in inside : DOMAIN r[t].changes \cap DOMAIN new # {}}
  BY DEF Dirtied
<1>11. Undone(PrevAtEnd(ps, end), new) = NoSignals => q = ps
  BY DEF UpdateEnd
<1>12. ASSUME start \in DOMAIN q,
              \A s \in DOMAIN new :
                IF s \in DOMAIN q[start].changes THEN q[start].changes[s] = new[s] ELSE s = 0,
              NEW s \in DOMAIN new
       PROVE  Agree(Changes(q), Changes(r), start, s)
  BY <1>12, UpdateStartKeeps
<1> HIDE DEF q, r, inside
<1>13. ASSUME NEW t, t # end, t # start
       PROVE  /\ t \in DOMAIN ps <=> t \in DOMAIN r
              /\ t \in DOMAIN ps => r[t] = ps[t]
  BY <1>2, <1>4, <1>13
<1>14. end \notin inside /\ start \notin inside /\ start # end
  BY <1>1, <1>8
<1>15. ASSUME NEW s
       PROVE  Agree(Changes(q), rp, end, s) /\ Agree(Changes(r), rp, start, s)
                /\ Agree(rs, Changes(q), start, s)
  <2>1. /\ end \in DOMAIN q <=> end \in DOMAIN p
        /\ end \in DOMAIN q => p[end] = q[end]
    BY <1>4, <1>7, <1>14
  <2>2. /\ start \in DOMAIN r <=> start \in DOMAIN p
        /\ start \in DOMAIN r => p[start] = r[start]
    BY <1>7, <1>14
  <2>3. /\ start \in DOMAIN ps <=> start \in DOMAIN q
        /\ start \in DOMAIN ps => q[start] = ps[start]
    BY <1>2, <1>14
  <2> QED BY <2>1, <2>2, <2>3, SamePoint
<1>16. ASSUME NEW t, t # end, t # start, t \notin inside, NEW s PROVE Agree(rs, rp, t, s)
  <2>1. /\ t \in DOMAIN ps <=> t \in DOMAIN p
        /\ t \in DOMAIN ps => p[t] = ps[t]
    BY <1>7, <1>13, <1>16
  <2> QED BY <2>1, SamePoint
<1>17. ASSUME NEW t \in inside, NEW s PROVE Agree(rs, Changes(r), t, s)
  <2>1. t # end /\ t # start
    BY <1>14
  <2>2. /\ t \in DOMAIN ps <=> t \in DOMAIN r
        /\ t \in DOMAIN ps => r[t] = ps[t]
    BY <1>13, <2>1
  <2> QED BY <2>2, SamePoint
<1>18. \A a, b, c, t, s : Agree(a, b, t, s) /\ Agree(b, c, t, s) => Agree(a, c, t, s)
  BY DEF Agree
<1>19. DOMAIN p \subseteq Times
  BY <1>2, <1>4, <1>7, <1>9
<1>20. ChangesMade(rs, start, end, new, rp)
  <2>1. ASSUME NEW t \in Times, NEW s \in Signals, t < start \/ end < t
        PROVE  Agree(rs, rp, t, s)
    <3>1. t # end /\ t # start /\ t \notin inside
      BY <1>1, <1>8, <2>1
    <3> QED BY <1>16, <3>1
  <2>2. ASSUME NEW t \in Times, NEW s \in Signals, s \notin DOMAIN new
        PROVE  Agree(rs, rp, t, s)
    <3>1. CASE t = end
      <4>1. Agree(rs, Changes(q), end, s)
        BY <1>3, <2>2
      <4> QED BY <1>15, <1>18, <3>1, <4>1
    <3>2. CASE t = start
      <4>1. Agree(rs, Changes(r), start, s)
        BY <1>5, <2>2
      <4> QED BY <1>15, <1>18, <3>2, <4>1
    <3>3. CASE t \in inside
      BY <1>7, <1>17, <1>18, <2>2, <3>3
    <3>4. CASE t # end /\ t # start /\ t \notin inside
      BY <1>16, <3>4
    <3> QED BY <3>1, <3>2, <3>3, <3>4
  <2>3. ASSUME NEW s \in DOMAIN new, NEW t \in Times, start < t, t < end
        PROVE  ~Names(rp, t, s)
    <3>1. CASE t \in inside
      BY <1>7, <3>1
    <3>2. CASE t \notin inside
      <4>1. t \notin DOMAIN rp
        BY <1>7, <1>8, <2>3, <3>2 DEF Changes
      <4> QED BY <4>1 DEF Names
    <3> QED BY <3>1, <3>2
  <2>4. ASSUME NEW s \in DOMAIN new \ {0}
        PROVE  IF Names(rp, start, s) THEN rp[start][s] = new[s]
               ELSE new[s] = RowState(rs, s, start)
    <3>1. IF Names(Changes(r), start, s) THEN Changes(r)[start][s] = new[s]
          ELSE new[s] = RowState(rs, s, start)
      BY <1>5, <1>9 DEF KeptSignals
    <3>2. Agree(Changes(r), rp, start, s)
      BY <1>15
    <3> QED BY <3>1, <3>2 DEF Agree
  <2>5. ASSUME NEW s \in DOMAIN new \ {0}
        PROVE  \/ Agree(rs, rp, end, s) /\ Names(rs, end, s)
               \/ /\ ~Names(rs, end, s)
                  /\ IF Names(rp, end, s) THEN rp[end][s] = RowState(rs, s, end)
                     ELSE new[s] = RowState(rs, s, end)
    <3>1. Agree(Changes(q), rp, end, s)
      BY <1>15
    <3>2. s \in KeptSignals
      BY <1>9 DEF KeptSignals
    <3>3. CASE Agree(rs, Changes(q), end, s) /\ Names(rs, end, s)
      BY <1>18, <3>1, <3>3
    <3>4. CASE ~Names(rs, end, s) /\ IF Names(Changes(q), end, s)
                                     THEN Changes(q)[end][s] = RowState(rs, s, end)
                                     ELSE new[s] = RowState(rs, s, end)
      BY <3>1, <3>4 DEF Agree
    <3> QED BY <1>3, <3>2, <3>3, <3>4
  <2> HIDE DEF rs, rp
  <2> QED BY <2>1, <2>2, <2>3, <2>4, <2>5 DEF ChangesMade
<1>21. Starts(ps, start, end, new, p)
  <2> SUFFICES ASSUME NEW t \in DOMAIN p, NEW s \in KeptSignals
               PROVE  Get(p[t].prev, s) = IF s \in DOMAIN new /\ start < t /\ t <= end THEN new[s]
                                          ELSE RowState(rs, s, t)
    BY DEF Starts
  <2>1. t \in Int
    BY <1>1, <1>19
  <2>2. CASE t = end
    <3>1. end \in DOMAIN q /\ p[end] = q[end]
      BY <1>4, <1>7, <1>14, <2>2
    <3>2. start < t /\ t <= end
      BY <1>1, <2>2
    <3> QED BY <1>3, <2>2, <3>1, <3>2
  <2>3. CASE t = start
    <3>1. start \in DOMAIN r /\ p[start] = r[start]
      BY <1>7, <1>14, <2>3
    <3>2. ~(start < t)
      BY <1>1, <2>3
    <3> QED BY <1>5, <2>3, <3>1, <3>2
  <2>4. CASE t # end /\ t # start
    <3>1. t \in DOMAIN ps /\ r[t] = ps[t] /\ t \in DOMAIN r
      BY <1>7, <1>13, <2>4
    <3>2. Get(r[t].prev, s) = RowState(rs, s, t)
      BY <3>1 DEF Update, Consistent
    <3>3. CASE t \in inside
      <4>1. start < t /\ t <= end
        BY <1>1, <1>8, <2>1, <3>3
      <4> QED BY <1>7, <3>2, <3>3, <4>1
    <3>4. CASE t \notin inside
      <4>1. ~(start < t /\ t <= end)
        BY <1>1, <1>8, <2>1, <2>4, <3>1, <3>4
      <4>2. p[t] = r[t]
        BY <1>7, <3>1, <3>4
      <4> QED BY <3>2, <4>1, <4>2
    <3> QED BY <3>3, <3>4
  <2> QED BY <2>2, <2>3, <2>4
<1>22. ASSUME NEW t \in Times, t \notin Dirtied(ps, start, end, new), NEW s \in Signals
       PROVE  Agree(rs, rp, t, s)
  <2>1. CASE s \notin DOMAIN new
    BY <1>20, <2>1 DEF ChangesMade
  <2>2. CASE s \in DOMAIN new /\ t = end
    <3>1. q = ps
      BY <1>10, <1>11, <1>22, <2>2
    <3> QED BY <1>15, <2>2, <3>1
  <2>3. CASE s \in DOMAIN new /\ t = start
    <3>1. ~(IF start \in DOMAIN q
            THEN \E x \in DOMAIN new : IF x \in DOMAIN q[start].changes
                                         THEN q[start].changes[x] # new[x] ELSE x # 0
            ELSE start \in DOMAIN r)
      BY <1>10, <1>22, <2>3
    <3>2. CASE start \in DOMAIN q
      <4>1. Agree(Changes(q), Changes(r), start, s)
        BY <1>12, <2>3, <3>1, <3>2
      <4> QED BY <1>15, <1>18, <2>3, <4>1
    <3>3. CASE start \notin DOMAIN q
      <4>1. start \notin DOMAIN r /\ start \notin DOMAIN ps
        BY <1>2, <3>1, <3>3
      <4>2. Agree(rs, Changes(r), start, s)
        BY <4>1, SamePoint
      <4> QED BY <1>15, <1>18, <2>3, <4>2
    <3> QED BY <3>2, <3>3
  <2>4. CASE s \in DOMAIN new /\ t \in inside
    <3>1. DOMAIN r[t].changes \cap DOMAIN new = {}
      BY <1>10, <1>22, <2>4
    <3>2. ~Names(Changes(r), t, s)
      BY <2>4, <3>1 DEF Names, Changes
    <3>3. ~Names(rs, t, s)
      BY <1>17, <2>4, <3>2 DEF Agree
    <3>4. ~Names(rp, t, s)
      BY <1>7, <2>4
    <3> QED BY <3>3, <3>4 DEF Agree
  <2>5. CASE t # end /\ t # start /\ t \notin inside
    BY <1>16, <2>5
  <2> QED BY <2>1, <2>2, <2>3, <2>4, <2>5
<1> QED BY <1>19, <1>20, <1>21, <1>22

\* The states after an update: the new ones within the range, and no other change.
LEMMA UpdateTells ==
  ASSUME NEW rs, NEW rp, DOMAIN rs \subseteq Times, DOMAIN rp \subseteq Times,
         NEW start \in Times, NEW end \in Times, start < end,
         NEW new, DOMAIN new \subseteq Signals, ChangesMade(rs, start, end, new, rp),
         NEW s \in KeptSignals, NEW t \in Int
  PROVE  RowState(rp, s, t) = IF s \in DOMAIN new /\ start < t /\ t <= end THEN new[s]
                              ELSE RowState(rs, s, t)
<1>1. start \in Int /\ end \in Int /\ \A u \in Times : u \in Int
  BY TimesAreNatural
<1>10. s \in Signals /\ s # 0
  BY DEF KeptSignals
<1>2. CASE s \notin DOMAIN new
  <2>1. \A u \in Times : Agree(rs, rp, u, s)
    BY <1>2, <1>10 DEF ChangesMade
  <2>2. RowState(rs, s, t) = RowState(rp, s, t)
    BY <2>1, SameChanges
  <2> QED BY <1>2, <2>2
<1>3. ASSUME s \in DOMAIN new, NEW u \in Int, u <= start PROVE RowState(rp, s, u) = RowState(rs, s, u)
  <2>1. \A v \in Times : v < u => Agree(rs, rp, v, s)
    BY <1>1, <1>3, <1>10 DEF ChangesMade
  <2> QED BY <2>1, SameChanges
<1>4. ASSUME s \in DOMAIN new, NEW u \in Int, start < u, u <= end PROVE RowState(rp, s, u) = new[s]
  <2>1. \A v \in Times : start < v /\ v < u => ~Names(rp, v, s)
    BY <1>1, <1>4 DEF ChangesMade
  <2>2. CASE Names(rp, start, s)
    <3>1. start \in ChangeBefore(rp, s, u)
      BY <1>4, <2>2 DEF Names, ChangeBefore
    <3>2. ASSUME NEW v \in ChangeBefore(rp, s, u) PROVE v <= start
      <4>1. v \in Times /\ v < u /\ Names(rp, v, s)
        BY DEF Names, ChangeBefore
      <4>2. ~(start < v)
        BY <2>1, <4>1
      <4> QED BY <1>1, <4>1, <4>2
    <3>3. RowState(rp, s, u) = rp[start][s]
      BY <3>1, <3>2, LastChangeIs
    <3> QED BY <1>4, <1>10, <2>2, <3>3 DEF ChangesMade
  <2>3. CASE ~Names(rp, start, s)
    <3>1. \A v \in Times : start <= v /\ v < u => ~Names(rp, v, s)
      BY <1>1, <2>1, <2>3
    <3>2. RowState(rp, s, u) = RowState(rp, s, start)
      BY <1>1, <1>4, <3>1, NoChangeSince
    <3>3. RowState(rp, s, start) = RowState(rs, s, start)
      BY <1>1, <1>3, <1>4
    <3> QED BY <1>4, <1>10, <2>3, <3>2, <3>3 DEF ChangesMade
  <2> QED BY <2>2, <2>3
<1>5. ASSUME s \in DOMAIN new, end < t PROVE RowState(rp, s, t) = RowState(rs, s, t)
  <2>0. ASSUME NEW u \in Int, u <= t, \A v \in Times : u <= v /\ v < t => Agree(rs, rp, v, s),
               \E v \in Times : u <= v /\ v < t /\ Names(rs, v, s)
        PROVE  RowState(rp, s, t) = RowState(rs, s, t)
    BY <2>0, SameSince DEF Agree, Names
  <2>1. \A v \in Times : end < v => Agree(rs, rp, v, s)
    BY <1>10 DEF ChangesMade
  <2>2. CASE Agree(rs, rp, end, s) /\ Names(rs, end, s)
    <3>1. \A v \in Times : end <= v /\ v < t => Agree(rs, rp, v, s)
      BY <1>1, <2>1, <2>2
    <3>2. end <= end /\ end < t /\ end <= t
      BY <1>1, <1>5
    <3>3. \E v \in Times : end <= v /\ v < t /\ Names(rs, v, s)
      BY <2>2, <3>2
    <3> QED BY <1>1, <2>0, <3>1, <3>2, <3>3
  <2>3. CASE \E v \in Times : end < v /\ v < t /\ Names(rs, v, s)
    <3>1. end + 1 \in Int /\ end + 1 <= t
      BY <1>1, <1>5
    <3>2. \A v \in Times : end + 1 <= v <=> end < v
      BY <1>1
    <3>3. \A v \in Times : end + 1 <= v /\ v < t => Agree(rs, rp, v, s)
      BY <2>1, <3>2
    <3>4. \E v \in Times : end + 1 <= v /\ v < t /\ Names(rs, v, s)
      BY <2>3, <3>2
    <3> QED BY <2>0, <3>1, <3>3, <3>4
  <2>4. CASE /\ ~Names(rs, end, s)
             /\ ~\E v \in Times : end < v /\ v < t /\ Names(rs, v, s)
    <3>1. \A v \in Times : end < v /\ v < t => ~Names(rs, v, s) /\ ~Names(rp, v, s)
      BY <2>1, <2>4 DEF Agree
    <3>2. RowState(rs, s, t) = RowState(rs, s, end)
      <4>1. \A v \in Times : end <= v /\ v < t => ~Names(rs, v, s)
        BY <1>1, <2>4, <3>1
      <4> QED BY <1>1, <1>5, <4>1, NoChangeSince
    <3>3. IF Names(rp, end, s) THEN rp[end][s] = RowState(rs, s, end)
          ELSE new[s] = RowState(rs, s, end)
      BY <1>5, <1>10, <2>4 DEF ChangesMade
    <3>4. CASE Names(rp, end, s)
      <4>1. end \in ChangeBefore(rp, s, t)
        BY <1>5, <3>4 DEF Names, ChangeBefore
      <4>2. ASSUME NEW v \in ChangeBefore(rp, s, t) PROVE v <= end
        <5>1. v \in Times /\ v < t /\ Names(rp, v, s)
          BY DEF Names, ChangeBefore
        <5>2. ~(end < v)
          BY <3>1, <5>1
        <5> QED BY <1>1, <5>1, <5>2
      <4>3. RowState(rp, s, t) = rp[end][s]
        BY <4>1, <4>2, LastChangeIs
      <4> QED BY <3>2, <3>3, <3>4, <4>3
    <3>5. CASE ~Names(rp, end, s)
      <4>1. \A v \in Times : end <= v /\ v < t => ~Names(rp, v, s)
        BY <1>1, <3>1, <3>5
      <4>2. RowState(rp, s, t) = RowState(rp, s, end)
        BY <1>1, <1>5, <4>1, NoChangeSince
      <4>3. RowState(rp, s, end) = new[s]
        BY <1>1, <1>4, <1>5
      <4> QED BY <3>2, <3>3, <3>5, <4>2, <4>3
    <3> QED BY <3>4, <3>5
  <2>5. (Agree(rs, rp, end, s) /\ Names(rs, end, s)) \/ ~Names(rs, end, s)
    BY <1>5, <1>10 DEF ChangesMade
  <2> QED BY <2>2, <2>3, <2>4, <2>5
<1>6. CASE s \in DOMAIN new /\ t <= start
  <2>1. ~(start < t)
    BY <1>1, <1>6
  <2> QED BY <1>3, <1>6, <2>1
<1>7. CASE s \in DOMAIN new /\ start < t /\ t <= end
  BY <1>4, <1>7
<1>8. CASE s \in DOMAIN new /\ end < t
  <2>1. ~(t <= end)
    BY <1>1, <1>8
  <2> QED BY <1>5, <1>8, <2>1
<1>9. t <= start \/ (start < t /\ t <= end) \/ end < t
  BY <1>1
<1> QED BY <1>2, <1>6, <1>7, <1>8, <1>9

LEMMA UpdateIsConsistent ==
  ASSUME NEW ps, NEW start, NEW end, NEW new, Update(ps, start, end, new),
         NEW p, p = UpdatePoints(ps, start, end, new)
  PROVE  /\ Consistent(p)
         /\ \A s \in KeptSignals : \A t \in Int :
              RowState(Changes(p), s, t)
                = IF s \in DOMAIN new /\ start < t /\ t <= end THEN new[s]
                  ELSE RowState(Changes(ps), s, t)
<1>1. /\ DOMAIN p \subseteq Times /\ ChangesMade(Changes(ps), start, end, new, Changes(p))
      /\ Starts(ps, start, end, new, p)
  BY UpdateMakesChanges
<1>2. DOMAIN Changes(p) \subseteq Times /\ DOMAIN Changes(ps) \subseteq Times
  BY <1>1 DEF Changes, Update, Consistent
<1>3. ASSUME NEW s \in KeptSignals, NEW t \in Int
      PROVE  RowState(Changes(p), s, t)
               = IF s \in DOMAIN new /\ start < t /\ t <= end THEN new[s]
                 ELSE RowState(Changes(ps), s, t)
  BY <1>1, <1>2, UpdateTells DEF Update
<1>4. ASSUME NEW t \in DOMAIN p, NEW s \in KeptSignals
      PROVE  Get(p[t].prev, s) = RowState(Changes(p), s, t)
  <2>1. t \in Int
    BY <1>1, TimesAreNatural
  <2> QED BY <1>1, <1>3, <2>1 DEF Starts
<1> QED BY <1>1, <1>3, <1>4 DEF Consistent

-----------------------------------------------------------------------------
(* gc.                                                                     *)

LEMMA OldestAreRemoved ==
  ASSUME NEW ps, DOMAIN ps \subseteq Times
  PROVE  /\ Removed(ps) \subseteq DOMAIN ps
         /\ \A t \in Removed(ps) : \A u \in DOMAIN ps : u <= t => u \in Removed(ps)
         /\ ~Collects(ps) => Removed(ps) = {}
<1> DEFINE n == Cardinality(DOMAIN ps)
<1>1. IsFiniteSet(DOMAIN ps) /\ n \in Nat
  <2>1. IsFiniteSet(0..MaxTime)
    BY TimesAreNatural, FS_Interval
  <2> QED BY <2>1, TimesAreNatural, FS_Subset, FS_CardinalityType
<1>2. ASSUME NEW t PROVE IsFiniteSet(Before(ps, t)) /\ Cardinality(Before(ps, t)) \in Nat
  <2>1. Before(ps, t) \subseteq DOMAIN ps
    BY DEF Before
  <2> QED BY <1>1, <2>1, FS_Subset, FS_CardinalityType
<1>3. Removed(ps) \subseteq DOMAIN ps
  BY DEF Removed
<1>4. ASSUME NEW t \in Removed(ps), NEW u \in DOMAIN ps, u <= t PROVE u \in Removed(ps)
  <2>1. t \in DOMAIN ps /\ MaxSignalChanges # 0 /\ Cardinality(Before(ps, t)) < n - MaxSignalChanges
    BY DEF Removed
  <2>2. Before(ps, u) \subseteq Before(ps, t)
    <3>1. \A v \in DOMAIN ps : v \in Int
      BY TimesAreNatural
    <3>2. \A v \in DOMAIN ps : v < u => v < t
      BY <1>4, <2>1, <3>1
    <3> QED BY <3>2 DEF Before
  <2>3. Cardinality(Before(ps, u)) <= Cardinality(Before(ps, t))
    BY <1>2, <2>2, FS_Subset
  <2>4. MaxSignalChanges \in Nat
    BY SignalsAssumption DEF SignalsAssumption
  <2>5. Cardinality(Before(ps, u)) < n - MaxSignalChanges
    <3>1. \A a, b \in Nat : \A c \in Int : a <= b /\ b < c => a < c
      OBVIOUS
    <3>2. n - MaxSignalChanges \in Int
      BY <1>1, <2>4
    <3> QED BY <1>2, <2>1, <2>3, <3>1, <3>2
  <2> QED BY <2>1, <2>5 DEF Removed
<1>5. ASSUME ~Collects(ps) PROVE Removed(ps) = {}
  <2>1. CASE MaxSignalChanges = 0
    BY <2>1 DEF Removed
  <2>2. CASE MaxSignalChanges # 0
    <3>1. ~(n >= MaxSignalChanges) /\ MaxSignalChanges \in Nat
      BY <1>5, <2>2, SignalsAssumption DEF Collects, SignalsAssumption
    <3>2. \A a \in Nat : ~(a < n - MaxSignalChanges)
      BY <1>1, <3>1
    <3>3. \A t : ~(Cardinality(Before(ps, t)) < n - MaxSignalChanges)
      BY <1>2, <3>2
    <3> QED BY <2>2, <3>3 DEF Removed
  <2> QED BY <2>1, <2>2
<1> QED BY <1>3, <1>4, <1>5

\* The state from a point on.
LEMMA StateAfterPoint ==
  ASSUME NEW ps, Consistent(ps), NEW t \in DOMAIN ps, NEW s \in KeptSignals
  PROVE  RowState(Changes(ps), s, t + 1) = Get(After(ps[t]), s)
<1>1. DOMAIN ps \subseteq Times /\ DOMAIN Changes(ps) = DOMAIN ps /\ t \in Int
  BY TimesAreNatural DEF Consistent, Changes
<1>2. Get(After(ps[t]), s) = IF s \in DOMAIN ps[t].changes THEN ps[t].changes[s] ELSE Get(ps[t].prev, s)
  BY GetUpdated DEF After
<1>3. Get(ps[t].prev, s) = RowState(Changes(ps), s, t)
  BY DEF Consistent
<1>4. Changes(ps)[t] = ps[t].changes
  BY DEF Changes
<1>5. \A v \in Times : v \in Int /\ (v < t + 1 <=> v <= t)
  BY <1>1, TimesAreNatural
<1>6. CASE s \in DOMAIN ps[t].changes
  <2>1. t < t + 1
    BY <1>1
  <2>2. t \in ChangeBefore(Changes(ps), s, t + 1)
    BY <1>1, <1>4, <1>6, <2>1 DEF ChangeBefore
  <2>3. \A v \in ChangeBefore(Changes(ps), s, t + 1) : v <= t
    BY <1>1, <1>5 DEF ChangeBefore
  <2>4. RowState(Changes(ps), s, t + 1) = Changes(ps)[t][s]
    BY <1>1, <2>2, <2>3, LastChangeIs
  <2> QED BY <1>2, <1>4, <1>6, <2>4
<1>7. CASE s \notin DOMAIN ps[t].changes
  <2>1. \A v \in Times : t <= v /\ v < t + 1 => v = t
    BY <1>1, <1>5
  <2>2. \A v \in Times : t <= v /\ v < t + 1 => ~Names(Changes(ps), v, s)
    BY <1>4, <1>7, <2>1 DEF Names
  <2>3. t + 1 \in Int /\ t <= t + 1
    BY <1>1
  <2>4. RowState(Changes(ps), s, t + 1) = RowState(Changes(ps), s, t)
    BY <1>1, <2>2, <2>3, NoChangeSince
  <2> QED BY <1>2, <1>3, <1>7, <2>4
<1> QED BY <1>6, <1>7

\* Whether gc leaves nothing to tell at t.
Gone(ps, t) ==
  LET left == DOMAIN ps \ Removed(ps)
  IN  Removed(ps) # {} /\ (left = {} \/ t < Min(left))

\* The first point that remains tells the states by itself.
LEMMA CollectedFromFirst ==
  ASSUME NEW ps, Consistent(ps), NEW c, c = Collected(ps), Collects(ps),
         NEW left, left = DOMAIN ps \ Removed(ps), NEW first, first = Min(left), left # {}
  PROVE  /\ DOMAIN c = left /\ first \in left /\ \A t \in left : first <= t
         /\ \A t \in left : t # first => c[t] = ps[t]
         /\ \A s \in KeptSignals : Get(c[first].prev, s) = 0
         /\ \A s \in KeptSignals : \A t \in Int :
              RowState(Changes(c), s, t) = IF t <= first THEN 0 ELSE RowState(Changes(ps), s, t)
<1>1. left \subseteq Times /\ left \subseteq Nat /\ DOMAIN ps \subseteq Times
  BY TimesAreNatural DEF Consistent
<1>2. first \in left /\ \A t \in left : first <= t
  BY <1>1, MinIsLeast
<1>3. c = [Restrict(ps, left) EXCEPT ![first] = [prev |-> NoSignals, changes |-> After(ps[first])]]
  BY DEF Collected
<1>4. /\ DOMAIN c = left /\ \A t \in left : t # first => c[t] = ps[t]
      /\ c[first] = [prev |-> NoSignals, changes |-> After(ps[first])]
  BY <1>2, <1>3 DEF Restrict
<1>5. \A s : Get(c[first].prev, s) = 0
  BY <1>4 DEF Get, NoSignals
<1> DEFINE rs == Changes(ps)
           rc == Changes(c)
<1>6. /\ DOMAIN rc = left /\ DOMAIN rs = DOMAIN ps
      /\ \A t \in left : t # first => rc[t] = rs[t]
      /\ rc[first] = After(ps[first])
  BY <1>2, <1>4 DEF Changes
<1>7. ASSUME NEW s \in KeptSignals, NEW t \in Int, t <= first PROVE RowState(rc, s, t) = 0
  <2>1. \A u \in left : ~(u < t)
    BY <1>1, <1>2, <1>7
  <2>2. ChangeBefore(rc, s, t) = {}
    BY <1>6, <2>1 DEF ChangeBefore
  <2> QED BY <2>2 DEF RowState
<1>8. first \in Int /\ first + 1 \in Int /\ \A u \in Times : u \in Int
  BY <1>1, <1>2, TimesAreNatural
<1>9. ASSUME NEW s \in KeptSignals PROVE RowState(rc, s, first + 1) = Get(After(ps[first]), s)
  <2>1. CASE s \in DOMAIN After(ps[first])
    <3>1. first < first + 1
      BY <1>8
    <3>2. first \in ChangeBefore(rc, s, first + 1)
      BY <1>2, <1>6, <2>1, <3>1 DEF ChangeBefore
    <3>3. \A v \in ChangeBefore(rc, s, first + 1) : v <= first
      BY <1>1, <1>6, <1>8 DEF ChangeBefore
    <3>4. DOMAIN rc \subseteq Times
      BY <1>1, <1>6
    <3> HIDE DEF rc
    <3>5. RowState(rc, s, first + 1) = rc[first][s]
      BY ZenonT(40), <3>2, <3>3, <3>4, LastChangeIs
    <3> QED BY <1>6, <2>1, <3>5 DEF Get
  <2>2. CASE s \notin DOMAIN After(ps[first])
    <3>1. ASSUME NEW u \in left, u < first + 1 PROVE u = first
      <4>1. u \in Int /\ first <= u
        BY <1>1, <1>2
      <4> QED BY <1>8, <3>1, <4>1
    <3>2. ChangeBefore(rc, s, first + 1) = {}
      BY <1>6, <2>2, <3>1 DEF ChangeBefore
    <3> QED BY <2>2, <3>2 DEF RowState, Get
  <2> QED BY <2>1, <2>2
<1>10. ASSUME NEW s \in KeptSignals, NEW t \in Int, ~(t <= first)
       PROVE  RowState(rc, s, t) = RowState(rs, s, t)
  <2>1. RowState(rs, s, first + 1) = RowState(rc, s, first + 1)
    BY <1>2, <1>9, StateAfterPoint
  <2>2. ASSUME NEW v \in Times, first + 1 <= v PROVE Agree(rs, rc, v, s)
    <3>1. v # first /\ ~(v <= first) /\ v \in Int
      BY <1>8, <2>2
    <3>2. v \in DOMAIN ps => v \in left
      <4>1. ASSUME v \in DOMAIN ps, v \in Removed(ps) PROVE FALSE
        <5>1. first \in DOMAIN ps /\ first \notin Removed(ps) /\ first <= v
          BY <1>2, <1>8, <3>1
        <5> QED BY <1>1, <4>1, <5>1, OldestAreRemoved
      <4> QED BY <4>1
    <3>3. v \in DOMAIN rs <=> v \in DOMAIN rc
      BY <1>6, <3>2
    <3> QED BY <1>6, <3>1, <3>3 DEF Agree, Names
  <2>3. first + 1 <= t
    BY <1>8, <1>10
  <2>4. DOMAIN rs \subseteq Times /\ DOMAIN rc \subseteq Times
    BY <1>1, <1>6
  <2> HIDE DEF rs, rc
  <2> DEFINE u == first + 1
  <2>5. u \in Int /\ u <= t /\ RowState(rs, s, u) = RowState(rc, s, u)
    BY <1>8, <2>1, <2>3
  <2>6. \A v \in Times : u <= v /\ v < t => Agree(rs, rc, v, s)
    BY <2>2
  <2> HIDE DEF u
  <2> QED BY <2>4, <2>5, <2>6, SameSince
<1> QED BY <1>2, <1>4, <1>5, <1>7, <1>10

LEMMA CollectedIsConsistent ==
  ASSUME NEW ps, Consistent(ps), NEW c, c = Collected(ps)
  PROVE  /\ Consistent(c)
         /\ \A s \in KeptSignals : \A t \in Times :
              RowState(Changes(c), s, t + 1)
                = IF Gone(ps, t) THEN 0 ELSE RowState(Changes(ps), s, t + 1)
         /\ \A t \in Times \ CollectedTimes(ps) : \A s \in Signals :
              Agree(Changes(ps), Changes(c), t, s)
<1> DEFINE left == DOMAIN ps \ Removed(ps)
<1>1. DOMAIN ps \subseteq Times /\ Removed(ps) \subseteq DOMAIN ps /\ (~Collects(ps) => Removed(ps) = {})
  BY OldestAreRemoved DEF Consistent
<1>2. CASE ~Collects(ps)
  <2>1. Removed(ps) = {} /\ left = DOMAIN ps
    BY <1>1, <1>2
  <2>2. c = Restrict(ps, DOMAIN ps)
    BY <1>2, <2>1 DEF Collected
  <2>3. DOMAIN c = DOMAIN ps /\ \A t \in DOMAIN ps : c[t] = ps[t]
    BY <2>2 DEF Restrict
  <2>4. Changes(c) = Changes(ps)
    BY <2>3 DEF Changes
  <2>5. \A t : ~Gone(ps, t)
    BY <2>1 DEF Gone
  <2> QED BY <1>1, <2>3, <2>4, <2>5 DEF Consistent, Agree
<1>3. CASE Collects(ps) /\ left = {}
  <2>1. c = Restrict(ps, {})
    BY <1>3 DEF Collected
  <2>2. DOMAIN c = {} /\ DOMAIN Changes(c) = {}
    BY <2>1 DEF Restrict, Changes
  <2>3. \A s, t : RowState(Changes(c), s, t) = 0
    BY <2>2 DEF RowState, ChangeBefore
  <2>4. ASSUME NEW t, ~Gone(ps, t), NEW s PROVE RowState(Changes(ps), s, t + 1) = 0
    <3>1. DOMAIN ps = {}
      BY <1>3, <2>4 DEF Gone
    <3> QED BY <3>1 DEF RowState, ChangeBefore, Changes
  <2>5. ASSUME NEW t, t \notin CollectedTimes(ps), NEW s PROVE Agree(Changes(ps), Changes(c), t, s)
    <3>1. t \notin DOMAIN ps
      BY <1>3, <2>5 DEF CollectedTimes
    <3> QED BY <2>2, <3>1 DEF Agree, Names, Changes
  <2> QED BY <2>2, <2>3, <2>4, <2>5 DEF Consistent
<1>4. CASE Collects(ps) /\ left # {}
  <2> DEFINE first == Min(left)
  <2>1. /\ DOMAIN c = left /\ first \in left /\ \A t \in left : first <= t
        /\ \A t \in left : t # first => c[t] = ps[t]
        /\ \A s \in KeptSignals : Get(c[first].prev, s) = 0
        /\ \A s \in KeptSignals : \A t \in Int :
             RowState(Changes(c), s, t) = IF t <= first THEN 0 ELSE RowState(Changes(ps), s, t)
    BY <1>4, CollectedFromFirst
  <2>2. first \in Int /\ \A t \in Times : t \in Int
    BY <1>1, <2>1, TimesAreNatural
  <2>3. \A t : Gone(ps, t) <=> Removed(ps) # {} /\ t < first
    BY <1>4 DEF Gone
  <2>4. CollectedTimes(ps) = Removed(ps) \cup {t \in left : \A u \in left : t <= u}
    BY <1>4 DEF CollectedTimes
  <2> HIDE DEF first
  <2>5. ASSUME NEW t \in DOMAIN c, NEW s \in KeptSignals
        PROVE  Get(c[t].prev, s) = RowState(Changes(c), s, t)
    <3>1. t \in Int
      BY <1>1, <2>1, <2>2
    <3>2. CASE t = first
      BY <2>1, <2>2, <3>2
    <3>3. CASE t # first
      <4>1. c[t] = ps[t] /\ t \in DOMAIN ps /\ ~(t <= first)
        BY <2>1, <2>2, <3>1, <3>3
      <4>2. Get(ps[t].prev, s) = RowState(Changes(ps), s, t)
        BY <4>1 DEF Consistent
      <4> QED BY <2>1, <3>1, <4>1, <4>2
    <3> QED BY <3>2, <3>3
  <2>6. ASSUME NEW s \in KeptSignals, NEW t \in Times
        PROVE  RowState(Changes(c), s, t + 1)
                 = IF Gone(ps, t) THEN 0 ELSE RowState(Changes(ps), s, t + 1)
    <3>1. t + 1 \in Int /\ (t + 1 <= first <=> t < first)
      BY <2>2
    <3>2. RowState(Changes(c), s, t + 1)
            = IF t < first THEN 0 ELSE RowState(Changes(ps), s, t + 1)
      BY <2>1, <3>1
    <3>3. CASE t < first /\ Removed(ps) = {}
      <4>1. \A u \in DOMAIN ps : ~(u < t + 1)
        BY <1>1, <2>1, <2>2, <3>3
      <4>2. ChangeBefore(Changes(ps), s, t + 1) = {}
        BY <4>1 DEF ChangeBefore, Changes
      <4> QED BY <3>2, <3>3, <4>2 DEF RowState
    <3> QED BY <2>3, <3>2, <3>3
  <2>7. ASSUME NEW t, t \notin CollectedTimes(ps), NEW s PROVE Agree(Changes(ps), Changes(c), t, s)
    <3>1. t # first
      BY <2>1, <2>4, <2>7
    <3>2. t \in DOMAIN ps <=> t \in DOMAIN c
      BY <2>1, <2>4, <2>7
    <3>3. t \in DOMAIN ps => c[t] = ps[t]
      BY <2>1, <3>1, <3>2
    <3> QED BY <3>2, <3>3, SamePoint
  <2>8. DOMAIN c \subseteq Times
    BY <1>1, <2>1
  <2> QED BY <2>5, <2>6, <2>7, <2>8 DEF Consistent
<1> QED BY <1>2, <1>3, <1>4

-----------------------------------------------------------------------------
(* Each state other than 0 ends, for signal 0 as well.                     *)

LEMMA StateAfterEnds ==
  ASSUME NEW ps, DOMAIN ps \subseteq Times, Ended(ps), NEW t \in DOMAIN ps, NEW s \in Signals,
         Get(After(ps[t]), s) # 0
  PROVE  ChangesAfter(ps, t, s)
<1>1. Get(After(ps[t]), s) = IF s \in DOMAIN ps[t].changes THEN ps[t].changes[s] ELSE Get(ps[t].prev, s)
  BY GetUpdated DEF After
<1>2. CASE s \in DOMAIN ps[t].changes
  BY <1>1, <1>2 DEF Ended
<1>3. CASE s \notin DOMAIN ps[t].changes
  <2>1. PICK u \in DOMAIN ps : t <= u /\ s \in DOMAIN ps[u].changes
    BY <1>1, <1>3 DEF Ended, ChangesFrom
  <2>2. u # t /\ u \in Int /\ t \in Int
    BY <1>3, <2>1, TimesAreNatural
  <2>3. t < u
    BY <2>1, <2>2
  <2> QED BY <2>1, <2>3 DEF ChangesAfter
<1> QED BY <1>2, <1>3

LEMMA StateBeforeEnds ==
  ASSUME NEW ps, DOMAIN ps \subseteq Times, Ended(ps), NEW t \in Int, NEW s \in Signals,
         Get(StateBefore(ps, t), s) # 0
  PROVE  ChangesFrom(ps, t, s)
<1>1. Before(ps, t) # {}
  BY DEF StateBefore, Get, NoSignals
<1> DEFINE m == Max(Before(ps, t))
<1>2. Before(ps, t) \subseteq 0..MaxTime /\ MaxTime \in Nat
  BY TimesAreNatural DEF Before
<1>3. m \in Before(ps, t) /\ \A u \in Before(ps, t) : u <= m
  BY <1>1, <1>2, MaxIsGreatest
<1>4. StateBefore(ps, t) = After(ps[m])
  BY <1>1 DEF StateBefore
<1> HIDE DEF m
<1>5. PICK u \in DOMAIN ps : m < u /\ s \in DOMAIN ps[u].changes
  BY <1>3, <1>4, StateAfterEnds DEF Before, ChangesAfter
<1>6. u \in Int /\ m \in Int
  BY <1>2, <1>3, TimesAreNatural
<1>7. u \notin Before(ps, t)
  BY <1>3, <1>5, <1>6
<1>8. t <= u
  BY <1>6, <1>7 DEF Before
<1> QED BY <1>5, <1>8 DEF ChangesFrom

LEMMA UpdateMakesPoints ==
  ASSUME NEW ps, NEW start, NEW end, NEW new, Update(ps, start, end, new),
         NEW p, p = UpdatePoints(ps, start, end, new)
  PROVE  /\ \A t \in DOMAIN p : end < t => t \in DOMAIN ps /\ p[t] = ps[t]
         /\ \A t \in DOMAIN p : \A s : s \notin DOMAIN new =>
              Get(p[t].prev, s) = Get(IF t \in DOMAIN ps THEN ps[t].prev ELSE StateBefore(ps, t), s)
         /\ \A s \in DOMAIN new :
              \/ Agree(Changes(ps), Changes(p), end, s) /\ Names(Changes(ps), end, s)
              \/ /\ ~Names(Changes(ps), end, s)
                 /\ IF Names(Changes(p), end, s)
                    THEN Changes(p)[end][s] = Get(PrevAtEnd(ps, end), s)
                    ELSE Get(PrevAtEnd(ps, end), s) # 0
<1> DEFINE q == UpdateEnd(ps, end, new)
           r == UpdateStart(q, start, new)
           inside == Inside(r, start, end)
<1>1. start \in Int /\ end \in Int /\ start < end /\ start # end
  BY TimesAreNatural DEF Update
<1>2. /\ DOMAIN ps \subseteq DOMAIN q /\ DOMAIN q \subseteq DOMAIN ps \cup {end}
      /\ \A t \in DOMAIN q : t # end => q[t] = ps[t]
      /\ end \in DOMAIN q =>
           \A s : Get(q[end].prev, s)
                    = IF s \in DOMAIN new THEN new[s] ELSE Get(PrevAtEnd(ps, end), s)
      /\ \A s :
           \/ Agree(Changes(ps), Changes(q), end, s)
                /\ (s \in DOMAIN new => Names(Changes(ps), end, s))
           \/ s \in DOMAIN new /\ ~Names(Changes(ps), end, s)
                /\ IF Names(Changes(q), end, s)
                   THEN Changes(q)[end][s] = Get(PrevAtEnd(ps, end), s)
                   ELSE new[s] = Get(PrevAtEnd(ps, end), s) /\ new[s] # 0
  BY UpdateEndStep
<1>3. /\ DOMAIN q \subseteq DOMAIN r /\ DOMAIN r \subseteq DOMAIN q \cup {start}
      /\ \A t \in DOMAIN r : t # start => r[t] = q[t]
      /\ start \in DOMAIN r =>
           r[start].prev = IF start \in DOMAIN ps THEN ps[start].prev ELSE StateBefore(ps, start)
  BY <1>2, UpdateStartStep
<1>4. p = UpdateMiddle(r, start, end, new)
  BY DEF UpdatePoints
<1>5. /\ DOMAIN p \subseteq DOMAIN r
      /\ \A t \in DOMAIN r : t \notin inside => t \in DOMAIN p /\ p[t] = r[t]
      /\ \A t \in DOMAIN p : t \in inside =>
           \A s : Get(p[t].prev, s) = IF s \in DOMAIN new THEN new[s] ELSE Get(r[t].prev, s)
  BY <1>4, UpdateMiddleStep
<1>6. inside = {t \in DOMAIN r : start < t /\ t < end}
  BY DEF Inside
<1>7. DOMAIN ps \subseteq Times /\ start \in Times /\ end \in Times
  BY DEF Update, Consistent
<1>8. PrevAtEnd(ps, end) = IF end \in DOMAIN ps THEN ps[end].prev ELSE StateBefore(ps, end)
  BY DEF PrevAtEnd
<1> HIDE DEF q, r, inside
<1>9. end \notin inside /\ start \notin inside
  BY <1>1, <1>6
<1>10. ASSUME NEW t \in DOMAIN p, t # end, t # start
       PROVE  t \in DOMAIN ps /\ r[t] = ps[t]
  BY <1>2, <1>3, <1>5, <1>10
<1>11. ASSUME NEW t \in DOMAIN p, end < t PROVE t \in DOMAIN ps /\ p[t] = ps[t]
  <2>1. t \in Int
    BY <1>2, <1>3, <1>5, <1>7, TimesAreNatural
  <2>2. t # end /\ t # start /\ t \notin inside
    BY <1>1, <1>6, <1>11, <2>1
  <2> QED BY <1>5, <1>10, <2>2
<1>12. ASSUME NEW t \in DOMAIN p, NEW s, s \notin DOMAIN new
       PROVE  Get(p[t].prev, s) = Get(IF t \in DOMAIN ps THEN ps[t].prev ELSE StateBefore(ps, t), s)
  <2>1. CASE t = end
    <3>1. end \in DOMAIN q /\ p[end] = q[end]
      BY <1>1, <1>3, <1>5, <1>9, <2>1
    <3> QED BY <1>2, <1>8, <1>12, <2>1, <3>1
  <2>2. CASE t = start
    <3>1. p[start] = r[start] /\ start \in DOMAIN r
      BY <1>5, <1>9, <2>2
    <3> QED BY <1>3, <2>2, <3>1
  <2>3. CASE t # end /\ t # start
    <3>1. t \in DOMAIN ps /\ r[t] = ps[t] /\ t \in DOMAIN r
      BY <1>5, <1>10, <2>3
    <3> QED BY <1>5, <1>12, <3>1
  <2> QED BY <2>1, <2>2, <2>3
<1>13. ASSUME NEW s \in DOMAIN new
       PROVE  \/ Agree(Changes(ps), Changes(p), end, s) /\ Names(Changes(ps), end, s)
              \/ /\ ~Names(Changes(ps), end, s)
                 /\ IF Names(Changes(p), end, s)
                    THEN Changes(p)[end][s] = Get(PrevAtEnd(ps, end), s)
                    ELSE Get(PrevAtEnd(ps, end), s) # 0
  <2>1. Agree(Changes(q), Changes(p), end, s)
    <3>1. /\ end \in DOMAIN q <=> end \in DOMAIN p
          /\ end \in DOMAIN q => p[end] = q[end]
      BY <1>1, <1>3, <1>5, <1>9
    <3> QED BY <3>1, SamePoint
  <2>2. \/ Agree(Changes(ps), Changes(q), end, s) /\ Names(Changes(ps), end, s)
        \/ /\ ~Names(Changes(ps), end, s)
           /\ IF Names(Changes(q), end, s)
              THEN Changes(q)[end][s] = Get(PrevAtEnd(ps, end), s)
              ELSE Get(PrevAtEnd(ps, end), s) # 0
    BY <1>2
  <2> QED BY <2>1, <2>2 DEF Agree
<1> QED BY <1>11, <1>12, <1>13

LEMMA UpdateKeepsEnded ==
  ASSUME NEW ps, NEW start, NEW end, NEW new, Update(ps, start, end, new), Ended(ps),
         NEW p, p = UpdatePoints(ps, start, end, new)
  PROVE  Ended(p)
<1> DEFINE rs == Changes(ps)
           rp == Changes(p)
           from(t) == IF t \in DOMAIN ps THEN ps[t].prev ELSE StateBefore(ps, t)
<1>1. /\ DOMAIN p \subseteq Times /\ ChangesMade(rs, start, end, new, rp)
      /\ DOMAIN ps \subseteq Times /\ end \in Times
  BY UpdateMakesChanges DEF Update, Consistent
<1>2. /\ \A t \in DOMAIN p : end < t => t \in DOMAIN ps /\ p[t] = ps[t]
      /\ \A t \in DOMAIN p : \A s : s \notin DOMAIN new => Get(p[t].prev, s) = Get(from(t), s)
      /\ \A s \in DOMAIN new :
           \/ Agree(rs, rp, end, s) /\ Names(rs, end, s)
           \/ /\ ~Names(rs, end, s)
              /\ IF Names(rp, end, s) THEN rp[end][s] = Get(from(end), s)
                 ELSE Get(from(end), s) # 0
  BY UpdateMakesPoints DEF PrevAtEnd
<1>3. \A t \in Times : t \in Int
  BY TimesAreNatural
<1>4. ASSUME NEW t \in Times, NEW s \in Signals, Get(from(t), s) # 0 PROVE ChangesFrom(ps, t, s)
  BY <1>1, <1>3, <1>4, StateBeforeEnds DEF Ended
<1>5. /\ \A t, s : Names(rs, t, s) <=> t \in DOMAIN ps /\ s \in DOMAIN ps[t].changes
      /\ \A t, s : Names(rp, t, s) <=> t \in DOMAIN p /\ s \in DOMAIN p[t].changes
      /\ \A t \in DOMAIN ps : rs[t] = ps[t].changes
      /\ \A t \in DOMAIN p : rp[t] = p[t].changes
  BY DEF Names, Changes
<1> HIDE DEF rs, rp, from
\* A signal that the update does not name.
<1>6. ASSUME NEW s \in Signals, s \notin DOMAIN new, NEW t \in DOMAIN p
      PROVE  /\ Get(p[t].prev, s) # 0 => ChangesFrom(p, t, s)
             /\ s \in DOMAIN p[t].changes /\ p[t].changes[s] # 0 => ChangesAfter(p, t, s)
  <2>1. \A u \in Times : Agree(rs, rp, u, s)
    BY <1>1, <1>6 DEF ChangesMade
  <2>2. \A u \in Times : u \in DOMAIN ps /\ s \in DOMAIN ps[u].changes
                            <=> u \in DOMAIN p /\ s \in DOMAIN p[u].changes
    BY <1>5, <2>1 DEF Agree
  <2>3. Get(p[t].prev, s) # 0 => ChangesFrom(p, t, s)
    <3>1. SUFFICES ASSUME Get(p[t].prev, s) # 0 PROVE ChangesFrom(p, t, s)
      OBVIOUS
    <3>2. Get(from(t), s) # 0
      BY <1>2, <1>6, <3>1
    <3>3. ChangesFrom(ps, t, s)
      BY <1>1, <1>4, <3>2
    <3> QED BY <1>1, <2>2, <3>3 DEF ChangesFrom
  <2>4. s \in DOMAIN p[t].changes /\ p[t].changes[s] # 0 => ChangesAfter(p, t, s)
    <3>1. SUFFICES ASSUME s \in DOMAIN p[t].changes, p[t].changes[s] # 0
                   PROVE  ChangesAfter(p, t, s)
      OBVIOUS
    <3>2. t \in DOMAIN ps /\ s \in DOMAIN ps[t].changes /\ ps[t].changes[s] # 0
      BY <1>1, <1>5, <2>1, <3>1 DEF Agree
    <3>3. ChangesAfter(ps, t, s)
      BY <3>2 DEF Ended
    <3> QED BY <1>1, <2>2, <3>3 DEF ChangesAfter
  <2> QED BY <2>3, <2>4
\* A signal that it names changes at the end of the range, or later.
<1>7. ASSUME NEW s \in Signals, s \in DOMAIN new, NEW t \in DOMAIN p
      PROVE  /\ Get(p[t].prev, s) # 0 => ChangesFrom(p, t, s)
             /\ s \in DOMAIN p[t].changes /\ p[t].changes[s] # 0 => ChangesAfter(p, t, s)
  <2>1. \A u \in Times : end < u => Agree(rs, rp, u, s)
    BY <1>1 DEF ChangesMade
  <2>2. \A u \in Times : end < u => (u \in DOMAIN ps /\ s \in DOMAIN ps[u].changes
                                         <=> u \in DOMAIN p /\ s \in DOMAIN p[u].changes)
    BY <1>5, <2>1 DEF Agree
  <2>3. \/ Agree(rs, rp, end, s) /\ Names(rs, end, s)
        \/ /\ ~Names(rs, end, s)
           /\ IF Names(rp, end, s) THEN rp[end][s] = Get(from(end), s)
              ELSE Get(from(end), s) # 0
    BY <1>2, <1>7
  <2>4. ASSUME ~Names(rs, end, s), Get(from(end), s) # 0 PROVE ChangesAfter(p, end, s)
    <3>1. PICK u \in DOMAIN ps : end <= u /\ s \in DOMAIN ps[u].changes
      BY <1>1, <1>4, <2>4 DEF ChangesFrom
    <3>2. u # end /\ u \in Times /\ u \in Int /\ end \in Int
      BY <1>1, <1>3, <1>5, <2>4, <3>1
    <3>3. end < u
      BY <3>1, <3>2
    <3> QED BY <2>2, <3>1, <3>2, <3>3 DEF ChangesAfter
  <2>5. ChangesFrom(p, end, s)
    <3>1. CASE Names(rp, end, s)
      <4>1. end \in DOMAIN p /\ s \in DOMAIN p[end].changes
        BY <1>5, <3>1
      <4>2. end <= end
        BY <1>1, <1>3
      <4> QED BY <4>1, <4>2 DEF ChangesFrom
    <3>2. CASE ~Names(rp, end, s)
      <4>1. ChangesAfter(p, end, s)
        BY <2>3, <2>4, <3>2 DEF Agree
      <4>2. \A u \in DOMAIN p : end < u => end <= u
        BY <1>1, <1>3
      <4> QED BY <4>1, <4>2 DEF ChangesAfter, ChangesFrom
    <3> QED BY <3>1, <3>2
  <2>6. t \in Times /\ t \in Int /\ end \in Int
    BY <1>1, <1>3
  <2>7. CASE t < end
    <3>1. ASSUME NEW u \in DOMAIN p, end <= u PROVE t < u /\ t <= u
      <4>1. u \in Int
        BY <1>1, <1>3
      <4> QED BY <2>6, <2>7, <3>1, <4>1
    <3> QED BY <2>5, <3>1 DEF ChangesFrom, ChangesAfter
  <2>8. CASE t = end
    <3>1. SUFFICES ASSUME s \in DOMAIN p[end].changes, p[end].changes[s] # 0
                   PROVE  ChangesAfter(p, end, s)
      BY <2>5, <2>8
    <3>2. Names(rp, end, s) /\ rp[end][s] # 0
      BY <1>5, <2>8, <3>1
    <3>3. CASE Agree(rs, rp, end, s) /\ Names(rs, end, s)
      <4>1. end \in DOMAIN ps /\ s \in DOMAIN ps[end].changes /\ ps[end].changes[s] # 0
        BY <1>5, <3>2, <3>3 DEF Agree
      <4>2. PICK u \in DOMAIN ps : end < u /\ s \in DOMAIN ps[u].changes
        BY <4>1 DEF Ended, ChangesAfter
      <4> QED BY <1>1, <2>2, <4>2 DEF ChangesAfter
    <3>4. CASE ~Names(rs, end, s)
      <4>1. Get(from(end), s) # 0
        BY <2>3, <3>2, <3>4
      <4> QED BY <2>4, <3>4, <4>1
    <3> QED BY <2>3, <3>3, <3>4
  <2>9. CASE end < t
    <3>1. t \in DOMAIN ps /\ p[t] = ps[t]
      BY <1>2, <2>9
    <3>2. ASSUME NEW u \in DOMAIN ps, t <= u \/ t < u PROVE end < u
      <4>1. u \in Int
        BY <1>1, <1>3
      <4> QED BY <2>6, <2>9, <3>2, <4>1
    <3>3. ChangesFrom(ps, t, s) => ChangesFrom(p, t, s)
      BY <1>1, <2>2, <3>2 DEF ChangesFrom
    <3>4. ChangesAfter(ps, t, s) => ChangesAfter(p, t, s)
      BY <1>1, <2>2, <3>2 DEF ChangesAfter
    <3> QED BY <3>1, <3>3, <3>4 DEF Ended
  <2>10. t < end \/ t = end \/ end < t
    BY <2>6
  <2> QED BY <2>7, <2>8, <2>9, <2>10
<1> QED BY <1>6, <1>7 DEF Ended

LEMMA CollectedKeepsEnded ==
  ASSUME NEW ps, Consistent(ps), Ended(ps), NEW c, c = Collected(ps)
  PROVE  Ended(c)
<1> DEFINE left == DOMAIN ps \ Removed(ps)
<1>1. DOMAIN ps \subseteq Times /\ Removed(ps) \subseteq DOMAIN ps /\ (~Collects(ps) => Removed(ps) = {})
  BY OldestAreRemoved DEF Consistent
<1>2. CASE ~Collects(ps)
  <2>1. c = Restrict(ps, DOMAIN ps)
    BY <1>1, <1>2 DEF Collected
  <2>2. DOMAIN c = DOMAIN ps /\ \A t \in DOMAIN ps : c[t] = ps[t]
    BY <2>1 DEF Restrict
  <2> QED BY <2>2 DEF Ended, ChangesFrom, ChangesAfter
<1>3. CASE Collects(ps) /\ left = {}
  <2>1. DOMAIN c = {}
    BY <1>3 DEF Collected, Restrict
  <2> QED BY <2>1 DEF Ended
<1>4. CASE Collects(ps) /\ left # {}
  <2> DEFINE first == Min(left)
  <2>1. left \subseteq Times /\ left \subseteq Nat
    BY <1>1, TimesAreNatural
  <2>2. first \in left /\ \A t \in left : first <= t
    BY <1>4, <2>1, MinIsLeast
  <2>3. c = [Restrict(ps, left) EXCEPT ![first] = [prev |-> NoSignals, changes |-> After(ps[first])]]
    BY <1>4 DEF Collected
  <2>4. /\ DOMAIN c = left /\ \A t \in left : t # first => c[t] = ps[t]
        /\ c[first] = [prev |-> NoSignals, changes |-> After(ps[first])]
    BY <2>2, <2>3 DEF Restrict
  <2>5. ASSUME NEW t \in left, NEW u \in DOMAIN ps, t <= u
        PROVE  u \in left
    BY <1>1, <2>5, OldestAreRemoved
  <2>6. first \in Int /\ \A u \in DOMAIN ps : u \in Int
    BY <1>1, <2>2, TimesAreNatural
  <2> HIDE DEF first
  <2>7. ASSUME NEW s, NEW t \in left, ChangesAfter(ps, t, s) PROVE ChangesAfter(c, t, s)
    <3>1. PICK u \in DOMAIN ps : t < u /\ s \in DOMAIN ps[u].changes
      BY <2>7 DEF ChangesAfter
    <3>2. t \in Int /\ u \in Int /\ first <= t /\ first \in Int
      BY <2>2, <2>6
    <3>3. t <= u /\ u # first
      BY <3>1, <3>2
    <3>4. u \in left /\ c[u] = ps[u]
      BY <2>4, <2>5, <3>3
    <3> QED BY <2>4, <3>1, <3>4 DEF ChangesAfter
  <2>8. ASSUME NEW s \in Signals
        PROVE  /\ Get(c[first].prev, s) = 0
               /\ s \in DOMAIN c[first].changes /\ c[first].changes[s] # 0
                    => ChangesAfter(c, first, s)
    <3>1. Get(c[first].prev, s) = 0
      BY <2>4 DEF Get, NoSignals
    <3>2. s \in DOMAIN c[first].changes => c[first].changes[s] = Get(After(ps[first]), s)
      BY <2>4 DEF Get
    <3>3. Get(After(ps[first]), s) # 0 => ChangesAfter(ps, first, s)
      BY <1>1, <2>2, StateAfterEnds
    <3> QED BY <2>2, <2>7, <3>1, <3>2, <3>3
  <2>9. ASSUME NEW t \in left, t # first, NEW s \in Signals
        PROVE  /\ Get(c[t].prev, s) # 0 => ChangesFrom(c, t, s)
               /\ s \in DOMAIN c[t].changes /\ c[t].changes[s] # 0 => ChangesAfter(c, t, s)
    <3>1. c[t] = ps[t] /\ t \in DOMAIN ps
      BY <2>4, <2>9
    <3>2. Get(ps[t].prev, s) # 0 => ChangesFrom(ps, t, s)
      BY <3>1 DEF Ended
    <3>3. s \in DOMAIN ps[t].changes /\ ps[t].changes[s] # 0 => ChangesAfter(ps, t, s)
      BY <3>1 DEF Ended
    <3>4. ASSUME ChangesFrom(ps, t, s) PROVE ChangesFrom(c, t, s)
      <4>1. PICK u \in DOMAIN ps : t <= u /\ s \in DOMAIN ps[u].changes
        BY <3>4 DEF ChangesFrom
      <4>2. t \in Int /\ u \in Int /\ first <= t /\ first \in Int
        BY <2>2, <2>6
      <4>3. u # first
        BY <2>9, <4>1, <4>2
      <4>4. u \in left /\ c[u] = ps[u]
        BY <2>4, <2>5, <4>1, <4>3
      <4> QED BY <2>4, <4>1, <4>4 DEF ChangesFrom
    <3> QED BY <2>7, <3>1, <3>2, <3>3, <3>4
  <2>10. ASSUME NEW t \in DOMAIN c, NEW s \in Signals
         PROVE  /\ Get(c[t].prev, s) # 0 => ChangesFrom(c, t, s)
                /\ s \in DOMAIN c[t].changes /\ c[t].changes[s] # 0 => ChangesAfter(c, t, s)
    BY <2>4, <2>8, <2>9
  <2> QED BY <2>10 DEF Ended
<1> QED BY <1>2, <1>3, <1>4

\* In the end each signal is in state 0, and changes that end so load as points
\* of which each state ends.
LEMMA EndedLoads ==
  ASSUME NEW ps, DOMAIN ps \subseteq Times, Ended(ps), NEW s \in Signals
  PROVE  RowState(Changes(ps), s, MaxTime + 1) = 0
<1> DEFINE rs == Changes(ps)
<1>1. CASE ChangeBefore(rs, s, MaxTime + 1) = {}
  BY <1>1 DEF RowState
<1>2. CASE ChangeBefore(rs, s, MaxTime + 1) # {}
  <2>1. DOMAIN rs \subseteq Times /\ DOMAIN rs = DOMAIN ps /\ \A t \in DOMAIN ps : rs[t] = ps[t].changes
    BY DEF Changes
  <2> HIDE DEF rs
  <2>2. PICK u \in ChangeBefore(rs, s, MaxTime + 1) :
          /\ RowState(rs, s, MaxTime + 1) = rs[u][s]
          /\ \A v \in ChangeBefore(rs, s, MaxTime + 1) : v <= u
    BY <1>2, <2>1, LastChange
  <2>3. u \in DOMAIN ps /\ s \in DOMAIN ps[u].changes /\ rs[u] = ps[u].changes
    BY <2>1, <2>2 DEF ChangeBefore
  <2>4. ASSUME ps[u].changes[s] # 0 PROVE FALSE
    <3>1. PICK v \in DOMAIN ps : u < v /\ s \in DOMAIN ps[v].changes
      BY <2>3, <2>4 DEF Ended, ChangesAfter
    <3>2. v \in Int /\ u \in Int /\ v < MaxTime + 1
      BY <2>3, TimesAreNatural
    <3>3. v \in ChangeBefore(rs, s, MaxTime + 1)
      BY <2>1, <3>1, <3>2 DEF ChangeBefore
    <3> QED BY <2>2, <3>1, <3>2, <3>3
  <2> QED BY <2>2, <2>3, <2>4 DEF rs
<1> QED BY <1>1, <1>2

LEMMA LoadedEnds ==
  ASSUME NEW rs, DOMAIN rs \subseteq Times, Loads(rs)
  PROVE  Ended(Loaded(rs))
<1> DEFINE ps == Loaded(rs)
<1>1. /\ DOMAIN ps = DOMAIN rs
      /\ \A t \in DOMAIN rs :
           /\ ps[t].changes = rs[t]
           /\ ps[t].prev = [s \in {s \in Signals : RowState(rs, s, t) # 0} |-> RowState(rs, s, t)]
  BY DEF Loaded
<1>2. \A t \in DOMAIN rs : \A s \in Signals : Get(ps[t].prev, s) = RowState(rs, s, t)
  BY <1>1 DEF Get
<1> HIDE DEF ps
<1> SUFFICES ASSUME NEW t \in DOMAIN rs, NEW s \in Signals
             PROVE  /\ RowState(rs, s, t) # 0 => ChangesFrom(ps, t, s)
                    /\ s \in DOMAIN rs[t] /\ rs[t][s] # 0 => ChangesAfter(ps, t, s)
  BY <1>1, <1>2 DEF Ended, ps
<1>3. t \in Int /\ MaxTime + 1 \in Int /\ t <= MaxTime + 1 /\ t < MaxTime + 1
  BY TimesAreNatural
<1>4. RowState(rs, s, MaxTime + 1) = 0
  BY DEF Loads
<1>5. ASSUME ~ChangesFrom(ps, t, s) PROVE RowState(rs, s, t) = 0
  <2>1. \A v \in Times : t <= v /\ v < MaxTime + 1 => ~Names(rs, v, s)
    BY <1>1, <1>5 DEF ChangesFrom, Names
  <2> QED BY <1>3, <1>4, <2>1, NoChangeSince
<1>6. ASSUME ~ChangesAfter(ps, t, s), s \in DOMAIN rs[t] PROVE rs[t][s] = 0
  <2>1. t \in ChangeBefore(rs, s, MaxTime + 1)
    BY <1>3, <1>6 DEF ChangeBefore
  <2>2. ASSUME NEW v \in ChangeBefore(rs, s, MaxTime + 1) PROVE v <= t
    <3>1. v \in DOMAIN rs /\ s \in DOMAIN rs[v] /\ v \in Int
      BY TimesAreNatural DEF ChangeBefore
    <3>2. ~(t < v)
      BY <1>1, <1>6, <3>1 DEF ChangesAfter
    <3> QED BY <1>3, <3>1, <3>2
  <2> QED BY <1>4, <2>1, <2>2, LastChangeIs
<1> QED BY <1>5, <1>6

-----------------------------------------------------------------------------
(* The steps.                                                              *)

LEMMA InitSignals == Init => Inv
<1> SUFFICES ASSUME Init PROVE Inv
  OBVIOUS
<1>1. DOMAIN points = {} /\ DOMAIN rows = {} /\ DOMAIN Changes(points) = {}
  BY DEF Init, NoMap, Changes
<1>2. \A s \in Signals : \A t \in Times : history[s][t] = 0 /\ durable[s][t] = 0
  BY DEF Init, NoHistory
<1>3. \A s, t : RowState(rows, s, t) = 0 /\ RowState(Changes(points), s, t) = 0
  BY <1>1 DEF RowState, ChangeBefore
<1>4. Ended(points) /\ Loads(rows)
  BY <1>1, <1>3 DEF Ended, Loads
<1>5. Consistent(points) /\ Told /\ Stored
  BY <1>1, <1>2, <1>3 DEF Consistent, Told, Stored, KeptSignals
<1>6. Written
  BY <1>1 DEF Written, Agree, Names
<1> QED BY <1>4, <1>5, <1>6 DEF Inv

LEMMA UpdateKeepsInv ==
  ASSUME Inv, NEW start \in Times, NEW end \in Times, NEW new \in Updates,
         UpdateSignals(start, end, new)
  PROVE  Inv'
<1> DEFINE p == UpdatePoints(points, start, end, new)
<1>1. /\ start < end /\ points' = Collected(p) /\ UNCHANGED <<rows, durable>>
      /\ dirty' = dirty \cup Dirtied(points, start, end, new) \cup CollectedTimes(p)
      /\ history' = Recorded(history, p, start, end, new)
  BY DEF UpdateSignals
<1>2. Update(points, start, end, new)
  BY <1>1 DEF Update, Inv, Updates, Maps
<1>3. /\ Consistent(p)
      /\ \A s \in KeptSignals : \A t \in Int :
           RowState(Changes(p), s, t)
             = IF s \in DOMAIN new /\ start < t /\ t <= end THEN new[s]
               ELSE RowState(Changes(points), s, t)
  BY <1>2, UpdateIsConsistent
<1>4. \A t \in Times \ Dirtied(points, start, end, new) : \A s \in Signals :
        Agree(Changes(points), Changes(p), t, s)
  BY <1>2, UpdateMakesChanges
<1>12. Ended(p)
  BY <1>2, UpdateKeepsEnded DEF Inv
<1> HIDE DEF p
<1>5. /\ Consistent(points')
      /\ \A s \in KeptSignals : \A t \in Times :
           RowState(Changes(points'), s, t + 1)
             = IF Gone(p, t) THEN 0 ELSE RowState(Changes(p), s, t + 1)
      /\ \A t \in Times \ CollectedTimes(p) : \A s \in Signals :
           Agree(Changes(p), Changes(points'), t, s)
  BY <1>1, <1>3, CollectedIsConsistent
<1>6. ASSUME NEW s \in Signals, NEW t \in Times
      PROVE  history'[s][t] = IF Gone(p, t) THEN 0
                              ELSE IF s \in DOMAIN new /\ start <= t /\ t < end THEN new[s]
                              ELSE history[s][t]
  BY <1>1 DEF Recorded, Gone
<1>13. KeptSignals \subseteq Signals
  BY DEF KeptSignals
<1>7. Told'
  <2>1. ASSUME NEW s \in KeptSignals, NEW t \in Times
        PROVE  RowState(Changes(points'), s, t + 1) = history'[s][t]
    <3>1. t + 1 \in Int /\ (start < t + 1 <=> start <= t) /\ (t + 1 <= end <=> t < end)
      BY TimesAreNatural
    <3>2. RowState(Changes(p), s, t + 1)
            = IF s \in DOMAIN new /\ start <= t /\ t < end THEN new[s] ELSE history[s][t]
      BY <1>3, <3>1 DEF Inv, Told
    <3> QED BY <1>5, <1>6, <1>13, <3>2
  <2> QED BY <2>1 DEF Told
<1>8. Written'
  <2>1. ASSUME NEW t \in Times, t \notin dirty', NEW s \in Signals
        PROVE  Agree(rows, Changes(points'), t, s)
    <3>1. t \notin dirty /\ t \notin Dirtied(points, start, end, new) /\ t \notin CollectedTimes(p)
      BY <1>1, <2>1
    <3>2. Agree(rows, Changes(points), t, s)
      BY <3>1 DEF Inv, Written
    <3>3. Agree(Changes(points), Changes(p), t, s) /\ Agree(Changes(p), Changes(points'), t, s)
      BY <1>4, <1>5, <3>1
    <3> QED BY <3>2, <3>3 DEF Agree
  <2> QED BY <1>1, <2>1 DEF Written
<1>9. Ended(points)' /\ Loads(rows)'
  <2>1. Ended(points')
    BY <1>1, <1>3, <1>12, CollectedKeepsEnded
  <2> QED BY <1>1, <2>1 DEF Inv, Loads
<1>10. Stored'
  BY <1>1 DEF Inv, Stored
<1>11. Consistent(points)'
  BY <1>5
<1> QED BY <1>7, <1>8, <1>9, <1>10, <1>11 DEF Inv

LEMMA FlushKeepsInv ==
  ASSUME Inv, Flush
  PROVE  Inv'
<1>1. /\ rows' = [t \in (DOMAIN rows \ dirty) \cup (dirty \cap DOMAIN points) |->
                    IF t \in dirty THEN points[t].changes ELSE rows[t]]
      /\ dirty' = {} /\ durable' = history /\ UNCHANGED <<points, history>>
  BY DEF Flush
<1>2. DOMAIN rows' \subseteq Times /\ DOMAIN Changes(points) \subseteq Times
  BY <1>1 DEF Inv, Stored, Consistent, Changes
<1>3. ASSUME NEW t \in Times, NEW s \in Signals PROVE Agree(rows', Changes(points), t, s)
  <2>1. CASE t \in dirty
    <3>1. t \in DOMAIN rows' <=> t \in DOMAIN Changes(points)
      BY <1>1, <2>1 DEF Changes
    <3>2. t \in DOMAIN rows' => rows'[t] = Changes(points)[t]
      BY <1>1, <2>1 DEF Changes
    <3> QED BY <3>1, <3>2 DEF Agree, Names
  <2>2. CASE t \notin dirty
    <3>1. Agree(rows, Changes(points), t, s)
      BY <2>2 DEF Inv, Written
    <3>2. (t \in DOMAIN rows' <=> t \in DOMAIN rows) /\ (t \in DOMAIN rows' => rows'[t] = rows[t])
      BY <1>1, <2>2
    <3> QED BY <3>1, <3>2 DEF Agree, Names
  <2> QED BY <2>1, <2>2
<1>4. Written'
  BY <1>1, <1>3 DEF Written
<1>5. Stored'
  <2>1. ASSUME NEW s \in KeptSignals, NEW t \in Times PROVE RowState(rows', s, t + 1) = history[s][t]
    <3>1. RowState(rows', s, t + 1) = RowState(Changes(points), s, t + 1)
      BY <1>2, <1>3, SameChanges DEF KeptSignals
    <3> QED BY <3>1 DEF Inv, Told
  <2> QED BY <1>1, <1>2, <2>1 DEF Stored
<1>6. Consistent(points)' /\ Told' /\ Ended(points)'
  BY <1>1 DEF Inv, Told
<1>7. Loads(rows')
  <2>1. ASSUME NEW s \in Signals PROVE RowState(rows', s, MaxTime + 1) = 0
    <3>1. RowState(rows', s, MaxTime + 1) = RowState(Changes(points), s, MaxTime + 1)
      BY <1>2, <1>3, SameChanges
    <3> QED BY <3>1, EndedLoads DEF Inv, Consistent
  <2> QED BY <2>1 DEF Loads
<1> QED BY <1>4, <1>5, <1>6, <1>7 DEF Inv

LEMMA RestartKeepsInv ==
  ASSUME Inv, Restart
  PROVE  Inv'
<1>1. points' = Loaded(rows) /\ dirty' = {} /\ history' = durable /\ UNCHANGED <<rows, durable>>
  BY DEF Restart
<1>2. /\ DOMAIN points' = DOMAIN rows
      /\ \A t \in DOMAIN rows :
           /\ points'[t].changes = rows[t]
           /\ points'[t].prev = [s \in {s \in Signals : RowState(rows, s, t) # 0} |-> RowState(rows, s, t)]
  BY <1>1 DEF Loaded
<1>3. DOMAIN Changes(points') = DOMAIN rows /\ \A t \in DOMAIN rows : Changes(points')[t] = rows[t]
  BY <1>2 DEF Changes
<1>4. DOMAIN rows \subseteq Times
  BY DEF Inv, Stored
<1>5. \A t, s : Agree(rows, Changes(points'), t, s)
  BY <1>3 DEF Agree, Names
<1>6. ASSUME NEW s, NEW t PROVE RowState(Changes(points'), s, t) = RowState(rows, s, t)
  BY <1>3, <1>4, <1>5, SameChanges
<1>7. ASSUME NEW t \in DOMAIN rows, NEW s \in Signals
      PROVE  Get(points'[t].prev, s) = RowState(rows, s, t)
  BY <1>2 DEF Get
<1>8. Consistent(points')
  BY <1>2, <1>4, <1>6, <1>7 DEF Consistent, KeptSignals
<1>9. Told' /\ Stored'
  BY <1>1, <1>6 DEF Inv, Told, Stored
<1>11. Ended(points)' /\ Loads(rows)'
  BY <1>1, <1>4, LoadedEnds DEF Inv, Loads
<1>10. Written'
  BY <1>1, <1>5 DEF Written
<1> QED BY <1>8, <1>9, <1>10, <1>11 DEF Inv

LEMMA NextKeepsInv ==
  ASSUME Inv, [Next]_vars
  PROVE  Inv'
<1>1. CASE UNCHANGED vars
  <2>1. UNCHANGED <<points, dirty, rows, history, durable>>
    BY <1>1 DEF vars
  <2> QED BY <2>1 DEF Inv, Consistent, Told, Written, Stored, Loads
<1>2. CASE Next
  BY <1>2, UpdateKeepsInv, FlushKeepsInv, RestartKeepsInv DEF Next
<1> QED BY <1>1, <1>2

\* Each point's state is that of the changes before it and the changes make up the
\* history, for each signal but the one with id 0; rows and points differ at dirty
\* times only, and each signal ends in state 0.
THEOREM InvHolds == Spec => []Inv
BY InitSignals, NextKeepsInv, PTL DEF Spec

-----------------------------------------------------------------------------
(* HistoryKept.                                                            *)

\* A listing has at most one row of a signal at a time, and tells the state at
\* each instant of its range.
LEMMA ListingTells ==
  ASSUME Inv, NEW start \in Times, NEW end \in Times, NEW s \in KeptSignals,
         NEW t \in start..(end - 1)
  PROVE  Replayed(ListChangesByTime(start, end), s, t) = RowState(Changes(points), s, t + 1)
<1> DEFINE list == ListChangesByTime(start, end)
           rs == Changes(points)
           last == Max(Before(points, start))
           upTo == {r \in list : r.signal = s /\ r.when <= t}
<1>1. /\ DOMAIN points \subseteq Times /\ DOMAIN rs = DOMAIN points
      /\ \A u \in DOMAIN points : rs[u] = points[u].changes
      /\ Consistent(points)
  BY DEF Inv, Consistent, Changes
<1>2. start \in Int /\ end \in Int /\ t \in Int /\ start <= t /\ t < end /\ \A u \in Times : u \in Int
  BY TimesAreNatural
<1>3. Before(points, start) # {} => last \in DOMAIN points /\ last < start
  <2>1. Before(points, start) \subseteq 0..MaxTime /\ MaxTime \in Nat
    BY <1>1, TimesAreNatural DEF Before
  <2>2. Before(points, start) # {} => last \in Before(points, start)
    BY <2>1, MaxIsGreatest
  <2> QED BY <2>2 DEF Before
<1> HIDE DEF last
<1>4. list = (IF Before(points, start) = {} THEN {}
              ELSE {[when |-> last, signal |-> x, state |-> After(points[last])[x]] :
                      x \in DOMAIN After(points[last])})
             \cup UNION {{[when |-> u, signal |-> x, state |-> points[u].changes[x]] :
                              x \in DOMAIN points[u].changes} :
                            u \in {u \in DOMAIN points : start <= u /\ u < end}}
  BY DEF ListChangesByTime, last
<1> HIDE DEF list
\* The rows of s, up to t.
<1>5. ASSUME NEW r \in upTo
      PROVE  \/ /\ Before(points, start) # {} /\ s \in DOMAIN After(points[last])
                /\ r.when = last /\ r.state = After(points[last])[s]
             \/ /\ r.when \in DOMAIN points /\ start <= r.when /\ r.when <= t
                /\ s \in DOMAIN rs[r.when] /\ r.state = rs[r.when][s]
  <2>1. r \in list /\ r.signal = s /\ r.when <= t
    OBVIOUS
  <2>2. CASE /\ Before(points, start) # {}
             /\ r \in {[when |-> last, signal |-> x, state |-> After(points[last])[x]] :
                         x \in DOMAIN After(points[last])}
    BY <2>1, <2>2
  <2>3. CASE \E u \in DOMAIN points : start <= u /\ u < end
               /\ r \in {[when |-> u, signal |-> x, state |-> points[u].changes[x]] :
                           x \in DOMAIN points[u].changes}
    BY <1>1, <2>1, <2>3
  <2> QED BY <1>4, <2>1, <2>2, <2>3
<1>6. ASSUME NEW u \in DOMAIN points, start <= u, u <= t, s \in DOMAIN rs[u]
      PROVE  \E r \in upTo : r.when = u
  <2> DEFINE r == [when |-> u, signal |-> s, state |-> points[u].changes[s]]
  <2>0. u \in Int
    BY <1>1, <1>2
  <2>1. u < end /\ s \in DOMAIN points[u].changes
    BY <1>1, <1>2, <1>6, <2>0
  <2>2. r \in list
    BY <1>4, <1>6, <2>1
  <2> QED BY <1>6, <2>2
<1>7. ASSUME Before(points, start) # {}, s \in DOMAIN After(points[last])
      PROVE  \E r \in upTo : r.when = last
  <2> DEFINE r == [when |-> last, signal |-> s, state |-> After(points[last])[s]]
  <2>1. r \in list
    BY <1>4, <1>7
  <2>2. last \in Int /\ last < start
    BY <1>1, <1>2, <1>3, <1>7
  <2>3. last <= t
    BY <1>2, <2>2
  <2> QED BY <2>1, <2>3
<1>8. Replayed(list, s, t) = IF upTo = {} THEN 0
                             ELSE (CHOOSE r \in upTo : \A q \in upTo : q.when <= r.when).state
  BY DEF Replayed
<1> HIDE DEF upTo
<1>9. \A v \in Times : v < t + 1 <=> v <= t
  BY <1>2
<1>10. t + 1 \in Int /\ start <= t + 1
  BY <1>2
<1>11. CASE \E v \in Times : start <= v /\ v < t + 1 /\ Names(rs, v, s)
  <2>1. PICK v \in Times : start <= v /\ v < t + 1 /\ Names(rs, v, s)
    BY <1>11
  <2>2. v \in ChangeBefore(rs, s, t + 1)
    BY <2>1 DEF Names, ChangeBefore
  <2>3. PICK u \in ChangeBefore(rs, s, t + 1) :
          RowState(rs, s, t + 1) = rs[u][s] /\ \A x \in ChangeBefore(rs, s, t + 1) : x <= u
    BY <1>1, <2>2, LastChange
  <2>4. u \in DOMAIN points /\ u < t + 1 /\ s \in DOMAIN rs[u] /\ v <= u /\ u \in Times
    BY <1>1, <2>2, <2>3 DEF ChangeBefore
  <2>5. start <= u /\ u <= t /\ u \in Int
    <3>1. u \in Int /\ v \in Int /\ u <= t
      BY <1>2, <1>9, <2>4
    <3> QED BY <1>2, <2>1, <2>4, <3>1
  <2>6. PICK r \in upTo : r.when = u
    BY <1>6, <2>4, <2>5
  <2>7. ASSUME NEW q \in upTo PROVE q.when <= u /\ (q.when = u => q.state = rs[u][s])
    <3>1. CASE Before(points, start) # {} /\ q.when = last
      <4>1. last < start /\ last \in Int
        BY <1>1, <1>2, <1>3, <3>1
      <4>2. last <= u /\ last # u
        BY <1>2, <2>5, <4>1
      <4> QED BY <3>1, <4>2
    <3>2. CASE /\ q.when \in DOMAIN points /\ q.when <= t
               /\ s \in DOMAIN rs[q.when] /\ q.state = rs[q.when][s]
      <4>1. q.when \in ChangeBefore(rs, s, t + 1)
        BY <1>1, <1>9, <3>2 DEF ChangeBefore
      <4> QED BY <2>3, <3>2, <4>1
    <3> QED BY <1>5, <3>1, <3>2
  <2> DEFINE Latest(r1) == \A q \in upTo : q.when <= r1.when
  <2>8. Latest(r)
    BY <2>6, <2>7
  <2>9. PICK latest : latest = CHOOSE r1 \in upTo : Latest(r1)
    OBVIOUS
  <2>10. latest \in upTo /\ Latest(latest)
    BY <2>8, <2>9
  <2>11. latest.when = u
    <3>1. u <= latest.when /\ latest.when <= u
      BY <2>6, <2>7, <2>10
    <3>2. latest.when \in Int
      BY <1>1, <1>2, <1>3, <1>5, <2>10
    <3> QED BY <2>5, <3>1, <3>2
  <2>12. latest.state = rs[u][s]
    BY <2>7, <2>10, <2>11
  <2>13. Replayed(list, s, t) = latest.state
    BY <1>8, <2>6, <2>9
  <2> QED BY <2>3, <2>12, <2>13 DEF list
<1>12. CASE ~\E v \in Times : start <= v /\ v < t + 1 /\ Names(rs, v, s)
  <2>1. RowState(rs, s, t + 1) = RowState(rs, s, start)
    BY <1>1, <1>2, <1>10, <1>12, NoChangeSince
  <2>2. Get(StateBefore(points, start), s) = RowState(rs, s, start)
    BY <1>1, <1>2, StateIsLastChange
  <2>3. ASSUME NEW q \in upTo
        PROVE  /\ Before(points, start) # {} /\ s \in DOMAIN After(points[last])
               /\ q.state = After(points[last])[s]
    <3>1. ~(/\ q.when \in DOMAIN points /\ start <= q.when /\ q.when <= t
            /\ s \in DOMAIN rs[q.when])
      BY <1>1, <1>9, <1>12 DEF Names
    <3> QED BY <1>5, <3>1
  <2>4. CASE Before(points, start) # {} /\ s \in DOMAIN After(points[last])
    <3>1. PICK r \in upTo : r.when = last
      BY <1>7, <2>4
    <3>2. \A q \in upTo : q.when <= last
      <4>1. ASSUME NEW q \in upTo PROVE q.when = last
        <5>1. ~(/\ q.when \in DOMAIN points /\ start <= q.when /\ q.when <= t
                /\ s \in DOMAIN rs[q.when])
          BY <1>1, <1>9, <1>12 DEF Names
        <5> QED BY <1>5, <5>1
      <4>2. last \in Int
        BY <1>1, <1>2, <1>3, <2>4
      <4>3. last <= last
        BY <4>2
      <4> QED BY <4>1, <4>3
    <3> DEFINE Latest(r1) == \A q \in upTo : q.when <= r1.when
    <3>3. PICK latest : latest = CHOOSE r1 \in upTo : Latest(r1)
      OBVIOUS
    <3>4. Latest(r)
      BY <3>1, <3>2
    <3>5. latest \in upTo
      BY <3>3, <3>4
    <3>6. Replayed(list, s, t) = latest.state
      BY <1>8, <3>1, <3>3
    <3>7. StateBefore(points, start) = After(points[last])
      BY <2>4 DEF StateBefore, last
    <3>8. Get(StateBefore(points, start), s) = After(points[last])[s]
      BY <2>4, <3>7 DEF Get
    <3> QED BY <2>1, <2>2, <2>3, <3>5, <3>6, <3>8 DEF list
  <2>5. CASE ~(Before(points, start) # {} /\ s \in DOMAIN After(points[last]))
    <3>1. upTo = {}
      BY <2>3, <2>5
    <3>2. Get(StateBefore(points, start), s) = 0
      <4>1. CASE Before(points, start) = {}
        BY <4>1 DEF StateBefore, Get, NoSignals
      <4>2. CASE Before(points, start) # {}
        <5>1. StateBefore(points, start) = After(points[last])
          BY <4>2 DEF StateBefore, last
        <5> QED BY <2>5, <4>2, <5>1 DEF Get
      <4> QED BY <4>1, <4>2
    <3> QED BY <1>8, <2>1, <2>2, <3>1, <3>2 DEF list
  <2> QED BY <2>4, <2>5
<1> QED BY <1>11, <1>12

\* Whatever ranges are updated, and whenever points are collected, the process
\* flushes or starts again, a listing tells what was set last at each instant, of
\* each signal but the one with id 0.
THEOREM HistoryIsKept == Spec => []HistoryKept
<1>1. Inv => HistoryKept
  <2> SUFFICES ASSUME Inv, NEW start \in Times, NEW end \in Times, NEW s \in KeptSignals,
                      NEW t \in start..(end - 1)
               PROVE  Replayed(ListChangesByTime(start, end), s, t) = history[s][t]
    BY DEF HistoryKept
  <2>1. t \in Times
    BY TimesAreNatural
  <2> QED BY <2>1, ListingTells DEF Inv, Told
<1> QED BY InvHolds, <1>1, PTL

\* What is in the table at any time opens, whatever signals there are, and is the
\* history as of the last flush of each signal but the one with id 0: each change
\* since the flush before had its time marked dirty.
THEOREM HistoryOutlivesTheProcess == Spec => []RestartKeepsHistory
<1>1. Inv => RestartKeepsHistory
  BY DEF Inv, Stored, RestartKeepsHistory
<1> QED BY InvHolds, <1>1, PTL
=============================================================================

--------------------------- MODULE FlusherProofs ----------------------------
(***************************************************************************)
(* Proofs about the flusher (module Flusher), for any streams and bounds.  *)
(*                                                                         *)
(*   Types    every variable keeps its type; a plan's time is a minimum of *)
(*            a set of natural numbers                                     *)
(*   Plans    what was examined is planned, what was synced is examined or *)
(*            announced, and what a caller is owed is in one of these sets *)
(*   Bounded  what is pending, its growing recording and the plan's time   *)
(*            together stay within a stream's flush_if_sec                 *)
(***************************************************************************)
EXTENDS Flusher, SetLemmas

-----------------------------------------------------------------------------
(* Lemmas about the operators.                                             *)

LEMMA KeptInRange ==
  ASSUME TypeOK, NEW s \in Streams, NEW from \in Nat, NEW to \in Nat
  PROVE  Kept(s, from, to) \subseteq Nat
BY DEF Kept

LEMMA ElementTyped ==
  ASSUME NEW T, NEW q \in Seq(T), NEW i \in 1..Len(q)
  PROVE  q[i] \in T
OBVIOUS

\* What a stream asks for is a natural number.
LEMMA HowSoonIsTime ==
  ASSUME TypeOK, NEW s \in Streams, Newly(s) # {}
  PROVE  HowSoon(s) \in Nat
<1>1. Newly(s) \subseteq 1..Len(recordings[s])
  BY DEF Newly, Kept, TypeOK
<1>2. Min(Newly(s)) \in 1..Len(recordings[s])
  BY <1>1, MinIsLeast
<1>3. recordings[s][Min(Newly(s))] \in Recording
  <2>1. recordings[s] \in Seq(Recording)
    BY DEF TypeOK
  <2> QED BY <1>2, <2>1, ElementTyped, Zenon
<1>4. recordings[s][Min(Newly(s))].sec \in Nat
  BY <1>3, FlusherAssumption DEF FlusherAssumption, Recording
<1> QED BY <1>4, FlusherAssumption DEF HowSoon, FlusherAssumption

\* A flush inserts all that is ready.
LEMMA FlushLeavesNothing ==
  ASSUME TypeOK, Flushed, UNCHANGED <<recordings, flush_ready>>
  PROVE  \A s \in Streams : /\ Ready(s)' = {}
                            /\ committed'[s] = committed[s] \cup Ready(s)
                            /\ Synced(s)' = Synced(s)
BY DEF Flushed, Ready, Kept, Synced, TypeOK

LEMMA FlushTyped ==
  ASSUME TypeOK, Flushed
  PROVE  /\ committed' \in [Streams -> SUBSET Nat]
         /\ flush_count' \in Nat /\ retrying' \in BOOLEAN
<1>1. \A s \in Streams : Ready(s) \subseteq Nat
  BY KeptInRange DEF Ready, TypeOK
<1>2. committed' \in [Streams -> SUBSET Nat]
  BY <1>1 DEF Flushed, TypeOK
<1>3. flush_count' \in Nat
  BY DEF Flushed, TypeOK
<1>4. retrying' \in BOOLEAN
  BY DEF Flushed
<1> QED BY <1>2, <1>3, <1>4

\* Completing a recording makes none ready, and if it adds a synced one, the
\* flusher is notified.
LEMMA CompletionIsAnnounced ==
  ASSUME TypeOK, NEW s \in Streams, NEW deleted \in BOOLEAN,
         Complete(s, deleted)
  PROVE  \A t \in Streams : /\ Ready(t)' = Ready(t)
                            /\ Synced(t) \subseteq Synced(t)'
                            /\ notified' \/ Synced(t)' = Synced(t)
<1> DEFINE new == [sec |-> age[s], deleted |-> deleted]
<1> TAKE t \in Streams
<1>1. recordings[t] \in Seq(Recording)
  BY DEF TypeOK
<1>2. recordings'[t] = IF t = s THEN Append(recordings[t], new)
                                ELSE recordings[t]
  BY DEF Complete, TypeOK
<1>3. \A id \in 1..Len(recordings[t]) : recordings'[t][id] = recordings[t][id]
  BY <1>1, <1>2
<1>4. flush_ready[t] \in 0..Len(recordings[t])
  BY DEF TypeOK
<1>5. Ready(t)' = Ready(t)
  BY <1>3, <1>4 DEF Ready, Kept, Complete
<1>6. CASE t # s
  BY <1>2, <1>5, <1>6 DEF Synced, Kept
<1>7. CASE t = s
  <2>1. /\ Len(recordings'[t]) = Len(recordings[t]) + 1
        /\ recordings'[t][Len(recordings[t]) + 1] = new
    BY <1>1, <1>2, <1>7
  <2>2. Synced(t) \subseteq Synced(t)'
    BY <2>1, <1>3 DEF Synced, Kept
  <2>3. CASE deleted
    BY <2>1, <2>2, <2>3, <1>3, <1>5 DEF Synced, Kept
  <2>4. CASE ~deleted
    BY <2>2, <2>4, <1>5 DEF Complete
  <2> QED BY <2>3, <2>4
<1> QED BY <1>6, <1>7

-----------------------------------------------------------------------------
(* Types.                                                                  *)

LEMMA StillPlannedTyped ==
  ASSUME TypeOK
  PROVE  StillPlanned \in {NoPlan} \cup Plan
BY DEF TypeOK, StillPlanned

LEMMA SendersBoolean ==
  ASSUME NEW plan \in {NoPlan} \cup Plan
  PROVE  plan.senders \in BOOLEAN
<1>1. NoPlan.senders \in BOOLEAN
  BY DEF NoPlan
<1> QED BY <1>1 DEF Plan

LEMMA ReplacedTyped ==
  ASSUME TypeOK, NEW plan \in {NoPlan} \cup Plan, NEW when \in Nat
  PROVE  Replaced(plan, when) \in Plan
<1>1. flush_count \in Nat
  BY DEF TypeOK
<1> QED BY <1>1, SendersBoolean DEF Replaced, Plan

\* handle_notify leaves a plan or none.
LEMMA NotifyPlans ==
  ASSUME TypeOK, HandleNotify
  PROVE  planned_flush' \in {NoPlan} \cup Plan
<1> DEFINE wanted == {HowSoon(s) : s \in {t \in Streams : Newly(t) # {}}}
<1>1. \/ planned_flush' = StillPlanned
      \/ wanted # {} /\ planned_flush' = Replaced(StillPlanned, Min(wanted))
  BY DEF HandleNotify
<1>2. wanted # {} => Min(wanted) \in Nat
  <2>1. wanted \subseteq Nat
    BY HowSoonIsTime
  <2> HIDE DEF wanted
  <2> QED BY <2>1, MinIsLeast
<1> HIDE DEF wanted
<1> QED BY <1>1, <1>2, StillPlannedTyped, ReplacedTyped

\* Time passes for a plan.
LEMMA TickPlans ==
  ASSUME TypeOK, Tick
  PROVE  planned_flush' \in {NoPlan} \cup Plan
<1>1. CASE planned_flush.when = 0
  BY <1>1 DEF Tick, TypeOK
<1>2. CASE planned_flush.when # 0
  <2>1. planned_flush \in Plan
    BY <1>2 DEF TypeOK, NoPlan
  <2>2. planned_flush.when - 1 \in Nat
    BY <1>2, <2>1 DEF Plan
  <2> QED BY <1>2, <2>1, <2>2 DEF Tick, Plan
<1> QED BY <1>1, <1>2

\* A completed recording is typed and makes its stream's sequence longer.
LEMMA CompletionTyped ==
  ASSUME TypeOK, NEW s \in Streams, NEW deleted \in BOOLEAN,
         Complete(s, deleted)
  PROVE  /\ recordings' \in [Streams -> Seq(Recording)]
         /\ \A t \in Streams : flush_ready'[t] <= Len(recordings'[t])
<1> DEFINE new == [sec |-> age[s], deleted |-> deleted]
<1>1. new \in Recording
  BY DEF Complete, TypeOK, NotGrowing, Recording
<1>2. recordings' = [recordings EXCEPT ![s] = Append(recordings[s], new)]
  BY DEF Complete
<1> HIDE DEF new
<1>3. recordings[s] \in Seq(Recording)
  BY DEF TypeOK
<1>4. /\ Append(recordings[s], new) \in Seq(Recording)
      /\ Len(Append(recordings[s], new)) = Len(recordings[s]) + 1
      /\ Len(recordings[s]) \in Nat
  BY <1>1, <1>3
<1>5. flush_ready' = flush_ready
  BY DEF Complete
<1> QED BY <1>2, <1>4, <1>5 DEF TypeOK

\* The types are invariant under every step of the flusher and of the rest.
THEOREM TypeCorrect == Spec => []TypeOK
<1> USE FlusherAssumption DEF FlusherAssumption
<1>1. Init => TypeOK
  <2> SUFFICES ASSUME Init PROVE TypeOK
    OBVIOUS
  <2>1. /\ recordings \in [Streams -> Seq(Recording)]
        /\ flush_ready \in [Streams -> Nat]
        /\ \A s \in Streams : flush_ready[s] <= Len(recordings[s])
    BY DEF Init
  <2>2. /\ age \in [Streams -> {NotGrowing} \cup 0..MaxSec]
        /\ committed \in [Streams -> SUBSET Nat]
        /\ owed \in [Streams -> SUBSET Nat]
    BY DEF Init
  <2>3. notified \in BOOLEAN /\ ended \in BOOLEAN /\ retrying \in BOOLEAN
    BY DEF Init
  <2> QED BY <2>1, <2>2, <2>3 DEF Init, TypeOK
<1>2. TypeOK /\ [Next]_vars => TypeOK'
  <2> SUFFICES ASSUME TypeOK, [Next]_vars PROVE TypeOK'
    OBVIOUS
  <2>1. ASSUME NEW s \in Streams, Begin(s) PROVE TypeOK'
    <3>1. age' \in [Streams -> {NotGrowing} \cup 0..MaxSec]
      BY <2>1 DEF Begin, TypeOK
    <3> QED BY <2>1, <3>1 DEF Begin, TypeOK, callVars
  <2>2. ASSUME NEW s \in Streams, NEW deleted \in BOOLEAN, Complete(s, deleted)
        PROVE  TypeOK'
    <3>1. age' \in [Streams -> {NotGrowing} \cup 0..MaxSec]
      BY <2>2 DEF Complete, TypeOK
    <3>2. notified' \in BOOLEAN
      BY <2>2, Zenon DEF Complete, TypeOK
    <3> QED BY <2>2, <3>1, <3>2, CompletionTyped DEF Complete, TypeOK, callVars
  <2>3. CASE OtherFlush
    BY <2>3, FlushTyped DEF OtherFlush, TypeOK, callVars
  <2>4. CASE HandleNotify
    <3>1. \A s \in Streams : Len(recordings[s]) \in Nat
      BY DEF TypeOK
    <3>2. /\ flush_ready' \in [Streams -> Nat]
          /\ \A s \in Streams : flush_ready'[s] <= Len(recordings'[s])
      BY <2>4, <3>1 DEF HandleNotify
    <3>3. notified' \in BOOLEAN
      BY <2>4 DEF HandleNotify
    <3> QED BY <2>4, <3>2, <3>3, NotifyPlans DEF HandleNotify, TypeOK, callVars
  <2>5. CASE HandleAwaitIdle
    <3>1. planned_flush' \in {NoPlan} \cup Plan
      BY <2>5 DEF HandleAwaitIdle, TypeOK, Plan
    <3> QED BY <2>5, <3>1 DEF HandleAwaitIdle, TypeOK, streamVars
  <2>6. CASE End
    BY <2>6 DEF End, TypeOK, streamVars, callVars
  <2>7. CASE HandleFlushed
    BY <2>7, StillPlannedTyped DEF HandleFlushed, TypeOK, streamVars, callVars
  <2>8. CASE PlannedFlush
    BY <2>8, FlushTyped DEF PlannedFlush, TypeOK, callVars
  <2>9. CASE PlannedFlushFails
    <3>1. planned_flush' \in {NoPlan} \cup Plan
      BY <2>9 DEF PlannedFlushFails, Due, Retry, TypeOK, Plan
    <3> QED BY <2>9, <3>1 DEF PlannedFlushFails, TypeOK, streamVars, callVars
  <2>10. CASE PlannedFlushObsolete
    BY <2>10 DEF PlannedFlushObsolete, TypeOK, streamVars, callVars
  <2>11. CASE AwaitIdle
    <3>1. owed' \in [Streams -> SUBSET Nat]
      <4>1. \A s \in Streams : Synced(s) \subseteq Nat
        BY DEF Synced, Kept
      <4> QED BY <2>11, <4>1 DEF AwaitIdle
    <3> QED BY <2>11, <3>1 DEF AwaitIdle, TypeOK, streamVars
  <2>12. CASE Return
    BY <2>12 DEF Return, TypeOK, streamVars
  <2>13. CASE Tick
    <3>1. age' \in [Streams -> {NotGrowing} \cup 0..MaxSec]
      <4>1. \A s \in Streams : age[s] \notin {NotGrowing, MaxSec}
                                 => age[s] + 1 \in 0..MaxSec
        BY DEF TypeOK
      <4> QED BY <2>13, <4>1 DEF Tick, TypeOK
    <3> QED BY <2>13, <3>1, TickPlans DEF Tick, TypeOK, callVars
  <2>14. CASE DropChannel
    BY <2>14 DEF DropChannel, TypeOK, streamVars, callVars
  <2>15. CASE Exit
    BY <2>15, FlushTyped DEF Exit, TypeOK, callVars
  <2>16. CASE UNCHANGED vars
    BY <2>16 DEF TypeOK, vars, streamVars, callVars
  <2> QED
    BY <2>1, <2>2, <2>3, <2>4, <2>5, <2>6, <2>7, <2>8, <2>9, <2>10, <2>11,
       <2>12, <2>13, <2>14, <2>15, <2>16 DEF Next, Iter
<1> QED BY <1>1, <1>2, PTL DEF Spec

-----------------------------------------------------------------------------
(* Plans.                                                                  *)

\* What is synced is ready, inserted, or announced by a notification.
Announced ==
  notified \/ \A s \in Streams : Synced(s) \subseteq Ready(s) \cup committed[s]

\* Nothing is recorded, called or announced once the flusher may end.
EndsLast ==
  /\ process # "running" => /\ caller = "idle"
                            /\ \A s \in Streams : age[s] = NotGrowing
  /\ ended => process # "running" /\ ~notified

\* What a caller is owed is synced when it sends; when it waits it is covered
\* by the plan that holds its sender, or inserted.
Covered ==
  /\ caller = "sent" => \A s \in Streams : owed[s] \subseteq Synced(s)
  /\ caller = "waiting" =>
       /\ \A s \in Streams : owed[s] \subseteq Ready(s) \cup committed[s]
       /\ ~planned_flush.senders => \A s \in Streams : owed[s] \subseteq committed[s]

Plans == PlanCoversReady /\ Announced /\ EndsLast /\ Covered

\* What the plan does not cover is not there.
LEMMA NothingUnplanned ==
  ASSUME PlanCoversReady, ~ended, planned_flush = NoPlan \/ Obsolete(planned_flush)
  PROVE  \A s \in Streams : Ready(s) = {}
BY DEF PlanCoversReady

\* Steps that leave the streams and their rows alone leave their derived sets.
LEMMA StreamsKept ==
  ASSUME UNCHANGED <<recordings, flush_ready, committed>>
  PROVE  \A s \in Streams : Ready(s)' = Ready(s) /\ Synced(s)' = Synced(s)
BY DEF Ready, Synced, Kept

\* Examining makes ready what is synced and not inserted.
LEMMA NotifyExamines ==
  ASSUME TypeOK, HandleNotify
  PROVE  \A s \in Streams : /\ Ready(s)' = Synced(s) \ committed[s]
                            /\ Ready(s) \subseteq Ready(s)'
                            /\ Synced(s)' = Synced(s)
                            /\ Ready(s)' # {} => Ready(s) # {} \/ Newly(s) # {}
<1> TAKE s \in Streams
<1>1. /\ recordings' = recordings /\ committed' = committed
      /\ flush_ready'[s] = Len(recordings[s])
  BY DEF HandleNotify
<1>2. /\ flush_ready[s] \in Nat /\ Len(recordings[s]) \in Nat
      /\ flush_ready[s] <= Len(recordings[s])
  BY DEF TypeOK
<1>3. /\ Ready(s)' = Synced(s) \ committed[s]
      /\ Synced(s)' = Synced(s)
  BY <1>1 DEF Ready, Synced, Kept
<1>4. Synced(s) = Kept(s, 1, flush_ready[s]) \cup Newly(s)
  BY <1>2 DEF Synced, Kept, Newly
<1> QED BY <1>3, <1>4 DEF Ready

\* The plan after a notification covers what is ready then, and keeps the
\* senders of a plan that was not obsolete.
LEMMA NotifyCovers ==
  ASSUME TypeOK, PlanCoversReady, HandleNotify
  PROVE  /\ PlanCoversReady'
         /\ planned_flush'.senders = StillPlanned.senders
<1> DEFINE wanted == {HowSoon(s) : s \in {t \in Streams : Newly(t) # {}}}
           new    == Replaced(StillPlanned, Min(wanted))
<1>1. \/ wanted # {} /\ planned_flush' = new
      \/ /\ wanted = {} \/ StillPlanned # NoPlan
         /\ planned_flush' = StillPlanned
  BY DEF HandleNotify
<1>2. ~ended /\ ended' = ended /\ flush_count' = flush_count
  BY DEF HandleNotify
<1>3. flush_count \in Nat
  BY DEF TypeOK
<1>4. CASE wanted # {} /\ planned_flush' = new
  <2>1. planned_flush'.flush_count = flush_count
    BY <1>4 DEF Replaced
  <2>2. planned_flush' # NoPlan
    BY <2>1, <1>3 DEF NoPlan
  <2> QED BY <2>1, <2>2, <1>2, <1>3, <1>4
          DEF PlanCoversReady, Obsolete, Replaced
<1>5. CASE (wanted = {} \/ StillPlanned # NoPlan) /\ planned_flush' = StillPlanned
  <2>1. ASSUME StillPlanned # NoPlan PROVE PlanCoversReady'
    <3>1. planned_flush' = planned_flush /\ ~Obsolete(planned_flush)
      BY <2>1, <1>5 DEF StillPlanned
    <3> QED BY <2>1, <3>1, <1>2 DEF PlanCoversReady, Obsolete, StillPlanned
  <2>2. ASSUME StillPlanned = NoPlan, wanted = {} PROVE PlanCoversReady'
    <3>1. planned_flush = NoPlan \/ Obsolete(planned_flush)
      BY <2>2 DEF StillPlanned
    <3>2. \A s \in Streams : Ready(s) = {} /\ Newly(s) = {}
      BY <3>1, <2>2, <1>2, NothingUnplanned
    <3>3. \A s \in Streams : Ready(s)' = {}
      BY <3>2, NotifyExamines
    <3> QED BY <3>3 DEF PlanCoversReady
  <2> QED BY <2>1, <2>2, <1>5
<1> QED BY <1>1, <1>4, <1>5

\* After a flush nothing needs a plan, and what was covered is inserted.
LEMMA FlushCovers ==
  ASSUME TypeOK, Plans, Flushed,
         UNCHANGED <<recordings, flush_ready, notified, callVars>>
  PROVE  PlanCoversReady' /\ Announced' /\ Covered'
<1>1. \A s \in Streams : /\ Ready(s)' = {}
                         /\ committed'[s] = committed[s] \cup Ready(s)
                         /\ Synced(s)' = Synced(s)
  BY FlushLeavesNothing
<1>2. PlanCoversReady'
  BY <1>1 DEF PlanCoversReady
<1>3. Announced'
  BY <1>1 DEF Plans, Announced
<1>4. Covered'
  BY <1>1 DEF Plans, Covered, callVars
<1> QED BY <1>2, <1>3, <1>4

\* A plan is dropped only when it covers nothing.
LEMMA DropCovers ==
  ASSUME TypeOK, Plans, ~ended,
         planned_flush' = NoPlan, planned_flush = NoPlan \/ Obsolete(planned_flush),
         UNCHANGED <<streamVars, notified, ended, callVars>>
  PROVE  PlanCoversReady' /\ Announced' /\ Covered'
<1>1. \A s \in Streams : Ready(s) = {}
  BY NothingUnplanned DEF Plans
<1>2. \A s \in Streams : Ready(s)' = Ready(s) /\ Synced(s)' = Synced(s)
  BY StreamsKept DEF streamVars
<1>3. PlanCoversReady' /\ Announced'
  BY <1>1, <1>2 DEF Plans, PlanCoversReady, Announced, streamVars
<1>4. Covered'
  BY <1>1, <1>2 DEF Plans, Covered, streamVars, callVars
<1> QED BY <1>3, <1>4

\* A plan that is kept, whenever it is due, covers what it covered.
LEMMA KeepCovers ==
  ASSUME TypeOK, Plans,
         planned_flush # NoPlan => /\ planned_flush' # NoPlan
                                   /\ planned_flush'.flush_count
                                        = planned_flush.flush_count,
         planned_flush'.senders = planned_flush.senders,
         UNCHANGED <<recordings, flush_ready, committed, notified, ended,
                     flush_count, callVars>>
  PROVE  PlanCoversReady' /\ Announced' /\ Covered'
<1>1. \A s \in Streams : Ready(s)' = Ready(s) /\ Synced(s)' = Synced(s)
  BY StreamsKept
<1>2. PlanCoversReady'
  BY <1>1 DEF Plans, PlanCoversReady, Obsolete
<1>3. Announced' /\ Covered'
  BY <1>1 DEF Plans, Announced, Covered, callVars
<1> QED BY <1>2, <1>3

\* Plans is an invariant, given the types.
THEOREM PlansHold == Spec => []Plans
<1>1. Init => Plans
  BY DEF Init, Plans, PlanCoversReady, Announced, EndsLast, Covered, Ready,
         Synced, Kept
<1>2. TypeOK /\ TypeOK' /\ Plans /\ [Next]_vars => Plans'
  <2> SUFFICES ASSUME TypeOK, TypeOK', Plans, [Next]_vars PROVE Plans'
    OBVIOUS
  <2>1. ASSUME NEW s \in Streams, Begin(s) PROVE Plans'
    <3>1. PlanCoversReady' /\ Announced' /\ Covered'
      BY <2>1, KeepCovers DEF Begin
    <3>2. EndsLast'
      BY <2>1 DEF Begin, Plans, EndsLast
    <3> QED BY <3>1, <3>2 DEF Plans
  <2>2. ASSUME NEW s \in Streams, NEW deleted \in BOOLEAN, Complete(s, deleted)
        PROVE  Plans'
    <3>1. \A t \in Streams : /\ Ready(t)' = Ready(t)
                             /\ Synced(t) \subseteq Synced(t)'
                             /\ notified' \/ Synced(t)' = Synced(t)
      BY <2>2, CompletionIsAnnounced
    <3>2. UNCHANGED <<committed, planned_flush, ended, flush_count, callVars,
                      process>>
      BY <2>2 DEF Complete
    <3>3. PlanCoversReady'
      BY <3>1, <3>2 DEF Plans, PlanCoversReady, Obsolete
    <3>4. Announced'
      BY <2>2, <3>1, <3>2 DEF Plans, Announced, Complete
    <3>5. Covered'
      BY <3>1, <3>2 DEF Plans, Covered, callVars
    <3>6. process = "running" /\ ~ended
      BY <2>2 DEF Complete, Plans, EndsLast
    <3>7. EndsLast'
      BY <3>2, <3>6 DEF EndsLast
    <3> QED BY <3>3, <3>4, <3>5, <3>7 DEF Plans
  <2>3. CASE OtherFlush
    BY <2>3, FlushCovers DEF OtherFlush, Plans, EndsLast, callVars
  <2>4. CASE HandleNotify
    <3>1. PlanCoversReady' /\ planned_flush'.senders = StillPlanned.senders
      BY <2>4, NotifyCovers DEF Plans
    <3>2. \A s \in Streams : /\ Ready(s)' = Synced(s) \ committed[s]
                             /\ Ready(s) \subseteq Ready(s)'
                             /\ Synced(s)' = Synced(s)
      BY <2>4, NotifyExamines
    <3>3. UNCHANGED <<age, committed, ended, callVars, process>> /\ ~ended
          /\ ~notified'
      BY <2>4 DEF HandleNotify
    <3>4. Announced'
      BY <3>2, <3>3 DEF Announced
    <3>5. Covered'
      <4>1. CASE Obsolete(planned_flush)
        <5>1. \A s \in Streams : Ready(s) = {}
          BY <4>1, <3>3, NothingUnplanned DEF Plans
        <5> QED BY <5>1, <3>2, <3>3 DEF Plans, Covered, callVars
      <4>2. CASE ~Obsolete(planned_flush)
        <5>1. planned_flush'.senders = planned_flush.senders
          BY <4>2, <3>1 DEF StillPlanned
        <5> QED BY <5>1, <3>2, <3>3 DEF Plans, Covered, callVars
      <4> QED BY <4>1, <4>2
    <3>6. EndsLast'
      BY <3>3 DEF Plans, EndsLast, callVars
    <3> QED BY <3>1, <3>4, <3>5, <3>6 DEF Plans
  <2>5. CASE HandleAwaitIdle
    <3>1. UNCHANGED <<streamVars, notified, ended, flush_count, owed, process>>
          /\ ~ended /\ ~notified /\ caller = "sent" /\ caller' = "waiting"
      BY <2>5 DEF HandleAwaitIdle
    <3>2. \A s \in Streams : Ready(s)' = Ready(s) /\ Synced(s)' = Synced(s)
      BY <3>1, StreamsKept DEF streamVars
    <3>3. \A s \in Streams : owed[s] \subseteq Ready(s) \cup committed[s]
      BY <3>1 DEF Plans, Announced, Covered
    <3>4. CASE planned_flush = NoPlan
      <4>1. \A s \in Streams : Ready(s) = {}
        BY <3>1, <3>4, NothingUnplanned DEF Plans
      <4>2. PlanCoversReady' /\ Announced'
        BY <4>1, <3>1, <3>2 DEF Plans, PlanCoversReady, Announced, streamVars
      <4>3. Covered'
        BY <4>1, <3>1, <3>2, <3>3 DEF Covered, streamVars
      <4> QED BY <4>2, <4>3, <3>1 DEF Plans, EndsLast, streamVars
    <3>5. CASE planned_flush # NoPlan
      <4>1. planned_flush' = [planned_flush EXCEPT !.senders = TRUE]
            /\ planned_flush \in Plan
        BY <2>5, <3>5 DEF HandleAwaitIdle, TypeOK
      <4>2. /\ planned_flush' # NoPlan
            /\ planned_flush'.flush_count = planned_flush.flush_count
            /\ planned_flush'.senders
        BY <4>1 DEF Plan, NoPlan
      <4>3. PlanCoversReady' /\ Announced'
        BY <4>2, <3>1, <3>2, <3>5
           DEF Plans, PlanCoversReady, Obsolete, Announced, streamVars
      <4>4. Covered'
        BY <4>2, <3>1, <3>2, <3>3 DEF Covered, streamVars
      <4> QED BY <4>3, <4>4, <3>1 DEF Plans, EndsLast, streamVars
    <3> QED BY <3>4, <3>5
  <2>6. CASE End
    <3>1. UNCHANGED <<streamVars, notified, callVars, process>>
          /\ ended' /\ process # "running" /\ ~notified
      BY <2>6 DEF End, MayEnd
    <3>2. PlanCoversReady'
      BY <3>1 DEF PlanCoversReady
    <3>3. Announced' /\ Covered' /\ EndsLast'
      BY <2>6, <3>1, StreamsKept
         DEF End, Plans, Announced, Covered, EndsLast, streamVars, callVars
    <3> QED BY <3>2, <3>3 DEF Plans
  <2>7. CASE HandleFlushed
    <3>1. PlanCoversReady' /\ Announced' /\ Covered'
      <4>1. CASE Obsolete(planned_flush)
        BY <2>7, <4>1, DropCovers DEF HandleFlushed, NoCommand, StillPlanned
      <4>2. CASE ~Obsolete(planned_flush)
        BY <2>7, <4>2, KeepCovers DEF HandleFlushed, StillPlanned, streamVars
      <4> QED BY <4>1, <4>2
    <3> QED BY <2>7, <3>1 DEF HandleFlushed, Plans, EndsLast, streamVars, callVars
  <2>8. CASE PlannedFlush
    BY <2>8, FlushCovers DEF PlannedFlush, Plans, EndsLast, callVars
  <2>9. CASE PlannedFlushFails
    <3>1. planned_flush' = Retry /\ planned_flush \in Plan
      BY <2>9 DEF PlannedFlushFails, Due, TypeOK
    <3>2. /\ planned_flush' # NoPlan
          /\ planned_flush'.flush_count = planned_flush.flush_count
          /\ planned_flush'.senders = planned_flush.senders
      BY <3>1 DEF Retry, Plan, NoPlan
    <3>3. PlanCoversReady' /\ Announced' /\ Covered'
      BY <2>9, <3>2, KeepCovers DEF PlannedFlushFails, streamVars
    <3> QED BY <2>9, <3>3
            DEF PlannedFlushFails, Plans, EndsLast, streamVars, callVars
  <2>10. CASE PlannedFlushObsolete
    <3>1. PlanCoversReady' /\ Announced' /\ Covered'
      BY <2>10, DropCovers DEF PlannedFlushObsolete, NoCommand
    <3> QED BY <2>10, <3>1
            DEF PlannedFlushObsolete, Plans, EndsLast, streamVars, callVars
  <2>11. CASE AwaitIdle
    <3>1. UNCHANGED <<streamVars, notified, planned_flush, ended, flush_count,
                      process>>
          /\ process = "running" /\ caller' = "sent"
          /\ owed' = [s \in Streams |-> Synced(s)]
      BY <2>11 DEF AwaitIdle
    <3>2. \A s \in Streams : Ready(s)' = Ready(s) /\ Synced(s)' = Synced(s)
      BY <3>1, StreamsKept DEF streamVars
    <3>3. PlanCoversReady' /\ Announced'
      BY <3>1, <3>2
         DEF Plans, PlanCoversReady, Obsolete, Announced, streamVars
    <3>4. Covered' /\ EndsLast'
      BY <3>1, <3>2 DEF Plans, Covered, EndsLast
    <3> QED BY <3>3, <3>4 DEF Plans
  <2>12. CASE Return
    <3>1. UNCHANGED <<streamVars, notified, planned_flush, ended, flush_count,
                      process>> /\ caller' = "idle"
      BY <2>12 DEF Return
    <3>2. \A s \in Streams : Ready(s)' = Ready(s) /\ Synced(s)' = Synced(s)
      BY <3>1, StreamsKept DEF streamVars
    <3>3. PlanCoversReady' /\ Announced'
      BY <3>1, <3>2
         DEF Plans, PlanCoversReady, Obsolete, Announced, streamVars
    <3>4. Covered' /\ EndsLast'
      BY <3>1 DEF Plans, Covered, EndsLast, streamVars
    <3> QED BY <3>3, <3>4 DEF Plans
  <2>13. CASE Tick
    <3>1. /\ planned_flush # NoPlan => planned_flush' # NoPlan
          /\ planned_flush'.flush_count = planned_flush.flush_count
          /\ planned_flush'.senders = planned_flush.senders
      <4>1. CASE planned_flush = NoPlan
        <5>1. planned_flush.when = 0
          BY <4>1 DEF NoPlan
        <5> QED BY <2>13, <4>1, <5>1 DEF Tick
      <4>2. CASE planned_flush \in Plan
        BY <2>13, <4>2 DEF Tick, Plan, NoPlan
      <4> QED BY <4>1, <4>2 DEF TypeOK
    <3>2. PlanCoversReady' /\ Announced' /\ Covered'
      BY <2>13, <3>1, KeepCovers DEF Tick
    <3> QED BY <2>13, <3>2 DEF Tick, Plans, EndsLast, callVars
  <2>14. CASE DropChannel
    <3>1. PlanCoversReady' /\ Announced' /\ Covered'
      BY <2>14, KeepCovers DEF DropChannel, streamVars
    <3> QED BY <2>14, <3>1 DEF DropChannel, Plans, EndsLast, streamVars, callVars
  <2>15. CASE Exit
    <3>1. EndsLast'
      BY <2>15 DEF Exit, Plans, EndsLast, callVars
    <3>2. CASE Flushed
      BY <2>15, <3>1, <3>2, FlushCovers DEF Exit, Plans
    <3>3. CASE UNCHANGED <<committed, flush_count, retrying>>
      BY <2>15, <3>1, <3>3, KeepCovers DEF Exit, Plans
    <3> QED BY <2>15, <3>2, <3>3 DEF Exit
  <2>16. CASE UNCHANGED vars
    <3>1. PlanCoversReady' /\ Announced' /\ Covered'
      BY <2>16, KeepCovers DEF vars, streamVars
    <3> QED BY <2>16, <3>1 DEF vars, Plans, EndsLast, streamVars, callVars
  <2> QED
    BY <2>1, <2>2, <2>3, <2>4, <2>5, <2>6, <2>7, <2>8, <2>9, <2>10, <2>11,
       <2>12, <2>13, <2>14, <2>15, <2>16 DEF Next, Iter
<1> QED BY <1>1, <1>2, TypeCorrect, PTL DEF Spec

\* Whatever merges, fails or becomes obsolete: what is ready has a plan.
THEOREM ReadyIsPlanned == Spec => []PlanCoversReady
BY PlansHold, PTL DEF Plans

\* await_idle returns only when what its caller is owed is inserted.
THEOREM AnswersAreHonest == Spec => []AnswerIsHonest
<1>1. Plans => AnswerIsHonest
  BY DEF Plans, Covered, AnswerIsHonest, Answered
<1> QED BY <1>1, PlansHold, PTL

\* The flusher's end leaves nothing synced that a last flush would miss.
THEOREM NothingLeftUnexamined == Spec => []EndedHasExamined
<1>1. Plans => EndedHasExamined
  BY DEF Plans, Announced, EndsLast, EndedHasExamined
<1> QED BY <1>1, PlansHold, PTL
-----------------------------------------------------------------------------
(* Seconds.                                                                *)

\* What the recordings of q with some ids have lasted together.
Seconds(q, ids) == MapThenSumSet(LAMBDA id : q[id].sec, ids)

\* How long the growing recording has lasted, if there is one.
Lasted(s) == IF age[s] = NotGrowing THEN 0 ELSE age[s]

\* What is synced and not inserted, examined or not.
Pending(s) == Synced(s) \ committed[s]

LEMMA SecIsNatural ==
  ASSUME NEW q \in Seq(Recording), NEW id \in 1..Len(q)
  PROVE  q[id].sec \in Nat
<1>1. q[id] \in Recording
  BY ElementTyped
<1> QED BY <1>1, FlusherAssumption DEF FlusherAssumption, Recording

LEMMA SecondsIsTotal ==
  ASSUME NEW q, NEW ids, IsFiniteSet(ids), \A id \in ids : q[id].sec \in Nat
  PROVE  /\ \E h : /\ Totals(h, [id \in ids |-> q[id].sec], ids)
                   /\ Seconds(q, ids) = h[ids]
         /\ [id \in ids |-> q[id].sec] \in [ids -> Nat]
         /\ Seconds(q, ids) \in Nat
<1> DEFINE w == [id \in ids |-> q[id].sec]
           A(h) == [s \in SUBSET ids |->
                      IF s = {} THEN 0 ELSE q[Pick(s)].sec + h[s \ {Pick(s)}]]
           B(h) == [s \in SUBSET ids |->
                      IF s = {} THEN 0 ELSE w[Pick(s)] + h[s \ {Pick(s)}]]
           P(h) == h = A(h)
           h0 == CHOOSE h : P(h)
<1>1. Seconds(q, ids) = h0[ids]
  BY DEF Seconds, MapThenSumSet, MapThenFoldSet, Pick
<1>2. w \in [ids -> Nat]
  OBVIOUS
<1>3. ASSUME NEW s \in SUBSET ids, s # {} PROVE w[Pick(s)] = q[Pick(s)].sec
  BY <1>3, PickIsIn
<1>4. ASSUME NEW h PROVE P(h) <=> Totals(h, w, ids)
  <2>1. A(h) = B(h)
    <3> HIDE DEF w
    <3> QED BY <1>3
  <2>2. Totals(h, w, ids) <=> h = B(h)
    BY DEF Totals
  <2> HIDE DEF A, B
  <2> QED BY <2>1, <2>2
<1> HIDE DEF P, w
<1>5. PICK g : Totals(g, w, ids)
  BY <1>2, TotalsExist
<1>6. P(h0)
  <2>1. P(g)
    BY <1>4, <1>5
  <2> QED BY <2>1
<1>7. Totals(h0, w, ids)
  BY <1>4, <1>6
<1> HIDE DEF h0
<1>8. h0[ids] \in Nat
  BY <1>2, <1>7, TotalsAreNatural
<1> QED BY <1>1, <1>2, <1>7, <1>8 DEF w

LEMMA SecondsOfNone ==
  ASSUME NEW q
  PROVE  Seconds(q, {}) = 0
<1>1. IsFiniteSet({})
  BY FS_EmptySet
<1>2. PICK h : Totals(h, [id \in {} |-> q[id].sec], {}) /\ Seconds(q, {}) = h[{}]
  BY <1>1, SecondsIsTotal
<1> QED BY <1>2, TotalsStep

\* The sum depends on the recordings summed alone.
LEMMA SecondsAgree ==
  ASSUME NEW q, NEW p, NEW ids, IsFiniteSet(ids),
         \A id \in ids : q[id] = p[id] /\ q[id].sec \in Nat
  PROVE  Seconds(q, ids) = Seconds(p, ids)
<1> DEFINE W(r) == [id \in ids |-> r[id].sec]
<1>1. PICK g : Totals(g, W(q), ids) /\ Seconds(q, ids) = g[ids]
  BY SecondsIsTotal
<1>2. PICK h : Totals(h, W(p), ids) /\ Seconds(p, ids) = h[ids]
  BY SecondsIsTotal
<1>3. \A id \in ids : W(q)[id] = W(p)[id]
  OBVIOUS
<1> HIDE DEF W
<1> QED BY <1>1, <1>2, <1>3, TotalsAgree

\* One more recording adds its seconds.
LEMMA TotalsOfOneMore ==
  ASSUME NEW s, NEW new, new \notin s,
         NEW more, more = s \cup {new}, IsFiniteSet(more),
         NEW w \in [more -> Nat], NEW g, Totals(g, w, more),
         NEW v, NEW h, Totals(h, v, s), \A y \in s : w[y] = v[y]
  PROVE  g[more] = w[new] + h[s]
<1>1. /\ {new} \in SUBSET more /\ s \in SUBSET more /\ {new} \cap s = {}
      /\ more = {new} \cup s
  OBVIOUS
<1>2. g[{new} \cup s] = g[{new}] + g[s]
  BY <1>1, TotalsUnion
<1>3. g[{}] = 0 /\ \A t \in SUBSET more : t # {} =>
        g[t] = w[Pick(t)] + g[t \ {Pick(t)}] /\ Pick(t) \in t
  BY TotalsStep
<1>4. g[{new}] = w[Pick({new})] + g[{new} \ {Pick({new})}] /\ Pick({new}) \in {new}
  BY <1>1, <1>3
<1>5. Pick({new}) = new /\ {new} \ {new} = {}
  BY <1>4
<1>6. w[new] \in Nat
  BY <1>1
<1>7. g[{new}] = w[new]
  BY <1>3, <1>4, <1>5, <1>6
<1>8. g[s] = h[s]
  BY <1>1, TotalsAgree
<1> QED BY <1>1, <1>2, <1>7, <1>8

LEMMA SecondsWith ==
  ASSUME NEW q, NEW ids, IsFiniteSet(ids), NEW new, new \notin ids,
         \A id \in ids \cup {new} : q[id].sec \in Nat
  PROVE  Seconds(q, ids \cup {new}) = Seconds(q, ids) + q[new].sec
<1>1. PICK more : more = ids \cup {new}
  OBVIOUS
<1>2. IsFiniteSet(more) /\ \A id \in more : q[id].sec \in Nat
  BY <1>1, FS_AddElement
<1>3. PICK w : w = [id \in more |-> q[id].sec]
  OBVIOUS
<1>4. PICK v : v = [id \in ids |-> q[id].sec]
  OBVIOUS
<1>5. w[new] = q[new].sec /\ \A id \in ids : w[id] = v[id]
  BY <1>1, <1>3, <1>4
<1>6. PICK g : Totals(g, w, more) /\ Seconds(q, more) = g[more]
  BY <1>2, <1>3, SecondsIsTotal
<1>7. PICK h : Totals(h, v, ids) /\ Seconds(q, ids) = h[ids]
  BY <1>4, SecondsIsTotal
<1>8. w \in [more -> Nat]
  BY <1>2, <1>3
<1>9. g[more] = w[new] + h[ids]
  BY <1>1, <1>2, <1>5, <1>6, <1>7, <1>8, TotalsOfOneMore
<1>10. Seconds(q, ids) \in Nat /\ q[new].sec \in Nat
  BY SecondsIsTotal
<1> QED BY <1>1, <1>5, <1>6, <1>7, <1>9, <1>10
-----------------------------------------------------------------------------
(* Unflushed seconds.                                                      *)

\* Rows are of recordings the flusher has examined.
Examined == \A s \in Streams : committed[s] \subseteq 1..flush_ready[s]

\* A prompt flusher examines a recording before time passes, so that those it
\* has yet to examine began no earlier than the first of them.
Fresh ==
  Prompt => \A s \in Streams : Newly(s) # {} =>
    Seconds(recordings[s], Newly(s)) + Lasted(s) <= recordings[s][Min(Newly(s))].sec

\* The plan's time leaves each stream no more than its flush_if_sec.
InTime ==
  Prompt /\ ~retrying /\ planned_flush.when > 0 =>
    \A s \in Streams : Ready(s) # {} =>
      Seconds(recordings[s], Pending(s)) + Lasted(s) + planned_flush.when <= FlushIfSec[s]

Bounded == Examined /\ Fresh /\ InTime

\* Any of a stream's recordings can be summed.
LEMMA Summable ==
  ASSUME TypeOK, NEW s \in Streams, NEW ids, ids \subseteq 1..Len(recordings[s])
  PROVE  /\ IsFiniteSet(ids)
         /\ \A id \in ids : recordings[s][id].sec \in Nat
         /\ Seconds(recordings[s], ids) \in Nat
<1>1. recordings[s] \in Seq(Recording)
  BY DEF TypeOK
<1>2. IsFiniteSet(ids)
  <2>1. Len(recordings[s]) \in Nat
    BY <1>1
  <2>2. IsFiniteSet(1..Len(recordings[s]))
    BY <2>1, FS_Interval
  <2> QED BY <2>2, FS_Subset
<1>3. \A id \in ids : recordings[s][id].sec \in Nat
  BY <1>1, SecIsNatural
<1> QED BY <1>2, <1>3, SecondsIsTotal

\* What is pending is ready or new.
LEMMA PendingParts ==
  ASSUME TypeOK, Examined, NEW s \in Streams
  PROVE  /\ Pending(s) = Ready(s) \cup Newly(s)
         /\ Newly(s) \subseteq Pending(s)
         /\ Pending(s) \subseteq 1..Len(recordings[s])
<1>1. /\ flush_ready[s] \in Nat /\ Len(recordings[s]) \in Nat
      /\ flush_ready[s] <= Len(recordings[s])
      /\ committed[s] \subseteq 1..flush_ready[s]
  BY DEF TypeOK, Examined
<1> QED BY <1>1 DEF Pending, Ready, Newly, Synced, Kept

\* Nothing is new unless the flusher is notified.
LEMMA NewIsAnnounced ==
  ASSUME TypeOK, Announced, Examined, NEW s \in Streams, ~notified
  PROVE  Newly(s) = {} /\ Pending(s) = Ready(s)
<1>1. /\ flush_ready[s] \in Nat /\ Len(recordings[s]) \in Nat
      /\ committed[s] \subseteq 1..flush_ready[s]
      /\ Synced(s) \subseteq Ready(s) \cup committed[s]
  BY DEF TypeOK, Examined, Announced
<1>2. Ready(s) \subseteq 1..flush_ready[s]
  BY DEF Ready, Kept
<1>3. \A id \in Newly(s) : id \in Synced(s) /\ id \notin 1..flush_ready[s]
  BY <1>1 DEF Newly, Synced, Kept
<1>4. Newly(s) = {}
  BY <1>1, <1>2, <1>3
<1> QED BY <1>4, PendingParts

\* Steps that neither bring the plan forward nor touch the recordings.
LEMMA KeepBounds ==
  ASSUME TypeOK, Bounded,
         UNCHANGED <<recordings, flush_ready, committed>>,
         \A s \in Streams : Lasted(s)' = Lasted(s),
         \/ planned_flush'.when = planned_flush.when /\ retrying' = retrying
         \/ planned_flush'.when = 0
         \/ retrying'
  PROVE  Bounded'
<1>1. \A s \in Streams : /\ Ready(s)' = Ready(s) /\ Newly(s)' = Newly(s)
                         /\ Pending(s)' = Pending(s)
                         /\ recordings'[s] = recordings[s]
  BY DEF Ready, Newly, Pending, Synced, Kept
<1>2. Examined'
  BY DEF Bounded, Examined
<1>3. Fresh'
  BY <1>1 DEF Bounded, Fresh
<1>4. InTime'
  BY <1>1 DEF Bounded, InTime
<1> QED BY <1>2, <1>3, <1>4 DEF Bounded

\* A flush leaves nothing ready.
LEMMA FlushBounds ==
  ASSUME TypeOK, Bounded, Flushed, UNCHANGED <<age, recordings, flush_ready>>
  PROVE  Bounded'
<1>1. \A s \in Streams : Ready(s)' = {} /\ committed'[s] = committed[s] \cup Ready(s)
  BY FlushLeavesNothing
<1>2. \A s \in Streams : /\ Newly(s)' = Newly(s) /\ Lasted(s)' = Lasted(s)
                         /\ recordings'[s] = recordings[s]
  BY DEF Newly, Kept, Lasted
<1>3. Examined'
  BY <1>1 DEF Bounded, Examined, Ready, Kept
<1>4. Fresh'
  BY <1>2 DEF Bounded, Fresh
<1>5. InTime'
  BY <1>1 DEF InTime
<1> QED BY <1>3, <1>4, <1>5 DEF Bounded

\* A recording that completes is summed from then on, instead of growing.
LEMMA SecondsMove ==
  ASSUME TypeOK, NEW s \in Streams, NEW deleted \in BOOLEAN, Complete(s, deleted),
         NEW ids, ids \subseteq 1..Len(recordings[s]),
         NEW more, more = ids \/ more = ids \cup {Len(recordings[s]) + 1}
  PROVE  /\ Seconds(recordings'[s], more) + Lasted(s)'
              <= Seconds(recordings[s], ids) + Lasted(s)
         /\ Seconds(recordings'[s], more) \in Nat /\ Lasted(s)' = 0
         /\ Seconds(recordings[s], ids) \in Nat /\ Lasted(s) \in Nat
<1> DEFINE new == [sec |-> age[s], deleted |-> deleted]
           q   == recordings[s]
           n   == Len(q) + 1
<1>1. /\ q \in Seq(Recording)
      /\ recordings'[s] = Append(q, new)
      /\ age'[s] = NotGrowing /\ age[s] # NotGrowing /\ age[s] \in 0..MaxSec
  BY DEF Complete, TypeOK
<1>2. PICK p : p = recordings'[s]
  OBVIOUS
<1>3. /\ \A id \in 1..Len(q) : p[id] = q[id]
      /\ p[n] = new
      /\ n \notin 1..Len(q)
  BY <1>1, <1>2
<1>4. Lasted(s)' = 0 /\ Lasted(s) = age[s] /\ age[s] \in Nat
  BY <1>1, FlusherAssumption DEF Lasted, NotGrowing, FlusherAssumption
<1>5. /\ IsFiniteSet(ids) /\ \A id \in ids : q[id].sec \in Nat
      /\ Seconds(q, ids) \in Nat
  BY Summable
<1>6. \A id \in ids : q[id] = p[id]
  BY <1>3
<1>7. n \notin ids /\ p[n].sec = age[s]
  BY <1>3
<1> HIDE DEF n, q
<1>8. Seconds(q, ids) = Seconds(p, ids)
  BY <1>5, <1>6, SecondsAgree
<1>9. Seconds(p, ids \cup {n}) = Seconds(p, ids) + age[s]
  <2>1. \A id \in ids \cup {n} : p[id].sec \in Nat
    BY <1>4, <1>5, <1>6, <1>7
  <2>2. IsFiniteSet(ids) /\ n \notin ids
    BY <1>5, <1>7
  <2>3. Seconds(p, ids \cup {n}) = Seconds(p, ids) + p[n].sec
    BY <2>1, <2>2, SecondsWith
  <2> QED BY <1>7, <2>3
<1>10. CASE more = ids
  BY <1>2, <1>4, <1>5, <1>8, <1>10 DEF q
<1>11. CASE more = ids \cup {n}
  BY <1>2, <1>4, <1>5, <1>8, <1>9, <1>11 DEF q
<1> QED BY <1>4, <1>10, <1>11 DEF n, q

LEMMA CompleteBounds ==
  ASSUME TypeOK, Bounded, NEW s \in Streams, NEW deleted \in BOOLEAN,
         Complete(s, deleted)
  PROVE  Bounded'
<1> DEFINE n == Len(recordings[s]) + 1
           new == [sec |-> age[s], deleted |-> deleted]
<1>1. /\ recordings[s] \in Seq(Recording) /\ Len(recordings[s]) \in Nat
      /\ flush_ready[s] \in Nat /\ flush_ready[s] <= Len(recordings[s])
      /\ recordings'[s] = Append(recordings[s], new)
      /\ UNCHANGED <<flush_ready, committed, planned_flush, retrying>>
      /\ age[s] # NotGrowing
  BY DEF Complete, TypeOK
<1>2. \A t \in Streams : t # s => recordings'[t] = recordings[t] /\ age'[t] = age[t]
  BY DEF Complete, TypeOK
<1>3. \A t \in Streams : Ready(t)' = Ready(t)
  BY CompletionIsAnnounced
<1>4. \A t \in Streams : t # s => /\ Newly(t)' = Newly(t) /\ Pending(t)' = Pending(t)
                                  /\ Lasted(t)' = Lasted(t)
  BY <1>1, <1>2 DEF Newly, Pending, Synced, Kept, Lasted
<1>5. /\ Len(recordings'[s]) = n
      /\ \A id \in 1..Len(recordings[s]) : recordings'[s][id] = recordings[s][id]
      /\ recordings'[s][n] = new
  BY <1>1
<1>6. Newly(s)' = IF deleted THEN Newly(s) ELSE Newly(s) \cup {n}
  BY <1>1, <1>5 DEF Newly, Kept
<1>7. Synced(s)' = IF deleted THEN Synced(s) ELSE Synced(s) \cup {n}
  BY <1>1, <1>5 DEF Synced, Kept
<1>8. Examined'
  BY <1>1 DEF Bounded, Examined
<1>9. Pending(s)' = Pending(s) \/ Pending(s)' = Pending(s) \cup {n}
  <2>1. n \notin committed[s]
    BY <1>1 DEF Bounded, Examined
  <2> QED BY <1>1, <1>7, <2>1 DEF Pending
<1>10. /\ Pending(s) \subseteq 1..Len(recordings[s])
       /\ Newly(s) \subseteq 1..Len(recordings[s])
       /\ Newly(s) \subseteq Nat
  BY PendingParts DEF Bounded
<1> HIDE DEF n
<1>11. ASSUME Prompt PROVE Fresh'
  <2>1. SUFFICES ASSUME Newly(s)' # {}
                 PROVE  Seconds(recordings'[s], Newly(s)') + Lasted(s)'
                          <= recordings'[s][Min(Newly(s)')].sec
    BY <1>2, <1>4, <1>11 DEF Bounded, Fresh
  <2>2. PICK more : more = Newly(s)'
    OBVIOUS
  <2>3. /\ Seconds(recordings'[s], more) + Lasted(s)'
              <= Seconds(recordings[s], Newly(s)) + Lasted(s)
        /\ Seconds(recordings'[s], more) \in Nat /\ Lasted(s)' = 0
        /\ Seconds(recordings[s], Newly(s)) \in Nat /\ Lasted(s) \in Nat
    BY <1>6, <1>10, <2>2, SecondsMove DEF n
  <2>4. CASE Newly(s) = {}
    <3>1. more = {n}
      BY <1>6, <2>1, <2>2, <2>4
    <3>2. Min(more) = n
      <4>1. n \in Nat
        BY <1>1 DEF n
      <4> QED BY <3>1, <4>1, MinIsLeast
    <3>3. Seconds(recordings[s], Newly(s)) = 0
      BY <2>4, SecondsOfNone
    <3>4. Lasted(s) = age[s] /\ age[s] \in Int
      BY <1>1 DEF Lasted, TypeOK, NotGrowing
    <3>5. recordings'[s][Min(more)].sec = age[s]
      BY <1>5, <3>2
    <3>6. 0 + Lasted(s) = age[s]
      BY <3>4
    <3> QED BY <2>2, <2>3, <3>3, <3>5, <3>6
  <2>5. CASE Newly(s) # {}
    <3>1. Seconds(recordings[s], Newly(s)) + Lasted(s) <= recordings[s][Min(Newly(s))].sec
      BY <1>11, <2>5 DEF Bounded, Fresh
    <3>2. Min(Newly(s)) \in Newly(s) /\ \A id \in Newly(s) : Min(Newly(s)) <= id
      BY <1>10, <2>5, MinIsLeast
    <3>3. Min(more) = Min(Newly(s))
      <4>1. more \subseteq Nat /\ more # {} /\ Newly(s) \subseteq more
            /\ \A id \in more : id \in Newly(s) \/ id = n
        BY <1>1, <1>6, <1>10, <2>1, <2>2 DEF n
      <4>2. Min(more) \in more /\ \A id \in more : Min(more) <= id
        BY <4>1, MinIsLeast
      <4>3. n \in Nat /\ \A id \in Newly(s) : id <= n /\ id # n /\ id \in Nat
        BY <1>1, <1>10 DEF n
      <4>4. Min(more) # n
        <5>1. Min(more) <= Min(Newly(s)) /\ Min(Newly(s)) <= n /\ Min(Newly(s)) # n
              /\ Min(Newly(s)) \in Nat
          BY <3>2, <4>1, <4>2, <4>3
        <5> QED BY <4>3, <5>1
      <4>5. /\ Min(more) <= Min(Newly(s)) /\ Min(Newly(s)) <= Min(more)
            /\ Min(more) \in Nat /\ Min(Newly(s)) \in Nat
        BY <3>2, <4>1, <4>2, <4>3, <4>4
      <4> QED BY <4>5
    <3>4. recordings'[s][Min(more)] = recordings[s][Min(Newly(s))]
      BY <1>5, <1>10, <3>2, <3>3
    <3>5. \A a, b, c \in Int : a <= b /\ b <= c => a <= c
      OBVIOUS
    <3>6. /\ Seconds(recordings[s], Newly(s)) + Lasted(s) \in Int
          /\ Seconds(recordings'[s], more) + Lasted(s)' \in Int
          /\ recordings[s][Min(Newly(s))].sec \in Int
      <4>1. recordings[s][Min(Newly(s))].sec \in Nat
        BY <1>10, <3>2, Summable
      <4> QED BY <2>3, <4>1
    <3> QED BY <2>2, <2>3, <3>1, <3>4, <3>5, <3>6
  <2> QED BY <2>4, <2>5
<1>12. Fresh'
  BY <1>11 DEF Fresh
<1>13. InTime'
  <2>1. SUFFICES ASSUME Prompt, ~retrying, planned_flush.when > 0, NEW t \in Streams,
                        Ready(t) # {}
                 PROVE  Seconds(recordings'[t], Pending(t)') + Lasted(t)'
                          + planned_flush.when <= FlushIfSec[t]
    BY <1>1, <1>3 DEF InTime
  <2>2. Seconds(recordings[t], Pending(t)) + Lasted(t) + planned_flush.when
          <= FlushIfSec[t]
    BY <2>1 DEF Bounded, InTime
  <2>3. CASE t # s
    BY <1>2, <1>4, <2>2, <2>3
  <2>4. CASE t = s
    <3>1. PICK more : more = Pending(s)'
      OBVIOUS
    <3>2. /\ Seconds(recordings'[s], more) + Lasted(s)'
                <= Seconds(recordings[s], Pending(s)) + Lasted(s)
          /\ Seconds(recordings'[s], more) \in Nat /\ Lasted(s)' = 0
          /\ Seconds(recordings[s], Pending(s)) \in Nat /\ Lasted(s) \in Nat
      BY <1>9, <1>10, <3>1, SecondsMove DEF n
    <3>3. planned_flush.when \in Nat /\ FlushIfSec[s] \in Nat
      BY FlusherAssumption DEF FlusherAssumption, TypeOK, Plan, NoPlan
    <3>4. \A a, b, c, d, w, f \in Nat :
            a + b <= c + d /\ c + d + w <= f => a + b + w <= f
      OBVIOUS
    <3>5. Lasted(s)' \in Nat
      BY <3>2
    <3> QED BY <2>2, <2>4, <3>1, <3>2, <3>3, <3>4, <3>5
  <2> QED BY <2>3, <2>4
<1> QED BY <1>8, <1>12, <1>13 DEF Bounded

\* handle_notify plans each stream's flush in time.
LEMMA NotifyBounds ==
  ASSUME TypeOK, Plans, Bounded, HandleNotify
  PROVE  Bounded'
<1> DEFINE wanted == {HowSoon(s) : s \in {t \in Streams : Newly(t) # {}}}
<1>1. /\ UNCHANGED <<age, recordings, committed, retrying>>
      /\ flush_ready' = [s \in Streams |-> Len(recordings[s])]
      /\ ~ended
      /\ planned_flush' =
           IF wanted # {} /\ (StillPlanned = NoPlan \/ Min(wanted) < StillPlanned.when)
           THEN Replaced(StillPlanned, Min(wanted))
           ELSE StillPlanned
  BY DEF HandleNotify
<1>2. \A s \in Streams : /\ Len(recordings[s]) \in Nat
                         /\ flush_ready[s] \in Nat /\ flush_ready[s] <= Len(recordings[s])
                         /\ committed[s] \subseteq 1..flush_ready[s]
  BY DEF TypeOK, Bounded, Examined
<1>3. \A s \in Streams : Newly(s)' = {} /\ Lasted(s)' = Lasted(s)
  BY <1>1, <1>2 DEF Newly, Kept, Lasted
<1>4. \A s \in Streams : Pending(s)' = Pending(s)
  BY <1>1 DEF Pending, Synced, Kept
<1>5. Examined'
  BY <1>1, <1>2 DEF Examined
<1>6. Fresh'
  BY <1>3 DEF Fresh
<1>7. wanted \subseteq Nat
  BY HowSoonIsTime
<1>8. wanted # {} => Min(wanted) \in wanted /\ \A n \in wanted : Min(wanted) <= n
  <2> HIDE DEF wanted
  <2> QED BY <1>7, MinIsLeast
<1>9. \A s \in Streams : Newly(s) # {} => HowSoon(s) \in wanted
  OBVIOUS
<1> HIDE DEF wanted
<1>10. StillPlanned.when \in Nat
  BY StillPlannedTyped DEF NoPlan, Plan
<1>11. planned_flush'.when \in Nat
  BY <1>1, <1>7, <1>8, <1>10 DEF Replaced
\* A stream that wants a flush gets it by then, one whose flush is planned too.
<1>12. ASSUME NEW s \in Streams, Newly(s) # {} PROVE planned_flush'.when <= HowSoon(s)
  <2>1. HowSoon(s) \in wanted /\ Min(wanted) \in Nat /\ HowSoon(s) \in Nat
        /\ Min(wanted) <= HowSoon(s)
    BY <1>7, <1>8, <1>9, <1>12
  <2>2. planned_flush'.when <= Min(wanted)
    BY <1>1, <1>10, <2>1 DEF Replaced
  <2> QED BY <1>11, <2>1, <2>2
<1>13. StillPlanned # NoPlan => planned_flush'.when <= StillPlanned.when
  BY <1>1, <1>7, <1>8, <1>10 DEF Replaced
<1>14. InTime'
  <2>1. SUFFICES ASSUME Prompt, ~retrying, planned_flush'.when > 0, NEW s \in Streams,
                        Ready(s)' # {}
                 PROVE  Seconds(recordings[s], Pending(s)) + Lasted(s)
                          + planned_flush'.when <= FlushIfSec[s]
    BY <1>1, <1>3, <1>4 DEF InTime
  <2>2. FlushIfSec[s] \in Nat
    BY FlusherAssumption DEF FlusherAssumption
  <2>3. Lasted(s) \in Nat
    BY FlusherAssumption DEF FlusherAssumption, Lasted, TypeOK
  <2>4. /\ Pending(s) = Ready(s) \cup Newly(s)
        /\ Pending(s) \subseteq 1..Len(recordings[s])
    BY PendingParts DEF Bounded
  <2>5. Seconds(recordings[s], Pending(s)) \in Nat
    BY <2>4, Summable
  <2>6. CASE Ready(s) # {}
    <3>1. StillPlanned = planned_flush /\ StillPlanned # NoPlan
      BY <1>1, <2>6 DEF Plans, PlanCoversReady, StillPlanned
    <3>2. planned_flush'.when <= planned_flush.when /\ planned_flush.when \in Nat
      BY <1>10, <1>13, <3>1
    <3>3. planned_flush.when > 0
      BY <1>11, <2>1, <3>2
    <3>4. Seconds(recordings[s], Pending(s)) + Lasted(s) + planned_flush.when
            <= FlushIfSec[s]
      BY <2>1, <2>6, <3>3 DEF Bounded, InTime
    <3> QED BY <1>11, <2>2, <2>3, <2>5, <3>2, <3>4
  <2>7. CASE Ready(s) = {}
    <3>1. Newly(s) # {} /\ Pending(s) = Newly(s)
      BY <2>1, <2>4, <2>7, NotifyExamines
    <3>2. planned_flush'.when <= HowSoon(s)
      BY <1>12, <3>1
    <3>3. PICK sec : sec = recordings[s][Min(Newly(s))].sec
      OBVIOUS
    <3>4. sec \in Nat
      <4>1. Newly(s) \subseteq Nat /\ Newly(s) \subseteq 1..Len(recordings[s])
        BY <2>4, <3>1
      <4>2. Min(Newly(s)) \in Newly(s)
        BY <3>1, <4>1, MinIsLeast
      <4> QED BY <3>3, <4>1, <4>2, Summable
    <3>5. FlushIfSec[s] > sec /\ planned_flush'.when <= FlushIfSec[s] - sec
      BY <1>11, <2>1, <2>2, <3>2, <3>3, <3>4 DEF HowSoon
    <3>6. Seconds(recordings[s], Pending(s)) + Lasted(s) <= sec
      BY <2>1, <3>1, <3>3 DEF Bounded, Fresh
    <3> QED BY <1>11, <2>2, <2>3, <2>5, <3>4, <3>5, <3>6
  <2> QED BY <2>6, <2>7
<1> QED BY <1>5, <1>6, <1>14 DEF Bounded

\* Time passes for a plan and for growing recordings alike.
LEMMA TickBounds ==
  ASSUME TypeOK, Plans, Bounded, Tick
  PROVE  Bounded'
<1>1. UNCHANGED <<recordings, flush_ready, committed, notified, retrying>>
  BY DEF Tick
<1>2. \A s \in Streams : /\ Ready(s)' = Ready(s) /\ Newly(s)' = Newly(s)
                         /\ Pending(s)' = Pending(s)
                         /\ recordings'[s] = recordings[s]
  BY <1>1 DEF Ready, Newly, Pending, Synced, Kept
<1>3. Examined'
  BY <1>1 DEF Bounded, Examined
<1>4. Fresh'
  <2>1. Prompt => \A s \in Streams : Newly(s) = {}
    <3>1. Prompt => ~notified
      BY DEF Tick, Idle, NoCommand
    <3> QED BY <3>1, NewIsAnnounced DEF Plans, Bounded
  <2> QED BY <1>2, <2>1 DEF Fresh
<1>5. InTime'
  <2>1. SUFFICES ASSUME Prompt, ~retrying, planned_flush'.when > 0, NEW s \in Streams,
                        Ready(s) # {}
                 PROVE  Seconds(recordings[s], Pending(s)) + Lasted(s)'
                          + planned_flush'.when <= FlushIfSec[s]
    BY <1>1, <1>2 DEF InTime
  <2>2. planned_flush.when \in Nat
    BY DEF TypeOK, NoPlan, Plan
  <2>3. planned_flush.when > 0 /\ planned_flush'.when = planned_flush.when - 1
    <3>1. CASE planned_flush.when = 0
      BY <2>1, <3>1 DEF Tick
    <3>2. CASE planned_flush.when # 0
      <4>1. planned_flush \in Plan
        BY <3>2 DEF TypeOK, NoPlan
      <4> QED BY <2>2, <3>2, <4>1 DEF Tick, Plan
    <3> QED BY <3>1, <3>2
  <2>4. Seconds(recordings[s], Pending(s)) + Lasted(s) + planned_flush.when
          <= FlushIfSec[s]
    BY <2>1, <2>3 DEF Bounded, InTime
  <2>5. age[s] \in {NotGrowing} \cup 0..MaxSec /\ MaxSec \in Nat
    BY FlusherAssumption DEF FlusherAssumption, TypeOK
  <2>6. age'[s] = IF age[s] \in {NotGrowing, MaxSec} THEN age[s] ELSE age[s] + 1
    BY DEF Tick
  <2>7. Lasted(s)' \in Nat /\ Lasted(s) \in Nat /\ Lasted(s)' <= Lasted(s) + 1
    BY <2>5, <2>6 DEF Lasted, NotGrowing
  <2>8. Seconds(recordings[s], Pending(s)) \in Nat
    BY PendingParts, Summable DEF Bounded
  <2>9. FlushIfSec[s] \in Nat
    BY FlusherAssumption DEF FlusherAssumption
  <2>10. \A t, a, b, w, f \in Nat :
           b <= a + 1 /\ t + a + w <= f => t + b + (w - 1) <= f
    OBVIOUS
  <2> QED BY <2>2, <2>3, <2>4, <2>7, <2>8, <2>9, <2>10
<1> QED BY <1>3, <1>4, <1>5 DEF Bounded
\* Bounded is an invariant, given the types and the plans.
THEOREM BoundedHolds == Spec => []Bounded
<1>1. Init => Bounded
  BY DEF Init, Bounded, Examined, Fresh, InTime, Newly, Kept, NoPlan
<1>2. TypeOK /\ Plans /\ Bounded /\ [Next]_vars => Bounded'
  <2> SUFFICES ASSUME TypeOK, Plans, Bounded, [Next]_vars PROVE Bounded'
    OBVIOUS
  <2>1. ASSUME UNCHANGED <<age, recordings, flush_ready, committed>>,
               \/ planned_flush'.when = planned_flush.when /\ retrying' = retrying
               \/ planned_flush'.when = 0
               \/ retrying'
        PROVE  Bounded'
    <3>1. \A s \in Streams : Lasted(s)' = Lasted(s)
      BY <2>1 DEF Lasted
    <3> QED BY <2>1, <3>1, KeepBounds
  <2>2. ASSUME UNCHANGED <<streamVars, planned_flush, retrying>> PROVE Bounded'
    BY <2>1, <2>2 DEF streamVars
  <2>3. ASSUME NEW s \in Streams, Begin(s) PROVE Bounded'
    <3>1. \A t \in Streams : Lasted(t)' = Lasted(t)
      BY <2>3 DEF Begin, Lasted, TypeOK, NotGrowing
    <3> QED BY <2>3, <3>1, KeepBounds DEF Begin
  <2>4. ASSUME NEW s \in Streams, NEW deleted \in BOOLEAN, Complete(s, deleted)
        PROVE  Bounded'
    BY <2>4, CompleteBounds
  <2>5. CASE OtherFlush
    BY <2>5, FlushBounds DEF OtherFlush
  <2>6. CASE HandleNotify
    BY <2>6, NotifyBounds
  <2>7. CASE HandleAwaitIdle
    <3>1. planned_flush'.when = planned_flush.when
      <4>1. CASE planned_flush = NoPlan
        BY <2>7, <4>1 DEF HandleAwaitIdle
      <4>2. CASE planned_flush \in Plan
        BY <2>7, <4>2 DEF HandleAwaitIdle, Plan
      <4> QED BY <4>1, <4>2 DEF TypeOK
    <3> QED BY <2>1, <2>7, <3>1 DEF HandleAwaitIdle, streamVars
  <2>8. CASE End
    BY <2>2, <2>8 DEF End
  <2>9. CASE HandleFlushed
    <3>1. planned_flush'.when = planned_flush.when \/ planned_flush'.when = 0
      BY <2>9 DEF HandleFlushed, StillPlanned, NoPlan
    <3> QED BY <2>1, <2>9, <3>1 DEF HandleFlushed, streamVars
  <2>10. CASE PlannedFlush
    BY <2>10, FlushBounds DEF PlannedFlush
  <2>11. CASE PlannedFlushFails
    BY <2>1, <2>11 DEF PlannedFlushFails, streamVars
  <2>12. CASE PlannedFlushObsolete
    BY <2>1, <2>12 DEF PlannedFlushObsolete, NoPlan, streamVars
  <2>13. CASE AwaitIdle
    BY <2>2, <2>13 DEF AwaitIdle
  <2>14. CASE Return
    BY <2>2, <2>14 DEF Return
  <2>15. CASE Tick
    BY <2>15, TickBounds
  <2>16. CASE DropChannel
    BY <2>2, <2>16 DEF DropChannel
  <2>17. CASE Exit
    <3>1. CASE Flushed
      BY <2>17, <3>1, FlushBounds DEF Exit
    <3>2. CASE UNCHANGED <<committed, flush_count, retrying>>
      BY <2>1, <2>17, <3>2 DEF Exit
    <3> QED BY <2>17, <3>1, <3>2 DEF Exit
  <2>18. CASE UNCHANGED vars
    BY <2>2, <2>18 DEF vars
  <2> QED
    BY <2>3, <2>4, <2>5, <2>6, <2>7, <2>8, <2>9, <2>10, <2>11, <2>12, <2>13,
       <2>14, <2>15, <2>16, <2>17, <2>18 DEF Next, Iter
<1> QED BY <1>1, <1>2, TypeCorrect, PlansHold, PTL DEF Spec

\* While flushes succeed and the flusher is prompt, no stream has more than
\* its flush_if_sec of completed recordings that no flush has inserted.
THEOREM UnflushedStaysBounded == Spec => []UnflushedIsBounded
<1>1. TypeOK /\ Plans /\ Bounded => UnflushedIsBounded
  <2> SUFFICES ASSUME TypeOK, Plans, Bounded, Prompt, Idle, ~retrying,
                      NEW s \in Streams
               PROVE  Seconds(recordings[s], Pending(s)) <= FlushIfSec[s]
    BY DEF UnflushedIsBounded, Seconds, Pending
  <2>1. ~notified /\ ~ended /\ (planned_flush = NoPlan \/ planned_flush.when > 0)
    BY DEF Idle, NoCommand
  <2>2. Pending(s) = Ready(s)
    BY <2>1, NewIsAnnounced DEF Plans, Bounded
  <2>3. FlushIfSec[s] \in Nat
    BY FlusherAssumption DEF FlusherAssumption
  <2>4. CASE Ready(s) = {}
    BY <2>2, <2>3, <2>4, SecondsOfNone
  <2>5. CASE Ready(s) # {}
    <3>1. planned_flush.when > 0
      BY <2>1, <2>5 DEF Plans, PlanCoversReady
    <3>2. Seconds(recordings[s], Pending(s)) + Lasted(s) + planned_flush.when
            <= FlushIfSec[s]
      BY <2>5, <3>1 DEF Bounded, InTime
    <3>3. Lasted(s) \in Nat /\ planned_flush.when \in Nat
      BY FlusherAssumption DEF FlusherAssumption, Lasted, TypeOK, Plan, NoPlan
    <3>4. Seconds(recordings[s], Pending(s)) \in Nat
      BY PendingParts, Summable DEF Bounded
    <3> QED BY <2>3, <3>2, <3>3, <3>4
  <2> QED BY <2>4, <2>5
<1> QED BY <1>1, TypeCorrect, PlansHold, BoundedHolds, PTL
=============================================================================

------------------------------ MODULE MCSignals ------------------------------
EXTENDS Signals, TLC

\* One signal with id 0, which update_signals_start treats apart, and another.
MCSignals == {0, 1}
MCValidStates == (0 :> {0, 1}) @@ (1 :> {0, 1, 2})

\* Two signals none of which has id 0.
OtherSignals == {1, 2}
OtherStates == (1 :> {0, 1, 2}) @@ (2 :> {0, 1})

MCMidnights == {0, 2}

\* A recording shorter than a day counts once in each day it overlaps, with its
\* time in that day, and taking it out leaves nothing (Map<StreamValue>::adjust).
ASSUME DaysSplitRecordings ==
  \A from \in 0..5, to \in 0..5 :
    LET none == [d \in Midnights |-> NoTime]
        days == AdjustStream(none, from, to, 1)
        In(d) == {t \in from..(to - 1) : DayOf(t) = d}
    IN  /\ \A d \in Midnights :
             /\ days[d].duration = Cardinality(In(d))
             /\ days[d].recordings = IF In(d) = {} THEN 0 ELSE 1
        /\ AdjustStream(days, from, to, -1) = none
==============================================================================

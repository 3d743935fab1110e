-------------------------------- MODULE Days --------------------------------
(***************************************************************************)
(* In-memory indexes by calendar day (server/db/days.rs): how the time of  *)
(* a recording, or of a state of a signal, is split over days.  A day is   *)
(* named by the midnight that starts it; days may differ in length, as     *)
(* they do in most time zones.                                             *)
(*                                                                         *)
(* A day without an entry in the code's map is a day whose numbers are all *)
(* 0 here: what an entry of zeros is worth is left out.                    *)
(***************************************************************************)
EXTENDS Integers, FiniteSetsExt, Functions, Folds

CONSTANT Midnights

ASSUME MidnightsAssumption == Midnights \subseteq Nat /\ 0 \in Midnights

DayOf(t) == Max({m \in Midnights : m <= t})

\* The midnights strictly within a range.
MidnightsWithin(from, to) == {m \in Midnights : from < m /\ m < to}

\* Key::bounds of day d, cut to a range.
Overlap(d, from, to) ==
    LET ends == {m \in Midnights : m > d /\ m < to} \cup {to}
        length == Min(ends) - Max({d, from})
    IN  Max({0, length})

(***************************************************************************)
(* Map<StreamValue>::adjust.  The first day takes what lies before its     *)
(* boundary and the second day all the rest, however long that is.         *)
(***************************************************************************)
NoTime == [recordings |-> 0, duration |-> 0]

AdjustDay(days, d, sign, duration) ==
    [days EXCEPT ![d].recordings = @ + sign, ![d].duration = @ + sign * duration]

AdjustStream(days, from, to, sign) ==
    IF to <= from THEN days
    ELSE IF MidnightsWithin(from, to) = {}
         THEN AdjustDay(days, DayOf(from), sign, to - from)
         ELSE LET boundary == Min(MidnightsWithin(from, to))
              IN  AdjustDay(AdjustDay(days, DayOf(from), sign, boundary - from),
                            boundary, sign, to - boundary)

(***************************************************************************)
(* Map<SignalValue>::adjust.  A piece is a range of time in which a signal *)
(* goes from an old to a new state; state 0, unknown, is not counted.  The *)
(* code adds before it subtracts, and panics when there is less to         *)
(* subtract from than the piece takes: the result is then not ok.          *)
(***************************************************************************)
Piece(from, to, old, new) == [from |-> from, to |-> to, old |-> old, new |-> new]

Added(spent, d, p) ==
    IF p.new = 0 THEN spent ELSE [spent EXCEPT ![p.new] = @ + Overlap(d, p.from, p.to)]

AdjustSignal(index, p) ==
    IF p.to <= p.from THEN index
    ELSE LET added == [d \in Midnights |-> Added(index.days[d], d, p)]
             short == p.old # 0 /\ \E d \in Midnights : added[d][p.old] < Overlap(d, p.from, p.to)
         IN  IF p.old = 0 THEN [index EXCEPT !.days = added]
             ELSE IF short THEN [index EXCEPT !.ok = FALSE]
             ELSE [index EXCEPT !.days = [d \in Midnights |->
                      [added[d] EXCEPT ![p.old] = @ - Overlap(d, p.from, p.to)]]]

\* Pieces that end at the given times, in the order of time.
AdjustInOrder(index, ends, piece(_)) ==
    MapThenFoldSet(LAMBDA p, i : AdjustSignal(i, p), index, piece, Max, ends)

=============================================================================

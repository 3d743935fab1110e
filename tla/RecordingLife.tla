--------------------------- MODULE RecordingLife ----------------------------
(***************************************************************************)
(* What a user of the system may rely on about the recordings of a stream, *)
(* with no mention of frames, workers, files, locks or flushes: the        *)
(* abstract specification that module Recordings implements.  It states    *)
(* the procedures of design/schema.md for creating and deleting            *)
(* recordings.                                                             *)
(*                                                                         *)
(*   none --> live --> kept --> garbage --> gone                           *)
(*              \--> lost                                                  *)
(*                                                                         *)
(* A live recording is visible but may be undone by a crash; a kept one    *)
(* has a row; a garbage one has lost its row but perhaps not its file; a   *)
(* lost one was given up before it was ever kept.                          *)
(***************************************************************************)
EXTENDS Naturals

CONSTANT Ids          \* the recording ids, an initial segment of Nat

VARIABLE life

States == {"none", "live", "kept", "garbage", "gone", "lost"}

In(state) == {id \in Ids : life[id] = state}

\* The recordings a step takes from one state to another.
Moved(from, to) == {id \in Ids : life[id] = from /\ life'[id] = to}

Changed == {id \in Ids : life'[id] # life[id]}

Before(ids) == {id \in Ids : \E later \in ids : id < later}

Persisted == In("kept") \cup In("garbage") \cup In("gone")

Init == life = [id \in Ids |-> "none"]

\* Ids are handed out in order.  What the new recording's frame pushes out of
\* memory before it was written is lost.
Begin ==
  \E id \in Moved("none", "live") :
    /\ Before({id}) \cap In("none") = {}
    /\ Changed = {id} \cup Moved("live", "lost")

\* Recordings are given up: an I/O error, or the writer fell behind.
Lose == Changed = Moved("live", "lost")

\* One transaction: keeps some live recordings, passing over none; turns the
\* oldest kept ones into garbage; forgets garbage.
Commit ==
  LET new == Moved("live", "kept")
      old == Moved("kept", "garbage")
  IN  /\ Changed = new \cup old \cup Moved("garbage", "gone")
      /\ Before(new) \cap In("live") \subseteq new
      /\ Before(old) \cap In("kept") \subseteq old

\* A crash undoes what came after the last recording ever kept.
Crash ==
  LET undone == Ids \ (Persisted \cup Before(Persisted))
  IN  /\ Changed \subseteq undone
      /\ \A id \in undone : life'[id] = "none"

Next ==
  /\ life' \in [Ids -> States]
  /\ Begin \/ Lose \/ Commit \/ Crash

Spec == Init /\ [][Next]_life
=============================================================================

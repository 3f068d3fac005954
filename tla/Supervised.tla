----------------------------- MODULE Supervised -----------------------------
(***************************************************************************)
(* What a station promises of each of its containers, without scripts,     *)
(* programs, images or an engine: one that is up does not vanish. It goes  *)
(* down and comes up again, somebody stops it, or somebody takes it away   *)
(* who owes another one. Only what is owed or stopped can be lost, and     *)
(* only by a mishap.                                                       *)
(***************************************************************************)
CONSTANTS
  Container,
  Revived  \* those that come up again after somebody has stopped them

VARIABLES
  life,   \* of each container
  mishap  \* has something happened after which a container may be lost?

vars == <<life, mishap>>

Life == {"none", "up", "down", "stopped", "owed", "lost"}

Init == life = [c \in Container |-> "none"] /\ mishap = FALSE

Move(c, from, to) == life[c] \in from /\ life'[c] = to

SetUp(c) == Move(c, {"none", "lost", "owed"}, "up")

GoDown(c) == Move(c, {"up"}, "down")

ComeUp(c) == Move(c, {"down"}, "up") \/ (c \in Revived /\ Move(c, {"stopped"}, "up"))

Stop(c) == Move(c, {"up", "down"}, "stopped")

\* Replaced by somebody who owes another one from now on.
TakeAway(c) == Move(c, {"up", "down", "stopped", "lost"}, "owed")

Lose(c) == Move(c, {"owed", "stopped"}, "lost") /\ mishap'

\* One event can be about many containers.
Next ==
  /\ life' \in [Container -> Life]
  /\ mishap' \in BOOLEAN /\ (mishap => mishap')
  /\ \A c \in Container :
       \/ life'[c] = life[c]
       \/ SetUp(c) \/ GoDown(c) \/ ComeUp(c) \/ Stop(c) \/ TakeAway(c) \/ Lose(c)

Safety == Init /\ [][Next]_vars
=============================================================================

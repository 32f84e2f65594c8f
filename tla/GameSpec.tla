------------------------------ MODULE GameSpec ------------------------------
(***************************************************************************)
(* What the adventure promises its player: a walk over the map of rooms    *)
(* from the start room to the end room, with every request for the time    *)
(* dealt with once.  mores.adventure.c, with its table of rooms, its mutex *)
(* and its second thread, is shown to implement it.                        *)
(***************************************************************************)
EXTENDS Naturals, Sequences

CONSTANTS Maps,        \* the maps to play on: functions from rooms to their files
          Nowhere      \* where the player is before the game starts

VARIABLES map,         \* the map played on
          at,          \* the room the player is in
          path,        \* the rooms moved to
          over,        \* the end room was reached
          asked, answered  \* how often the time was asked for, and the request dealt with
vars == <<map, at, path, over, asked, answered>>

Init == map \in Maps /\ at = Nowhere /\ path = <<>> /\ ~over /\ asked = 0 /\ answered = 0

Start ==
    /\ at = Nowhere
    /\ at' \in {r \in DOMAIN map : map[r].type = "START_ROOM"}
    /\ UNCHANGED <<map, path, over, asked, answered>>

Move(r) ==
    /\ at # Nowhere /\ ~over /\ asked = answered
    /\ r \in map[at].to
    /\ at' = r
    /\ path' = Append(path, r)
    /\ over' = (map[r].type = "END_ROOM")
    /\ UNCHANGED <<map, asked, answered>>

Ask ==
    /\ at # Nowhere /\ ~over /\ asked = answered
    /\ asked' = asked + 1
    /\ UNCHANGED <<map, at, path, over, answered>>

\* The time is told, or could not be because no thread was there to do it.
Answer ==
    /\ answered < asked
    /\ answered' = answered + 1
    /\ UNCHANGED <<map, at, path, over, asked>>

Next == Start \/ (\E r \in DOMAIN map : Move(r)) \/ Ask \/ Answer
Spec == Init /\ [][Next]_vars
=============================================================================

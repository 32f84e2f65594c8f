---------------------------- MODULE MCAdventure ----------------------------
(* Four rooms in a ring, with and without a shortcut, with the end room    *)
(* next to the start, opposite to it, or nowhere.                          *)
EXTENDS Adventure

Ring == [r \in 1..4 |-> {(r % 4) + 1, ((r + 2) % 4) + 1}]
Shortcut == [Ring EXCEPT ![2] = @ \cup {4}, ![4] = @ \cup {2}]
TypeWith(end, r) == CASE r = 1 -> "START_ROOM" [] r = end -> "END_ROOM" [] OTHER -> "MID_ROOM"
MCMaps == {[r \in 1..4 |-> [type |-> TypeWith(end, r), to |-> ways[r]]] :
               end \in {0, 2, 3}, ways \in {Ring, Shortcut}}
=============================================================================

----------------------------- MODULE MCEnPhase -----------------------------
(* The taps and phases of the board, with a ring of four clocks: windows of about a clock  *)
(* that begin at every third of a phase; and windows that cannot be found, with no end,    *)
(* that are as long as the ring, and one that may seem not to end.                         *)
EXTENDS EnPhase
MCWindows ==
    [lo : {104 * k : k \in 0..((Ring \div 104) - 1)}, width : {1900, 2200, 2500, 2650}, fringe : {0, 40}]
    \cup [lo : {624, 728, 4990}, width : {2050}, fringe : {150}]
    \cup [lo : {20}, width : {200}, fringe : {0}] \cup [lo : {312}, width : {8000}, fringe : {0}]
    \cup [lo : {3062}, width : {7188}, fringe : {1398}]
=============================================================================

----------------------------- MODULE MCDeskew -----------------------------
EXTENDS Deskew
Eyes == {e \in [lo : -4..3, hi : -3..4] : e.lo <= e.hi}
MCBoards ==
    [side : {"read", "write"}, start_dqs : {0, 1}, eye : [Pins -> Eyes],
     fringe : {0, 1}, mask : {{0}}]
    \cup [side : {"write"}, start_dqs : {1}, eye : [Pins -> {[lo |-> 0, hi |-> 1]}],
          fringe : {0}, mask : SUBSET (-3..3)]
=============================================================================

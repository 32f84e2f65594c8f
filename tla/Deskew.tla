------------------------------ MODULE Deskew ------------------------------
(***************************************************************************)
(* The search for the centre of the data eyes of a group in sequencer.c:   *)
(* rw_mgr_mem_calibrate_vfifo_center() for the reads and                   *)
(* rw_mgr_mem_calibrate_writes_center() for the writes, which have the     *)
(* same two sweeps, the second one with the window of the data mask after  *)
(* them.  Every pin has an eye the program does not know: the offsets      *)
(* between its own delay and that of DQS with which its data is right.     *)
(* Inside the eye a test passes, and at its fringe, some taps wide, it     *)
(* may pass or not, each time anew.  All delay chains have one length      *)
(* (sequencer_defines.h gives each of them 31).                            *)
(***************************************************************************)
EXTENDS Integers, FiniteSets

CONSTANTS Pins,        \* of the group
          DELAY_MAX,   \* IO_IO_IN_DELAY_MAX, IO_DQS_IN_DELAY_MAX, IO_IO_OUT1_DELAY_MAX
          Boards       \* what the board and the run may be

ASSUME DeskewAssumption ==
    /\ Pins # {} /\ IsFiniteSet(Pins) /\ DELAY_MAX \in Nat
    /\ Boards \subseteq [side : {"read", "write"}, start_dqs : 0..DELAY_MAX,
                         eye : [Pins -> [lo : Int, hi : Int]], fringe : Nat, mask : SUBSET Int]

VARIABLES
    board,               \* never changes: the side that is trained and what passes on it
    pc, d, left_edge, right_edge,
    sticky,              \* sticky_bit_chk: the pins that need not be waited for
    dq, dqs, dm,         \* the delays in force
    bgn_curr, end_curr, bgn_best, end_best, win_best,   \* the windows of the mask
    dq_ok,               \* the margins of the pins are not negative
    result
edges == <<left_edge, right_edge, sticky>>
window == <<bgn_curr, end_curr, bgn_best, end_best, win_best>>
vars == <<board, pc, d, edges, dq, dqs, dm, window, dq_ok, result>>

Unset == DELAY_MAX + 1
start_dqs == board.start_dqs
Writing == board.side = "write"

\* The division of C, towards zero.
Half(n) == IF n >= 0 THEN n \div 2 ELSE -((-n) \div 2)
-----------------------------------------------------------------------------
(* The tests *)

\* How far a pin is delayed against DQS.
Offset(i) == dq[i] - (dqs - start_dqs)

InEye(i, x) == board.eye[i].lo <= x /\ x <= board.eye[i].hi
NearEye(i, x) == board.eye[i].lo - board.fringe <= x /\ x <= board.eye[i].hi + board.fringe

\* The bits that a read or a write test may report with all pins at one offset.
Outcomes(x) == {good \in SUBSET Pins : \A i \in Pins : /\ i \in good => NearEye(i, x)
                                                       /\ InEye(i, x) => i \in good}
\* All bits are wrong, and every pin has been seen right.
Past(good) == good = {} /\ sticky \cup good = Pins
-----------------------------------------------------------------------------
Init ==
    /\ board \in Boards
    /\ pc = "left" /\ d = 0 /\ sticky = {}
    /\ left_edge = [i \in Pins |-> Unset] /\ right_edge = [i \in Pins |-> Unset]
    /\ dq = [i \in Pins |-> 0] /\ dqs = board.start_dqs /\ dm = 0
    /\ bgn_curr = Unset /\ end_curr = Unset /\ bgn_best = Unset /\ end_best = Unset /\ win_best = 0
    /\ dq_ok = FALSE /\ result = FALSE

(* The pins are delayed, until none of them is right any more. *)
LeftSweep ==
    /\ pc = "left" /\ d <= DELAY_MAX
    /\ dq' = [i \in Pins |-> d]
    /\ \E good \in Outcomes(d) :
          /\ sticky' = sticky \cup good
          /\ IF Past(good)
             THEN pc' = "between" /\ UNCHANGED <<d, left_edge, right_edge>>
             ELSE /\ left_edge' = [i \in Pins |-> IF i \in good THEN d ELSE left_edge[i]]
                  /\ right_edge' = [i \in Pins |-> IF i \notin good /\ left_edge[i] = Unset
                                                   THEN -(d + 1) ELSE right_edge[i]]
                  /\ d' = d + 1 /\ UNCHANGED pc
    /\ UNCHANGED <<board, dqs, dm, window, dq_ok, result>>

\* A pin that was never right has no edge yet.  The second sweep need not wait for a pin
\* with two edges (reads), or for one that has been right (writes).
Between ==
    /\ pc = "between" \/ (pc = "left" /\ d > DELAY_MAX)
    /\ LET right == [i \in Pins |-> IF left_edge[i] = Unset THEN Unset ELSE right_edge[i]]
       IN  /\ right_edge' = right
           /\ sticky' = {i \in Pins : left_edge[i] # Unset /\ (Writing \/ right[i] # Unset)}
    /\ dq' = [i \in Pins |-> 0] /\ d' = 0 /\ pc' = "right"
    /\ UNCHANGED <<board, left_edge, dqs, dm, window, dq_ok, result>>

(* DQS is delayed, until none of the pins is right any more. *)
EdgeAtOnce == [i \in Pins |-> IF right_edge[i] = Unset /\ left_edge[i] # Unset
                              THEN -1 ELSE right_edge[i]]
RightEdges(good) == [i \in Pins |-> IF i \in good THEN d
                                    ELSE IF d = 0 THEN EdgeAtOnce[i] ELSE right_edge[i]]
LeftEdges(good) == [i \in Pins |-> IF i \notin good /\ right_edge[i] = Unset
                                      /\ (d = 0 => left_edge[i] = Unset)
                                   THEN -(d + 1) ELSE left_edge[i]]
RightSweep ==
    /\ pc = "right" /\ d <= DELAY_MAX - start_dqs
    /\ dqs' = d + start_dqs
    /\ \E good \in Outcomes(-d) :
          /\ sticky' = sticky \cup good
          /\ IF Past(good)
             THEN /\ right_edge' = IF Writing /\ d = 0 THEN EdgeAtOnce ELSE right_edge
                  /\ pc' = "centre" /\ UNCHANGED <<d, left_edge>>
             ELSE /\ right_edge' = RightEdges(good) /\ left_edge' = LeftEdges(good)
                  /\ d' = d + 1 /\ UNCHANGED pc
    /\ UNCHANGED <<board, dq, dm, window, dq_ok, result>>
-----------------------------------------------------------------------------
(* The centre *)

SweepsEnd == pc = "centre" \/ (pc = "right" /\ d > DELAY_MAX - start_dqs)
NoWindow == \E i \in Pins : left_edge[i] = Unset \/ right_edge[i] = Unset

\* Reads put DQS back where it was; writes leave it.
Fails ==
    /\ SweepsEnd /\ NoWindow
    /\ dqs' = IF Writing THEN dqs ELSE start_dqs
    /\ result' = FALSE /\ pc' = "done"
    /\ UNCHANGED <<board, d, edges, dq, dm, window, dq_ok>>

mid(i) == left_edge[i] - right_edge[i]
SmallestMid == CHOOSE m \in {mid(i) : i \in Pins} : \A i \in Pins : m <= mid(i)
\* Seeded fault: the sum of the edges, not half of it.
orig_mid_min_Whole == SmallestMid
orig_mid_min == Half(IF SmallestMid > 0 THEN SmallestMid + 1 ELSE SmallestMid)

\* Only reads move DQS, and no further than its chain goes.
new_dqs ==
    IF Writing THEN start_dqs
    ELSE LET x == start_dqs - orig_mid_min
         IN  IF x > DELAY_MAX THEN DELAY_MAX ELSE IF x < 0 THEN 0 ELSE x
\* Seeded fault: DQS is taken to have moved as far as it should.
mid_min_Unclamped == orig_mid_min
mid_min == start_dqs - new_dqs

shift_dq(i) ==
    LET x == Half(mid(i) - SmallestMid) + (orig_mid_min - mid_min)
    IN  IF x > DELAY_MAX THEN DELAY_MAX ELSE IF x < 0 THEN 0 ELSE x

Centre ==
    /\ SweepsEnd /\ ~NoWindow
    /\ dq' = [i \in Pins |-> shift_dq(i)] /\ dqs' = new_dqs
    /\ dq_ok' = \A i \in Pins : /\ left_edge[i] - shift_dq(i) - mid_min >= 0     \* dq_margin
                                /\ right_edge[i] + shift_dq(i) + mid_min >= 0    \* dqs_margin
    /\ IF Writing
       THEN pc' = "mask" /\ d' = DELAY_MAX /\ UNCHANGED result
       ELSE pc' = "done" /\ result' = dq_ok' /\ UNCHANGED d
    /\ UNCHANGED <<board, edges, dm, window>>
-----------------------------------------------------------------------------
(* The data mask: the widest window, first with its own delay, then with that of DQS *)

\* A test that passed at e, and the window that it ends.
Passed(e) ==
    /\ end_curr' = e /\ bgn_curr' = IF bgn_curr = Unset THEN e ELSE bgn_curr
    /\ IF e - bgn_curr' + 1 > win_best
       THEN win_best' = e - bgn_curr' + 1 /\ bgn_best' = bgn_curr' /\ end_best' = e
       ELSE UNCHANGED <<win_best, bgn_best, end_best>>
NoCurrent == bgn_curr' = Unset /\ end_curr' = Unset

MaskSweep ==
    /\ pc = "mask" /\ d >= 0
    /\ dm' = d /\ d' = d - 1
    /\ IF d \in board.mask THEN Passed(-d)
       ELSE NoCurrent /\ UNCHANGED <<bgn_best, end_best, win_best>>
    /\ UNCHANGED <<board, pc, edges, dq, dqs, dq_ok, result>>

\* Seeded fault: no window goes on.
MaskTurns_New ==
    /\ pc = "mask" /\ d < 0
    /\ dm' = 0 /\ d' = 0 /\ pc' = "mask_dqs"
    /\ NoCurrent
    /\ UNCHANGED <<board, edges, dq, dqs, bgn_best, end_best, win_best, dq_ok, result>>
\* A window that reaches offset zero goes on.
MaskTurns ==
    /\ pc = "mask" /\ d < 0
    /\ dm' = 0 /\ d' = 0 /\ pc' = "mask_dqs"
    /\ IF end_curr # 0 THEN NoCurrent ELSE UNCHANGED <<bgn_curr, end_curr>>
    /\ UNCHANGED <<board, edges, dq, dqs, bgn_best, end_best, win_best, dq_ok, result>>

\* Nothing that is left can be wider.
MaskDqsSweep ==
    /\ pc = "mask_dqs" /\ d <= DELAY_MAX - start_dqs
    /\ dqs' = d + start_dqs
    /\ IF -d \in board.mask
       THEN Passed(d) /\ d' = d + 1 /\ UNCHANGED pc
       ELSE /\ NoCurrent /\ UNCHANGED <<bgn_best, end_best, win_best>>
            /\ IF win_best - 1 > DELAY_MAX - start_dqs - d
               THEN pc' = "mask_end" /\ UNCHANGED d
               ELSE d' = d + 1 /\ UNCHANGED pc
    /\ UNCHANGED <<board, edges, dq, dm, dq_ok, result>>

mask_mid == LET m == Half(-bgn_best - end_best) IN IF m < 0 THEN 0 ELSE m
MaskEnds ==
    /\ pc = "mask_end" \/ (pc = "mask_dqs" /\ d > DELAY_MAX - start_dqs)
    /\ dqs' = start_dqs /\ dm' = mask_mid
    /\ result' = (dq_ok /\ win_best # 0 /\ -bgn_best - mask_mid >= 0)            \* dm_margin
    /\ pc' = "done"
    /\ UNCHANGED <<board, d, edges, dq, window, dq_ok>>

Next == LeftSweep \/ Between \/ RightSweep \/ Fails \/ Centre
        \/ MaskSweep \/ MaskTurns \/ MaskDqsSweep \/ MaskEnds
Spec == Init /\ [][Next]_vars /\ WF_vars(Next)
-----------------------------------------------------------------------------
(* Properties *)

Done == pc = "done"

\* What is called a success is one: every pin, and the mask, is left where a test could pass.
SuccessIsInTheEye ==
    Done /\ result => /\ \A i \in Pins : NearEye(i, Offset(i))
                      /\ Writing => dm - (dqs - start_dqs) \in board.mask

\* Clean eyes in reach, which the delays can bring together: none is further from another
\* than a chain is long, or, for the writes, has its middle where only DQS could go.
Reachable(x) == -(DELAY_MAX - start_dqs) <= x /\ x <= DELAY_MAX
Doubled(i) == board.eye[i].lo + board.eye[i].hi
EyesInReach ==
    /\ board.fringe = 0
    /\ \A i \in Pins : /\ board.eye[i].lo <= board.eye[i].hi
                       /\ Reachable(board.eye[i].lo - 1) /\ Reachable(board.eye[i].hi + 1)
                       /\ Writing => Doubled(i) >= 0
                       /\ \A j \in Pins : Doubled(i) - Doubled(j) <= 2 * DELAY_MAX

\* Such eyes are found, and every pin is left in the middle of its own.
EyesAreCentred ==
    Done /\ EyesInReach => dq_ok /\ \A i \in Pins : 2 * Offset(i) - Doubled(i) \in -1..1

\* The mask is put into the widest window there is: bgn_best and end_best are the two ends of
\* it, no other is wider, and the mask is left in its middle, or, when only DQS could bring it
\* there, at zero.
Run(a, b) == a..b \subseteq board.mask /\ Reachable(a) /\ Reachable(b)
MaskOffset == dm - (dqs - start_dqs)
MidOf(a, b, x) == IF a + b < 0 THEN x = 0 ELSE 2 * x - (a + b) \in -1..1
WidestWindow ==
    Done /\ Writing /\ result =>
        LET lo == -end_best   hi == -bgn_best
        IN  /\ lo <= hi /\ Run(lo, hi)
            /\ \A a, b \in -DELAY_MAX..DELAY_MAX : Run(a, b) => b - a <= hi - lo
            /\ MaskOffset \in lo..hi /\ MidOf(lo, hi, MaskOffset)
=============================================================================

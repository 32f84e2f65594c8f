------------------------------ MODULE EnPhase ------------------------------
(***************************************************************************)
(* rw_mgr_mem_calibrate_vfifo_find_dqs_en_phase() of sequencer.c: at which *)
(* moment the incoming DQS of a group is let through.  The moment is the   *)
(* position of the read FIFO, a ring of whole clocks, with a phase of the  *)
(* clock and a number of short delay taps added.  Reads work in one window *)
(* of the ring; at the fringes of the window a test passes or not, each    *)
(* time anew.  The program has to find the window, measure both its ends   *)
(* with the short taps, go to its centre, and measure on the way how many  *)
(* taps make up a phase.  Phase zero cannot be used (SKIP_PTAP_0).         *)
(***************************************************************************)
EXTENDS Integers

CONSTANTS VFIFO_SIZE, IO_DQS_EN_PHASE_MAX, IO_DQS_EN_DELAY_MAX,
          IO_DELAY_PER_OPA_TAP, IO_DELAY_PER_DQS_EN_DCHAIN_TAP,
          Windows      \* where reads may work

Clock == (IO_DQS_EN_PHASE_MAX + 1) * IO_DELAY_PER_OPA_TAP
Ring == VFIFO_SIZE * Clock

ASSUME EnPhaseAssumption ==
    /\ VFIFO_SIZE \in Nat \ {0} /\ IO_DQS_EN_DELAY_MAX \in Nat /\ IO_DQS_EN_PHASE_MAX \in Nat \ {0, 1}
    /\ IO_DELAY_PER_OPA_TAP \in Nat \ {0} /\ IO_DELAY_PER_DQS_EN_DCHAIN_TAP \in Nat \ {0}
    /\ Windows \subseteq [lo : 0..Ring - 1, width : Nat, fringe : Nat]

VARIABLES
    window,              \* never changes
    pc,
    v,                   \* increments of the FIFO; it stands at v modulo its size
    phase, delay,        \* in force
    p, d, i, j, fail_cnt, tmp_delay, work_bgn, work_end, initial_failing_dtap,
    dtaps_per_ptap, result
counters == <<i, j, fail_cnt>>
works == <<tmp_delay, work_bgn, work_end>>
taps == <<initial_failing_dtap, dtaps_per_ptap>>
vars == <<window, pc, v, phase, delay, p, d, counters, works, taps, result>>

opa == IO_DELAY_PER_OPA_TAP
tap == IO_DELAY_PER_DQS_EN_DCHAIN_TAP
\* Taps that do not quite make up a phase.
StaticTaps == ((opa + tap - 1) \div tap) - 1

\* The next phase, or the one before, with the FIFO moved when the clock is passed.
Advanced(at) == IF at.p + 1 > IO_DQS_EN_PHASE_MAX THEN [p |-> 0, v |-> at.v + 1]
                ELSE [at EXCEPT !.p = @ + 1]
\* rw_mgr_decr_vfifo(): the FIFO only goes forward, and round.
decr_vfifo(n) == n + VFIFO_SIZE - 1
-----------------------------------------------------------------------------
(* The test *)

Position(n, ph, dl) == (n * Clock + ph * opa + dl * tap) % Ring
\* How far it is into the window, counted from the fringe.
Into(x) == (x - window.lo + window.fringe) % Ring
MayPass(x) == Into(x) <= window.width + 2 * window.fringe
MustPass(x) == window.fringe <= Into(x) /\ Into(x) <= window.width + window.fringe

\* A read test may come out so.
Works(ph, dl, ok) ==
    LET x == Position(v, ph, dl) IN (ok => MayPass(x)) /\ (MustPass(x) => ok)
\* A test with these settings, which are then in force.
Read(ph, dl, ok) == phase' = ph /\ delay' = dl /\ Works(ph, dl, ok)

Return(r) == result' = r /\ pc' = "done"
-----------------------------------------------------------------------------
Init ==
    /\ window \in Windows
    /\ pc = "failing" /\ v = 0 /\ phase = 1 /\ delay = 0
    /\ p = 1 /\ d = 0 /\ i = 0 /\ j = 0 /\ fail_cnt = 0
    /\ tmp_delay = 0 /\ work_bgn = 0 /\ work_end = 0
    /\ initial_failing_dtap = 0 /\ dtaps_per_ptap = StaticTaps
    /\ result = FALSE

(* The FIFO is pushed until reads have failed twice. *)
FindFailing ==
    /\ pc = "failing" /\ v < VFIFO_SIZE
    /\ \E ok \in BOOLEAN :
          /\ Read(phase, delay, ok)
          /\ fail_cnt' = IF ok THEN fail_cnt ELSE fail_cnt + 1
          /\ IF fail_cnt' = 2 THEN pc' = "begin" /\ UNCHANGED v
             ELSE v' = v + 1 /\ UNCHANGED pc
    /\ UNCHANGED <<window, p, d, i, j, works, taps, result>>
NoFailing ==
    /\ pc = "failing" /\ v >= VFIFO_SIZE /\ Return(FALSE)
    /\ UNCHANGED <<window, v, phase, delay, p, d, counters, works, taps>>

(* All phases of all positions, then with one more tap, until a read works. *)
\* When it needed no tap the window covers a phase, and its begin is looked for from the
\* phase before; if that is zero, from this one.
FindBegin ==
    /\ pc = "begin" /\ d <= StaticTaps
    /\ \E ok \in BOOLEAN :
          /\ Read(p, d, ok)
          /\ IF ok
             THEN LET found == d * tap + i * Clock + p * opa
                  IN  /\ work_bgn' = found /\ work_end' = found
                      /\ IF d = 0
                         THEN /\ pc' = "back"
                              /\ p' = (IF p = 1 THEN 1 ELSE p - 1)
                              /\ tmp_delay' = (IF p = 1 THEN found ELSE found - opa)
                         ELSE pc' = "edge" /\ UNCHANGED <<p, tmp_delay>>
                      /\ UNCHANGED <<v, i, d>>
             ELSE /\ IF p < IO_DQS_EN_PHASE_MAX THEN p' = p + 1 /\ UNCHANGED <<v, i, d>>
                     ELSE /\ p' = 1 /\ v' = v + 1
                          /\ i' = (i + 1) % VFIFO_SIZE
                          /\ d' = IF i' = 0 THEN d + 1 ELSE d
                  /\ UNCHANGED <<pc, works>>
    /\ UNCHANGED <<window, j, fail_cnt, taps, result>>
NoBegin ==
    /\ pc = "begin" /\ d > StaticTaps /\ Return(FALSE)
    /\ UNCHANGED <<window, v, phase, delay, p, d, counters, works, taps>>

FindBeginTap ==
    /\ pc = "back" /\ d <= IO_DQS_EN_DELAY_MAX /\ tmp_delay < work_bgn
    /\ \E ok \in BOOLEAN :
          /\ Read(p, d, ok)
          /\ IF ok THEN work_bgn' = tmp_delay /\ pc' = "forward" /\ UNCHANGED <<d, tmp_delay>>
             ELSE d' = d + 1 /\ tmp_delay' = tmp_delay + tap /\ UNCHANGED <<pc, work_bgn>>
    /\ UNCHANGED <<window, v, p, counters, work_end, taps, result>>

(* Two phases on from there, and on to the first phase with which reads fail. *)
Forward ==
    /\ \/ pc = "forward"
       \/ pc = "back" /\ ~(d <= IO_DQS_EN_DELAY_MAX /\ tmp_delay < work_bgn)
    /\ LET at == Advanced(Advanced([p |-> p, v |-> v]))
       IN  p' = at.p /\ v' = at.v
    /\ delay' = 0 /\ work_end' = work_end + opa /\ j' = 0 /\ pc' = "end"
    /\ UNCHANGED <<window, phase, d, i, fail_cnt, tmp_delay, work_bgn, taps, result>>

\* The loop goes on with the next phase.
NextEnd ==
    /\ work_end' = work_end + opa
    /\ IF p < IO_DQS_EN_PHASE_MAX THEN p' = p + 1 /\ UNCHANGED <<v, i>>
       ELSE p' = 0 /\ v' = v + 1 /\ i' = i + 1
SkipZero ==
    /\ pc = "end" /\ i <= VFIFO_SIZE /\ p = 0
    /\ j' = j + 1 /\ NextEnd
    /\ UNCHANGED <<window, pc, phase, delay, d, fail_cnt, tmp_delay, work_bgn, taps, result>>
\* A first phase that fails means that the begin was fuzzy.
FindEnd ==
    /\ pc = "end" /\ i <= VFIFO_SIZE /\ p # 0
    /\ j' = j + 1
    /\ \E ok \in BOOLEAN :
          /\ Works(p, delay, ok)
          /\ IF ok \/ j = 0
             THEN /\ work_bgn' = IF ok THEN work_bgn ELSE work_end
                  /\ phase' = p /\ NextEnd /\ UNCHANGED <<pc, d>>
             ELSE /\ IF p = 1
                     THEN /\ p' = IO_DQS_EN_PHASE_MAX /\ v' = decr_vfifo(v)
                          /\ work_end' = work_end - 2 * opa
                     ELSE p' = p - 1 /\ work_end' = work_end - opa /\ UNCHANGED v
                  /\ phase' = p' /\ d' = 0 /\ pc' = "edge" /\ UNCHANGED <<i, work_bgn>>
    /\ UNCHANGED <<window, delay, fail_cnt, tmp_delay, taps, result>>
NoEnd ==
    /\ pc = "end" /\ i > VFIFO_SIZE /\ Return(FALSE)
    /\ UNCHANGED <<window, v, phase, delay, p, d, counters, works, taps>>

(* From the last phase that works, tap by tap to the end. *)
FindEndTap ==
    /\ pc = "edge" /\ d <= IO_DQS_EN_DELAY_MAX
    /\ \E ok \in BOOLEAN :
          /\ Read(phase, d, ok)
          /\ IF ok THEN d' = d + 1 /\ work_end' = work_end + tap /\ UNCHANGED pc
             ELSE pc' = "range" /\ UNCHANGED <<d, work_end>>
    /\ UNCHANGED <<window, v, p, counters, tmp_delay, work_bgn, taps, result>>
\* With a range, one phase back, to come to the end once more with taps only.
Range ==
    /\ pc = "range" \/ (pc = "edge" /\ d > IO_DQS_EN_DELAY_MAX)
    /\ work_end' = IF d # 0 THEN work_end - tap ELSE work_end
    /\ IF work_end' >= work_bgn
       THEN /\ IF p \in {0, 1} THEN p' = IO_DQS_EN_PHASE_MAX /\ v' = decr_vfifo(v)
               ELSE p' = p - 1 /\ UNCHANGED v
            /\ phase' = p' /\ initial_failing_dtap' = d /\ pc' = "passing" /\ UNCHANGED result
       ELSE Return(FALSE) /\ UNCHANGED <<p, v, phase, initial_failing_dtap>>
    /\ UNCHANGED <<window, delay, d, counters, tmp_delay, work_bgn, dtaps_per_ptap>>

FindPassing ==
    /\ pc = "passing" /\ d <= IO_DQS_EN_DELAY_MAX
    /\ d' = d + 1
    /\ \E ok \in BOOLEAN : Read(phase, d, ok) /\ pc' = IF ok THEN "failed" ELSE "passing"
    /\ UNCHANGED <<window, v, p, counters, works, taps, result>>
\* Seeded fault: the taps are counted from zero.
FindFailed_Absolute ==
    /\ pc = "failed" /\ d <= IO_DQS_EN_DELAY_MAX
    /\ \E ok \in BOOLEAN :
          /\ Read(phase, d, ok)
          /\ IF ok THEN d' = d + 1 /\ UNCHANGED <<pc, dtaps_per_ptap>>
             ELSE dtaps_per_ptap' = d /\ pc' = "centre" /\ UNCHANGED d
    /\ UNCHANGED <<window, v, p, counters, works, initial_failing_dtap, result>>
FindFailed ==
    /\ pc = "failed" /\ d <= IO_DQS_EN_DELAY_MAX
    /\ \E ok \in BOOLEAN :
          /\ Read(phase, d, ok)
          /\ IF ok THEN d' = d + 1 /\ UNCHANGED <<pc, dtaps_per_ptap>>
             ELSE /\ dtaps_per_ptap' = d - initial_failing_dtap /\ pc' = "centre"
                  /\ UNCHANGED d
    /\ UNCHANGED <<window, v, p, counters, works, initial_failing_dtap, result>>

(* The centre, less whole clocks; then the FIFO is pushed until reads work. *)
\* Seeded fault: the centre of the two ends is not halved.
work_mid_Whole == work_bgn + work_end
work_mid == (work_bgn + work_end) \div 2
WithinClock(n) == IF n = 0 THEN 0 ELSE ((n - 1) % Clock) + 1
Up(n, unit) == (n + unit - 1) \div unit
Centre ==
    /\ pc = "centre" \/ (pc \in {"passing", "failed"} /\ d > IO_DQS_EN_DELAY_MAX)
    /\ LET mid == WithinClock(work_mid)
           n == Up(mid, opa)
       IN  /\ p' = IF n = 1 THEN 2 ELSE n
           /\ d' = IF n = 1 THEN 0 ELSE Up(mid - (n - 1) * opa, tap)
    /\ phase' = p' - 1 /\ delay' = d' /\ i' = 0 /\ pc' = "push"
    /\ UNCHANGED <<window, v, j, fail_cnt, works, taps, result>>
Push ==
    /\ pc = "push" /\ i < VFIFO_SIZE
    /\ \E ok \in BOOLEAN :
          /\ Read(phase, delay, ok)
          /\ IF ok THEN Return(TRUE) /\ UNCHANGED <<v, i>>
             ELSE v' = v + 1 /\ i' = i + 1 /\ UNCHANGED <<pc, result>>
    /\ UNCHANGED <<window, p, d, j, fail_cnt, works, taps>>
NoPush ==
    /\ pc = "push" /\ i >= VFIFO_SIZE /\ Return(FALSE)
    /\ UNCHANGED <<window, v, phase, delay, p, d, counters, works, taps>>

Next == FindFailing \/ NoFailing \/ FindBegin \/ NoBegin \/ FindBeginTap \/ Forward
        \/ SkipZero \/ FindEnd \/ NoEnd \/ FindEndTap \/ Range \/ FindPassing \/ FindFailed
        \/ Centre \/ Push \/ NoPush
Spec == Init /\ [][Next]_vars /\ WF_vars(Next)
-----------------------------------------------------------------------------
(* Properties *)

Done == pc = "done"

\* A clean window of about one clock, as the comments have it, is found wherever it is, and
\* DQS is let through no further from its middle than a phase, the one that cannot be used,
\* and two taps (all of them doubled: the middle may lie between two units).
AboutAClock == /\ Clock - 2 * opa <= window.width /\ window.width <= Clock + opa
               /\ window.fringe = 0
OffMiddle == LET x == 2 * Into(Position(v, phase, delay)) - window.width
             IN  IF x < 0 THEN -x ELSE x
WindowIsUsed == Done /\ AboutAClock => result /\ OffMiddle <= 2 * (opa + 2 * tap)

\* What the tracking is told to be the taps of a phase are those of one phase or of two,
\* or the number the program came with.
TapsOf(n) == (n * opa) \div tap - 1 .. Up(n * opa, tap) + 1
TapsAreOfWholePhases ==
    Done /\ AboutAClock => dtaps_per_ptap \in TapsOf(1) \cup TapsOf(2)

\* "We need to calculate the number of dtaps that equal a ptap": of one.
TapsAreOfAPhase ==
    Done /\ AboutAClock => dtaps_per_ptap \in TapsOf(1)
=============================================================================

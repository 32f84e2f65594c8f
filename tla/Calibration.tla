---------------------------- MODULE Calibration ----------------------------
(***************************************************************************)
(* sequencer.c, the program that trains the DDR3 interface of the board    *)
(* before anything can use the memory, from sdram_calibration() down to    *)
(* the calls that look for a setting: which group and which stage come     *)
(* next, what each of them writes to the scan chains, when that reaches    *)
(* the pins, what is undone, and what is reported.  The searches inside a  *)
(* stage, and what the memory answers, are choices (EnPhase and Deskew     *)
(* have the searches).  Configuration of sequencer_defines.h: one rank, a  *)
(* hard PHY, full rate, as many read groups as write groups.               *)
(***************************************************************************)
EXTENDS Naturals, FiniteSets

CONSTANTS NumGroups,             \* RW_MGR_MEM_IF_READ_DQS_WIDTH
          IO_DQS_IN_DELAY_MAX, IO_DQS_IN_RESERVE, IO_DQS_OUT_RESERVE,
          dtaps_per_ptap,        \* delay taps that make up a phase tap
          max_latency, MEM_T_RL, \* the largest latency the counter holds, and the memory's
          DQ_PER_DQS,            \* pins of a group
          Delays,                \* what a search may choose for a delay
          Enables                \* ... and for the DQS enable: its phase and its delay

ASSUME CalibrationAssumption ==
    /\ NumGroups \in Nat \ {0} /\ dtaps_per_ptap \in Nat
    /\ DQ_PER_DQS \in Nat \ {0}
    /\ IO_DQS_IN_DELAY_MAX \in Nat /\ IO_DQS_IN_RESERVE \in 0..IO_DQS_IN_DELAY_MAX
    /\ IO_DQS_OUT_RESERVE \in Nat /\ max_latency \in Nat \ {0} /\ MEM_T_RL \in Nat
    /\ Delays \subseteq Nat /\ 0 \in Delays /\ Delays \subseteq 0..IO_DQS_IN_DELAY_MAX
    /\ 0 \in Enables

Groups == 0..(NumGroups - 1)
NoGroup == 255

VARIABLES
    scc,          \* the scan chain manager: what is written, what is marked to be loaded
    io,           \* the settings each group of pins runs with
    gbl,          \* error_stage, error_substage, error_group and curr_read_lat
    CAL_STATUS, MUX_SEL, PHY_RLAT, FAILING_STAGE,   \* registers others read
    tracking,     \* the tracking bit of CTRL_CONFIG_REG
    ctrlcfg,      \* run_mem_calibrate(): that bit when it began
    pc, group, d, orig_start_dqs, dqs_in_dtaps, failed_substage, found_one, pass,
    chosen,       \* history: what the searches that passed have chosen for each group
    proven,       \* history: the smallest read latency that has passed
    failure,      \* history: the stage that ended the calibration
    recovered     \* history: some pin was reported and its group has passed after all
regs == <<CAL_STATUS, MUX_SEL, PHY_RLAT, FAILING_STAGE, tracking>>
locals == <<ctrlcfg, group, d, orig_start_dqs, dqs_in_dtaps, failed_substage, found_one, pass>>
history == <<chosen, proven, failure, recovered>>
vars == <<scc, io, gbl, regs, pc, locals, history>>

ChainFields == {"dqs_in", "en", "oct"}                 \* of each group
PinFields == {"dq_in", "dq_out", "dm_out", "dqs_out"}  \* one set, for the current group
-----------------------------------------------------------------------------
(* The scan chains *)

\* SCC_MGR_UPD: what is marked goes to the pins, of the current group where the register
\* is one for all groups.
Loaded(s, x) ==
    [f \in ChainFields \cup PinFields |->
        IF f \in ChainFields
        THEN IF x \in s.dqs_ena THEN s[f][x] ELSE io[x][f]
        ELSE IF x = s.counter /\ f \in s.pin_ena THEN s[f] ELSE io[x][f]]
SCC_MGR_UPD(s) ==
    /\ io' = [x \in Groups |-> Loaded(s, x)]
    /\ scc' = [s EXCEPT !.dqs_ena = {}, !.pin_ena = {}]

DQ == {"dq_in", "dq_out"}
LoadDqs(s, G) == [s EXCEPT !.dqs_ena = @ \cup G]
LoadPins(s, F) == [s EXCEPT !.pin_ena = @ \cup F]

\* Seeded fault: the chain is written and not marked to be loaded.
set_dqs_in_NotMarked(s, x, v) == [s EXCEPT !.dqs_in[x] = v]
set_dqs_in(s, x, v) == LoadDqs([s EXCEPT !.dqs_in[x] = v], {x})
set_dqs_en(s, x, v) == LoadDqs([s EXCEPT !.en[x] = v], {x})
set_dq_in(s, v) == LoadPins([s EXCEPT !.dq_in = v], DQ)
set_dq_out(s, v) == LoadPins([s EXCEPT !.dq_out = v], DQ)
set_dm_out(s, v) == LoadPins([s EXCEPT !.dm_out = v], {"dm_out"})
apply_group_dqs_io_and_oct_out1(s, x, v) ==
    LoadPins(LoadDqs([s EXCEPT !.dqs_out = v, !.oct[x] = v], {x}), {"dqs_out"})

scc_mgr_zero_all(s) ==
    LoadDqs([s EXCEPT !.dqs_in = [x \in Groups |-> IO_DQS_IN_RESERVE],
                      !.en = [x \in Groups |-> 0],
                      !.oct = [x \in Groups |-> IO_DQS_OUT_RESERVE]], Groups)

scc_mgr_zero_group(s, x, out_only) ==
    LET in == IF out_only THEN s ELSE set_dq_in(s, 0)
    IN  apply_group_dqs_io_and_oct_out1(set_dm_out(set_dq_out(in, 0), 0), x, IO_DQS_OUT_RESERVE)

\* What OUT2 delays there are take no value, so DQS moves by its OUT1 delay.
scc_mgr_apply_group_all_out_delay_add(s, x, delay) ==
    LoadPins(apply_group_dqs_io_and_oct_out1(s, x, delay), DQ \cup {"dm_out"})
-----------------------------------------------------------------------------
(* Reports *)

Failed(g, stage, substage) ==
    IF gbl.error_stage = "NIL"
    THEN [gbl EXCEPT !.error_stage = stage, !.error_substage = substage, !.error_group = g]
    ELSE gbl
set_failing_group_stage(g, stage, substage) == gbl' = Failed(g, stage, substage)
-----------------------------------------------------------------------------
(* run_mem_calibrate() and mem_calibrate(), up to the first group *)

NoChoice == [f \in ChainFields \cup PinFields |-> 0]
Init ==
    /\ scc = [dqs_in |-> [x \in Groups |-> 0], en |-> [x \in Groups |-> 0],
              oct |-> [x \in Groups |-> 0], dq_in |-> 0, dq_out |-> 0, dm_out |-> 0,
              dqs_out |-> 0, dqs_ena |-> {}, pin_ena |-> {}, counter |-> 0]
    /\ io = [x \in Groups |-> NoChoice]
    /\ gbl = [error_stage |-> "NIL", error_substage |-> "NIL", error_group |-> NoGroup,
              curr_read_lat |-> 0]
    /\ CAL_STATUS = "RESET" /\ MUX_SEL = 0 /\ PHY_RLAT = 0 /\ FAILING_STAGE = "NIL"
    /\ tracking \in BOOLEAN /\ ctrlcfg = FALSE
    /\ pc = "sdram_calibration" /\ group = 0 /\ d = 0 /\ orig_start_dqs = 0 /\ dqs_in_dtaps = 0
    /\ failed_substage = "NIL" /\ found_one = FALSE /\ pass = FALSE
    /\ chosen = [x \in Groups |-> NoChoice]
    /\ proven = 0 /\ failure = "NIL" /\ recovered = FALSE

\* initialize_reg_file() and the rest of sdram_calibration() before run_mem_calibrate(), but
\* for scc_mgr_initialize(): what the last calibration left in the registers stays.
sdram_calibration ==
    /\ pc = "sdram_calibration"
    /\ FAILING_STAGE' = "NIL" /\ pc' = "run_mem_calibrate"
    /\ UNCHANGED <<scc, io, gbl, CAL_STATUS, MUX_SEL, PHY_RLAT, tracking, locals, history>>

\* The status is withdrawn and tracking stopped before the PHY is taken.
run_mem_calibrate ==
    /\ pc = "run_mem_calibrate"
    /\ CAL_STATUS' = "RESET" /\ ctrlcfg' = tracking /\ tracking' = FALSE
    /\ pc' = "initialize"
    /\ UNCHANGED <<scc, io, gbl, MUX_SEL, PHY_RLAT, FAILING_STAGE, group, d, orig_start_dqs,
                   dqs_in_dtaps, failed_substage, found_one, pass, history>>

initialize ==
    /\ pc = "initialize"
    /\ MUX_SEL' = 3 /\ CAL_STATUS' = "RESET" /\ pc' = "mem_calibrate"
    /\ UNCHANGED <<scc, io, gbl, PHY_RLAT, FAILING_STAGE, tracking, locals, history>>

\* mem_config(): as high a read latency as the counter holds.
mem_config == IF MEM_T_RL + 16 > max_latency THEN max_latency ELSE MEM_T_RL + 16

\* The bypass mode is loaded a group at a time, with whatever the pins' registers hold.
scc_set_bypass_mode(s) ==
    /\ io' = [x \in Groups |->
                 [f \in ChainFields \cup PinFields |->
                     IF f \in ChainFields THEN s[f][x] ELSE s[f]]]
    /\ scc' = [s EXCEPT !.counter = NumGroups - 1]

\* Seeded fault: the record of errors is not cleared.
mem_calibrate_Kept ==
    /\ pc = "mem_calibrate"
    /\ gbl' = [gbl EXCEPT !.curr_read_lat = mem_config]
    /\ PHY_RLAT' = mem_config
    /\ scc_set_bypass_mode(scc)
    /\ failure' = "NIL" /\ recovered' = FALSE /\ proven' = 0 /\ pc' = "zero_all"
    /\ chosen' = [x \in Groups |-> NoChoice]
    /\ UNCHANGED <<CAL_STATUS, MUX_SEL, FAILING_STAGE, tracking, locals>>
mem_calibrate ==
    /\ pc = "mem_calibrate"
    /\ gbl' = [error_stage |-> "NIL", error_substage |-> "NIL", error_group |-> NoGroup,
               curr_read_lat |-> mem_config]
    /\ PHY_RLAT' = mem_config
    /\ scc_set_bypass_mode(scc)
    /\ failure' = "NIL" /\ recovered' = FALSE /\ proven' = 0 /\ pc' = "zero_all"
    /\ chosen' = [x \in Groups |-> NoChoice]
    /\ UNCHANGED <<CAL_STATUS, MUX_SEL, FAILING_STAGE, tracking, locals>>

ZeroAll ==
    /\ pc = "zero_all"
    /\ SCC_MGR_UPD(scc_mgr_zero_all(scc))
    /\ group' = 0 /\ pc' = "group"
    /\ UNCHANGED <<gbl, regs, ctrlcfg, d, orig_start_dqs, dqs_in_dtaps, failed_substage,
                   found_one, pass, history>>

\* Seeded fault: the counter that selects the pins stays.
NextGroup_NoCounter ==
    /\ pc = "group"
    /\ IF group = NumGroups
       THEN /\ pc' = "lfifo" /\ found_one' = FALSE
            /\ UNCHANGED <<scc, io, d, failed_substage>>
       ELSE /\ SCC_MGR_UPD(scc_mgr_zero_group(scc, group, FALSE))
            /\ d' = 0 /\ failed_substage' = "GUARANTEED_READ" /\ pc' = "vfifo"
            /\ UNCHANGED found_one
    /\ UNCHANGED <<gbl, regs, ctrlcfg, group, orig_start_dqs, dqs_in_dtaps, pass, history>>
NextGroup ==
    /\ pc = "group"
    /\ IF group = NumGroups
       THEN /\ pc' = "lfifo" /\ found_one' = FALSE
            /\ UNCHANGED <<scc, io, d, failed_substage>>
       ELSE /\ SCC_MGR_UPD(scc_mgr_zero_group([scc EXCEPT !.counter = group], group, FALSE))
            /\ d' = 0 /\ failed_substage' = "GUARANTEED_READ" /\ pc' = "vfifo"
            /\ UNCHANGED found_one
    /\ UNCHANGED <<gbl, regs, ctrlcfg, group, orig_start_dqs, dqs_in_dtaps, pass, history>>
-----------------------------------------------------------------------------
(* rw_mgr_mem_calibrate_vfifo(): the read side, before the writes are trained *)

Pins == {group * DQ_PER_DQS + i : i \in 0..(DQ_PER_DQS - 1)}
SkipFlow == UNCHANGED <<regs, ctrlcfg, group, found_one, pass>>

\* The guaranteed read, with the output moved by d.  Where it fails, it is tried with every
\* phase of the DQS enable, which stays where that ends.
GuaranteedRead ==
    /\ pc = "vfifo" /\ d <= dtaps_per_ptap
    /\ \E en \in Enables :
          SCC_MGR_UPD(LET moved == IF d > 0 THEN scc_mgr_apply_group_all_out_delay_add(scc, group, d)
                                   ELSE scc
                      IN  set_dqs_en(moved, group, en))
    /\ \/ orig_start_dqs' = scc.dqs_in[group] /\ dqs_in_dtaps' = scc.dqs_in[group]
          /\ pc' = "sweep" /\ UNCHANGED d
       \/ d' = d + 2 /\ UNCHANGED <<orig_start_dqs, dqs_in_dtaps, pc>>
    /\ SkipFlow /\ UNCHANGED <<gbl, failed_substage, history>>

\* Its variables end with rw_mgr_mem_calibrate_vfifo().
VfifoReturns == d' = 0 /\ orig_start_dqs' = 0 /\ dqs_in_dtaps' = 0 /\ failed_substage' = "NIL"
Stop(stage) == pc' = "handoff" /\ pass' = FALSE /\ failure' = stage

VfifoFails ==
    /\ pc = "vfifo" /\ d > dtaps_per_ptap
    /\ set_failing_group_stage(group, "VFIFO", failed_substage)
    /\ Stop("VFIFO") /\ VfifoReturns
    /\ UNCHANGED <<scc, io, regs, ctrlcfg, group, found_one, chosen, proven, recovered>>

\* The DQS enable is looked for with one more tap of DQS delay, with the delays of the pins
\* spread; these are zero again when it returns.  Where it is found, the DQS delay
\* goes back to what it was when the taps began.
FindDqsEnPhase ==
    /\ pc = "sweep" /\ dqs_in_dtaps <= IO_DQS_IN_DELAY_MAX
    /\ \E en \in Enables, found \in BOOLEAN :
          LET probed == set_dq_in(set_dqs_en(set_dqs_in(scc, group, dqs_in_dtaps), group, en), 0)
          IN  IF found
              THEN /\ SCC_MGR_UPD(set_dqs_in(probed, group, orig_start_dqs))
                   /\ pc' = "deskew" /\ UNCHANGED <<dqs_in_dtaps, failed_substage>>
              ELSE /\ SCC_MGR_UPD(probed)
                   /\ dqs_in_dtaps' = dqs_in_dtaps + 1 /\ failed_substage' = "DQS_EN_PHASE"
                   /\ UNCHANGED pc
    /\ SkipFlow /\ UNCHANGED <<gbl, d, orig_start_dqs, history>>

\* Seeded fault: the next delay of the outputs is not taken.
SweepEnds_Same ==
    /\ pc = "sweep" /\ dqs_in_dtaps > IO_DQS_IN_DELAY_MAX
    /\ pc' = "vfifo"
    /\ SkipFlow /\ UNCHANGED <<scc, io, gbl, d, orig_start_dqs, dqs_in_dtaps, failed_substage, history>>
SweepEnds ==
    /\ pc = "sweep" /\ dqs_in_dtaps > IO_DQS_IN_DELAY_MAX
    /\ d' = d + 2 /\ pc' = "vfifo"
    /\ SkipFlow /\ UNCHANGED <<scc, io, gbl, orig_start_dqs, dqs_in_dtaps, failed_substage, history>>

\* rw_mgr_mem_calibrate_vfifo_center(): a pin may have no window, and everything is as it
\* was; else the centre is set, and the margins found may not be enough.
NoWindow(s) == SCC_MGR_UPD(set_dqs_in(set_dq_in(s, 0), group, s.dqs_in[group]))
Centred(s, dq, dqs) == SCC_MGR_UPD(set_dqs_in(set_dq_in(s, dq), group, dqs))

DeskewFails ==
    /\ pc = "deskew"
    /\ \/ /\ NoWindow(scc)
          /\ \E pin \in Pins : set_failing_group_stage(pin, "VFIFO", "VFIFO_CENTER")
       \/ /\ \E dq, dqs \in Delays : Centred(scc, dq, dqs)
          /\ UNCHANGED gbl
    /\ failed_substage' = "VFIFO_CENTER" /\ dqs_in_dtaps' = dqs_in_dtaps + 1 /\ pc' = "sweep"
    /\ SkipFlow /\ UNCHANGED <<d, orig_start_dqs, history>>

\* The loops have stepped past the delay that passed when the outputs are put back.
\* Seeded fault: as if the loops stood at the delay that passed.
Moved_Late == d > 2
Moved == d + 2 > 2
Deskew ==
    /\ pc = "deskew"
    /\ \E dq, dqs \in Delays :
          LET s == set_dqs_in(set_dq_in(scc, dq), group, dqs)
          IN  SCC_MGR_UPD(IF Moved THEN scc_mgr_zero_group(s, group, TRUE) ELSE s)
    /\ VfifoReturns /\ pc' = "writes"
    /\ recovered' = (recovered \/ gbl.error_stage # "NIL")
    /\ SkipFlow /\ UNCHANGED <<gbl, chosen, proven, failure>>
-----------------------------------------------------------------------------
(* The writes, and the reads once more with what the writes have stored *)

\* rw_mgr_mem_calibrate_writes(): the DQS delay stays, that of the pins and of the mask is
\* set.  A pin that has no window ends it with DQS where the search has left it.
WritesFail ==
    /\ pc = "writes"
    /\ \/ /\ \E dqs \in Delays :
                SCC_MGR_UPD(apply_group_dqs_io_and_oct_out1(set_dq_out(scc, 0), group,
                                                            scc.dqs_out + dqs))
          /\ \E pin \in Pins : set_failing_group_stage(pin, "WRITES", "WRITES_CENTER")
       \/ /\ \E dq, dm \in Delays :
                SCC_MGR_UPD(apply_group_dqs_io_and_oct_out1(set_dm_out(set_dq_out(scc, dq), dm),
                                                            group, scc.dqs_out))
          /\ set_failing_group_stage(group, "WRITES", "WRITES_CENTER")
    /\ Stop("WRITES")
    /\ UNCHANGED <<regs, ctrlcfg, group, d, orig_start_dqs, dqs_in_dtaps, failed_substage,
                   found_one, chosen, proven, recovered>>

Writes ==
    /\ pc = "writes"
    /\ \E dq, dm \in Delays :
          /\ SCC_MGR_UPD(apply_group_dqs_io_and_oct_out1(set_dm_out(set_dq_out(scc, dq), dm),
                                                         group, scc.dqs_out))
          /\ chosen' = [chosen EXCEPT ![group].dq_out = dq, ![group].dm_out = dm,
                                      ![group].dqs_out = IO_DQS_OUT_RESERVE,
                                      ![group].oct = IO_DQS_OUT_RESERVE,
                                      ![group].en = scc.en[group]]
    /\ pc' = "vfifo_end"
    /\ SkipFlow /\ UNCHANGED <<gbl, d, orig_start_dqs, dqs_in_dtaps, failed_substage,
                               proven, failure, recovered>>

VfifoEndFails ==
    /\ pc = "vfifo_end"
    /\ \/ /\ NoWindow(scc)
          /\ \E pin \in Pins : set_failing_group_stage(pin, "VFIFO_AFTER_WRITES", "VFIFO_CENTER")
       \/ /\ \E dq, dqs \in Delays : Centred(scc, dq, dqs)
          /\ set_failing_group_stage(group, "VFIFO_AFTER_WRITES", "VFIFO_CENTER")
    /\ Stop("VFIFO_AFTER_WRITES")
    /\ UNCHANGED <<regs, ctrlcfg, group, d, orig_start_dqs, dqs_in_dtaps, failed_substage,
                   found_one, chosen, proven, recovered>>

VfifoEnd ==
    /\ pc = "vfifo_end"
    /\ \E dq, dqs \in Delays :
          /\ Centred(scc, dq, dqs)
          /\ chosen' = [chosen EXCEPT ![group].dq_in = dq, ![group].dqs_in = dqs]
    /\ group' = group + 1 /\ pc' = "group"
    /\ UNCHANGED <<gbl, regs, ctrlcfg, d, orig_start_dqs, dqs_in_dtaps, failed_substage,
                   found_one, pass, proven, failure, recovered>>
-----------------------------------------------------------------------------
(* rw_mgr_mem_calibrate_lfifo(): the smallest read latency, for all groups *)

LfifoLocals == <<scc, io, CAL_STATUS, MUX_SEL, FAILING_STAGE, tracking, ctrlcfg, group, d,
                 orig_start_dqs, dqs_in_dtaps, failed_substage, chosen, recovered>>
ReadsAgree ==
    /\ pc = "lfifo"
    /\ PHY_RLAT' = gbl.curr_read_lat /\ proven' = gbl.curr_read_lat /\ found_one' = TRUE
    /\ gbl' = [gbl EXCEPT !.curr_read_lat = @ - 1]
    /\ pc' = IF gbl.curr_read_lat - 1 > 0 THEN "lfifo" ELSE "latency"
    /\ UNCHANGED <<LfifoLocals, pass, failure>>
ReadsDiffer ==
    /\ pc = "lfifo"
    /\ PHY_RLAT' = gbl.curr_read_lat /\ pc' = "latency"
    /\ UNCHANGED <<LfifoLocals, gbl, found_one, pass, proven, failure>>

\* A fudge factor is added, where any latency has passed; and mem_calibrate() ends.
Latency ==
    /\ pc = "latency" /\ found_one
    /\ gbl' = [gbl EXCEPT !.curr_read_lat = @ + 2] /\ PHY_RLAT' = gbl.curr_read_lat + 2
    /\ SCC_MGR_UPD(scc) /\ pass' = TRUE /\ pc' = "handoff"
    /\ UNCHANGED <<CAL_STATUS, MUX_SEL, FAILING_STAGE, tracking, ctrlcfg, group, d, orig_start_dqs,
                   dqs_in_dtaps, failed_substage, found_one, history>>
LfifoFails ==
    /\ pc = "latency" /\ ~found_one
    /\ set_failing_group_stage(NoGroup, "LFIFO", "READ_LATENCY")
    /\ Stop("LFIFO")
    /\ UNCHANGED <<LfifoLocals, PHY_RLAT, found_one, proven>>
-----------------------------------------------------------------------------
(* run_mem_calibrate() again: the PHY is given back, and only then the result *)

rw_mgr_mem_handoff ==
    /\ pc = "handoff" /\ MUX_SEL' = 2 /\ pc' = "restore"
    /\ UNCHANGED <<scc, io, gbl, CAL_STATUS, PHY_RLAT, FAILING_STAGE, tracking, locals, history>>
Restore ==
    /\ pc = "restore" /\ tracking' = ctrlcfg /\ pc' = "report"
    /\ UNCHANGED <<scc, io, gbl, CAL_STATUS, MUX_SEL, PHY_RLAT, FAILING_STAGE, locals, history>>
Report ==
    /\ pc = "report"
    /\ IF pass THEN CAL_STATUS' = "SUCCESS" /\ UNCHANGED FAILING_STAGE
       ELSE CAL_STATUS' = "FAIL" /\ FAILING_STAGE' = gbl.error_stage
    /\ pc' = "done"
    /\ UNCHANGED <<scc, io, gbl, MUX_SEL, PHY_RLAT, tracking, locals, history>>

\* The board is started again, and the registers of the PHY keep what they hold.
Again ==
    /\ pc = "done" /\ pc' = "sdram_calibration"
    /\ UNCHANGED <<scc, io, gbl, regs, locals, history>>

Sequencer == sdram_calibration \/ run_mem_calibrate \/ initialize \/ mem_calibrate
             \/ ZeroAll \/ NextGroup \/ GuaranteedRead \/ VfifoFails \/ FindDqsEnPhase \/ SweepEnds
             \/ DeskewFails \/ Deskew \/ WritesFail \/ Writes \/ VfifoEndFails \/ VfifoEnd
             \/ ReadsAgree \/ ReadsDiffer \/ Latency \/ LfifoFails
             \/ rw_mgr_mem_handoff \/ Restore \/ Report
Next == Sequencer \/ Again
Spec == Init /\ [][Next]_vars /\ WF_vars(Sequencer)
-----------------------------------------------------------------------------
(* Properties *)

\* When success is signalled, the pins of every group run with what the searches that
\* passed have chosen for it: nothing is left unloaded, and no later group or stage has
\* disturbed it.  The status comes last: the PHY and the tracking are given back by then.
SettingsInForce ==
    CAL_STATUS = "SUCCESS" => io = chosen /\ MUX_SEL = 2 /\ tracking = ctrlcfg

\* The writes are trained from the reserve: whatever the reads needed is undone.
WritesStartFromReserve ==
    pc = "writes" => /\ io[group].dqs_out = IO_DQS_OUT_RESERVE /\ io[group].oct = IO_DQS_OUT_RESERVE
                     /\ io[group].dq_out = 0 /\ io[group].dm_out = 0

\* Work on a group leaves the pins of the others alone.
GroupsApart ==
    [][pc \notin {"mem_calibrate", "zero_all"} =>
          \A x \in Groups : x # group => io'[x] = io[x]]_vars

\* A failure names the stage that has failed, unless an earlier trouble was overcome.
FailureIsNamed ==
    pc = "done" /\ CAL_STATUS = "FAIL" /\ ~recovered =>
        FAILING_STAGE = failure /\ failure # "NIL"

\* The latency in use is one more than the smallest that has passed.
LatencyHasMargin ==
    CAL_STATUS = "SUCCESS" => proven > 0 /\ PHY_RLAT = proven + 1

\* Every calibration comes to a result.
AlwaysReports == pc = "sdram_calibration" ~> pc = "done" /\ CAL_STATUS # "RESET"

\* The comment before the deskew says that DQS is put back to the reserve value.
DeskewFromReserve == pc = "deskew" => io[group].dqs_in = IO_DQS_IN_RESERVE
=============================================================================

-------------------------------- MODULE Tas --------------------------------
(***************************************************************************)
(* The temperature averaging system, tas.sv: a receiver and a state        *)
(* machine at 50 MHz that find packets of a header and four temperatures,  *)
(* and a state machine at 2 MHz that writes an average to the memory for   *)
(* each of them.  The flag from the first to the second and the answer are *)
(* levels that the other side samples: the flag is a latch that the answer *)
(* clears.  The two clocks are not related: between two edges of the slow  *)
(* one come Ratio edges of the fast one, one more or one less.  The values *)
(* of the temperatures are left out; what is kept is from which packet the *)
(* average in packet_avg_temp is.                                          *)
(***************************************************************************)
EXTENDS Integers

CONSTANTS Ratio,    \* 25: fast edges for one slow edge
          Bits,     \* 8: of a byte
          Words,    \* 2048: of the memory
          Burst,    \* tb.sv: at most so many bytes come at full rate,
          Gap       \* and then none for so many fast edges

ASSUME TasAssumption == /\ Ratio \in Nat \ {0, 1} /\ Bits \in Nat \ {0} /\ Words \in Nat \ {0}
                        /\ Burst \in Nat \ {0} /\ Gap \in Nat

VARIABLES
    \* the satellite: what it may still send before a pause, how long it has paused
    credit, idle,
    \* at 50 MHz
    rx_state, p_bit_index, p_byte_count,
    byte_analysis_state,            \* the number of the state
    header,                         \* data_buff is A5 or C3
    successfully_written_to_ram,
    average_ready_to_write,         \* the latch
    packet_avg_temp,                \* the packet whose end last clocked it
    packet,                         \* of the packets, counted modulo 3: the one that is coming
    \* at 2 MHz
    clk2_state, present_ram_addr,
    ready_to_write_middle_buff, ready_to_write_end_buff,
    tick,                           \* fast edges since the last slow one
    owed                            \* history: the packets that are complete and not yet written

sender == <<credit, idle>>
rx == <<rx_state, p_bit_index, p_byte_count, header, packet>>
analysis == <<byte_analysis_state, successfully_written_to_ram, average_ready_to_write,
              packet_avg_temp>>
slow == <<clk2_state, present_ram_addr, ready_to_write_middle_buff, ready_to_write_end_buff>>
tasVars == <<sender, rx, analysis, slow, tick, owed>>

TasInit ==
    /\ credit = Burst /\ idle = 0
    /\ rx_state = "RX_IDLE" /\ p_bit_index = 0 /\ p_byte_count = 0 /\ header = FALSE
    /\ byte_analysis_state = 1
    /\ successfully_written_to_ram = FALSE /\ average_ready_to_write = FALSE
    /\ packet_avg_temp = 0 /\ packet = 1
    /\ clk2_state = "CLK2_WAIT_FOR_AVG" /\ present_ram_addr = Words - 1
    /\ ready_to_write_middle_buff = FALSE /\ ready_to_write_end_buff = FALSE
    /\ tick \in 0..Ratio /\ owed = {}
-----------------------------------------------------------------------------
(* What is combinational *)

n_byte_count == IF rx_state # "RX_DONE" THEN p_byte_count
                ELSE IF p_byte_count = 5 THEN 1 ELSE p_byte_count + 1

\* Seeded fault: the byte count is looked at a cycle late.
complete_Late == byte_analysis_state = 5 /\ p_byte_count = 5
\* The average is complete in the one cycle in which the fifth byte is.
complete == byte_analysis_state = 5 /\ n_byte_count = 5
\* What clocks the average; the end of a packet that is ignored does so too.
acc_done == byte_analysis_state # 5 /\ n_byte_count = 5

\* The answer: as long as the average is being written.
average_written_to_ram == clk2_state = "CLK2_WAIT_FOR_AVG" /\ ready_to_write_end_buff

\* Seeded fault: any byte may be a header.
byte_analysis_next_Any ==
    CASE byte_analysis_state = 1 -> IF header THEN 2 ELSE 1
      [] byte_analysis_state = 5 -> IF n_byte_count = 5 THEN 1 ELSE 5
      [] OTHER -> IF n_byte_count = byte_analysis_state THEN byte_analysis_state + 1
                  ELSE byte_analysis_state
byte_analysis_next ==
    CASE byte_analysis_state = 1 -> IF n_byte_count = 1 /\ header THEN 2 ELSE 1
      [] byte_analysis_state = 5 -> IF n_byte_count = 5 THEN 1 ELSE 5
      [] OTHER -> IF n_byte_count = byte_analysis_state THEN byte_analysis_state + 1
                  ELSE byte_analysis_state
-----------------------------------------------------------------------------
(* An edge of clk_50 *)

\* A byte begins: data_ena is high.
Begin == /\ credit > 0 /\ credit' = credit - 1 /\ idle' = 0
         /\ rx_state' = "RX_READ_BITS"
Wait == /\ rx_state' = "RX_IDLE"
        /\ IF idle + 1 >= Gap THEN credit' = Burst /\ idle' = idle
           ELSE idle' = idle + 1 /\ UNCHANGED credit

\* The receiver.  In RX_DONE the byte is in data_buff, and a new one may begin at once.
Receive ==
    \/ /\ rx_state = "RX_IDLE" /\ (Begin \/ Wait)
       /\ p_bit_index' = 0 /\ UNCHANGED header
    \/ /\ rx_state = "RX_READ_BITS"
       /\ IF p_bit_index < Bits - 1
          THEN p_bit_index' = p_bit_index + 1 /\ UNCHANGED <<rx_state, header>>
          ELSE p_bit_index' = 0 /\ rx_state' = "RX_DONE" /\ header' \in BOOLEAN
       /\ UNCHANGED sender
    \/ /\ rx_state = "RX_DONE" /\ (Begin \/ Wait) /\ UNCHANGED <<p_bit_index, header>>

\* The latch, once the registers have changed.
Latch == average_ready_to_write' =
    IF complete' THEN TRUE
    ELSE IF successfully_written_to_ram' THEN FALSE ELSE average_ready_to_write

FastEdge ==
    /\ tick < Ratio + 1 /\ tick' = tick + 1
    /\ Receive
    /\ p_byte_count' = n_byte_count
    /\ byte_analysis_state' = byte_analysis_next
    /\ successfully_written_to_ram' = average_written_to_ram
    /\ Latch
    /\ packet_avg_temp' = IF acc_done' /\ ~acc_done THEN packet ELSE packet_avg_temp
    /\ packet' = IF n_byte_count = 5 /\ n_byte_count' = 1 THEN (packet + 1) % 3 ELSE packet
    /\ owed' = IF byte_analysis_state = 5 /\ byte_analysis_next = 1 THEN owed \cup {packet} ELSE owed
    /\ UNCHANGED slow
-----------------------------------------------------------------------------
(* An edge of clk_2 *)

\* Seeded fault: no state to clean up, in which the flag is seen to be taken back.
clk2_next_Waits == "CLK2_WAIT_FOR_AVG"
clk2_next == IF average_written_to_ram THEN "CLK2_CLEANUP" ELSE "CLK2_WAIT_FOR_AVG"

SlowEdge ==
    /\ tick >= Ratio - 1 /\ tick' = 0
    /\ ready_to_write_middle_buff' = average_ready_to_write
    /\ ready_to_write_end_buff' = ready_to_write_middle_buff
    /\ clk2_state' = clk2_next
    /\ present_ram_addr' = IF ~average_written_to_ram THEN present_ram_addr
                           ELSE IF present_ram_addr = 0 THEN Words - 1 ELSE present_ram_addr - 1
    /\ owed' = IF average_written_to_ram THEN owed \ {packet_avg_temp} ELSE owed
    /\ UNCHANGED <<sender, rx, analysis>>

TasNext == FastEdge \/ SlowEdge
TasSpec == TasInit /\ [][TasNext]_tasVars /\ WF_tasVars(FastEdge) /\ WF_tasVars(SlowEdge)
-----------------------------------------------------------------------------
(* Properties *)

\* A write, with which the address moves on, is of a packet that is owed one, and the only
\* one that is.
OneWriteEach == [][present_ram_addr' # present_ram_addr => owed = {packet_avg_temp}]_tasVars

\* The packets are told apart, five bytes each, whatever is in them: the analysis is where
\* the count of the bytes is.
InStep == byte_analysis_state # 1 => p_byte_count = byte_analysis_state - 1

\* Every packet of temperatures is written.
EveryPacketIsWritten == \A k \in 0..2 : k \in owed ~> k \notin owed
=============================================================================

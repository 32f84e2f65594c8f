--------------------------- MODULE HardwareProofs ---------------------------
(***************************************************************************)
(* Theorems about two machines that are independent of each other.         *)
(*                                                                         *)
(* The averaging system: its packets are told apart at any ratio of the    *)
(* clocks, any length of a byte and any pauses; each average is written    *)
(* once and in time, if packets end further apart than the handshake       *)
(* between the clocks takes.                                               *)
(*                                                                         *)
(* The branch predictor, for tables, sets, stacks and queues of any size:  *)
(* the lists of its buffer stay lists, and implement the order of use that *)
(* LruSpec promises; its counters learn; a mis-prediction is known as long *)
(* as a wrong path is followed; returns are predicted from the stack.      *)
(***************************************************************************)
EXTENDS Tas, BPred, WellFoundedInduction, TLAPS

\* InStep is inductive once the two counts have their ranges.
CountsTyped == p_byte_count \in 0..5 /\ byte_analysis_state \in 1..5
StepInv == CountsTyped /\ InStep

\* The receiver's count either stays or counts a byte, from 1 to 5 and round again.
LEMMA CountMoves ==
    CountsTyped => /\ n_byte_count \in 0..5
                   /\ p_byte_count < 5 => n_byte_count \in {p_byte_count, p_byte_count + 1}
  BY DEF CountsTyped, n_byte_count

LEMMA FastEdgeKeepsStep == StepInv /\ FastEdge => StepInv'
<1> SUFFICES ASSUME StepInv, FastEdge PROVE StepInv' OBVIOUS
<1> USE DEF StepInv, CountsTyped, InStep
<1>1. p_byte_count' = n_byte_count /\ byte_analysis_state' = byte_analysis_next
  BY DEF FastEdge
<1>2. /\ n_byte_count \in 0..5
      /\ p_byte_count < 5 => n_byte_count \in {p_byte_count, p_byte_count + 1}
  BY CountMoves
<1>3. CASE byte_analysis_state = 1
  <2>1. byte_analysis_next = IF n_byte_count = 1 /\ header THEN 2 ELSE 1
    BY <1>3 DEF byte_analysis_next
  <2> QED BY <1>1, <1>2, <2>1
<1>4. CASE byte_analysis_state = 5
  <2>1. byte_analysis_next = IF n_byte_count = 5 THEN 1 ELSE 5
    BY <1>4 DEF byte_analysis_next
  <2> QED BY <1>1, <1>2, <1>4, <2>1
<1>5. CASE byte_analysis_state \in 2..4
  <2>1. byte_analysis_next = IF n_byte_count = byte_analysis_state
                             THEN byte_analysis_state + 1 ELSE byte_analysis_state
    BY <1>5 DEF byte_analysis_next
  <2> QED BY <1>1, <1>2, <1>5, <2>1
<1> QED BY <1>3, <1>4, <1>5

\* The analysis is where the count of the bytes is, whatever the bytes of a packet are:
\* a header's code among the temperatures does not start another packet.
THEOREM PacketsStayInStep == TasSpec => []InStep
<1>1. TasInit => StepInv
  BY DEF TasInit, StepInv, CountsTyped, InStep
<1>2. StepInv /\ [TasNext]_tasVars => StepInv'
  <2> SUFFICES ASSUME StepInv, [TasNext]_tasVars PROVE StepInv' OBVIOUS
  <2>1. CASE FastEdge BY <2>1, FastEdgeKeepsStep
  <2>2. CASE SlowEdge
    BY <2>2 DEF StepInv, CountsTyped, InStep, SlowEdge, rx, analysis
  <2>3. CASE UNCHANGED tasVars
    BY <2>3 DEF StepInv, CountsTyped, InStep, tasVars, rx, analysis
  <2> QED BY <2>1, <2>2, <2>3 DEF TasNext
<1>3. StepInv => InStep BY DEF StepInv
<1> QED BY <1>1, <1>2, <1>3, PTL DEF TasSpec
-----------------------------------------------------------------------------
(* One write for each packet, when packets are far enough apart *)

\* The pace at which it holds: a pause falls between the ends of any two packets, and with
\* it they are further apart than three edges of the slow clock at their slowest.
Paced == Burst <= 5 /\ 3 * Ratio + 2 < 5 * (Bits + 1) + Gap

Typed ==
    /\ CountsTyped /\ credit \in 0..Burst /\ idle \in Nat /\ p_bit_index \in 0..Bits - 1
    /\ tick \in 0..Ratio + 1
    /\ rx_state \in {"RX_IDLE", "RX_READ_BITS", "RX_DONE"} /\ header \in BOOLEAN
    /\ rx_state # "RX_IDLE" => idle = 0 /\ credit < Burst
    /\ rx_state # "RX_READ_BITS" => p_bit_index = 0

\* The bytes that came after the last packet, those that began after it, and the fast
\* edges these take without a pause.
Came == IF p_byte_count = 5 THEN 0 ELSE p_byte_count
Began == IF rx_state = "RX_IDLE" THEN Came ELSE Came + 1
Work == Came * (Bits + 1) + IF rx_state = "RX_IDLE" THEN 0
                            ELSE IF rx_state = "RX_READ_BITS" THEN p_bit_index + 1
                            ELSE Bits + 1

\* The handshake: at rest; the flag is up; it is seen by one register and by two, when
\* the answer takes it down; and the answer itself is taken back.
Levels(state, end, middle) ==
    /\ clk2_state = state
    /\ ready_to_write_end_buff <=> end
    /\ ready_to_write_middle_buff <=> middle
Rest == /\ Levels("CLK2_WAIT_FOR_AVG", FALSE, FALSE)
        /\ ~average_ready_to_write /\ ~successfully_written_to_ram
Raised == /\ Levels("CLK2_WAIT_FOR_AVG", FALSE, FALSE)
          /\ average_ready_to_write /\ ~successfully_written_to_ram
Sampled == /\ Levels("CLK2_WAIT_FOR_AVG", FALSE, TRUE)
           /\ average_ready_to_write /\ ~successfully_written_to_ram
Written == /\ Levels("CLK2_WAIT_FOR_AVG", TRUE, TRUE)
           /\ IF tick = 0 THEN average_ready_to_write /\ ~successfully_written_to_ram
                          ELSE ~average_ready_to_write /\ successfully_written_to_ram
TakenBack == /\ Levels("CLK2_CLEANUP", TRUE, FALSE)
             /\ tick = 0 => ~average_ready_to_write
             /\ tick > 0 => ~successfully_written_to_ram
RaisedAgain == TakenBack /\ average_ready_to_write

Pending == Raised \/ Sampled \/ Written \/ RaisedAgain

\* A bound on the fast edges since the packet was complete.
Since == IF Sampled THEN Ratio + tick ELSE IF Written THEN 2 * Ratio + 1 + tick ELSE tick - 1

\* The satellite had no pause yet, and has spent its bytes; or it had one.
Within(since) == \/ credit < Burst - Began /\ Work + idle <= since
                 \/ Work + Gap <= since
InTime == Within(Since)

Handshake ==
    /\ Rest \/ Raised \/ Sampled \/ Written \/ TakenBack
    /\ complete => \/ (Raised \/ RaisedAgain) /\ tick > 0
                   \/ Sampled /\ tick = 0
    /\ owed = IF Pending /\ ~complete THEN {packet_avg_temp} ELSE {}
    /\ Pending /\ ~complete => InTime

PaceInv == Typed /\ InStep /\ Handshake

\* The end of any five bytes.
Ended == rx_state = "RX_DONE" /\ p_byte_count = 4

LEMMA EndsAreComplete ==
    Typed /\ InStep => /\ complete <=> (Ended /\ byte_analysis_state = 5)
                       /\ n_byte_count = 5 <=> Ended \/ (rx_state # "RX_DONE" /\ p_byte_count = 5)
<1> SUFFICES ASSUME Typed, InStep
             PROVE  /\ complete <=> (Ended /\ byte_analysis_state = 5)
                    /\ n_byte_count = 5 <=> Ended \/ (rx_state # "RX_DONE" /\ p_byte_count = 5)
  OBVIOUS
<1> USE DEF Typed, CountsTyped, InStep, Ended
<1>1. n_byte_count = 5 <=> Ended \/ (rx_state # "RX_DONE" /\ p_byte_count = 5)
  BY DEF n_byte_count
<1> QED BY <1>1 DEF complete

LEMMA WorkTyped == Typed => Work \in Nat /\ Began \in 0..5
<1> SUFFICES ASSUME Typed PROVE Work \in Nat /\ Began \in 0..5 OBVIOUS
<1>1. Came \in 0..4 /\ Bits \in Nat /\ p_bit_index \in Nat
  BY TasAssumption DEF Typed, CountsTyped, Came
<1>2. Came * (Bits + 1) \in Nat BY <1>1
<1> QED BY <1>1, <1>2 DEF Work, Began

LEMMA TypedStep == Typed /\ InStep /\ [TasNext]_tasVars => Typed'
<1> SUFFICES ASSUME Typed, InStep, [TasNext]_tasVars PROVE Typed' OBVIOUS
<1>0. /\ Ratio \in Nat /\ Ratio > 1 /\ Bits \in Nat /\ Bits > 0 /\ Burst \in Nat /\ Burst > 0
      /\ Gap \in Nat
  BY TasAssumption
<1>1. CASE FastEdge
  <2>1. CountsTyped' BY <1>1, FastEdgeKeepsStep DEF StepInv, Typed
  <2>2. tick' \in 0..Ratio + 1 BY <1>0, <1>1 DEF FastEdge, Typed
  <2>3. Receive BY <1>1 DEF FastEdge
  <2>4. /\ credit' \in 0..Burst /\ idle' \in Nat /\ p_bit_index' \in 0..Bits - 1
        /\ rx_state' \in {"RX_IDLE", "RX_READ_BITS", "RX_DONE"} /\ header' \in BOOLEAN
        /\ rx_state' # "RX_IDLE" => idle' = 0 /\ credit' < Burst
        /\ rx_state' # "RX_READ_BITS" => p_bit_index' = 0
    <3>1. CASE rx_state = "RX_READ_BITS"
      BY <1>0, <2>3, <3>1 DEF Receive, Typed, sender
    <3>2. CASE rx_state # "RX_READ_BITS"
      <4>1. (Begin \/ Wait) /\ p_bit_index' = 0 /\ header' = header
        BY <2>3, <3>2 DEF Receive, Typed
      <4> QED BY <1>0, <4>1 DEF Begin, Wait, Typed
    <3> QED BY <3>1, <3>2
  <2> QED BY <2>1, <2>2, <2>4 DEF Typed
<1>2. CASE SlowEdge
  BY <1>0, <1>2 DEF SlowEdge, Typed, CountsTyped, sender, rx, analysis
<1>3. CASE UNCHANGED tasVars
  BY <1>3 DEF tasVars, Typed, CountsTyped, sender, rx, analysis
<1> QED BY <1>1, <1>2, <1>3 DEF TasNext

\* A fast edge brings at most one edge's worth of work, and a pause counts from the byte
\* before it.
LEMMA WorkSteps ==
  ASSUME Typed, Typed', InStep, FastEdge, ~Ended,
         NEW since \in Int, Within(since)
  PROVE  Within(since + 1)'
<1>0. /\ Bits \in Nat /\ Bits > 0 /\ Burst \in Nat /\ Gap \in Nat
  BY TasAssumption
<1> USE DEF Within
<1>1. Receive /\ p_byte_count' = n_byte_count BY DEF FastEdge
<1>2. Came \in 0..4 /\ Came' \in 0..4 BY DEF Typed, CountsTyped, Came
<1>3. Came' = IF rx_state = "RX_DONE" THEN Came + 1 ELSE Came
  BY <1>1 DEF Came, n_byte_count, Ended, Typed, CountsTyped
<1> DEFINE W == Came * (Bits + 1)
<1>4. W \in Nat /\ Came' * (Bits + 1) = IF rx_state = "RX_DONE" THEN W + Bits + 1 ELSE W
  BY <1>0, <1>2, <1>3
<1> HIDE DEF W
<1>5. CASE rx_state = "RX_READ_BITS"
  <2>1. Work = W + p_bit_index + 1 /\ Began = Came + 1
    BY <1>2, <1>4, <1>5 DEF Work, Began, W, Typed
  <2>2. Work' = W + p_bit_index + 2 /\ Began' = Came + 1 /\ UNCHANGED sender
    BY <1>0, <1>1, <1>3, <1>4, <1>5 DEF Work, Began, Receive, Typed
  <2> QED BY <1>0, <1>2, <1>4, <2>1, <2>2 DEF sender, Typed
<1>6. CASE rx_state # "RX_READ_BITS"
  <2>1. /\ Work \in Nat /\ Began \in 0..5
        /\ Came' * (Bits + 1) = Work /\ Came' = Began
    BY <1>0, <1>2, <1>3, <1>4, <1>6 DEF Work, Began, Typed, W
  <2>2. CASE Begin
    <3>1. rx_state' = "RX_READ_BITS" /\ p_bit_index' = 0
      BY <1>1, <1>6, <2>2 DEF Receive, Begin, Typed
    <3>2. Work' = Work + 1 /\ Began' = Began + 1 BY <2>1, <3>1 DEF Work, Began
    <3>3. /\ credit' = credit - 1 /\ idle' = 0 /\ credit \in Int /\ idle \in Int /\ idle >= 0
      BY <2>2 DEF Begin, Typed
    <3> QED BY <1>0, <2>1, <3>2, <3>3
  <2>3. CASE Wait
    <3>1. Work' = Work /\ Began' = Began BY <2>1, <2>3 DEF Wait, Work, Began
    <3>2. /\ credit \in Int /\ idle \in Int
          /\ idle + 1 >= Gap \/ (idle' = idle + 1 /\ credit' = credit)
      BY <2>3 DEF Wait, Typed
    <3> QED BY <1>0, <2>1, <3>1, <3>2
  <2> QED BY <1>1, <1>6, <2>2, <2>3 DEF Receive, Typed
<1> QED BY <1>5, <1>6

\* No packet ends before the one before it was written.
LEMMA NoEndWithin ==
    Paced /\ Typed => \A since \in Int : Within(since) /\ since <= 3 * Ratio + 2 => ~Ended
<1> SUFFICES ASSUME Paced, Typed, NEW since \in Int, Within(since), since <= 3 * Ratio + 2, Ended
             PROVE  FALSE
  OBVIOUS
<1>0. /\ Bits \in Nat /\ Burst \in Nat /\ Gap \in Nat /\ Ratio \in Nat
  BY TasAssumption
<1>1. Came = 4 /\ Began = 5 /\ Work = 5 * (Bits + 1)
  BY <1>0 DEF Ended, Came, Began, Work
<1>2. credit >= 0 /\ credit \in Int BY DEF Typed
<1> QED BY <1>0, <1>1, <1>2 DEF Paced, Within

LEMMA SinceBounds ==
  ASSUME Typed
  PROVE  Since \in Int /\ Since <= 3 * Ratio + 2 /\ (tick # Ratio + 1 => Since + 1 <= 3 * Ratio + 2)
BY TasAssumption DEF Since, Typed

\* What a fast edge does to the flag.
LEMMA FlagSteps ==
  ASSUME FastEdge
  PROVE  /\ tick' = tick + 1 /\ clk2_state' = clk2_state
         /\ ready_to_write_end_buff' <=> ready_to_write_end_buff
         /\ ready_to_write_middle_buff' <=> ready_to_write_middle_buff
         /\ successfully_written_to_ram' <=> average_written_to_ram
         /\ complete' => average_ready_to_write'
         /\ ~complete' => (average_ready_to_write' <=>
                              ~average_written_to_ram /\ average_ready_to_write)
         /\ owed' = IF complete THEN owed \cup {packet} ELSE owed
<1>1. byte_analysis_state = 5 /\ byte_analysis_next = 1 <=> complete
  BY DEF complete, byte_analysis_next
<1>2. /\ tick' = tick + 1 /\ clk2_state' = clk2_state
      /\ ready_to_write_end_buff' = ready_to_write_end_buff
      /\ ready_to_write_middle_buff' = ready_to_write_middle_buff
      /\ successfully_written_to_ram' = average_written_to_ram
      /\ owed' = IF complete THEN owed \cup {packet} ELSE owed
  BY <1>1 DEF FastEdge, slow
<1>3. average_ready_to_write' =
          IF complete' THEN TRUE
          ELSE IF successfully_written_to_ram' THEN FALSE ELSE average_ready_to_write
  BY DEF FastEdge, Latch
<1> HIDE DEF complete, average_written_to_ram
<1>4. complete' => average_ready_to_write' BY <1>3
<1>5. ~complete' => (average_ready_to_write' <=>
                       ~average_written_to_ram /\ average_ready_to_write)
  BY <1>2, <1>3
<1> QED BY <1>2, <1>4, <1>5

\* At the edge after the one that completed a packet, its average is clocked.
LEMMA CompleteSteps ==
  ASSUME Typed, Typed', InStep, InStep', FastEdge, complete
  PROVE  ~complete' /\ packet_avg_temp' = packet /\ Within(1)'
<1>0. Burst \in Nat /\ Gap \in Nat /\ Bits \in Nat BY TasAssumption
<1>1. Ended /\ byte_analysis_state = 5 /\ n_byte_count = 5 BY EndsAreComplete DEF complete
<1>2. p_byte_count' = 5 /\ byte_analysis_state' = 1
  BY <1>1 DEF FastEdge, byte_analysis_next
<1>3. Begin \/ Wait BY <1>1 DEF FastEdge, Receive, Ended
<1>4. rx_state' # "RX_DONE" BY <1>3 DEF Begin, Wait
<1>5. n_byte_count' = 5 BY <1>2, <1>4 DEF n_byte_count
<1>6. ~complete' /\ acc_done' /\ ~acc_done BY <1>1, <1>2, <1>5 DEF complete, acc_done
<1>7. packet_avg_temp' = packet BY <1>6 DEF FastEdge
<1>8. idle = 0 /\ credit < Burst /\ p_bit_index = 0 /\ credit \in Int BY <1>1 DEF Typed, Ended
<1>9. Came' = 0 BY <1>2 DEF Came
<1>10. CASE Begin
  <2>1. rx_state' = "RX_READ_BITS" /\ p_bit_index' = 0 /\ credit' = credit - 1 /\ idle' = 0
    BY <1>1, <1>8, <1>10 DEF FastEdge, Receive, Begin, Ended
  <2>2. Work' = 1 /\ Began' = 1 BY <1>0, <1>9, <2>1 DEF Work, Began
  <2> QED BY <1>0, <1>6, <1>7, <1>8, <2>1, <2>2 DEF Within
<1>11. CASE Wait
  <2>1. Work' = 0 /\ Began' = 0 BY <1>0, <1>9, <1>11 DEF Wait, Work, Began
  <2>2. 1 >= Gap \/ (idle' = 1 /\ credit' = credit) BY <1>8, <1>11 DEF Wait
  <2>3. Within(1)' BY <1>0, <1>8, <2>1, <2>2 DEF Within
  <2> QED BY <1>6, <1>7, <2>3
<1> QED BY <1>3, <1>10, <1>11

\* While no packet ends the average stays what it is.
LEMMA AverageStays ==
  ASSUME Typed, Typed', InStep, InStep', FastEdge, ~Ended, ~Ended'
  PROVE  packet_avg_temp' = packet_avg_temp
<1>0. (Typed /\ InStep =>
          /\ complete <=> (Ended /\ byte_analysis_state = 5)
          /\ n_byte_count = 5 <=> Ended \/ (rx_state # "RX_DONE" /\ p_byte_count = 5))'
  BY EndsAreComplete, PTL
<1>1. ~(byte_analysis_state = 5 /\ n_byte_count = 5)
  BY EndsAreComplete DEF Typed, CountsTyped, InStep
<1>2. ASSUME acc_done' PROVE acc_done
  <2>1. n_byte_count' = 5 BY <1>2 DEF acc_done
  <2>2. p_byte_count' = 5 BY <1>0, <2>1
  <2>3. n_byte_count = 5 BY <2>2 DEF FastEdge
  <2> QED BY <1>1, <2>3 DEF acc_done
<1> QED BY <1>2 DEF FastEdge

LEMMA FastHandshake ==
  ASSUME Paced, PaceInv, FastEdge PROVE Handshake'
<1>1. Typed /\ Typed' /\ InStep /\ InStep' /\ Handshake
  BY TypedStep, FastEdgeKeepsStep DEF PaceInv, TasNext, StepInv, Typed
<1>2. /\ tick \in Nat /\ tick' = tick + 1 /\ tick' # 0 /\ tick' > 0 /\ Ratio \in Nat
  BY <1>1, TasAssumption, FlagSteps DEF Typed
<1>3. (Paced /\ Typed => \A since \in Int : Within(since) /\ since <= 3 * Ratio + 2 => ~Ended)'
  BY NoEndWithin, PTL
<1>4. (Typed /\ InStep =>
          /\ complete <=> (Ended /\ byte_analysis_state = 5)
          /\ n_byte_count = 5 <=> Ended \/ (rx_state # "RX_DONE" /\ p_byte_count = 5))'
  BY EndsAreComplete, PTL
<1>5. (Typed => Work \in Nat /\ Began \in 0..5)' BY WorkTyped, PTL
<1> USE FlagSteps DEF Levels, average_written_to_ram
<1>6. CASE complete
  <2>1. owed' = {packet_avg_temp'} /\ ~complete' /\ Within(1)'
    BY <1>1, <1>6, CompleteSteps DEF Handshake
  <2>2. CASE (Raised \/ RaisedAgain) /\ tick > 0
    <3>1. (Raised' \/ RaisedAgain') /\ ~Sampled' /\ ~Written'
      BY <1>2, <2>1, <2>2 DEF Raised, RaisedAgain, TakenBack, Sampled, Written
    <3>2. Since' >= 1 /\ Since' \in Int BY <1>2, <2>2, <3>1 DEF Since
    <3>3. InTime' BY <1>1, <1>5, <2>1, <3>2, TasAssumption DEF InTime, Within, Typed
    <3> QED BY <2>1, <3>1, <3>3 DEF Handshake, Pending, RaisedAgain
  <2>3. CASE Sampled /\ tick = 0
    <3>1. Sampled' BY <1>2, <2>1, <2>3 DEF Sampled
    <3>2. Since' >= 1 /\ Since' \in Int BY <1>2, <3>1 DEF Since
    <3>3. InTime' BY <1>1, <1>5, <2>1, <3>2, TasAssumption DEF InTime, Within, Typed
    <3> QED BY <2>1, <3>1, <3>3 DEF Handshake, Pending
  <2> QED BY <1>1, <1>6, <2>2, <2>3 DEF Handshake
<1>7. CASE Pending /\ ~complete
  <2>1. InTime /\ ~Ended BY <1>1, <1>7, NoEndWithin, SinceBounds DEF PaceInv, Handshake, InTime
  <2>2. PICK since \in Int : since = Since /\ since + 1 <= 3 * Ratio + 2
    BY <1>1, <1>2, SinceBounds DEF FastEdge
  <2>3. Within(since + 1)' BY <1>1, <2>1, <2>2, WorkSteps DEF InTime
  <2>4. ~Ended' /\ ~complete' BY <1>1, <1>3, <1>4, <2>2, <2>3
  <2>5. owed' = {packet_avg_temp'} BY <1>1, <1>7, <2>1, <2>4, AverageStays DEF Handshake
  <2>6. Pending' /\ Since' = Since + 1
    <3>1. CASE Raised
      <4>1. Raised' BY <2>4, <3>1 DEF Raised
      <4> QED BY <1>2, <3>1, <4>1 DEF Raised, Sampled, Written, Levels, Since, Pending
    <3>2. CASE Sampled
      <4>1. Sampled' BY <2>4, <3>2 DEF Sampled
      <4> QED BY <1>2, <3>2, <4>1 DEF Sampled, Since, Pending
    <3>3. CASE Written
      <4>1. Written' BY <1>2, <2>4, <3>3 DEF Written
      <4> QED BY <1>2, <3>3, <4>1 DEF Sampled, Written, Levels, Since, Pending
    <3>4. CASE RaisedAgain
      <4>1. RaisedAgain' BY <1>2, <2>4, <3>4 DEF RaisedAgain, TakenBack
      <4> QED BY <1>2, <3>4, <4>1
              DEF RaisedAgain, TakenBack, Sampled, Written, Levels, Since, Pending
    <3> QED BY <1>7, <3>1, <3>2, <3>3, <3>4 DEF Pending
  <2>7. InTime' BY <2>2, <2>3, <2>6 DEF InTime, Within
  <2> QED BY <2>4, <2>5, <2>6, <2>7 DEF Handshake, Pending, RaisedAgain
<1>8. CASE ~Pending /\ ~complete
  <2>1. owed' = {} BY <1>1, <1>8 DEF Handshake
  <2>2. CASE Rest
    <3>1. IF complete' THEN Raised' ELSE Rest'
      BY <2>2 DEF Rest, Raised
    <3> QED
      BY <1>2, <2>1, <3>1
      DEF Handshake, Pending, RaisedAgain, Raised, Rest, Sampled, Written, TakenBack
  <2>3. CASE TakenBack /\ ~average_ready_to_write
    <3>1. TakenBack' /\ (average_ready_to_write' <=> complete')
      BY <1>2, <2>3 DEF TakenBack
    <3> QED BY <1>2, <2>1, <3>1 DEF Handshake, Pending, RaisedAgain, Raised, Sampled, Written, TakenBack
  <2> QED BY <1>1, <1>8, <2>2, <2>3 DEF Handshake, Pending, RaisedAgain, TakenBack
<1> QED BY <1>6, <1>7, <1>8

LEMMA SlowHandshake ==
  ASSUME PaceInv, SlowEdge PROVE Handshake'
<1>1. Typed /\ Handshake /\ Ratio \in Nat /\ Ratio > 1 /\ tick \in 0..Ratio + 1
      /\ tick > 0 /\ tick' = 0
  BY TasAssumption DEF PaceInv, Typed, SlowEdge
<1>2. UNCHANGED <<sender, rx, analysis>> BY DEF SlowEdge
<1>3. complete' <=> complete
  BY <1>2 DEF sender, rx, analysis, complete, n_byte_count
<1>4. /\ Work' = Work /\ Began' = Began /\ credit' = credit /\ idle' = idle
      /\ packet_avg_temp' = packet_avg_temp
  BY <1>2 DEF sender, rx, analysis, Work, Came, Began
<1>5. /\ average_ready_to_write' <=> average_ready_to_write
      /\ successfully_written_to_ram' <=> successfully_written_to_ram
  BY <1>2 DEF analysis
<1>6. /\ ready_to_write_middle_buff' <=> average_ready_to_write
      /\ ready_to_write_end_buff' <=> ready_to_write_middle_buff
      /\ clk2_state' = IF average_written_to_ram THEN "CLK2_CLEANUP" ELSE "CLK2_WAIT_FOR_AVG"
      /\ owed' = IF average_written_to_ram THEN owed \ {packet_avg_temp} ELSE owed
  BY DEF SlowEdge, clk2_next
<1> USE DEF Levels, average_written_to_ram
<1>7. CASE Rest
  <2>1. owed = {} /\ ~complete
    BY <1>1, <1>7 DEF Handshake, Pending, RaisedAgain, Rest, Raised, Sampled, Written, TakenBack
  <2>2. Rest' BY <1>1, <1>5, <1>6, <1>7 DEF Rest
  <2>3. ~Pending' BY <2>2 DEF Rest, Pending, Raised, Sampled, Written, RaisedAgain, TakenBack
  <2> QED BY <1>3, <1>6, <1>7, <2>1, <2>2, <2>3 DEF Handshake, Rest
<1>8. CASE Raised \/ RaisedAgain
  <2>1. owed' = IF ~complete' THEN {packet_avg_temp'} ELSE {}
    BY <1>1, <1>3, <1>4, <1>6, <1>8 DEF Handshake, Pending, Raised, RaisedAgain, TakenBack
  <2>2. Sampled' BY <1>1, <1>5, <1>6, <1>8 DEF Raised, RaisedAgain, TakenBack, Sampled
  <2>3. Since' = Ratio /\ Since = tick - 1
    BY <1>1, <1>8, <2>2 DEF Since, Sampled, Raised, RaisedAgain, TakenBack, Written
  <2>4. ~complete' => InTime'
    <3> SUFFICES ASSUME ~complete' PROVE InTime' OBVIOUS
    <3>1. Within(tick - 1) BY <1>1, <1>3, <1>8, <2>3 DEF Handshake, InTime, Pending
    <3> QED BY <1>1, <1>4, <2>3, <3>1, WorkTyped, TasAssumption DEF InTime, Within, Typed
  <2> QED BY <1>1, <2>1, <2>2, <2>4 DEF Handshake, Pending
<1>9. CASE Sampled
  <2>1. ~complete BY <1>1, <1>9 DEF Handshake, Sampled, Raised, RaisedAgain, TakenBack
  <2>2. owed' = {packet_avg_temp'}
    BY <1>1, <1>4, <1>6, <1>9, <2>1 DEF Handshake, Pending, Sampled
  <2>3. Written' BY <1>1, <1>5, <1>6, <1>9 DEF Sampled, Written
  <2>4. Since' = 2 * Ratio + 1 /\ Since = Ratio + tick
    BY <1>1, <1>9, <2>3 DEF Since, Sampled, Written
  <2>5. InTime'
    <3>1. Within(Ratio + tick) BY <1>1, <1>9, <2>1, <2>4 DEF Handshake, InTime, Pending
    <3> QED BY <1>1, <1>4, <2>4, <3>1, WorkTyped, TasAssumption DEF InTime, Within, Typed
  <2> QED BY <1>3, <2>1, <2>2, <2>3, <2>5 DEF Handshake, Pending
<1>10. CASE Written
  <2>1. ~complete
    BY <1>1, <1>10 DEF Handshake, Written, Sampled, Raised, RaisedAgain, TakenBack
  <2>2. owed' = {} BY <1>1, <1>6, <1>10, <2>1 DEF Handshake, Pending, Written
  <2>3. TakenBack' /\ ~average_ready_to_write'
    BY <1>1, <1>5, <1>6, <1>10 DEF TakenBack, Written
  <2>4. ~Pending' BY <2>3 DEF Pending, Raised, Sampled, Written, RaisedAgain, TakenBack
  <2> QED BY <1>3, <2>1, <2>2, <2>3, <2>4 DEF Handshake
<1>11. CASE TakenBack /\ ~average_ready_to_write
  <2>1. owed = {} /\ ~complete
    BY <1>1, <1>11 DEF Handshake, Pending, RaisedAgain, Raised, Sampled, Written, TakenBack
  <2>2. Rest' BY <1>1, <1>5, <1>6, <1>11 DEF Rest, TakenBack
  <2>3. ~Pending' BY <2>2 DEF Rest, Pending, Raised, Sampled, Written, RaisedAgain, TakenBack
  <2> QED BY <1>3, <1>6, <1>11, <2>1, <2>2, <2>3 DEF Handshake, TakenBack
<1> QED BY <1>1, <1>7, <1>8, <1>9, <1>10, <1>11 DEF Handshake, RaisedAgain

LEMMA PaceInvariant == ASSUME Paced PROVE TasSpec => []PaceInv
<1>1. TasInit => PaceInv
  <2> SUFFICES ASSUME TasInit PROVE PaceInv OBVIOUS
  <2>1. Typed /\ InStep
    <3>1. /\ credit \in 0..Burst /\ idle \in Nat /\ p_bit_index \in 0..Bits - 1
          /\ tick \in 0..Ratio + 1 /\ header \in BOOLEAN /\ CountsTyped
      <4>1. /\ Ratio \in Nat /\ Bits \in Nat /\ Bits >= 1 /\ Burst \in Nat BY TasAssumption
      <4>2. credit = Burst /\ idle = 0 /\ p_bit_index = 0 /\ header \in BOOLEAN BY DEF TasInit
      <4>3. tick \in 0..Ratio + 1 BY <4>1 DEF TasInit
      <4>4. CountsTyped BY DEF TasInit, CountsTyped
      <4> QED BY <4>1, <4>2, <4>3, <4>4
    <3> QED BY <3>1 DEF TasInit, Typed, InStep
  <2>2. ~complete BY DEF TasInit, complete, n_byte_count
  <2>3. Rest BY DEF TasInit, Rest, Levels
  <2>4. ~Pending
    BY <2>3 DEF Rest, Pending, Raised, Sampled, Written, RaisedAgain, TakenBack, Levels
  <2> QED BY <2>1, <2>2, <2>3, <2>4 DEF PaceInv, Handshake, TasInit
<1>2. PaceInv /\ [TasNext]_tasVars => PaceInv'
  <2> SUFFICES ASSUME PaceInv, [TasNext]_tasVars PROVE PaceInv' OBVIOUS
  <2>1. Typed' BY TypedStep DEF PaceInv
  <2>2. CASE FastEdge
    BY <2>1, <2>2, FastHandshake, FastEdgeKeepsStep DEF PaceInv, StepInv, Typed
  <2>3. CASE SlowEdge
    <3>1. InStep' BY <2>3 DEF SlowEdge, InStep, rx, analysis, PaceInv
    <3> QED BY <2>1, <2>3, <3>1, SlowHandshake DEF PaceInv
  <2>4. CASE UNCHANGED tasVars
    <3>1. InStep' BY <2>4 DEF tasVars, InStep, rx, analysis, PaceInv
    <3>2. Handshake'
      BY <2>4 DEF tasVars, sender, rx, analysis, slow, PaceInv, Handshake, Rest, Raised, Sampled,
                  Written, TakenBack, RaisedAgain, Levels, Pending, complete, n_byte_count,
                  InTime, Within, Since, Work, Came, Began
    <3> QED BY <2>1, <3>1, <3>2 DEF PaceInv
  <2> QED BY <2>2, <2>3, <2>4 DEF TasNext
<1> QED BY <1>1, <1>2, PTL DEF TasSpec

\* At a pace at which packets end further apart than three of the slow clock's longest
\* periods, each write is of the one packet that is owed one: none is written twice and none
\* is overwritten before its turn, though the flag and the answer cross from one clock to the
\* other and back.
THEOREM OneWritePerPacket == ASSUME Paced PROVE TasSpec => OneWriteEach
<1>1. PaceInv /\ [TasNext]_tasVars => (present_ram_addr' # present_ram_addr => owed = {packet_avg_temp})
  <2> SUFFICES ASSUME PaceInv, [TasNext]_tasVars, present_ram_addr' # present_ram_addr
               PROVE  owed = {packet_avg_temp}
    OBVIOUS
  <2>1. SlowEdge BY DEF TasNext, FastEdge, slow, tasVars
  <2>2. average_written_to_ram BY <2>1 DEF SlowEdge
  <2>3. tick > 0 BY <2>1, TasAssumption DEF SlowEdge, PaceInv, Typed
  <2>4. Written
    BY <2>2 DEF PaceInv, Handshake, average_written_to_ram, Levels, Rest, Raised, Sampled,
                Written, TakenBack
  <2>5. ~complete
    BY <2>4 DEF PaceInv, Handshake, Written, Sampled, Raised, RaisedAgain, TakenBack, Levels
  <2> QED BY <2>4, <2>5 DEF PaceInv, Handshake, Pending
<1> QED BY <1>1, PaceInvariant, PTL DEF TasSpec, OneWriteEach
-----------------------------------------------------------------------------
(* The options of the predictor, and its branches *)

LEMMA ConfigFacts ==
  ASSUME config \in Configs
  PROVE  /\ config.bimod \in Nat \ {0} /\ config.l1 \in Nat \ {0} /\ config.l2 \in Nat \ {0}
         /\ config.meta \in Nat \ {0} /\ config.sets \in Nat \ {0} /\ config.assoc \in Nat \ {0}
         /\ Size \in Nat \ {0} /\ config.class \in Classes
         /\ config.width \in Nat /\ 2^config.width \in Nat \ {0}
         /\ \A b \in Branches :
               /\ b \in Nat \ {0, 1}
               /\ Kind(b) \in Direct \cup {"ijump", "icall", "return"}
               /\ Program[b].target \in Nat \ {0, 1, b + 1}
         /\ Destinations \subseteq Nat \ {0, 1}
         /\ \A b \in Branches : b + 1 \notin config.targets
<1>1. /\ {config.bimod, config.l1, config.l2, config.meta, config.sets, config.assoc,
          config.ras, config.ifq, config.ruu} \subseteq Nat \ {0}
      /\ {config.width, config.most} \subseteq Nat /\ 2^config.width \in Nat \ {0}
      /\ config.class \in Classes
      /\ \A b \in DOMAIN config.program :
            /\ b \in Nat \ {0, 1}
            /\ config.program[b].kind \in Direct \cup {"ijump", "icall", "return"}
            /\ config.program[b].target \in Nat \ {0, 1, b + 1}
      /\ config.targets \subseteq Nat \ ({0, 1} \cup {b + 1 : b \in DOMAIN config.program})
  BY ConfigsAssumption
<1>2. \A b \in Branches :
         /\ b \in Nat \ {0, 1}
         /\ Kind(b) \in Direct \cup {"ijump", "icall", "return"}
         /\ Program[b].target \in Nat \ {0, 1, b + 1}
  BY <1>1 DEF Branches, Program, Kind
<1>3. config.targets \subseteq Nat \ {0, 1} /\ \A b \in Branches : b + 1 \notin config.targets
  BY <1>1 DEF Branches, Program
<1>4. Destinations \subseteq Nat \ {0, 1} BY <1>2, <1>3 DEF Destinations
<1> QED BY <1>1, <1>2, <1>3, <1>4 DEF Size
-----------------------------------------------------------------------------
(* The branch target buffer *)

\* A set of integers that is bounded below has a least one.
LEMMA LeastExists ==
    ASSUME NEW S \in SUBSET Int, S # {}, NEW b \in Int, \A x \in S : b <= x
    PROVE  \E m \in S : \A x \in S : m <= x
<1> DEFINE R == OpToRel(<, Nat)
           T == {x - b : x \in S}
<1>1. IsWellFoundedOn(R, Nat)
  BY NatLessThanWellFounded
<1>2. T \subseteq Nat /\ T # {}
  <2>1. \A x \in S : x \in Int /\ x - b \in Nat
    OBVIOUS
  <2> QED BY <2>1
<1>3. PICK t \in T : \A y \in T : <<y, t>> \notin R
  <2> HIDE DEF R, T
  <2> QED BY <1>1, <1>2, WFMin
<1>4. \A y \in T : ~(y < t)
  BY <1>2, <1>3 DEF OpToRel
<1>5. PICK m \in S : t = m - b
  OBVIOUS
<1>6. ASSUME NEW x \in S PROVE m <= x
  <2>1. x - b \in T /\ m \in Int /\ x \in Int
    OBVIOUS
  <2>2. ~(x - b < m - b)
    BY <1>4, <1>5, <2>1
  <2> QED BY <2>1, <2>2
<1> QED BY <1>6

\* The ways of a set in their order q, the first m of them in use, each for a branch of
\* its own.
Ordered(set, q, m) ==
    /\ q \in [1..config.assoc -> Ways] /\ m \in 0..config.assoc
    /\ \A w \in Ways : \E k \in 1..config.assoc : q[k] = w
    /\ \A j, k \in 1..config.assoc : q[j] = q[k] => j = k
    /\ \A k \in 1..config.assoc :
          /\ set.prev[q[k]] = IF k = 1 THEN Null ELSE q[k - 1]
          /\ set.next[q[k]] = IF k = config.assoc THEN Null ELSE q[k + 1]
          /\ set.addr[q[k]] # 0 <=> k <= m
    /\ \A j, k \in 1..m : set.addr[q[j]] = set.addr[q[k]] => j = k

\* What a way in use may hold; the destination of a direct branch is never another.
Holds(set) ==
    \A w \in Ways : set.addr[w] # 0 =>
        /\ set.addr[w] \in Branches /\ set.target[w] \in Destinations
        /\ Kind(set.addr[w]) \in Direct => set.target[w] = Program[set.addr[w]].target

BtbSet == [addr : [Ways -> Nat], target : [Ways -> Nat],
           prev : [Ways -> Int], next : [Ways -> Int]]
SetsTyped == btb \in [Sets -> BtbSet]
BtbInv == /\ SetsTyped
          /\ \A s \in Sets : Holds(btb[s]) /\ \E q, m : Ordered(btb[s], q, m)

\* One way is the head of its list and one the tail, which bpred_update() asserts (bpred.c
\* lines 919-931).
LEMMA Ends ==
  ASSUME config \in Configs, SetsTyped, NEW s \in Sets, NEW q, NEW m, Ordered(btb[s], q, m)
  PROVE  /\ MRU(s) = q[1] /\ LRU(s) = q[config.assoc]
         /\ \A w \in Ways : /\ btb[s].prev[w] = Null => w = MRU(s)
                            /\ btb[s].next[w] = Null => w = LRU(s)
<1>0. config.assoc \in Nat \ {0} BY ConfigFacts
<1>1. \A k \in 1..config.assoc : q[k] \in Ways /\ q[k] # Null
  BY DEF Ordered, Ways, Null
<1>2. ASSUME NEW w \in Ways
      PROVE  /\ btb[s].prev[w] = Null <=> w = q[1]
             /\ btb[s].next[w] = Null <=> w = q[config.assoc]
  <2>1. PICK k \in 1..config.assoc : q[k] = w BY DEF Ordered
  <2>2. btb[s].prev[w] = Null <=> k = 1
    BY <1>0, <1>1, <2>1 DEF Ordered
  <2>3. btb[s].next[w] = Null <=> k = config.assoc
    BY <1>0, <1>1, <2>1 DEF Ordered
  <2> QED BY <1>0, <2>1, <2>2, <2>3 DEF Ordered
<1>3. q[1] \in Ways /\ q[config.assoc] \in Ways BY <1>0, <1>1
<1>4. MRU(s) = q[1] BY <1>2, <1>3 DEF MRU
<1>5. LRU(s) = q[config.assoc] BY <1>2, <1>3 DEF LRU
<1> QED BY <1>2, <1>4, <1>5

\* Following the list from the head gives the order: the equation that defines the chain
\* has one solution.
LEMMA ChainIs ==
  ASSUME config \in Configs, SetsTyped, NEW s \in Sets, NEW q, NEW m, Ordered(btb[s], q, m)
  PROVE  Chain(s) = q
<1> DEFINE N == 1..config.assoc
           Step(f) == [k \in N |-> IF k = 1 THEN MRU(s)
                                   ELSE IF f[k - 1] = Null THEN Null ELSE btb[s].next[f[k - 1]]]
<1>0. config.assoc \in Nat \ {0} BY ConfigFacts
<1>1. q = Step(q)
  <2>1. ASSUME NEW k \in N
        PROVE  q[k] = IF k = 1 THEN MRU(s)
                      ELSE IF q[k - 1] = Null THEN Null ELSE btb[s].next[q[k - 1]]
    <3>1. CASE k = 1 BY <3>1, Ends
    <3>2. CASE k # 1
      <4>1. k - 1 \in N /\ k - 1 # config.assoc BY <1>0, <3>2
      <4>2. q[k - 1] \in Ways /\ q[k - 1] # Null BY <4>1 DEF Ordered, Ways, Null
      <4>3. btb[s].next[q[k - 1]] = q[k] BY <1>0, <4>1 DEF Ordered
      <4> QED BY <3>2, <4>2, <4>3
    <3> QED BY <3>1, <3>2
  <2>2. q = [k \in N |-> q[k]] BY DEF Ordered
  <2> QED BY <2>1, <2>2
<1>2. ASSUME NEW f, f = Step(f) PROVE f = q
  <2> DEFINE D == {k \in N : f[k] # q[k]}
  <2>1. D = {}
    <3> SUFFICES ASSUME D # {} PROVE FALSE OBVIOUS
    <3>1. PICK k \in D : \A j \in D : k <= j
      <4>1. D \in SUBSET Int /\ \A j \in D : 1 <= j BY <1>0
      <4> HIDE DEF D
      <4> QED BY <4>1, LeastExists
    <3>2. k \in N /\ f[k] # q[k] OBVIOUS
    <3>3. f[k] = IF k = 1 THEN MRU(s)
                 ELSE IF f[k - 1] = Null THEN Null ELSE btb[s].next[f[k - 1]]
      BY <1>2, <3>2
    <3>4. q[k] = IF k = 1 THEN MRU(s)
                 ELSE IF q[k - 1] = Null THEN Null ELSE btb[s].next[q[k - 1]]
      BY <1>1, <3>2
    <3>5. k # 1 => k - 1 \in N /\ k - 1 \notin D BY <1>0, <3>1, <3>2
    <3> QED BY <3>2, <3>3, <3>4, <3>5
  <2>2. f = [k \in N |-> f[k]] /\ q = [k \in N |-> q[k]] BY <1>1, <1>2
  <2> QED BY <2>1, <2>2
<1>3. Chain(s) = CHOOSE f : f = Step(f) BY DEF Chain
<1> HIDE DEF Step
<1> QED BY <1>1, <1>2, <1>3

LEMMA BtbInit == Init => BtbInv
<1> SUFFICES ASSUME Init PROVE BtbInv OBVIOUS
<1> USE DEF Init
<1>0. config \in Configs /\ config.assoc \in Nat \ {0} BY ConfigFacts
<1>1. /\ EmptySet.addr = [w \in Ways |-> 0] /\ EmptySet.target = [w \in Ways |-> 0]
      /\ EmptySet.prev = [w \in Ways |-> IF w = 0 THEN Null ELSE w - 1]
      /\ EmptySet.next = [w \in Ways |-> IF w = config.assoc - 1 THEN Null ELSE w + 1]
  BY DEF EmptySet
<1>2. Holds(EmptySet) BY <1>1 DEF Holds
<1>3. Ordered(EmptySet, [k \in 1..config.assoc |-> k - 1], 0)
  <2> DEFINE q == [k \in 1..config.assoc |-> k - 1]
  <2>1. q \in [1..config.assoc -> Ways] /\ 0 \in 0..config.assoc BY <1>0 DEF Ways
  <2>2. ASSUME NEW w \in Ways PROVE \E k \in 1..config.assoc : q[k] = w
    <3>1. w + 1 \in 1..config.assoc /\ q[w + 1] = w BY <1>0 DEF Ways
    <3> QED BY <3>1
  <2>3. \A j, k \in 1..config.assoc : q[j] = q[k] => j = k BY <1>0
  <2>4. ASSUME NEW k \in 1..config.assoc
        PROVE  /\ EmptySet.prev[q[k]] = IF k = 1 THEN Null ELSE q[k - 1]
               /\ EmptySet.next[q[k]] = IF k = config.assoc THEN Null ELSE q[k + 1]
               /\ EmptySet.addr[q[k]] # 0 <=> k <= 0
    <3>1. k - 1 \in Ways /\ q[k] = k - 1 BY <1>0 DEF Ways
    <3>2. k # 1 => q[k - 1] = k - 2 BY <1>0
    <3>3. k # config.assoc => q[k + 1] = k BY <1>0
    <3> QED BY <1>0, <1>1, <3>1, <3>2, <3>3
  <2>5. \A j, k \in 1..0 : EmptySet.addr[q[j]] = EmptySet.addr[q[k]] => j = k OBVIOUS
  <2> HIDE DEF q
  <2>6. Ordered(EmptySet, q, 0) BY <2>1, <2>2, <2>3, <2>4, <2>5 DEF Ordered
  <2> QED BY <2>6 DEF q
<1>4. SetsTyped
  <2>1. EmptySet \in BtbSet BY <1>0 DEF EmptySet, BtbSet, Ways, Null
  <2>2. btb = [s \in Sets |-> EmptySet] OBVIOUS
  <2> QED BY ONLY <2>1, <2>2 DEF SetsTyped
<1>5. \A s \in Sets : btb[s] = EmptySet OBVIOUS
<1> QED BY <1>2, <1>3, <1>4, <1>5 DEF BtbInv

\* The way at the place p comes to the front, those before it move up by one.
Fronted(q, p) == [k \in 1..config.assoc |-> IF k = 1 THEN q[p] ELSE IF k <= p THEN q[k - 1] ELSE q[k]]

LEMMA FrontedOrder ==
  ASSUME config \in Configs, NEW set, NEW q, NEW m, Ordered(set, q, m),
         NEW p \in 1..config.assoc
  PROVE  /\ Fronted(q, p) \in [1..config.assoc -> Ways]
         /\ \A w \in Ways : \E k \in 1..config.assoc : Fronted(q, p)[k] = w
         /\ \A j, k \in 1..config.assoc : Fronted(q, p)[j] = Fronted(q, p)[k] => j = k
<1>0. config.assoc \in Nat \ {0} BY ConfigFacts
<1>1. \A k \in 1..config.assoc :
         Fronted(q, p)[k] = IF k = 1 THEN q[p] ELSE IF k <= p THEN q[k - 1] ELSE q[k]
  BY DEF Fronted
<1>2. Fronted(q, p) \in [1..config.assoc -> Ways]
  <2>1. \A k \in 1..config.assoc :
           (IF k = 1 THEN q[p] ELSE IF k <= p THEN q[k - 1] ELSE q[k]) \in Ways
    BY <1>0 DEF Ordered
  <2> QED BY <2>1 DEF Fronted
<1>3. ASSUME NEW w \in Ways PROVE \E k \in 1..config.assoc : Fronted(q, p)[k] = w
  <2>1. PICK j \in 1..config.assoc : q[j] = w BY DEF Ordered
  <2>2. CASE j = p BY <1>0, <1>1, <2>1, <2>2
  <2>3. CASE j < p
    <3>1. j + 1 \in 1..config.assoc /\ j + 1 # 1 /\ j + 1 <= p BY <1>0, <2>3
    <3>2. Fronted(q, p)[j + 1] = q[j] BY <1>1, <3>1
    <3> QED BY <2>1, <3>1, <3>2
  <2>4. CASE j > p
    <3>1. Fronted(q, p)[j] = q[j] BY <1>1, <2>4
    <3> QED BY <2>1, <3>1
  <2> QED BY <2>2, <2>3, <2>4
<1>4. ASSUME NEW j \in 1..config.assoc, NEW k \in 1..config.assoc,
             Fronted(q, p)[j] = Fronted(q, p)[k]
      PROVE  j = k
  <2> DEFINE At(n) == IF n = 1 THEN p ELSE IF n <= p THEN n - 1 ELSE n
  <2>1. \A n \in 1..config.assoc : At(n) \in 1..config.assoc /\ Fronted(q, p)[n] = q[At(n)]
    BY <1>0, <1>1
  <2>2. At(j) = At(k) BY <1>4, <2>1 DEF Ordered
  <2> QED BY <2>2
<1> QED BY <1>2, <1>3, <1>4

\* The links of a set follow the order r.
Linked(set, r) ==
    \A k \in 1..config.assoc : /\ set.prev[r[k]] = IF k = 1 THEN Null ELSE r[k - 1]
                               /\ set.next[r[k]] = IF k = config.assoc THEN Null ELSE r[k + 1]

\* What bpred_update() does to the links of a way that is not the head is that.
LEMMA SplicedOrder ==
  ASSUME config \in Configs, SetsTyped, NEW s \in Sets, NEW q, NEW m, Ordered(btb[s], q, m),
         NEW p \in 2..config.assoc
  PROVE  /\ Spliced(s, q[p]).addr = btb[s].addr /\ Spliced(s, q[p]).target = btb[s].target
         /\ Spliced(s, q[p]) \in BtbSet
         /\ Linked(Spliced(s, q[p]), Fronted(q, p))
<1> DEFINE N == 1..config.assoc
           set == btb[s]
           w == q[p]
           a == set.prev[w]
           n == set.next[w]
           h == MRU(s)
           next0 == IF a = Null THEN set.next ELSE [set.next EXCEPT ![a] = n]
           prev0 == IF n = Null THEN set.prev ELSE [set.prev EXCEPT ![n] = a]
           next1 == [next0 EXCEPT ![w] = h]
           prev1 == [prev0 EXCEPT ![w] = Null, ![h] = w]
           r == Fronted(q, p)
<1>0. config.assoc \in Nat \ {0} BY ConfigFacts
<1>1. /\ set \in BtbSet
      /\ Ways \subseteq Int
  BY DEF SetsTyped, Ways
<1>2. /\ h = q[1] /\ a = q[p - 1] /\ n = IF p = config.assoc THEN Null ELSE q[p + 1]
      /\ p \in N /\ p - 1 \in N /\ 1 \in N /\ p # 1
  <2>1. p \in N /\ p - 1 \in N /\ 1 \in N /\ p # 1 BY <1>0
  <2>2. h = q[1] BY Ends
  <2>3. /\ set.prev[q[p]] = IF p = 1 THEN Null ELSE q[p - 1]
        /\ set.next[q[p]] = IF p = config.assoc THEN Null ELSE q[p + 1]
    BY <2>1 DEF Ordered
  <2> QED BY <2>1, <2>2, <2>3
<1>3. \A k \in N : q[k] \in Ways /\ q[k] # Null BY DEF Ordered, Ways, Null
<1>4. \A j, k \in N : q[j] = q[k] => j = k BY DEF Ordered
<1>5. next0 \in [Ways -> Int] /\ prev0 \in [Ways -> Int]
  BY <1>0, <1>1, <1>2, <1>3 DEF Null, BtbSet
<1>6. next1 \in [Ways -> Int] /\ prev1 \in [Ways -> Int]
  <2>0. Ways \subseteq Int /\ \A k \in N : q[k] \in Ways BY <1>1, <1>3
  <2>1. \A k \in N : q[k] \in Int BY ONLY <2>0
  <2>2. Null \in Int BY ONLY DEF Null
  <2> HIDE DEF next0, prev0, h
  <2> QED BY <1>2, <1>5, <2>1, <2>2
<1>7. /\ Spliced(s, w).addr = set.addr /\ Spliced(s, w).target = set.target
      /\ Spliced(s, w).next = next1 /\ Spliced(s, w).prev = prev1
      /\ Spliced(s, w) \in BtbSet
  <2>1. Spliced(s, w) = [set EXCEPT !.next = next1, !.prev = prev1] BY DEF Spliced
  <2> HIDE DEF next1, prev1
  <2> QED BY <1>1, <1>6, <2>1 DEF BtbSet
<1>8. \A k \in N : /\ set.prev[q[k]] = IF k = 1 THEN Null ELSE q[k - 1]
                   /\ set.next[q[k]] = IF k = config.assoc THEN Null ELSE q[k + 1]
  BY DEF Ordered
<1>9. \A k \in N : r[k] = IF k = 1 THEN q[p] ELSE IF k <= p THEN q[k - 1] ELSE q[k]
  BY DEF Fronted
<1>10. \A v \in Ways : next1[v] = IF v = w THEN q[1] ELSE IF v = q[p - 1] THEN n ELSE set.next[v]
  BY <1>1, <1>2, <1>3, <1>5 DEF BtbSet
<1>11. \A v \in Ways : prev1[v] = IF v = q[1] THEN w ELSE IF v = w THEN Null
                                  ELSE IF n # Null /\ v = n THEN q[p - 1] ELSE set.prev[v]
  BY <1>1, <1>2, <1>3, <1>5 DEF BtbSet
<1> HIDE DEF next0, prev0, next1, prev1, r
<1>12. ASSUME NEW k \in N PROVE prev1[r[k]] = IF k = 1 THEN Null ELSE r[k - 1]
  <2>1. CASE k = 1
    <3>1. r[1] = w /\ w # q[1] BY <1>2, <1>4, <1>9
    <3> QED BY <1>2, <1>3, <1>11, <2>1, <3>1
  <2>2. CASE k = 2
    <3>1. r[2] = q[1] /\ r[1] = w BY <1>0, <1>2, <1>9, <2>2
    <3> QED BY <1>2, <1>3, <1>11, <2>2, <3>1
  <2>3. CASE k > 2 /\ k <= p
    <3>1. r[k] = q[k - 1] /\ r[k - 1] = q[k - 2] /\ k - 1 \in N /\ k - 2 \in N /\ k - 1 # 1
      BY <1>0, <1>9, <2>3
    <3>2. q[k - 1] # q[1] /\ q[k - 1] # w /\ ~(n # Null /\ q[k - 1] = n)
      BY <1>0, <1>2, <1>4, <2>3, <3>1
    <3> QED BY <1>3, <1>8, <1>11, <2>3, <3>1, <3>2
  <2>4. CASE k = p + 1
    <3>1. r[k] = q[k] /\ r[k - 1] = q[p - 1] /\ n = q[k] BY <1>0, <1>2, <1>9, <2>4
    <3>2. q[k] # q[1] /\ q[k] # w BY <1>0, <1>2, <1>4, <2>4
    <3> QED BY <1>2, <1>3, <1>11, <2>4, <3>1, <3>2
  <2>5. CASE k > p + 1
    <3>1. r[k] = q[k] /\ r[k - 1] = q[k - 1] BY <1>0, <1>2, <1>9, <2>5
    <3>2. q[k] # q[1] /\ q[k] # w /\ ~(n # Null /\ q[k] = n) BY <1>0, <1>2, <1>4, <2>5
    <3> QED BY <1>2, <1>3, <1>8, <1>11, <2>5, <3>1, <3>2
  <2> QED BY <1>0, <2>1, <2>2, <2>3, <2>4, <2>5
<1>13. ASSUME NEW k \in N PROVE next1[r[k]] = IF k = config.assoc THEN Null ELSE r[k + 1]
  <2>1. CASE k = 1
    <3>1. r[1] = w /\ r[2] = q[1] /\ config.assoc # 1 BY <1>0, <1>2, <1>9
    <3> QED BY <1>2, <1>3, <1>10, <2>1, <3>1
  <2>2. CASE k > 1 /\ k < p
    <3>1. r[k] = q[k - 1] /\ r[k + 1] = q[k] /\ k - 1 \in N /\ k - 1 # p /\ k - 1 # p - 1
          /\ k # config.assoc /\ k - 1 # config.assoc
      BY <1>0, <1>9, <2>2
    <3>2. q[k - 1] # w /\ q[k - 1] # q[p - 1] BY <1>2, <1>4, <3>1
    <3>3. set.next[q[k - 1]] = q[k] BY <1>0, <1>8, <3>1
    <3> QED BY <1>3, <1>10, <2>2, <3>1, <3>2, <3>3
  <2>3. CASE k = p
    <3>1. r[k] = q[p - 1] /\ q[p - 1] # w BY <1>0, <1>2, <1>4, <1>9, <2>3
    <3>2. k # config.assoc => r[k + 1] = q[p + 1] BY <1>0, <1>2, <1>9, <2>3
    <3> QED BY <1>2, <1>3, <1>10, <2>3, <3>1, <3>2
  <2>4. CASE k > p
    <3>1. r[k] = q[k] /\ (k # config.assoc => r[k + 1] = q[k + 1]) BY <1>0, <1>2, <1>9, <2>4
    <3>2. q[k] # w /\ q[k] # q[p - 1] BY <1>0, <1>2, <1>4, <2>4
    <3> QED BY <1>3, <1>8, <1>10, <3>1, <3>2
  <2> QED BY <1>0, <2>1, <2>2, <2>3, <2>4
<1> QED BY <1>7, <1>12, <1>13 DEF r, Linked

\* The set of a branch that was taken, once bpred_update() is through with it.
Updated(e) ==
    LET s == SetOf(e.PC)
        w == WayFor(e.PC)
        set == IF w = MRU(s) THEN btb[s] ELSE Spliced(s, w)
        kept == set.addr[w] = e.PC /\ e.pred_PC = e.next_PC
    IN  [set EXCEPT !.addr[w] = e.PC, !.target[w] = IF kept THEN @ ELSE e.next_PC]

\* The entry of the branch comes to the front from its place p, in a set that it was not
\* in from the end; nothing else is changed.
Comes(b, set, new, q, m, p, n) ==
    /\ p \in 1..config.assoc
    /\ IF \E k \in 1..m : set.addr[q[k]] = b
       THEN p <= m /\ set.addr[q[p]] = b /\ n = m
       ELSE p = config.assoc /\ n = IF m < config.assoc THEN m + 1 ELSE m
    /\ new.addr[q[p]] = b /\ new.target[q[p]] \in Destinations
    /\ \A w \in Ways : w # q[p] => /\ new.addr[w] = set.addr[w]
                                   /\ new.target[w] = set.target[w]

LEMMA WayForPlace ==
  ASSUME config \in Configs, SetsTyped, NEW b \in Branches, NEW q, NEW m,
         Ordered(btb[SetOf(b)], q, m)
  PROVE  \E p \in 1..config.assoc :
            /\ WayFor(b) = q[p]
            /\ IF \E k \in 1..m : btb[SetOf(b)].addr[q[k]] = b
               THEN p <= m /\ btb[SetOf(b)].addr[q[p]] = b ELSE p = config.assoc
<1> DEFINE s == SetOf(b)
           set == btb[s]
<1>0. config.assoc \in Nat \ {0} /\ b \in Nat \ {0, 1} /\ config.sets \in Nat \ {0} BY ConfigFacts
<1>1. s \in Sets BY <1>0 DEF SetOf, Sets
<1>2. CASE \E k \in 1..m : set.addr[q[k]] = b
  <2>1. PICK p \in 1..m : set.addr[q[p]] = b BY <1>2
  <2>2. p \in 1..config.assoc /\ q[p] \in Ways BY <1>0 DEF Ordered
  <2>3. ASSUME NEW w \in Ways, set.addr[w] = b PROVE w = q[p]
    <3>1. PICK k \in 1..config.assoc : q[k] = w BY DEF Ordered
    <3>2. k \in 1..m BY <1>0, <2>3, <3>1 DEF Ordered
    <3> QED BY <2>1, <2>3, <3>1, <3>2 DEF Ordered
  <2>4. Matches(b) = {q[p]} BY <2>1, <2>2, <2>3 DEF Matches
  <2>5. q[p] <= q[p] BY <1>0, <2>2 DEF Ways
  <2>6. WayFor(b) = q[p] BY <2>4, <2>5 DEF WayFor, First
  <2> QED BY <1>2, <2>1, <2>2, <2>6
<1>3. CASE ~\E k \in 1..m : set.addr[q[k]] = b
  <2>1. ASSUME NEW w \in Ways, set.addr[w] = b PROVE FALSE
    <3>1. PICK k \in 1..config.assoc : q[k] = w BY DEF Ordered
    <3>2. k \in 1..m BY <1>0, <2>1, <3>1 DEF Ordered
    <3> QED BY <1>3, <2>1, <3>1, <3>2
  <2>2. Matches(b) = {} BY <2>1 DEF Matches
  <2>3. WayFor(b) = q[config.assoc] BY <1>1, <2>2, Ends DEF WayFor
  <2> QED BY <1>0, <1>3, <2>3
<1> QED BY <1>2, <1>3

\* The links of the updated set.
LEMMA UpdatedOrder ==
  ASSUME config \in Configs, SetsTyped, NEW e, e.PC \in Branches, e.next_PC \in Nat,
         NEW q, NEW m, Ordered(btb[SetOf(e.PC)], q, m),
         NEW p \in 1..config.assoc, WayFor(e.PC) = q[p]
  PROVE  /\ SetOf(e.PC) \in Sets
         /\ Updated(e) \in BtbSet
         /\ Linked(Updated(e), Fronted(q, p))
         /\ \A w \in Ways :
               /\ Updated(e).addr[w] = IF w = q[p] THEN e.PC ELSE btb[SetOf(e.PC)].addr[w]
               /\ Updated(e).target[w] =
                     IF w = q[p] /\ ~(btb[SetOf(e.PC)].addr[w] = e.PC /\ e.pred_PC = e.next_PC)
                     THEN e.next_PC ELSE btb[SetOf(e.PC)].target[w]
<1> DEFINE s == SetOf(e.PC)
           w == q[p]
           set == IF w = MRU(s) THEN btb[s] ELSE Spliced(s, w)
           kept == set.addr[w] = e.PC /\ e.pred_PC = e.next_PC
<1>0. config.assoc \in Nat \ {0} /\ e.PC \in Nat \ {0, 1} /\ config.sets \in Nat \ {0}
  BY ConfigFacts
<1>1. s \in Sets BY <1>0 DEF SetOf, Sets
<1>2. btb[s] \in BtbSet BY <1>1 DEF SetsTyped
<1>3. w \in Ways /\ q[1] \in Ways /\ MRU(s) = q[1]
  <2>1. w \in Ways /\ q[1] \in Ways BY <1>0 DEF Ordered
  <2>2. MRU(s) = q[1] BY <1>1, Ends
  <2> QED BY <2>1, <2>2
<1>4. /\ set \in BtbSet /\ set.addr = btb[s].addr /\ set.target = btb[s].target
      /\ Linked(set, Fronted(q, p))
  <2>1. CASE p = 1
    <3>1. set = btb[s] BY <1>3, <2>1
    <3>2. \A k \in 1..config.assoc : Fronted(q, p)[k] = q[k] BY <1>0, <2>1 DEF Fronted
    <3>3. ASSUME NEW k \in 1..config.assoc
          PROVE  /\ btb[s].prev[q[k]] = IF k = 1 THEN Null ELSE Fronted(q, p)[k - 1]
                 /\ btb[s].next[q[k]] = IF k = config.assoc THEN Null ELSE Fronted(q, p)[k + 1]
      <4>1. /\ btb[s].prev[q[k]] = IF k = 1 THEN Null ELSE q[k - 1]
            /\ btb[s].next[q[k]] = IF k = config.assoc THEN Null ELSE q[k + 1]
        BY DEF Ordered
      <4>2. /\ k # 1 => k - 1 \in 1..config.assoc
            /\ k # config.assoc => k + 1 \in 1..config.assoc
        BY <1>0
      <4> QED BY <3>2, <4>1, <4>2
    <3>4. Linked(btb[s], Fronted(q, p)) BY <3>2, <3>3 DEF Linked
    <3> QED BY <1>2, <3>1, <3>4
  <2>2. CASE p # 1
    <3>1. p \in 2..config.assoc BY <1>0, <2>2
    <3>2. w # MRU(s) BY <1>0, <1>3, <2>2 DEF Ordered
    <3>3. set = Spliced(s, q[p]) BY <3>2
    <3>4. /\ Spliced(s, q[p]).addr = btb[s].addr /\ Spliced(s, q[p]).target = btb[s].target
          /\ Spliced(s, q[p]) \in BtbSet /\ Linked(Spliced(s, q[p]), Fronted(q, p))
      <4>1. Ordered(btb[s], q, m) /\ s \in Sets /\ config \in Configs /\ SetsTyped BY <1>1
      <4> HIDE DEF s
      <4> QED BY ONLY <3>1, <4>1, SplicedOrder
    <3> HIDE DEF set, s
    <3> QED BY <3>3, <3>4
  <2> QED BY <2>1, <2>2
<1>5. Updated(e) = [set EXCEPT !.addr[w] = e.PC, !.target[w] = IF kept THEN @ ELSE e.next_PC]
  BY DEF Updated
<1> HIDE DEF set
<1>6. /\ Updated(e) \in BtbSet /\ Updated(e).prev = set.prev /\ Updated(e).next = set.next
      /\ Updated(e).addr = [set.addr EXCEPT ![w] = e.PC]
      /\ Updated(e).target = [set.target EXCEPT ![w] = IF kept THEN @ ELSE e.next_PC]
  <2> DEFINE t == IF kept THEN set.target[w] ELSE e.next_PC
  <2>1. t \in Nat
    <3>1. set.target[w] \in Nat BY <1>3, <1>4 DEF BtbSet
    <3> QED BY <3>1
  <2>2. Updated(e) = [set EXCEPT !.addr[w] = e.PC, !.target[w] = t] BY <1>5
  <2>3. set \in BtbSet /\ w \in Ways /\ e.PC \in Nat BY <1>0, <1>3, <1>4
  <2> DEFINE mid == [set EXCEPT !.addr[w] = e.PC]
  <2>4. Updated(e) = [mid EXCEPT !.target[w] = t] BY <2>2
  <2> HIDE DEF t, w
  <2>5. /\ mid \in BtbSet /\ mid.prev = set.prev /\ mid.next = set.next
        /\ mid.addr = [set.addr EXCEPT ![w] = e.PC] /\ mid.target = set.target
    BY <2>3 DEF BtbSet
  <2> HIDE DEF mid
  <2>6. /\ Updated(e) \in BtbSet /\ Updated(e).prev = set.prev
        /\ Updated(e).next = set.next /\ Updated(e).addr = [set.addr EXCEPT ![w] = e.PC]
        /\ Updated(e).target = [set.target EXCEPT ![w] = t]
    BY <2>1, <2>3, <2>4, <2>5 DEF BtbSet
  <2> QED BY <2>6 DEF t
<1>7. ASSUME NEW v \in Ways
      PROVE  /\ Updated(e).addr[v] = IF v = w THEN e.PC ELSE btb[s].addr[v]
             /\ Updated(e).target[v] =
                   IF v = w /\ ~(btb[s].addr[v] = e.PC /\ e.pred_PC = e.next_PC)
                   THEN e.next_PC ELSE btb[s].target[v]
  <2>1. set.addr \in [Ways -> Nat] /\ set.target \in [Ways -> Nat] BY <1>4 DEF BtbSet
  <2> QED BY <1>3, <1>4, <1>6, <2>1
<1> QED BY <1>1, <1>4, <1>6, <1>7 DEF Linked

LEMMA UpdatedComes ==
  ASSUME config \in Configs, BtbInv, NEW e, e.PC \in Branches, e.next_PC \in Destinations,
         Kind(e.PC) \in Direct => e.next_PC = Program[e.PC].target
  PROVE  /\ SetOf(e.PC) \in Sets
         /\ Updated(e) \in BtbSet
         /\ Holds(Updated(e))
         /\ \E q, m : \E p, n :
               /\ Ordered(btb[SetOf(e.PC)], q, m)
               /\ Ordered(Updated(e), Fronted(q, p), n)
               /\ Comes(e.PC, btb[SetOf(e.PC)], Updated(e), q, m, p, n)
<1> DEFINE s == SetOf(e.PC)
           set == btb[s]
           new == Updated(e)
<1>0. /\ config.assoc \in Nat \ {0} /\ e.PC \in Nat \ {0, 1} /\ config.sets \in Nat \ {0}
      /\ e.next_PC \in Nat
  BY ConfigFacts
<1>1. s \in Sets BY <1>0 DEF SetOf, Sets
<1>2. SetsTyped /\ Holds(set) BY <1>1 DEF BtbInv
<1>3. PICK q, m : Ordered(set, q, m) BY <1>1 DEF BtbInv
<1>4. PICK p \in 1..config.assoc :
         /\ WayFor(e.PC) = q[p]
         /\ IF \E k \in 1..m : set.addr[q[k]] = e.PC
            THEN p <= m /\ set.addr[q[p]] = e.PC ELSE p = config.assoc
  BY <1>2, <1>3, WayForPlace
<1>5. /\ new \in BtbSet
      /\ Linked(new, Fronted(q, p))
      /\ \A w \in Ways :
            /\ new.addr[w] = IF w = q[p] THEN e.PC ELSE set.addr[w]
            /\ new.target[w] = IF w = q[p] /\ ~(set.addr[w] = e.PC /\ e.pred_PC = e.next_PC)
                               THEN e.next_PC ELSE set.target[w]
  BY <1>0, <1>2, <1>3, <1>4, UpdatedOrder
<1> HIDE DEF s, set, new
<1>6. q[p] \in Ways BY <1>3, <1>4 DEF Ordered
<1>7. Holds(new) /\ new.target[q[p]] \in Destinations
  BY <1>0, <1>2, <1>5, <1>6 DEF Holds
<1>8. PICK n : IF \E k \in 1..m : set.addr[q[k]] = e.PC THEN n = m
               ELSE n = IF m < config.assoc THEN m + 1 ELSE m
  OBVIOUS
<1>9. m \in 0..config.assoc /\ n \in 1..config.assoc BY <1>0, <1>3, <1>8 DEF Ordered
<1>10. Comes(e.PC, set, new, q, m, p, n)
  BY <1>4, <1>5, <1>6, <1>7, <1>8 DEF Comes
<1>11. Ordered(new, Fronted(q, p), n)
  <2> DEFINE At(k) == IF k = 1 THEN p ELSE IF k <= p THEN k - 1 ELSE k
  <2>1. \A k \in 1..config.assoc : At(k) \in 1..config.assoc /\ Fronted(q, p)[k] = q[At(k)]
    BY <1>0 DEF Fronted
  <2>2. \A j, k \in 1..config.assoc : At(j) = At(k) => j = k BY <1>0
  <2>3. \A k \in 1..config.assoc : new.addr[q[k]] = IF k = p THEN e.PC ELSE set.addr[q[k]]
    BY <1>3, <1>4, <1>5 DEF Ordered
  <2>4. \A k \in 1..config.assoc : k # p => (set.addr[q[k]] # 0 <=> k <= m)
    BY <1>3 DEF Ordered
  <2>5. ASSUME NEW k \in 1..config.assoc PROVE new.addr[Fronted(q, p)[k]] # 0 <=> k <= n
    <3>1. CASE k = 1 BY <1>0, <1>9, <2>1, <2>3, <3>1
    <3>2. CASE k # 1
      <4>1. At(k) # p /\ At(k) \in 1..config.assoc BY <1>0, <3>2
      <4>2. new.addr[Fronted(q, p)[k]] # 0 <=> At(k) <= m BY <2>1, <2>3, <2>4, <4>1
      <4>3. At(k) <= m <=> k <= n BY <1>0, <1>4, <1>8, <1>9, <3>2
      <4> QED BY <4>2, <4>3
    <3> QED BY <3>1, <3>2
  <2>6. ASSUME NEW j \in 1..n, NEW k \in 1..n,
               new.addr[Fronted(q, p)[j]] = new.addr[Fronted(q, p)[k]]
        PROVE  j = k
    <3>1. j \in 1..config.assoc /\ k \in 1..config.assoc BY <1>0, <1>9
    <3>2. \A i \in 1..n : At(i) = p \/ At(i) \in 1..m BY <1>0, <1>4, <1>8, <1>9
    <3>3. \A i \in 1..m : i # p => set.addr[q[i]] # e.PC
      <4>1. CASE \E i \in 1..m : set.addr[q[i]] = e.PC
        BY <1>0, <1>3, <1>4, <1>9, <4>1 DEF Ordered
      <4> QED BY <4>1
    <3>4. new.addr[q[At(j)]] = new.addr[q[At(k)]] BY <1>6, <2>1, <2>6, <3>1
    <3>5. At(j) = At(k)
      <4>1. CASE At(j) = p \/ At(k) = p
        BY <2>1, <2>3, <3>1, <3>2, <3>3, <3>4, <4>1
      <4>2. CASE At(j) # p /\ At(k) # p
        <5>1. set.addr[q[At(j)]] = set.addr[q[At(k)]] BY <2>1, <2>3, <3>1, <3>4, <4>2
        <5> HIDE DEF At
        <5> QED BY <1>3, <3>1, <3>2, <4>2, <5>1 DEF Ordered
      <4> QED BY <4>1, <4>2
    <3> QED BY <2>2, <3>1, <3>5
  <2>7. /\ Fronted(q, p) \in [1..config.assoc -> Ways]
        /\ \A w \in Ways : \E k \in 1..config.assoc : Fronted(q, p)[k] = w
        /\ \A j, k \in 1..config.assoc : Fronted(q, p)[j] = Fronted(q, p)[k] => j = k
    <3>1. Ordered(set, q, m) /\ p \in 1..config.assoc /\ config \in Configs BY <1>3, <1>4
    <3> QED BY ONLY <3>1, FrontedOrder
  <2>8. n \in 0..config.assoc BY <1>0, <1>9
  <2> QED BY <1>5, <2>5, <2>6, <2>7, <2>8 DEF Ordered, Linked
<1> QED BY <1>1, <1>3, <1>5, <1>7, <1>10, <1>11 DEF s, set, new

-----------------------------------------------------------------------------
(* The branches in flight, and the types *)

\* What a lookup leaves for the update.
Updates == [pdir1 : Cells \cup {None}, pdir2 : Cells \cup {None}, pmeta : Metas \cup {None},
            bimod : BOOLEAN, twolev : BOOLEAN]
\* A branch from its fetch to its commit.
Entries ==
    {e \in [PC : Branches, next_PC : Nat \ {0, 1}, pred_PC : Nat, stack_recover_idx : 0..Size - 1,
            dir_update : Updates, recover_inst : BOOLEAN] :
        /\ Kind(e.PC) # "return" => e.next_PC \in {e.PC + 1} \cup Destinations
        /\ Kind(e.PC) \in Direct => /\ e.next_PC \in {e.PC + 1, Program[e.PC].target}
                                    /\ e.pred_PC \in {e.PC + 1, 1, Program[e.PC].target}
        /\ e.dir_update.bimod # e.dir_update.twolev => e.dir_update.pmeta \in Metas}

CountersTyped ==
    /\ table \in [Cells -> 0..MaxState]
    /\ shiftregs \in [0..config.l1 - 1 -> 0..2^config.width - 1]
    /\ run \in [Cells -> [up : BOOLEAN, n : 0..Half]]
QueuesTyped ==
    /\ stack \in [0..Size - 1 -> Nat] /\ tos \in 0..Size - 1
    /\ ifq \in Seq(Entries) /\ ruu \in Seq(Entries)
    /\ Len(ifq) <= config.ifq /\ Len(ruu) <= config.ruu
    /\ spec_mode \in BOOLEAN /\ path \in {"right", "wrong", "bogus"}
    /\ calls \in Seq(Nat \ {0, 1}) /\ lost \in Nat /\ overwritten \subseteq 0..Size - 1
    /\ undonePops \in Nat /\ undonePushes \in Nat
PredInv == config \in Configs /\ CountersTyped /\ QueuesTyped /\ BtbInv

\* The options do not change, and what depends on them alone does not either.
LEMMA OptionsStay ==
  ASSUME config' = config
  PROVE  /\ Size' = Size /\ MaxState' = MaxState /\ Half' = Half /\ Threshold' = Threshold
         /\ Cells' = Cells /\ Metas' = Metas /\ Sets' = Sets /\ Ways' = Ways
         /\ Branches' = Branches /\ Destinations' = Destinations /\ BtbSet' = BtbSet
         /\ Entries' = Entries
<1>1. Size' = Size /\ MaxState' = MaxState /\ Threshold' = Threshold
  BY DEF Size, MaxState, Threshold
<1>2. Half' = Half BY <1>1 DEF Half
<1>3. Metas' = Metas /\ Bimods' = Bimods /\ TwoLevs' = TwoLevs BY DEF Metas, Bimods, TwoLevs
<1>4. Cells' = Cells BY <1>3 DEF Cells
<1>5. Sets' = Sets /\ Ways' = Ways BY DEF Sets, Ways
<1>6. Branches' = Branches /\ Program' = Program BY DEF Branches, Program
<1>7. Destinations' = Destinations BY <1>6 DEF Destinations
<1>8. BtbSet' = BtbSet BY <1>5 DEF BtbSet
<1>9. Updates' = Updates BY <1>3, <1>4 DEF Updates
<1>10. Entries' = Entries BY <1>1, <1>3, <1>6, <1>7, <1>9 DEF Entries, Kind
<1> QED BY <1>1, <1>2, <1>3, <1>4, <1>5, <1>6, <1>7, <1>8, <1>10

\* The counters a lookup names are there.
LEMMA NamedCells ==
  ASSUME config \in Configs, CountersTyped, NEW b \in Branches
  PROVE  /\ Bimod(b) \in Bimods /\ TwoLev(b) \in TwoLevs /\ Meta(b) \in Metas
         /\ config.class \in {"2bit", "3bit"} => Cells = Bimods
         /\ config.class = "2lev" => Cells = TwoLevs
         /\ config.class = "comb" => Cells = Bimods \cup TwoLevs \cup Metas
<1>0. /\ b \in Nat /\ config.bimod \in Nat \ {0} /\ config.l1 \in Nat \ {0}
      /\ config.l2 \in Nat \ {0} /\ config.meta \in Nat \ {0} /\ 2^config.width \in Nat \ {0}
  BY ConfigFacts
<1>1. Bimod(b) \in Bimods BY <1>0 DEF Bimod, Bimods
<1>2. Meta(b) \in Metas BY <1>0 DEF Meta, Metas
<1>3. TwoLev(b) \in TwoLevs
  <2>1. b % config.l1 \in 0..config.l1 - 1 BY <1>0
  <2>2. shiftregs[b % config.l1] \in 0..2^config.width - 1 BY <2>1 DEF CountersTyped
  <2> DEFINE p == 2^config.width
  <2>3. p \in Nat BY <1>0
  <2> HIDE DEF p
  <2>4. b * p \in Nat BY <1>0, <2>3
  <2> DEFINE i == shiftregs[b % config.l1] + b * 2^config.width
  <2>5. i \in Nat BY <1>0, <2>2, <2>4 DEF p
  <2> HIDE DEF i
  <2>6. i % config.l2 \in 0..config.l2 - 1 BY <1>0, <2>5
  <2> QED BY <2>6 DEF i, TwoLev, TwoLevs
<1>4. /\ config.class \in {"2bit", "3bit"} => Cells = Bimods
      /\ config.class = "2lev" => Cells = TwoLevs
      /\ config.class = "comb" => Cells = Bimods \cup TwoLevs \cup Metas
  BY DEF Cells
<1> QED BY <1>1, <1>2, <1>3, <1>4

LEMMA LookupNames ==
  ASSUME config \in Configs, CountersTyped, NEW b \in Branches
  PROVE  /\ DirUpdate(b) \in Updates
         /\ DirUpdate(b).bimod # DirUpdate(b).twolev => DirUpdate(b).pmeta \in Metas
<1>1. config.class \in Classes BY ConfigFacts
<1>2. \A x : High(x) \in BOOLEAN BY DEF High
<1>3. CASE Kind(b) # "cond" BY <1>3 DEF DirUpdate, NoUpdate, Updates
<1>4. CASE Kind(b) = "cond" /\ config.class \in {"2bit", "3bit"}
  <2>1. DirUpdate(b) = [NoUpdate EXCEPT !.pdir1 = Bimod(b)] BY <1>4 DEF DirUpdate
  <2>2. Bimod(b) \in Cells BY <1>4, NamedCells
  <2> QED BY <2>1, <2>2 DEF NoUpdate, Updates
<1>5. CASE Kind(b) = "cond" /\ config.class = "2lev"
  <2>1. DirUpdate(b) = [NoUpdate EXCEPT !.pdir1 = TwoLev(b)] BY <1>5 DEF DirUpdate
  <2>2. TwoLev(b) \in Cells BY <1>5, NamedCells
  <2> QED BY <2>1, <2>2 DEF NoUpdate, Updates
<1>6. CASE Kind(b) = "cond" /\ config.class = "comb"
  <2>1. DirUpdate(b) =
            [pdir1 |-> IF High(Meta(b)) THEN TwoLev(b) ELSE Bimod(b),
             pdir2 |-> IF High(Meta(b)) THEN Bimod(b) ELSE TwoLev(b),
             pmeta |-> Meta(b), bimod |-> High(Bimod(b)), twolev |-> High(TwoLev(b))]
    BY <1>6 DEF DirUpdate
  <2>2. Bimod(b) \in Cells /\ TwoLev(b) \in Cells /\ Meta(b) \in Metas BY <1>6, NamedCells
  <2> QED BY <1>2, <2>1, <2>2 DEF Updates
<1> QED BY <1>1, <1>3, <1>4, <1>5, <1>6 DEF Classes

\* A lookup finds a destination of the branch, or none.
LEMMA LookupFinds ==
  ASSUME PredInv, NEW b \in Branches
  PROVE  /\ PredPC(b) \in Nat
         /\ Kind(b) \in Direct => PredPC(b) \in {b + 1, 1, Program[b].target}
<1> DEFINE s == SetOf(b)
<1>0. /\ b \in Nat \ {0, 1} /\ config.sets \in Nat \ {0} /\ config.assoc \in Nat \ {0}
      /\ Destinations \subseteq Nat \ {0, 1}
  BY ConfigFacts DEF PredInv
<1>1. s \in Sets BY <1>0 DEF SetOf, Sets
<1>2. Destination(b) \in Nat /\ (Kind(b) \in Direct => Destination(b) \in {1, Program[b].target})
  <2>1. CASE Matches(b) = {} BY <2>1 DEF Destination
  <2>2. CASE Matches(b) # {}
    <3> DEFINE S == Matches(b)
    <3>0. \A w \in Ways : w \in Int /\ 0 <= w BY <1>0 DEF Ways
    <3>1. S \in SUBSET Int /\ \A w \in S : 0 <= w BY <3>0 DEF Matches
    <3>2. \E w \in S : \A v \in S : w <= v
      <4> HIDE DEF S
      <4> QED BY <2>2, <3>1, LeastExists DEF S
    <3>3. First(S) \in S BY <3>2 DEF First
    <3>4. First(S) \in Ways /\ btb[s].addr[First(S)] = b BY <3>3 DEF Matches
    <3>5. Holds(btb[s]) BY <1>1 DEF PredInv, BtbInv
    <3>6. /\ btb[s].target[First(S)] \in Destinations
          /\ Kind(b) \in Direct => btb[s].target[First(S)] = Program[b].target
      BY <1>0, <3>4, <3>5 DEF Holds
    <3>7. Destination(b) = btb[s].target[First(S)] BY <2>2 DEF Destination
    <3> QED BY <1>0, <3>6, <3>7
  <2> QED BY <2>1, <2>2
<1>3. Kind(b) \in Direct => Kind(b) # "return" BY DEF Direct
<1>4. stack[tos] \in Nat BY DEF PredInv, QueuesTyped
<1>5. Looked(b) \in Nat /\ (Kind(b) \in Direct => Looked(b) \in {0, 1, Program[b].target})
  BY <1>2, <1>3, <1>4 DEF Looked
<1> QED BY <1>0, <1>5 DEF PredPC

LEMMA OutcomesAre ==
  ASSUME PredInv, NEW b \in Branches, NEW npc \in Outcomes(b)
  PROVE  /\ npc \in Nat \ {0, 1}
         /\ Kind(b) # "return" => npc \in {b + 1} \cup Destinations
         /\ Kind(b) \in Direct => npc \in {b + 1, Program[b].target}
         /\ Kind(b) = "return" /\ path = "right" => calls # <<>> /\ npc = calls[Len(calls)]
<1>0. /\ b \in Nat \ {0, 1} /\ Program[b].target \in Nat \ {0, 1} /\ Program[b].target \in Destinations
      /\ config.targets \subseteq Destinations /\ Destinations \subseteq Nat \ {0, 1}
      /\ Kind(b) \in Direct \cup {"ijump", "icall", "return"}
  BY ConfigFacts DEF PredInv, Destinations
<1>1. CASE Kind(b) = "cond" BY <1>0, <1>1 DEF Outcomes
<1>2. CASE Kind(b) \in {"jump", "call"} BY <1>0, <1>2 DEF Outcomes
<1>3. CASE Kind(b) = "return" /\ path = "right"
  <2>1. npc \in {calls[k] : k \in {Len(calls)} \ {0}} BY <1>3 DEF Outcomes
  <2>2. Len(calls) # 0 /\ npc = calls[Len(calls)] BY <2>1
  <2>3. calls \in Seq(Nat \ {0, 1}) BY DEF PredInv, QueuesTyped
  <2>4. npc \in Nat \ {0, 1} BY <2>2, <2>3
  <2> QED BY <1>3, <2>2, <2>3, <2>4 DEF Direct
<1>4. CASE Kind(b) \in {"ijump", "icall"} \/ (Kind(b) = "return" /\ path # "right")
  <2>1. npc \in config.targets BY <1>4 DEF Outcomes
  <2> QED BY <1>0, <1>4, <2>1 DEF Direct
<1> QED BY <1>0, <1>1, <1>2, <1>3, <1>4 DEF Direct

\* The branch as it is put into the queue.
Entered(b, npc) == [PC |-> b, next_PC |-> npc, pred_PC |-> PredPC(b),
                    stack_recover_idx |-> RecoverIdx(b), dir_update |-> DirUpdate(b),
                    recover_inst |-> FALSE]

LEMMA EnteredTyped ==
  ASSUME PredInv, NEW b \in Branches, NEW npc \in Outcomes(b)
  PROVE  Entered(b, npc) \in Entries
<1> DEFINE e == Entered(b, npc)
<1>1. /\ e.PC = b /\ e.next_PC = npc /\ e.pred_PC = PredPC(b) /\ e.stack_recover_idx = tos
      /\ e.dir_update = DirUpdate(b) /\ e.recover_inst = FALSE
      /\ e \in [PC : {b}, next_PC : {npc}, pred_PC : {PredPC(b)}, stack_recover_idx : {tos},
                dir_update : {DirUpdate(b)}, recover_inst : {FALSE}]
  BY DEF Entered, RecoverIdx
<1>2. tos \in 0..Size - 1 BY DEF PredInv, QueuesTyped
<1>3. /\ DirUpdate(b) \in Updates
      /\ DirUpdate(b).bimod # DirUpdate(b).twolev => DirUpdate(b).pmeta \in Metas
  BY LookupNames DEF PredInv
<1>4. /\ PredPC(b) \in Nat
      /\ Kind(b) \in Direct => PredPC(b) \in {b + 1, 1, Program[b].target}
  BY LookupFinds
<1>5. /\ npc \in Nat \ {0, 1}
      /\ Kind(b) # "return" => npc \in {b + 1} \cup Destinations
      /\ Kind(b) \in Direct => npc \in {b + 1, Program[b].target}
  BY OutcomesAre
<1> HIDE DEF e
<1>6. e \in [PC : Branches, next_PC : Nat \ {0, 1}, pred_PC : Nat, stack_recover_idx : 0..Size - 1,
            dir_update : Updates, recover_inst : BOOLEAN]
  BY <1>1, <1>2, <1>3, <1>4, <1>5
<1>7. e \in Entries BY <1>1, <1>3, <1>4, <1>5, <1>6 DEF Entries
<1> QED BY <1>7 DEF e

\* Setting or clearing the mark of a branch leaves the rest.
LEMMA MarkedTyped ==
  ASSUME NEW e \in Entries, NEW mark \in BOOLEAN
  PROVE  [e EXCEPT !.recover_inst = mark] \in Entries
  BY DEF Entries

\* The top of the stack goes round.
LEMMA StackMoves ==
  ASSUME config \in Configs, QueuesTyped
  PROVE  /\ Pushed = (IF tos = Size - 1 THEN 0 ELSE tos + 1) /\ Pushed \in 0..Size - 1
         /\ Popped = (IF tos = 0 THEN Size - 1 ELSE tos - 1) /\ Popped \in 0..Size - 1
<1>0. Size \in Nat \ {0} /\ tos \in 0..Size - 1 BY ConfigFacts DEF QueuesTyped
<1> DEFINE n == Size
<1>1. n \in Nat \ {0} /\ tos \in 0..n - 1 BY <1>0
<1> HIDE DEF n
<1>2. (tos + 1) % n = IF tos = n - 1 THEN 0 ELSE tos + 1 BY <1>1
<1>3. (tos + n - 1) % n = IF tos = 0 THEN n - 1 ELSE tos - 1 BY <1>1
<1>4. Pushed = (tos + 1) % n /\ Popped = (tos + n - 1) % n BY DEF Pushed, Popped, n
<1> QED BY <1>1, <1>2, <1>3, <1>4 DEF n

LEMMA HistoryTyped ==
  ASSUME PredInv, NEW b \in Branches, OnRightPath(b) \/ OnWrongPath(b),
         path = "right" /\ Kind(b) = "return" => calls # <<>>, OnRightPath(b) => path = "right"
  PROVE  calls' \in Seq(Nat \ {0, 1}) /\ lost' \in Nat /\ overwritten' \subseteq 0..Size - 1
<1>0. /\ calls \in Seq(Nat \ {0, 1}) /\ lost \in Nat /\ overwritten \subseteq 0..Size - 1
      /\ Size \in Nat \ {0} /\ b + 1 \in Nat \ {0, 1} /\ SlotFor(b) \in 0..Size - 1
  <2>1. config \in Configs /\ QueuesTyped BY DEF PredInv
  <2>2. Pushed \in 0..Size - 1 BY ONLY <2>1, StackMoves
  <2>3. Size \in Nat \ {0} /\ b \in Nat \ {0, 1} BY <2>1, ConfigFacts
  <2> QED BY <2>1, <2>2, <2>3 DEF QueuesTyped, SlotFor
<1>1. CASE OnWrongPath(b)
  BY <1>0, <1>1 DEF OnWrongPath
<1>2. CASE OnRightPath(b)
  <2>1. overwritten' \subseteq 0..Size - 1 BY <1>0, <1>2 DEF OnRightPath
  <2>2. calls' \in Seq(Nat \ {0, 1})
    <3>1. CASE Kind(b) \in Calls
      <4>1. calls' = Append(calls, b + 1) BY <1>2, <3>1 DEF OnRightPath, Calls
      <4> QED BY ONLY <1>0, <4>1
    <3>2. CASE Kind(b) = "return"
      <4>1. calls' = Front(calls) BY <1>2, <3>2 DEF OnRightPath, Calls
      <4>2. Front(calls) = SubSeq(calls, 1, Len(calls) - 1) BY DEF Front
      <4>3. Len(calls) # 0 BY <1>0, <1>2, <3>2
      <4> QED BY <1>0, <4>1, <4>2, <4>3
    <3>3. CASE Kind(b) \notin Calls /\ Kind(b) # "return"
      <4>1. calls' = calls BY <1>2, <3>3 DEF OnRightPath
      <4> QED BY <1>0, <4>1
    <3> QED BY <3>1, <3>2, <3>3
  <2>3. lost' = (IF Len(calls') - Size > lost THEN Len(calls') - Size
                 ELSE IF Len(calls') < lost THEN Len(calls') ELSE lost)
    BY <1>2 DEF OnRightPath
  <2>4. Len(calls') \in Nat BY <2>2
  <2>5. lost' \in Nat BY <1>0, <2>3, <2>4
  <2> QED BY <2>1, <2>2, <2>5
<1> QED BY <1>1, <1>2

LEMMA FetchTyped ==
  ASSUME PredInv, NEW b \in Branches, NEW npc \in Outcomes(b), Fetch(b, npc)
  PROVE  QueuesTyped'
<1>0. config' = config /\ Size \in Nat \ {0} /\ config.ifq \in Nat
  <2>1. config' = config /\ config \in Configs BY DEF Fetch, PredInv
  <2>2. config.ifq \in Nat BY <2>1, ConfigsAssumption
  <2> QED BY <2>1, <2>2, ConfigFacts
<1>1. ifq' = Append(ifq, Entered(b, npc)) /\ Len(ifq) < config.ifq BY DEF Fetch, Entered
<1>2. Entered(b, npc) \in Entries BY EnteredTyped
<1>3. ifq \in Seq(Entries) BY DEF PredInv, QueuesTyped
<1>4. ifq' \in Seq(Entries) /\ Len(ifq') <= config.ifq BY <1>0, <1>1, <1>2, <1>3
<1>5. stack' \in [0..Size - 1 -> Nat] /\ tos' \in 0..Size - 1
  <2>1. /\ Pushed \in 0..Size - 1 /\ Popped \in 0..Size - 1 /\ b + 1 \in Nat
        /\ tos \in 0..Size - 1 /\ stack \in [0..Size - 1 -> Nat]
    <3>1. config \in Configs /\ QueuesTyped BY DEF PredInv
    <3>2. Pushed \in 0..Size - 1 /\ Popped \in 0..Size - 1 BY ONLY <3>1, StackMoves
    <3>3. b \in Nat BY <3>1, ConfigFacts
    <3> QED BY <3>1, <3>2, <3>3 DEF QueuesTyped
  <2>2. tos' \in 0..Size - 1 BY <2>1 DEF Fetch, TosAfter
  <2>3. stack' \in [0..Size - 1 -> Nat] BY <2>1 DEF Fetch, StackAfter, SlotFor
  <2> QED BY <2>2, <2>3
<1>6. path' \in {"right", "wrong", "bogus"} BY DEF Fetch, PathAfter
<1>7. calls' \in Seq(Nat \ {0, 1}) /\ lost' \in Nat /\ overwritten' \subseteq 0..Size - 1
  <2>1. IF path = "right" THEN OnRightPath(b) ELSE OnWrongPath(b) BY DEF Fetch
  <2>2. path = "right" /\ Kind(b) = "return" => calls # <<>> BY OutcomesAre
  <2>3. CASE path = "right" BY <2>1, <2>2, <2>3, HistoryTyped
  <2>4. CASE path # "right"
    <3>1. OnWrongPath(b) BY <2>1, <2>4
    <3>2. /\ calls \in Seq(Nat \ {0, 1}) /\ lost \in Nat /\ overwritten \subseteq 0..Size - 1
          /\ SlotFor(b) \in 0..Size - 1
      BY StackMoves DEF PredInv, QueuesTyped, SlotFor
    <3> QED BY <3>1, <3>2 DEF OnWrongPath
  <2> QED BY <2>3, <2>4
<1>8. UNCHANGED <<ruu, spec_mode, undonePops, undonePushes>> BY DEF Fetch
<1>9. Entries' = Entries /\ Size' = Size BY <1>0, OptionsStay
<1>10. /\ ruu \in Seq(Entries) /\ Len(ruu) <= config.ruu /\ spec_mode \in BOOLEAN
       /\ undonePops \in Nat /\ undonePushes \in Nat
  BY DEF PredInv, QueuesTyped
<1> QED BY <1>0, <1>4, <1>5, <1>6, <1>7, <1>8, <1>9, <1>10 DEF QueuesTyped

\* The queues after the steps that move branches in them.
LEMMA MovesTyped ==
  ASSUME PredInv, config' = config, ifq' \in Seq(Entries), ruu' \in Seq(Entries),
         Len(ifq') <= config.ifq, Len(ruu') <= config.ruu, spec_mode' \in BOOLEAN,
         path' \in {"right", "wrong", "bogus"}, tos' \in 0..Size - 1,
         UNCHANGED <<stack, calls, lost, overwritten>>, undonePops' \in Nat, undonePushes' \in Nat
  PROVE  QueuesTyped'
<1>1. Entries' = Entries /\ Size' = Size BY OptionsStay
<1> QED BY <1>1 DEF PredInv, QueuesTyped

LEMMA DispatchTyped ==
  ASSUME PredInv, Misfetch \/ Dispatch
  PROVE  QueuesTyped'
<1>1. /\ config' = config /\ ifq # <<>> /\ Len(ruu) < config.ruu
      /\ UNCHANGED <<tos, stack, calls, lost, overwritten, undonePops, undonePushes>>
  BY DEF Misfetch, Dispatch, Dispatching, retstack, history
<1>2. /\ ifq \in Seq(Entries) /\ ruu \in Seq(Entries) /\ Len(ifq) <= config.ifq
      /\ config.ruu \in Nat /\ config.ifq \in Nat /\ spec_mode \in BOOLEAN
      /\ path \in {"right", "wrong", "bogus"} /\ tos \in 0..Size - 1
      /\ undonePops \in Nat /\ undonePushes \in Nat
  BY ConfigsAssumption DEF PredInv, QueuesTyped
<1>3. Oldest \in Entries BY <1>1, <1>2 DEF Oldest
<1>4. /\ spec_mode' \in BOOLEAN /\ path' \in {"right", "wrong", "bogus"}
      /\ ifq' \in Seq(Entries) /\ Len(ifq') <= config.ifq
      /\ ruu' \in Seq(Entries) /\ Len(ruu') <= config.ruu
  <2>1. CASE Misfetch
    <3>1. /\ ruu' = Append(ruu, Oldest) /\ ifq' = <<>> /\ spec_mode' = spec_mode
          /\ path' \in {"wrong", "right"}
      BY <2>1 DEF Misfetch
    <3> QED BY <1>1, <1>2, <1>3, <3>1
  <2>2. CASE Dispatch
    <3> DEFINE mark == ~spec_mode /\ Oldest.pred_PC # Oldest.next_PC
               e == [Oldest EXCEPT !.recover_inst = mark]
    <3>1. /\ ruu' = Append(ruu, e) /\ ifq' = Tail(ifq) /\ spec_mode' = (spec_mode \/ mark)
          /\ path' = path
      BY <2>2 DEF Dispatch
    <3>2. mark \in BOOLEAN OBVIOUS
    <3> HIDE DEF mark
    <3>3. e \in Entries BY <1>3, <3>2, MarkedTyped
    <3> HIDE DEF e
    <3>4. ruu' \in Seq(Entries) /\ Len(ruu') <= config.ruu BY <1>1, <1>2, <3>1, <3>3
    <3>5. ifq' \in Seq(Entries) /\ Len(ifq') <= config.ifq BY <1>1, <1>2, <3>1
    <3> QED BY <1>2, <3>1, <3>2, <3>4, <3>5
  <2> QED BY <2>1, <2>2
<1> QED BY <1>1, <1>2, <1>4, MovesTyped

LEMMA RecoverTyped ==
  ASSUME PredInv, Recover
  PROVE  QueuesTyped'
<1>1. PICK k \in 1..Len(ruu) :
         /\ ruu[k].recover_inst
         /\ ruu' = [SubSeq(ruu, 1, k) EXCEPT ![k].recover_inst = FALSE]
         /\ ifq' = <<>> /\ spec_mode' = FALSE /\ path' = "right"
         /\ tos' = ruu[k].stack_recover_idx
         /\ undonePops' = undonePops + (IF Kind(ruu[k].PC) = "return" THEN 1 ELSE 0)
         /\ undonePushes' = undonePushes + (IF Kind(ruu[k].PC) \in Calls THEN 1 ELSE 0)
         /\ UNCHANGED <<config, stack, calls, lost, overwritten>>
  BY DEF Recover
<1>2. /\ ruu \in Seq(Entries) /\ Len(ruu) <= config.ruu
      /\ config.ruu \in Nat /\ config.ifq \in Nat
      /\ undonePops \in Nat /\ undonePushes \in Nat
  BY ConfigsAssumption DEF PredInv, QueuesTyped
<1>3. ruu[k] \in Entries BY <1>2
<1>4. [ruu[k] EXCEPT !.recover_inst = FALSE] \in Entries BY <1>3, MarkedTyped
<1>5. ruu' = [[i \in 1..k |-> ruu[i]] EXCEPT ![k] = [ruu[k] EXCEPT !.recover_inst = FALSE]]
  <2>1. SubSeq(ruu, 1, k) = [i \in 1..k |-> ruu[i]] BY <1>2
  <2> QED BY <1>1, <2>1
<1>6. ruu' \in Seq(Entries) /\ Len(ruu') = k
  <2> DEFINE e == [ruu[k] EXCEPT !.recover_inst = FALSE]
  <2>1. e \in Entries BY <1>4
  <2>2. ruu' = [[i \in 1..k |-> ruu[i]] EXCEPT ![k] = e] BY <1>5
  <2> HIDE DEF e
  <2>3. ruu' = [i \in 1..k |-> IF i = k THEN e ELSE ruu[i]] BY <2>2
  <2>4. \A i \in 1..k : (IF i = k THEN e ELSE ruu[i]) \in Entries BY <1>2, <2>1
  <2> QED BY <2>3, <2>4
<1>7. tos' \in 0..Size - 1 BY <1>1, <1>3 DEF Entries
<1>8. Len(ruu') <= config.ruu BY <1>2, <1>6
<1>9. ifq' \in Seq(Entries) /\ Len(ifq') <= config.ifq BY <1>1, <1>2
<1>10. undonePops' \in Nat /\ undonePushes' \in Nat BY <1>1, <1>2
<1> QED BY <1>1, <1>6, <1>7, <1>8, <1>9, <1>10, MovesTyped

LEMMA RetireTyped ==
  ASSUME PredInv, Commit \/ CommitReturn
  PROVE  QueuesTyped' /\ ruu # <<>> /\ Head(ruu) \in Entries
<1>1. /\ ruu # <<>> /\ ruu' = Tail(ruu)
      /\ UNCHANGED <<config, retstack, ifq, spec_mode, path, history>>
  BY DEF Commit, CommitReturn, Retiring
<1>2. /\ ruu \in Seq(Entries) /\ Len(ruu) <= config.ruu /\ config.ruu \in Nat
      /\ ifq \in Seq(Entries) /\ Len(ifq) <= config.ifq /\ spec_mode \in BOOLEAN
      /\ path \in {"right", "wrong", "bogus"} /\ tos \in 0..Size - 1
      /\ undonePops \in Nat /\ undonePushes \in Nat
  BY ConfigsAssumption DEF PredInv, QueuesTyped
<1>3. ruu' \in Seq(Entries) /\ Len(ruu') <= config.ruu BY <1>1, <1>2
<1>4. QueuesTyped' BY <1>1, <1>2, <1>3, MovesTyped DEF retstack, history
<1> QED BY <1>1, <1>2, <1>4

LEMMA CommitCounters ==
  ASSUME PredInv, Commit
  PROVE  CountersTyped'
<1> DEFINE e == Head(ruu)
           u == e.dir_update
           taken == e.next_PC # e.PC + 1
<1>1. /\ config' = config
      /\ table' = TableAfter(u, taken) /\ shiftregs' = ShiftRegsAfter(e.PC, taken)
      /\ run' = RunAfter(u, taken)
  BY DEF Commit
<1>2. /\ Cells' = Cells /\ MaxState' = MaxState /\ Half' = Half BY <1>1, OptionsStay
<1>3. MaxState \in {3, 7} /\ Half \in {2, 4} BY DEF MaxState, Half
<1> HIDE DEF u
<1>4. table' \in [Cells -> 0..MaxState]
  <2>1. \A c \in Cells : table[c] \in 0..MaxState BY DEF PredInv, CountersTyped
  <2>2. \A v \in 0..MaxState, up \in BOOLEAN : Moved(v, up) \in 0..MaxState BY <1>3 DEF Moved
  <2>3. taken \in BOOLEAN /\ (u.twolev = taken) \in BOOLEAN OBVIOUS
  <2> QED BY <1>1, <2>1, <2>2, <2>3 DEF TableAfter
<1>5. run' \in [Cells -> [up : BOOLEAN, n : 0..Half]]
  <2>1. \A c \in Cells : run[c] \in [up : BOOLEAN, n : 0..Half] BY DEF PredInv, CountersTyped
  <2>2. ASSUME NEW c \in Cells
        PROVE  (IF c \notin {u.pdir1, u.pdir2} THEN run[c]
                ELSE IF run[c].up # taken THEN [up |-> taken, n |-> 1]
                ELSE [up |-> taken, n |-> IF run[c].n < Half THEN run[c].n + 1 ELSE Half])
               \in [up : BOOLEAN, n : 0..Half]
    BY <1>3, <2>1
  <2> QED BY <1>1, <2>2 DEF RunAfter
<1>6. shiftregs' \in [0..config.l1 - 1 -> 0..2^config.width - 1]
  <2> DEFINE p == 2^config.width
  <2>0. p \in Nat \ {0} /\ shiftregs \in [0..config.l1 - 1 -> 0..p - 1]
        /\ config.l1 \in Nat \ {0} /\ e.PC \in Nat
    <3>1. e \in Entries BY RetireTyped
    <3> QED BY <3>1, ConfigFacts DEF PredInv, CountersTyped, Entries
  <2> HIDE DEF p
  <2>1. e.PC % config.l1 \in 0..config.l1 - 1 BY <2>0
  <2>2. ASSUME NEW v \in Nat PROVE v % p \in 0..p - 1
    <3>1. \A n \in Nat \ {0} : v % n \in 0..n - 1 OBVIOUS
    <3> QED BY ONLY <2>0, <3>1
  <2>3. (2 * shiftregs[e.PC % config.l1] + (IF taken THEN 1 ELSE 0)) % p \in 0..p - 1
    <3>1. shiftregs[e.PC % config.l1] \in 0..p - 1 BY <2>0, <2>1
    <3>2. 2 * shiftregs[e.PC % config.l1] + (IF taken THEN 1 ELSE 0) \in Nat BY <2>0, <3>1
    <3> QED BY <2>2, <3>2
  <2>4. shiftregs' \in [0..config.l1 - 1 -> 0..p - 1]
    BY <1>1, <2>0, <2>1, <2>3 DEF ShiftRegsAfter, p
  <2> QED BY <2>4 DEF p
<1> QED BY <1>1, <1>2, <1>4, <1>5, <1>6 DEF CountersTyped

-----------------------------------------------------------------------------
(* The invariant of the predictor *)

LEMMA BtbStays ==
  ASSUME BtbInv, config' = config, btb' = btb
  PROVE  BtbInv'
<1>1. Sets' = Sets /\ Ways' = Ways /\ Branches' = Branches /\ Destinations' = Destinations
      /\ BtbSet' = BtbSet
  BY OptionsStay
<1>2. Program' = Program BY DEF Program
<1>3. SetsTyped' BY <1>1 DEF BtbInv, SetsTyped
<1>4. ASSUME NEW s \in Sets PROVE Holds(btb[s])' /\ \E q, m : Ordered(btb[s], q, m)'
  <2>1. Holds(btb[s]) /\ \E q, m : Ordered(btb[s], q, m) BY DEF BtbInv
  <2>2. Holds(btb[s])' BY <1>1, <1>2, <2>1 DEF Holds, Kind
  <2>3. PICK q, m : Ordered(btb[s], q, m) BY <2>1
  <2>4. Ordered(btb[s], q, m)' BY <1>1, <2>3 DEF Ordered, Null
  <2> QED BY <2>2, <2>4
<1> QED BY <1>1, <1>3, <1>4 DEF BtbInv

\* What a commit does to the buffer: nothing, or the set of the branch is updated.
LEMMA CommitBtb ==
  ASSUME PredInv, Commit
  PROVE  LET e == Head(ruu)
         IN  /\ e.PC \in Branches /\ config' = config
             /\ IF e.next_PC = e.PC + 1 THEN btb' = btb
                ELSE /\ e.next_PC \in Destinations
                     /\ Kind(e.PC) \in Direct => e.next_PC = Program[e.PC].target
                     /\ btb' = [btb EXCEPT ![SetOf(e.PC)] = Updated(e)]
<1> DEFINE e == Head(ruu)
<1>1. e \in Entries BY RetireTyped
<1>2. Kind(e.PC) # "return" /\ config' = config /\ btb' = BtbAfter(e, e.next_PC # e.PC + 1)
  BY DEF Commit
<1> HIDE DEF e
<1>3. /\ e.PC \in Branches /\ e.next_PC \in {e.PC + 1} \cup Destinations
      /\ Kind(e.PC) \in Direct => e.next_PC \in {e.PC + 1, Program[e.PC].target}
  BY <1>1, <1>2 DEF Entries
<1>4. e.next_PC = e.PC + 1 => btb' = btb BY <1>2 DEF BtbAfter
<1>5. e.next_PC # e.PC + 1 => btb' = [btb EXCEPT ![SetOf(e.PC)] = Updated(e)]
  BY <1>2 DEF BtbAfter, Updated
<1> QED BY <1>2, <1>3, <1>4, <1>5 DEF e

LEMMA CommitKeepsBtb ==
  ASSUME PredInv, Commit
  PROVE  BtbInv'
<1> DEFINE e == Head(ruu)
<1>0. config \in Configs /\ BtbInv BY DEF PredInv
<1>1. /\ e.PC \in Branches /\ config' = config
      /\ IF e.next_PC = e.PC + 1 THEN btb' = btb
         ELSE /\ e.next_PC \in Destinations
              /\ Kind(e.PC) \in Direct => e.next_PC = Program[e.PC].target
              /\ btb' = [btb EXCEPT ![SetOf(e.PC)] = Updated(e)]
  BY CommitBtb
<1> HIDE DEF e
<1>2. CASE e.next_PC = e.PC + 1 BY <1>0, <1>1, <1>2, BtbStays
<1>3. CASE e.next_PC # e.PC + 1
  <2>1. /\ SetOf(e.PC) \in Sets /\ Updated(e) \in BtbSet /\ Holds(Updated(e))
        /\ \E q, m : Ordered(Updated(e), q, m)
    BY <1>0, <1>1, <1>3, UpdatedComes
  <2>2. /\ Sets' = Sets /\ Ways' = Ways /\ Branches' = Branches /\ Destinations' = Destinations
        /\ BtbSet' = BtbSet
    BY <1>1, OptionsStay
  <2>3. Program' = Program BY <1>1 DEF Program
  <2>4. btb' = [btb EXCEPT ![SetOf(e.PC)] = Updated(e)] /\ btb \in [Sets -> BtbSet]
    BY <1>0, <1>1, <1>3 DEF BtbInv, SetsTyped
  <2>5. SetsTyped' BY <2>1, <2>2, <2>4 DEF SetsTyped
  <2>6. ASSUME NEW s \in Sets PROVE Holds(btb[s])' /\ \E q, m : Ordered(btb[s], q, m)'
    <3>1. \E set : btb'[s] = set /\ Holds(set) /\ \E q, m : Ordered(set, q, m)
      BY <1>0, <2>1, <2>4 DEF BtbInv
    <3>2. PICK set : btb'[s] = set /\ Holds(set) /\ \E q, m : Ordered(set, q, m) BY <3>1
    <3>3. Holds(btb[s])' BY <2>2, <2>3, <3>2 DEF Holds, Kind
    <3>4. PICK q, m : Ordered(set, q, m) BY <3>2
    <3>5. Ordered(btb[s], q, m)' BY <1>1, <2>2, <3>2, <3>4 DEF Ordered, Null
    <3> QED BY <3>3, <3>5
  <2> QED BY <2>2, <2>5, <2>6 DEF BtbInv
<1> QED BY <1>2, <1>3

LEMMA PredInit == Init => PredInv
<1> SUFFICES ASSUME Init PROVE PredInv OBVIOUS
<1>1. config \in Configs BY DEF Init
<1>2. /\ Size \in Nat \ {0} /\ config.l1 \in Nat \ {0} /\ 2^config.width \in Nat \ {0}
      /\ config.bimod \in Nat \ {0} /\ config.l2 \in Nat \ {0} /\ config.meta \in Nat \ {0}
      /\ config.class \in Classes
  BY <1>1, ConfigFacts
<1>3. config.ifq \in Nat /\ config.ruu \in Nat BY <1>1, ConfigsAssumption
<1>4. CountersTyped
  <2>1. MaxState \in {3, 7} /\ Half \in {2, 4} BY DEF MaxState, Half
  <2>2. \A i \in Nat : FlipFlop(i) \in 0..MaxState BY <2>1 DEF FlipFlop
  <2>3. \A c \in Cells : c[2] \in Nat
    <3>1. \A c \in Bimods \cup TwoLevs \cup Metas : c[2] \in Nat
      BY <1>2 DEF Bimods, TwoLevs, Metas
    <3>2. Cells \subseteq Bimods \cup TwoLevs \cup Metas
      <4>1. config.class \in {"2bit", "3bit"} => Cells = Bimods BY DEF Cells
      <4>2. config.class = "2lev" => Cells = TwoLevs BY DEF Cells
      <4>3. config.class = "comb" => Cells = Bimods \cup TwoLevs \cup Metas BY DEF Cells
      <4> QED BY <1>2, <4>1, <4>2, <4>3 DEF Classes
    <3> QED BY <3>1, <3>2
  <2>4. table \in [Cells -> 0..MaxState] BY <2>2, <2>3 DEF Init
  <2>5. shiftregs \in [0..config.l1 - 1 -> 0..2^config.width - 1]
    <3> DEFINE p == 2^config.width
    <3>1. p \in Nat \ {0} BY <1>2
    <3> HIDE DEF p
    <3>2. 0 \in 0..p - 1 BY <3>1
    <3> QED BY <3>2 DEF Init, p
  <2>6. run \in [Cells -> [up : BOOLEAN, n : 0..Half]] BY <2>1 DEF Init
  <2> QED BY <2>4, <2>5, <2>6 DEF CountersTyped
<1>5. QueuesTyped
  <2>1. /\ stack = [k \in 0..Size - 1 |-> 0] /\ tos = Size - 1
        /\ ifq = <<>> /\ ruu = <<>> /\ spec_mode = FALSE /\ path = "right"
        /\ calls = <<>> /\ lost = 0 /\ overwritten = {}
        /\ undonePops = 0 /\ undonePushes = 0
    BY DEF Init
  <2>2. stack \in [0..Size - 1 -> Nat] /\ tos \in 0..Size - 1 BY <1>2, <2>1
  <2>3. /\ ifq \in Seq(Entries) /\ ruu \in Seq(Entries) /\ calls \in Seq(Nat \ {0, 1})
        /\ Len(ifq) = 0 /\ Len(ruu) = 0
    BY <2>1
  <2> QED BY <1>3, <2>1, <2>2, <2>3 DEF QueuesTyped
<1> QED BY <1>1, <1>4, <1>5, BtbInit DEF PredInv

LEMMA PredNext == PredInv /\ [Next]_vars => PredInv'
<1> SUFFICES ASSUME PredInv, [Next]_vars PROVE PredInv' OBVIOUS
<1>0. config \in Configs /\ CountersTyped /\ QueuesTyped /\ BtbInv BY DEF PredInv
<1>1. ASSUME config' = config, UNCHANGED <<table, shiftregs, run>> PROVE CountersTyped'
  <2>1. MaxState' = MaxState /\ Half' = Half /\ Cells' = Cells BY <1>1, OptionsStay
  <2> QED BY <1>0, <1>1, <2>1 DEF CountersTyped
<1>2. CASE UNCHANGED vars
  <2>1. /\ UNCHANGED <<config, table, shiftregs, btb, stack, tos, ifq, ruu, spec_mode, path>>
        /\ UNCHANGED <<calls, lost, overwritten, undonePops, undonePushes, run>>
    BY <1>2 DEF vars, predictor, retstack, history
  <2>2. QueuesTyped'
    <3>1. Entries' = Entries /\ Size' = Size BY <2>1, OptionsStay
    <3> QED BY <1>0, <2>1, <3>1 DEF QueuesTyped
  <2>3. CountersTyped' BY <1>1, <2>1
  <2>4. BtbInv' BY <1>0, <2>1, BtbStays
  <2> QED BY <1>0, <2>1, <2>2, <2>3, <2>4 DEF PredInv
<1>3. ASSUME NEW b \in Branches, NEW npc \in Outcomes(b), Fetch(b, npc) PROVE PredInv'
  <2>1. UNCHANGED <<config, table, shiftregs, btb, run>> BY <1>3 DEF Fetch, predictor
  <2>2. QueuesTyped' BY <1>3, FetchTyped
  <2>3. CountersTyped' BY <1>1, <2>1
  <2>4. BtbInv' BY <1>0, <2>1, BtbStays
  <2> QED BY <1>0, <2>1, <2>2, <2>3, <2>4 DEF PredInv
<1>4. CASE Misfetch \/ Dispatch \/ Recover \/ CommitReturn
  <2>1. UNCHANGED <<config, table, shiftregs, btb, run>>
    BY <1>4 DEF Misfetch, Dispatch, Recover, CommitReturn, predictor
  <2>2. QueuesTyped' BY <1>4, DispatchTyped, RecoverTyped, RetireTyped
  <2>3. CountersTyped' BY <1>1, <2>1
  <2>4. BtbInv' BY <1>0, <2>1, BtbStays
  <2> QED BY <1>0, <2>1, <2>2, <2>3, <2>4 DEF PredInv
<1>5. CASE Commit
  <2>1. config' = config BY <1>5 DEF Commit
  <2> QED BY <1>0, <1>5, <2>1, CommitCounters, CommitKeepsBtb, RetireTyped DEF PredInv
<1> QED BY <1>2, <1>3, <1>4, <1>5 DEF Next

LEMMA PredInvariant == Spec => []PredInv
  BY PredInit, PredNext, PTL DEF Spec

\* Every variable of the predictor holds a value of its C type; the counters have two or
\* three bits, the links of the lists lead to ways of the set.
THEOREM PredictorTyped == Spec => []TypeOK
<1>1. PredInv => TypeOK
  <2> SUFFICES ASSUME PredInv PROVE TypeOK OBVIOUS
  <2>0. config.assoc \in Nat \ {0} BY ConfigFacts DEF PredInv
  <2>1. ASSUME NEW s \in Sets
        PROVE  btb[s] \in [addr : [Ways -> Branches \cup {0}], target : [Ways -> Nat],
                           prev : [Ways -> Ways \cup {Null}], next : [Ways -> Ways \cup {Null}]]
    <3> DEFINE set == btb[s]
    <3>1. set \in BtbSet /\ Holds(set) BY DEF PredInv, BtbInv, SetsTyped
    <3>2. PICK q, m : Ordered(set, q, m) BY DEF PredInv, BtbInv
    <3>3. ASSUME NEW w \in Ways
          PROVE  /\ set.addr[w] \in Branches \cup {0}
                 /\ set.prev[w] \in Ways \cup {Null} /\ set.next[w] \in Ways \cup {Null}
      <4>1. PICK k \in 1..config.assoc : q[k] = w BY <3>2 DEF Ordered
      <4>2. \A j \in 1..config.assoc : q[j] \in Ways BY <3>2 DEF Ordered
      <4>3. /\ set.prev[w] = IF k = 1 THEN Null ELSE q[k - 1]
            /\ set.next[w] = IF k = config.assoc THEN Null ELSE q[k + 1]
        BY <3>2, <4>1 DEF Ordered
      <4>4. /\ k # 1 => k - 1 \in 1..config.assoc
            /\ k # config.assoc => k + 1 \in 1..config.assoc
        BY <2>0
      <4> QED BY <3>1, <4>2, <4>3, <4>4 DEF Holds
    <3> HIDE DEF set
    <3>4. set.addr \in [Ways -> Branches \cup {0}] BY <3>1, <3>3 DEF BtbSet
    <3>5. set.prev \in [Ways -> Ways \cup {Null}] BY <3>1, <3>3 DEF BtbSet
    <3>6. set.next \in [Ways -> Ways \cup {Null}] BY <3>1, <3>3 DEF BtbSet
    <3>7. set = [addr |-> set.addr, target |-> set.target, prev |-> set.prev, next |-> set.next]
          /\ set.target \in [Ways -> Nat]
      BY <3>1 DEF BtbSet
    <3> QED BY <3>4, <3>5, <3>6, <3>7 DEF set
  <2>2. btb = [s \in Sets |-> btb[s]] BY DEF PredInv, BtbInv, SetsTyped
  <2>3. btb \in [Sets -> [addr : [Ways -> Branches \cup {0}], target : [Ways -> Nat],
                          prev : [Ways -> Ways \cup {Null}], next : [Ways -> Ways \cup {Null}]]]
    BY ONLY <2>1, <2>2
  <2> QED BY <2>3 DEF PredInv, CountersTyped, QueuesTyped, TypeOK
<1> QED BY <1>1, PredInvariant, PTL

\* The list of a set has one head and one tail, and from the head each way is reached once:
\* bpred_update() asserts the former when it looks for the least and the most recently used
\* way (bpred.c lines 919-931), and splices ways out of the list on the strength of it.
OneHeadOneTail ==
    \A s \in Sets :
        /\ \E w \in Ways : \A v \in Ways : btb[s].prev[v] = Null <=> v = w
        /\ \E w \in Ways : \A v \in Ways : btb[s].next[v] = Null <=> v = w
        /\ \A w \in Ways : \E k \in 1..config.assoc :
              Chain(s)[k] = w /\ \A j \in 1..config.assoc : Chain(s)[j] = w => j = k

\* The assertions in bpred_update() never fail, for sets of any size.
THEOREM ListsHaveTwoEnds == Spec => []OneHeadOneTail
<1>1. PredInv => OneHeadOneTail
  <2> SUFFICES ASSUME PredInv, NEW s \in Sets
               PROVE  /\ \E w \in Ways : \A v \in Ways : btb[s].prev[v] = Null <=> v = w
                      /\ \E w \in Ways : \A v \in Ways : btb[s].next[v] = Null <=> v = w
                      /\ \A w \in Ways : \E k \in 1..config.assoc :
                            /\ Chain(s)[k] = w
                            /\ \A j \in 1..config.assoc : Chain(s)[j] = w => j = k
    BY DEF OneHeadOneTail
  <2>0. config \in Configs /\ config.assoc \in Nat \ {0} /\ SetsTyped
    BY ConfigFacts DEF PredInv, BtbInv
  <2>1. PICK q, m : Ordered(btb[s], q, m) BY DEF PredInv, BtbInv
  <2>2. Chain(s) = q BY <2>0, <2>1, ChainIs
  <2>3. \A v \in Ways : /\ btb[s].prev[v] = Null => v = MRU(s)
                        /\ btb[s].next[v] = Null => v = LRU(s)
    BY <2>0, <2>1, Ends
  <2>4. MRU(s) = q[1] /\ LRU(s) = q[config.assoc] BY <2>0, <2>1, Ends
  <2>5. /\ q[1] \in Ways /\ btb[s].prev[q[1]] = Null
        /\ q[config.assoc] \in Ways /\ btb[s].next[q[config.assoc]] = Null
    BY <2>0, <2>1 DEF Ordered
  <2>6. \A w \in Ways : \E k \in 1..config.assoc :
           Chain(s)[k] = w /\ \A j \in 1..config.assoc : Chain(s)[j] = w => j = k
    BY <2>1, <2>2 DEF Ordered
  <2> QED BY <2>3, <2>4, <2>5, <2>6
<1> QED BY <1>1, PredInvariant, PTL
-----------------------------------------------------------------------------
(* The counters *)

\* What keeps a counter from pointing the other way: it has moved as far from its end as
\* the moves in a row reach.
Learned ==
    \A c \in Cells \ Metas :
        IF run[c].up THEN run[c].n <= table[c] ELSE run[c].n <= MaxState - table[c]

LEMMA CommitLearns ==
  ASSUME PredInv, Learned, Commit
  PROVE  Learned'
<1> DEFINE e == Head(ruu)
           u == e.dir_update
           taken == e.next_PC # e.PC + 1
<1>1. config' = config /\ table' = TableAfter(u, taken) /\ run' = RunAfter(u, taken)
  BY DEF Commit
<1>2. e \in Entries BY RetireTyped
<1>3. u.bimod # u.twolev => u.pmeta \in Metas BY <1>2 DEF Entries
<1>4. MaxState' = MaxState /\ Cells' = Cells /\ Metas' = Metas BY <1>1, OptionsStay
<1>5. /\ MaxState \in {3, 7} /\ Half \in {2, 4} /\ Half <= MaxState BY DEF MaxState, Half
<1> HIDE DEF u, e
<1>6. ASSUME NEW c \in Cells \ Metas
      PROVE  IF run'[c].up THEN run'[c].n <= table'[c] ELSE run'[c].n <= MaxState - table'[c]
  <2>1. table[c] \in 0..MaxState /\ run[c].n \in 0..Half /\ run[c].up \in BOOLEAN
    BY DEF PredInv, CountersTyped
  <2>2. IF run[c].up THEN run[c].n <= table[c] ELSE run[c].n <= MaxState - table[c]
    BY DEF Learned
  <2>3. CASE c \notin {u.pdir1, u.pdir2}
    <3>1. run'[c] = run[c] BY <1>1, <2>3 DEF RunAfter
    <3>2. table'[c] = table[c] BY <1>1, <1>3, <2>3 DEF TableAfter
    <3> QED BY <2>2, <3>1, <3>2
  <2>4. CASE c \in {u.pdir1, u.pdir2}
    <3>1. table'[c] = Moved(table[c], taken) BY <1>1, <2>4 DEF TableAfter
    <3>2. run'[c] = IF run[c].up # taken THEN [up |-> taken, n |-> 1]
                    ELSE [up |-> taken, n |-> IF run[c].n < Half THEN run[c].n + 1 ELSE Half]
      BY <1>1, <2>4 DEF RunAfter
    <3>3. CASE taken
      <4>1. table'[c] = IF table[c] < MaxState THEN table[c] + 1 ELSE table[c]
        BY <3>1, <3>3 DEF Moved
      <4>2. CASE run[c].up
        <5>1. run[c].up = taken BY <2>1, <3>3, <4>2
        <5> DEFINE n == IF run[c].n < Half THEN run[c].n + 1 ELSE Half
        <5>2. run'[c] = [up |-> taken, n |-> n] BY <3>2, <5>1
        <5> HIDE DEF n, taken
        <5>3. run'[c].up = taken /\ run'[c].n = n BY <5>2
        <5>4. (run'[c].up <=> taken) /\ run'[c].n = n BY <5>3
        <5> QED BY <1>5, <2>1, <2>2, <3>3, <4>1, <4>2, <5>4 DEF n
      <4>3. CASE ~run[c].up
        <5>1. run[c].up # taken BY <2>1, <3>3, <4>3
        <5>2. run'[c] = [up |-> taken, n |-> 1] BY <3>2, <5>1
        <5> HIDE DEF taken
        <5>3. run'[c].up = taken /\ run'[c].n = 1 BY <5>2
        <5>4. (run'[c].up <=> taken) /\ run'[c].n = 1 BY <5>3
        <5> QED BY <1>5, <2>1, <3>3, <4>1, <5>4
      <4> QED BY <4>2, <4>3
    <3>4. CASE ~taken
      <4>1. table'[c] = IF table[c] > 0 THEN table[c] - 1 ELSE table[c]
        BY <3>1, <3>4 DEF Moved
      <4>2. CASE ~run[c].up
        <5>1. run[c].up = taken BY <2>1, <3>4, <4>2
        <5> DEFINE n == IF run[c].n < Half THEN run[c].n + 1 ELSE Half
        <5>2. run'[c] = [up |-> taken, n |-> n] BY <3>2, <5>1
        <5> HIDE DEF n, taken
        <5>3. run'[c].up = taken /\ run'[c].n = n BY <5>2
        <5>4. (run'[c].up <=> taken) /\ run'[c].n = n BY <5>3
        <5> QED BY <1>5, <2>1, <2>2, <3>4, <4>1, <4>2, <5>4 DEF n
      <4>3. CASE run[c].up
        <5>1. run[c].up # taken BY <2>1, <3>4, <4>3
        <5>2. run'[c] = [up |-> taken, n |-> 1] BY <3>2, <5>1
        <5> HIDE DEF taken
        <5>3. run'[c].up = taken /\ run'[c].n = 1 BY <5>2
        <5>4. (run'[c].up <=> taken) /\ run'[c].n = 1 BY <5>3
        <5> QED BY <1>5, <2>1, <3>4, <4>1, <5>4
      <4> QED BY <4>2, <4>3
    <3> QED BY <3>3, <3>4
  <2> QED BY <2>3, <2>4
<1> QED BY <1>4, <1>6 DEF Learned

\* A counter that was moved one way as often in a row as half its states predicts that way,
\* with two bits and with three, whatever other counters the commits in between have moved.
THEOREM CountersLearn == Spec => []RunIsLearned
<1>1. Init => Learned
  <2> SUFFICES ASSUME Init PROVE Learned OBVIOUS
  <2>1. PredInv BY PredInit
  <2>2. MaxState \in {3, 7} BY DEF MaxState
  <2>3. \A c \in Cells : table[c] \in 0..MaxState /\ run[c].n = 0
    BY <2>1 DEF PredInv, CountersTyped, Init
  <2> QED BY <2>2, <2>3 DEF Learned
<1>2. PredInv /\ Learned /\ [Next]_vars => Learned'
  <2> SUFFICES ASSUME PredInv, Learned, [Next]_vars PROVE Learned' OBVIOUS
  <2>1. CASE Commit BY <2>1, CommitLearns
  <2>2. CASE UNCHANGED <<config, table, run>>
    <3>1. MaxState' = MaxState /\ Cells' = Cells /\ Metas' = Metas BY <2>2, OptionsStay
    <3> QED BY <2>2, <3>1 DEF Learned
  <2>3. ~Commit => UNCHANGED <<config, table, run>>
    BY DEF Next, vars, predictor, Fetch, Misfetch, Dispatch, Recover, CommitReturn
  <2> QED BY <2>1, <2>2, <2>3
<1>3. PredInv /\ Learned => RunIsLearned
  <2> SUFFICES ASSUME PredInv, Learned, NEW c \in Cells \ Metas, run[c].n = Half
               PROVE  High(c) <=> run[c].up
    BY DEF RunIsLearned
  <2>1. /\ MaxState = (IF config.class = "3bit" THEN 7 ELSE 3)
        /\ Threshold = (IF config.class = "3bit" THEN 4 ELSE 2)
        /\ Half = Threshold
    BY DEF MaxState, Threshold, Half
  <2>2. table[c] \in 0..MaxState /\ run[c].up \in BOOLEAN BY DEF PredInv, CountersTyped
  <2>3. IF run[c].up THEN Half <= table[c] ELSE Half <= MaxState - table[c] BY DEF Learned
  <2>4. High(c) <=> table[c] >= Threshold BY DEF High
  <2> QED BY <2>1, <2>2, <2>3, <2>4
<1> QED BY <1>1, <1>2, <1>3, PredInvariant, PTL DEF Spec

-----------------------------------------------------------------------------
(* The paths *)

Right(e) == e.pred_PC = e.next_PC

\* Fetching leaves the right path with a branch that is predicted wrong. That branch is in
\* the queue of fetched ones until it is dispatched, which turns spec_mode on; from there
\* until it is recovered it is the one branch dispatched that is marked.
Paths ==
    /\ path = "right" => ~spec_mode /\ \A k \in 1..Len(ifq) : Right(ifq[k])
    /\ path # "right" /\ ~spec_mode => \E k \in 1..Len(ifq) : ~Right(ifq[k])
    /\ \A k \in 1..Len(ifq) : /\ ~ifq[k].recover_inst
                              /\ ifq[k].pred_PC = 1 => k = Len(ifq) /\ path = "bogus"
    /\ \A k \in 1..Len(ruu) : ruu[k].recover_inst => spec_mode
    /\ \A j, k \in 1..Len(ruu) : ruu[j].recover_inst /\ ruu[k].recover_inst => j = k

\* What each step does to the two queues, place by place.
LEMMA FetchQueue ==
  ASSUME PredInv, NEW b \in Branches, NEW npc \in Outcomes(b), Fetch(b, npc)
  PROVE  /\ Len(ifq) \in Nat /\ Len(ifq') = Len(ifq) + 1
         /\ \A k \in 1..Len(ifq) : ifq'[k] = ifq[k]
         /\ ifq'[Len(ifq) + 1] = Entered(b, npc)
         /\ ruu' = ruu /\ spec_mode' = spec_mode /\ path # "bogus" /\ path' = PathAfter(b, npc)
<1>1. ifq' = Append(ifq, Entered(b, npc)) BY DEF Fetch, Entered
<1>2. ifq \in Seq(Entries) BY DEF PredInv, QueuesTyped
<1> QED BY <1>1, <1>2 DEF Fetch

LEMMA FetchPaths ==
  ASSUME PredInv, Paths, NEW b \in Branches, NEW npc \in Outcomes(b), Fetch(b, npc)
  PROVE  Paths'
<1> DEFINE n == Len(ifq)
           e == Entered(b, npc)
<1>1. /\ n \in Nat /\ Len(ifq') = n + 1
      /\ \A k \in 1..n : ifq'[k] = ifq[k]
      /\ ifq'[n + 1] = e
      /\ ruu' = ruu /\ spec_mode' = spec_mode /\ path # "bogus" /\ path' = PathAfter(b, npc)
  BY FetchQueue
<1>2. e.pred_PC = PredPC(b) /\ e.next_PC = npc /\ ~e.recover_inst BY DEF Entered
<1>3. npc # 1 BY OutcomesAre
<1>4. path' = IF PredPC(b) = 1 THEN "bogus"
              ELSE IF path = "right" /\ PredPC(b) = npc THEN "right" ELSE "wrong"
  BY <1>1 DEF PathAfter
<1>5. /\ path = "right" => ~spec_mode /\ \A k \in 1..n : Right(ifq[k])
      /\ path # "right" /\ ~spec_mode => \E k \in 1..n : ~Right(ifq[k])
      /\ \A k \in 1..n : ~ifq[k].recover_inst /\ ifq[k].pred_PC # 1
      /\ \A k \in 1..Len(ruu) : ruu[k].recover_inst => spec_mode
      /\ \A j, k \in 1..Len(ruu) : ruu[j].recover_inst /\ ruu[k].recover_inst => j = k
  BY <1>1 DEF Paths
<1> HIDE DEF n, e
<1>6. \A k \in 1..n + 1 : k \in 1..n \/ k = n + 1 BY <1>1
<1>7. ASSUME path' = "right"
      PROVE  ~spec_mode' /\ \A k \in 1..n + 1 : Right(ifq'[k])
  <2>1. path = "right" /\ PredPC(b) = npc BY <1>4, <1>7
  <2> QED BY <1>1, <1>2, <1>5, <1>6, <2>1 DEF Right
<1>8. ASSUME path' # "right", ~spec_mode'
      PROVE  \E k \in 1..n + 1 : ~Right(ifq'[k])
  <2>1. CASE path = "right"
    <3>1. PredPC(b) # npc BY <1>3, <1>4, <1>8, <2>1
    <3>2. ~Right(ifq'[n + 1]) BY <1>1, <1>2, <3>1 DEF Right
    <3>3. n + 1 \in 1..n + 1 BY <1>1
    <3> QED BY <3>2, <3>3
  <2>2. CASE path # "right"
    <3>1. PICK k \in 1..n : ~Right(ifq[k]) BY <1>1, <1>5, <1>8, <2>2
    <3>2. ifq'[k] = ifq[k] /\ k \in 1..n + 1 BY <1>1
    <3> QED BY <3>1, <3>2 DEF Right
  <2> QED BY <2>1, <2>2
<1>9. ASSUME NEW k \in 1..n + 1
      PROVE  ~ifq'[k].recover_inst /\ (ifq'[k].pred_PC = 1 => k = n + 1 /\ path' = "bogus")
  <2>1. CASE k \in 1..n BY <1>1, <1>5, <2>1
  <2>2. CASE k = n + 1 BY <1>1, <1>2, <1>4, <2>2
  <2> QED BY <1>6, <2>1, <2>2
<1> QED BY <1>1, <1>5, <1>7, <1>8, <1>9 DEF Paths, Right

\* The oldest branch moves on; dispatching marks it if it is the first predicted wrong.
LEMMA DispatchQueue ==
  ASSUME PredInv, Paths, Dispatch
  PROVE  /\ Len(ifq) \in Nat \ {0} /\ Len(ifq') = Len(ifq) - 1 /\ Len(ruu) \in Nat
         /\ \A k \in 1..Len(ifq') : ifq'[k] = ifq[k + 1] /\ k + 1 \in 1..Len(ifq)
         /\ Len(ruu') = Len(ruu) + 1 /\ \A k \in 1..Len(ruu) : ruu'[k] = ruu[k]
         /\ ruu'[Len(ruu) + 1].recover_inst <=> ~spec_mode /\ ~Right(ifq[1])
         /\ ruu'[Len(ruu) + 1].stack_recover_idx = ifq[1].stack_recover_idx
         /\ ruu'[Len(ruu) + 1].PC = ifq[1].PC
         /\ spec_mode' <=> spec_mode \/ ~Right(ifq[1])
         /\ ifq[1] \in Entries /\ path' = path
<1> DEFINE mark == ~spec_mode /\ Oldest.pred_PC # Oldest.next_PC
           e == [Oldest EXCEPT !.recover_inst = mark]
<1>1. /\ ifq # <<>> /\ ifq' = Tail(ifq) /\ ruu' = Append(ruu, e)
      /\ spec_mode' = (spec_mode \/ mark) /\ path' = path
  BY DEF Dispatch, Dispatching
<1>2. ifq \in Seq(Entries) /\ ruu \in Seq(Entries) /\ spec_mode \in BOOLEAN
  BY DEF PredInv, QueuesTyped
<1>3. Oldest = ifq[1] /\ ifq[1] \in Entries BY <1>1, <1>2 DEF Oldest
<1>4. mark <=> ~spec_mode /\ ~Right(ifq[1]) BY <1>3 DEF Right
<1>5. /\ e.recover_inst = mark /\ e.stack_recover_idx = ifq[1].stack_recover_idx
      /\ e.PC = ifq[1].PC
  <2> HIDE DEF mark
  <2> QED BY <1>3 DEF Entries
<1>6. mark \in BOOLEAN OBVIOUS
<1> HIDE DEF mark, e
<1>7. (e.recover_inst <=> mark) /\ (spec_mode' <=> spec_mode \/ mark) BY <1>1, <1>5
<1>8. /\ Len(ifq) \in Nat \ {0} /\ Len(ifq') = Len(ifq) - 1 /\ Len(ruu) \in Nat
      /\ \A k \in 1..Len(ifq') : ifq'[k] = ifq[k + 1] /\ k + 1 \in 1..Len(ifq)
  BY <1>1, <1>2
<1>9. /\ Len(ruu') = Len(ruu) + 1 /\ \A k \in 1..Len(ruu) : ruu'[k] = ruu[k]
      /\ ruu'[Len(ruu) + 1] = e
  <2>1. ruu' = Append(ruu, e) /\ ruu \in Seq(Entries) BY <1>1, <1>2
  <2> QED BY ONLY <2>1
<1>10. ruu'[Len(ruu) + 1].recover_inst <=> ~spec_mode /\ ~Right(ifq[1]) BY <1>4, <1>7, <1>9
<1>11. spec_mode' <=> spec_mode \/ ~Right(ifq[1]) BY <1>4, <1>7
<1> QED BY <1>1, <1>3, <1>5, <1>8, <1>9, <1>10, <1>11

LEMMA DispatchPaths ==
  ASSUME PredInv, Paths, Dispatch
  PROVE  Paths'
<1> DEFINE n == Len(ifq)
           r == Len(ruu)
<1>1. /\ n \in Nat \ {0} /\ Len(ifq') = n - 1 /\ r \in Nat
      /\ \A k \in 1..n - 1 : ifq'[k] = ifq[k + 1] /\ k + 1 \in 1..n
      /\ Len(ruu') = r + 1 /\ \A k \in 1..r : ruu'[k] = ruu[k]
      /\ ruu'[r + 1].recover_inst <=> ~spec_mode /\ ~Right(ifq[1])
      /\ spec_mode' <=> spec_mode \/ ~Right(ifq[1])
      /\ path' = path
  BY DispatchQueue
<1>2. /\ path = "right" => ~spec_mode /\ \A k \in 1..n : Right(ifq[k])
      /\ path # "right" /\ ~spec_mode => \E k \in 1..n : ~Right(ifq[k])
      /\ \A k \in 1..n : /\ ~ifq[k].recover_inst
                         /\ ifq[k].pred_PC = 1 => k = n /\ path = "bogus"
      /\ \A k \in 1..r : ruu[k].recover_inst => spec_mode
      /\ \A j, k \in 1..r : ruu[j].recover_inst /\ ruu[k].recover_inst => j = k
  BY DEF Paths
<1> HIDE DEF n, r
<1>3. ASSUME path' = "right"
      PROVE  ~spec_mode' /\ \A k \in 1..n - 1 : Right(ifq'[k])
  BY <1>1, <1>2, <1>3 DEF Right
<1>4. ASSUME path' # "right", ~spec_mode'
      PROVE  \E k \in 1..n - 1 : ~Right(ifq'[k])
  <2>1. PICK k \in 1..n : ~Right(ifq[k]) BY <1>1, <1>2, <1>4
  <2>2. k # 1 BY <1>1, <1>4, <2>1
  <2>3. k - 1 \in 1..n - 1 /\ ifq'[k - 1] = ifq[k]
    <3>1. k - 1 \in 1..n - 1 /\ (k - 1) + 1 = k BY <1>1, <2>2
    <3>2. ifq'[k - 1] = ifq[(k - 1) + 1] BY <1>1, <3>1
    <3> QED BY <3>1, <3>2
  <2> QED BY <2>1, <2>3 DEF Right
<1>5. ASSUME NEW k \in 1..n - 1
      PROVE  ~ifq'[k].recover_inst /\ (ifq'[k].pred_PC = 1 => k = n - 1 /\ path' = "bogus")
  BY <1>1, <1>2
<1>6. ASSUME NEW k \in 1..r + 1, ruu'[k].recover_inst PROVE spec_mode'
  <2>1. k \in 1..r \/ k = r + 1 BY <1>1
  <2> QED BY <1>1, <1>2, <1>6, <2>1
<1>7. ASSUME NEW j \in 1..r + 1, NEW k \in 1..r + 1, ruu'[j].recover_inst, ruu'[k].recover_inst
      PROVE  j = k
  <2>1. (j \in 1..r \/ j = r + 1) /\ (k \in 1..r \/ k = r + 1) BY <1>1
  <2> QED BY <1>1, <1>2, <1>7, <2>1
<1> QED BY <1>1, <1>3, <1>4, <1>5, <1>6, <1>7 DEF Paths, Right

LEMMA MisfetchQueue ==
  ASSUME PredInv, Paths, Misfetch
  PROVE  /\ Len(ifq) \in Nat \ {0} /\ ifq[1] \in Entries /\ ifq' = <<>> /\ Len(ruu) \in Nat
         /\ Kind(ifq[1].PC) \in Direct /\ ifq[1].pred_PC = 1 /\ ~Right(ifq[1])
         /\ Len(ruu') = Len(ruu) + 1 /\ \A k \in 1..Len(ruu) : ruu'[k] = ruu[k]
         /\ ~ruu'[Len(ruu) + 1].recover_inst
         /\ spec_mode' = spec_mode /\ path' = IF spec_mode THEN "wrong" ELSE "right"
<1>1. /\ ifq # <<>> /\ ifq' = <<>> /\ ruu' = Append(ruu, Oldest) /\ Misfetched
      /\ spec_mode' = spec_mode /\ path' = IF spec_mode THEN "wrong" ELSE "right"
  BY DEF Misfetch, Dispatching
<1>2. ifq \in Seq(Entries) /\ ruu \in Seq(Entries) BY DEF PredInv, QueuesTyped
<1>3. Oldest = ifq[1] /\ ifq[1] \in Entries /\ Len(ifq) \in Nat \ {0} BY <1>1, <1>2 DEF Oldest
<1>4. /\ Kind(ifq[1].PC) \in Direct
      /\ ifq[1].pred_PC \notin {ifq[1].PC + 1, Program[ifq[1].PC].target}
  BY <1>1, <1>3 DEF Misfetched
<1>5. /\ ifq[1].next_PC \in {ifq[1].PC + 1, Program[ifq[1].PC].target}
      /\ ifq[1].pred_PC \in {ifq[1].PC + 1, 1, Program[ifq[1].PC].target}
  BY <1>3, <1>4 DEF Entries
<1>6. ~ifq[1].recover_inst BY <1>3 DEF Paths
<1>7. /\ Len(ruu) \in Nat /\ Len(ruu') = Len(ruu) + 1 /\ \A k \in 1..Len(ruu) : ruu'[k] = ruu[k]
      /\ ruu'[Len(ruu) + 1] = ifq[1]
  <2>1. ruu' = Append(ruu, ifq[1]) /\ ruu \in Seq(Entries) BY <1>1, <1>2, <1>3
  <2> QED BY ONLY <2>1
<1>8. ifq[1].pred_PC = 1 /\ ~Right(ifq[1]) BY <1>4, <1>5 DEF Right
<1> QED BY <1>1, <1>3, <1>4, <1>6, <1>7, <1>8

LEMMA MisfetchPaths ==
  ASSUME PredInv, Paths, Misfetch
  PROVE  Paths'
<1> DEFINE r == Len(ruu)
<1>1. /\ ifq' = <<>> /\ Len(ruu') = r + 1 /\ r \in Nat
      /\ \A k \in 1..r : ruu'[k] = ruu[k]
      /\ ~ruu'[r + 1].recover_inst
      /\ spec_mode' = spec_mode /\ path' = IF spec_mode THEN "wrong" ELSE "right"
  BY MisfetchQueue
<1>2. /\ \A k \in 1..r : ruu[k].recover_inst => spec_mode
      /\ \A j, k \in 1..r : ruu[j].recover_inst /\ ruu[k].recover_inst => j = k
  BY DEF Paths
<1>3. Len(ifq') = 0 BY <1>1
<1> HIDE DEF r
<1>4. \A k \in 1..r + 1 : k \in 1..r \/ k = r + 1 BY <1>1
<1>5. ASSUME NEW k \in 1..r + 1, ruu'[k].recover_inst PROVE k \in 1..r /\ ruu[k].recover_inst
  BY <1>1, <1>4, <1>5
<1>6. /\ path' = "right" => ~spec_mode'
      /\ ~(path' # "right" /\ ~spec_mode')
  BY <1>1
<1> QED BY <1>1, <1>2, <1>3, <1>5, <1>6 DEF Paths

LEMMA RecoverQueue ==
  ASSUME PredInv, Paths, Recover
  PROVE  \E k \in 1..Len(ruu) :
            /\ ruu[k].recover_inst /\ ruu[k] \in Entries /\ tos' = ruu[k].stack_recover_idx
            /\ Len(ruu') = k /\ \A j \in 1..k : ~ruu'[j].recover_inst
            /\ ifq' = <<>> /\ ~spec_mode' /\ path' = "right"
            /\ undonePops' = undonePops + (IF Kind(ruu[k].PC) = "return" THEN 1 ELSE 0)
            /\ undonePushes' = undonePushes + (IF Kind(ruu[k].PC) \in Calls THEN 1 ELSE 0)
            /\ UNCHANGED <<config, stack, calls, lost, overwritten>>
<1>1. PICK k \in 1..Len(ruu) :
         /\ ruu[k].recover_inst
         /\ ruu' = [SubSeq(ruu, 1, k) EXCEPT ![k].recover_inst = FALSE]
         /\ ifq' = <<>> /\ spec_mode' = FALSE /\ path' = "right"
         /\ tos' = ruu[k].stack_recover_idx
         /\ undonePops' = undonePops + (IF Kind(ruu[k].PC) = "return" THEN 1 ELSE 0)
         /\ undonePushes' = undonePushes + (IF Kind(ruu[k].PC) \in Calls THEN 1 ELSE 0)
         /\ UNCHANGED <<config, stack, calls, lost, overwritten>>
  BY DEF Recover
<1>2. ruu \in Seq(Entries) /\ ruu[k] \in Entries BY DEF PredInv, QueuesTyped
<1>3. SubSeq(ruu, 1, k) = [i \in 1..k |-> ruu[i]] BY <1>2
<1> DEFINE e == [ruu[k] EXCEPT !.recover_inst = FALSE]
<1>4. ruu' = [[i \in 1..k |-> ruu[i]] EXCEPT ![k] = e] BY <1>1, <1>3
<1>5. ~e.recover_inst BY <1>2 DEF Entries
<1> HIDE DEF e
<1>6. ruu' = [i \in 1..k |-> IF i = k THEN e ELSE ruu[i]] BY <1>4
<1>7. k \in Nat /\ Len(ruu') = k BY <1>2, <1>6
<1>8. ASSUME NEW j \in 1..k PROVE ~ruu'[j].recover_inst
  <2>1. CASE j = k BY <1>5, <1>6, <2>1
  <2>2. CASE j # k
    <3>1. ruu'[j] = ruu[j] /\ j \in 1..Len(ruu) BY <1>2, <1>6, <2>2
    <3> QED BY <1>1, <2>2, <3>1 DEF Paths
  <2> QED BY <2>1, <2>2
<1> QED BY <1>1, <1>2, <1>7, <1>8

LEMMA RecoverPaths ==
  ASSUME PredInv, Paths, Recover
  PROVE  Paths'
<1>1. PICK k \in 1..Len(ruu) :
         /\ Len(ruu') = k /\ \A j \in 1..k : ~ruu'[j].recover_inst
         /\ ifq' = <<>> /\ ~spec_mode' /\ path' = "right"
  BY RecoverQueue
<1>2. Len(ifq') = 0 BY <1>1
<1> QED BY <1>1, <1>2 DEF Paths

LEMMA RetireQueue ==
  ASSUME PredInv, Commit \/ CommitReturn
  PROVE  /\ Len(ruu) \in Nat \ {0} /\ Len(ruu') = Len(ruu) - 1
         /\ \A k \in 1..Len(ruu') : ruu'[k] = ruu[k + 1] /\ k + 1 \in 1..Len(ruu)
         /\ UNCHANGED <<config, stack, tos, ifq, spec_mode, path>>
         /\ UNCHANGED <<calls, lost, overwritten, undonePops, undonePushes>>
<1>1. /\ ruu # <<>> /\ ruu' = Tail(ruu)
      /\ UNCHANGED <<config, retstack, ifq, spec_mode, path, history>>
  BY DEF Commit, CommitReturn, Retiring
<1>2. ruu \in Seq(Entries) BY DEF PredInv, QueuesTyped
<1> QED BY <1>1, <1>2 DEF retstack, history

LEMMA RetirePaths ==
  ASSUME PredInv, Paths, Commit \/ CommitReturn
  PROVE  Paths'
<1> DEFINE r == Len(ruu)
<1>1. /\ r \in Nat \ {0} /\ Len(ruu') = r - 1
      /\ \A k \in 1..r - 1 : ruu'[k] = ruu[k + 1] /\ k + 1 \in 1..r
      /\ UNCHANGED <<ifq, spec_mode, path>>
  BY RetireQueue
<1>2. /\ \A k \in 1..r : ruu[k].recover_inst => spec_mode
      /\ \A j, k \in 1..r : ruu[j].recover_inst /\ ruu[k].recover_inst => j = k
  BY DEF Paths
<1> HIDE DEF r
<1>3. /\ \A k \in 1..r - 1 : ruu'[k].recover_inst => spec_mode'
      /\ \A j, k \in 1..r - 1 : ruu'[j].recover_inst /\ ruu'[k].recover_inst => j = k
  BY <1>1, <1>2
<1> QED BY <1>1, <1>3 DEF Paths, Right

LEMMA PathsInit == Init => Paths
  BY DEF Init, Paths

LEMMA PathsNext == PredInv /\ Paths /\ [Next]_vars => Paths'
<1> SUFFICES ASSUME PredInv, Paths, [Next]_vars PROVE Paths' OBVIOUS
<1>1. CASE UNCHANGED vars
  <2>1. UNCHANGED <<ifq, ruu, spec_mode, path>> BY <1>1 DEF vars
  <2> QED BY ONLY Paths, <2>1 DEF Paths, Right
<1>2. ASSUME NEW b \in Branches, NEW npc \in Outcomes(b), Fetch(b, npc) PROVE Paths'
  BY <1>2, FetchPaths
<1> QED BY <1>1, <1>2, DispatchPaths, MisfetchPaths, RecoverPaths, RetirePaths DEF Next

\* A wrong path is always known for one: while it is being fetched, either the branch that
\* led there still waits to be dispatched, or spec_mode is on; and there is never more than
\* one branch whose completion is to recover the right path.
THEOREM WrongPathsAreKnown == Spec => []Paths
  BY PredInvariant, PathsInit, PathsNext, PTL DEF Spec

-----------------------------------------------------------------------------
(* The stack of return addresses *)

\* The slot so many under the slot t.
Back(t, j) == IF j <= t THEN t - j ELSE t + Size - j
\* With the top at t the stack holds what is open on the right path, but for the return
\* addresses that are lost and those that a wrong path overwrote.
Good(t) ==
    \A k \in lost + 1..Len(calls) :
        Back(t, Len(calls) - k) \notin overwritten =>
            stack[Back(t, Len(calls) - k)] = calls[k]

\* The branch that fetching left the right path with; one whose destination was contradicted
\* when it was dispatched was the last to be fetched; one that does not move the top.
Strays(m) == ~Right(ifq[m]) /\ \A j \in 1..m - 1 : Right(ifq[j])
Unsure(e) == Kind(e.PC) \in Direct /\ e.pred_PC = 1
Still(e) == Kind(e.PC) # "return" /\ Kind(e.PC) \notin Calls

\* A top that is in force on the right path, or that recovery will put back in force.
InForce(t) ==
    \/ path = "right" /\ t = tos
    \/ /\ ~spec_mode
       /\ \E m \in 1..Len(ifq) :
             /\ Strays(m)
             /\ IF Unsure(ifq[m]) THEN t = tos
                ELSE Still(ifq[m]) /\ t = ifq[m].stack_recover_idx
    \/ \E k \in 1..Len(ruu) :
          ruu[k].recover_inst /\ Still(ruu[k]) /\ t = ruu[k].stack_recover_idx
Tops == \A t \in 0..Size - 1 : InForce(t) => Good(t)
\* No more return addresses are held than the stack has slots.
Depth == lost <= Len(calls) /\ Len(calls) - lost <= Size
StackInv == Depth /\ (undonePops = 0 /\ undonePushes = 0 => Tops)

LEMMA BackMoves ==
  ASSUME config \in Configs, QueuesTyped, NEW j \in 0..Size - 1
  PROVE  /\ Back(tos, 0) = tos /\ Back(tos, j) \in 0..Size - 1
         /\ j < Size - 1 => Back(Pushed, j + 1) = Back(tos, j) /\ Back(tos, j) # Pushed
         /\ j > 0 => Back(Popped, j - 1) = Back(tos, j)
         /\ Back(Pushed, 0) = Pushed
<1> DEFINE n == Size
<1>1. n \in Nat \ {0} /\ tos \in 0..n - 1 /\ j \in 0..n - 1 BY ConfigFacts DEF QueuesTyped
<1>2. /\ Pushed = (IF tos = n - 1 THEN 0 ELSE tos + 1) /\ Pushed \in 0..n - 1
      /\ Popped = (IF tos = 0 THEN n - 1 ELSE tos - 1) /\ Popped \in 0..n - 1
  BY StackMoves
<1>3. \A t, i : Back(t, i) = IF i <= t THEN t - i ELSE t + n - i BY DEF Back
<1> HIDE DEF n
<1>4. Back(tos, 0) = tos /\ Back(tos, j) \in 0..n - 1 BY <1>1, <1>3
<1>5. j < n - 1 => Back(Pushed, j + 1) = Back(tos, j) /\ Back(tos, j) # Pushed
  BY <1>1, <1>2, <1>3
<1>6. j > 0 => Back(Popped, j - 1) = Back(tos, j) BY <1>1, <1>2, <1>3
<1>7. Back(Pushed, 0) = Pushed BY <1>2, <1>3
<1> QED BY <1>4, <1>5, <1>6, <1>7 DEF n

\* The deepest return address that is held moves up when the stack is full.
LEMMA LostMoves ==
  ASSUME NEW n \in Nat, NEW s \in Nat \ {0}, NEW l \in Nat, l <= n, n - l <= s, NEW c \in Nat,
         NEW x, x = IF c - s > l THEN c - s ELSE IF c < l THEN c ELSE l
  PROVE  /\ c = n + 1 => x \in Nat /\ l <= x /\ x <= c /\ c - x <= s
         /\ c = n - 1 => /\ x \in Nat /\ x <= c /\ c - x <= s
                        /\ (l <= c => x = l) /\ (l > c => x = c)
  OBVIOUS

LEMMA GoodStays ==
  ASSUME UNCHANGED <<config, stack, calls, lost, overwritten>>, NEW t
  PROVE  Good(t)' <=> Good(t)
<1>1. Size' = Size BY OptionsStay
<1>2. \A j : Back(t, j)' = Back(t, j) BY <1>1 DEF Back
<1> QED BY <1>2 DEF Good

\* A wrong path may overwrite, and what it overwrites is noted.
LEMMA WrongPathKeeps ==
  ASSUME PredInv, NEW b \in Branches, NEW npc \in Outcomes(b), Fetch(b, npc), path # "right",
         NEW t, Good(t)
  PROVE  Good(t)'
<1>1. config' = config /\ OnWrongPath(b) /\ stack' = StackAfter(b) BY DEF Fetch
<1>2. calls' = calls /\ lost' = lost BY <1>1 DEF OnWrongPath
<1>3. stack \in [0..Size - 1 -> Nat] BY DEF PredInv, QueuesTyped
<1>4. Size' = Size BY <1>1, OptionsStay
<1>5. \A j : Back(t, j)' = Back(t, j) BY <1>4 DEF Back
<1>6. CASE Kind(b) \in Calls
  <2>1. /\ overwritten' = overwritten \cup {SlotFor(b)}
        /\ stack' = [stack EXCEPT ![SlotFor(b)] = b + 1]
    BY <1>1, <1>6 DEF OnWrongPath, StackAfter
  <2>2. \A i : i \notin overwritten' => i \notin overwritten /\ stack'[i] = stack[i]
    BY <1>3, <2>1
  <2> QED BY <1>2, <1>5, <2>2 DEF Good
<1>7. CASE Kind(b) \notin Calls
  <2>1. overwritten' = overwritten /\ stack' = stack
    BY <1>1, <1>7 DEF OnWrongPath, StackAfter
  <2> QED BY <1>2, <1>5, <2>1 DEF Good
<1> QED BY <1>6, <1>7

\* The right path pushes and pops what it opens and closes.
LEMMA RightPathKeeps ==
  ASSUME PredInv, Depth, NEW b \in Branches, NEW npc \in Outcomes(b), Fetch(b, npc),
         path = "right"
  PROVE  /\ Depth'
         /\ Good(tos) => Good(tos)'
         /\ Kind(b) # "return" /\ Kind(b) \notin Calls => tos' = tos
<1> DEFINE n == Len(calls)
           s == Size
<1>1. /\ config' = config /\ OnRightPath(b) /\ stack' = StackAfter(b) /\ tos' = TosAfter(b)
  BY DEF Fetch
<1>2. /\ stack \in [0..s - 1 -> Nat] /\ calls \in Seq(Nat \ {0, 1}) /\ n \in Nat /\ lost \in Nat
      /\ s \in Nat \ {0} /\ lost <= n /\ n - lost <= s /\ overwritten \subseteq 0..s - 1
      /\ tos \in 0..s - 1
  <2>1. s \in Nat \ {0} BY ConfigFacts DEF PredInv
  <2>2. /\ stack \in [0..s - 1 -> Nat] /\ calls \in Seq(Nat \ {0, 1}) /\ lost \in Nat
        /\ overwritten \subseteq 0..s - 1 /\ tos \in 0..s - 1
    BY DEF PredInv, QueuesTyped
  <2>3. lost <= n /\ n - lost <= s BY DEF Depth
  <2> QED BY <2>1, <2>2, <2>3
<1>3. Size' = s BY <1>1, OptionsStay
<1>4. \A t, j : Back(t, j)' = Back(t, j) BY <1>3 DEF Back
<1>5. ASSUME NEW j \in 0..s - 1
      PROVE  /\ Back(tos, 0) = tos /\ Back(tos, j) \in 0..s - 1
             /\ j < s - 1 => Back(Pushed, j + 1) = Back(tos, j) /\ Back(tos, j) # Pushed
             /\ j > 0 => Back(Popped, j - 1) = Back(tos, j)
             /\ Back(Pushed, 0) = Pushed
  <2>1. config \in Configs /\ QueuesTyped BY DEF PredInv
  <2> QED BY <2>1, BackMoves
<1>6. lost' = IF Len(calls') - s > lost THEN Len(calls') - s
              ELSE IF Len(calls') < lost THEN Len(calls') ELSE lost
  BY <1>1 DEF OnRightPath
<1> HIDE DEF s
<1>7. Good(tos)' <=> \A k \in lost' + 1..Len(calls') :
                        Back(tos', Len(calls') - k) \notin overwritten' =>
                            stack'[Back(tos', Len(calls') - k)] = calls'[k]
  BY <1>3 DEF Good, Back, s
<1>8. CASE Kind(b) \in Calls
  <2>1. /\ calls' = Append(calls, b + 1) /\ overwritten' = overwritten \ {Pushed}
        /\ stack' = [stack EXCEPT ![Pushed] = b + 1]
    BY <1>1, <1>8 DEF OnRightPath, StackAfter, SlotFor, Calls
  <2>2. tos' = Pushed /\ Pushed \in 0..s - 1
    <3>1. config \in Configs /\ QueuesTyped BY DEF PredInv
    <3>2. Pushed \in 0..s - 1 BY ONLY <3>1, StackMoves DEF s
    <3> QED BY <1>1, <1>8, <3>2 DEF TosAfter, Calls
  <2>3. Len(calls') = n + 1 /\ calls'[n + 1] = b + 1 /\ \A k \in 1..n : calls'[k] = calls[k]
    <3>1. calls \in Seq(Nat \ {0, 1}) /\ calls' = Append(calls, b + 1) BY <1>2, <2>1
    <3> QED BY ONLY <3>1
  <2> HIDE DEF n
  <2>4. lost' \in Nat /\ lost <= lost' /\ lost' <= n + 1 /\ n + 1 - lost' <= s
    <3>1. n + 1 \in Nat /\ lost' = IF n + 1 - s > lost THEN n + 1 - s
                                   ELSE IF n + 1 < lost THEN n + 1 ELSE lost
      BY <1>2, <1>6, <2>3
    <3> QED BY ONLY <1>2, <3>1, LostMoves
  <2>9. PICK l \in Nat : l = lost' /\ lost <= l /\ l <= n + 1 /\ n + 1 - l <= s BY <2>4
  <2>5. Depth'
    <3>1. Depth' <=> lost' <= Len(calls') /\ Len(calls') - lost' <= Size' BY DEF Depth
    <3>2. PICK c \in Nat : c = n + 1 /\ Len(calls') = c BY <1>2, <2>3
    <3>3. l <= c /\ c - l <= s
      <4>1. n \in Nat /\ s \in Nat BY <1>2
      <4>2. l <= n + 1 /\ n + 1 - l <= s BY ONLY <2>9
      <4>3. c = n + 1 BY <3>2
      <4> QED BY ONLY <4>1, <4>2, <4>3
    <3>4. lost' <= Len(calls') /\ Len(calls') - lost' <= Size' BY ONLY <1>3, <2>9, <3>2, <3>3
    <3> QED BY <3>1, <3>4
  <2>6. ASSUME Good(tos), NEW k \in l + 1..n + 1,
               Back(Pushed, n + 1 - k) \notin overwritten'
        PROVE  stack'[Back(Pushed, n + 1 - k)] = calls'[k]
    <3>1. CASE k = n + 1
      <4>1. 0 \in 0..s - 1 BY <1>2
      <4>2. Back(Pushed, n + 1 - k) = Pushed BY <1>2, <1>5, <3>1, <4>1
      <4> QED BY <1>2, <2>1, <2>2, <2>3, <3>1, <4>2
    <3>2. CASE k # n + 1
      <4> DEFINE j == n - k
      <4>1. j \in 0..s - 1 /\ j < s - 1 /\ j + 1 = n + 1 - k /\ k \in lost + 1..n /\ k \in 1..n
        BY <1>2, <2>9, <3>2
      <4>2. /\ Back(Pushed, j + 1) = Back(tos, j) /\ Back(tos, j) # Pushed
            /\ Back(tos, j) \in 0..s - 1
        BY <1>5, <4>1
      <4>3. Back(tos, j) \notin overwritten BY <2>1, <2>6, <4>1, <4>2
      <4>4. stack[Back(tos, j)] = calls[k] BY <2>6, <4>1, <4>3 DEF Good, n
      <4>5. stack'[Back(tos, j)] = stack[Back(tos, j)] BY <1>2, <2>1, <4>2
      <4> QED BY <2>3, <4>1, <4>2, <4>4, <4>5
    <3> QED BY <3>1, <3>2
  <2>7. Good(tos) => Good(tos)'
    <3>1. Len(calls') = n + 1 BY <2>3
    <3>2. Good(tos)' <=> \A k \in l + 1..n + 1 :
                            Back(Pushed, n + 1 - k) \notin overwritten' =>
                                stack'[Back(Pushed, n + 1 - k)] = calls'[k]
      <4>1. PICK c \in Nat : c = n + 1 /\ Len(calls') = c BY <1>2, <3>1
      <4>2. l = lost' /\ tos' = Pushed BY <2>2, <2>9
      <4>3. Good(tos)' <=> \A k \in l + 1..c :
                              Back(Pushed, c - k) \notin overwritten' =>
                                  stack'[Back(Pushed, c - k)] = calls'[k]
        BY ONLY <1>7, <4>1, <4>2
      <4>4. n \in Nat BY <1>2
      <4> QED BY ONLY <4>1, <4>3, <4>4
    <3> QED BY ONLY <2>6, <3>2
  <2> QED BY <1>8, <2>5, <2>7
<1>9. CASE Kind(b) = "return"
  <2>1. /\ calls' = Front(calls) /\ overwritten' = overwritten /\ stack' = stack
        /\ tos' = Popped
    BY <1>1, <1>9 DEF OnRightPath, StackAfter, TosAfter, Calls
  <2>2. calls # <<>> BY <1>9, OutcomesAre
  <2>3. n > 0 /\ Len(calls') = n - 1 /\ \A k \in 1..n - 1 : calls'[k] = calls[k]
    <3>1. calls' = SubSeq(calls, 1, Len(calls) - 1) BY <2>1 DEF Front
    <3>2. calls \in Seq(Nat \ {0, 1}) /\ n = Len(calls) BY <1>2
    <3>3. n > 0 BY <2>2, <3>2
    <3> HIDE DEF n
    <3>4. Len(calls') = n - 1 BY ONLY <3>1, <3>2, <3>3
    <3> QED BY ONLY <3>1, <3>2, <3>3, <3>4
  <2> HIDE DEF n
  <2>4. lost' \in Nat /\ lost' <= n - 1 /\ n - 1 - lost' <= s /\ (lost <= n - 1 => lost' = lost)
        /\ (lost > n - 1 => lost' = n - 1)
    <3>1. n - 1 \in Nat /\ lost' = IF n - 1 - s > lost THEN n - 1 - s
                                   ELSE IF n - 1 < lost THEN n - 1 ELSE lost
      BY <1>2, <1>6, <2>3
    <3> QED BY ONLY <1>2, <3>1, LostMoves
  <2>9. PICK l \in Nat : /\ l = lost' /\ l <= n - 1 /\ n - 1 - l <= s
                        /\ (lost <= n - 1 => l = lost) /\ (lost > n - 1 => l = n - 1)
    BY <2>4
  <2>5. Depth'
    <3>1. Depth' <=> lost' <= Len(calls') /\ Len(calls') - lost' <= Size' BY DEF Depth
    <3>2. Depth' <=> l <= n - 1 /\ n - 1 - l <= s BY ONLY <1>3, <2>3, <2>9, <3>1
    <3> QED BY <2>9, <3>2
  <2>6. ASSUME Good(tos), NEW k \in l + 1..n - 1,
               Back(Popped, n - 1 - k) \notin overwritten'
        PROVE  stack'[Back(Popped, n - 1 - k)] = calls'[k]
    <3> DEFINE j == n - k
    <3>1. j \in 0..s - 1 /\ j > 0 /\ j - 1 = n - 1 - k /\ k \in lost + 1..n /\ k \in 1..n - 1
      <4>1. n \in Nat /\ n > 0 /\ lost \in Nat /\ lost <= n /\ s \in Nat /\ n - lost <= s
        BY <1>2, <2>3
      <4>2. CASE lost <= n - 1
        <5>1. l = lost BY <2>9, <4>2
        <5> QED BY <4>1, <5>1
      <4>3. CASE ~(lost <= n - 1)
        <5>1. l = n - 1 BY <2>9, <4>1, <4>3
        <5> QED BY <4>1, <5>1
      <4> QED BY <4>2, <4>3
    <3>2. Back(Popped, j - 1) = Back(tos, j) BY <1>5, <3>1
    <3>3. Back(tos, j) \notin overwritten BY <2>1, <2>6, <3>1, <3>2
    <3>4. stack[Back(tos, j)] = calls[k] BY <2>6, <3>1, <3>3 DEF Good, n
    <3> QED BY <2>1, <2>3, <3>1, <3>2, <3>4
  <2>7. Good(tos) => Good(tos)'
    <3>1. Len(calls') = n - 1 BY <2>3
    <3>2. Good(tos)' <=> \A k \in l + 1..n - 1 :
                            Back(Popped, n - 1 - k) \notin overwritten' =>
                                stack'[Back(Popped, n - 1 - k)] = calls'[k]
      BY ONLY <1>7, <2>1, <2>9, <3>1
    <3> QED BY ONLY <2>6, <3>2
  <2> QED BY <1>9, <2>5, <2>7
<1>10. CASE Kind(b) # "return" /\ Kind(b) \notin Calls
  <2>1. calls' = calls /\ overwritten' = overwritten /\ stack' = stack /\ tos' = tos
    BY <1>1, <1>10 DEF OnRightPath, StackAfter, TosAfter
  <2>2. lost' = lost BY <1>2, <1>6, <2>1
  <2>3. Depth' BY <1>2, <1>3, <2>1, <2>2 DEF Depth, s
  <2>4. Good(tos) => Good(tos)' BY <1>7, <2>1, <2>2 DEF Good
  <2> QED BY <2>1, <2>3, <2>4
<1> QED BY <1>8, <1>9, <1>10

LEMMA FetchStack ==
  ASSUME PredInv, Paths, StackInv, NEW b \in Branches, NEW npc \in Outcomes(b), Fetch(b, npc)
  PROVE  StackInv'
<1> DEFINE n == Len(ifq)
           e == Entered(b, npc)
<1>1. /\ n \in Nat /\ Len(ifq') = n + 1
      /\ \A k \in 1..n : ifq'[k] = ifq[k]
      /\ ifq'[n + 1] = e
      /\ ruu' = ruu /\ spec_mode' = spec_mode /\ path # "bogus" /\ path' = PathAfter(b, npc)
  BY FetchQueue
<1>2. e.PC = b /\ e.stack_recover_idx = tos BY DEF Entered, RecoverIdx
<1>3. /\ path = "right" => ~spec_mode /\ \A k \in 1..n : Right(ifq[k])
      /\ path # "right" /\ ~spec_mode => \E k \in 1..n : ~Right(ifq[k])
      /\ \A k \in 1..n : ifq[k].pred_PC # 1
      /\ \A k \in 1..Len(ruu) : ruu[k].recover_inst => spec_mode
  BY <1>1 DEF Paths
<1>4. config' = config /\ undonePops' = undonePops /\ undonePushes' = undonePushes BY DEF Fetch
<1>5. Size' = Size BY <1>4, OptionsStay
<1>6. tos \in 0..Size - 1 BY DEF PredInv, QueuesTyped
<1>7. Depth BY DEF StackInv
<1> HIDE DEF n, e
<1>8. \A k \in 1..n + 1 : k \in 1..n \/ k = n + 1 BY <1>1
<1>9. \A x : Right(x)' <=> Right(x) BY DEF Right
<1>10. \A x : Still(x)' <=> Still(x) BY <1>4 DEF Still, Kind, Program
<1>11. CASE path = "right"
  <2>1. /\ Depth'
        /\ Good(tos) => Good(tos)'
        /\ Kind(b) # "return" /\ Kind(b) \notin Calls => tos' = tos
    BY <1>7, <1>11, RightPathKeeps
  <2>2. ASSUME NEW t, InForce(t)' PROVE t = tos'
    <3>1. CASE path' = "right" /\ t = tos' BY <3>1
    <3>2. CASE ~spec_mode' /\ \E m \in 1..Len(ifq') :
                  /\ Strays(m)'
                  /\ IF Unsure(ifq[m])' THEN t = tos'
                     ELSE Still(ifq[m])' /\ t = ifq'[m].stack_recover_idx
      <4>1. PICK m \in 1..n + 1 : /\ Strays(m)'
                                  /\ IF Unsure(ifq[m])' THEN t = tos'
                                     ELSE Still(ifq[m])' /\ t = ifq'[m].stack_recover_idx
        BY <1>1, <3>2
      <4>2. ~Right(ifq'[m]) BY <4>1 DEF Strays, Right
      <4>3. m = n + 1 BY <1>1, <1>3, <1>8, <1>11, <4>2
      <4>4. Still(ifq[m])' => tos' = tos BY <1>1, <1>2, <1>4, <2>1, <4>3 DEF Still, Kind, Program
      <4> QED BY <1>1, <1>2, <4>1, <4>3, <4>4
    <3>3. CASE \E k \in 1..Len(ruu') : ruu'[k].recover_inst
      BY <1>1, <1>3, <1>11, <3>3
    <3> QED BY <2>2, <3>1, <3>2, <3>3 DEF InForce
  <2>3. ASSUME NEW t, t = tos', Good(tos)' PROVE Good(t)' BY <2>3 DEF Good, Back
  <2>4. ASSUME Tops PROVE Tops'
    <3>1. InForce(tos) BY <1>11 DEF InForce
    <3>2. Good(tos) BY <1>6, <2>4, <3>1 DEF Tops
    <3>3. ASSUME NEW t, InForce(t)' PROVE Good(t)' BY <2>1, <2>2, <2>3, <3>2, <3>3
    <3> QED BY <3>3 DEF Tops
  <2> QED BY <1>4, <2>1, <2>4 DEF StackInv
<1>12. CASE path # "right"
  <2>1. calls' = calls /\ lost' = lost BY <1>12 DEF Fetch, OnWrongPath
  <2>2. Depth' BY <1>5, <1>7, <2>1 DEF Depth
  <2>3. ASSUME NEW t, InForce(t)' PROVE InForce(t)
    <3>1. path' # "right" BY <1>1, <1>12 DEF PathAfter
    <3>2. CASE ~spec_mode' /\ \E m \in 1..Len(ifq') :
                  /\ Strays(m)'
                  /\ IF Unsure(ifq[m])' THEN t = tos'
                     ELSE Still(ifq[m])' /\ t = ifq'[m].stack_recover_idx
      <4>1. PICK m \in 1..n + 1 : /\ Strays(m)'
                                  /\ IF Unsure(ifq[m])' THEN t = tos'
                                     ELSE Still(ifq[m])' /\ t = ifq'[m].stack_recover_idx
        BY <1>1, <3>2
      <4>2. ~Right(ifq'[m]) /\ \A j \in 1..m - 1 : Right(ifq'[j]) BY <4>1 DEF Strays, Right
      <4>3. m \in 1..n
        <5>1. PICK k \in 1..n : ~Right(ifq[k]) BY <1>1, <1>3, <1>12, <3>2
        <5>2. ifq'[k] = ifq[k] BY <1>1
        <5>3. m # n + 1 BY <1>1, <4>2, <5>1, <5>2
        <5> QED BY <1>8, <5>3
      <4>4. ifq'[m] = ifq[m] /\ \A j \in 1..m - 1 : ifq'[j] = ifq[j] BY <1>1, <4>3
      <4>5. Strays(m) BY <4>2, <4>4 DEF Strays
      <4>6. ~Unsure(ifq[m]) BY <1>3, <4>3 DEF Unsure
      <4>7. ~Unsure(ifq[m])' BY <1>3, <4>3, <4>4 DEF Unsure
      <4>8. Still(ifq[m]) <=> Still(ifq[m])' BY <1>4, <4>4 DEF Still, Kind, Program
      <4>9. Still(ifq[m]) /\ t = ifq[m].stack_recover_idx BY <4>1, <4>4, <4>7, <4>8
      <4>10. ~spec_mode /\ m \in 1..Len(ifq) BY <1>1, <3>2, <4>3 DEF n
      <4> QED BY ONLY <4>5, <4>6, <4>9, <4>10 DEF InForce
    <3>3. CASE \E k \in 1..Len(ruu') :
                  ruu'[k].recover_inst /\ Still(ruu[k])' /\ t = ruu'[k].stack_recover_idx
      <4>1. \A k : Still(ruu[k])' <=> Still(ruu[k]) BY <1>1, <1>4 DEF Still, Kind, Program
      <4> QED BY <1>1, <3>3, <4>1 DEF InForce
    <3> QED BY <2>3, <3>1, <3>2, <3>3 DEF InForce
  <2>4. ASSUME Tops PROVE Tops'
    <3>1. ASSUME NEW t \in 0..Size - 1, InForce(t)' PROVE Good(t)'
      <4>1. Good(t) BY <2>3, <2>4, <3>1 DEF Tops
      <4> QED BY <1>12, <4>1, WrongPathKeeps
    <3> QED BY <1>5, <3>1 DEF Tops
  <2> QED BY <1>4, <2>2, <2>4 DEF StackInv
<1> QED BY <1>11, <1>12

\* The steps that leave the stack and what is open alone need only bring no new top in force.
LEMMA TopsStay ==
  ASSUME StackInv, UNCHANGED <<config, stack, calls, lost, overwritten>>,
         undonePops' = 0 /\ undonePushes' = 0 =>
             undonePops = 0 /\ undonePushes = 0 /\ \A t : InForce(t)' => InForce(t)
  PROVE  StackInv'
<1>1. Size' = Size BY OptionsStay
<1>2. Depth' BY <1>1 DEF StackInv, Depth
<1>3. ASSUME undonePops' = 0, undonePushes' = 0 PROVE Tops'
  <2>1. Tops /\ \A t : InForce(t)' => InForce(t) BY <1>3 DEF StackInv
  <2>2. \A t : Good(t)' <=> Good(t) BY GoodStays
  <2> QED BY <1>1, <2>1, <2>2 DEF Tops
<1> QED BY <1>2, <1>3 DEF StackInv

LEMMA MisfetchStack ==
  ASSUME PredInv, Paths, StackInv, Misfetch
  PROVE  StackInv'
<1> DEFINE r == Len(ruu)
<1>1. /\ Len(ifq) \in Nat \ {0} /\ ifq[1] \in Entries /\ ifq' = <<>> /\ r \in Nat
      /\ Kind(ifq[1].PC) \in Direct /\ ifq[1].pred_PC = 1 /\ ~Right(ifq[1])
      /\ Len(ruu') = r + 1 /\ \A k \in 1..r : ruu'[k] = ruu[k]
      /\ ~ruu'[r + 1].recover_inst
      /\ spec_mode' = spec_mode /\ path' = IF spec_mode THEN "wrong" ELSE "right"
  BY MisfetchQueue
<1>2. UNCHANGED <<config, stack, tos, calls, lost, overwritten, undonePops, undonePushes>>
  BY DEF Misfetch, retstack, history
<1>3. Len(ifq') = 0 BY <1>1
<1>4. ASSUME NEW t, InForce(t)' PROVE InForce(t)
  <2>1. CASE path' = "right" /\ t = tos'
    <3>1. ~spec_mode /\ t = tos BY <1>1, <1>2, <2>1
    <3>2. 1 \in 1..Len(ifq) /\ Unsure(ifq[1]) BY <1>1 DEF Unsure
    <3>3. Strays(1) BY <1>1 DEF Strays
    <3> QED BY <3>1, <3>2, <3>3 DEF InForce
  <2>2. CASE \E k \in 1..Len(ruu') :
                ruu'[k].recover_inst /\ Still(ruu[k])' /\ t = ruu'[k].stack_recover_idx
    <3>1. PICK k \in 1..r + 1 :
             ruu'[k].recover_inst /\ Still(ruu[k])' /\ t = ruu'[k].stack_recover_idx
      BY <1>1, <2>2
    <3>2. k \in 1..r BY <1>1, <3>1
    <3>3. ruu'[k] = ruu[k] BY <1>1, <3>2
    <3>4. Still(ruu[k]) BY <1>2, <3>1, <3>3 DEF Still, Kind, Program
    <3> QED BY <3>1, <3>2, <3>3, <3>4 DEF InForce
  <2> QED BY <1>3, <1>4, <2>1, <2>2 DEF InForce
<1> QED BY <1>2, <1>4, TopsStay

LEMMA DispatchStack ==
  ASSUME PredInv, Paths, StackInv, Dispatch
  PROVE  StackInv'
<1> DEFINE n == Len(ifq)
           r == Len(ruu)
<1>1. /\ n \in Nat \ {0} /\ Len(ifq') = n - 1 /\ r \in Nat
      /\ \A k \in 1..n - 1 : ifq'[k] = ifq[k + 1] /\ k + 1 \in 1..n
      /\ Len(ruu') = r + 1 /\ \A k \in 1..r : ruu'[k] = ruu[k]
      /\ ruu'[r + 1].recover_inst <=> ~spec_mode /\ ~Right(ifq[1])
      /\ ruu'[r + 1].stack_recover_idx = ifq[1].stack_recover_idx
      /\ ruu'[r + 1].PC = ifq[1].PC
      /\ spec_mode' <=> spec_mode \/ ~Right(ifq[1])
      /\ ifq[1] \in Entries /\ path' = path
  BY DispatchQueue
<1>2. UNCHANGED <<config, stack, tos, calls, lost, overwritten, undonePops, undonePushes>>
  BY DEF Dispatch, retstack, history
<1>3. ~Unsure(ifq[1])
  <2>1. ifq # <<>> /\ ~Misfetched /\ Oldest = ifq[1] BY DEF Dispatch, Dispatching, Oldest
  <2>2. /\ ifq[1].PC + 1 # 1 /\ Program[ifq[1].PC].target # 1
    <3>1. ifq[1].PC \in Branches BY <1>1 DEF Entries
    <3> QED BY <3>1, ConfigFacts DEF PredInv
  <2> QED BY <2>1, <2>2 DEF Misfetched, Unsure
<1>4. ASSUME NEW t, InForce(t)' PROVE InForce(t)
  <2>1. CASE path' = "right" /\ t = tos' BY <1>1, <1>2, <2>1 DEF InForce
  <2>2. CASE ~spec_mode' /\ \E m \in 1..Len(ifq') :
                /\ Strays(m)'
                /\ IF Unsure(ifq[m])' THEN t = tos'
                   ELSE Still(ifq[m])' /\ t = ifq'[m].stack_recover_idx
    <3> HIDE DEF n, r
    <3>1. PICK m \in 1..n - 1 : /\ Strays(m)'
                                /\ IF Unsure(ifq[m])' THEN t = tos'
                                   ELSE Still(ifq[m])' /\ t = ifq'[m].stack_recover_idx
      BY <1>1, <2>2
    <3>2. ~Right(ifq'[m]) /\ \A j \in 1..m - 1 : Right(ifq'[j]) BY <3>1 DEF Strays, Right
    <3>3. ifq'[m] = ifq[m + 1] /\ m + 1 \in 1..n BY <1>1
    <3>4. \A j \in 1..m : Right(ifq[j])
      <4>1. ASSUME NEW j \in 1..m PROVE Right(ifq[j])
        <5>1. CASE j = 1 BY <1>1, <2>2, <5>1
        <5>2. CASE j # 1
          <6>1. j - 1 \in 1..m - 1 /\ j - 1 \in 1..n - 1 /\ (j - 1) + 1 = j BY <1>1, <5>2
          <6>2. ifq'[j - 1] = ifq[(j - 1) + 1] BY <1>1, <6>1
          <6> QED BY <3>2, <6>1, <6>2
        <5> QED BY <5>1, <5>2
      <4> QED BY <4>1
    <3>5. Strays(m + 1)
      <4>1. ~Right(ifq[m + 1]) BY <3>2, <3>3
      <4>2. (m + 1) - 1 = m BY <1>1
      <4> QED BY <3>4, <4>1, <4>2 DEF Strays
    <3>6. /\ Unsure(ifq[m + 1]) <=> Unsure(ifq[m])'
          /\ Still(ifq[m + 1]) <=> Still(ifq[m])'
      BY <1>2, <3>3 DEF Unsure, Still, Kind, Program
    <3>7. IF Unsure(ifq[m + 1]) THEN t = tos
          ELSE Still(ifq[m + 1]) /\ t = ifq[m + 1].stack_recover_idx
      BY <1>2, <3>1, <3>3, <3>6
    <3>8. ~spec_mode /\ m + 1 \in 1..Len(ifq) BY <1>1, <2>2, <3>3 DEF n
    <3> QED BY ONLY <3>5, <3>7, <3>8 DEF InForce
  <2>3. CASE \E k \in 1..Len(ruu') :
                ruu'[k].recover_inst /\ Still(ruu[k])' /\ t = ruu'[k].stack_recover_idx
    <3>1. PICK k \in 1..r + 1 :
             ruu'[k].recover_inst /\ Still(ruu[k])' /\ t = ruu'[k].stack_recover_idx
      BY <1>1, <2>3
    <3>2. CASE k \in 1..r
      <4>1. ruu'[k] = ruu[k] BY <1>1, <3>2
      <4>2. Still(ruu[k]) BY <1>2, <3>1, <4>1 DEF Still, Kind, Program
      <4> QED BY <3>1, <3>2, <4>1, <4>2 DEF InForce
    <3>3. CASE k = r + 1
      <4>1. ~spec_mode /\ ~Right(ifq[1]) /\ t = ifq[1].stack_recover_idx BY <1>1, <3>1, <3>3
      <4>2. Still(ifq[1]) BY <1>1, <1>2, <3>1, <3>3 DEF Still, Kind, Program
      <4>3. Strays(1) /\ 1 \in 1..Len(ifq) BY <1>1, <4>1 DEF Strays
      <4> QED BY ONLY <1>3, <4>1, <4>2, <4>3 DEF InForce
    <3>4. k \in 1..r \/ k = r + 1 BY <1>1
    <3> QED BY <3>2, <3>3, <3>4
  <2> QED BY <1>4, <2>1, <2>2, <2>3 DEF InForce
<1> QED BY <1>2, <1>4, TopsStay

LEMMA RecoverStack ==
  ASSUME PredInv, Paths, StackInv, Recover
  PROVE  StackInv'
<1>1. PICK k \in 1..Len(ruu) :
         /\ ruu[k].recover_inst /\ ruu[k] \in Entries /\ tos' = ruu[k].stack_recover_idx
         /\ Len(ruu') = k /\ \A j \in 1..k : ~ruu'[j].recover_inst
         /\ ifq' = <<>> /\ ~spec_mode' /\ path' = "right"
         /\ undonePops' = undonePops + (IF Kind(ruu[k].PC) = "return" THEN 1 ELSE 0)
         /\ undonePushes' = undonePushes + (IF Kind(ruu[k].PC) \in Calls THEN 1 ELSE 0)
         /\ UNCHANGED <<config, stack, calls, lost, overwritten>>
  BY RecoverQueue
<1>2. undonePops \in Nat /\ undonePushes \in Nat BY DEF PredInv, QueuesTyped
<1>3. Len(ifq') = 0 BY <1>1
<1>4. ASSUME undonePops' = 0, undonePushes' = 0
      PROVE  undonePops = 0 /\ undonePushes = 0 /\ Still(ruu[k])
  BY <1>1, <1>2, <1>4 DEF Still
<1>5. ASSUME Still(ruu[k]), NEW t, InForce(t)' PROVE InForce(t)
  <2>1. t = tos' BY <1>1, <1>3, <1>5 DEF InForce
  <2> QED BY <1>1, <1>5, <2>1 DEF InForce
<1> QED BY <1>1, <1>4, <1>5, TopsStay

LEMMA RetireStack ==
  ASSUME PredInv, Paths, StackInv, Commit \/ CommitReturn
  PROVE  StackInv'
<1> DEFINE r == Len(ruu)
<1>1. /\ r \in Nat \ {0} /\ Len(ruu') = r - 1
      /\ \A k \in 1..r - 1 : ruu'[k] = ruu[k + 1] /\ k + 1 \in 1..r
      /\ UNCHANGED <<config, stack, tos, ifq, spec_mode, path>>
      /\ UNCHANGED <<calls, lost, overwritten, undonePops, undonePushes>>
  BY RetireQueue
<1>2. ASSUME NEW t, InForce(t)' PROVE InForce(t)
  <2>1. CASE \E k \in 1..Len(ruu') :
                ruu'[k].recover_inst /\ Still(ruu[k])' /\ t = ruu'[k].stack_recover_idx
    <3>1. PICK k \in 1..r - 1 :
             ruu'[k].recover_inst /\ Still(ruu[k])' /\ t = ruu'[k].stack_recover_idx
      BY <1>1, <2>1
    <3>2. ruu'[k] = ruu[k + 1] /\ k + 1 \in 1..r BY <1>1
    <3>3. Still(ruu[k + 1]) BY <1>1, <3>1, <3>2 DEF Still, Kind, Program
    <3> QED BY <3>1, <3>2, <3>3 DEF InForce
  <2>2. CASE ~\E k \in 1..Len(ruu') :
                 ruu'[k].recover_inst /\ Still(ruu[k])' /\ t = ruu'[k].stack_recover_idx
    BY <1>1, <1>2, <2>2 DEF InForce, Strays, Unsure, Still, Right, Kind, Program
  <2> QED BY <2>1, <2>2
<1> QED BY <1>1, <1>2, TopsStay

LEMMA StackNext == PredInv /\ Paths /\ StackInv /\ [Next]_vars => StackInv'
<1> SUFFICES ASSUME PredInv, Paths, StackInv, [Next]_vars PROVE StackInv' OBVIOUS
<1>1. CASE UNCHANGED vars
  <2>1. /\ UNCHANGED <<config, stack, calls, lost, overwritten, undonePops, undonePushes>>
        /\ UNCHANGED <<tos, path, spec_mode, ifq, ruu>>
    BY <1>1 DEF vars, retstack, history
  <2>2. \A t : InForce(t)' => InForce(t)
    BY <2>1 DEF InForce, Strays, Unsure, Still, Right, Kind, Program
  <2> QED BY <2>1, <2>2, TopsStay
<1>2. ASSUME NEW b \in Branches, NEW npc \in Outcomes(b), Fetch(b, npc) PROVE StackInv'
  BY <1>2, FetchStack
<1> QED BY <1>1, <1>2, DispatchStack, MisfetchStack, RecoverStack, RetireStack DEF Next

\* As long as no mis-predicted call or return has been taken back, the next return on the
\* right path is predicted: bpred_recover() puts back a top under which everything is as it
\* was, but for the slots that calls of a wrong path have overwritten.
THEOREM ReturnsKnown == Spec => []ReturnsAreKnown
<1>1. Init => StackInv
  <2> SUFFICES ASSUME Init PROVE StackInv OBVIOUS
  <2>1. Size \in Nat \ {0} BY ConfigFacts DEF Init
  <2>2. calls = <<>> /\ lost = 0 BY DEF Init
  <2>3. Len(calls) = 0 BY <2>2
  <2>4. Depth BY <2>1, <2>2, <2>3 DEF Depth
  <2>5. \A t : Good(t) BY <2>2, <2>3 DEF Good
  <2> QED BY <2>4, <2>5 DEF StackInv, Tops
<1>2. PredInv /\ StackInv => ReturnsAreKnown
  <2> SUFFICES ASSUME PredInv, StackInv, path = "right", undonePops = 0, undonePushes = 0,
                      Len(calls) > lost, tos \notin overwritten
               PROVE  stack[tos] = Last(calls)
    BY DEF ReturnsAreKnown
  <2>1. tos \in 0..Size - 1 /\ calls \in Seq(Nat \ {0, 1}) /\ lost \in Nat /\ Size \in Nat \ {0}
    BY ConfigFacts DEF PredInv, QueuesTyped
  <2>2. Good(tos) BY <2>1 DEF StackInv, Tops, InForce
  <2>3. Len(calls) \in lost + 1..Len(calls) /\ Len(calls) - Len(calls) = 0 BY <2>1
  <2>4. Back(tos, 0) = tos BY <2>1 DEF Back
  <2>5. stack[tos] = calls[Len(calls)] BY <2>2, <2>3, <2>4 DEF Good
  <2> QED BY <2>5 DEF Last
<1> QED BY <1>1, <1>2, StackNext, PredInvariant, WrongPathsAreKnown, PTL DEF Spec

-----------------------------------------------------------------------------
(* The branch target buffer implements LruSpec *)

\* What the refinement mapping reads off a set is what its order says.
LEMMA RecentIs ==
    \A s, q, m : (config \in Configs /\ SetsTyped /\ s \in Sets /\ Ordered(btb[s], q, m)) =>
        Recent[s] = [k \in 1..m |-> EntryAt(s, q[k])]
<1> SUFFICES ASSUME config \in Configs, SetsTyped, NEW s \in Sets, NEW q, NEW m,
                    Ordered(btb[s], q, m)
             PROVE  Recent[s] = [k \in 1..m |-> EntryAt(s, q[k])]
  OBVIOUS
<1>0. config.assoc \in Nat \ {0} BY ConfigFacts
<1>1. Chain(s) = q BY ChainIs
<1>2. m \in 0..config.assoc BY DEF Ordered
<1>3. ASSUME NEW k \in 1..config.assoc PROVE q[k] # Null /\ (btb[s].addr[q[k]] # 0 <=> k <= m)
  BY <1>0 DEF Ordered, Ways, Null
<1>4. Places(s) = 1..m BY <1>0, <1>1, <1>2, <1>3 DEF Places
<1>5. Max({0} \cup Places(s)) = m
  <2> DEFINE S == {0} \cup (1..m)
  <2>1. m \in S /\ \A y \in S : y \in Int /\ m >= y BY <1>0, <1>2
  <2>2. \A x \in S : (\A y \in S : x >= y) => x = m BY <2>1
  <2> HIDE DEF S
  <2>3. Max(S) = m BY <2>1, <2>2 DEF Max
  <2> QED BY <1>4, <2>3 DEF S
<1>6. Recent[s] = [k \in 1..Max({0} \cup Places(s)) |-> EntryAt(s, Chain(s)[k])] BY DEF Recent
<1> QED BY <1>1, <1>5, <1>6

LEMMA RecentIsNext ==
    (\A s, q, m : (config \in Configs /\ SetsTyped /\ s \in Sets /\ Ordered(btb[s], q, m)) =>
        Recent[s] = [k \in 1..m |-> EntryAt(s, q[k])])'
  BY RecentIs, PTL

\* A set that is not changed reads the same.
LEMMA RecentStays ==
  ASSUME PredInv, PredInv', config' = config, NEW s \in Sets, btb'[s] = btb[s]
  PROVE  Recent'[s] = Recent[s]
<1>1. PICK q, m : Ordered(btb[s], q, m) BY DEF PredInv, BtbInv
<1>2. Ways' = Ways /\ Sets' = Sets BY OptionsStay
<1>3. Ordered(btb[s], q, m)' BY <1>1, <1>2 DEF Ordered, Null
<1>4. Recent[s] = [k \in 1..m |-> EntryAt(s, q[k])] BY <1>1, RecentIs DEF PredInv, BtbInv
<1>5. Recent'[s] = [k \in 1..m |-> EntryAt(s, q[k])']
  <2>2. (config \in Configs)' /\ SetsTyped' /\ s \in Sets' BY <1>2 DEF PredInv, BtbInv
  <2> QED BY <1>3, <2>2, RecentIsNext
<1>6. \A w : EntryAt(s, w)' = EntryAt(s, w) BY DEF EntryAt
<1> QED BY <1>4, <1>5, <1>6

\* The ways of a set in use, in an order.
Listed(set, q, m) == [k \in 1..m |-> [addr |-> set.addr[q[k]], target |-> set.target[q[k]]]]

\* An entry that comes to the front of the list is one that LruSpec uses.
LEMMA ComesIsUse ==
  ASSUME config \in Configs, NEW b, NEW set, NEW new, NEW q, NEW m, NEW p, NEW n,
         Ordered(set, q, m), Ordered(new, Fronted(q, p), n), Comes(b, set, new, q, m, p, n),
         NEW seq, seq = Listed(set, q, m),
         NEW free, free = Lru!Freed(seq, b),
         NEW e, e = [addr |-> b, target |-> new.target[q[p]]]
  PROVE  Listed(new, Fronted(q, p), n) =
             [k \in 1..(IF free > Len(seq) THEN free ELSE Len(seq)) |->
                  IF k = 1 THEN e ELSE IF k <= free THEN seq[k - 1] ELSE seq[k]]
<1>0. config.assoc \in Nat \ {0} BY ConfigFacts
<1>1. /\ m \in 0..config.assoc /\ p \in 1..config.assoc /\ n \in 0..config.assoc
      /\ \A k \in 1..config.assoc : q[k] \in Ways
      /\ \A j, k \in 1..config.assoc : q[j] = q[k] => j = k
      /\ \A j, k \in 1..m : set.addr[q[j]] = set.addr[q[k]] => j = k
  BY DEF Ordered, Comes
<1>2. /\ IF \E k \in 1..m : set.addr[q[k]] = b
         THEN p <= m /\ set.addr[q[p]] = b /\ n = m
         ELSE p = config.assoc /\ n = IF m < config.assoc THEN m + 1 ELSE m
      /\ new.addr[q[p]] = b
      /\ \A w \in Ways : w # q[p] => new.addr[w] = set.addr[w] /\ new.target[w] = set.target[w]
  BY DEF Comes
<1>3. /\ Len(seq) = m
      /\ \A k \in 1..m : seq[k] = [addr |-> set.addr[q[k]], target |-> set.target[q[k]]]
  <2>1. m \in Nat BY <1>0, <1>1
  <2> QED BY <2>1 DEF Listed
<1>4. \A k \in 1..m : seq[k].addr = set.addr[q[k]] BY <1>3
<1>5. free = (IF \E k \in 1..m : set.addr[q[k]] = b THEN p
              ELSE IF m < config.assoc THEN m + 1 ELSE config.assoc)
  <2>1. free = IF \E k \in 1..m : seq[k].addr = b
               THEN CHOOSE k \in 1..m : seq[k].addr = b
               ELSE IF m < config.assoc THEN m + 1 ELSE config.assoc
    BY <1>3 DEF Lru!Freed
  <2>2. CASE \E k \in 1..m : set.addr[q[k]] = b
    <3>1. p \in 1..m /\ seq[p].addr = b BY <1>0, <1>1, <1>2, <1>4, <2>2
    <3>2. \A k \in 1..m : seq[k].addr = b => k = p BY <1>1, <1>4, <3>1
    <3>3. (CHOOSE k \in 1..m : seq[k].addr = b) = p BY <3>1, <3>2
    <3> QED BY <2>1, <2>2, <3>1, <3>3
  <2>3. CASE ~\E k \in 1..m : set.addr[q[k]] = b BY <1>4, <2>1, <2>3
  <2> QED BY <2>2, <2>3
<1>6. /\ free \in 1..config.assoc /\ n = (IF free > m THEN free ELSE m) /\ n \in 1..config.assoc
  <2>1. CASE \E k \in 1..m : set.addr[q[k]] = b BY <1>0, <1>1, <1>2, <1>5, <2>1
  <2>2. CASE ~\E k \in 1..m : set.addr[q[k]] = b BY <1>0, <1>1, <1>2, <1>5, <2>2
  <2> QED BY <2>1, <2>2
<1>7. \A k \in 1..config.assoc :
         Fronted(q, p)[k] = IF k = 1 THEN q[p] ELSE IF k <= p THEN q[k - 1] ELSE q[k]
  BY DEF Fronted
<1>8. ASSUME NEW k \in 1..n
      PROVE  [addr |-> new.addr[Fronted(q, p)[k]], target |-> new.target[Fronted(q, p)[k]]] =
             IF k = 1 THEN e ELSE IF k <= free THEN seq[k - 1] ELSE seq[k]
  <2>0. k \in 1..config.assoc BY <1>0, <1>6
  <2>1. CASE k = 1 BY <1>2, <1>7, <2>0, <2>1
  <2> DEFINE j == IF k <= free THEN k - 1 ELSE k
  <2>2. CASE k # 1
    <3>1. j \in 1..m /\ j \in 1..config.assoc /\ j # p /\ Fronted(q, p)[k] = q[j]
      <4>1. CASE \E i \in 1..m : set.addr[q[i]] = b
        <5>1. free = p /\ p <= m /\ n = m BY <1>2, <1>5, <4>1
        <5> QED BY <1>0, <1>1, <1>7, <2>0, <2>2, <5>1
      <4>2. CASE ~\E i \in 1..m : set.addr[q[i]] = b
        <5>1. p = config.assoc /\ n = free /\ free <= m + 1 BY <1>0, <1>1, <1>2, <1>5, <4>2
        <5> QED BY <1>0, <1>1, <1>7, <2>0, <2>2, <5>1
      <4> QED BY <4>1, <4>2
    <3> HIDE DEF j
    <3>2. q[j] \in Ways /\ q[j] # q[p] BY <1>1, <3>1
    <3>3. new.addr[q[j]] = set.addr[q[j]] /\ new.target[q[j]] = set.target[q[j]]
      BY <1>2, <3>2
    <3>4. [addr |-> new.addr[Fronted(q, p)[k]], target |-> new.target[Fronted(q, p)[k]]] = seq[j]
      BY <1>3, <3>1, <3>3
    <3> QED BY <2>2, <3>4 DEF j
  <2> QED BY <2>1, <2>2
<1>9. Listed(new, Fronted(q, p), n) =
          [k \in 1..n |-> IF k = 1 THEN e ELSE IF k <= free THEN seq[k - 1] ELSE seq[k]]
  BY <1>8 DEF Listed
<1> QED BY <1>3, <1>6, <1>9

\* Nothing has been taken at first: every set reads empty.
LEMMA LruInit == Init => Lru!Init
<1> SUFFICES ASSUME Init PROVE Lru!Init OBVIOUS
<1>0. config \in Configs /\ config.assoc \in Nat \ {0} /\ BtbInv
  BY ConfigFacts, BtbInit DEF Init
<1>1. ASSUME NEW s \in Sets PROVE Recent[s] = <<>>
  <2>1. PICK q, m : Ordered(btb[s], q, m) BY <1>0 DEF BtbInv
  <2>2. \A w \in Ways : btb[s].addr[w] = 0 BY DEF Init, EmptySet
  <2>3. m = 0
    <3>1. m \in 0..config.assoc BY <2>1 DEF Ordered
    <3>2. ASSUME m # 0 PROVE FALSE
      <4>1. 1 \in 1..config.assoc /\ 1 <= m BY <1>0, <3>1, <3>2
      <4>2. q[1] \in Ways /\ btb[s].addr[q[1]] # 0 BY <2>1, <4>1 DEF Ordered
      <4> QED BY <2>2, <4>2
    <3> QED BY <3>2
  <2>4. Recent[s] = [k \in 1..m |-> EntryAt(s, q[k])] BY <1>0, <2>1, RecentIs DEF BtbInv
  <2> QED BY <2>3, <2>4
<1>2. DOMAIN Recent = Sets BY DEF Recent
<1> QED BY <1>0, <1>1, <1>2 DEF Lru!Init

\* The entries there can be and the size of a set are of the options alone.
LEMMA LruParametersStay ==
  ASSUME config' = config
  PROVE  /\ config.assoc' = config.assoc
         /\ [addr : Branches, target : Destinations]' = [addr : Branches, target : Destinations]
  BY OptionsStay

\* What does not touch the buffer is a stuttering step of LruSpec.
LEMMA LruStutters ==
  ASSUME PredInv, PredInv', config' = config, btb' = btb
  PROVE  UNCHANGED <<config.assoc, [addr : Branches, target : Destinations], Recent>>
<1>1. \A s \in Sets : Recent'[s] = Recent[s] BY RecentStays
<1>2. Sets' = Sets BY OptionsStay
<1>3. /\ Recent = [s \in Sets |-> Recent[s]] /\ Recent' = [s \in Sets |-> Recent'[s]]
  BY <1>2 DEF Recent
<1> QED BY <1>1, <1>3, LruParametersStay

\* The commit of a branch that was taken is a use of its entry.
LEMMA CommitUses ==
  ASSUME PredInv, PredInv', Commit, Head(ruu).next_PC # Head(ruu).PC + 1
  PROVE  Lru!Next
<1> DEFINE b == Head(ruu).PC
           s == SetOf(b)
           new == Updated(Head(ruu))
<1>0. config \in Configs /\ BtbInv /\ SetsTyped BY DEF PredInv, BtbInv
<1>1. /\ b \in Branches /\ config' = config /\ Head(ruu).next_PC \in Destinations
      /\ Kind(b) \in Direct => Head(ruu).next_PC = Program[b].target
      /\ btb' = [btb EXCEPT ![s] = new]
  BY CommitBtb
<1>2. /\ s \in Sets
      /\ \E q, m : \E p, n : /\ Ordered(btb[s], q, m) /\ Ordered(new, Fronted(q, p), n)
                             /\ Comes(b, btb[s], new, q, m, p, n)
  BY <1>0, <1>1, UpdatedComes
<1> HIDE DEF b, s, new
<1>3. PICK q, m, p, n : /\ Ordered(btb[s], q, m) /\ Ordered(new, Fronted(q, p), n)
                        /\ Comes(b, btb[s], new, q, m, p, n)
  BY <1>2
<1>4. btb \in [Sets -> BtbSet] /\ btb'[s] = new /\ \A r \in Sets : r # s => btb'[r] = btb[r]
  BY <1>0, <1>1, <1>2 DEF SetsTyped
<1>5. Sets' = Sets /\ Ways' = Ways BY <1>1, OptionsStay
<1>6. Recent[s] = Listed(btb[s], q, m)
  <2>0. config \in Configs /\ SetsTyped /\ s \in Sets /\ Ordered(btb[s], q, m)
    BY ONLY <1>0, <1>2, <1>3
  <2>1. Recent[s] = [k \in 1..m |-> EntryAt(s, q[k])] BY ONLY <2>0, RecentIs
  <2> QED BY ONLY <2>1 DEF EntryAt, Listed
<1>7. Recent'[s] = Listed(new, Fronted(q, p), n)
  <2>0. PICK r : r = Fronted(q, p) /\ Ordered(new, r, n) BY <1>3
  <2>1. /\ btb'[s] = new /\ config' = config /\ Ways' = Ways BY <1>1, <1>4, <1>5
  <2>2. \E t : t = s /\ Ordered(btb'[t], r, n) BY <2>0, <2>1
  <2>3. PICK t : t = s /\ Ordered(btb'[t], r, n) BY <2>2
  <2>4. Ordered(btb[t], r, n)' BY ONLY <2>1, <2>3 DEF Ordered, Null
  <2>5. (config \in Configs)' /\ SetsTyped' /\ t \in Sets' BY <1>2, <1>5, <2>3 DEF PredInv, BtbInv
  <2>6. Recent'[t] = [k \in 1..n |-> EntryAt(t, r[k])]'
    <3>1. (config \in Configs)' /\ SetsTyped' /\ t \in Sets' /\ Ordered(btb[t], r, n)' BY <2>4, <2>5
    <3> QED BY ONLY <3>1, RecentIsNext
  <2>7. \A w : EntryAt(t, w)' = [addr |-> new.addr[w], target |-> new.target[w]]
    BY <2>1, <2>3 DEF EntryAt
  <2>8. Listed(new, r, n) = [k \in 1..n |-> [addr |-> new.addr[r[k]], target |-> new.target[r[k]]]]
    BY DEF Listed
  <2>9. Recent'[t] = Listed(new, r, n) BY ONLY <2>6, <2>7, <2>8
  <2> QED BY <2>0, <2>3, <2>9
<1>8. \A r \in Sets : r # s => Recent'[r] = Recent[r]
  BY <1>1, <1>4, RecentStays
<1> DEFINE e == [addr |-> b, target |-> new.target[q[p]]]
           seq == Recent[s]
           free == Lru!Freed(seq, b)
           used == [k \in 1..(IF free > Len(seq) THEN free ELSE Len(seq)) |->
                       IF k = 1 THEN e ELSE IF k <= free THEN seq[k - 1] ELSE seq[k]]
<1>9. Recent'[s] = used
  <2> HIDE DEF seq, free, e
  <2>1. seq = Listed(btb[s], q, m) BY <1>6 DEF seq
  <2>2. free = Lru!Freed(seq, b) BY DEF free
  <2>3. e = [addr |-> b, target |-> new.target[q[p]]] BY DEF e
  <2>4. Listed(new, Fronted(q, p), n) = used
    BY ONLY <1>0, <1>3, <2>1, <2>2, <2>3, ComesIsUse DEF used
  <2> QED BY <1>7, <2>4
<1>10. Recent' = [Recent EXCEPT ![s] = used]
  <2>1. Recent = [r \in Sets |-> Recent[r]] /\ Recent' = [r \in Sets |-> Recent'[r]]
    BY <1>5 DEF Recent
  <2> HIDE DEF used
  <2> QED BY ONLY <1>2, <1>8, <1>9, <2>1
<1>11. e \in [addr : Branches, target : Destinations] /\ e.addr = b
  BY <1>1, <1>3 DEF Comes
<1>12. Lru!Use(s, e)
  <2>1. UNCHANGED <<config.assoc, [addr : Branches, target : Destinations]>>
    BY <1>1, LruParametersStay
  <2>2. Recent' = [Recent EXCEPT ![s] =
             [k \in 1..(IF Lru!Freed(Recent[s], e.addr) > Len(Recent[s])
                        THEN Lru!Freed(Recent[s], e.addr) ELSE Len(Recent[s])) |->
                IF k = 1 THEN e ELSE IF k <= Lru!Freed(Recent[s], e.addr)
                THEN Recent[s][k - 1] ELSE Recent[s][k]]]
    BY <1>10, <1>11
  <2> HIDE DEF e
  <2> QED BY <2>1, <2>2 DEF Lru!Use
<1>13. s \in DOMAIN Recent BY <1>2 DEF Recent
<1> QED BY <1>11, <1>12, <1>13 DEF Lru!Next

LEMMA LruStep ==
  PredInv /\ PredInv' /\ [Next]_vars =>
      [Lru!Next]_<<config.assoc, [addr : Branches, target : Destinations], Recent>>
<1> SUFFICES ASSUME PredInv, PredInv', [Next]_vars
             PROVE  [Lru!Next]_<<config.assoc, [addr : Branches, target : Destinations], Recent>>
  OBVIOUS
<1>1. CASE Commit /\ Head(ruu).next_PC # Head(ruu).PC + 1 BY <1>1, CommitUses
<1>2. CASE Commit /\ Head(ruu).next_PC = Head(ruu).PC + 1
  <2>1. config' = config /\ btb' = btb BY <1>2, CommitBtb
  <2> QED BY <2>1, LruStutters
<1>3. CASE UNCHANGED vars
  <2>1. config' = config /\ btb' = btb BY <1>3 DEF vars, predictor
  <2> QED BY <2>1, LruStutters
<1>4. CASE Misfetch \/ Dispatch \/ Recover \/ CommitReturn
  <2>1. config' = config /\ btb' = btb
    BY <1>4 DEF Misfetch, Dispatch, Recover, CommitReturn, predictor
  <2> QED BY <2>1, LruStutters
<1>5. ASSUME NEW b \in Branches, NEW npc \in Outcomes(b), Fetch(b, npc)
      PROVE  UNCHANGED <<config.assoc, [addr : Branches, target : Destinations], Recent>>
  <2>1. config' = config /\ btb' = btb BY <1>5 DEF Fetch, predictor
  <2> QED BY <2>1, LruStutters
<1> QED BY <1>1, <1>2, <1>3, <1>4, <1>5 DEF Next

\* The linked lists of the branch target buffer implement LruSpec: each set holds the
\* branches last updated as taken, the latest first, whatever the number of its ways and
\* however lookups, squashes and commits interleave.
THEOREM BtbImplementsLru == Spec => BtbIsLru
<1>1. Spec => Init /\ [][Next]_vars BY DEF Spec
<1>2. PredInv /\ PredInv' /\ [Next]_vars =>
          [Lru!Next]_<<config.assoc, [addr : Branches, target : Destinations], Recent>>
  BY LruStep
<1> QED BY <1>1, <1>2, LruInit, PredInvariant, PTL DEF BtbIsLru, Lru!Spec
=============================================================================

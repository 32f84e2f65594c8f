------------------------- MODULE CalibrationProofs -------------------------
(***************************************************************************)
(* Proofs about the flow of the calibration, for every number of groups,   *)
(* every length of the delay chains, every latency and every choice of the *)
(* searches.  The invariant has two parts: Wires relates what is written   *)
(* to the scan chains, what the pins run with and what has been chosen;    *)
(* Reports relates the registers that others read to how far it has come.  *)
(***************************************************************************)
EXTENDS Calibration, TLAPS

Fields == ChainFields \cup PinFields
Scc == [dqs_in : [Groups -> Nat], en : [Groups -> Enables], oct : [Groups -> Nat],
        dq_in : Nat, dq_out : Nat, dm_out : Nat, dqs_out : Nat,
        dqs_ena : SUBSET Groups, pin_ena : SUBSET PinFields, counter : Groups]
Settings == [Groups -> [Fields -> Nat \cup Enables]]

InGroup == {"vfifo", "sweep", "deskew", "writes", "vfifo_end"}

\* What is written for the output side of a group.
Outputs(s, x) == <<s.dq_out, s.dm_out, s.dqs_out, s.oct[x]>>
Reserve == <<0, 0, IO_DQS_OUT_RESERVE, IO_DQS_OUT_RESERVE>>

Types ==
    /\ scc \in Scc /\ io \in Settings /\ chosen \in Settings
    /\ group \in Nat /\ d \in Nat /\ dqs_in_dtaps \in Nat /\ orig_start_dqs \in Nat

\* Nothing waits to be loaded, and the chains of every group hold what is written.
AllLoaded ==
    /\ scc.dqs_ena = {} /\ scc.pin_ena = {}
    /\ \A x \in Groups : /\ io[x].dqs_in = scc.dqs_in[x]
                         /\ io[x].en = scc.en[x] /\ io[x].oct = scc.oct[x]

\* So do the pins of the group that is being calibrated.
PinsHold ==
    /\ group \in Groups /\ scc.counter = group
    /\ io[group].dq_in = scc.dq_in /\ io[group].dq_out = scc.dq_out
    /\ io[group].dm_out = scc.dm_out /\ io[group].dqs_out = scc.dqs_out

Finished == \A x \in Groups : x < group => io[x] = chosen[x]

\* An action leaves the pins of the other groups alone.
OthersAlone == \A x \in Groups : x # group => io'[x] = io[x]

Wires ==
    /\ Types /\ AllLoaded
    /\ pc \in InGroup => PinsHold
    /\ pc = "group" => group <= NumGroups
    /\ pc \in InGroup \cup {"group"} => Finished
    /\ pc \in {"vfifo", "sweep", "deskew"} /\ d = 0 => Outputs(scc, group) = Reserve
    /\ pc = "writes" => Outputs(scc, group) = Reserve
    /\ pc = "vfifo_end" =>
          /\ Outputs(scc, group) = <<chosen[group].dq_out, chosen[group].dm_out,
                                     chosen[group].dqs_out, chosen[group].oct>>
          /\ scc.en[group] = chosen[group].en
    /\ pc \in {"lfifo", "latency"} => io = chosen
-----------------------------------------------------------------------------
(* What a load of the scan chains does *)

\* A write for one group: all that differs from what is loaded is that group's, and marked.
Touches(s) ==
    /\ s \in Scc /\ s.counter = group /\ s.dqs_ena \subseteq {group}
    /\ \A x \in Groups : x \notin s.dqs_ena =>
          s.dqs_in[x] = scc.dqs_in[x] /\ s.en[x] = scc.en[x] /\ s.oct[x] = scc.oct[x]
    /\ "dq_in" \notin s.pin_ena => s.dq_in = scc.dq_in
    /\ "dq_out" \notin s.pin_ena => s.dq_out = scc.dq_out
    /\ "dm_out" \notin s.pin_ena => s.dm_out = scc.dm_out
    /\ "dqs_out" \notin s.pin_ena => s.dqs_out = scc.dqs_out

\* SCC_MGR_UPD() field by field.
LEMMA UpdLoads ==
    ASSUME NEW s \in Scc, io \in Settings, SCC_MGR_UPD(s)
    PROVE  /\ io' \in Settings /\ scc' \in Scc
           /\ scc'.dqs_ena = {} /\ scc'.pin_ena = {} /\ scc'.counter = s.counter
           /\ scc'.dqs_in = s.dqs_in /\ scc'.en = s.en /\ scc'.oct = s.oct
           /\ scc'.dq_in = s.dq_in /\ scc'.dq_out = s.dq_out
           /\ scc'.dm_out = s.dm_out /\ scc'.dqs_out = s.dqs_out
           /\ \A x \in Groups :
                 /\ io'[x].dqs_in = IF x \in s.dqs_ena THEN s.dqs_in[x] ELSE io[x].dqs_in
                 /\ io'[x].en = IF x \in s.dqs_ena THEN s.en[x] ELSE io[x].en
                 /\ io'[x].oct = IF x \in s.dqs_ena THEN s.oct[x] ELSE io[x].oct
                 /\ io'[x].dq_in = IF x = s.counter /\ "dq_in" \in s.pin_ena
                                   THEN s.dq_in ELSE io[x].dq_in
                 /\ io'[x].dq_out = IF x = s.counter /\ "dq_out" \in s.pin_ena
                                    THEN s.dq_out ELSE io[x].dq_out
                 /\ io'[x].dm_out = IF x = s.counter /\ "dm_out" \in s.pin_ena
                                    THEN s.dm_out ELSE io[x].dm_out
                 /\ io'[x].dqs_out = IF x = s.counter /\ "dqs_out" \in s.pin_ena
                                     THEN s.dqs_out ELSE io[x].dqs_out
<1>1. io' \in Settings
  BY DEF SCC_MGR_UPD, Scc, Loaded, ChainFields, PinFields, Fields, Settings
<1>2. /\ scc' \in Scc
      /\ scc'.dqs_ena = {} /\ scc'.pin_ena = {} /\ scc'.counter = s.counter
      /\ scc'.dqs_in = s.dqs_in /\ scc'.en = s.en /\ scc'.oct = s.oct
      /\ scc'.dq_in = s.dq_in /\ scc'.dq_out = s.dq_out
      /\ scc'.dm_out = s.dm_out /\ scc'.dqs_out = s.dqs_out
  BY DEF SCC_MGR_UPD, Scc
<1>3. ASSUME NEW x \in Groups
      PROVE  /\ io'[x].dqs_in = IF x \in s.dqs_ena THEN s.dqs_in[x] ELSE io[x].dqs_in
             /\ io'[x].en = IF x \in s.dqs_ena THEN s.en[x] ELSE io[x].en
             /\ io'[x].oct = IF x \in s.dqs_ena THEN s.oct[x] ELSE io[x].oct
  BY DEF SCC_MGR_UPD, Scc, Loaded, ChainFields, PinFields, Settings, Fields
<1>4. ASSUME NEW x \in Groups
      PROVE  /\ io'[x].dq_in = IF x = s.counter /\ "dq_in" \in s.pin_ena
                               THEN s.dq_in ELSE io[x].dq_in
             /\ io'[x].dq_out = IF x = s.counter /\ "dq_out" \in s.pin_ena
                                THEN s.dq_out ELSE io[x].dq_out
             /\ io'[x].dm_out = IF x = s.counter /\ "dm_out" \in s.pin_ena
                                THEN s.dm_out ELSE io[x].dm_out
             /\ io'[x].dqs_out = IF x = s.counter /\ "dqs_out" \in s.pin_ena
                                 THEN s.dqs_out ELSE io[x].dqs_out
  BY DEF SCC_MGR_UPD, Scc, Loaded, ChainFields, PinFields, Settings, Fields
<1> QED BY <1>1, <1>2, <1>3, <1>4

\* Two settings of a group are the same when their fields are.
LEMMA SameFields ==
    ASSUME NEW a \in [Fields -> Nat \cup Enables], NEW b \in [Fields -> Nat \cup Enables],
           a.dqs_in = b.dqs_in, a.en = b.en, a.oct = b.oct, a.dq_in = b.dq_in,
           a.dq_out = b.dq_out, a.dm_out = b.dm_out, a.dqs_out = b.dqs_out
    PROVE  a = b
BY DEF Fields, ChainFields, PinFields

\* A write for the current group, once loaded, is what its pins run with, and the pins of
\* the others run with what they did.
LEMMA TouchLoads ==
    ASSUME Types, AllLoaded, PinsHold, NEW s, Touches(s), SCC_MGR_UPD(s), group' \in Nat
    PROVE  /\ io' \in Settings /\ scc' \in Scc /\ AllLoaded'
           /\ group' = group => PinsHold'
           /\ Outputs(scc', group) = Outputs(s, group)
           /\ scc'.en = s.en /\ scc'.dqs_in = s.dqs_in /\ scc'.dq_in = s.dq_in
           /\ io'[group].dqs_in = s.dqs_in[group] /\ io'[group].en = s.en[group]
           /\ io'[group].oct = s.oct[group] /\ io'[group].dq_in = s.dq_in
           /\ io'[group].dq_out = s.dq_out /\ io'[group].dm_out = s.dm_out
           /\ io'[group].dqs_out = s.dqs_out
           /\ OthersAlone
<1>1. s \in Scc /\ io \in Settings /\ group \in Groups
  BY DEF Touches, Types, PinsHold
<1>2. AllLoaded' /\ io' \in Settings /\ scc' \in Scc
  BY <1>1, UpdLoads DEF AllLoaded, Touches
<1>3. /\ io'[group].dqs_in = s.dqs_in[group] /\ io'[group].en = s.en[group]
      /\ io'[group].oct = s.oct[group]
  BY <1>1, UpdLoads DEF AllLoaded, Touches
<1>4. /\ io'[group].dq_in = s.dq_in /\ io'[group].dq_out = s.dq_out
      /\ io'[group].dm_out = s.dm_out /\ io'[group].dqs_out = s.dqs_out
  BY <1>1, UpdLoads DEF PinsHold, Touches
<1>5. ASSUME NEW x \in Groups, x # group PROVE io'[x] = io[x]
  <2>1. io[x] \in [Fields -> Nat \cup Enables] /\ io'[x] \in [Fields -> Nat \cup Enables]
    BY <1>1, <1>2 DEF Settings
  <2>2. x \notin s.dqs_ena /\ x # s.counter
    BY <1>5 DEF Touches
  <2>3. /\ io'[x].dqs_in = io[x].dqs_in /\ io'[x].en = io[x].en /\ io'[x].oct = io[x].oct
        /\ io'[x].dq_in = io[x].dq_in /\ io'[x].dq_out = io[x].dq_out
        /\ io'[x].dm_out = io[x].dm_out /\ io'[x].dqs_out = io[x].dqs_out
    BY <1>1, <2>2, UpdLoads
  <2> QED BY <2>1, <2>3, SameFields
<1>6. group' = group => PinsHold'
  BY <1>1, <1>4, UpdLoads DEF PinsHold, Touches
<1>7. /\ Outputs(scc', group) = Outputs(s, group)
      /\ scc'.en = s.en /\ scc'.dqs_in = s.dqs_in /\ scc'.dq_in = s.dq_in
  BY <1>1, UpdLoads DEF Outputs
<1> QED BY <1>2, <1>3, <1>4, <1>5, <1>6, <1>7 DEF OthersAlone
-----------------------------------------------------------------------------
(* What the calls that write the scan chains leave as it was *)

LEMMA NothingTouched ==
    ASSUME Types, AllLoaded, PinsHold
    PROVE  Touches(scc)
BY DEF Touches, Types, AllLoaded, PinsHold

LEMMA SetDqsIn ==
    ASSUME PinsHold, NEW s, Touches(s), NEW v \in Nat
    PROVE  LET t == set_dqs_in(s, group, v)
           IN  /\ Touches(t) /\ Outputs(t, group) = Outputs(s, group)
               /\ t.en = s.en /\ t.dq_in = s.dq_in /\ t.dqs_in[group] = v
BY DEF Touches, Scc, PinsHold, Outputs, set_dqs_in, LoadDqs

LEMMA SetDqsEn ==
    ASSUME PinsHold, NEW s, Touches(s), NEW v \in Enables
    PROVE  LET t == set_dqs_en(s, group, v)
           IN  Touches(t) /\ Outputs(t, group) = Outputs(s, group)
BY DEF Touches, Scc, PinsHold, Outputs, set_dqs_en, LoadDqs

LEMMA SetDqIn ==
    ASSUME PinsHold, NEW s, Touches(s), NEW v \in Nat
    PROVE  LET t == set_dq_in(s, v)
           IN  /\ Touches(t) /\ Outputs(t, group) = Outputs(s, group)
               /\ t.en = s.en /\ t.dq_in = v /\ t.dqs_in = s.dqs_in
BY DEF Touches, Scc, PinsHold, Outputs, set_dq_in, LoadPins, DQ, PinFields

LEMMA SetDqOut ==
    ASSUME PinsHold, NEW s, Touches(s), NEW v \in Nat
    PROVE  LET t == set_dq_out(s, v)
           IN  /\ Touches(t) /\ t.en = s.en
               /\ Outputs(t, group) = <<v, s.dm_out, s.dqs_out, s.oct[group]>>
BY DEF Touches, Scc, PinsHold, Outputs, set_dq_out, LoadPins, DQ, PinFields

LEMMA SetDmOut ==
    ASSUME PinsHold, NEW s, Touches(s), NEW v \in Nat
    PROVE  LET t == set_dm_out(s, v)
           IN  /\ Touches(t) /\ t.en = s.en
               /\ Outputs(t, group) = <<s.dq_out, v, s.dqs_out, s.oct[group]>>
BY DEF Touches, Scc, PinsHold, Outputs, set_dm_out, LoadPins, PinFields

LEMMA SetDqsOut ==
    ASSUME PinsHold, NEW s, Touches(s), NEW v \in Nat
    PROVE  LET t == apply_group_dqs_io_and_oct_out1(s, group, v)
           IN  /\ Touches(t) /\ t.en = s.en
               /\ Outputs(t, group) = <<s.dq_out, s.dm_out, v, v>>
BY DEF Touches, Scc, PinsHold, Outputs, apply_group_dqs_io_and_oct_out1, LoadPins, LoadDqs, PinFields

LEMMA OutDelayAdd ==
    ASSUME PinsHold, NEW s, Touches(s), NEW v \in Nat
    PROVE  Touches(scc_mgr_apply_group_all_out_delay_add(s, group, v))
<1>1. Touches(apply_group_dqs_io_and_oct_out1(s, group, v))
  BY SetDqsOut
<1> QED
  BY <1>1 DEF scc_mgr_apply_group_all_out_delay_add, Touches, Scc, LoadPins, DQ, PinFields

LEMMA ZeroOutputs ==
    ASSUME PinsHold, NEW s, Touches(s)
    PROVE  LET t == scc_mgr_zero_group(s, group, TRUE)
           IN  Touches(t) /\ Outputs(t, group) = Reserve
<1> DEFINE a == set_dq_out(s, 0)
           b == set_dm_out(a, 0)
           c == apply_group_dqs_io_and_oct_out1(b, group, IO_DQS_OUT_RESERVE)
<1>1. Touches(a) /\ a.dq_out = 0
  BY SetDqOut DEF Outputs
<1>2. Touches(b) /\ b.dq_out = 0 /\ b.dm_out = 0
  <2> HIDE DEF a
  <2> QED BY <1>1, SetDmOut DEF Outputs
<1>3. Touches(c) /\ Outputs(c, group) = Reserve
  <2> HIDE DEF b
  <2> QED BY <1>2, SetDqsOut, CalibrationAssumption DEF Reserve
<1> QED BY <1>3 DEF scc_mgr_zero_group
-----------------------------------------------------------------------------
(* The wires, step by step *)

LEMMA WiresInit == Init => Wires
<1>1. SUFFICES ASSUME Init PROVE Wires
  OBVIOUS
<1>2. 0 \in Groups /\ 0 \in Enables
  BY CalibrationAssumption DEF Groups
<1>3. scc \in Scc
  BY <1>1, <1>2 DEF Init, Scc
<1>4. io \in Settings /\ chosen \in Settings
  BY <1>1 DEF Init, Settings, Fields, NoChoice
<1>5. AllLoaded
  BY <1>1 DEF Init, AllLoaded, NoChoice, ChainFields, PinFields
<1>6. pc = "sdram_calibration" /\ group = 0 /\ d = 0 /\ dqs_in_dtaps = 0 /\ orig_start_dqs = 0
  BY <1>1 DEF Init
<1> QED BY <1>3, <1>4, <1>5, <1>6 DEF Wires, Types, InGroup

\* A step of a group that only writes what is the group's keeps the invariant, and it
\* remains to show what is written for the outputs.
LEMMA GroupStep ==
    ASSUME Wires, pc \in InGroup, NEW s, Touches(s), SCC_MGR_UPD(s), UNCHANGED <<group, chosen>>,
           d' \in Nat, dqs_in_dtaps' \in Nat, orig_start_dqs' \in Nat
    PROVE  /\ Types' /\ AllLoaded' /\ PinsHold' /\ Finished'
           /\ Outputs(scc', group) = Outputs(s, group) /\ scc'.en = s.en /\ OthersAlone
<1>1. Types /\ AllLoaded /\ PinsHold /\ Finished /\ group' \in Nat
  BY DEF Wires, Types
<1>2. /\ io' \in Settings /\ scc' \in Scc /\ AllLoaded' /\ PinsHold'
      /\ Outputs(scc', group) = Outputs(s, group) /\ scc'.en = s.en
      /\ OthersAlone
  BY <1>1, TouchLoads
<1>3. Types'
  BY <1>1, <1>2 DEF Types
<1>4. Finished'
  <2>1. SUFFICES ASSUME NEW x \in Groups, x < group PROVE io'[x] = chosen[x]
    BY DEF Finished
  <2>2. x # group
    BY <1>1, <2>1 DEF Types
  <2> QED BY <1>1, <1>2, <2>1, <2>2 DEF Finished, OthersAlone
<1> QED BY <1>2, <1>3, <1>4

LEMMA WiresZeroAll == Wires /\ ZeroAll => Wires'
<1>1. SUFFICES ASSUME Wires, ZeroAll PROVE Wires'
  OBVIOUS
<1> DEFINE s == scc_mgr_zero_all(scc)
<1>2. Types /\ AllLoaded /\ s \in Scc /\ s.dqs_ena = Groups
  <2>1. Types /\ AllLoaded
    BY <1>1 DEF Wires
  <2>2. IO_DQS_IN_RESERVE \in Nat /\ IO_DQS_OUT_RESERVE \in Nat /\ 0 \in Enables
    BY CalibrationAssumption
  <2>3. /\ [x \in Groups |-> IO_DQS_IN_RESERVE] \in [Groups -> Nat]
        /\ [x \in Groups |-> 0] \in [Groups -> Enables]
        /\ [x \in Groups |-> IO_DQS_OUT_RESERVE] \in [Groups -> Nat]
    BY <2>2
  <2> QED BY <2>1, <2>3 DEF Types, Scc, scc_mgr_zero_all, LoadDqs
<1>3. AllLoaded' /\ io' \in Settings /\ scc' \in Scc
  <2> HIDE DEF s
  <2>1. SCC_MGR_UPD(s)
    BY <1>1 DEF ZeroAll, s
  <2> QED BY <1>2, <2>1, UpdLoads DEF Types, AllLoaded
<1>4. Types'
  BY <1>1, <1>2, <1>3 DEF ZeroAll, Types, history
<1>5. Finished'
  BY <1>1, <1>4 DEF ZeroAll, Finished, Groups, Types
<1> QED BY <1>1, <1>3, <1>4, <1>5, CalibrationAssumption DEF Wires, ZeroAll, InGroup

LEMMA WiresNextGroup == Wires /\ NextGroup => Wires' /\ OthersAlone
<1>1. SUFFICES ASSUME Wires, NextGroup PROVE Wires' /\ OthersAlone
  OBVIOUS
<1>2. Types /\ AllLoaded /\ Finished /\ group <= NumGroups /\ pc = "group"
  BY <1>1 DEF Wires, NextGroup
<1>3. CASE group = NumGroups
  <2>1. io = chosen
    <3>1. \A x \in Groups : io[x] = chosen[x]
      BY <1>2, <1>3, CalibrationAssumption DEF Finished, Groups
    <3> QED BY <1>2, <3>1 DEF Types, Settings
  <2>2. UNCHANGED <<scc, io, chosen, group, d, dqs_in_dtaps, orig_start_dqs>> /\ pc' = "lfifo"
    BY <1>1, <1>3 DEF NextGroup, history
  <2> QED BY <1>2, <2>1, <2>2 DEF Wires, Types, AllLoaded, InGroup, OthersAlone
<1>4. CASE group # NumGroups
  <2> DEFINE z == [scc EXCEPT !.counter = group]
             s == scc_mgr_zero_group(z, group, FALSE)
             a == set_dq_in(z, 0)
             b == set_dq_out(a, 0)
             c == set_dm_out(b, 0)
  <2>1. group \in Groups
    BY <1>2, <1>4, CalibrationAssumption DEF Types, Groups
  <2>2. /\ s \in Scc /\ s.counter = group /\ s.dqs_ena = {group} /\ s.pin_ena = PinFields
        /\ Outputs(s, group) = Reserve
        /\ s.dqs_in = scc.dqs_in /\ s.en = scc.en
        /\ \A x \in Groups : x # group => s.oct[x] = scc.oct[x]
    <3>1. /\ z \in Scc /\ z.counter = group /\ z.dqs_ena = {} /\ z.pin_ena = {}
          /\ z.dqs_in = scc.dqs_in /\ z.en = scc.en /\ z.oct = scc.oct
      BY <1>2, <2>1 DEF Types, AllLoaded, Scc
    <3> HIDE DEF z
    <3>2. /\ a \in Scc /\ a.counter = group /\ a.dqs_ena = {} /\ a.pin_ena = DQ
          /\ a.dqs_in = scc.dqs_in /\ a.en = scc.en /\ a.oct = scc.oct
      BY <3>1 DEF Scc, set_dq_in, LoadPins, DQ, PinFields
    <3> HIDE DEF a
    <3>3. /\ b \in Scc /\ b.counter = group /\ b.dqs_ena = {} /\ b.pin_ena = DQ
          /\ b.dqs_in = scc.dqs_in /\ b.en = scc.en /\ b.oct = scc.oct /\ b.dq_out = 0
      BY <3>2 DEF Scc, set_dq_out, LoadPins, DQ, PinFields
    <3> HIDE DEF b
    <3>4. /\ c \in Scc /\ c.counter = group /\ c.dqs_ena = {} /\ c.pin_ena = DQ \cup {"dm_out"}
          /\ c.dqs_in = scc.dqs_in /\ c.en = scc.en /\ c.oct = scc.oct /\ c.dq_out = 0
          /\ c.dm_out = 0
      BY <3>3 DEF Scc, set_dm_out, LoadPins, DQ, PinFields
    <3> HIDE DEF c
    <3>5. s = apply_group_dqs_io_and_oct_out1(c, group, IO_DQS_OUT_RESERVE)
      BY DEF scc_mgr_zero_group, a, b, c
    <3> HIDE DEF s
    <3>6. /\ s \in Scc /\ s.counter = group /\ s.dqs_ena = {group} /\ s.pin_ena = PinFields
          /\ s.dq_out = 0 /\ s.dm_out = 0 /\ s.dqs_out = IO_DQS_OUT_RESERVE
          /\ s.oct = [scc.oct EXCEPT ![group] = IO_DQS_OUT_RESERVE]
          /\ s.dqs_in = scc.dqs_in /\ s.en = scc.en
      BY <2>1, <3>4, <3>5, CalibrationAssumption
         DEF Scc, apply_group_dqs_io_and_oct_out1, LoadPins, LoadDqs, DQ, PinFields
    <3> QED BY <1>2, <2>1, <3>6 DEF Types, Scc, Outputs, Reserve
  <2>3. /\ SCC_MGR_UPD(s) /\ UNCHANGED <<chosen, group, dqs_in_dtaps, orig_start_dqs>>
        /\ d' = 0 /\ pc' = "vfifo"
    BY <1>1, <1>4 DEF NextGroup, history
  <2> HIDE DEF s
  <2>4. AllLoaded' /\ PinsHold' /\ io' \in Settings /\ scc' \in Scc
        /\ Outputs(scc', group) = Reserve
    BY <1>2, <2>1, <2>2, <2>3, UpdLoads DEF Types, AllLoaded, PinsHold, PinFields, Outputs
  <2>5. ASSUME NEW x \in Groups, x # group PROVE io'[x] = io[x]
    <3>1. io[x] \in [Fields -> Nat \cup Enables] /\ io'[x] \in [Fields -> Nat \cup Enables]
      BY <1>2, <2>4 DEF Settings, Types
    <3>2. x \notin s.dqs_ena /\ x # s.counter
      BY <2>2, <2>5
    <3>3. /\ io'[x].dqs_in = io[x].dqs_in /\ io'[x].en = io[x].en /\ io'[x].oct = io[x].oct
          /\ io'[x].dq_in = io[x].dq_in /\ io'[x].dq_out = io[x].dq_out
          /\ io'[x].dm_out = io[x].dm_out /\ io'[x].dqs_out = io[x].dqs_out
      BY <1>2, <2>2, <2>3, <3>2, UpdLoads DEF Types
    <3> QED BY <3>1, <3>2, <3>3, SameFields
  <2>6. Types' /\ Finished'
    BY <1>2, <2>1, <2>3, <2>4, <2>5 DEF Types, Finished, Groups
  <2> QED BY <2>3, <2>4, <2>5, <2>6 DEF Wires, InGroup, OthersAlone
<1> QED BY <1>3, <1>4
-----------------------------------------------------------------------------
\* Outside the groups, a step that leaves the wires alone keeps the invariant.
LEMMA WiresIdle ==
    ASSUME Wires, UNCHANGED <<scc, io, chosen, group>>,
           d' \in Nat, dqs_in_dtaps' \in Nat, orig_start_dqs' \in Nat,
           pc' \notin InGroup \cup {"group"},
           pc' \in {"lfifo", "latency"} => pc \in {"lfifo", "latency"}
    PROVE  Wires'
BY DEF Wires, Types, AllLoaded, InGroup

LEMMA WiresMemCalibrate == Wires /\ mem_calibrate => Wires'
<1>1. SUFFICES ASSUME Wires, mem_calibrate PROVE Wires'
  OBVIOUS
<1>2. Types /\ AllLoaded
  BY <1>1 DEF Wires
<1>3. /\ io' = [x \in Groups |-> [f \in ChainFields \cup PinFields |->
                     IF f \in ChainFields THEN scc[f][x] ELSE scc[f]]]
      /\ scc' = [scc EXCEPT !.counter = NumGroups - 1]
      /\ chosen' = [x \in Groups |-> NoChoice] /\ pc' = "zero_all"
      /\ UNCHANGED <<group, d, dqs_in_dtaps, orig_start_dqs>>
  BY <1>1 DEF mem_calibrate, scc_set_bypass_mode, locals
<1>4. NumGroups - 1 \in Groups
  BY CalibrationAssumption DEF Groups
<1>5. scc' \in Scc /\ scc'.dqs_ena = {} /\ scc'.pin_ena = {}
      /\ scc'.dqs_in = scc.dqs_in /\ scc'.en = scc.en /\ scc'.oct = scc.oct
  BY <1>2, <1>3, <1>4 DEF Types, AllLoaded, Scc
<1>6. chosen' \in Settings
  BY <1>3 DEF NoChoice, Settings, Fields
<1>7. io' \in Settings
  <2>1. \A x \in Groups : \A f \in Fields :
           (IF f \in ChainFields THEN scc[f][x] ELSE scc[f]) \in Nat \cup Enables
    BY <1>2 DEF Types, Scc, Fields, ChainFields, PinFields
  <2> QED BY <1>3, <2>1 DEF Settings, Fields
<1>8. AllLoaded'
  <2>1. ASSUME NEW x \in Groups
        PROVE  /\ io'[x].dqs_in = scc.dqs_in[x] /\ io'[x].en = scc.en[x]
               /\ io'[x].oct = scc.oct[x]
    BY <1>3 DEF ChainFields, PinFields
  <2> QED BY <1>5, <2>1 DEF AllLoaded
<1>9. Types'
  BY <1>2, <1>3, <1>5, <1>6, <1>7 DEF Types
<1> QED BY <1>3, <1>8, <1>9 DEF Wires, InGroup

LEMMA WiresGuaranteedRead == Wires /\ GuaranteedRead => Wires' /\ OthersAlone
<1>1. SUFFICES ASSUME Wires, GuaranteedRead PROVE Wires' /\ OthersAlone
  OBVIOUS
<1>2. Types /\ PinsHold /\ AllLoaded /\ pc = "vfifo" /\ Touches(scc)
  BY <1>1, NothingTouched DEF Wires, GuaranteedRead, InGroup
<1> DEFINE moved == IF d > 0 THEN scc_mgr_apply_group_all_out_delay_add(scc, group, d) ELSE scc
<1>3. Touches(moved) /\ (d = 0 => moved = scc)
  BY <1>2, OutDelayAdd DEF Types
<1>4. PICK en \in Enables : SCC_MGR_UPD(set_dqs_en(moved, group, en))
  BY <1>1 DEF GuaranteedRead
<1> DEFINE s == set_dqs_en(moved, group, en)
<1>5. Touches(s) /\ Outputs(s, group) = Outputs(moved, group) /\ SCC_MGR_UPD(s)
  <2> HIDE DEF moved
  <2> QED BY <1>2, <1>3, <1>4, SetDqsEn
<1>6. UNCHANGED <<group, chosen>>
  BY <1>1 DEF GuaranteedRead, SkipFlow, history
<1>7. /\ d' \in Nat /\ dqs_in_dtaps' \in Nat /\ orig_start_dqs' \in Nat
      /\ pc' \in {"vfifo", "sweep"} /\ (d' = 0 => d = 0)
  BY <1>1, <1>2, CalibrationAssumption DEF GuaranteedRead, Types, PinsHold, Scc
<1>8. /\ Types' /\ AllLoaded' /\ PinsHold' /\ Finished' /\ OthersAlone
      /\ Outputs(scc', group) = Outputs(s, group)
  <2> HIDE DEF s
  <2> QED BY <1>1, <1>2, <1>5, <1>6, <1>7, GroupStep DEF InGroup
<1>9. d' = 0 => Outputs(scc', group') = Reserve
  BY <1>1, <1>2, <1>3, <1>5, <1>6, <1>7, <1>8 DEF Wires
<1> QED BY <1>7, <1>8, <1>9 DEF Wires, InGroup

LEMMA WiresFindDqsEnPhase == Wires /\ FindDqsEnPhase => Wires' /\ OthersAlone
<1>1. SUFFICES ASSUME Wires, FindDqsEnPhase PROVE Wires' /\ OthersAlone
  OBVIOUS
<1>2. Types /\ PinsHold /\ AllLoaded /\ pc = "sweep" /\ Touches(scc)
  BY <1>1, NothingTouched DEF Wires, FindDqsEnPhase, InGroup
<1>3. PICK en \in Enables :
         \/ /\ SCC_MGR_UPD(set_dqs_in(set_dq_in(set_dqs_en(set_dqs_in(scc, group, dqs_in_dtaps),
                                                           group, en), 0), group, orig_start_dqs))
            /\ pc' = "deskew" /\ UNCHANGED dqs_in_dtaps
         \/ /\ SCC_MGR_UPD(set_dq_in(set_dqs_en(set_dqs_in(scc, group, dqs_in_dtaps), group, en), 0))
            /\ pc' = "sweep" /\ dqs_in_dtaps' = dqs_in_dtaps + 1
  BY <1>1, <1>2 DEF FindDqsEnPhase
<1> DEFINE a == set_dqs_in(scc, group, dqs_in_dtaps)
           b == set_dqs_en(a, group, en)
           c == set_dq_in(b, 0)
           e == set_dqs_in(c, group, orig_start_dqs)
<1>4. Touches(a) /\ Outputs(a, group) = Outputs(scc, group)
  BY <1>2, SetDqsIn DEF Types
<1>5. Touches(b) /\ Outputs(b, group) = Outputs(scc, group)
  <2> HIDE DEF a
  <2> QED BY <1>2, <1>4, SetDqsEn
<1>6. Touches(c) /\ Outputs(c, group) = Outputs(scc, group)
  <2> HIDE DEF b
  <2> QED BY <1>2, <1>5, SetDqIn
<1>7. Touches(e) /\ Outputs(e, group) = Outputs(scc, group)
  <2> HIDE DEF c
  <2> QED BY <1>2, <1>6, SetDqsIn DEF Types
<1>8. PICK s : Touches(s) /\ Outputs(s, group) = Outputs(scc, group) /\ SCC_MGR_UPD(s)
  BY <1>3, <1>6, <1>7
<1>9. /\ UNCHANGED <<group, chosen, d, orig_start_dqs>>
      /\ dqs_in_dtaps' \in Nat /\ pc' \in {"deskew", "sweep"}
  BY <1>1, <1>2, <1>3 DEF FindDqsEnPhase, SkipFlow, history, Types
<1>10. /\ Types' /\ AllLoaded' /\ PinsHold' /\ Finished' /\ OthersAlone
       /\ Outputs(scc', group) = Outputs(scc, group)
  BY <1>1, <1>2, <1>8, <1>9, GroupStep DEF InGroup, Types
<1> QED BY <1>1, <1>2, <1>9, <1>10 DEF Wires, InGroup

LEMMA WiresSweepEnds == Wires /\ SweepEnds => Wires' /\ OthersAlone
<1>1. SUFFICES ASSUME Wires, SweepEnds PROVE Wires' /\ OthersAlone
  OBVIOUS
<1>2. /\ UNCHANGED <<scc, io, chosen, group, dqs_in_dtaps, orig_start_dqs>>
      /\ pc = "sweep" /\ pc' = "vfifo" /\ d' = d + 2
  BY <1>1 DEF SweepEnds, SkipFlow, history
<1> QED BY <1>1, <1>2 DEF Wires, Types, AllLoaded, PinsHold, Finished, InGroup, OthersAlone
-----------------------------------------------------------------------------
\* What the search for the centre writes is the input side of the group.
LEMMA CentreTouches ==
    ASSUME Types, AllLoaded, PinsHold, NEW dq \in Nat, NEW dqs \in Nat
    PROVE  LET t == set_dqs_in(set_dq_in(scc, dq), group, dqs)
           IN  /\ Touches(t) /\ Outputs(t, group) = Outputs(scc, group)
               /\ t.en = scc.en /\ t.dq_in = dq /\ t.dqs_in[group] = dqs
<1> DEFINE a == set_dq_in(scc, dq)
<1>1. /\ Touches(a) /\ Outputs(a, group) = Outputs(scc, group)
      /\ a.en = scc.en /\ a.dq_in = dq
  BY NothingTouched, SetDqIn
<1> HIDE DEF a
<1>2. /\ Touches(set_dqs_in(a, group, dqs))
      /\ Outputs(set_dqs_in(a, group, dqs), group) = Outputs(scc, group)
      /\ set_dqs_in(a, group, dqs).en = scc.en /\ set_dqs_in(a, group, dqs).dq_in = dq
      /\ set_dqs_in(a, group, dqs).dqs_in[group] = dqs
  BY <1>1, SetDqsIn
<1> QED BY <1>2 DEF a

\* Whether or not there is a centre, what a failed search has loaded touches one group.
LEMMA FailedCentre ==
    ASSUME Types, AllLoaded, PinsHold,
           NoWindow(scc) \/ \E dq, dqs \in Delays : Centred(scc, dq, dqs)
    PROVE  \E s : Touches(s) /\ Outputs(s, group) = Outputs(scc, group) /\ SCC_MGR_UPD(s)
<1>1. scc.dqs_in[group] \in Nat /\ Delays \subseteq Nat
  BY CalibrationAssumption DEF Types, Scc, PinsHold
<1>2. CASE NoWindow(scc)
  BY <1>1, <1>2, CentreTouches DEF NoWindow
<1>3. CASE \E dq, dqs \in Delays : Centred(scc, dq, dqs)
  <2>1. PICK dq \in Nat, dqs \in Nat : Centred(scc, dq, dqs)
    BY <1>1, <1>3
  <2> QED BY <2>1, CentreTouches DEF Centred
<1> QED BY <1>2, <1>3

LEMMA WiresDeskewFails == Wires /\ DeskewFails => Wires' /\ OthersAlone
<1>1. SUFFICES ASSUME Wires, DeskewFails PROVE Wires' /\ OthersAlone
  OBVIOUS
<1>2. Types /\ PinsHold /\ AllLoaded /\ pc = "deskew"
  BY <1>1 DEF Wires, DeskewFails, InGroup
<1>3. PICK s : Touches(s) /\ Outputs(s, group) = Outputs(scc, group) /\ SCC_MGR_UPD(s)
  BY <1>1, <1>2, FailedCentre DEF DeskewFails
<1>4. /\ UNCHANGED <<group, chosen, d, orig_start_dqs>>
      /\ dqs_in_dtaps' \in Nat /\ pc' = "sweep"
  BY <1>1, <1>2 DEF DeskewFails, SkipFlow, history, Types
<1>5. /\ Types' /\ AllLoaded' /\ PinsHold' /\ Finished' /\ OthersAlone
      /\ Outputs(scc', group) = Outputs(scc, group)
  BY <1>1, <1>2, <1>3, <1>4, GroupStep DEF InGroup, Types
<1> QED BY <1>1, <1>2, <1>4, <1>5 DEF Wires, InGroup

\* Where the outputs have not been moved they are where they began.
LEMMA WiresDeskew == Wires /\ Deskew => Wires' /\ OthersAlone
<1>1. SUFFICES ASSUME Wires, Deskew PROVE Wires' /\ OthersAlone
  OBVIOUS
<1>2. Types /\ PinsHold /\ AllLoaded /\ pc = "deskew"
  BY <1>1 DEF Wires, Deskew, InGroup
<1>3. PICK dq \in Delays, dqs \in Delays :
         SCC_MGR_UPD(IF Moved THEN scc_mgr_zero_group(set_dqs_in(set_dq_in(scc, dq), group, dqs),
                                                      group, TRUE)
                     ELSE set_dqs_in(set_dq_in(scc, dq), group, dqs))
  BY <1>1 DEF Deskew
<1> DEFINE t == set_dqs_in(set_dq_in(scc, dq), group, dqs)
<1>4. Touches(t) /\ Outputs(t, group) = Outputs(scc, group)
  BY <1>2, CentreTouches, CalibrationAssumption
<1>5. PICK s : Touches(s) /\ Outputs(s, group) = Reserve /\ SCC_MGR_UPD(s)
  <2> HIDE DEF t
  <2>1. SCC_MGR_UPD(IF Moved THEN scc_mgr_zero_group(t, group, TRUE) ELSE t)
    BY <1>3 DEF t
  <2>2. CASE Moved
    BY <1>2, <1>4, <2>1, <2>2, ZeroOutputs
  <2>3. CASE ~Moved
    <3>1. d = 0
      BY <1>2, <2>3 DEF Moved, Types
    <3>2. Outputs(scc, group) = Reserve
      BY <1>1, <1>2, <3>1 DEF Wires
    <3>3. Touches(t) /\ Outputs(t, group) = Reserve /\ SCC_MGR_UPD(t)
      BY <1>4, <2>1, <2>3, <3>2
    <3> QED BY <3>3
  <2> QED BY <2>2, <2>3
<1>6. /\ UNCHANGED <<group, chosen>> /\ pc' = "writes"
      /\ d' \in Nat /\ dqs_in_dtaps' \in Nat /\ orig_start_dqs' \in Nat
  BY <1>1 DEF Deskew, SkipFlow, VfifoReturns
<1>7. /\ Types' /\ AllLoaded' /\ PinsHold' /\ Finished' /\ OthersAlone
      /\ Outputs(scc', group) = Reserve
  BY <1>1, <1>2, <1>5, <1>6, GroupStep DEF InGroup
<1> QED BY <1>6, <1>7 DEF Wires, InGroup

\* What the writes are trained to.
LEMMA WritesTouch ==
    ASSUME Types, AllLoaded, PinsHold, NEW dq \in Nat, NEW dm \in Nat
    PROVE  LET t == apply_group_dqs_io_and_oct_out1(set_dm_out(set_dq_out(scc, dq), dm),
                                                    group, scc.dqs_out)
           IN  Touches(t) /\ t.en = scc.en /\ Outputs(t, group) = <<dq, dm, scc.dqs_out, scc.dqs_out>>
<1> DEFINE a == set_dq_out(scc, dq)
           b == set_dm_out(a, dm)
<1>1. Touches(a) /\ a.en = scc.en /\ a.dq_out = dq
  BY NothingTouched, SetDqOut DEF Outputs
<1>2. Touches(b) /\ b.en = scc.en /\ b.dq_out = dq /\ b.dm_out = dm
  <2> HIDE DEF a
  <2> QED BY <1>1, SetDmOut DEF Outputs
<1>3. scc.dqs_out \in Nat
  BY DEF Types, Scc
<1> HIDE DEF b
<1>4. LET t == apply_group_dqs_io_and_oct_out1(b, group, scc.dqs_out)
      IN  Touches(t) /\ t.en = scc.en /\ Outputs(t, group) = <<dq, dm, scc.dqs_out, scc.dqs_out>>
  BY <1>2, <1>3, SetDqsOut
<1> QED BY <1>4 DEF b

LEMMA WiresWritesFail == Wires /\ WritesFail => Wires' /\ OthersAlone
<1>1. SUFFICES ASSUME Wires, WritesFail PROVE Wires' /\ OthersAlone
  OBVIOUS
<1>2. Types /\ PinsHold /\ AllLoaded /\ pc = "writes" /\ Delays \subseteq Nat
  BY <1>1, CalibrationAssumption DEF Wires, WritesFail, InGroup
<1>3. PICK s : Touches(s) /\ SCC_MGR_UPD(s)
  <2>1. CASE \E dqs \in Delays :
                SCC_MGR_UPD(apply_group_dqs_io_and_oct_out1(set_dq_out(scc, 0), group,
                                                            scc.dqs_out + dqs))
    <3>1. PICK dqs \in Delays :
             SCC_MGR_UPD(apply_group_dqs_io_and_oct_out1(set_dq_out(scc, 0), group,
                                                         scc.dqs_out + dqs))
      BY <2>1
    <3>2. Touches(set_dq_out(scc, 0))
      BY <1>2, NothingTouched, SetDqOut
    <3>3. scc.dqs_out + dqs \in Nat
      BY <1>2 DEF Types, Scc
    <3>4. ASSUME NEW w, Touches(w), NEW v \in Nat
          PROVE  Touches(apply_group_dqs_io_and_oct_out1(w, group, v))
      BY <1>2, <3>4, SetDqsOut
    <3> QED BY <3>1, <3>2, <3>3, <3>4
  <2>2. CASE \E dq, dm \in Delays :
                SCC_MGR_UPD(apply_group_dqs_io_and_oct_out1(
                                set_dm_out(set_dq_out(scc, dq), dm), group, scc.dqs_out))
    <3>1. PICK dq \in Nat, dm \in Nat :
             SCC_MGR_UPD(apply_group_dqs_io_and_oct_out1(
                             set_dm_out(set_dq_out(scc, dq), dm), group, scc.dqs_out))
      BY <1>2, <2>2
    <3> QED BY <1>2, <3>1, WritesTouch
  <2> QED BY <1>1, <2>1, <2>2 DEF WritesFail
<1>4. UNCHANGED <<group, chosen, d, dqs_in_dtaps, orig_start_dqs>> /\ pc' = "handoff"
  BY <1>1 DEF WritesFail, Stop
<1>5. Types' /\ AllLoaded' /\ OthersAlone
  BY <1>1, <1>2, <1>3, <1>4, GroupStep DEF InGroup, Types
<1> QED BY <1>4, <1>5 DEF Wires, InGroup

LEMMA WiresWrites == Wires /\ Writes => Wires' /\ OthersAlone
<1>1. SUFFICES ASSUME Wires, Writes PROVE Wires' /\ OthersAlone
  OBVIOUS
<1>2. Types /\ PinsHold /\ AllLoaded /\ Finished /\ pc = "writes" /\ Outputs(scc, group) = Reserve
  BY <1>1 DEF Wires, Writes, InGroup
<1>3. PICK dq \in Delays, dm \in Delays :
         /\ SCC_MGR_UPD(apply_group_dqs_io_and_oct_out1(set_dm_out(set_dq_out(scc, dq), dm),
                                                        group, scc.dqs_out))
         /\ chosen' = [chosen EXCEPT ![group].dq_out = dq, ![group].dm_out = dm,
                                     ![group].dqs_out = IO_DQS_OUT_RESERVE,
                                     ![group].oct = IO_DQS_OUT_RESERVE,
                                     ![group].en = scc.en[group]]
  BY <1>1 DEF Writes
<1> DEFINE s == apply_group_dqs_io_and_oct_out1(set_dm_out(set_dq_out(scc, dq), dm),
                                                group, scc.dqs_out)
<1>4. dq \in Nat /\ dm \in Nat /\ IO_DQS_OUT_RESERVE \in Nat /\ scc.dqs_out = IO_DQS_OUT_RESERVE
      /\ group \in Groups /\ scc.en[group] \in Enables
  BY <1>2, CalibrationAssumption DEF Outputs, Reserve, PinsHold, Types, Scc
<1>5. /\ Touches(s) /\ s.en = scc.en /\ SCC_MGR_UPD(s)
      /\ Outputs(s, group) = <<dq, dm, IO_DQS_OUT_RESERVE, IO_DQS_OUT_RESERVE>>
  BY <1>2, <1>3, <1>4, WritesTouch
<1> HIDE DEF s
<1>6. /\ group' = group /\ d' \in Nat /\ dqs_in_dtaps' \in Nat /\ orig_start_dqs' \in Nat
      /\ pc' = "vfifo_end"
  BY <1>1, <1>2 DEF Writes, SkipFlow, Types
<1>7. /\ chosen' \in Settings
      /\ chosen'[group].dq_out = dq /\ chosen'[group].dm_out = dm
      /\ chosen'[group].dqs_out = IO_DQS_OUT_RESERVE /\ chosen'[group].oct = IO_DQS_OUT_RESERVE
      /\ chosen'[group].en = scc.en[group]
      /\ \A x \in Groups : x # group => chosen'[x] = chosen[x]
  BY <1>2, <1>3, <1>4 DEF Types, Settings, Fields, ChainFields, PinFields
<1>8. /\ io' \in Settings /\ scc' \in Scc /\ AllLoaded' /\ PinsHold'
      /\ Outputs(scc', group) = <<dq, dm, IO_DQS_OUT_RESERVE, IO_DQS_OUT_RESERVE>>
      /\ scc'.en = scc.en /\ OthersAlone
  BY <1>2, <1>5, <1>6, TouchLoads DEF Types
<1>9. Types' /\ Finished'
  BY <1>2, <1>6, <1>7, <1>8 DEF Types, Finished, Groups, OthersAlone
<1> QED BY <1>6, <1>7, <1>8, <1>9 DEF Wires, InGroup

LEMMA WiresVfifoEndFails == Wires /\ VfifoEndFails => Wires' /\ OthersAlone
<1>1. SUFFICES ASSUME Wires, VfifoEndFails PROVE Wires' /\ OthersAlone
  OBVIOUS
<1>2. Types /\ PinsHold /\ AllLoaded /\ pc = "vfifo_end"
  BY <1>1 DEF Wires, VfifoEndFails, InGroup
<1>3. PICK s : Touches(s) /\ SCC_MGR_UPD(s)
  BY <1>1, <1>2, FailedCentre DEF VfifoEndFails
<1>4. UNCHANGED <<group, chosen, d, dqs_in_dtaps, orig_start_dqs>> /\ pc' = "handoff"
  BY <1>1 DEF VfifoEndFails, Stop
<1>5. Types' /\ AllLoaded' /\ OthersAlone
  BY <1>1, <1>2, <1>3, <1>4, GroupStep DEF InGroup, Types
<1> QED BY <1>4, <1>5 DEF Wires, InGroup

\* The group is finished: all seven settings are what has been chosen.
LEMMA WiresVfifoEnd == Wires /\ VfifoEnd => Wires' /\ OthersAlone
<1>1. SUFFICES ASSUME Wires, VfifoEnd PROVE Wires' /\ OthersAlone
  OBVIOUS
<1>2. /\ Types /\ PinsHold /\ AllLoaded /\ Finished /\ pc = "vfifo_end"
      /\ Outputs(scc, group) = <<chosen[group].dq_out, chosen[group].dm_out,
                                 chosen[group].dqs_out, chosen[group].oct>>
      /\ scc.en[group] = chosen[group].en
  BY <1>1 DEF Wires, VfifoEnd, InGroup
<1>3. PICK dq \in Delays, dqs \in Delays :
         /\ SCC_MGR_UPD(set_dqs_in(set_dq_in(scc, dq), group, dqs))
         /\ chosen' = [chosen EXCEPT ![group].dq_in = dq, ![group].dqs_in = dqs]
  BY <1>1 DEF VfifoEnd, Centred
<1> DEFINE s == set_dqs_in(set_dq_in(scc, dq), group, dqs)
<1>4. dq \in Nat /\ dqs \in Nat /\ group \in Groups
  BY <1>2, CalibrationAssumption DEF PinsHold
<1>5. /\ Touches(s) /\ Outputs(s, group) = Outputs(scc, group)
      /\ s.en = scc.en /\ s.dq_in = dq /\ s.dqs_in[group] = dqs /\ SCC_MGR_UPD(s)
  BY <1>2, <1>3, <1>4, CentreTouches
<1> HIDE DEF s
<1>6. /\ group' = group + 1 /\ UNCHANGED <<d, dqs_in_dtaps, orig_start_dqs>> /\ pc' = "group"
  BY <1>1 DEF VfifoEnd
<1>7. /\ chosen' \in Settings
      /\ chosen'[group].dq_in = dq /\ chosen'[group].dqs_in = dqs
      /\ chosen'[group].en = chosen[group].en /\ chosen'[group].oct = chosen[group].oct
      /\ chosen'[group].dq_out = chosen[group].dq_out
      /\ chosen'[group].dm_out = chosen[group].dm_out
      /\ chosen'[group].dqs_out = chosen[group].dqs_out
      /\ \A x \in Groups : x # group => chosen'[x] = chosen[x]
  BY <1>2, <1>3, <1>4 DEF Types, Settings, Fields, ChainFields, PinFields
<1>8. /\ io' \in Settings /\ scc' \in Scc /\ AllLoaded'
      /\ io'[group].dqs_in = s.dqs_in[group] /\ io'[group].en = s.en[group]
      /\ io'[group].oct = s.oct[group] /\ io'[group].dq_in = s.dq_in
      /\ io'[group].dq_out = s.dq_out /\ io'[group].dm_out = s.dm_out
      /\ io'[group].dqs_out = s.dqs_out
      /\ OthersAlone
  BY <1>2, <1>4, <1>5, <1>6, TouchLoads DEF Types
<1>9. io'[group] = chosen'[group]
  <2>1. io'[group] \in [Fields -> Nat \cup Enables] /\ chosen'[group] \in [Fields -> Nat \cup Enables]
    BY <1>4, <1>7, <1>8 DEF Settings
  <2>2. /\ s.oct[group] = chosen[group].oct /\ s.dq_out = chosen[group].dq_out
        /\ s.dm_out = chosen[group].dm_out /\ s.dqs_out = chosen[group].dqs_out
    BY <1>2, <1>5 DEF Outputs
  <2> QED BY <1>2, <1>5, <1>7, <1>8, <2>1, <2>2, SameFields
<1>10. Types' /\ Finished' /\ group' <= NumGroups
  BY <1>2, <1>4, <1>6, <1>7, <1>8, <1>9, CalibrationAssumption
     DEF Types, Finished, Groups, OthersAlone
<1> QED BY <1>6, <1>8, <1>10 DEF Wires, InGroup

\* A load with nothing marked changes nothing.
LEMMA EmptyLoad == Wires /\ SCC_MGR_UPD(scc) => io' = io /\ scc' \in Scc /\ AllLoaded'
<1>1. SUFFICES ASSUME Wires, SCC_MGR_UPD(scc) PROVE io' = io /\ scc' \in Scc /\ AllLoaded'
  OBVIOUS
<1>2. io \in Settings /\ scc \in Scc /\ AllLoaded
  BY <1>1 DEF Wires, Types
<1>3. io' \in Settings /\ scc' \in Scc /\ AllLoaded'
  BY <1>1, <1>2, UpdLoads DEF AllLoaded
<1>4. ASSUME NEW x \in Groups PROVE io'[x] = io[x]
  <2>1. /\ io'[x].dqs_in = io[x].dqs_in /\ io'[x].en = io[x].en /\ io'[x].oct = io[x].oct
        /\ io'[x].dq_in = io[x].dq_in /\ io'[x].dq_out = io[x].dq_out
        /\ io'[x].dm_out = io[x].dm_out /\ io'[x].dqs_out = io[x].dqs_out
    BY <1>1, <1>2, UpdLoads DEF AllLoaded
  <2>2. io[x] \in [Fields -> Nat \cup Enables] /\ io'[x] \in [Fields -> Nat \cup Enables]
    BY <1>2, <1>3 DEF Settings
  <2> QED BY <2>1, <2>2, SameFields
<1> QED BY <1>2, <1>3, <1>4 DEF Settings

LEMMA WiresLatency == Wires /\ Latency => Wires' /\ OthersAlone
<1>1. SUFFICES ASSUME Wires, Latency PROVE Wires' /\ OthersAlone
  OBVIOUS
<1>2. Types /\ AllLoaded' /\ scc' \in Scc /\ io' = io
  BY <1>1, EmptyLoad DEF Wires, Latency
<1>3. /\ UNCHANGED <<chosen, group, d, dqs_in_dtaps, orig_start_dqs>> /\ pc' = "handoff"
  BY <1>1 DEF Latency, history
<1> QED BY <1>2, <1>3 DEF Wires, Types, InGroup, OthersAlone

\* Wires is inductive: one step per action.
LEMMA WiresStep == Wires /\ [Next]_vars => Wires'
<1>1. SUFFICES ASSUME Wires, [Next]_vars PROVE Wires'
  OBVIOUS
<1>2. d \in Nat /\ dqs_in_dtaps \in Nat /\ orig_start_dqs \in Nat
  BY <1>1 DEF Wires, Types
<1>3. CASE sdram_calibration
  BY <1>1, <1>2, <1>3, WiresIdle DEF sdram_calibration, locals, history, InGroup
<1>4. CASE run_mem_calibrate
  BY <1>1, <1>2, <1>4, WiresIdle DEF run_mem_calibrate, history, InGroup
<1>5. CASE initialize
  BY <1>1, <1>2, <1>5, WiresIdle DEF initialize, locals, history, InGroup
<1>6. CASE VfifoFails
  BY <1>1, <1>2, <1>6, WiresIdle DEF VfifoFails, Stop, VfifoReturns, InGroup
<1>7. CASE ReadsAgree
  BY <1>1, <1>2, <1>7, WiresIdle DEF ReadsAgree, LfifoLocals, InGroup
<1>8. CASE ReadsDiffer
  BY <1>1, <1>2, <1>8, WiresIdle DEF ReadsDiffer, LfifoLocals, InGroup
<1>9. CASE LfifoFails
  BY <1>1, <1>2, <1>9, WiresIdle DEF LfifoFails, LfifoLocals, Stop, InGroup
<1>10. CASE rw_mgr_mem_handoff
  BY <1>1, <1>2, <1>10, WiresIdle DEF rw_mgr_mem_handoff, locals, history, InGroup
<1>11. CASE Restore
  BY <1>1, <1>2, <1>11, WiresIdle DEF Restore, locals, history, InGroup
<1>12. CASE Report
  BY <1>1, <1>2, <1>12, WiresIdle DEF Report, locals, history, InGroup
<1>13. CASE Again
  BY <1>1, <1>2, <1>13, WiresIdle DEF Again, locals, history, InGroup
<1>14. CASE UNCHANGED vars
  BY <1>1, <1>14
     DEF vars, locals, history, Wires, Types, AllLoaded, PinsHold, Finished, InGroup
<1> QED
  BY <1>1, <1>3, <1>4, <1>5, <1>6, <1>7, <1>8, <1>9, <1>10, <1>11, <1>12, <1>13, <1>14,
     WiresMemCalibrate, WiresZeroAll, WiresNextGroup, WiresGuaranteedRead, WiresFindDqsEnPhase,
     WiresSweepEnds, WiresDeskewFails, WiresDeskew, WiresWritesFail, WiresWrites,
     WiresVfifoEndFails, WiresVfifoEnd, WiresLatency DEF Next, Sequencer

LEMMA WiresAlways == Spec => []Wires
<1> QED BY WiresInit, WiresStep, PTL DEF Spec
-----------------------------------------------------------------------------
(* The reports *)

Resting == {"done", "sdram_calibration", "run_mem_calibrate"}
InCalibration == InGroup \cup {"zero_all", "group", "lfifo"}
AfterCalibration == {"handoff", "restore", "report"}

GblIsRecord ==
    gbl = [error_stage |-> gbl.error_stage, error_substage |-> gbl.error_substage,
           error_group |-> gbl.error_group, curr_read_lat |-> gbl.curr_read_lat]

\* The latency to try next is one less than the one that has passed.
LatencyIsCounted ==
    /\ pc \in InCalibration => gbl.curr_read_lat \in Nat \ {0}
    /\ pc \in {"lfifo", "latency"} /\ found_one =>
          gbl.curr_read_lat \in Nat /\ proven = gbl.curr_read_lat + 1

\* No stage has been recorded, except that of the reads while they are being tried.
ErrorIsFresh ==
    /\ pc \in InCalibration \cup {"latency"} /\ ~recovered =>
          gbl.error_stage \in {"NIL", "VFIFO"}
    /\ pc \in {"zero_all", "group", "writes", "vfifo_end", "lfifo", "latency"} /\ ~recovered =>
          gbl.error_stage = "NIL"

ResultIsKnown ==
    pc \in AfterCalibration =>
        /\ pass => io = chosen /\ proven \in Nat \ {0} /\ PHY_RLAT = proven + 1
        /\ ~pass /\ ~recovered => gbl.error_stage = failure /\ failure # "NIL"

StatusComesLast ==
    /\ pc \in {"restore", "report"} => MUX_SEL = 2
    /\ pc = "report" => tracking = ctrlcfg
    /\ pc \notin Resting => CAL_STATUS = "RESET"

Reports == /\ GblIsRecord /\ LatencyIsCounted /\ ErrorIsFresh /\ ResultIsKnown
           /\ StatusComesLast /\ SettingsInForce /\ LatencyHasMargin /\ FailureIsNamed

LEMMA ReportsInit == Init => Reports
BY DEF Init, Reports, GblIsRecord, LatencyIsCounted, ErrorIsFresh, ResultIsKnown, StatusComesLast,
       SettingsInForce, LatencyHasMargin, FailureIsNamed, Resting, InCalibration,
       AfterCalibration, InGroup

\* While the status is withdrawn there is nothing to show for it.
LEMMA Withdrawn ==
    ASSUME CAL_STATUS' = "RESET", pc' \notin AfterCalibration \cup Resting, GblIsRecord',
           LatencyIsCounted', ErrorIsFresh'
    PROVE  Reports'
BY DEF Reports, SettingsInForce, LatencyHasMargin, FailureIsNamed, ResultIsKnown, StatusComesLast,
       AfterCalibration, Resting

\* What set_failing_group_stage() leaves: the first stage that was recorded.
LEMMA FirstFailureIsKept ==
    ASSUME GblIsRecord, NEW g, NEW stage, NEW substage, gbl' = Failed(g, stage, substage)
    PROVE  /\ GblIsRecord' /\ gbl'.curr_read_lat = gbl.curr_read_lat
           /\ gbl'.error_stage = IF gbl.error_stage = "NIL" THEN stage ELSE gbl.error_stage
BY DEF GblIsRecord, Failed


LEMMA ReportsNextGroup == Reports /\ NextGroup => Reports'
<1>1. SUFFICES ASSUME Reports, NextGroup PROVE Reports'
  OBVIOUS
<1>2. /\ pc = "group" /\ UNCHANGED <<gbl, CAL_STATUS, recovered>>
      /\ \/ pc' = "vfifo"
         \/ pc' = "lfifo" /\ found_one' = FALSE
  BY <1>1 DEF NextGroup, regs, history
<1>3. CAL_STATUS' = "RESET" /\ GblIsRecord'
  BY <1>1, <1>2 DEF Reports, StatusComesLast, GblIsRecord, Resting
<1>4. LatencyIsCounted' /\ ErrorIsFresh'
  BY <1>1, <1>2 DEF Reports, LatencyIsCounted, ErrorIsFresh, InCalibration, InGroup
<1> QED BY <1>2, <1>3, <1>4, Withdrawn DEF AfterCalibration, Resting

\* The steps of a group that report nothing.
LEMMA ReportsQuiet ==
    Reports /\ (GuaranteedRead \/ FindDqsEnPhase \/ SweepEnds \/ Deskew \/ Writes \/ VfifoEnd)
        => Reports'
<1>1. SUFFICES ASSUME Reports, GuaranteedRead \/ FindDqsEnPhase \/ SweepEnds \/ Deskew
                               \/ Writes \/ VfifoEnd
               PROVE  Reports'
  OBVIOUS
<1>2. /\ pc \in InGroup /\ UNCHANGED <<gbl, CAL_STATUS>>
      /\ \/ /\ pc \in {"vfifo", "sweep"} /\ pc' \in {"vfifo", "sweep", "deskew"}
            /\ UNCHANGED recovered
         \/ /\ pc = "deskew" /\ pc' = "writes"
            /\ ~recovered' => ~recovered /\ gbl.error_stage = "NIL"
         \/ pc = "writes" /\ pc' = "vfifo_end" /\ UNCHANGED recovered
         \/ pc = "vfifo_end" /\ pc' = "group" /\ UNCHANGED recovered
  <2>1. CASE Deskew
    <3>1. recovered' = (recovered \/ gbl.error_stage # "NIL")
      BY <2>1 DEF Deskew
    <3>2. ~recovered' => ~recovered /\ gbl.error_stage = "NIL"
      BY <3>1, Zenon
    <3> QED BY <2>1, <3>2 DEF Deskew, SkipFlow, regs, InGroup
  <2>2. CASE GuaranteedRead \/ FindDqsEnPhase \/ SweepEnds \/ Writes \/ VfifoEnd
    BY <2>2 DEF GuaranteedRead, FindDqsEnPhase, SweepEnds, Writes, VfifoEnd, SkipFlow, regs,
                history, InGroup
  <2> QED BY <1>1, <2>1, <2>2
<1>3. CAL_STATUS' = "RESET" /\ GblIsRecord'
  BY <1>1, <1>2 DEF Reports, StatusComesLast, GblIsRecord, Resting, InGroup
<1>4. LatencyIsCounted' /\ ErrorIsFresh'
  BY <1>1, <1>2 DEF Reports, LatencyIsCounted, ErrorIsFresh, InCalibration, InGroup
<1> QED BY <1>2, <1>3, <1>4, Withdrawn DEF AfterCalibration, Resting

LEMMA ReportsDeskewFails == Reports /\ DeskewFails => Reports'
<1>1. SUFFICES ASSUME Reports, DeskewFails PROVE Reports'
  OBVIOUS
<1>2. /\ pc = "deskew" /\ pc' = "sweep" /\ UNCHANGED <<CAL_STATUS, recovered>>
      /\ UNCHANGED gbl \/ \E pin \in Pins : gbl' = Failed(pin, "VFIFO", "VFIFO_CENTER")
  BY <1>1 DEF DeskewFails, SkipFlow, regs, history, set_failing_group_stage
<1>3. /\ GblIsRecord' /\ gbl'.curr_read_lat = gbl.curr_read_lat
      /\ gbl'.error_stage \in {gbl.error_stage, "VFIFO"}
  BY <1>1, <1>2, FirstFailureIsKept DEF Reports, GblIsRecord
<1>4. CAL_STATUS' = "RESET"
  BY <1>1, <1>2 DEF Reports, StatusComesLast, Resting
<1>5. LatencyIsCounted' /\ ErrorIsFresh'
  BY <1>1, <1>2, <1>3 DEF Reports, LatencyIsCounted, ErrorIsFresh, InCalibration, InGroup
<1> QED BY <1>2, <1>3, <1>4, <1>5, Withdrawn DEF AfterCalibration, Resting

\* The stages that end the calibration record themselves.
LEMMA ReportsFailure ==
    Reports /\ (VfifoFails \/ WritesFail \/ VfifoEndFails \/ LfifoFails) => Reports'
<1>1. SUFFICES ASSUME Reports, VfifoFails \/ WritesFail \/ VfifoEndFails \/ LfifoFails
               PROVE  Reports'
  OBVIOUS
<1>2. PICK g, stage, substage :
         /\ gbl' = Failed(g, stage, substage)
         /\ failure' = stage /\ stage \in {"VFIFO", "WRITES", "VFIFO_AFTER_WRITES", "LFIFO"}
         /\ pc \in {"vfifo", "writes", "vfifo_end", "latency"}
         /\ pc = "vfifo" => stage = "VFIFO"
         /\ pc' = "handoff" /\ pass' = FALSE /\ UNCHANGED <<CAL_STATUS, recovered>>
  BY <1>1 DEF VfifoFails, WritesFail, VfifoEndFails, LfifoFails, LfifoLocals, Stop, regs,
              set_failing_group_stage
<1>3. GblIsRecord' /\ gbl'.error_stage = IF gbl.error_stage = "NIL" THEN stage ELSE gbl.error_stage
  BY <1>1, <1>2, FirstFailureIsKept DEF Reports
<1>4. CAL_STATUS' = "RESET"
  BY <1>1, <1>2 DEF Reports, StatusComesLast, Resting
<1>5. ~recovered => gbl.error_stage = "NIL" \/ (gbl.error_stage = "VFIFO" /\ stage = "VFIFO")
  BY <1>1, <1>2 DEF Reports, ErrorIsFresh, InCalibration, InGroup
<1>6. ResultIsKnown'
  BY <1>2, <1>3, <1>5 DEF ResultIsKnown
<1> QED
  BY <1>2, <1>3, <1>4, <1>6
     DEF Reports, LatencyIsCounted, ErrorIsFresh, StatusComesLast, SettingsInForce,
         LatencyHasMargin, FailureIsNamed, Resting, InCalibration, InGroup

LEMMA MemConfigIsPositive == mem_config \in Nat \ {0}
BY CalibrationAssumption DEF mem_config

LEMMA ReportsBegin ==
    Reports /\ (sdram_calibration \/ run_mem_calibrate \/ initialize \/ mem_calibrate \/ ZeroAll
                \/ Again) => Reports'
<1>1. SUFFICES ASSUME Reports, sdram_calibration \/ run_mem_calibrate \/ initialize
                               \/ mem_calibrate \/ ZeroAll \/ Again
               PROVE  Reports'
  OBVIOUS
<1>2. CASE sdram_calibration \/ Again
  <2>1. /\ UNCHANGED <<gbl, CAL_STATUS, MUX_SEL, PHY_RLAT, tracking, ctrlcfg, io, chosen, proven>>
        /\ pc \in {"done", "sdram_calibration"} /\ pc' \in {"sdram_calibration", "run_mem_calibrate"}
    BY <1>2 DEF sdram_calibration, Again, regs, locals, history
  <2> QED
    BY <1>1, <2>1
       DEF Reports, GblIsRecord, LatencyIsCounted, ErrorIsFresh, ResultIsKnown, StatusComesLast,
           SettingsInForce, LatencyHasMargin, FailureIsNamed, Resting, InCalibration,
           AfterCalibration, InGroup
<1>3. CASE run_mem_calibrate \/ initialize
  <2>1. UNCHANGED gbl /\ CAL_STATUS' = "RESET" /\ pc' \in {"initialize", "mem_calibrate"}
    BY <1>3 DEF run_mem_calibrate, initialize
  <2>2. GblIsRecord' /\ LatencyIsCounted' /\ ErrorIsFresh'
    BY <1>1, <2>1 DEF Reports, GblIsRecord, LatencyIsCounted, ErrorIsFresh, InCalibration, InGroup
  <2> QED BY <2>1, <2>2, Withdrawn DEF AfterCalibration, Resting
<1>4. CASE mem_calibrate
  <2>1. /\ gbl' = [error_stage |-> "NIL", error_substage |-> "NIL", error_group |-> NoGroup,
                   curr_read_lat |-> mem_config]
        /\ pc = "mem_calibrate" /\ pc' = "zero_all" /\ CAL_STATUS' = CAL_STATUS
    BY <1>4 DEF mem_calibrate
  <2>2. CAL_STATUS' = "RESET"
    BY <1>1, <2>1 DEF Reports, StatusComesLast, Resting
  <2>3. GblIsRecord' /\ LatencyIsCounted' /\ ErrorIsFresh'
    BY <2>1, MemConfigIsPositive DEF GblIsRecord, LatencyIsCounted, ErrorIsFresh
  <2> QED BY <2>1, <2>2, <2>3, Withdrawn DEF AfterCalibration, Resting
<1>5. CASE ZeroAll
  <2>1. UNCHANGED <<gbl, CAL_STATUS, recovered>> /\ pc = "zero_all" /\ pc' = "group"
    BY <1>5 DEF ZeroAll, regs, history
  <2>2. CAL_STATUS' = "RESET"
    BY <1>1, <2>1 DEF Reports, StatusComesLast, Resting
  <2>3. GblIsRecord' /\ LatencyIsCounted' /\ ErrorIsFresh'
    BY <1>1, <2>1 DEF Reports, GblIsRecord, LatencyIsCounted, ErrorIsFresh, InCalibration
  <2> QED BY <2>1, <2>2, <2>3, Withdrawn DEF AfterCalibration, Resting
<1> QED BY <1>1, <1>2, <1>3, <1>4, <1>5

LEMMA ReportsLfifo == Reports /\ (ReadsAgree \/ ReadsDiffer) => Reports'
<1>1. SUFFICES ASSUME Reports, ReadsAgree \/ ReadsDiffer PROVE Reports'
  OBVIOUS
<1>2. /\ pc = "lfifo" /\ UNCHANGED <<CAL_STATUS, recovered>> /\ GblIsRecord
      /\ gbl.curr_read_lat \in Nat \ {0}
      /\ ~recovered => gbl.error_stage = "NIL"
      /\ found_one => proven = gbl.curr_read_lat + 1
  BY <1>1 DEF ReadsAgree, ReadsDiffer, LfifoLocals, Reports, LatencyIsCounted, ErrorIsFresh,
              InCalibration
<1>3. CAL_STATUS' = "RESET"
  BY <1>1, <1>2 DEF Reports, StatusComesLast, Resting
<1>4. CASE ReadsAgree
  <2>1. /\ proven' = gbl.curr_read_lat /\ gbl' = [gbl EXCEPT !.curr_read_lat = @ - 1]
        /\ pc' = IF gbl.curr_read_lat - 1 > 0 THEN "lfifo" ELSE "latency"
    BY <1>4 DEF ReadsAgree
  <2>2. /\ gbl'.curr_read_lat = gbl.curr_read_lat - 1 /\ gbl'.error_stage = gbl.error_stage
        /\ GblIsRecord'
    BY <1>2, <2>1 DEF GblIsRecord
  <2>3. LatencyIsCounted' /\ ErrorIsFresh'
    BY <1>2, <2>1, <2>2 DEF LatencyIsCounted, ErrorIsFresh, InCalibration, InGroup
  <2> QED BY <1>3, <2>1, <2>2, <2>3, Withdrawn DEF AfterCalibration, Resting
<1>5. CASE ReadsDiffer
  <2>1. UNCHANGED <<gbl, proven, found_one>> /\ pc' = "latency"
    BY <1>5 DEF ReadsDiffer
  <2>2. GblIsRecord' /\ LatencyIsCounted' /\ ErrorIsFresh'
    BY <1>2, <2>1 DEF GblIsRecord, LatencyIsCounted, ErrorIsFresh, InCalibration, InGroup
  <2> QED BY <1>3, <2>1, <2>2, Withdrawn DEF AfterCalibration, Resting
<1> QED BY <1>1, <1>4, <1>5

\* The last stage has passed: the pins run with what was chosen, and stay so.
LEMMA ReportsLatency == Wires /\ Reports /\ Latency => Reports'
<1>1. SUFFICES ASSUME Wires, Reports, Latency PROVE Reports'
  OBVIOUS
<1>2. /\ pc = "latency" /\ pc' = "handoff" /\ pass' = TRUE /\ UNCHANGED <<CAL_STATUS, chosen, proven>>
      /\ gbl' = [gbl EXCEPT !.curr_read_lat = @ + 2] /\ PHY_RLAT' = gbl.curr_read_lat + 2
      /\ gbl.curr_read_lat \in Nat /\ proven = gbl.curr_read_lat + 1 /\ GblIsRecord
  BY <1>1 DEF Latency, history, Reports, LatencyIsCounted
<1>3. io' = chosen'
  BY <1>1, <1>2, EmptyLoad DEF Latency, Wires
<1>4. CAL_STATUS' = "RESET"
  BY <1>1, <1>2 DEF Reports, StatusComesLast, Resting
<1>5. ResultIsKnown'
  BY <1>2, <1>3 DEF ResultIsKnown
<1>6. GblIsRecord'
  BY <1>2 DEF GblIsRecord
<1> QED
  BY <1>2, <1>4, <1>5, <1>6
     DEF Reports, LatencyIsCounted, ErrorIsFresh, StatusComesLast, SettingsInForce,
         LatencyHasMargin, FailureIsNamed, Resting, InCalibration, InGroup

\* The PHY and the tracking are given back, then the result is written.
LEMMA ReportsEnd == Reports /\ (rw_mgr_mem_handoff \/ Restore \/ Report) => Reports'
<1>1. SUFFICES ASSUME Reports, rw_mgr_mem_handoff \/ Restore \/ Report PROVE Reports'
  OBVIOUS
<1>2. UNCHANGED <<gbl, io, chosen, proven, PHY_RLAT, pass, failure, recovered, ctrlcfg>> /\ GblIsRecord'
  BY <1>1 DEF rw_mgr_mem_handoff, Restore, Report, locals, history, Reports, GblIsRecord
<1>3. CASE rw_mgr_mem_handoff \/ Restore
  <2>1. /\ pc \in {"handoff", "restore"} /\ CAL_STATUS' = CAL_STATUS
        /\ \/ pc = "handoff" /\ pc' = "restore" /\ MUX_SEL' = 2
           \/ pc = "restore" /\ pc' = "report" /\ tracking' = ctrlcfg /\ MUX_SEL' = MUX_SEL
    BY <1>3 DEF rw_mgr_mem_handoff, Restore, locals
  <2>2. CAL_STATUS = "RESET"
    BY <1>1, <2>1 DEF Reports, StatusComesLast, Resting
  <2>3. ResultIsKnown' /\ StatusComesLast'
    BY <1>1, <1>2, <2>1, <2>2 DEF Reports, ResultIsKnown, StatusComesLast, AfterCalibration, Resting
  <2> QED
    BY <1>2, <2>1, <2>2, <2>3
       DEF Reports, LatencyIsCounted, ErrorIsFresh, SettingsInForce, LatencyHasMargin,
           FailureIsNamed, InCalibration, InGroup
<1>4. CASE Report
  <2>1. /\ pc = "report" /\ pc' = "done" /\ UNCHANGED <<MUX_SEL, tracking>>
        /\ \/ pass /\ CAL_STATUS' = "SUCCESS"
           \/ ~pass /\ CAL_STATUS' = "FAIL" /\ FAILING_STAGE' = gbl.error_stage
    BY <1>4 DEF Report
  <2>2. MUX_SEL = 2 /\ tracking = ctrlcfg /\ ResultIsKnown
    BY <1>1, <2>1 DEF Reports, StatusComesLast
  <2>3. SettingsInForce' /\ LatencyHasMargin' /\ FailureIsNamed'
    BY <1>2, <2>1, <2>2
       DEF SettingsInForce, LatencyHasMargin, FailureIsNamed, ResultIsKnown, AfterCalibration
  <2> QED
    BY <1>2, <2>1, <2>3
       DEF Reports, LatencyIsCounted, ErrorIsFresh, ResultIsKnown, StatusComesLast, Resting,
           InCalibration, InGroup, AfterCalibration
<1> QED BY <1>1, <1>3, <1>4

LEMMA ReportsStep == Wires /\ Reports /\ [Next]_vars => Reports'
<1>1. SUFFICES ASSUME Wires, Reports, [Next]_vars PROVE Reports'
  OBVIOUS
<1>2. CASE UNCHANGED vars
  BY <1>1, <1>2
     DEF vars, regs, locals, history, Reports, GblIsRecord, LatencyIsCounted, ErrorIsFresh,
         ResultIsKnown, StatusComesLast, SettingsInForce, LatencyHasMargin, FailureIsNamed
<1> QED
  BY <1>1, <1>2, ReportsBegin, ReportsNextGroup, ReportsQuiet, ReportsDeskewFails, ReportsFailure,
     ReportsLfifo, ReportsLatency, ReportsEnd DEF Next, Sequencer

LEMMA ReportsAlways == Spec => [](Wires /\ Reports)
<1>1. Init => Wires /\ Reports
  BY WiresInit, ReportsInit
<1>2. Wires /\ Reports /\ [Next]_vars => (Wires /\ Reports)'
  BY WiresStep, ReportsStep
<1> QED BY <1>1, <1>2, PTL DEF Spec
-----------------------------------------------------------------------------
(* The theorems *)

\* Once success is signalled, the pins of every group run with what the searches that passed
\* have chosen, with the PHY and the tracking given back: what run_mem_calibrate() promises.
THEOREM CalibratedSettingsInForce == Spec => []SettingsInForce
<1>1. Wires /\ Reports => SettingsInForce
  BY DEF Reports
<1> QED BY <1>1, ReportsAlways, PTL

\* The latency that is left in use is one more than the smallest that has passed.
THEOREM LatencyInUseHasMargin == Spec => []LatencyHasMargin
<1>1. Wires /\ Reports => LatencyHasMargin
  BY DEF Reports
<1> QED BY <1>1, ReportsAlways, PTL

\* A failure is reported with the stage that ended the calibration, unless a pin was recorded
\* on the way and its group passed after all.
THEOREM FailureNamesItsStage == Spec => []FailureIsNamed
<1>1. Wires /\ Reports => FailureIsNamed
  BY DEF Reports
<1> QED BY <1>1, ReportsAlways, PTL

\* When the writes of a group are trained, its outputs are at the reserve again.
THEOREM WritesBeginFromReserve == Spec => []WritesStartFromReserve
<1>1. Wires => WritesStartFromReserve
  <2>1. SUFFICES ASSUME Wires, pc = "writes"
                 PROVE  /\ io[group].dqs_out = IO_DQS_OUT_RESERVE
                        /\ io[group].oct = IO_DQS_OUT_RESERVE
                        /\ io[group].dq_out = 0 /\ io[group].dm_out = 0
    BY DEF WritesStartFromReserve
  <2>2. PinsHold /\ AllLoaded /\ Outputs(scc, group) = Reserve
    BY <2>1 DEF Wires, InGroup
  <2> QED BY <2>2 DEF PinsHold, AllLoaded, Outputs, Reserve
<1> QED BY <1>1, WiresAlways, PTL

\* Work on one group never moves the pins of another.
THEOREM CalibrationGroupsApart == Spec => GroupsApart
<1>1. ASSUME Wires, [Next]_vars, pc \notin {"mem_calibrate", "zero_all"}
      PROVE  OthersAlone
  <2>1. CASE UNCHANGED io
    BY <2>1 DEF OthersAlone
  <2>2. CASE ~UNCHANGED io
    BY <1>1, <2>2, WiresNextGroup, WiresGuaranteedRead, WiresFindDqsEnPhase, WiresDeskewFails,
       WiresDeskew, WiresWritesFail, WiresWrites, WiresVfifoEndFails, WiresVfifoEnd, WiresLatency
       DEF Next, Sequencer, vars, sdram_calibration, run_mem_calibrate, initialize, mem_calibrate,
           ZeroAll, VfifoFails, SweepEnds, ReadsAgree, ReadsDiffer, LfifoFails, LfifoLocals,
           rw_mgr_mem_handoff, Restore, Report, Again
  <2> QED BY <2>1, <2>2
<1>2. Wires /\ [Next]_vars =>
         [pc \notin {"mem_calibrate", "zero_all"} =>
             \A x \in Groups : x # group => io'[x] = io[x]]_vars
  BY <1>1 DEF OthersAlone
<1> QED BY <1>2, WiresAlways, PTL DEF Spec, GroupsApart
=============================================================================

---------------------------- MODULE DeskewProofs ----------------------------
(***************************************************************************)
(* The search for the centre is sound: for every number of pins, every     *)
(* length of the chains and every eye, clean or with a fringe, what it     *)
(* calls a success leaves every pin, and the data mask, at an offset with  *)
(* which a test could pass.  The sentinel DELAY_MAX + 1, the negative      *)
(* numbers that stand for the other side, and the early ends of the sweeps *)
(* all have to agree for that.                                             *)
(***************************************************************************)
EXTENDS Deskew, WellFoundedInduction, TLAPS

Types ==
    /\ board \in [side : {"read", "write"}, start_dqs : 0..DELAY_MAX,
                  eye : [Pins -> [lo : Int, hi : Int]], fringe : Nat, mask : SUBSET Int]
    /\ d \in Int /\ sticky \subseteq Pins
    /\ left_edge \in [Pins -> -Unset..Unset] /\ right_edge \in [Pins -> -Unset..Unset]
    /\ dq \in [Pins -> Int] /\ dqs \in Int /\ dm \in Int
    /\ bgn_curr \in Int /\ end_curr \in Int /\ bgn_best \in Int /\ end_best \in Int
    /\ win_best \in Nat

Lowest(i) == board.eye[i].lo - board.fringe
Highest(i) == board.eye[i].hi + board.fringe

\* Two edges that are known lie within the eye and its fringe.
Edged(i) ==
    left_edge[i] # Unset /\ right_edge[i] # Unset =>
        left_edge[i] <= Highest(i) /\ Lowest(i) <= -right_edge[i]

\* While the pins are delayed.
LeftEdged ==
    pc = "left" =>
        /\ d >= 0
        /\ \A i \in Pins :
              /\ d = 0 => left_edge[i] = Unset /\ right_edge[i] = Unset
              /\ left_edge[i] # Unset => left_edge[i] <= Highest(i)
              /\ left_edge[i] = Unset /\ d > 0 => right_edge[i] = -d
              /\ left_edge[i] # Unset /\ right_edge[i] = Unset => Lowest(i) <= 0

Turned == pc = "between" => \A i \in Pins :
              /\ left_edge[i] # Unset => left_edge[i] <= Highest(i)
              /\ left_edge[i] # Unset /\ right_edge[i] = Unset => Lowest(i) <= 0

\* While DQS is delayed.
RightEdged ==
    pc = "right" =>
        /\ d >= 0
        /\ \A i \in Pins : right_edge[i] = Unset =>
              /\ d = 0 /\ left_edge[i] # Unset => left_edge[i] <= Highest(i) /\ Lowest(i) <= 0
              /\ d > 0 => left_edge[i] = -d

Masking == pc \in {"mask", "mask_dqs", "mask_end"}

\* What the pins were set to is within their eyes, once DQS is back.
PinsCentred ==
    /\ Masking => Writing /\ (dq_ok => \A i \in Pins : NearEye(i, dq[i]))
    /\ Done /\ result => \A i \in Pins : NearEye(i, Offset(i))

\* A window of the mask: the offsets from -last to -first pass.
Window(first, last) == \A y \in Int : first <= y /\ y <= last => -y \in board.mask
MaskWindows ==
    /\ win_best # 0 => bgn_best <= end_best /\ Window(bgn_best, end_best)
    /\ Masking /\ bgn_curr # Unset => Window(bgn_curr, end_curr)
    /\ ~Masking /\ pc # "done" => bgn_curr = Unset
    /\ pc = "mask" => d <= DELAY_MAX /\ (bgn_curr # Unset => end_curr = -(d + 1))
    /\ pc = "mask_dqs" =>
          d >= 0 /\ (bgn_curr # Unset => end_curr = d - 1 \/ (d = 0 /\ end_curr = 0))
    /\ Done /\ result /\ Writing => dm - (dqs - start_dqs) \in board.mask

Inv == /\ Types /\ (\A i \in Pins : pc \in {"left", "between", "right", "centre"} => Edged(i))
       /\ LeftEdged /\ Turned /\ RightEdged /\ PinsCentred /\ MaskWindows

USE DeskewAssumption

LEMMA HalfIsInt == \A n \in Int : Half(n) \in Int
BY DEF Half

\* The middle of a window lies in it, and so does zero when the middle is below zero.
LEMMA HalfIsBetween ==
    ASSUME NEW a \in Int, NEW b \in Int, a <= b
    PROVE  /\ Half(a + b) >= 0 => a <= Half(a + b)
           /\ Half(a + b) < 0 => a <= 0
BY DEF Half

\* A set of integers that is bounded below has a least one.
LEMMA LeastExists ==
    ASSUME NEW S \in SUBSET Int, S # {}, NEW b \in Int, \A x \in S : b <= x
    PROVE  \E m \in S : \A x \in S : m <= x
<1> DEFINE R == OpToRel(<, Nat)
           T == {x - b : x \in S}
<1>1. IsWellFoundedOn(R, Nat)
  BY NatLessThanWellFounded
<1>2. T \subseteq Nat /\ T # {}
  <2>1. \A x \in S : x \in Int /\ x - b \in Nat
    OBVIOUS
  <2> QED BY <2>1
<1>3. PICK t \in T : \A y \in T : <<y, t>> \notin R
  <2> HIDE DEF R, T
  <2> QED BY <1>1, <1>2, WFMin
<1>4. \A y \in T : ~(y < t)
  BY <1>2, <1>3 DEF OpToRel
<1>5. PICK m \in S : t = m - b
  OBVIOUS
<1>6. ASSUME NEW x \in S PROVE m <= x
  <2>1. x - b \in T /\ m \in Int /\ x \in Int
    OBVIOUS
  <2>2. ~(x - b < m - b)
    BY <1>4, <1>5, <2>1
  <2> QED BY <2>1, <2>2
<1> QED BY <1>6

LEMMA InitInv == Init => Inv
<1>1. SUFFICES ASSUME Init PROVE Inv
  OBVIOUS
<1>2. Types
  BY <1>1 DEF Init, Types, Unset
<1> QED BY <1>1, <1>2 DEF Init, Inv, Edged, LeftEdged, Turned, RightEdged, PinsCentred, MaskWindows, Masking, Done

LEMMA LeftSweepInv == Inv /\ LeftSweep => Inv'
<1>1. SUFFICES ASSUME Inv, LeftSweep PROVE Inv'
  OBVIOUS
<1>2. PICK good \in Outcomes(d) :
         /\ sticky' = sticky \cup good
         /\ \/ pc' = "between" /\ UNCHANGED <<d, left_edge, right_edge>>
               /\ Past(good)
            \/ /\ left_edge' = [i \in Pins |-> IF i \in good THEN d ELSE left_edge[i]]
               /\ right_edge' = [i \in Pins |-> IF i \notin good /\ left_edge[i] = Unset
                                                THEN -(d + 1) ELSE right_edge[i]]
               /\ d' = d + 1 /\ pc' = pc
  BY <1>1 DEF LeftSweep
<1>3. /\ Types /\ pc = "left" /\ d <= DELAY_MAX /\ d >= 0
      /\ dq' = [i \in Pins |-> d] /\ UNCHANGED <<board, dqs, dm, bgn_curr, end_curr, bgn_best,
                                                 end_best, win_best, dq_ok, result>>
  BY <1>1 DEF LeftSweep, Inv, LeftEdged, window
<1>4. good \subseteq Pins /\ \A i \in good : Lowest(i) <= d /\ d <= Highest(i)
  BY <1>2 DEF Outcomes, NearEye, Lowest, Highest
<1>5. Types'
  <2>1. -(d + 1) \in -Unset..Unset /\ d \in -Unset..Unset /\ d + 1 \in Int
    BY <1>3 DEF Types, Unset
  <2>2. left_edge' \in [Pins -> -Unset..Unset] /\ right_edge' \in [Pins -> -Unset..Unset]
    BY <1>2, <1>3, <2>1 DEF Types
  <2> QED BY <1>2, <1>3, <1>4, <2>1, <2>2 DEF Types, Unset
<1>6. ASSUME NEW i \in Pins
      PROVE  /\ Edged(i)'
             /\ pc' = "left" =>
                   /\ left_edge'[i] # Unset => left_edge'[i] <= Highest(i)
                   /\ left_edge'[i] = Unset => right_edge'[i] = -d'
                   /\ left_edge'[i] # Unset /\ right_edge'[i] = Unset => Lowest(i) <= 0
             /\ pc' = "between" =>
                   /\ left_edge'[i] # Unset => left_edge'[i] <= Highest(i)
                   /\ left_edge'[i] # Unset /\ right_edge'[i] = Unset => Lowest(i) <= 0
  <2>1. /\ Edged(i)
        /\ d = 0 => left_edge[i] = Unset /\ right_edge[i] = Unset
        /\ left_edge[i] # Unset => left_edge[i] <= Highest(i)
        /\ left_edge[i] = Unset /\ d > 0 => right_edge[i] = -d
        /\ left_edge[i] # Unset /\ right_edge[i] = Unset => Lowest(i) <= 0
    BY <1>1, <1>3 DEF Inv, LeftEdged
  <2>2. /\ Lowest(i) \in Int /\ Highest(i) \in Int /\ left_edge[i] \in Int /\ right_edge[i] \in Int
        /\ Lowest(i)' = Lowest(i) /\ Highest(i)' = Highest(i)
    BY <1>3 DEF Types, Lowest, Highest
  <2>3. CASE UNCHANGED <<d, left_edge, right_edge>> /\ pc' = "between"
    BY <2>1, <2>2, <2>3 DEF Edged
  <2>4. CASE /\ left_edge'[i] = (IF i \in good THEN d ELSE left_edge[i])
             /\ right_edge'[i] = (IF i \notin good /\ left_edge[i] = Unset
                                  THEN -(d + 1) ELSE right_edge[i])
             /\ d' = d + 1 /\ pc' = "left"
    <3>1. i \in good => Lowest(i) <= d /\ d <= Highest(i)
      BY <1>4
    <3> QED BY <1>3, <2>1, <2>2, <2>4, <3>1 DEF Edged, Unset, Types
  <2> QED BY <1>2, <1>3, <2>3, <2>4
<1>7. /\ \A i \in Pins : Lowest(i)' = Lowest(i) /\ Highest(i)' = Highest(i)
      /\ pc' \in {"left", "between"} /\ (pc' = "left" => d' > 0)
  BY <1>2, <1>3 DEF Lowest, Highest, Types
<1>8. LeftEdged' /\ Turned' /\ RightEdged'
  BY <1>5, <1>6, <1>7 DEF LeftEdged, Turned, RightEdged, Types
<1>9. PinsCentred' /\ MaskWindows'
  BY <1>1, <1>3, <1>7 DEF Inv, PinsCentred, MaskWindows, Masking, Done, Window
<1> QED BY <1>5, <1>6, <1>8, <1>9 DEF Inv

LEMMA BetweenInv == Inv /\ Between => Inv'
<1>1. SUFFICES ASSUME Inv, Between PROVE Inv'
  OBVIOUS
<1>2. /\ Types /\ pc' = "right" /\ d' = 0 /\ dq' = [i \in Pins |-> 0]
      /\ right_edge' = [i \in Pins |-> IF left_edge[i] = Unset THEN Unset ELSE right_edge[i]]
      /\ sticky' \subseteq Pins
      /\ UNCHANGED <<board, left_edge, dqs, dm, bgn_curr, end_curr, bgn_best, end_best,
                     win_best, dq_ok, result>>
  BY <1>1 DEF Between, Inv, window
<1>3. Types'
  BY <1>2 DEF Types, Unset
<1>4. ASSUME NEW i \in Pins
      PROVE  /\ Edged(i)'
             /\ right_edge'[i] = Unset /\ left_edge'[i] # Unset =>
                   left_edge'[i] <= Highest(i)' /\ Lowest(i)' <= 0
  <2>1. /\ Edged(i)
        /\ left_edge[i] # Unset => left_edge[i] <= Highest(i)
        /\ left_edge[i] # Unset /\ right_edge[i] = Unset => Lowest(i) <= 0
    BY <1>1 DEF Inv, Between, LeftEdged, Turned
  <2>2. /\ Lowest(i)' = Lowest(i) /\ Highest(i)' = Highest(i)
        /\ left_edge'[i] = left_edge[i]
        /\ right_edge'[i] = (IF left_edge[i] = Unset THEN Unset ELSE right_edge[i])
    BY <1>2 DEF Lowest, Highest
  <2> QED BY <2>1, <2>2 DEF Edged
<1>5. LeftEdged' /\ Turned' /\ RightEdged'
  BY <1>2, <1>4 DEF LeftEdged, Turned, RightEdged
<1>6. PinsCentred' /\ MaskWindows'
  BY <1>1, <1>2 DEF Inv, Between, PinsCentred, MaskWindows, Masking, Done, Window
<1> QED BY <1>2, <1>3, <1>4, <1>5, <1>6 DEF Inv

LEMMA RightSweepInv == Inv /\ RightSweep => Inv'
<1>1. SUFFICES ASSUME Inv, RightSweep PROVE Inv'
  OBVIOUS
<1>2. PICK good \in Outcomes(-d) :
         /\ sticky' = sticky \cup good
         /\ \/ /\ right_edge' = (IF Writing /\ d = 0 THEN EdgeAtOnce ELSE right_edge)
               /\ pc' = "centre" /\ UNCHANGED <<d, left_edge>>
               /\ Past(good)
            \/ /\ right_edge' = RightEdges(good) /\ left_edge' = LeftEdges(good)
               /\ d' = d + 1 /\ pc' = pc
  BY <1>1 DEF RightSweep
<1>3. /\ Types /\ pc = "right" /\ d <= DELAY_MAX /\ d >= 0
      /\ dqs' = d + start_dqs
      /\ start_dqs \in 0..DELAY_MAX
      /\ UNCHANGED <<board, dq, dm, bgn_curr, end_curr, bgn_best,
                     end_best, win_best, dq_ok, result>>
  BY <1>1 DEF RightSweep, Inv, RightEdged, window, Types, start_dqs
<1>4. /\ d \in Int /\ -d \in Int /\ Unset = DELAY_MAX + 1 /\ DELAY_MAX \in Nat
      /\ good \subseteq Pins
  BY <1>2, <1>3 DEF Types, Outcomes, Unset
<1>5. ASSUME NEW i \in Pins
      PROVE  /\ left_edge'[i] \in -Unset..Unset /\ right_edge'[i] \in -Unset..Unset
             /\ Edged(i)'
             /\ pc' = "right" => (right_edge'[i] = Unset => left_edge'[i] = -d')
  <2>1. /\ Edged(i)
        /\ right_edge[i] = Unset =>
              /\ d = 0 /\ left_edge[i] # Unset => left_edge[i] <= Highest(i) /\ Lowest(i) <= 0
              /\ d > 0 => left_edge[i] = -d
    BY <1>1, <1>3 DEF Inv, RightEdged
  <2>2. /\ Lowest(i) \in Int /\ Highest(i) \in Int
        /\ left_edge[i] \in -Unset..Unset /\ right_edge[i] \in -Unset..Unset
        /\ Lowest(i)' = Lowest(i) /\ Highest(i)' = Highest(i)
    BY <1>3 DEF Types, Lowest, Highest
  <2>3. i \in good => Lowest(i) <= -d /\ -d <= Highest(i)
    BY <1>2 DEF Outcomes, NearEye, Lowest, Highest
  <2>4. CASE /\ right_edge' = (IF Writing /\ d = 0 THEN EdgeAtOnce ELSE right_edge)
             /\ left_edge' = left_edge /\ pc' = "centre"
    <3>1. CASE Writing /\ d = 0
      <4>1. right_edge'[i] = (IF right_edge[i] = Unset /\ left_edge[i] # Unset
                              THEN -1 ELSE right_edge[i])
        BY <2>4, <3>1 DEF EdgeAtOnce
      <4> QED BY <1>4, <2>1, <2>2, <2>4, <3>1, <4>1 DEF Edged
    <3>2. CASE ~(Writing /\ d = 0)
      BY <2>1, <2>2, <2>4, <3>2 DEF Edged
    <3> QED BY <3>1, <3>2
  <2>5. CASE /\ right_edge' = RightEdges(good) /\ left_edge' = LeftEdges(good)
             /\ d' = d + 1 /\ pc' = "right"
    <3>1. right_edge'[i] = IF i \in good THEN d
                           ELSE IF d = 0 /\ right_edge[i] = Unset /\ left_edge[i] # Unset
                                THEN -1 ELSE right_edge[i]
      BY <2>5 DEF RightEdges, EdgeAtOnce
    <3>2. left_edge'[i] = IF i \notin good /\ right_edge[i] = Unset
                             /\ (d = 0 => left_edge[i] = Unset)
                          THEN -(d + 1) ELSE left_edge[i]
      BY <2>5 DEF LeftEdges
    <3>3. Unset' = Unset
      BY DEF Unset
    <3> QED BY <1>3, <1>4, <2>1, <2>2, <2>3, <2>5, <3>1, <3>2, <3>3 DEF Edged
  <2> QED BY <1>2, <1>3, <2>4, <2>5
<1>6. /\ left_edge' = [i \in Pins |-> left_edge'[i]]
      /\ right_edge' = [i \in Pins |-> right_edge'[i]]
  BY <1>2, <1>3 DEF RightEdges, LeftEdges, EdgeAtOnce, Types
<1>7. Types'
  <2>1. left_edge' \in [Pins -> -Unset..Unset] /\ right_edge' \in [Pins -> -Unset..Unset]
    BY <1>5, <1>6
  <2>2. d' \in Int /\ sticky' \subseteq Pins /\ dqs' \in Int
    BY <1>2, <1>3, <1>4 DEF Types
  <2> QED BY <1>3, <2>1, <2>2 DEF Types, Unset
<1>8. pc' \in {"right", "centre"} /\ (pc' = "right" => d' > 0)
  BY <1>2, <1>3, <1>4
<1>9. LeftEdged' /\ Turned' /\ RightEdged'
  BY <1>4, <1>5, <1>7, <1>8 DEF LeftEdged, Turned, RightEdged, Types, Unset
<1>10. PinsCentred' /\ MaskWindows'
  BY <1>1, <1>3, <1>8 DEF Inv, PinsCentred, MaskWindows, Masking, Done, Window
<1> QED BY <1>5, <1>7, <1>9, <1>10 DEF Inv

LEMMA FailsInv == Inv /\ Fails => Inv'
<1>1. SUFFICES ASSUME Inv, Fails PROVE Inv'
  OBVIOUS
<1>2. /\ Types /\ pc' = "done" /\ result' = FALSE /\ dqs' \in Int
      /\ UNCHANGED <<board, d, left_edge, right_edge, sticky, dq, dm, bgn_curr, end_curr,
                     bgn_best, end_best, win_best, dq_ok>>
  BY <1>1 DEF Fails, Inv, edges, window, Types, start_dqs
<1>3. Types'
  BY <1>2 DEF Types, Unset
<1> QED BY <1>1, <1>2, <1>3 DEF Inv, LeftEdged, Turned, RightEdged, PinsCentred, MaskWindows,
                                Masking, Done, Window

LEMMA CentreInv == Inv /\ Centre => Inv'
<1>1. SUFFICES ASSUME Inv, Centre PROVE Inv'
  OBVIOUS
<1>2. /\ Types /\ pc \in {"centre", "right"}
      /\ dq' = [i \in Pins |-> shift_dq(i)] /\ dqs' = new_dqs
      /\ dq_ok' => \A i \in Pins : /\ left_edge[i] - shift_dq(i) - mid_min >= 0
                                   /\ right_edge[i] + shift_dq(i) + mid_min >= 0
      /\ \/ Writing /\ pc' = "mask" /\ d' = DELAY_MAX
         \/ ~Writing /\ pc' = "done" /\ (result' => dq_ok') /\ d' = d
      /\ UNCHANGED <<board, left_edge, right_edge, sticky, dm, bgn_curr, end_curr,
                     bgn_best, end_best, win_best>>
  BY <1>1, Zenon DEF Centre, SweepsEnd, Inv, edges, window
<1>3. \A i \in Pins : /\ left_edge[i] \in Int /\ right_edge[i] \in Int
                      /\ left_edge[i] # Unset /\ right_edge[i] # Unset
                      /\ left_edge[i] <= Highest(i) /\ Lowest(i) <= -right_edge[i]
  BY <1>1, <1>2 DEF Centre, NoWindow, Inv, Edged, Types, Unset
<1>4. SmallestMid \in Int
  <2> DEFINE S == {mid(i) : i \in Pins}
  <2>1. ASSUME NEW i \in Pins PROVE mid(i) \in Int /\ -(2 * Unset) <= mid(i)
    BY <1>2 DEF Types, mid, Unset
  <2>2. S \subseteq Int /\ S # {} /\ \A x \in S : -(2 * Unset) <= x
    BY <2>1
  <2>3. -(2 * Unset) \in Int
    BY DEF Unset
  <2>4. \E m \in S : \A x \in S : m <= x
    <3> HIDE DEF S
    <3> QED BY <2>2, <2>3, LeastExists
  <2>5. PICK i \in Pins : SmallestMid = mid(i)
    BY <2>4 DEF SmallestMid
  <2> QED BY <2>1, <2>5
<1>5. start_dqs \in 0..DELAY_MAX /\ new_dqs \in Int /\ mid_min \in Int /\ orig_mid_min \in Int
      /\ mid_min = start_dqs - new_dqs /\ (Writing => new_dqs = start_dqs)
  <2>1. start_dqs \in 0..DELAY_MAX
    BY <1>2 DEF Types, start_dqs
  <2>2. orig_mid_min \in Int
    BY <1>4, HalfIsInt DEF orig_mid_min
  <2> QED BY <2>1, <2>2 DEF new_dqs, mid_min
<1>6. ASSUME NEW i \in Pins PROVE shift_dq(i) \in Int
  <2>1. mid(i) - SmallestMid \in Int
    BY <1>3, <1>4 DEF mid
  <2>2. Half(mid(i) - SmallestMid) \in Int
    BY <2>1, HalfIsInt
  <2> QED BY <1>5, <2>2 DEF shift_dq
<1>7. Types'
  <2>1. dq' \in [Pins -> Int] /\ dqs' \in Int
    BY <1>2, <1>5, <1>6
  <2>2. d' \in Int
    BY <1>2 DEF Types
  <2> QED BY <1>2, <2>1, <2>2 DEF Types, Unset
<1>8. ASSUME NEW i \in Pins, dq_ok'
      PROVE  /\ Lowest(i) <= shift_dq(i) + mid_min /\ shift_dq(i) + mid_min <= Highest(i)
             /\ Offset(i)' = shift_dq(i) + mid_min
             /\ Writing => dq'[i] = shift_dq(i) + mid_min
  <2>1. Lowest(i) \in Int /\ Highest(i) \in Int
    BY <1>2 DEF Types, Lowest, Highest
  <2>2. left_edge[i] - shift_dq(i) - mid_min >= 0 /\ right_edge[i] + shift_dq(i) + mid_min >= 0
    BY <1>2, <1>8
  <2>3. start_dqs' = start_dqs /\ dq'[i] = shift_dq(i) /\ dqs' = new_dqs
    BY <1>2 DEF start_dqs
  <2>4. Offset(i)' = dq'[i] - (dqs' - start_dqs')
    BY DEF Offset
  <2> QED BY <1>3, <1>5, <1>6, <2>1, <2>2, <2>3, <2>4
<1>9. PinsCentred'
  <2>1. \A i \in Pins : Lowest(i)' = Lowest(i) /\ Highest(i)' = Highest(i)
    BY <1>2 DEF Lowest, Highest
  <2>2. ASSUME NEW i \in Pins, dq_ok'
        PROVE  NearEye(i, Offset(i))' /\ (Writing => NearEye(i, dq[i])')
    BY <1>8, <2>1, <2>2 DEF NearEye, Lowest, Highest
  <2>3. Writing' = Writing
    BY <1>2 DEF Writing
  <2> QED BY <1>2, <2>2, <2>3 DEF PinsCentred, Masking, Done
<1>10. MaskWindows'
  <2>1. bgn_curr = Unset /\ (win_best # 0 => bgn_best <= end_best /\ Window(bgn_best, end_best))
    BY <1>1, <1>2 DEF Inv, MaskWindows, Masking
  <2>2. DELAY_MAX \in Nat
    OBVIOUS
  <2> QED BY <1>2, <2>1, <2>2 DEF MaskWindows, Masking, Done, Window, Unset, Writing
<1>11. pc' \in {"mask", "done"}
  BY <1>2
<1> QED BY <1>7, <1>9, <1>10, <1>11 DEF Inv, LeftEdged, Turned, RightEdged

\* A test of the mask that passes makes the current window longer, or begins one.
LEMMA PassedWindows ==
    ASSUME Inv, NEW e \in Int, Passed(e), -e \in board.mask, board' = board, Masking,
           bgn_curr # Unset => end_curr = e - 1 \/ (e = 0 /\ end_curr = 0)
    PROVE  /\ Window(bgn_curr, end_curr)'
           /\ win_best' # 0 => bgn_best' <= end_best' /\ Window(bgn_best, end_best)'
           /\ end_curr' = e /\ win_best' \in Nat
           /\ bgn_curr' \in Int /\ bgn_best' \in Int /\ end_best' \in Int
<1>1. Types /\ (bgn_curr # Unset => Window(bgn_curr, end_curr))
      /\ (win_best # 0 => bgn_best <= end_best /\ Window(bgn_best, end_best))
  BY DEF Inv, MaskWindows
<1>2. /\ bgn_curr \in Int /\ end_curr \in Int /\ bgn_best \in Int /\ end_best \in Int
      /\ win_best \in Nat
  BY <1>1 DEF Types
<1>3. end_curr' = e /\ bgn_curr' = (IF bgn_curr = Unset THEN e ELSE bgn_curr)
  BY DEF Passed
<1>4. \/ e - bgn_curr' + 1 > win_best /\ win_best' = e - bgn_curr' + 1
         /\ bgn_best' = bgn_curr' /\ end_best' = e
      \/ UNCHANGED <<win_best, bgn_best, end_best>>
  BY DEF Passed
<1>5. Window(bgn_curr, end_curr)'
  <2>1. ASSUME NEW y \in Int, bgn_curr' <= y, y <= end_curr' PROVE -y \in board.mask
    <3>1. CASE y = e
      BY <3>1
    <3>2. CASE y # e
      BY <1>1, <1>2, <1>3, <2>1, <3>2 DEF Window
    <3> QED BY <3>1, <3>2
  <2> QED BY <2>1 DEF Window
<1>6. win_best' # 0 => bgn_best' <= end_best' /\ Window(bgn_best, end_best)'
  <2>1. CASE e - bgn_curr' + 1 > win_best /\ win_best' = e - bgn_curr' + 1
             /\ bgn_best' = bgn_curr' /\ end_best' = e
    BY <1>2, <1>3, <1>5, <2>1 DEF Window
  <2>2. CASE UNCHANGED <<win_best, bgn_best, end_best>>
    BY <1>1, <2>2 DEF Window
  <2> QED BY <1>4, <2>1, <2>2
<1>7. win_best' \in Nat /\ bgn_curr' \in Int /\ bgn_best' \in Int /\ end_best' \in Int
  BY <1>2, <1>3, <1>4
<1> QED BY <1>3, <1>5, <1>6, <1>7

\* The pins keep what they were set to while the mask is looked for.
LEMMA PinsKept ==
    ASSUME Inv, pc' \in {"mask", "mask_dqs", "mask_end"}, Masking,
           UNCHANGED <<board, dq, dq_ok>>
    PROVE  PinsCentred'
BY DEF Inv, PinsCentred, Masking, Done, NearEye, Writing

LEMMA MaskSweepInv == Inv /\ MaskSweep => Inv'
<1>1. SUFFICES ASSUME Inv, MaskSweep PROVE Inv'
  OBVIOUS
<1>2. /\ Types /\ pc = "mask" /\ pc' = pc /\ Masking /\ dm' = d /\ d' = d - 1 /\ d <= DELAY_MAX
      /\ \/ d \in board.mask /\ Passed(-d)
         \/ bgn_curr' = Unset /\ end_curr' = Unset /\ UNCHANGED <<bgn_best, end_best, win_best>>
      /\ UNCHANGED <<board, left_edge, right_edge, sticky, dq, dqs, dq_ok, result>>
  BY <1>1 DEF MaskSweep, Inv, MaskWindows, Masking, NoCurrent, edges
<1>3. d \in Int /\ -(-d) = d /\ (bgn_curr # Unset => end_curr = -d - 1)
  BY <1>1, <1>2 DEF Inv, MaskWindows, Types
<1>4. /\ win_best' # 0 => bgn_best' <= end_best' /\ Window(bgn_best, end_best)'
      /\ bgn_curr' # Unset => Window(bgn_curr, end_curr)' /\ end_curr' = -d
      /\ bgn_curr' \in Int /\ end_curr' \in Int /\ bgn_best' \in Int /\ end_best' \in Int
      /\ win_best' \in Nat
  <2>1. CASE d \in board.mask /\ Passed(-d)
    <3> DEFINE e == -d
    <3>1. e \in Int /\ -e = d /\ Passed(e) /\ (bgn_curr # Unset => end_curr = e - 1)
      BY <1>3, <2>1
    <3> HIDE DEF e
    <3>2. /\ Window(bgn_curr, end_curr)'
          /\ win_best' # 0 => bgn_best' <= end_best' /\ Window(bgn_best, end_best)'
          /\ end_curr' = e /\ win_best' \in Nat
          /\ bgn_curr' \in Int /\ bgn_best' \in Int /\ end_best' \in Int
      BY <1>1, <1>2, <2>1, <3>1, PassedWindows
    <3> QED BY <3>1, <3>2 DEF e
  <2>2. CASE /\ bgn_curr' = Unset /\ end_curr' = Unset
             /\ UNCHANGED <<bgn_best, end_best, win_best>>
    BY <1>1, <1>2, <2>2 DEF Inv, MaskWindows, Window, Types, Unset
  <2> QED BY <1>2, <2>1, <2>2
<1>5. Types'
  BY <1>2, <1>3, <1>4 DEF Types, Unset
<1>6. MaskWindows'
  BY <1>2, <1>3, <1>4 DEF MaskWindows, Masking, Done, Unset
<1>7. PinsCentred'
  BY <1>1, <1>2, PinsKept
<1> QED BY <1>2, <1>5, <1>6, <1>7 DEF Inv, LeftEdged, Turned, RightEdged

LEMMA MaskTurnsInv == Inv /\ MaskTurns => Inv'
<1>1. SUFFICES ASSUME Inv, MaskTurns PROVE Inv'
  OBVIOUS
<1>2. /\ Types /\ pc = "mask" /\ pc' = "mask_dqs" /\ Masking /\ dm' = 0 /\ d' = 0
      /\ \/ bgn_curr' = Unset /\ end_curr' = Unset
         \/ end_curr = 0 /\ UNCHANGED <<bgn_curr, end_curr>>
      /\ UNCHANGED <<board, left_edge, right_edge, sticky, dq, dqs, bgn_best, end_best, win_best,
                     dq_ok, result>>
  BY <1>1 DEF MaskTurns, Inv, Masking, NoCurrent, edges
<1>3. Types'
  BY <1>2 DEF Types, Unset
<1>4. MaskWindows'
  BY <1>1, <1>2 DEF Inv, MaskWindows, Masking, Window, Done, Unset
<1>5. PinsCentred'
  BY <1>1, <1>2, PinsKept
<1> QED BY <1>2, <1>3, <1>4, <1>5 DEF Inv, LeftEdged, Turned, RightEdged

LEMMA MaskDqsSweepInv == Inv /\ MaskDqsSweep => Inv'
<1>1. SUFFICES ASSUME Inv, MaskDqsSweep PROVE Inv'
  OBVIOUS
<1>2. /\ Types /\ pc = "mask_dqs" /\ Masking /\ dqs' = d + start_dqs
      /\ \/ -d \in board.mask /\ Passed(d) /\ d' = d + 1 /\ pc' = pc
         \/ /\ bgn_curr' = Unset /\ end_curr' = Unset
            /\ UNCHANGED <<bgn_best, end_best, win_best>>
            /\ \/ pc' = "mask_end" /\ d' = d
               \/ pc' = pc /\ d' = d + 1
      /\ UNCHANGED <<board, left_edge, right_edge, sticky, dq, dm, dq_ok, result>>
  BY <1>1 DEF MaskDqsSweep, Inv, Masking, NoCurrent, edges
<1>3. /\ d \in Int /\ d >= 0 /\ start_dqs \in Int
      /\ bgn_curr # Unset => end_curr = d - 1 \/ (d = 0 /\ end_curr = 0)
  BY <1>1, <1>2 DEF Inv, MaskWindows, Types, start_dqs
<1>4. /\ win_best' # 0 => bgn_best' <= end_best' /\ Window(bgn_best, end_best)'
      /\ bgn_curr' # Unset => Window(bgn_curr, end_curr)' /\ end_curr' = d /\ d' = d + 1
      /\ bgn_curr' \in Int /\ end_curr' \in Int /\ bgn_best' \in Int /\ end_best' \in Int
      /\ win_best' \in Nat
  <2>1. CASE -d \in board.mask /\ Passed(d) /\ d' = d + 1
    BY <1>1, <1>2, <1>3, <2>1, PassedWindows
  <2>2. CASE /\ bgn_curr' = Unset /\ end_curr' = Unset
             /\ UNCHANGED <<bgn_best, end_best, win_best>>
    BY <1>1, <1>2, <2>2 DEF Inv, MaskWindows, Window, Types, Unset
  <2> QED BY <1>2, <2>1, <2>2
<1>5. Types'
  BY <1>2, <1>3, <1>4 DEF Types, Unset
<1>6. MaskWindows'
  BY <1>2, <1>3, <1>4 DEF MaskWindows, Masking, Done, Unset
<1>7. PinsCentred'
  BY <1>1, <1>2, PinsKept
<1>8. pc' \in {"mask_dqs", "mask_end"}
  BY <1>2
<1> QED BY <1>5, <1>6, <1>7, <1>8 DEF Inv, LeftEdged, Turned, RightEdged

LEMMA MaskEndsInv == Inv /\ MaskEnds => Inv'
<1>1. SUFFICES ASSUME Inv, MaskEnds PROVE Inv'
  OBVIOUS
<1>2. /\ Types /\ Masking /\ pc' = "done" /\ dqs' = start_dqs /\ dm' = mask_mid
      /\ result' => dq_ok /\ win_best # 0 /\ -bgn_best - mask_mid >= 0
      /\ UNCHANGED <<board, d, left_edge, right_edge, sticky, dq, bgn_curr, end_curr, bgn_best,
                     end_best, win_best, dq_ok>>
  <2>1. result' => dq_ok /\ win_best # 0 /\ -bgn_best - mask_mid >= 0
    BY <1>1, Zenon DEF MaskEnds
  <2> QED BY <1>1, <2>1 DEF MaskEnds, Inv, Masking, edges, window
<1>3. /\ bgn_best \in Int /\ end_best \in Int /\ start_dqs \in Int
      /\ win_best # 0 => bgn_best <= end_best /\ Window(bgn_best, end_best)
  BY <1>1, <1>2 DEF Types, Inv, MaskWindows, start_dqs
<1>4. mask_mid \in Int /\ (win_best # 0 => -end_best <= mask_mid)
  <2>1. -bgn_best \in Int /\ -end_best \in Int /\ -bgn_best - end_best \in Int
        /\ -bgn_best - end_best = -end_best + (-bgn_best)
    BY <1>3
  <2>2. Half(-bgn_best - end_best) \in Int
    BY <2>1, HalfIsInt
  <2>3. CASE win_best # 0
    <3> DEFINE a == -end_best
               b == -bgn_best
    <3>1. a \in Int /\ b \in Int /\ a <= b /\ a + b = -bgn_best - end_best
      BY <1>3, <2>3
    <3> HIDE DEF a, b
    <3>2. /\ Half(a + b) >= 0 => a <= Half(a + b)
          /\ Half(a + b) < 0 => a <= 0
      BY <3>1, HalfIsBetween
    <3>3. a <= (IF Half(a + b) < 0 THEN 0 ELSE Half(a + b)) /\ Half(a + b) \in Int
      BY <2>2, <3>1, <3>2
    <3>4. a <= mask_mid
      BY <3>1, <3>3 DEF mask_mid
    <3> QED BY <2>2, <3>4 DEF a, mask_mid
  <2>4. CASE win_best = 0
    BY <2>2, <2>4 DEF mask_mid
  <2> QED BY <2>3, <2>4
<1>5. Types'
  BY <1>2, <1>3, <1>4 DEF Types, Unset
<1>6. result' => mask_mid \in board.mask
  <2>1. SUFFICES ASSUME result' PROVE mask_mid \in board.mask
    OBVIOUS
  <2> DEFINE y == -mask_mid
  <2>2. y \in Int /\ bgn_best <= y /\ y <= end_best /\ -y = mask_mid
    BY <1>2, <1>3, <1>4, <2>1
  <2> HIDE DEF y
  <2>3. -y \in board.mask
    BY <1>2, <1>3, <2>1, <2>2 DEF Window
  <2> QED BY <2>2, <2>3
<1>7. start_dqs' = start_dqs
  BY <1>2 DEF start_dqs
<1>8. MaskWindows'
  BY <1>2, <1>3, <1>4, <1>6, <1>7 DEF MaskWindows, Masking, Done, Window
<1>9. PinsCentred'
  <2>1. ASSUME NEW i \in Pins, result' PROVE NearEye(i, Offset(i))'
    <3>1. NearEye(i, dq[i])
      BY <1>1, <1>2, <2>1 DEF Inv, PinsCentred
    <3>2. Offset(i)' = dq[i]
      BY <1>2, <1>3, <1>7 DEF Offset, Types
    <3> QED BY <1>2, <3>1, <3>2 DEF NearEye
  <2> QED BY <1>2, <2>1 DEF PinsCentred, Masking, Done
<1> QED BY <1>2, <1>5, <1>8, <1>9 DEF Inv, LeftEdged, Turned, RightEdged

LEMMA SweepsInvariant == Spec => []Inv
<1>1. Inv /\ [Next]_vars => Inv'
  <2>1. CASE Next
    BY <2>1, LeftSweepInv, BetweenInv, RightSweepInv, FailsInv, CentreInv, MaskSweepInv,
       MaskTurnsInv, MaskDqsSweepInv, MaskEndsInv DEF Next
  <2>2. ASSUME Inv, UNCHANGED vars PROVE Inv'
    BY <2>2 DEF vars, edges, window, Inv, Types, Edged, Lowest, Highest, LeftEdged, Turned,
                RightEdged, PinsCentred, MaskWindows, Masking, Done, Window, NearEye, Offset,
                Unset, Writing, start_dqs
  <2> QED BY <2>1, <2>2
<1> QED BY <1>1, InitInv, PTL DEF Spec

\* What rw_mgr_mem_calibrate_vfifo_center() and rw_mgr_mem_calibrate_writes_center() call a
\* success leaves every pin, and for the writes the data mask, where a test could pass.
THEOREM CentreIsInTheEye == Spec => []SuccessIsInTheEye
<1>1. Inv => SuccessIsInTheEye
  BY DEF Inv, PinsCentred, MaskWindows, SuccessIsInTheEye
<1> QED BY <1>1, SweepsInvariant, PTL
-----------------------------------------------------------------------------
(* The widest window.  The two sweeps of the mask go through the offsets from  *)
(* one end to the other, and try zero twice.                                   *)

\* The first offset not tried yet.
Reach == IF pc = "mask" THEN -d ELSE IF d = 0 THEN 1 ELSE d
Fits(first, last) == last - first + 1 <= win_best

\* No window that was passed is wider than the best, and the current one is the whole of
\* what has been passed last.
Measured ==
    /\ pc \in {"mask", "mask_dqs"} =>
          /\ -1 <= d
          /\ \A a, b \in Int : (-DELAY_MAX <= a /\ a <= b /\ b < Reach /\ Window(a, b)) => Fits(a, b)
          /\ \A a \in Int : (-DELAY_MAX <= a /\ a < Reach /\ Window(a, Reach - 1)) =>
                               bgn_curr # Unset /\ bgn_curr <= a
          /\ bgn_curr # Unset => bgn_curr < Reach
    /\ (pc = "mask_end" \/ (Done /\ Writing /\ result)) =>
          \A a, b \in Int : (/\ -DELAY_MAX <= a /\ a <= b /\ b <= DELAY_MAX - start_dqs
                             /\ Window(a, b)) => Fits(a, b)

\* The windows that begin or end nowhere but where they did before, and those that end at
\* the offset e that is tried now.
AllFit(e) == \A a, b \in Int : (-DELAY_MAX <= a /\ a <= b /\ b < e /\ Window(a, b)) => Fits(a, b)
Whole(e) == \A a \in Int : (-DELAY_MAX <= a /\ a < e /\ Window(a, e - 1)) =>
                              bgn_curr # Unset /\ bgn_curr <= a

LEMMA PassedMeasured ==
  ASSUME Types, Types', NEW e \in Int, e <= DELAY_MAX, board' = board, Passed(e),
         AllFit(e), Whole(e), bgn_curr # Unset => bgn_curr <= e
  PROVE  AllFit(e + 1)' /\ Whole(e + 1)' /\ bgn_curr' <= e
<1>1. /\ bgn_curr \in Int /\ win_best \in Nat /\ bgn_curr' \in Int /\ win_best' \in Nat
      /\ Unset = DELAY_MAX + 1 /\ Unset' = Unset
  BY DEF Types, Unset
<1>2. bgn_curr' = (IF bgn_curr = Unset THEN e ELSE bgn_curr)
  BY DEF Passed
<1>3. win_best' >= win_best /\ win_best' >= e - bgn_curr' + 1
  BY <1>1 DEF Passed
<1>4. \A a, b \in Int : Window(a, b)' <=> Window(a, b)
  BY DEF Window
<1>5. bgn_curr' # Unset /\ bgn_curr' <= e
  BY <1>1, <1>2
<1>6. ASSUME NEW a \in Int, -DELAY_MAX <= a, a <= e, Window(a, e) PROVE bgn_curr' <= a
  <2>1. CASE a = e BY <1>5, <2>1
  <2>2. CASE a < e
    <3>1. Window(a, e - 1) BY <1>6 DEF Window
    <3> QED BY <1>2, <1>6, <2>2, <3>1 DEF Whole
  <2> QED BY <1>6, <2>1, <2>2
<1>7. Whole(e + 1)'
  <2> SUFFICES ASSUME NEW a \in Int, -DELAY_MAX <= a, a < e + 1, Window(a, e + 1 - 1)'
               PROVE  bgn_curr' # Unset' /\ bgn_curr' <= a
    BY DEF Whole
  <2>1. e + 1 - 1 = e /\ a <= e OBVIOUS
  <2>2. Window(a, e) BY <1>4, <2>1
  <2> QED BY <1>1, <1>5, <1>6, <2>1, <2>2
<1>8. AllFit(e + 1)'
  <2> SUFFICES ASSUME NEW a \in Int, NEW b \in Int, -DELAY_MAX <= a, a <= b, b < e + 1,
                      Window(a, b)'
               PROVE  Fits(a, b)'
    BY DEF AllFit
  <2>1. CASE b < e
    <3>1. Fits(a, b) BY <1>4, <2>1 DEF AllFit
    <3> QED BY <1>1, <1>3, <3>1 DEF Fits
  <2>2. CASE b = e
    <3>1. bgn_curr' <= a BY <1>4, <1>6, <2>2
    <3>2. PICK k \in Int, w \in Int : k = bgn_curr' /\ w = win_best' BY <1>1
    <3>3. k <= a /\ w >= e - k + 1 BY <1>3, <3>1, <3>2
    <3>4. e - a + 1 <= w BY <3>3
    <3> QED BY <2>2, <3>2, <3>4 DEF Fits
  <2> QED BY <2>1, <2>2
<1> QED BY <1>5, <1>7, <1>8

LEMMA FailedMeasured ==
  ASSUME Types, NEW e \in Int, board' = board, -e \notin board.mask, AllFit(e),
         bgn_curr' = Unset, win_best' = win_best
  PROVE  AllFit(e + 1)' /\ Whole(e + 1)'
<1>1. \A a, b \in Int : Window(a, b)' <=> Window(a, b)
  BY DEF Window
<1>2. \A a, b \in Int : a <= e /\ e <= b => ~Window(a, b)
  BY DEF Window
<1>3. Whole(e + 1)'
  <2> SUFFICES ASSUME NEW a \in Int, a < e + 1, Window(a, e + 1 - 1)' PROVE FALSE
    BY DEF Whole
  <2>1. e + 1 - 1 = e /\ a <= e OBVIOUS
  <2> QED BY <1>1, <1>2, <2>1
<1>4. AllFit(e + 1)'
  <2> SUFFICES ASSUME NEW a \in Int, NEW b \in Int, -DELAY_MAX <= a, a <= b, b < e + 1,
                      Window(a, b)'
               PROVE  Fits(a, b)'
    BY DEF AllFit
  <2>1. b < e BY <1>1, <1>2
  <2> QED BY <1>1, <2>1 DEF AllFit, Fits
<1> QED BY <1>3, <1>4

LEMMA MeasuredStep == Inv /\ Inv' /\ Measured /\ [Next]_vars => Measured'
<1> SUFFICES ASSUME Inv, Inv', Measured, [Next]_vars PROVE Measured' OBVIOUS
<1>0. /\ Types /\ Types' /\ d \in Int /\ start_dqs \in 0..DELAY_MAX /\ DELAY_MAX \in Nat
      /\ bgn_curr \in Int /\ win_best \in Nat /\ board' = board
      /\ Unset' = Unset /\ Unset = DELAY_MAX + 1
      /\ start_dqs' = start_dqs /\ (Writing' <=> Writing)
  <2>1. board' = board
    BY DEF Next, LeftSweep, Between, RightSweep, Fails, Centre, MaskSweep, MaskTurns,
           MaskDqsSweep, MaskEnds, vars
  <2> QED BY <2>1 DEF Inv, Types, start_dqs, Unset, Writing
<1>1. CASE LeftSweep \/ Between \/ RightSweep
  <2>1. pc' \in {"left", "between", "right", "centre"}
    BY <1>1 DEF LeftSweep, Between, RightSweep
  <2> QED BY <2>1 DEF Measured, Done
<1>2. CASE Fails
  BY <1>2 DEF Fails, Measured, Done
<1>3. CASE Centre
  <2>1. CASE ~Writing BY <1>0, <1>3, <2>1 DEF Centre, Measured, Done
  <2>2. CASE Writing
    <3>1. pc' = "mask" /\ d' = DELAY_MAX /\ bgn_curr' = bgn_curr
      BY <1>3, <2>2 DEF Centre, window
    <3>2. bgn_curr = Unset
      BY <1>3 DEF Centre, SweepsEnd, Inv, MaskWindows, Masking
    <3>3. Reach' = -DELAY_MAX
      BY <3>1 DEF Reach
    <3>4. \A a \in Int : ~(-DELAY_MAX <= a /\ a < Reach')
      BY <1>0, <3>3
    <3>5. \A a, b \in Int : ~(-DELAY_MAX <= a /\ a <= b /\ b < Reach')
      BY <1>0, <3>3
    <3> QED BY <1>0, <3>1, <3>2, <3>4, <3>5 DEF Measured, Done
  <2> QED BY <2>1, <2>2
<1>4. CASE MaskSweep
  <2> DEFINE e == -d
  <2>1. /\ pc = "mask" /\ pc' = "mask" /\ d >= 0 /\ d' = d - 1 /\ d <= DELAY_MAX
        /\ \/ d \in board.mask /\ Passed(-d)
           \/ /\ d \notin board.mask /\ bgn_curr' = Unset /\ win_best' = win_best
    BY <1>4 DEF MaskSweep, NoCurrent, Inv, MaskWindows
  <2>2. e \in Int /\ e <= DELAY_MAX /\ -e = d /\ Reach = e /\ Reach' = e + 1
    BY <1>0, <2>1 DEF Reach
  <2>3. AllFit(e) /\ Whole(e) /\ (bgn_curr # Unset => bgn_curr <= e)
    BY <1>0, <2>1, <2>2 DEF Measured, AllFit, Whole
  <2>4. Passed(e) <=> Passed(-d) OBVIOUS
  <2>5. PICK n \in Int : n = e + 1 BY <2>2
  <2>6. AllFit(n)' /\ Whole(n)' /\ (bgn_curr' # Unset => bgn_curr' < n)
    <3>1. PICK k \in Int : k = e BY <2>2
    <3>2. CASE Passed(-d)
      BY <1>0, <2>1, <2>2, <2>3, <2>4, <2>5, <3>1, <3>2, PassedMeasured DEF Types
    <3>3. CASE -k \notin board.mask /\ bgn_curr' = Unset /\ win_best' = win_best
      <4>1. AllFit(k + 1)' /\ Whole(k + 1)' BY <1>0, <2>3, <3>1, <3>3, FailedMeasured
      <4> QED BY <2>5, <3>1, <3>3, <4>1
    <3> QED BY <2>1, <2>2, <3>1, <3>2, <3>3
  <2>7. Reach' = n BY <2>2, <2>5
  <2> HIDE DEF e
  <2> QED BY <1>0, <2>1, <2>6, <2>7 DEF Measured, AllFit, Whole, Done
<1>5. CASE MaskTurns
  <2>1. /\ pc = "mask" /\ d < 0 /\ pc' = "mask_dqs" /\ d' = 0 /\ win_best' = win_best
        /\ \/ bgn_curr' = Unset /\ end_curr # 0
           \/ bgn_curr' = bgn_curr
    BY <1>5 DEF MaskTurns, NoCurrent
  <2>2. d = -1 /\ Reach = 1 /\ Reach' = 1
    BY <1>0, <2>1 DEF Measured, Reach
  <2>3. bgn_curr # Unset => end_curr = 0
    <3>1. MaskWindows BY DEF Inv
    <3>2. bgn_curr # Unset => end_curr = -(d + 1) BY <2>1, <3>1 DEF MaskWindows
    <3>3. \A n \in Int : n <= -1 /\ n >= -1 => -(n + 1) = 0 OBVIOUS
    <3>4. d <= -1 /\ d >= -1 BY <2>2
    <3> QED BY <1>0, <3>2, <3>3, <3>4
  <2>4. \A a, b \in Int : Window(a, b)' <=> Window(a, b)
    BY <1>0 DEF Window
  <2>5. bgn_curr' = bgn_curr
    BY <2>1, <2>3
  <2> QED BY <1>0, <2>1, <2>2, <2>4, <2>5 DEF Measured, Fits, Done
<1>6. CASE MaskDqsSweep
  <2>1. /\ pc = "mask_dqs" /\ d >= 0 /\ d <= DELAY_MAX - start_dqs
        /\ \/ -d \in board.mask /\ Passed(d) /\ d' = d + 1 /\ pc' = pc
           \/ /\ -d \notin board.mask /\ bgn_curr' = Unset /\ win_best' = win_best
              /\ \/ pc' = pc /\ d' = d + 1
                 \/ pc' = "mask_end" /\ win_best - 1 > DELAY_MAX - start_dqs - d
    BY <1>6 DEF MaskDqsSweep, NoCurrent, Inv, MaskWindows
  <2>2. Reach = (IF d = 0 THEN 1 ELSE d) /\ (pc' = pc => Reach' = d + 1)
    BY <1>0, <2>1 DEF Reach
  <2>3. AllFit(d) /\ (bgn_curr # Unset => bgn_curr <= d)
    BY <1>0, <2>1, <2>2 DEF Measured, AllFit
  <2>4. CASE -d \in board.mask /\ Passed(d) /\ d' = d + 1 /\ pc' = pc
    <3>1. Whole(d)
      <4> SUFFICES ASSUME NEW a \in Int, -DELAY_MAX <= a, a < d, Window(a, d - 1)
                   PROVE  bgn_curr # Unset /\ bgn_curr <= a
        BY DEF Whole
      <4>1. Window(a, Reach - 1) /\ a < Reach
        BY <1>0, <2>1, <2>2, <2>4 DEF Window
      <4> QED BY <2>1, <4>1 DEF Measured
    <3>2. PICK k \in Int : k = d BY <1>0
    <3>3. AllFit(k + 1)' /\ Whole(k + 1)' /\ bgn_curr' <= k
      BY <1>0, <2>1, <2>3, <2>4, <3>1, <3>2, PassedMeasured
    <3>4. Reach' = k + 1 /\ bgn_curr' \in Int BY <1>0, <2>2, <2>4, <3>2 DEF Types
    <3> QED BY <1>0, <2>1, <2>4, <3>2, <3>3, <3>4 DEF Measured, AllFit, Whole, Done
  <2>5. CASE -d \notin board.mask /\ bgn_curr' = Unset /\ win_best' = win_best
    <3>1. PICK k \in Int : k = d BY <1>0
    <3>2. AllFit(k + 1)' /\ Whole(k + 1)'
      BY <1>0, <2>3, <2>5, <3>1, FailedMeasured
    <3>3. CASE pc' = pc /\ d' = d + 1
      <4>1. Reach' = k + 1 BY <2>2, <3>1, <3>3
      <4> QED BY <1>0, <2>1, <2>5, <3>1, <3>2, <3>3, <4>1 DEF Measured, AllFit, Whole, Done
    <3>4. CASE pc' = "mask_end" /\ win_best - 1 > DELAY_MAX - start_dqs - d
      <4>1. ASSUME NEW a \in Int, NEW b \in Int, -DELAY_MAX <= a, a <= b,
                   b <= DELAY_MAX - start_dqs, Window(a, b)
            PROVE  Fits(a, b)'
        <5>1. ~(a <= d /\ d <= b) BY <1>0, <2>5, <4>1 DEF Window
        <5>2. CASE b < d BY <2>3, <2>5, <4>1, <5>2 DEF AllFit, Fits
        <5>3. CASE a > d BY <1>0, <2>5, <3>4, <4>1, <5>3 DEF Fits
        <5> QED BY <1>0, <5>1, <5>2, <5>3
      <4>2. \A a, b \in Int : Window(a, b)' <=> Window(a, b)
        BY <1>0 DEF Window
      <4> QED BY <1>0, <3>4, <4>1, <4>2 DEF Measured, Done
    <3> QED BY <2>1, <2>5, <3>3, <3>4
  <2> QED BY <2>1, <2>4, <2>5
<1>7. CASE MaskEnds
  <2>1. /\ pc' = "done" /\ win_best' = win_best
        /\ pc = "mask_end" \/ (pc = "mask_dqs" /\ d > DELAY_MAX - start_dqs)
    BY <1>7 DEF MaskEnds, window
  <2>2. ASSUME NEW a \in Int, NEW b \in Int, -DELAY_MAX <= a, a <= b,
               b <= DELAY_MAX - start_dqs, Window(a, b)
        PROVE  Fits(a, b)
    <3>1. CASE pc = "mask_end" BY <2>2, <3>1 DEF Measured
    <3>2. CASE pc = "mask_dqs" /\ d > DELAY_MAX - start_dqs
      <4>1. b < Reach BY <1>0, <2>2, <3>2 DEF Reach
      <4> QED BY <2>2, <3>2, <4>1 DEF Measured
    <3> QED BY <2>1, <3>1, <3>2
  <2>3. \A a, b \in Int : (Window(a, b)' <=> Window(a, b)) /\ (Fits(a, b)' <=> Fits(a, b))
    BY <1>0, <2>1 DEF Window, Fits
  <2> QED BY <1>0, <2>1, <2>2, <2>3 DEF Measured, Done
<1>8. CASE UNCHANGED vars
  <2>1. UNCHANGED <<board, pc, d, bgn_curr, win_best, result>>
    BY <1>8 DEF vars, window
  <2>2. /\ Reach' = Reach /\ (Done' <=> Done) /\ Reach \in Int
        /\ \A a, b \in Int : (Window(a, b)' <=> Window(a, b)) /\ (Fits(a, b)' <=> Fits(a, b))
    BY <1>0, <2>1 DEF Window, Fits, Reach, Done
  <2>3. \A a \in Int : Window(a, Reach - 1)' <=> Window(a, Reach - 1)
    BY <2>1, <2>2 DEF Window
  <2> QED BY <1>0, <2>1, <2>2, <2>3 DEF Measured
<1> QED BY <1>1, <1>2, <1>3, <1>4, <1>5, <1>6, <1>7, <1>8 DEF Next

\* The best window is as wide as win_best says and within reach, and the mask is put into
\* the middle of it.
Best ==
    /\ Masking /\ bgn_curr # Unset => -DELAY_MAX <= bgn_curr
    /\ win_best # 0 => /\ win_best = end_best - bgn_best + 1
                       /\ -DELAY_MAX <= bgn_best /\ end_best <= DELAY_MAX - start_dqs
    /\ Done /\ Writing /\ result =>
          win_best # 0 /\ mask_mid <= -bgn_best /\ dm = mask_mid /\ dqs = start_dqs

LEMMA PassedBest ==
  ASSUME Types, Best, Masking, NEW e \in Int, Passed(e), board' = board,
         -DELAY_MAX <= e, e <= DELAY_MAX - start_dqs, pc' \in {"mask", "mask_dqs"}
  PROVE  Best'
<1>1. /\ bgn_curr \in Int /\ bgn_best \in Int /\ end_best \in Int /\ win_best \in Nat
      /\ start_dqs \in Int /\ DELAY_MAX \in Int /\ Unset' = Unset /\ start_dqs' = start_dqs
  BY DEF Types, Unset, start_dqs
<1>2. bgn_curr' = (IF bgn_curr = Unset THEN e ELSE bgn_curr)
  BY DEF Passed
<1>3. -DELAY_MAX <= bgn_curr' /\ bgn_curr' \in Int
  BY <1>1, <1>2 DEF Best
<1>4. win_best' # 0 => /\ win_best' = end_best' - bgn_best' + 1
                       /\ -DELAY_MAX <= bgn_best' /\ end_best' <= DELAY_MAX - start_dqs
  <2>1. CASE e - bgn_curr' + 1 > win_best
    BY <1>1, <1>3, <2>1 DEF Passed
  <2>2. CASE ~(e - bgn_curr' + 1 > win_best)
    BY <2>2 DEF Passed, Best
  <2> QED BY <2>1, <2>2
<1> QED BY <1>1, <1>3, <1>4 DEF Best, Done

LEMMA BestStep == Inv /\ Best /\ [Next]_vars => Best'
<1> SUFFICES ASSUME Inv, Best, [Next]_vars PROVE Best' OBVIOUS
<1>0. /\ Types /\ d \in Int /\ start_dqs \in 0..DELAY_MAX /\ DELAY_MAX \in Nat
      /\ board' = board /\ Unset' = Unset /\ start_dqs' = start_dqs /\ (Writing' <=> Writing)
  <2>1. board' = board
    BY DEF Next, LeftSweep, Between, RightSweep, Fails, Centre, MaskSweep, MaskTurns,
           MaskDqsSweep, MaskEnds, vars
  <2> QED BY <2>1 DEF Inv, Types, start_dqs, Unset, Writing
<1>1. CASE LeftSweep \/ Between \/ RightSweep
  <2>1. pc' \in {"left", "between", "right", "centre"} /\ UNCHANGED window
    BY <1>1 DEF LeftSweep, Between, RightSweep
  <2> QED BY <1>0, <2>1 DEF Best, Masking, Done, window
<1>2. CASE Fails
  <2>1. pc' = "done" /\ ~result' /\ UNCHANGED window
    BY <1>2 DEF Fails
  <2> QED BY <1>0, <2>1 DEF Best, Masking, Done, window
<1>3. CASE Centre
  <2>1. bgn_curr = Unset /\ UNCHANGED window
    BY <1>3 DEF Centre, SweepsEnd, Inv, MaskWindows, Masking
  <2>2. pc' = "mask" \/ (~Writing /\ pc' = "done")
    BY <1>3 DEF Centre
  <2> QED BY <1>0, <2>1, <2>2 DEF Best, Masking, Done, window
<1>4. CASE MaskSweep
  <2>1. /\ pc = "mask" /\ pc' = pc /\ Masking /\ 0 <= d /\ d <= DELAY_MAX
        /\ Passed(-d) \/ (bgn_curr' = Unset /\ UNCHANGED <<bgn_best, end_best, win_best>>)
    BY <1>4 DEF MaskSweep, NoCurrent, Inv, MaskWindows, Masking
  <2>2. CASE Passed(-d)
    <3>1. PICK e \in Int : e = -d BY <1>0
    <3>2. -DELAY_MAX <= e /\ e <= DELAY_MAX - start_dqs /\ Passed(e)
      BY <1>0, <2>1, <2>2, <3>1
    <3> QED BY <1>0, <2>1, <3>2, PassedBest
  <2>3. CASE bgn_curr' = Unset /\ UNCHANGED <<bgn_best, end_best, win_best>>
    BY <1>0, <2>1, <2>3 DEF Best, Done
  <2> QED BY <2>1, <2>2, <2>3
<1>5. CASE MaskTurns
  <2>1. /\ pc' = "mask_dqs" /\ Masking
        /\ bgn_curr' = Unset \/ bgn_curr' = bgn_curr
        /\ UNCHANGED <<bgn_best, end_best, win_best>>
    BY <1>5 DEF MaskTurns, NoCurrent, Masking
  <2> QED BY <1>0, <2>1 DEF Best, Done
<1>6. CASE MaskDqsSweep
  <2>1. /\ Masking /\ 0 <= d /\ d <= DELAY_MAX - start_dqs
        /\ \/ Passed(d) /\ pc' = "mask_dqs"
           \/ /\ bgn_curr' = Unset /\ UNCHANGED <<bgn_best, end_best, win_best>>
              /\ pc' \in {"mask_dqs", "mask_end"}
    BY <1>6 DEF MaskDqsSweep, NoCurrent, Inv, MaskWindows, Masking
  <2>2. CASE Passed(d) /\ pc' = "mask_dqs"
    <3>1. -DELAY_MAX <= d BY <1>0, <2>1
    <3> QED BY <1>0, <2>1, <2>2, <3>1, PassedBest
  <2>3. CASE /\ bgn_curr' = Unset /\ UNCHANGED <<bgn_best, end_best, win_best>>
             /\ pc' \in {"mask_dqs", "mask_end"}
    BY <1>0, <2>1, <2>3 DEF Best, Done
  <2> QED BY <2>1, <2>2, <2>3
<1>7. CASE MaskEnds
  <2>1. /\ pc' = "done" /\ dqs' = start_dqs /\ dm' = mask_mid /\ UNCHANGED window
    BY <1>7 DEF MaskEnds
  <2>2. result' => win_best # 0 /\ -bgn_best - mask_mid >= 0
    BY <1>7, Zenon DEF MaskEnds
  <2>3. -bgn_best - end_best \in Int /\ bgn_best \in Int
    BY <1>0 DEF Types
  <2>4. mask_mid \in Int
    BY <2>3, HalfIsInt DEF mask_mid
  <2>5. mask_mid' = mask_mid
    BY <2>1 DEF mask_mid, window
  <2>6. result' => mask_mid <= -bgn_best
    BY <2>2, <2>3, <2>4
  <2> QED BY <1>0, <2>1, <2>2, <2>5, <2>6 DEF Best, Masking, Done, window
<1>8. CASE UNCHANGED vars
  BY <1>8 DEF vars, window, Best, Masking, Done, Unset, Writing, start_dqs, mask_mid
<1> QED BY <1>1, <1>2, <1>3, <1>4, <1>5, <1>6, <1>7, <1>8 DEF Next

LEMMA HalfIsNear == \A n \in Int : 2 * Half(n) - n \in -1..1 /\ (n < 0 => Half(n) <= 0)
BY DEF Half

\* The early end of the second sweep and the window that goes on across offset zero lose
\* nothing: bgn_best and end_best are the ends of a window of mask tests that pass, no
\* window that either chain can reach is wider, and the mask is left in the middle of it.
THEOREM WindowIsWidest == Spec => []WidestWindow
<1>1. Init => Measured /\ Best
  BY DEF Init, Measured, Best, Masking, Done
<1>2. Spec => []Measured
  BY <1>1, MeasuredStep, SweepsInvariant, PTL DEF Spec
<1>3. Spec => []Best
  BY <1>1, BestStep, SweepsInvariant, PTL DEF Spec
<1>4. ASSUME Inv, Measured, Best, Done, Writing, result
      PROVE  /\ -end_best <= -bgn_best /\ Run(-end_best, -bgn_best)
             /\ \A a, b \in -DELAY_MAX..DELAY_MAX : Run(a, b) => b - a <= -bgn_best - (-end_best)
             /\ MaskOffset \in -end_best .. -bgn_best
             /\ MidOf(-end_best, -bgn_best, MaskOffset)
  <2>1. PICK lo \in Int, hi \in Int : lo = -end_best /\ hi = -bgn_best
    BY <1>4 DEF Inv, Types
  <2>2. /\ start_dqs \in 0..DELAY_MAX /\ win_best \in Nat /\ DELAY_MAX \in Nat
        /\ bgn_best \in Int /\ end_best \in Int /\ bgn_best = -hi /\ end_best = -lo
    BY <1>4, <2>1 DEF Inv, Types, start_dqs
  <2>3. /\ win_best # 0 /\ win_best = end_best - bgn_best + 1 /\ mask_mid <= -bgn_best
        /\ -DELAY_MAX <= bgn_best /\ end_best <= DELAY_MAX - start_dqs
        /\ dm = mask_mid /\ dqs = start_dqs
    BY <1>4 DEF Best
  <2>4. bgn_best <= end_best /\ Window(bgn_best, end_best)
    BY <1>4, <2>3 DEF Inv, MaskWindows
  <2>5. lo <= hi /\ win_best = hi - lo + 1
    BY <2>2, <2>3, <2>4
  <2>6. Run(lo, hi)
    <3>1. Reachable(lo) /\ Reachable(hi)
      BY <2>2, <2>3, <2>5 DEF Reachable
    <3>2. ASSUME NEW z \in lo..hi PROVE z \in board.mask
      <4>1. -z \in Int /\ bgn_best <= -z /\ -z <= end_best /\ -(-z) = z
        BY <2>2
      <4> QED BY <2>4, <4>1 DEF Window
    <3> QED BY <3>1, <3>2 DEF Run
  <2>7. ASSUME NEW x \in -DELAY_MAX..DELAY_MAX, NEW y \in -DELAY_MAX..DELAY_MAX, Run(x, y)
        PROVE  y - x <= hi - lo
    <3>1. CASE x > y BY <2>5, <3>1
    <3>2. CASE x <= y
      <4>1. PICK a \in Int, b \in Int : a = -y /\ b = -x OBVIOUS
      <4>2. /\ -DELAY_MAX <= a /\ a <= b /\ b <= DELAY_MAX - start_dqs
            /\ b - a + 1 = y - x + 1
        BY <2>2, <2>7, <3>2, <4>1 DEF Run, Reachable
      <4>3. Window(a, b)
        <5> SUFFICES ASSUME NEW z \in Int, a <= z, z <= b PROVE -z \in board.mask
          BY DEF Window
        <5>1. -z \in x..y BY <4>1
        <5> QED BY <2>7, <5>1 DEF Run
      <4>4. Fits(a, b) BY <1>4, <4>2, <4>3 DEF Measured
      <4> QED BY <2>5, <4>2, <4>4 DEF Fits
    <3> QED BY <3>1, <3>2
  <2>8. -bgn_best - end_best = lo + hi /\ lo + hi \in Int
    BY <2>1, <2>2
  <2>9. PICK m \in Int : m = Half(lo + hi)
    BY <2>8, HalfIsInt
  <2>10. /\ mask_mid = IF m < 0 THEN 0 ELSE m
    BY <2>8, <2>9 DEF mask_mid
  <2>11. 2 * m - (lo + hi) \in -1..1 /\ (lo + hi < 0 => m <= 0)
    BY <2>8, <2>9, HalfIsNear
  <2>12. PICK c \in Int : c = (IF m < 0 THEN 0 ELSE m)
    BY <2>9
  <2>13. mask_mid = c /\ MaskOffset = c
    BY <2>2, <2>3, <2>10, <2>12 DEF MaskOffset
  <2>14. lo <= c /\ c <= hi
    BY <2>1, <2>3, <2>5, <2>11, <2>12, <2>13
  <2>15. MidOf(lo, hi, c)
    BY <2>11, <2>12 DEF MidOf
  <2>16. -bgn_best - (-end_best) = hi - lo
    BY <2>1, <2>2
  <2> QED BY <2>1, <2>5, <2>6, <2>7, <2>13, <2>14, <2>15, <2>16
<1>5. Inv /\ Measured /\ Best => WidestWindow
  BY <1>4 DEF WidestWindow
<1> QED BY <1>2, <1>3, <1>5, SweepsInvariant, PTL
-----------------------------------------------------------------------------
(* The middle of clean eyes. *)

Lo(i) == board.eye[i].lo
Hi(i) == board.eye[i].hi
Least(a, b) == IF a <= b THEN a ELSE b

\* While the pins are delayed, a pin has been right or has not yet.
Seen(i) == Hi(i) >= 0 /\ Lo(i) < d /\ d > 0
ExactLeft ==
    pc = "left" => \A i \in Pins :
        IF Seen(i)
        THEN /\ left_edge[i] = Least(Hi(i), d - 1) /\ i \in sticky
             /\ right_edge[i] = IF Lo(i) <= 0 THEN Unset ELSE -Lo(i)
        ELSE /\ left_edge[i] = Unset /\ i \notin sticky
             /\ right_edge[i] = IF d = 0 THEN Unset ELSE -d
ExactBetween ==
    pc = "between" => \A i \in Pins :
        /\ left_edge[i] = IF Hi(i) >= 0 THEN Hi(i) ELSE Unset
        /\ Hi(i) >= 0 => right_edge[i] = IF Lo(i) <= 0 THEN Unset ELSE -Lo(i)

\* What the second sweep knows of an eye from lo to hi, before DQS is delayed by k.
LeftIs(hi, k) == IF hi >= 0 THEN hi ELSE IF k = 0 THEN Unset ELSE -Least(-hi, k)
RightIs(lo, hi, k) == IF lo > 0 THEN -lo
                      ELSE IF k = 0 \/ k <= -hi THEN Unset ELSE Least(k - 1, -lo)
ExactRight ==
    pc = "right" => \A i \in Pins :
        /\ left_edge[i] = LeftIs(Hi(i), d) /\ right_edge[i] = RightIs(Lo(i), Hi(i), d)
        /\ i \in sticky /\ Hi(i) < 0 => d > -Hi(i)
ExactEdges == pc = "centre" => \A i \in Pins : left_edge[i] = Hi(i) /\ right_edge[i] = -Lo(i)

Middled ==
    /\ Masking => dq_ok /\ \A i \in Pins : 2 * dq[i] - Doubled(i) \in -1..1
    /\ Done => dq_ok /\ \A i \in Pins : 2 * Offset(i) - Doubled(i) \in -1..1

EyeInv == EyesInReach => ExactLeft /\ ExactBetween /\ ExactRight /\ ExactEdges /\ Middled

LEMMA EyeBounds ==
  ASSUME Types, EyesInReach, NEW i \in Pins
  PROVE  /\ Lo(i) \in Int /\ Hi(i) \in Int /\ Lo(i) <= Hi(i)
         /\ Hi(i) + 1 <= DELAY_MAX /\ start_dqs - DELAY_MAX <= Lo(i) - 1
         /\ Doubled(i) = Lo(i) + Hi(i) /\ Doubled(i) \in Int
         /\ start_dqs \in 0..DELAY_MAX /\ DELAY_MAX \in Nat /\ Unset = DELAY_MAX + 1
<1>1. /\ board.eye[i] \in [lo : Int, hi : Int] /\ start_dqs \in 0..DELAY_MAX
  BY DEF Types, start_dqs
<1>2. /\ board.eye[i].lo <= board.eye[i].hi
      /\ Reachable(board.eye[i].lo - 1) /\ Reachable(board.eye[i].hi + 1)
  BY DEF EyesInReach
<1> QED BY <1>1, <1>2 DEF Lo, Hi, Doubled, Reachable, Unset

\* A test of clean eyes has one outcome.
LEMMA OutcomeIsExact ==
  ASSUME Types, EyesInReach, NEW x \in Int, NEW good \in Outcomes(x), NEW i \in Pins
  PROVE  i \in good <=> Lo(i) <= x /\ x <= Hi(i)
<1>1. board.fringe = 0
  BY DEF EyesInReach
<1>2. (i \in good => NearEye(i, x)) /\ (InEye(i, x) => i \in good)
  BY DEF Outcomes
<1>3. Lo(i) \in Int /\ Hi(i) \in Int
  BY EyeBounds
<1>4. NearEye(i, x) => Lo(i) <= x /\ x <= Hi(i)
  BY <1>1, <1>3 DEF NearEye, Lo, Hi
<1> QED BY <1>2, <1>4 DEF InEye, Lo, Hi

LEMMA EyesStay ==
  ASSUME board' = board
  PROVE  /\ EyesInReach' <=> EyesInReach
         /\ \A i \in Pins : Lo(i)' = Lo(i) /\ Hi(i)' = Hi(i) /\ Doubled(i)' = Doubled(i)
         /\ start_dqs' = start_dqs /\ Writing' = Writing /\ Unset' = Unset
BY DEF EyesInReach, Reachable, Doubled, Lo, Hi, start_dqs, Writing, Unset

LEMMA LeftSweepEyes ==
  ASSUME Inv, EyesInReach, ExactLeft, LeftSweep
  PROVE  ExactLeft' /\ ExactBetween' /\ pc' \in {"left", "between"}
<1>0. PICK good \in Outcomes(d) :
         /\ sticky' = sticky \cup good
         /\ \/ pc' = "between" /\ UNCHANGED <<d, left_edge, right_edge>>
               /\ Past(good)
            \/ /\ left_edge' = [i \in Pins |-> IF i \in good THEN d ELSE left_edge[i]]
               /\ right_edge' = [i \in Pins |-> IF i \notin good /\ left_edge[i] = Unset
                                                THEN -(d + 1) ELSE right_edge[i]]
               /\ d' = d + 1 /\ pc' = pc
  BY DEF LeftSweep
<1>1. Types /\ pc = "left" /\ d \in Int /\ 0 <= d /\ d <= DELAY_MAX /\ board' = board
  BY DEF LeftSweep, Inv, Types, LeftEdged
<1>2. ASSUME NEW i \in Pins
      PROVE  /\ Lo(i) \in Int /\ Hi(i) \in Int /\ Lo(i) <= Hi(i) /\ Hi(i) + 1 <= DELAY_MAX
             /\ DELAY_MAX \in Nat /\ Unset = DELAY_MAX + 1
             /\ i \in good <=> Lo(i) <= d /\ d <= Hi(i)
             /\ Lo(i)' = Lo(i) /\ Hi(i)' = Hi(i) /\ Unset' = Unset
  BY <1>1, EyeBounds, OutcomeIsExact, EyesStay
<1>3. ASSUME NEW i \in Pins
      PROVE  IF Seen(i)
             THEN /\ left_edge[i] = Least(Hi(i), d - 1) /\ i \in sticky
                  /\ right_edge[i] = IF Lo(i) <= 0 THEN Unset ELSE -Lo(i)
             ELSE /\ left_edge[i] = Unset /\ i \notin sticky
                  /\ right_edge[i] = IF d = 0 THEN Unset ELSE -d
  BY <1>1 DEF ExactLeft
<1>4. CASE pc' = "between" /\ UNCHANGED <<d, left_edge, right_edge>> /\ Past(good)
  <2>1. ASSUME NEW i \in Pins
        PROVE  /\ left_edge'[i] = IF Hi(i) >= 0 THEN Hi(i) ELSE Unset
               /\ Hi(i) >= 0 => right_edge'[i] = IF Lo(i) <= 0 THEN Unset ELSE -Lo(i)
    <3>1. i \in sticky /\ i \notin good
      BY <1>4 DEF Past
    <3>2. Seen(i) /\ left_edge[i] = Least(Hi(i), d - 1)
      BY <1>3, <3>1
    <3>3. d > Hi(i) /\ Hi(i) >= 0
      BY <1>1, <1>2, <3>1, <3>2 DEF Seen
    <3>4. Least(Hi(i), d - 1) = Hi(i)
      BY <1>1, <1>2, <3>3 DEF Least
    <3> QED BY <1>3, <1>4, <3>2, <3>3, <3>4
  <2> QED BY <1>2, <1>4, <2>1 DEF ExactLeft, ExactBetween
<1>5. CASE /\ left_edge' = [i \in Pins |-> IF i \in good THEN d ELSE left_edge[i]]
           /\ right_edge' = [i \in Pins |-> IF i \notin good /\ left_edge[i] = Unset
                                            THEN -(d + 1) ELSE right_edge[i]]
           /\ d' = d + 1 /\ pc' = pc
  <2>1. ASSUME NEW i \in Pins
        PROVE  IF Seen(i)'
               THEN /\ left_edge'[i] = Least(Hi(i), d'- 1) /\ i \in sticky'
                    /\ right_edge'[i] = IF Lo(i) <= 0 THEN Unset ELSE -Lo(i)
               ELSE /\ left_edge'[i] = Unset /\ i \notin sticky'
                    /\ right_edge'[i] = IF d' = 0 THEN Unset ELSE -d'
    <3>1. /\ left_edge'[i] = IF i \in good THEN d ELSE left_edge[i]
          /\ right_edge'[i] = IF i \notin good /\ left_edge[i] = Unset
                              THEN -(d + 1) ELSE right_edge[i]
          /\ d' = d + 1
          /\ i \in sticky' <=> (i \in sticky \/ i \in good)
      BY <1>0, <1>5
    <3>2. Seen(i)' <=> Hi(i) >= 0 /\ Lo(i) <= d
      BY <1>1, <1>2, <3>1 DEF Seen
    <3>3. d' - 1 = d /\ d' # 0
      BY <1>1, <3>1
    <3>4. CASE i \in good
      <4>1. Seen(i)' /\ Least(Hi(i), d) = d
        BY <1>1, <1>2, <3>2, <3>4 DEF Least
      <4>2. right_edge[i] = IF Lo(i) <= 0 THEN Unset ELSE -Lo(i)
        <5>1. CASE Seen(i) BY <1>3, <5>1
        <5>2. CASE ~Seen(i)
          <6>1. d = 0 \/ Lo(i) = d BY <1>1, <1>2, <3>4, <5>2 DEF Seen
          <6>2. right_edge[i] = IF d = 0 THEN Unset ELSE -d BY <1>3, <5>2
          <6>3. CASE d = 0 BY <1>1, <1>2, <3>4, <6>2, <6>3
          <6>4. CASE d # 0 /\ Lo(i) = d BY <1>1, <6>2, <6>4
          <6> QED BY <6>1, <6>3, <6>4
        <5> QED BY <5>1, <5>2
      <4> QED BY <3>1, <3>3, <3>4, <4>1, <4>2
    <3>5. CASE i \notin good /\ Seen(i)
      <4>1. d > Hi(i) /\ Hi(i) >= 0 BY <1>1, <1>2, <3>5 DEF Seen
      <4>2. Seen(i)' /\ Least(Hi(i), d) = Hi(i) /\ Least(Hi(i), d - 1) = Hi(i) /\ Hi(i) # Unset
        BY <1>1, <1>2, <3>2, <4>1 DEF Least
      <4> QED BY <1>3, <3>1, <3>3, <3>5, <4>2
    <3>6. CASE i \notin good /\ ~Seen(i)
      <4>1. ~Seen(i)' BY <1>1, <1>2, <3>2, <3>6 DEF Seen
      <4> QED BY <1>3, <3>1, <3>3, <3>6, <4>1
    <3> QED BY <3>4, <3>5, <3>6
  <2> QED BY <1>1, <1>2, <1>5, <2>1 DEF ExactLeft, ExactBetween
<1>6. pc' \in {"left", "between"}
  BY <1>0, <1>1
<1> QED BY <1>0, <1>4, <1>5, <1>6

\* When the first sweep ends, a pin has an edge if its eye reaches over offset zero.
LEMMA BetweenEyes ==
  ASSUME Inv, EyesInReach, ExactLeft, ExactBetween, Between
  PROVE  ExactRight' /\ pc' = "right"
<1>1. /\ Types /\ d \in Int /\ board' = board /\ d' = 0 /\ left_edge' = left_edge
      /\ pc' = "right"
      /\ right_edge' = [i \in Pins |-> IF left_edge[i] = Unset THEN Unset ELSE right_edge[i]]
      /\ sticky' \subseteq {i \in Pins : left_edge[i] # Unset}
  BY DEF Between, Inv, Types
<1>2. ASSUME NEW i \in Pins
      PROVE  /\ Lo(i) \in Int /\ Hi(i) \in Int /\ Lo(i) <= Hi(i) /\ Hi(i) + 1 <= DELAY_MAX
             /\ DELAY_MAX \in Nat /\ Unset = DELAY_MAX + 1
             /\ Lo(i)' = Lo(i) /\ Hi(i)' = Hi(i) /\ Unset' = Unset
  BY <1>1, EyeBounds, EyesStay
<1>3. ASSUME NEW i \in Pins
      PROVE  /\ left_edge[i] = IF Hi(i) >= 0 THEN Hi(i) ELSE Unset
             /\ Hi(i) >= 0 => right_edge[i] = IF Lo(i) <= 0 THEN Unset ELSE -Lo(i)
  <2>1. CASE pc = "between" BY <2>1 DEF ExactBetween
  <2>2. CASE pc = "left" /\ d > DELAY_MAX
    <3>1. Seen(i) <=> Hi(i) >= 0 BY <1>1, <1>2, <2>2 DEF Seen
    <3>2. Least(Hi(i), d - 1) = Hi(i) BY <1>1, <1>2, <2>2 DEF Least
    <3> QED BY <2>2, <3>1, <3>2 DEF ExactLeft
  <2> QED BY <2>1, <2>2 DEF Between
<1>4. ASSUME NEW i \in Pins
      PROVE  /\ left_edge'[i] = IF Hi(i) >= 0 THEN Hi(i) ELSE Unset
             /\ right_edge'[i] = IF Lo(i) > 0 THEN -Lo(i) ELSE Unset
             /\ i \in sticky' => Hi(i) >= 0
  <2>1. /\ left_edge'[i] = left_edge[i]
        /\ right_edge'[i] = IF left_edge[i] = Unset THEN Unset ELSE right_edge[i]
        /\ i \in sticky' => left_edge[i] # Unset
    BY <1>1
  <2>2. Hi(i) # Unset BY <1>2
  <2>3. CASE Hi(i) >= 0
    <3>1. ~(Lo(i) > 0) <=> Lo(i) <= 0 BY <1>2
    <3> QED BY <1>3, <2>1, <2>2, <2>3, <3>1
  <2>4. CASE ~(Hi(i) >= 0)
    <3>1. ~(Lo(i) > 0) BY <1>2, <2>4
    <3> QED BY <1>3, <2>1, <2>4, <3>1
  <2> QED BY <2>3, <2>4
<1> QED BY <1>1, <1>2, <1>4 DEF ExactRight, LeftIs, RightIs

\* One more tap of DQS: the edges stay exact, whether the pin is right or not.
LEMMA RightEdgesExact ==
  ASSUME NEW lo \in Int, NEW hi \in Int, NEW k \in Nat, lo <= hi, hi + 1 <= DELAY_MAX,
         -DELAY_MAX <= lo - 1, NEW r \in Int, NEW l \in Int,
         r = RightIs(lo, hi, k), l = LeftIs(hi, k)
  PROVE  /\ lo <= -k /\ -k <= hi => RightIs(lo, hi, k + 1) = k /\ LeftIs(hi, k + 1) = l
         /\ ~(lo <= -k /\ -k <= hi) =>
               /\ RightIs(lo, hi, k + 1) = r
               /\ k = 0 => ~(r = Unset /\ l # Unset)
               /\ LeftIs(hi, k + 1) = IF r = Unset /\ (k = 0 => l = Unset) THEN -(k + 1) ELSE l
<1>1. Unset = DELAY_MAX + 1 /\ DELAY_MAX \in Nat /\ -lo \in Int /\ -hi \in Int /\ -k \in Int
      /\ -lo # Unset /\ hi # Unset
  BY DEF Unset
<1>2. CASE lo > 0
  BY <1>1, <1>2 DEF RightIs, LeftIs
<1>3. CASE lo <= 0 /\ hi >= 0
  <2>1. ~(k <= -hi) \/ k = 0
    BY <1>3
  <2>2. CASE k = 0
    BY <1>1, <1>3, <2>2 DEF RightIs, LeftIs, Least
  <2>3. CASE k > 0
    BY <1>1, <1>3, <2>1, <2>3 DEF RightIs, LeftIs, Least
  <2> QED BY <2>2, <2>3
<1>4. CASE hi < 0
  <2>1. lo < 0
    BY <1>4
  <2>2. CASE k = 0
    BY <1>1, <1>4, <2>1, <2>2 DEF RightIs, LeftIs, Least
  <2>3. CASE k > 0 /\ k < -hi
    BY <1>1, <1>4, <2>1, <2>3 DEF RightIs, LeftIs, Least
  <2>4. CASE k > 0 /\ -hi <= k /\ k <= -lo
    BY <1>1, <1>4, <2>1, <2>4 DEF RightIs, LeftIs, Least
  <2>5. CASE k > 0 /\ -lo < k
    BY <1>1, <1>4, <2>1, <2>5 DEF RightIs, LeftIs, Least
  <2> QED BY <1>1, <2>2, <2>3, <2>4, <2>5
<1> QED BY <1>2, <1>3, <1>4

LEMMA RightSweepEyes ==
  ASSUME Inv, EyesInReach, ExactRight, RightSweep
  PROVE  ExactRight' /\ ExactEdges' /\ pc' \in {"right", "centre"}
<1>0. PICK good \in Outcomes(-d) :
         /\ sticky' = sticky \cup good
         /\ \/ /\ right_edge' = (IF Writing /\ d = 0 THEN EdgeAtOnce ELSE right_edge)
               /\ pc' = "centre" /\ UNCHANGED <<d, left_edge>>
               /\ Past(good)
            \/ /\ right_edge' = RightEdges(good) /\ left_edge' = LeftEdges(good)
               /\ d' = d + 1 /\ pc' = pc
  BY DEF RightSweep
<1>1. Types /\ pc = "right" /\ d \in Nat /\ -d \in Int /\ board' = board
  BY DEF RightSweep, Inv, Types, RightEdged
<1>2. ASSUME NEW i \in Pins
      PROVE  /\ Lo(i) \in Int /\ Hi(i) \in Int /\ Lo(i) <= Hi(i) /\ Hi(i) + 1 <= DELAY_MAX
             /\ -DELAY_MAX <= Lo(i) - 1
             /\ DELAY_MAX \in Nat /\ Unset = DELAY_MAX + 1
             /\ i \in good <=> Lo(i) <= -d /\ -d <= Hi(i)
             /\ Lo(i)' = Lo(i) /\ Hi(i)' = Hi(i) /\ Unset' = Unset
             /\ left_edge[i] \in Int /\ right_edge[i] \in Int
  <2>1. left_edge[i] \in Int /\ right_edge[i] \in Int BY <1>1 DEF Types, Unset
  <2>2. start_dqs - DELAY_MAX <= Lo(i) - 1 /\ start_dqs \in 0..DELAY_MAX /\ DELAY_MAX \in Nat
        /\ Lo(i) \in Int
    BY <1>1, EyeBounds
  <2> QED BY <1>1, <2>1, <2>2, EyeBounds, OutcomeIsExact, EyesStay
<1>3. ASSUME NEW i \in Pins
      PROVE  /\ left_edge[i] = LeftIs(Hi(i), d) /\ right_edge[i] = RightIs(Lo(i), Hi(i), d)
             /\ i \in sticky /\ Hi(i) < 0 => d > -Hi(i)
  BY <1>1 DEF ExactRight
<1>4. ASSUME NEW i \in Pins
      PROVE  /\ i \in good => /\ RightIs(Lo(i), Hi(i), d + 1) = d
                              /\ LeftIs(Hi(i), d + 1) = left_edge[i]
             /\ i \notin good =>
                   /\ RightIs(Lo(i), Hi(i), d + 1) = right_edge[i]
                   /\ d = 0 => ~(right_edge[i] = Unset /\ left_edge[i] # Unset)
                   /\ LeftIs(Hi(i), d + 1) =
                         IF right_edge[i] = Unset /\ (d = 0 => left_edge[i] = Unset)
                         THEN -(d + 1) ELSE left_edge[i]
  <2> DEFINE l == left_edge[i]
             r == right_edge[i]
             lo == Lo(i)
             hi == Hi(i)
  <2>1. /\ lo \in Int /\ hi \in Int /\ d \in Nat /\ lo <= hi /\ hi + 1 <= DELAY_MAX
        /\ -DELAY_MAX <= lo - 1 /\ r \in Int /\ l \in Int
        /\ r = RightIs(lo, hi, d) /\ l = LeftIs(hi, d)
        /\ i \in good <=> lo <= -d /\ -d <= hi
    BY <1>1, <1>2, <1>3
  <2> HIDE DEF l, r, lo, hi
  <2>2. /\ i \in good => /\ RightIs(lo, hi, d + 1) = d
                         /\ LeftIs(hi, d + 1) = l
        /\ i \notin good =>
              /\ RightIs(lo, hi, d + 1) = r
              /\ d = 0 => ~(r = Unset /\ l # Unset)
              /\ LeftIs(hi, d + 1) =
                    IF r = Unset /\ (d = 0 => l = Unset) THEN -(d + 1) ELSE l
    BY <2>1, RightEdgesExact
  <2> QED BY <2>2 DEF l, r, lo, hi
<1>5. CASE /\ right_edge' = (IF Writing /\ d = 0 THEN EdgeAtOnce ELSE right_edge)
           /\ pc' = "centre" /\ UNCHANGED <<d, left_edge>> /\ Past(good)
  <2>1. ASSUME NEW i \in Pins PROVE left_edge'[i] = Hi(i) /\ right_edge'[i] = -Lo(i)
    <3>1. i \in sticky /\ i \notin good
      BY <1>5 DEF Past
    <3>2. Lo(i) > 0 \/ (d > 0 /\ -d < Lo(i))
      BY <1>1, <1>2, <1>3, <3>1
    <3>3. left_edge[i] = Hi(i)
      <4>1. CASE Hi(i) >= 0 BY <1>3, <4>1 DEF LeftIs
      <4>2. CASE Hi(i) < 0
        <5>1. d > -Hi(i) BY <1>3, <3>1, <4>2
        <5>2. -Least(-Hi(i), d) = Hi(i) /\ d # 0 BY <1>1, <1>2, <4>2, <5>1 DEF Least
        <5> QED BY <1>2, <1>3, <4>2, <5>2 DEF LeftIs
      <4> QED BY <1>2, <4>1, <4>2
    <3>4. right_edge[i] = -Lo(i)
      <4>1. CASE Lo(i) > 0 BY <1>3, <4>1 DEF RightIs
      <4>2. CASE ~(Lo(i) > 0)
        <5>1. d > 0 /\ -Lo(i) < d /\ ~(d <= -Hi(i)) BY <1>1, <1>2, <3>2, <4>2
        <5>2. Least(d - 1, -Lo(i)) = -Lo(i) BY <1>1, <1>2, <5>1 DEF Least
        <5> QED BY <1>1, <1>3, <4>2, <5>1, <5>2 DEF RightIs
      <4> QED BY <4>1, <4>2
    <3>5. -Lo(i) # Unset
      BY <1>2
    <3>6. right_edge'[i] = right_edge[i]
      BY <1>5, <3>4, <3>5 DEF EdgeAtOnce
    <3> QED BY <1>5, <3>3, <3>4, <3>6
  <2> QED BY <1>2, <1>5, <2>1 DEF ExactRight, ExactEdges
<1>6. CASE /\ right_edge' = RightEdges(good) /\ left_edge' = LeftEdges(good)
           /\ d' = d + 1 /\ pc' = pc
  <2>1. ASSUME NEW i \in Pins
        PROVE  /\ left_edge'[i] = LeftIs(Hi(i), d + 1)
               /\ right_edge'[i] = RightIs(Lo(i), Hi(i), d + 1)
               /\ i \in sticky' /\ Hi(i) < 0 => d + 1 > -Hi(i)
    <3>1. right_edge'[i] = IF i \in good THEN d
                           ELSE IF d = 0 /\ right_edge[i] = Unset /\ left_edge[i] # Unset
                                THEN -1 ELSE right_edge[i]
      BY <1>6 DEF RightEdges, EdgeAtOnce
    <3>2. left_edge'[i] = IF i \notin good /\ right_edge[i] = Unset
                             /\ (d = 0 => left_edge[i] = Unset)
                          THEN -(d + 1) ELSE left_edge[i]
      BY <1>6 DEF LeftEdges
    <3>3. i \in sticky' /\ Hi(i) < 0 => d + 1 > -Hi(i)
      <4>1. CASE i \in sticky BY <1>1, <1>2, <1>3, <4>1
      <4>2. CASE i \in good BY <1>1, <1>2, <4>2
      <4> QED BY <1>0, <4>1, <4>2
    <3> QED BY <1>4, <3>1, <3>2, <3>3
  <2> QED BY <1>1, <1>2, <1>6, <2>1 DEF ExactRight, ExactEdges, LeftIs, RightIs
<1>7. pc' \in {"right", "centre"}
  BY <1>0, <1>1
<1> QED BY <1>0, <1>5, <1>6, <1>7

\* However the second sweep ends, it has found the edges of every eye.
LEMMA SweepsEndExact ==
  ASSUME Inv, EyesInReach, ExactRight, ExactEdges, SweepsEnd, NEW i \in Pins
  PROVE  /\ left_edge[i] = Hi(i) /\ right_edge[i] = -Lo(i)
         /\ left_edge[i] # Unset /\ right_edge[i] # Unset
<1>1. Types /\ d \in Int
  BY DEF Inv, Types
<1>2. /\ Lo(i) \in Int /\ Hi(i) \in Int /\ Lo(i) <= Hi(i)
      /\ Hi(i) + 1 <= DELAY_MAX /\ start_dqs - DELAY_MAX <= Lo(i) - 1
      /\ start_dqs \in 0..DELAY_MAX /\ DELAY_MAX \in Nat /\ Unset = DELAY_MAX + 1
  BY <1>1, EyeBounds
<1>3. left_edge[i] = Hi(i) /\ right_edge[i] = -Lo(i)
  <2>1. CASE pc = "centre" BY <2>1 DEF ExactEdges
  <2>2. CASE pc = "right" /\ d > DELAY_MAX - start_dqs
    <3>1. d > 0 /\ -Lo(i) < d /\ ~(d <= -Hi(i)) /\ -Hi(i) < d
      BY <1>1, <1>2, <2>2
    <3>2. Least(d - 1, -Lo(i)) = -Lo(i) /\ -Least(-Hi(i), d) = Hi(i)
      BY <1>1, <1>2, <3>1 DEF Least
    <3> QED BY <1>1, <1>2, <2>2, <3>1, <3>2 DEF ExactRight, LeftIs, RightIs
  <2> QED BY <2>1, <2>2 DEF SweepsEnd
<1> QED BY <1>2, <1>3

\* The two halves that a pin is moved by bring it to the middle of its eye, a tap aside.
LEMMA HalvesMeet ==
  ASSUME NEW D \in Int, NEW s \in Int, s <= D
  PROVE  LET o == Half(IF s > 0 THEN s + 1 ELSE s)
             x == Half(D - s)
         IN  /\ x \in Int /\ o \in Int
             /\ 0 <= x /\ 2 * x <= D - s /\ s <= 2 * o /\ 2 * o <= s + 1
             /\ 2 * (x + o) - D \in -1..1
<1>1. PICK t \in Int : t = D - s /\ t >= 0
  OBVIOUS
<1>2. Half(t) = t \div 2 /\ t \div 2 \in Int /\ 2 * (t \div 2) <= t /\ t <= 2 * (t \div 2) + 1
  BY <1>1 DEF Half
<1>3. PICK o \in Int : o = Half(IF s > 0 THEN s + 1 ELSE s) /\ s <= 2 * o /\ 2 * o <= s + 1
  BY HalfIsInt DEF Half
<1> QED BY <1>1, <1>2, <1>3

LEMMA CentreEyes ==
  ASSUME Inv, EyesInReach, ExactRight, ExactEdges, Centre
  PROVE  /\ dq_ok' /\ pc' \in {"mask", "done"} /\ (pc' = "mask" => Writing)
         /\ \A i \in Pins : /\ 2 * Offset(i)' - Doubled(i) \in -1..1
                            /\ Writing => 2 * dq'[i] - Doubled(i) \in -1..1
<1>1. /\ Types /\ SweepsEnd /\ board' = board
      /\ dq' = [i \in Pins |-> shift_dq(i)] /\ dqs' = new_dqs
      /\ pc' = IF Writing THEN "mask" ELSE "done"
  BY DEF Centre, Inv
<1>2. dq_ok' = \A i \in Pins : /\ left_edge[i] - shift_dq(i) - mid_min >= 0
                               /\ right_edge[i] + shift_dq(i) + mid_min >= 0
  BY DEF Centre
<1>3. ASSUME NEW i \in Pins
      PROVE  /\ Lo(i) \in Int /\ Hi(i) \in Int /\ Lo(i) <= Hi(i) /\ Doubled(i) = Lo(i) + Hi(i)
             /\ Hi(i) + 1 <= DELAY_MAX /\ start_dqs - DELAY_MAX <= Lo(i) - 1
             /\ left_edge[i] = Hi(i) /\ right_edge[i] = -Lo(i) /\ mid(i) = Doubled(i)
             /\ Doubled(i) \in Int
  BY <1>1, EyeBounds, SweepsEndExact DEF mid
<1>4. start_dqs \in 0..DELAY_MAX /\ DELAY_MAX \in Nat /\ start_dqs' = start_dqs
  BY <1>1 DEF Types, start_dqs
<1>5. PICK j \in Pins : SmallestMid = Doubled(j) /\ \A i \in Pins : Doubled(j) <= Doubled(i)
  <2> DEFINE S == {mid(i) : i \in Pins}
             b == 2 * (start_dqs - DELAY_MAX)
  <2>1. S \subseteq Int /\ S # {} /\ \A x \in S : b <= x
    BY <1>3, <1>4
  <2>2. b \in Int
    BY <1>4
  <2>3. \E m \in S : \A x \in S : m <= x
    <3> HIDE DEF S, b
    <3> QED BY <2>1, <2>2, LeastExists
  <2>4. SmallestMid \in S /\ \A i \in Pins : SmallestMid <= mid(i)
    BY <2>3 DEF SmallestMid
  <2> QED BY <1>3, <2>4
<1>6. PICK s \in Int : s = SmallestMid /\ s = Doubled(j) /\ \A i \in Pins : s <= Doubled(i)
  BY <1>3, <1>5
<1>7. PICK o \in Int : o = orig_mid_min /\ s <= 2 * o /\ 2 * o <= s + 1
  BY <1>6, HalvesMeet DEF orig_mid_min
\* How far DQS is moved.
<1>8. PICK n \in Int, m \in Int :
         /\ n = new_dqs /\ m = mid_min /\ m = start_dqs - n
         /\ Writing => m = 0
         /\ ~Writing => m = o \/ (m < o /\ m = start_dqs)
  <2>1. start_dqs - o <= DELAY_MAX
    BY <1>3, <1>4, <1>6, <1>7
  <2> QED BY <1>4, <1>7, <2>1 DEF new_dqs, mid_min
<1>9. ASSUME NEW i \in Pins
      PROVE  \E x \in Int : x = shift_dq(i) /\ 2 * (x + m) - Doubled(i) \in -1..1
  <2>1. PICK h \in Int : h = Half(mid(i) - SmallestMid) /\ 0 <= h /\ 2 * h <= Doubled(i) - s
                         /\ 2 * (h + o) - Doubled(i) \in -1..1
    BY <1>3, <1>6, <1>7, HalvesMeet DEF orig_mid_min
  <2>2. Doubled(i) - Doubled(j) <= 2 * DELAY_MAX /\ (Writing => s >= 0)
    BY <1>6 DEF EyesInReach
  <2>3. 0 <= h + (o - m) /\ h + (o - m) <= DELAY_MAX
    <3>1. CASE Writing BY <1>3, <1>4, <1>6, <1>7, <1>8, <2>1, <2>2, <3>1
    <3>2. CASE ~Writing BY <1>3, <1>4, <1>6, <1>7, <1>8, <2>1, <2>2, <3>2
    <3> QED BY <3>1, <3>2
  <2>4. shift_dq(i) = h + (o - m)
    BY <1>4, <1>7, <1>8, <2>1, <2>3 DEF shift_dq
  <2>5. h + (o - m) + m = h + o
    BY <1>8, <2>1
  <2> QED BY <1>8, <2>1, <2>4, <2>5
<1>10. dq_ok'
  <2>1. ASSUME NEW i \in Pins
        PROVE  /\ left_edge[i] - shift_dq(i) - mid_min >= 0
               /\ right_edge[i] + shift_dq(i) + mid_min >= 0
    <3>1. PICK x \in Int : x = shift_dq(i) /\ 2 * (x + m) - Doubled(i) \in -1..1
      BY <1>9
    <3> QED BY <1>3, <1>8, <3>1
  <2> QED BY <1>2, <2>1
<1>11. ASSUME NEW i \in Pins
       PROVE  /\ 2 * Offset(i)' - Doubled(i) \in -1..1
              /\ Writing => 2 * dq'[i] - Doubled(i) \in -1..1
  <2>1. PICK x \in Int : x = shift_dq(i) /\ 2 * (x + m) - Doubled(i) \in -1..1
    BY <1>9
  <2>2. dq'[i] = x /\ Offset(i)' = x - (n - start_dqs)
    BY <1>1, <1>4, <1>8, <2>1 DEF Offset
  <2>3. x - (n - start_dqs) = x + m /\ (Writing => x = x + m)
    BY <1>4, <1>8
  <2> QED BY <1>3, <2>1, <2>2, <2>3
<1> QED BY <1>1, <1>10, <1>11

LEMMA EyeStep == Inv /\ EyeInv /\ [Next]_vars => EyeInv'
<1> SUFFICES ASSUME Inv, EyeInv, [Next]_vars, EyesInReach'
             PROVE  (ExactLeft /\ ExactBetween /\ ExactRight /\ ExactEdges /\ Middled)'
  BY DEF EyeInv
<1>1. board' = board
  BY DEF Next, LeftSweep, Between, RightSweep, Fails, Centre, MaskSweep, MaskTurns,
         MaskDqsSweep, MaskEnds, vars
<1>2. EyesInReach /\ start_dqs' = start_dqs
      /\ \A i \in Pins : Lo(i)' = Lo(i) /\ Hi(i)' = Hi(i) /\ Doubled(i)' = Doubled(i)
  BY <1>1, EyesStay
<1>3. ExactLeft /\ ExactBetween /\ ExactRight /\ ExactEdges /\ Middled
  BY <1>2 DEF EyeInv
<1>4. CASE LeftSweep
  BY <1>2, <1>3, <1>4, LeftSweepEyes DEF ExactRight, ExactEdges, Middled, Masking, Done
<1>5. CASE Between
  BY <1>2, <1>3, <1>5, BetweenEyes DEF ExactLeft, ExactBetween, ExactEdges, Middled, Masking, Done
<1>6. CASE RightSweep
  BY <1>2, <1>3, <1>6, RightSweepEyes DEF ExactLeft, ExactBetween, Middled, Masking, Done
<1>7. CASE Fails
  <2>1. \A i \in Pins : left_edge[i] # Unset /\ right_edge[i] # Unset
    BY <1>2, <1>3, <1>7, SweepsEndExact DEF Fails
  <2> QED BY <1>7, <2>1 DEF Fails, NoWindow
<1>8. CASE Centre
  <2>1. /\ dq_ok' /\ pc' \in {"mask", "done"} /\ (pc' = "mask" => Writing)
        /\ \A i \in Pins : /\ 2 * Offset(i)' - Doubled(i) \in -1..1
                           /\ Writing => 2 * dq'[i] - Doubled(i) \in -1..1
    BY <1>2, <1>3, <1>8, CentreEyes
  <2> QED BY <1>2, <2>1 DEF ExactLeft, ExactBetween, ExactRight, ExactEdges, Middled, Masking, Done
<1>9. CASE MaskSweep \/ MaskTurns \/ MaskDqsSweep
  <2>1. Masking /\ Masking' /\ UNCHANGED <<dq, dq_ok>> /\ pc' \in {"mask", "mask_dqs", "mask_end"}
    BY <1>9 DEF MaskSweep, MaskTurns, MaskDqsSweep, Masking
  <2> QED BY <1>2, <1>3, <2>1 DEF ExactLeft, ExactBetween, ExactRight, ExactEdges, Middled, Done,
                                  Masking
<1>10. CASE MaskEnds
  <2>1. Masking /\ pc' = "done" /\ UNCHANGED <<dq, dq_ok>> /\ dqs' = start_dqs
    BY <1>10 DEF MaskEnds, Masking
  <2>2. ASSUME NEW i \in Pins PROVE Offset(i)' = dq[i]
    <3>1. start_dqs \in Int /\ dq[i] \in Int BY DEF Inv, Types, start_dqs
    <3> QED BY <1>2, <2>1, <3>1 DEF Offset
  <2> QED BY <1>2, <1>3, <2>1, <2>2 DEF ExactLeft, ExactBetween, ExactRight, ExactEdges, Middled,
                                        Done, Masking
<1>11. CASE UNCHANGED vars
  <2>1. UNCHANGED <<pc, d, left_edge, right_edge, sticky, dq, dqs, dq_ok>>
    BY <1>11 DEF vars, edges
  <2>2. Unset' = Unset /\ \A i \in Pins : Offset(i)' = Offset(i) /\ Seen(i)' = Seen(i)
    BY <1>2, <2>1 DEF Offset, Unset, Seen
  <2> QED BY <1>2, <1>3, <2>1, <2>2 DEF ExactLeft, ExactBetween, ExactRight, ExactEdges, Middled,
             Masking, Done, LeftIs, RightIs, Least, Unset
<1> QED BY <1>4, <1>5, <1>6, <1>7, <1>8, <1>9, <1>10, <1>11 DEF Next

\* Clean eyes that the chains can reach are found: the two sweeps end with their very edges,
\* no clamp of the delays takes effect, and every pin is left in the middle of its own eye.
THEOREM CleanEyesAreCentred == Spec => []EyesAreCentred
<1>1. Init => EyeInv
  <2> SUFFICES ASSUME Init, EyesInReach
               PROVE  ExactLeft /\ ExactBetween /\ ExactRight /\ ExactEdges /\ Middled
    BY DEF EyeInv
  <2>1. \A i \in Pins : ~Seen(i)
    BY DEF Init, Seen
  <2> QED BY <2>1 DEF Init, ExactLeft, ExactBetween, ExactRight, ExactEdges, Middled, Masking, Done
<1>2. Spec => []EyeInv
  BY <1>1, EyeStep, SweepsInvariant, PTL DEF Spec
<1>3. EyeInv => EyesAreCentred
  BY DEF EyeInv, EyesAreCentred, Middled
<1> QED BY <1>2, <1>3, PTL
=============================================================================

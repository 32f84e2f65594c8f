-------------------------- MODULE BuildRoomsProofs --------------------------
(* Theorems about the room builder, for every number of rooms N and every least *)
(* number of connections.                                                       *)
EXTENDS BuildRooms, FiniteSetTheorems, TLAPS

\* Rooms and slots are finite, one slot fewer than rooms.
LEMMA Sizes ==
    /\ N \in Nat /\ N >= 2 /\ Least \in Nat /\ Least >= 1 /\ Least <= N - 1
    /\ IsFiniteSet(Rooms) /\ Cardinality(Rooms) = N
    /\ IsFiniteSet(Slots) /\ Cardinality(Slots) = N - 1
<1>1. N \in Nat /\ N >= 2 /\ Least \in Nat /\ Least >= 1 /\ Least <= N - 1
  BY SizesAssumption
<1>2. IsFiniteSet(0..N - 1) /\ Cardinality(0..N - 1) = N
  BY <1>1, FS_Interval
<1>3. IsFiniteSet(0..N - 2) /\ Cardinality(0..N - 2) = N - 1
  BY <1>1, FS_Interval
<1> QED BY <1>1, <1>2, <1>3 DEF Rooms, Slots

\* A nonempty set of numbers has a least element: the one whose interval from 0 is
\* minimal among the finite sets.
LEMMA LeastElement ==
  ASSUME NEW S \in SUBSET Nat, S # {}
  PROVE  \E k \in S : \A j \in S : k <= j
<1> DEFINE T == {0..k : k \in S}
           R == StrictSubsetOrdering(Nat)
<1>1. IsWellFoundedOn(R, FiniteSubsetsOf(Nat))
  BY FS_StrictSubsetOrderingWellFounded
<1>2. T \subseteq FiniteSubsetsOf(Nat)
  <2>1. \A k \in S : IsFiniteSet(0..k) BY FS_Interval
  <2>2. \A k \in S : 0..k \in SUBSET Nat OBVIOUS
  <2>3. \A k \in S : 0..k \in FiniteSubsetsOf(Nat) BY <2>1, <2>2, Zenon DEF FiniteSubsetsOf
  <2> QED BY <2>3
<1>3. T # {} OBVIOUS
<1>4. PICK x \in T : \A y \in T : <<y, x>> \notin R
  <2> HIDE DEF T, R
  <2> QED BY <1>1, <1>2, <1>3, WFMin
<1>5. PICK k \in S : x = 0..k OBVIOUS
<1>6. ASSUME NEW j \in S, j < k PROVE FALSE
  <2>1. 0..j \subseteq Nat /\ 0..k \subseteq Nat /\ 0..j \subseteq 0..k BY <1>6
  <2>2. 0..j # 0..k
    <3>1. k \in 0..k /\ k \notin 0..j BY <1>6
    <3> QED BY <3>1
  <2>3. <<0..j, 0..k>> \in R BY <2>1, <2>2, Zenon DEF StrictSubsetOrdering
  <2> QED BY <1>4, <1>5, <2>3
<1> QED BY <1>6

\* A row that is full, without the room itself and without dupes, leads to every other
\* room: in particular to the one in hand, so the search for a way back cannot run past
\* the row without having found one.
LEMMA FullRowLeadsEverywhere ==
  ASSUME TypeOK, NoSelfNoDupes, NEW c \in Rooms, NEW r \in Rooms, r # c,
         \A k \in Slots : roomConnection[c][k] # Empty
  PROVE  \E k \in Slots : roomConnection[c][k] = r
<1> SUFFICES ASSUME \A k \in Slots : roomConnection[c][k] # r PROVE FALSE
  OBVIOUS
<1> DEFINE T == (Rooms \ {c}) \ {r}
<1>1. IsFiniteSet(T) /\ Cardinality(T) = N - 2
  <2>1. IsFiniteSet(Rooms \ {c}) /\ Cardinality(Rooms \ {c}) = N - 1
    BY Sizes, FS_RemoveElement
  <2> QED BY <2>1, Sizes, FS_RemoveElement
<1>2. roomConnection[c] \in [Slots -> T]
  <2>1. roomConnection[c] \in [Slots -> Rooms \cup {Empty}] BY DEF TypeOK
  <2>2. \A k \in Slots : roomConnection[c][k] \in T BY <2>1 DEF NoSelfNoDupes
  <2> QED BY <2>1, <2>2
<1>3. PICK x, y \in Slots : x # y /\ roomConnection[c][x] = roomConnection[c][y]
  <2> HIDE DEF T
  <2>1. Cardinality(T) < Cardinality(Slots) BY <1>1, Sizes
  <2> QED BY <1>1, <1>2, <2>1, Sizes, FS_PigeonHole
<1> QED BY <1>3 DEF NoSelfNoDupes

\* No connection is written past the end of a row.
LEMMA RowSuffices == TypeOK /\ NoSelfNoDupes /\ Progress => FitsInRow
<1> SUFFICES ASSUME TypeOK, NoSelfNoDupes, Progress, Missing PROVE checkConnIdx \in Slots
  BY DEF FitsInRow
<1> DEFINE c == checkRoom
<1>1. room \in Rooms /\ connIdx \in Slots /\ numConnections[room] \in 0..N - 1
  BY Sizes DEF TypeOK, Missing, Returning, Rooms, Slots
<1>2. roomConnection[room][connIdx] # Empty
  BY <1>1 DEF Progress, Complete, Missing, Returning
<1>3. c \in Rooms /\ c # room
  BY <1>1, <1>2 DEF checkRoom, TypeOK, NoSelfNoDupes
<1>4. CASE Stops # {}
  <2>1. \E k \in Stops : \A j \in Stops : k <= j
    <3>1. Stops \in SUBSET Nat BY Sizes DEF Stops, Slots
    <3> QED BY <1>4, <3>1, LeastElement
  <2> QED BY <1>4, <2>1 DEF checkConnIdx, Stops
<1>5. CASE Stops = {}
  <2>1. checkConnIdx = numConnections[c] BY <1>5 DEF checkConnIdx
  <2>2. CASE numConnections[c] < N - 1
    BY <2>1, <2>2, <1>3, Sizes DEF TypeOK, Slots
  <2>3. CASE numConnections[c] = N - 1
    <3>1. \A k \in Slots : roomConnection[c][k] # Empty /\ roomConnection[c][k] # room
      BY <2>3, <1>5, Sizes DEF Stops, StopsAt, Slots
    <3> QED BY <3>1, <1>1, <1>3, FullRowLeadsEverywhere
  <2> QED BY <2>2, <2>3, <1>3, Sizes DEF TypeOK
<1> QED BY <1>4, <1>5

\* When a slot is left to fill, a room is left for it: the slots before it lead to fewer
\* rooms than there are others.
LEMMA OptionsLeft ==
  ASSUME TypeOK, Progress, Filling
  PROVE  randomRoom # {}
<1> SUFFICES ASSUME randomRoom = {} PROVE FALSE
  OBVIOUS
<1> DEFINE S == Rooms \ {room}
           T == 0..connIdx - 1
           f == [r \in S |-> CHOOSE k \in T : roomConnection[room][k] = r]
<1>1. room \in Rooms /\ connIdx \in Nat /\ connIdx < N - 1 /\ pc = "fill"
  BY Sizes DEF TypeOK, Filling
<1>2. \A r \in S : \E k \in T : roomConnection[room][k] = r
  BY <1>1, Sizes DEF Progress, Slots
<1>3. f \in [S -> T] /\ \A r \in S : roomConnection[room][f[r]] = r
  BY <1>2
<1>4. IsFiniteSet(S) /\ Cardinality(S) = N - 1
  BY <1>1, Sizes, FS_RemoveElement
<1>5. IsFiniteSet(T) /\ Cardinality(T) = connIdx
  <2>1. connIdx - 1 \in Int /\ 0 \in Int BY <1>1
  <2>2. /\ IsFiniteSet(0..connIdx - 1)
        /\ Cardinality(0..connIdx - 1)
             = IF 0 > connIdx - 1 THEN 0 ELSE connIdx - 1 - 0 + 1
    BY <2>1, FS_Interval
  <2> QED BY <1>1, <2>2
<1> HIDE DEF S, T, f
<1>6. PICK x, y \in S : x # y /\ f[x] = f[y]
  <2>1. Cardinality(T) < Cardinality(S) BY <1>1, <1>4, <1>5, Sizes
  <2> QED BY <1>3, <1>4, <1>5, <2>1, FS_PigeonHole
<1> QED BY <1>3, <1>6

\* What the assignment of one connection changes.
LEMMA SlotUpdate ==
  ASSUME TypeOK, NEW r \in Rooms, NEW k \in Slots, NEW v \in Rooms,
         roomConnection' = [roomConnection EXCEPT ![r][k] = v]
  PROVE  /\ roomConnection' \in [Rooms -> [Slots -> Rooms \cup {Empty}]]
         /\ roomConnection'[r][k] = v
         /\ \A s \in Rooms : \A j \in Slots :
              s # r \/ j # k => roomConnection'[s][j] = roomConnection[s][j]
BY DEF TypeOK

\* Where AddWayBack writes: the first free slot of another room, which has no way back
\* so far and whose count covers the slot afterwards.
LEMMA WayBackSlot ==
  ASSUME RowInv, AddWayBack
  PROVE  LET c == checkRoom
             k == checkConnIdx
         IN  /\ c \in Rooms /\ c # room /\ k \in Slots /\ connIdx \in Slots
             /\ k <= numConnections[c]
             /\ \A j \in Slots : j < k => roomConnection[c][j] \notin {Empty, room}
             /\ \A j \in Slots : k <= j => roomConnection[c][j] = Empty
<1> DEFINE c == checkRoom
           k == checkConnIdx
<1> USE DEF RowInv
<1>0. TypeOK /\ NoSelfNoDupes /\ LeftPacked /\ Progress /\ Returning /\ ~found
  BY DEF AddWayBack, Missing
<1>1. room \in Rooms /\ connIdx \in Slots /\ numConnections[room] \in 0..N - 1
  BY <1>0, Sizes DEF TypeOK, Returning, Rooms, Slots
<1>2. roomConnection[room][connIdx] # Empty
  BY <1>0, <1>1 DEF Progress, Complete, Returning
<1>3. c \in Rooms /\ c # room
  BY <1>0, <1>1, <1>2 DEF checkRoom, TypeOK, NoSelfNoDupes
<1>4. k \in Slots
  BY <1>0, RowSuffices DEF FitsInRow, AddWayBack
<1>5. /\ k <= numConnections[c]
      /\ \A j \in Slots : j < k => roomConnection[c][j] \notin {Empty, room}
      /\ roomConnection[c][k] = Empty
  <2>1. CASE Stops = {}
    <3>1. k = numConnections[c] BY <2>1 DEF checkConnIdx
    <3>2. \A j \in Slots : j < k => roomConnection[c][j] \notin {Empty, room}
      BY <2>1, <3>1 DEF Stops, StopsAt
    <3>3. roomConnection[c][k] = Empty
      BY <1>0, <1>3, <1>4, <3>1, Sizes DEF LeftPacked, Slots
    <3> QED BY <1>4, <3>1, <3>2, <3>3 DEF Slots
  <2>2. CASE Stops # {}
    <3>1. Stops \in SUBSET Nat BY Sizes DEF Stops, Slots
    <3>2. PICK i \in Stops : \A j \in Stops : i <= j
      BY <2>2, <3>1, LeastElement
    <3>3. k \in Stops /\ \A j \in Stops : k <= j
      BY <2>2, <3>2 DEF checkConnIdx
    <3>4. roomConnection[c][k] = Empty /\ k < numConnections[c]
      BY <1>0, <2>2, <3>3 DEF found, Stops, StopsAt
    <3>5. numConnections[c] \in Nat /\ k \in Nat /\ Slots \subseteq Nat
      BY <1>0, <1>3, <1>4, Sizes DEF TypeOK, Slots
    <3>6. \A j \in Slots : j < k => j \notin Stops BY <3>1, <3>3, <3>5
    <3>7. \A j \in Slots : j < k => ~StopsAt(j) BY <3>4, <3>5, <3>6 DEF Stops
    <3> QED BY <3>4, <3>5, <3>7 DEF StopsAt
  <2> QED BY <2>1, <2>2
<1>6. \A j \in Slots : k <= j => roomConnection[c][j] = Empty
  BY <1>0, <1>3, <1>4, <1>5, Sizes DEF LeftPacked, Slots
<1> QED BY <1>1, <1>3, <1>4, <1>5, <1>6
-----------------------------------------------------------------------------
(* The rows *)

\* Initially nothing is connected.
LEMMA InitRowInv == Init => RowInv
<1> SUFFICES ASSUME Init PROVE RowInv OBVIOUS
<1>1. TypeOK BY Sizes DEF Init, TypeOK, Rooms, NoFile
<1>2. NoSelfNoDupes BY DEF Init, NoSelfNoDupes
<1>3. LeftPacked BY DEF Init, LeftPacked
<1>4. Progress BY DEF Init, Progress
<1> QED BY <1>1, <1>2, <1>3, <1>4 DEF RowInv, NeverAborts, Init

\* The types are assigned: no row changes.
LEMMA AssignTypesRow == RowInv /\ AssignTypes => RowInv'
<1> SUFFICES ASSUME RowInv, AssignTypes PROVE RowInv' OBVIOUS
<1> USE DEF RowInv, AssignTypes
<1>1. TypeOK' BY DEF TypeOK, TypesOf
<1>2. NoSelfNoDupes' BY DEF NoSelfNoDupes
<1>3. LeftPacked' BY DEF LeftPacked
<1>4. Progress' BY DEF Progress
<1> QED BY <1>1, <1>2, <1>3, <1>4 DEF NeverAborts

\* The counts are drawn while every row is empty.
LEMMA AssignCountsRow == RowInv /\ AssignCounts => RowInv'
<1> SUFFICES ASSUME RowInv, AssignCounts PROVE RowInv' OBVIOUS
<1> USE DEF RowInv, AssignCounts
<1>1. room = 0 /\ connIdx = 0 /\ pc = "counts" /\ pc' = "fill"
      /\ \A r \in Rooms : \A k \in Slots : roomConnection[r][k] = Empty
  BY DEF Progress
<1>2. TypeOK' BY Sizes DEF TypeOK, Options, Counts, Rooms
<1>3. NoSelfNoDupes' BY <1>1 DEF NoSelfNoDupes
<1>4. LeftPacked' BY <1>1 DEF LeftPacked
<1>5. Progress' BY <1>1, Sizes DEF Progress, Options, Counts, Rooms, Slots
<1> QED BY <1>1, <1>2, <1>3, <1>4, <1>5 DEF NeverAborts

\* A slot that is taken is passed over.
LEMMA SlotTakenRow == RowInv /\ SlotTaken => RowInv'
<1> SUFFICES ASSUME RowInv, SlotTaken PROVE RowInv' OBVIOUS
<1> USE DEF RowInv, SlotTaken, Filling
<1>1. TypeOK' BY Sizes DEF TypeOK, Deleted
<1>2. NoSelfNoDupes' BY DEF NoSelfNoDupes
<1>3. LeftPacked' BY DEF LeftPacked
<1>4. Progress'
  <2>1. room \in Rooms /\ connIdx \in Slots
    BY Sizes DEF TypeOK, Rooms, Slots
  <2> QED BY <2>1, Sizes DEF Progress, Complete, Deleted, ThisSlot, TypeOK, Slots
<1> QED BY <1>1, <1>2, <1>3, <1>4 DEF NeverAborts

\* A connection is drawn: to a room that is neither this one nor connected already.
LEMMA DrawConnectionRow == RowInv /\ DrawConnection => RowInv'
<1> SUFFICES ASSUME RowInv, DrawConnection PROVE RowInv' OBVIOUS
<1> USE DEF RowInv, Filling
<1>1. randomRoom # {} BY OptionsLeft DEF DrawConnection
<1>2. PICK to \in randomRoom : Connect(to) BY <1>1 DEF DrawConnection
<1>3. /\ pc = "fill" /\ pc' = "fill" /\ connIdx' = connIdx + 1
      /\ UNCHANGED <<roomTypes, numConnections, room, files>>
      /\ randomRoom' = randomRoom \ {to}
      /\ roomConnection' = [roomConnection EXCEPT ![room][connIdx] = to]
      /\ roomConnection[room][connIdx] = Empty
  BY <1>2 DEF DrawConnection, Connect, ThisSlot
<1>4. room \in Rooms /\ connIdx \in Slots /\ to \in Rooms
      /\ connIdx < numConnections[room]
  BY Sizes DEF DrawConnection, TypeOK, Rooms, Slots
<1>5. /\ roomConnection' \in [Rooms -> [Slots -> Rooms \cup {Empty}]]
      /\ roomConnection'[room][connIdx] = to
      /\ \A s \in Rooms : \A j \in Slots :
            s # room \/ j # connIdx => roomConnection'[s][j] = roomConnection[s][j]
  BY <1>3, <1>4, SlotUpdate
<1>6. to # room /\ to # Empty
      /\ \A k \in Slots : roomConnection[room][k] # to
  <2>1. \A k \in Slots : ~(k < connIdx) => roomConnection[room][k] = Empty
    BY <1>3, <1>4, Sizes DEF LeftPacked, Slots
  <2> QED BY <1>3, <1>4, <2>1, Sizes DEF Progress, Rooms, Empty
<1>7. TypeOK' BY <1>3, <1>4, <1>5, Sizes DEF TypeOK, Slots
<1>8. NoSelfNoDupes' BY <1>3, <1>4, <1>5, <1>6 DEF NoSelfNoDupes
<1>9. LeftPacked'
  <2>1. \A j \in Slots : j < connIdx => roomConnection[room][j] # Empty
    BY <1>3 DEF Progress
  <2>2. SUFFICES ASSUME NEW r \in Rooms, NEW k \in Slots, roomConnection'[r][k] # Empty
                 PROVE /\ k < numConnections[r]
                       /\ \A j \in Slots : j < k => roomConnection'[r][j] # Empty
    BY <1>3 DEF LeftPacked
  <2>3. CASE r = room /\ k = connIdx
    <3>1. \A j \in Slots : j < connIdx => j # connIdx BY Sizes DEF Slots
    <3> QED BY <1>4, <1>5, <2>1, <2>3, <3>1
  <2>4. CASE r # room \/ k # connIdx
    <3>1. /\ k < numConnections[r]
          /\ \A j \in Slots : j < k => roomConnection[r][j] # Empty
      BY <1>5, <2>2, <2>4 DEF LeftPacked
    <3> QED BY <1>4, <1>5, <1>6, <3>1
  <2> QED BY <2>3, <2>4
<1>10. Progress'
  <2>1. \A r \in Rooms : r < room => Complete(r)'
    BY <1>3, <1>4, <1>5, <1>6 DEF Progress, Complete
  <2>2. \A k \in Slots : k < connIdx' => roomConnection'[room][k] # Empty
    BY <1>3, <1>4, <1>5, <1>6, Sizes DEF Progress, Slots
  <2>3. \A r \in Rooms :
          r \in randomRoom'
          <=> r # room /\ \A k \in Slots : k < connIdx' => roomConnection'[room][k] # r
    <3> SUFFICES ASSUME NEW r \in Rooms
                 PROVE r \in randomRoom' <=> r # room /\ \A k \in Slots :
                         k < connIdx' => roomConnection'[room][k] # r
      OBVIOUS
    <3>1. r \in randomRoom <=> r # room /\ \A k \in Slots :
                         k < connIdx => roomConnection[room][k] # r
      BY <1>3 DEF Progress
    <3>2. \A k \in Slots : k < connIdx' <=> k < connIdx \/ k = connIdx
      BY <1>3, <1>4, Sizes DEF Slots
    <3> QED BY <1>3, <1>4, <1>5, <3>1, <3>2, Sizes DEF Slots
  <2> QED BY <1>3, <1>4, <2>1, <2>2, <2>3, Sizes DEF Progress, TypeOK, Slots
<1> QED BY <1>3, <1>7, <1>8, <1>9, <1>10 DEF NeverAborts

\* The room has all its connections.
LEMMA EndOfFillRow == RowInv /\ EndOfFill => RowInv'
<1> SUFFICES ASSUME RowInv, EndOfFill PROVE RowInv' OBVIOUS
<1> USE DEF RowInv, EndOfFill
<1>1. TypeOK' BY Sizes DEF TypeOK
<1>2. NoSelfNoDupes' BY DEF NoSelfNoDupes
<1>3. LeftPacked' BY DEF LeftPacked
<1>4. Progress' BY Sizes DEF Progress, Complete, TypeOK, Counts
<1> QED BY <1>1, <1>2, <1>3, <1>4 DEF NeverAborts

\* A connection that leads back already is left alone.
LEMMA HasWayBackRow == RowInv /\ HasWayBack => RowInv'
<1> SUFFICES ASSUME RowInv, HasWayBack PROVE RowInv' OBVIOUS
<1> USE DEF RowInv, HasWayBack, Returning
<1>1. TypeOK' BY Sizes DEF TypeOK
<1>2. NoSelfNoDupes' BY DEF NoSelfNoDupes
<1>3. LeftPacked' BY DEF LeftPacked
<1>4. Progress' BY Sizes DEF Progress, Complete, TypeOK
<1> QED BY <1>1, <1>2, <1>3, <1>4 DEF NeverAborts

\* A way back is added: the other room's row stays packed and, where it was complete, so.
LEMMA AddWayBackRow == RowInv /\ AddWayBack => RowInv'
<1> SUFFICES ASSUME RowInv, AddWayBack PROVE RowInv' OBVIOUS
<1> DEFINE c == checkRoom
           k == checkConnIdx
<1> USE DEF RowInv
<1>1. /\ c \in Rooms /\ c # room /\ k \in Slots /\ connIdx \in Slots
      /\ k <= numConnections[c]
      /\ \A j \in Slots : j < k => roomConnection[c][j] \notin {Empty, room}
      /\ \A j \in Slots : k <= j => roomConnection[c][j] = Empty
  BY WayBackSlot
<1>2. /\ pc = "back" /\ pc' = "back" /\ connIdx' = connIdx + 1
      /\ connIdx < numConnections[room]
      /\ UNCHANGED <<roomTypes, room, randomRoom, files>>
      /\ numConnections' = IF k = numConnections[c]
                           THEN [numConnections EXCEPT ![c] = @ + 1] ELSE numConnections
      /\ roomConnection' = [roomConnection EXCEPT ![c][k] = room]
  BY DEF AddWayBack, Missing, Returning, CountsWithBack
<1> HIDE DEF c, k
<1>3. room \in Rooms /\ room # Empty BY Sizes DEF TypeOK, Rooms, Empty
<1>4. /\ roomConnection' \in [Rooms -> [Slots -> Rooms \cup {Empty}]]
      /\ roomConnection'[c][k] = room
      /\ \A s \in Rooms : \A j \in Slots :
            s # c \/ j # k => roomConnection'[s][j] = roomConnection[s][j]
  BY <1>1, <1>2, <1>3, SlotUpdate
<1>5. /\ numConnections' \in [Rooms -> 0..N - 1]
      /\ k < numConnections'[c] /\ numConnections[c] <= numConnections'[c]
      /\ \A s \in Rooms : s # c => numConnections'[s] = numConnections[s]
  <2>1. numConnections \in [Rooms -> 0..N - 1] BY DEF TypeOK
  <2>2. k \in 0..N - 2 BY <1>1 DEF Slots
  <2>3. CASE k = numConnections[c]
    <3>1. numConnections' = [numConnections EXCEPT ![c] = numConnections[c] + 1]
      BY <1>2, <2>3
    <3> QED BY <1>1, <2>1, <2>2, <2>3, <3>1, Sizes
  <2>4. CASE k # numConnections[c]
    <3>1. numConnections' = numConnections BY <1>2, <2>4
    <3> QED BY <1>1, <2>1, <2>2, <2>4, <3>1, Sizes
  <2> QED BY <2>3, <2>4
<1>6. TypeOK' BY <1>2, <1>4, <1>5, Sizes DEF TypeOK
<1>7. \A j \in Slots : roomConnection[c][j] # room
  BY <1>1, <1>3, Sizes DEF Slots
<1>8. NoSelfNoDupes'
  BY <1>1, <1>3, <1>4, <1>7 DEF NoSelfNoDupes
<1>9. LeftPacked'
  <2> SUFFICES ASSUME NEW s \in Rooms, NEW j \in Slots, roomConnection'[s][j] # Empty
               PROVE /\ j < numConnections'[s]
                     /\ \A i \in Slots : i < j => roomConnection'[s][i] # Empty
    BY DEF LeftPacked
  <2>1. CASE s = c /\ j = k
    <3>1. \A i \in Slots : i < k => i # k BY Sizes DEF Slots
    <3> QED BY <1>1, <1>4, <1>5, <2>1, <3>1
  <2>2. CASE s # c \/ j # k
    <3>1. /\ j < numConnections[s]
          /\ \A i \in Slots : i < j => roomConnection[s][i] # Empty
      BY <1>4, <2>2 DEF LeftPacked
    <3>2. j < numConnections'[s]
      <4>1. numConnections[s] \in Int /\ numConnections'[s] \in Int /\ j \in Int
        BY <1>5, Sizes DEF TypeOK, Slots
      <4>2. CASE s = c BY <1>5, <3>1, <4>1, <4>2
      <4>3. CASE s # c BY <1>5, <3>1, <4>1, <4>3
      <4> QED BY <4>2, <4>3
    <3> QED BY <1>3, <1>4, <3>1, <3>2
  <2> QED BY <2>1, <2>2
<1>10. \A s \in Rooms : Complete(s) => Complete(s)'
  <2> SUFFICES ASSUME NEW s \in Rooms, Complete(s), NEW j \in Slots, j < numConnections'[s]
               PROVE roomConnection'[s][j] # Empty
    BY DEF Complete
  <2>1. CASE s # c BY <1>4, <1>5, <2>1 DEF Complete
  <2>2. CASE s = c /\ j = k BY <1>3, <1>4, <2>2
  <2>3. CASE s = c /\ j # k
    <3>1. k = numConnections[c]
      <4>1. k \in Int /\ numConnections[c] \in Int BY <1>1, Sizes DEF TypeOK, Slots
      <4>2. ~(k < numConnections[c]) BY <1>1, <2>3, <4>1 DEF Complete
      <4> QED BY <1>1, <4>1, <4>2
    <3>2. numConnections'[c] = k + 1
      BY <1>1, <1>2, <3>1 DEF TypeOK
    <3>3. j < k BY <2>3, <3>2, <1>1, Sizes DEF Slots
    <3> QED BY <1>1, <1>4, <2>3, <3>3
  <2> QED BY <2>1, <2>2, <2>3
<1>11. Progress'
  <2>1. \A s \in Rooms : numConnections'[s] \in Counts
    <3>1. \A s \in Rooms : numConnections[s] \in Least..N - 1
      BY <1>2 DEF Progress, Counts
    <3>2. \A s \in Rooms : numConnections[s] <= numConnections'[s]
      BY <1>5, Sizes DEF TypeOK
    <3>3. \A s \in Rooms : numConnections'[s] \in 0..N - 1 BY <1>5
    <3> QED BY <3>1, <3>2, <3>3, Sizes DEF Counts
  <2>2. connIdx' <= numConnections'[room]
    BY <1>1, <1>2, <1>3, <1>5, Sizes DEF TypeOK, Slots
  <2> QED BY <1>2, <1>3, <1>10, <2>1, <2>2 DEF Progress
<1> QED BY <1>2, <1>6, <1>8, <1>9, <1>11 DEF NeverAborts

\* The room has had its turn.
LEMMA NextRoomRow == RowInv /\ NextRoom => RowInv'
<1> SUFFICES ASSUME RowInv, NextRoom PROVE RowInv' OBVIOUS
<1> USE DEF RowInv, NextRoom
<1>1. TypeOK'
  <2>1. room' \in Rooms /\ pc' \in {"write", "fill"} /\ connIdx' \in 0..N - 1
    BY Sizes DEF TypeOK, Rooms
  <2>2. randomRoom' \subseteq Rooms BY DEF TypeOK, Options
  <2> QED BY <2>1, <2>2 DEF TypeOK
<1>2. NoSelfNoDupes' BY DEF NoSelfNoDupes
<1>3. LeftPacked' BY DEF LeftPacked
<1>4. Progress'
  <2>1. \A r \in Rooms : r <= room => Complete(r)
    BY Sizes DEF Progress, TypeOK, Rooms
  <2>2. CASE room = N - 1
    <3>1. \A r \in Rooms : Complete(r)' BY <2>1, <2>2, Sizes DEF Rooms, Complete
    <3> QED BY <2>2, <3>1 DEF Progress
  <2>3. CASE room # N - 1
    <3>1. \A r \in Rooms : r < room' => Complete(r)'
      BY <2>1, <2>3, Sizes DEF Rooms, Complete, TypeOK
    <3>2. connIdx' <= numConnections'[room']
      BY <1>1, Sizes DEF TypeOK
    <3>3. \A k \in Slots : ~(k < connIdx') BY Sizes DEF Slots
    <3>4. pc' = "fill" /\ randomRoom' = Rooms \ {room'} BY <2>3 DEF Options
    <3> QED BY <3>1, <3>2, <3>3, <3>4 DEF Progress
  <2> QED BY <2>2, <2>3
<1> QED BY <1>1, <1>2, <1>3, <1>4 DEF NeverAborts

\* A file is written: the rows stay.
LEMMA WriteRoomRow == RowInv /\ WriteRoom => RowInv'
<1> SUFFICES ASSUME RowInv, WriteRoom PROVE RowInv' OBVIOUS
<1> USE DEF RowInv, WriteRoom
<1>1. TypeOK'
  <2>1. [type |-> roomTypes[room], to |-> ConnectionsOf(room)]
          \in [type : {"none", "START_ROOM", "MID_ROOM", "END_ROOM"}, to : SUBSET Rooms]
    BY DEF TypeOK, ConnectionsOf
  <2>2. files' \in [Rooms -> [type : {"none", "START_ROOM", "MID_ROOM", "END_ROOM"},
                             to : SUBSET Rooms]]
    BY <2>1 DEF TypeOK
  <2>3. room' \in Rooms /\ pc' \in {"write", "done"} BY Sizes DEF TypeOK, Rooms
  <2> QED BY <2>2, <2>3 DEF TypeOK
<1>2. NoSelfNoDupes' BY DEF NoSelfNoDupes
<1>3. LeftPacked' BY DEF LeftPacked
<1>4. Progress' BY DEF Progress, Complete
<1> QED BY <1>1, <1>2, <1>3, <1>4 DEF NeverAborts

\* Every step keeps the row invariant: one lemma above for each action.
LEMMA NextRowInv == RowInv /\ [Next]_vars => RowInv'
<1> SUFFICES ASSUME RowInv, [Next]_vars PROVE RowInv' OBVIOUS
<1>1. CASE UNCHANGED vars
  BY <1>1 DEF vars, RowInv, TypeOK, NoSelfNoDupes, LeftPacked, Progress, Complete,
              NeverAborts
<1> QED BY <1>1, AssignTypesRow, AssignCountsRow, SlotTakenRow, DrawConnectionRow,
           EndOfFillRow, HasWayBackRow, AddWayBackRow, NextRoomRow, WriteRoomRow DEF Next

\* Every variable keeps its type, whatever is drawn.
THEOREM TypeCorrect == Spec => []TypeOK
<1>1. RowInv => TypeOK BY DEF RowInv
<1> QED BY InitRowInv, NextRowInv, <1>1, PTL DEF Spec

\* The assertion on line 234 of mores.buildrooms.c holds for every number of rooms and
\* every draw.
THEOREM AssertionHolds == Spec => []NeverAborts
<1>1. RowInv => NeverAborts BY DEF RowInv
<1> QED BY InitRowInv, NextRowInv, <1>1, PTL DEF Spec

\* No room is ever connected to itself, or twice to another.
THEOREM RowsAreSound == Spec => []NoSelfNoDupes
<1>1. RowInv => NoSelfNoDupes BY DEF RowInv
<1> QED BY InitRowInv, NextRowInv, <1>1, PTL DEF Spec

\* A way back always finds a slot in its row: roomConnection is not overrun.
THEOREM RowsSuffice == Spec => []FitsInRow
<1>1. RowInv => FitsInRow BY RowSuffices DEF RowInv
<1> QED BY InitRowInv, NextRowInv, <1>1, PTL DEF Spec
-----------------------------------------------------------------------------
(* The ways back *)

\* A slot that leads somewhere: ConnectionsOf collects these.
LEMMA InConnections ==
  ASSUME NEW r \in Rooms, NEW t \in Rooms
  PROVE  t \in ConnectionsOf(r) <=> \E k \in Slots : roomConnection[r][k] = t
BY Sizes DEF ConnectionsOf, Rooms, Empty

\* Before the first connection is drawn there is none to go back.
LEMMA InitTwoWay == Init => TwoWay
BY DEF Init, TwoWay

\* Where the tables, the room in hand and the place in its turn stay, so do the ways.
LEMMA SameTwoWay ==
  ASSUME TwoWay, UNCHANGED roomConnection,
         \/ pc' = pc /\ room' = room /\ (pc = "back" => connIdx' = connIdx)
         \/ pc \notin {"fill", "back"}
  PROVE  TwoWay'
BY DEF TwoWay, ConnectionsOf

\* Turning to the ways back leaves all of the room's connections excused.
LEMMA EndOfFillTwoWay == RowInv /\ TwoWay /\ EndOfFill => TwoWay'
<1> SUFFICES ASSUME RowInv, TwoWay, EndOfFill, NEW r \in Rooms, NEW k \in Slots,
                    roomConnection[r][k] # Empty
             PROVE  \/ r \in ConnectionsOf(roomConnection[r][k])
                    \/ r = room
  BY Sizes DEF TwoWay, EndOfFill, ConnectionsOf, Slots
<1> QED BY DEF TwoWay

\* The search that ends with found has shown the way back of the slot it passes.
LEMMA HasWayBackTwoWay == RowInv /\ TwoWay /\ HasWayBack => TwoWay'
<1> SUFFICES ASSUME RowInv, TwoWay, HasWayBack PROVE TwoWay'
  OBVIOUS
<1>1. /\ room \in Rooms /\ connIdx \in Slots /\ pc = "back" /\ pc' = "back"
      /\ connIdx' = connIdx + 1 /\ UNCHANGED <<room, roomConnection>>
      /\ roomConnection[room][connIdx] # Empty
  <2>1. room \in Rooms /\ connIdx \in Slots
    BY Sizes DEF RowInv, TypeOK, HasWayBack, Returning, Rooms, Slots
  <2> QED BY <2>1 DEF HasWayBack, Returning, RowInv, Progress, Complete
<1>2. room \in ConnectionsOf(roomConnection[room][connIdx])
  <2>1. checkRoom \in Rooms BY <1>1 DEF checkRoom, RowInv, TypeOK
  <2>2. checkConnIdx \in Slots /\ roomConnection[checkRoom][checkConnIdx] = room
    <3>1. Stops # {} /\ Stops \in SUBSET Nat /\ Stops \subseteq Slots
      BY Sizes DEF HasWayBack, found, Stops, Slots
    <3>2. PICK i \in Stops : \A j \in Stops : i <= j BY <3>1, LeastElement
    <3>3. checkConnIdx \in Stops BY <3>1, <3>2 DEF checkConnIdx
    <3> QED BY <3>1, <3>3 DEF HasWayBack, found
  <2> QED BY <1>1, <2>1, <2>2, InConnections DEF checkRoom
<1>3. SUFFICES ASSUME NEW r \in Rooms, NEW k \in Slots, roomConnection[r][k] # Empty
               PROVE  \/ r \in ConnectionsOf(roomConnection[r][k])
                      \/ r = room /\ connIdx + 1 <= k
  BY <1>1 DEF TwoWay, ConnectionsOf
<1>4. r \in ConnectionsOf(roomConnection[r][k]) \/ (r = room /\ connIdx <= k)
  BY <1>1, <1>3 DEF TwoWay
<1>5. connIdx <= k => k = connIdx \/ connIdx + 1 <= k
  BY <1>1, Sizes DEF Slots
<1> QED BY <1>2, <1>4, <1>5

\* A connection drawn is one of the room in hand, which is excused while it draws.
LEMMA DrawConnectionTwoWay == RowInv /\ TwoWay /\ DrawConnection => TwoWay'
<1> SUFFICES ASSUME RowInv, TwoWay, DrawConnection PROVE TwoWay'
  OBVIOUS
<1>1. TypeOK /\ Progress BY DEF RowInv
<1>2. PICK to \in randomRoom : Connect(to)
  BY <1>1, OptionsLeft DEF DrawConnection
<1>3. /\ pc = "fill" /\ pc' = "fill" /\ room' = room /\ room \in Rooms /\ connIdx \in Slots
      /\ to \in Rooms /\ roomConnection[room][connIdx] = Empty
      /\ roomConnection' = [roomConnection EXCEPT ![room][connIdx] = to]
  BY <1>1, <1>2, Sizes
     DEF DrawConnection, Filling, Connect, TypeOK, Rooms, Slots, ThisSlot
<1>4. /\ roomConnection'[room][connIdx] = to
      /\ \A s \in Rooms : \A j \in Slots :
            s # room \/ j # connIdx => roomConnection'[s][j] = roomConnection[s][j]
  BY <1>1, <1>3, SlotUpdate
<1>8. \A t \in Rooms : t # Empty BY Sizes DEF Rooms, Empty
<1>5. SUFFICES ASSUME NEW r \in Rooms, NEW k \in Slots, roomConnection'[r][k] # Empty,
                      r # room
               PROVE  \E j \in Slots : roomConnection'[roomConnection'[r][k]][j] = r
  BY <1>3, <1>8 DEF TwoWay, ConnectionsOf
<1>6. roomConnection'[r][k] = roomConnection[r][k] /\ roomConnection[r][k] \in Rooms
  BY <1>1, <1>4, <1>5 DEF TypeOK
<1>7. \E j \in Slots : roomConnection[roomConnection[r][k]][j] = r
  BY <1>5, <1>6, InConnections DEF TwoWay
<1>9. \E j \in Slots : roomConnection'[roomConnection[r][k]][j] = r
  BY <1>3, <1>4, <1>6, <1>7, <1>8
<1> QED BY <1>6, <1>9

\* The way back that is written serves the slot that is passed; it overwrites none, and
\* is itself two-way because that slot leads to the room it was written for.
LEMMA AddWayBackTwoWay == RowInv /\ TwoWay /\ AddWayBack => TwoWay'
<1> SUFFICES ASSUME RowInv, TwoWay, AddWayBack PROVE TwoWay'
  OBVIOUS
<1> DEFINE c == checkRoom
           q == checkConnIdx
<1>1. /\ c \in Rooms /\ c # room /\ q \in Slots /\ connIdx \in Slots
      /\ \A j \in Slots : q <= j => roomConnection[c][j] = Empty
  BY WayBackSlot
<1>2. /\ pc = "back" /\ pc' = "back" /\ connIdx' = connIdx + 1 /\ room' = room
      /\ roomConnection' = [roomConnection EXCEPT ![c][q] = room]
      /\ c = roomConnection[room][connIdx]
  BY DEF AddWayBack, Missing, Returning, checkRoom
<1> HIDE DEF c, q
<1>3. TypeOK BY DEF RowInv
<1>4. room \in Rooms BY <1>3 DEF TypeOK
<1>5. /\ roomConnection' \in [Rooms -> [Slots -> Rooms \cup {Empty}]]
      /\ roomConnection'[c][q] = room
      /\ \A s \in Rooms : \A j \in Slots :
            s # c \/ j # q => roomConnection'[s][j] = roomConnection[s][j]
  <2>1. c \in Rooms /\ q \in Slots BY <1>1
  <2>2. roomConnection' = [roomConnection EXCEPT ![c][q] = room] BY <1>2
  <2> QED BY <1>3, <1>4, <2>1, <2>2, SlotUpdate
<1>6. roomConnection[c][q] = Empty /\ \A t \in Rooms : t # Empty
  BY <1>1, Sizes DEF Slots, Rooms, Empty
\* Every connection there was is still there.
<1>7. \A s, t \in Rooms : (\E j \in Slots : roomConnection[s][j] = t)
                         => \E j \in Slots : roomConnection'[s][j] = t
  BY <1>5, <1>6
<1>8. SUFFICES ASSUME NEW r \in Rooms, NEW k \in Slots, roomConnection'[r][k] # Empty
               PROVE  \/ \E j \in Slots : roomConnection'[roomConnection'[r][k]][j] = r
                      \/ r = room /\ connIdx + 1 <= k
  BY <1>2, <1>6 DEF TwoWay, ConnectionsOf
<1> DEFINE t == roomConnection'[r][k]
<1>9. t \in Rooms BY <1>5, <1>8
<1>10. CASE r = c /\ k = q
  \* The way back leads to the room in hand, which leads here.
  <2>1. roomConnection'[room][connIdx] = c BY <1>1, <1>2, <1>4, <1>5
  <2>2. \E j \in Slots : roomConnection'[t][j] = r BY <1>1, <1>5, <1>10, <2>1
  <2> QED BY <2>2
<1>11. CASE r # c \/ k # q
  <2>1. t = roomConnection[r][k] BY <1>5, <1>11
  <2>2. CASE r \in ConnectionsOf(t)
    <3>1. \E j \in Slots : roomConnection[t][j] = r BY <1>9, <2>2, InConnections
    <3>2. \E j \in Slots : roomConnection'[t][j] = r BY <1>7, <1>9, <3>1
    <3> QED BY <3>2
  <2>3. CASE r = room /\ connIdx <= k
    <3>1. CASE k = connIdx
      <4>1. t = c BY <1>2, <2>1, <2>3, <3>1
      <4>2. \E j \in Slots : roomConnection'[t][j] = r BY <1>1, <1>5, <2>3, <4>1
      <4> QED BY <4>2
    <3>2. CASE k # connIdx BY <1>1, <2>3, <3>2, Sizes DEF Slots
    <3> QED BY <3>1, <3>2
  <2> QED BY <1>2, <1>8, <2>1, <2>2, <2>3 DEF TwoWay
<1> QED BY <1>10, <1>11

\* When a room's turn ends, nothing of its row is left to lead back.
LEMMA NextRoomTwoWay == RowInv /\ TwoWay /\ NextRoom => TwoWay'
<1> SUFFICES ASSUME RowInv, TwoWay, NextRoom, NEW r \in Rooms, NEW k \in Slots,
                    roomConnection[r][k] # Empty
             PROVE  r \in ConnectionsOf(roomConnection[r][k])
  BY DEF TwoWay, NextRoom, ConnectionsOf
<1>1. r \in ConnectionsOf(roomConnection[r][k]) \/ (r = room /\ connIdx <= k)
  BY DEF TwoWay, NextRoom
<1>2. k < numConnections[r] BY DEF RowInv, LeftPacked
<1>3. ASSUME r = room /\ connIdx <= k PROVE FALSE
  <2>1. connIdx = numConnections[room] BY DEF NextRoom
  <2>2. numConnections[room] \in Int /\ k \in Int BY Sizes DEF RowInv, TypeOK, Slots
  <2> QED BY <1>2, <1>3, <2>1, <2>2
<1> QED BY <1>1, <1>3

\* The two invariants together hold at the start ...
LEMMA InitWayInv == Init => WayInv
BY InitRowInv, InitTwoWay DEF WayInv

\* ... and after every step.
LEMMA NextWayInv == WayInv /\ [Next]_vars => WayInv'
<1> SUFFICES ASSUME RowInv, TwoWay, [Next]_vars PROVE TwoWay'
  BY NextRowInv DEF WayInv
<1>1. CASE AssignTypes BY <1>1, SameTwoWay DEF AssignTypes
<1>2. CASE AssignCounts BY <1>2, SameTwoWay DEF AssignCounts
<1>3. CASE SlotTaken BY <1>3, SameTwoWay DEF SlotTaken, Filling
<1>4. CASE WriteRoom BY <1>4, SameTwoWay DEF WriteRoom
<1>5. CASE UNCHANGED vars BY <1>5, SameTwoWay DEF vars
<1> QED BY <1>1, <1>2, <1>3, <1>4, <1>5, DrawConnectionTwoWay, EndOfFillTwoWay,
           HasWayBackTwoWay, AddWayBackTwoWay, NextRoomTwoWay DEF Next

\* Every connection of a room that has had its turn can be gone both ways, for every
\* number of rooms and every draw.
THEOREM WaysLeadBack == Spec => []TwoWay
<1>1. WayInv => TwoWay BY DEF WayInv
<1> QED BY InitWayInv, NextWayInv, <1>1, PTL DEF Spec
-----------------------------------------------------------------------------
(* The files *)

FileInv == WayInv /\ FilesAgree

\* Writing a file makes it agree with the tables, which no longer change.
LEMMA NextFileInv == FileInv /\ [Next]_vars => FileInv'
<1> SUFFICES ASSUME FileInv, [Next]_vars PROVE FilesAgree'
  BY NextWayInv DEF FileInv
<1> USE DEF FileInv, FilesAgree
<1>1. CASE WriteRoom
  <2>1. room \in Rooms /\ files \in [Rooms -> [type : {"none", "START_ROOM", "MID_ROOM",
                                   "END_ROOM"}, to : SUBSET Rooms]]
    BY DEF WayInv, RowInv, TypeOK
  <2>2. SUFFICES ASSUME NEW r \in Rooms, r <= room
                 PROVE  files'[r] = [type |-> roomTypes[r], to |-> ConnectionsOf(r)]
    BY <1>1, <2>1, Sizes DEF WriteRoom, ConnectionsOf, Rooms
  <2>3. CASE r = room BY <1>1, <2>1, <2>3 DEF WriteRoom
  <2>4. CASE r # room
    <3>1. r < room BY <2>1, <2>2, <2>4, Sizes DEF Rooms
    <3> QED BY <1>1, <2>1, <2>4, <3>1 DEF WriteRoom
  <2> QED BY <2>3, <2>4
<1>2. CASE NextRoom
  <2>1. \A r \in Rooms : ~(pc' = "done" \/ (pc' = "write" /\ r < room'))
    BY <1>2, Sizes DEF NextRoom, Rooms
  <2> QED BY <2>1
<1>3. CASE UNCHANGED vars BY <1>3 DEF vars, ConnectionsOf
<1>4. CASE AssignTypes BY <1>4 DEF AssignTypes
<1>5. CASE AssignCounts BY <1>5 DEF AssignCounts
<1>6. CASE SlotTaken BY <1>6 DEF SlotTaken, Filling
<1>7. CASE DrawConnection
  <2>1. pc' \in {"fill", "aborted"} BY <1>7 DEF DrawConnection, Filling, Connect
  <2> QED BY <2>1
<1>8. CASE EndOfFill BY <1>8 DEF EndOfFill
<1>9. CASE HasWayBack BY <1>9 DEF HasWayBack, Returning
<1>10. CASE AddWayBack BY <1>10 DEF AddWayBack, Missing, Returning
<1> QED BY <1>1, <1>2, <1>3, <1>4, <1>5, <1>6, <1>7, <1>8, <1>9, <1>10 DEF Next

\* At the start nothing has been written, so nothing can disagree.
LEMMA InitFileInv == Init => FileInv
BY InitWayInv DEF Init, FileInv, FilesAgree

\* A complete row leads to as many rooms as its count says.
LEMMA CountIsCardinality ==
  ASSUME RowInv, NEW r \in Rooms, Complete(r)
  PROVE  /\ IsFiniteSet(ConnectionsOf(r))
         /\ Cardinality(ConnectionsOf(r)) = numConnections[r]
<1> DEFINE n == numConnections[r]
           f == [k \in 0..n - 1 |-> roomConnection[r][k]]
<1>1. n \in 0..N - 1 /\ TypeOK /\ NoSelfNoDupes /\ LeftPacked BY DEF RowInv, TypeOK
<1>2. \A k \in 0..n - 1 : k \in Slots BY <1>1, Sizes DEF Slots
<1>3. f \in Injection(0..n - 1, ConnectionsOf(r))
  <2>1. \A k \in 0..n - 1 : f[k] \in ConnectionsOf(r)
    BY <1>1, <1>2 DEF Complete, ConnectionsOf
  <2>2. \A j, k \in 0..n - 1 : f[j] = f[k] => j = k
    <3>1. \A k \in 0..n - 1 : roomConnection[r][k] # Empty BY <1>1, <1>2 DEF Complete
    <3> QED BY <1>1, <1>2, <3>1 DEF NoSelfNoDupes
  <2>3. f \in [0..n - 1 -> ConnectionsOf(r)] BY <2>1
  <2>4. DOMAIN f = 0..n - 1 OBVIOUS
  <2> HIDE DEF f
  <2> QED BY <2>2, <2>3, <2>4 DEF Injection, IsInjective
<1>4. f \in Surjection(0..n - 1, ConnectionsOf(r))
  <2>1. \A t \in ConnectionsOf(r) : \E k \in 0..n - 1 : f[k] = t
    <3> SUFFICES ASSUME NEW t \in ConnectionsOf(r) PROVE \E k \in 0..n - 1 : f[k] = t
      OBVIOUS
    <3>1. PICK k \in Slots : roomConnection[r][k] = t /\ t # Empty BY DEF ConnectionsOf
    <3>2. k \in 0..n - 1 BY <1>1, <3>1, Sizes DEF LeftPacked, Slots
    <3> QED BY <3>1, <3>2
  <2> QED BY <1>3, <2>1 DEF Injection, Surjection
<1>5. IsFiniteSet(0..n - 1) /\ Cardinality(0..n - 1) = n
  <2>1. n - 1 \in Int /\ 0 \in Int BY <1>1, Sizes
  <2>2. /\ IsFiniteSet(0..n - 1)
        /\ Cardinality(0..n - 1) = IF 0 > n - 1 THEN 0 ELSE n - 1 - 0 + 1
    BY <2>1, FS_Interval
  <2> QED BY <1>1, <2>2, Sizes
<1> HIDE DEF f, n
<1>6. ExistsBijection(0..n - 1, ConnectionsOf(r))
  BY <1>3, <1>4 DEF ExistsBijection, Bijection
<1>7. /\ IsFiniteSet(ConnectionsOf(r))
      /\ Cardinality(ConnectionsOf(r)) = Cardinality(0..n - 1)
  BY <1>5, <1>6, FS_Bijection
<1> QED BY <1>5, <1>7 DEF n

\* What the finished files say of a room.
LEMMA FileFacts ==
  ASSUME FileInv, Written, NEW r \in Rooms
  PROVE  /\ files[r].to = ConnectionsOf(r) /\ ConnectionsOf(r) \subseteq Rooms \ {r}
         /\ IsFiniteSet(ConnectionsOf(r))
         /\ Cardinality(ConnectionsOf(r)) \in Least..N - 1
         /\ \A t \in ConnectionsOf(r) : r \in ConnectionsOf(t)
<1>1. RowInv /\ TwoWay /\ FilesAgree /\ pc = "done" BY DEF FileInv, WayInv, Written
<1>2. files[r].to = ConnectionsOf(r)
  <2>1. files[r] = [type |-> roomTypes[r], to |-> ConnectionsOf(r)]
    BY <1>1, Zenon DEF FilesAgree
  <2> QED BY <2>1
<1>3. ConnectionsOf(r) \subseteq Rooms \ {r}
  BY <1>1 DEF RowInv, TypeOK, NoSelfNoDupes, ConnectionsOf
<1>4. Complete(r) /\ numConnections[r] \in Least..N - 1
  BY <1>1 DEF RowInv, Progress, Counts
<1>5. IsFiniteSet(ConnectionsOf(r)) /\ Cardinality(ConnectionsOf(r)) \in Least..N - 1
  BY <1>1, <1>4, CountIsCardinality
<1>6. \A t \in ConnectionsOf(r) : r \in ConnectionsOf(t)
  <2> SUFFICES ASSUME NEW t \in ConnectionsOf(r) PROVE r \in ConnectionsOf(t)
    OBVIOUS
  <2>1. PICK k \in Slots : roomConnection[r][k] = t /\ t # Empty BY DEF ConnectionsOf
  <2> QED BY <1>1, <2>1 DEF TwoWay
<1> QED BY <1>2, <1>3, <1>5, <1>6

\* "Assigns 3 to 6 random connections to each room": the files never hold fewer than the
\* least number, nor more than there are other rooms.
THEOREM ConnectionCounts == Spec => []EnoughConnections
<1>1. FileInv => EnoughConnections BY FileFacts DEF EnoughConnections
<1> QED BY InitFileInv, NextFileInv, <1>1, PTL DEF Spec

\* Two rooms that are not connected share a neighbour: together they have more
\* connections than there are other rooms.
LEMMA SharedNeighbour ==
  ASSUME FileInv, Written, 2 * Least > N - 2, NEW a \in Rooms, NEW b \in Rooms,
         a # b, b \notin ConnectionsOf(a)
  PROVE  \E c \in ConnectionsOf(a) : b \in ConnectionsOf(c)
<1> DEFINE U == (Rooms \ {a}) \ {b}
           A == ConnectionsOf(a)
           B == ConnectionsOf(b)
<1>1. /\ A \subseteq Rooms \ {a} /\ B \subseteq Rooms \ {b}
      /\ Cardinality(A) \in Least..N - 1 /\ Cardinality(B) \in Least..N - 1
      /\ \A t \in B : b \in ConnectionsOf(t)
  BY FileFacts
<1>2. A \subseteq U /\ B \subseteq U
  <2>1. a \notin B BY <1>1
  <2> QED BY <1>1, <2>1
<1>3. IsFiniteSet(U) /\ Cardinality(U) = N - 2
  <2>1. IsFiniteSet(Rooms \ {a}) /\ Cardinality(Rooms \ {a}) = N - 1
    BY Sizes, FS_RemoveElement
  <2>2. b \in Rooms \ {a} OBVIOUS
  <2>3. /\ IsFiniteSet((Rooms \ {a}) \ {b})
        /\ Cardinality((Rooms \ {a}) \ {b}) = Cardinality(Rooms \ {a}) - 1
    BY <2>1, <2>2, FS_RemoveElement
  <2> QED BY <2>1, <2>3, Sizes
<1>4. Cardinality(A) + Cardinality(B) > Cardinality(U)
  BY <1>1, <1>3, Sizes
<1>5. A \cap B # {}
  <2> HIDE DEF U, A, B
  <2> QED BY <1>2, <1>3, <1>4, FS_MajoritiesIntersect
<1> QED BY <1>1, <1>5

\* In a finished directory every room is at most two moves from every other, so the
\* player is never cut off from the end room.
THEOREM EndIsNear == Spec => []TwoMovesApart
<1>1. ASSUME FileInv PROVE TwoMovesApart
  <2> SUFFICES ASSUME Written, 2 * Least > N - 2, NEW a \in Rooms, NEW b \in Rooms,
                      a # b, b \notin files[a].to
               PROVE  \E c \in files[a].to : b \in files[c].to
    BY DEF TwoMovesApart
  <2>1. /\ files[a].to = ConnectionsOf(a) /\ ConnectionsOf(a) \subseteq Rooms
        /\ \A c \in Rooms : files[c].to = ConnectionsOf(c)
    BY <1>1, FileFacts
  <2>2. PICK c \in ConnectionsOf(a) : b \in ConnectionsOf(c)
    BY <1>1, <2>1, SharedNeighbour
  <2> QED BY <2>1, <2>2
<1> QED BY InitFileInv, NextFileInv, <1>1, PTL DEF Spec
=============================================================================

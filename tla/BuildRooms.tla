----------------------------- MODULE BuildRooms -----------------------------
(***************************************************************************)
(* c/adventure_concurrency/mores.buildrooms.c: draws the types of the      *)
(* rooms and how many connections each has, gives every room its           *)
(* connections and each of these a connection back, and writes one file    *)
(* for each room.  The C has N = 7, Least = 3 and rows of N - 1 = 6 slots. *)
(* randomRoom, a shuffled list whose entries are deleted or passed over,   *)
(* is the set of those left: the next one may be any of them.              *)
(***************************************************************************)
EXTENDS Integers, FiniteSets

CONSTANTS N,         \* number of rooms
          Least      \* the least number of connections drawn for a room

ASSUME SizesAssumption == N \in Nat \ {0, 1} /\ Least \in 1..N - 1

Rooms == 0..N - 1
Slots == 0..N - 2
Empty == -1

VARIABLES pc, roomTypes, numConnections, roomConnection,
          room, connIdx, randomRoom,
          files                    \* the directory: what the file of a room says
vars == <<pc, roomTypes, numConnections, roomConnection, room, connIdx, randomRoom, files>>

NoFile == [type |-> "none", to |-> {}]

Init ==
    /\ pc = "types"
    /\ roomTypes = [r \in Rooms |-> "none"]
    /\ numConnections = [r \in Rooms |-> 0]
    /\ roomConnection = [r \in Rooms |-> [k \in Slots |-> Empty]]
    /\ room = 0 /\ connIdx = 0 /\ randomRoom = {}
    /\ files = [r \in Rooms |-> NoFile]
-----------------------------------------------------------------------------
\* assignRoomValues(): the end room is drawn once, and when it is the start room the
\* loop is left without one.
TypesOf(start, end) ==
    [r \in Rooms |-> IF r = start THEN "START_ROOM" ELSE IF r = end THEN "END_ROOM"
                     ELSE "MID_ROOM"]
AssignTypes ==
    /\ pc = "types"
    /\ \E start, end \in Rooms : roomTypes' = TypesOf(start, end)
    /\ pc' = "counts"
    /\ UNCHANGED <<numConnections, roomConnection, room, connIdx, randomRoom, files>>

\* Seeded fault: every count one lower.
CountsOneLow == Least - 1..N - 2
Counts == Least..N - 1

\* Seeded fault: the list of the room before is used.
OptionsNotRenewed(r) == randomRoom \ {r}
\* genRandomRooms() and delFromRandomRooms(room)
Options(r) == Rooms \ {r}

AssignCounts ==
    /\ pc = "counts"
    /\ numConnections' \in [Rooms -> Counts]
    /\ randomRoom' = Options(room)
    /\ pc' = "fill"
    /\ UNCHANGED <<roomTypes, roomConnection, room, connIdx, files>>

(* The room's own connections: lines 226-245 *)
Filling == pc = "fill" /\ connIdx < numConnections[room]
ThisSlot == roomConnection[room][connIdx]

Deleted == randomRoom \ {ThisSlot}

SlotTaken ==
    /\ Filling
    /\ ThisSlot # Empty
    /\ randomRoom' = Deleted
    /\ connIdx' = connIdx + 1
    /\ UNCHANGED <<pc, roomTypes, numConnections, roomConnection, room, files>>

Connect(to) ==
    /\ roomConnection' = [roomConnection EXCEPT ![room][connIdx] = to]
    /\ randomRoom' = randomRoom \ {to}
    /\ connIdx' = connIdx + 1
    /\ UNCHANGED pc

\* The search for the next entry of randomRoom ends with one or with the failure of
\* assert(randomRoomIdx < 7).
DrawConnection ==
    /\ Filling
    /\ ThisSlot = Empty
    /\ IF randomRoom = {}
       THEN pc' = "aborted" /\ UNCHANGED <<roomConnection, randomRoom, connIdx>>
       ELSE \E to \in randomRoom : Connect(to)
    /\ UNCHANGED <<roomTypes, numConnections, room, files>>

EndOfFill ==
    /\ pc = "fill"
    /\ connIdx = numConnections[room]
    /\ pc' = "back" /\ connIdx' = 0
    /\ UNCHANGED <<roomTypes, numConnections, roomConnection, room, randomRoom, files>>

(* The connections back: lines 249-275 *)
Returning == pc = "back" /\ connIdx < numConnections[room]
checkRoom == roomConnection[room][connIdx]

\* Where the search through checkRoom's connections ends: at the first slot that is
\* empty or leads back, or past the last one.
StopsAt(k) == roomConnection[checkRoom][k] \in {Empty, room}
Stops == {k \in Slots : k < numConnections[checkRoom] /\ StopsAt(k)}
checkConnIdx == IF Stops = {} THEN numConnections[checkRoom]
                ELSE CHOOSE k \in Stops : \A j \in Stops : k <= j
found == Stops # {} /\ roomConnection[checkRoom][checkConnIdx] = room

\* Seeded fault: a full room gets no way back.
FullIsPassed ==
    /\ Returning
    /\ found \/ checkConnIdx = numConnections[checkRoom]
    /\ connIdx' = connIdx + 1
    /\ UNCHANGED <<pc, roomTypes, numConnections, roomConnection, room, randomRoom, files>>
HasWayBack ==
    /\ Returning
    /\ found
    /\ connIdx' = connIdx + 1
    /\ UNCHANGED <<pc, roomTypes, numConnections, roomConnection, room, randomRoom, files>>

Missing == Returning /\ ~found
CountsWithBack == IF checkConnIdx = numConnections[checkRoom]
                  THEN [numConnections EXCEPT ![checkRoom] = @ + 1] ELSE numConnections

AddWayBack ==
    /\ Missing
    /\ numConnections' = CountsWithBack
    /\ roomConnection' = [roomConnection EXCEPT ![checkRoom][checkConnIdx] = room]
    /\ connIdx' = connIdx + 1
    /\ UNCHANGED <<pc, roomTypes, room, randomRoom, files>>

NextRoom ==
    /\ pc = "back"
    /\ connIdx = numConnections[room]
    /\ connIdx' = 0
    /\ IF room = N - 1
       THEN pc' = "write" /\ room' = 0 /\ UNCHANGED randomRoom
       ELSE pc' = "fill" /\ room' = room + 1 /\ randomRoom' = Options(room + 1)
    /\ UNCHANGED <<roomTypes, numConnections, roomConnection, files>>

\* Lines 312-333: of every slot that is not empty a line is written.
ConnectionsOf(r) == {roomConnection[r][k] : k \in Slots} \ {Empty}

WriteRoom ==
    /\ pc = "write"
    /\ files' = [files EXCEPT ![room] = [type |-> roomTypes[room], to |-> ConnectionsOf(room)]]
    /\ IF room = N - 1 THEN pc' = "done" /\ UNCHANGED room
       ELSE room' = room + 1 /\ UNCHANGED pc
    /\ UNCHANGED <<roomTypes, numConnections, roomConnection, connIdx, randomRoom>>

Next == \/ AssignTypes \/ AssignCounts
        \/ SlotTaken \/ DrawConnection \/ EndOfFill
        \/ HasWayBack \/ AddWayBack \/ NextRoom
        \/ WriteRoom
Spec == Init /\ [][Next]_vars
-----------------------------------------------------------------------------
(* Properties *)

\* Every variable holds a value of its C type; no count exceeds the slots of a row.
TypeOK ==
    /\ pc \in {"types", "counts", "fill", "back", "write", "done", "aborted"}
    /\ roomTypes \in [Rooms -> {"none", "START_ROOM", "MID_ROOM", "END_ROOM"}]
    /\ numConnections \in [Rooms -> 0..N - 1]
    /\ roomConnection \in [Rooms -> [Slots -> Rooms \cup {Empty}]]
    /\ room \in Rooms /\ connIdx \in 0..N - 1
    /\ randomRoom \subseteq Rooms
    /\ files \in [Rooms -> [type : {"none", "START_ROOM", "MID_ROOM", "END_ROOM"},
                            to : SUBSET Rooms]]

\* A search that finds no way back ends within the row, also where the count is already
\* the largest: the write after it is never past the slots of the room.
FitsInRow == Missing => checkConnIdx \in Slots

\* assert(randomRoomIdx < 7) never fails: however many of its connections a room got
\* from others, enough rooms are left for those it still has to draw.
NeverAborts == pc # "aborted"

\* "no self, no dupes": at every moment, also with the ways back the others added.
NoSelfNoDupes ==
    \A r \in Rooms : \A k \in Slots :
        roomConnection[r][k] # Empty =>
            /\ roomConnection[r][k] # r
            /\ \A j \in Slots : j # k => roomConnection[r][j] # roomConnection[r][k]

\* Every connection can be gone both ways, but for those the room in hand has still
\* to give back.
TwoWay ==
    \A r \in Rooms : \A k \in Slots :
        roomConnection[r][k] # Empty =>
            \/ r \in ConnectionsOf(roomConnection[r][k])
            \/ r = room /\ (pc = "fill" \/ (pc = "back" /\ connIdx <= k))

\* In a finished directory each room has between the least number of connections and one
\* to every other room, as the header says ("assigns 3 to 6 random connections").
Written == pc = "done"
EnoughConnections ==
    Written => \A r \in Rooms : Cardinality(files[r].to) \in Least..N - 1

\* With the code's numbers the finished map is never in pieces: two rooms are connected
\* or share a neighbour, so where there is an end room the game can be won.
TwoMovesApart ==
    (Written /\ 2 * Least > N - 2) =>
        \A a, b \in Rooms : \/ a = b \/ b \in files[a].to
                            \/ \E c \in files[a].to : b \in files[c].to
-----------------------------------------------------------------------------
(* What makes these inductive *)

\* The connections of a room fill its row from the left, up to its count at most.
LeftPacked ==
    \A r \in Rooms : \A k \in Slots :
        roomConnection[r][k] # Empty =>
            /\ k < numConnections[r]
            /\ \A j \in Slots : j < k => roomConnection[r][j] # Empty

\* A room that has had its turn has all its connections; the room in hand has those
\* before connIdx, and while it draws, randomRoom is what these leave.
Complete(r) == \A k \in Slots : k < numConnections[r] => roomConnection[r][k] # Empty
Progress ==
    /\ pc \in {"types", "counts"} =>
          /\ room = 0 /\ connIdx = 0
          /\ \A r \in Rooms : \A k \in Slots : roomConnection[r][k] = Empty
    /\ pc \notin {"types", "counts"} => \A r \in Rooms : numConnections[r] \in Counts
    /\ pc \in {"fill", "back"} => /\ connIdx <= numConnections[room]
                                  /\ \A r \in Rooms : r < room => Complete(r)
    /\ pc = "fill" =>
          /\ \A k \in Slots : k < connIdx => roomConnection[room][k] # Empty
          /\ \A r \in Rooms :
                r \in randomRoom
                <=> r # room /\ \A k \in Slots : k < connIdx => roomConnection[room][k] # r
    /\ pc = "back" => Complete(room)
    /\ pc \in {"write", "done"} => \A r \in Rooms : Complete(r)

\* What has been written is what the tables say.
FilesAgree ==
    \A r \in Rooms : pc = "done" \/ (pc = "write" /\ r < room)
        => files[r] = [type |-> roomTypes[r], to |-> ConnectionsOf(r)]

RowInv == TypeOK /\ NoSelfNoDupes /\ LeftPacked /\ Progress /\ NeverAborts
WayInv == RowInv /\ TwoWay
-----------------------------------------------------------------------------
\* Claimed by the comment on line 121 of mores.buildrooms.c: the room types are
\* assigned "with 1 START_ROOM and 1 END_ROOM".
OneEndRoom ==
    Written => \A type \in {"START_ROOM", "END_ROOM"} :
                  Cardinality({r \in Rooms : files[r].type = type}) = 1
=============================================================================

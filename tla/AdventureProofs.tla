--------------------------- MODULE AdventureProofs ---------------------------
(***************************************************************************)
(* The game implements GameSpec on every map, with any number of rooms,    *)
(* moves and requests.  The invariant has two parts: Board says that the   *)
(* table is the directory and that one room holds the player; Turns says   *)
(* who has the mutex at each point of the two threads, and whether a       *)
(* request for the time is still to be dealt with.                         *)
(***************************************************************************)
EXTENDS Adventure, FiniteSetTheorems, TLAPS

\* The table once the names are assigned: each file of the directory has one index.
Named == /\ roomName \in [Ids -> Names]
         /\ \A i, j \in Ids : roomName[i] = roomName[j] => i = j
         /\ \A r \in Names : \E i \in Ids : roomName[i] = r

Board ==
    /\ map \in Maps
    /\ pc = "read" => Named
    /\ Loaded =>
          /\ Named
          /\ roomType = [i \in Ids |-> map[roomName[i]].type]
          /\ outBound = [i \in Ids |-> ConnectionIdx(map[roomName[i]])]
          /\ playerFlag \in [Ids -> BOOLEAN]
          /\ \E i \in Ids : \A j \in Ids : playerFlag[j] <=> j = i
    /\ ~Loaded => pathTaken = <<>> /\ gameFlag

Owed(n) == asked = told + dropped + n

Turns ==
    /\ asked \in Nat /\ told \in Nat /\ dropped \in Nat
    /\ pc \in {"assign", "read", "lock", "create"} => second = "none" /\ Owed(0)
    /\ pc \in {"assign", "read", "lock"} => mutex = Nobody
    /\ pc \in {"turn", "unlock", "recreate"} =>
          mutex = "main" /\ second \in {"started", "joined"}
    /\ pc \in {"turn", "relock", "recreate", "exited", "crashed"} => Owed(0)
    /\ pc = "unlock" => Owed(1)
    /\ pc = "join" =>
          \/ second \in {"started", "joined"} /\ mutex = Nobody /\ Owed(1)
          \/ second = "getTime" /\ mutex = "second" /\ Owed(1)
          \/ second = "told" /\ mutex = "second" /\ Owed(0)
          \/ second = "ended" /\ mutex = Nobody /\ Owed(0)
    /\ pc = "relock" => second = "joined" /\ mutex = Nobody
    /\ pc = "create" => mutex = "main"
    /\ pc \in {"assign", "read", "lock", "create", "turn", "unlock", "join", "relock",
               "recreate", "exited", "crashed"}

Inv == Board /\ Turns
-----------------------------------------------------------------------------
(* The table *)

\* As many files as indices, and each file has an index: so each has one.
LEMMA OneIndexEach ==
  ASSUME map \in Maps, NEW order \in [Ids -> Names],
         \A r \in Names : \E i \in Ids : order[i] = r
  PROVE  \A i, j \in Ids : order[i] = order[j] => i = j
<1>1. IsFiniteSet(Ids) /\ Cardinality(Ids) = N
  BY NAssumption, FS_Interval DEF Ids
<1>2. order \in Surjection(Ids, Names) BY DEF Surjection
<1>3. Cardinality(Names) = N BY MapsAssumption DEF Names
<1>4. order \in Injection(Ids, Names) BY <1>1, <1>2, <1>3, FS_Surjection
<1> QED BY <1>4 DEF Injection, IsInjective

\* The search over all flags but the last finds the one that is set.
FlagAt(i) == \A j \in Ids : playerFlag[j] <=> j = i
LEMMA PositionIs == \A i \in Ids : FlagAt(i) => Position = i
<1> SUFFICES ASSUME NEW i \in Ids, FlagAt(i) PROVE Position = i OBVIOUS
<1> USE DEF FlagAt
<1>1. CASE i = N - 1
  <2>1. Flagged = {} BY <1>1, NAssumption DEF Flagged, Ids
  <2> QED BY <1>1, <2>1 DEF Position
<1>2. CASE i # N - 1
  <2>1. Flagged = {i} BY <1>2, NAssumption DEF Flagged, Ids
  <2> QED BY <2>1, NAssumption DEF Position, Ids
<1> QED BY <1>1, <1>2

\* Where the player is, and what the table says of that room.
LEMMA AtRoom ==
  ASSUME Board, Loaded
  PROVE  /\ Position \in Ids /\ \A j \in Ids : playerFlag[j] <=> j = Position
         /\ roomName[Position] \in Names /\ roomName[Position] # Nobody
<1>1. PICK i \in Ids : \A j \in Ids : playerFlag[j] <=> j = i BY DEF Board
<1>2. Position = i BY <1>1, PositionIs DEF FlagAt
<1> QED BY <1>1, <1>2, NobodyAssumption DEF Board, Named, Names
-----------------------------------------------------------------------------
LEMMA InitInv == Init => Inv
<1> SUFFICES ASSUME Init PROVE Inv OBVIOUS
<1>1. Board BY DEF Init, Board, Loaded
<1>2. Turns BY DEF Init, Turns, Owed
<1> QED BY <1>1, <1>2 DEF Inv

\* The steps that read the directory or move the player.
LEMMA AssignInv == Inv /\ AssignIDToRoomNames => Inv'
<1> SUFFICES ASSUME Inv, AssignIDToRoomNames PROVE Inv' OBVIOUS
<1> USE DEF AssignIDToRoomNames
<1>1. /\ roomName' \in [Ids -> Names]
      /\ \A r \in Names : \E i \in Ids : roomName'[i] = r
  OBVIOUS
<1>2. \A i, j \in Ids : roomName'[i] = roomName'[j] => i = j
  BY <1>1, OneIndexEach DEF Inv, Board
<1>3. Named' BY <1>1, <1>2 DEF Named, Names
<1>4. Board' BY <1>3 DEF Inv, Board, Loaded
<1>5. Turns' BY DEF Inv, Turns, Owed
<1> QED BY <1>4, <1>5 DEF Inv

LEMMA ReadInv == Inv /\ ReadRoomDirIntoStruct => Inv'
<1> SUFFICES ASSUME Inv, ReadRoomDirIntoStruct PROVE Inv' OBVIOUS
<1> USE DEF ReadRoomDirIntoStruct
<1>1. Named' /\ Named BY DEF Inv, Board, Named, Names
<1>2. \E i \in Ids : \A j \in Ids : playerFlag'[j] <=> j = i
  <2>1. PICK r \in Names : \A s \in Names : map[s].type = "START_ROOM" <=> s = r
    BY MapsAssumption DEF Inv, Board, Names
  <2>2. PICK i \in Ids : roomName[i] = r BY <1>1, <2>1 DEF Named
  <2>3. \A j \in Ids : playerFlag'[j] <=> map[roomName[j]].type = "START_ROOM"
    OBVIOUS
  <2>4. \A j \in Ids : roomName[j] \in Names /\ (roomName[j] = r <=> j = i)
    BY <1>1, <2>2 DEF Named
  <2> QED BY <2>1, <2>3, <2>4
<1>3. outBound' = [i \in Ids |-> ConnectionIdx(map[roomName[i]])']
  BY DEF ConnectionIdx
<1>4. playerFlag' \in [Ids -> BOOLEAN] OBVIOUS
<1>5. roomType' = [i \in Ids |-> map'[roomName'[i]].type] OBVIOUS
<1>6. map' \in Maps BY DEF Inv, Board
<1>7. Board' BY <1>1, <1>2, <1>3, <1>4, <1>5, <1>6 DEF Board, Loaded
<1>8. Turns' BY DEF Inv, Turns, Owed
<1> QED BY <1>7, <1>8 DEF Inv

LEMMA MoveInv == ASSUME Inv, NEW j \in Ids, Move(j) PROVE Inv' /\ Position' = j
<1> USE DEF Move, Turn, tables
<1>1. Loaded /\ Loaded' /\ Board BY DEF Loaded, Inv
<1>2. /\ Position \in Ids /\ \A i \in Ids : playerFlag[i] <=> i = Position
      /\ playerFlag \in [Ids -> BOOLEAN]
  BY <1>1, AtRoom DEF Board
<1>3. playerFlag' \in [Ids -> BOOLEAN] BY <1>2 DEF FlagsAfter
<1>4. \A i \in Ids : playerFlag'[i] <=> i = j BY <1>2 DEF FlagsAfter
<1>5. Position' = j
  <2>1. (\A i \in Ids : FlagAt(i) => Position = i)' BY PositionIs, PTL
  <2> QED BY <1>4, <2>1 DEF FlagAt
<1>6. Board' BY <1>1, <1>3, <1>4 DEF Board, Named, Names, ConnectionIdx
<1>7. Turns' BY DEF Inv, Turns, Owed
<1> QED BY <1>5, <1>6, <1>7 DEF Inv

\* All other steps leave the table alone.
LEMMA BoardKept ==
  ASSUME Inv, UNCHANGED gameVars, Loaded' <=> Loaded, pc' = "read" => pc = "read"
  PROVE  Board' /\ (IF Loaded THEN roomName[Position] ELSE Nobody)'
                     = IF Loaded THEN roomName[Position] ELSE Nobody
<1> USE DEF gameVars, tables
<1>1. Position' = Position BY DEF Position, Flagged
<1>2. Named' <=> Named BY DEF Named, Names
<1>3. \A i \in Ids : ConnectionIdx(map[roomName[i]])' = ConnectionIdx(map[roomName[i]])
  BY DEF ConnectionIdx
<1>4. Board' BY <1>2, <1>3 DEF Inv, Board
<1> QED BY <1>1, <1>4

OtherMain == \/ Lock \/ CreateThread \/ CreateFails \/ AskTime \/ Unlock \/ Join
             \/ JoinAgain \/ Win

LEMMA OtherMainInv == ASSUME Inv, OtherMain PROVE Inv'
<1> USE DEF OtherMain, Lock, CreateThread, CreateFails, AskTime, Unlock, Join, JoinAgain,
            Win, Turn
<1>1. Board' BY BoardKept DEF Loaded
<1>2. Turns'
  <2> USE NobodyAssumption DEF Inv, Turns, Owed
  <2>1. CASE Lock BY <2>1
  <2>2. CASE CreateThread BY <2>2
  <2>3. CASE CreateFails BY <2>3
  <2>4. CASE AskTime BY <2>4
  <2>5. CASE Unlock BY <2>5
  <2>6. CASE Join BY <2>6
  <2>7. CASE JoinAgain BY <2>7
  <2>8. CASE Win BY <2>8
  <2> QED BY <2>1, <2>2, <2>3, <2>4, <2>5, <2>6, <2>7, <2>8
<1> QED BY <1>1, <1>2 DEF Inv

\* The second thread only runs while main() is joining it.
LEMMA SecondInv == ASSUME Inv, Second PROVE Inv' /\ pc = "join"
<1> USE DEF Second, SecondLocks, GetTime, SecondUnlocks
<1>1. Board' BY BoardKept DEF Loaded
<1>2. pc = "join"
  BY NobodyAssumption DEF Inv, Turns, Running
<1>3. Turns' BY <1>2, NobodyAssumption DEF Inv, Turns, Owed
<1> QED BY <1>1, <1>2, <1>3 DEF Inv

LEMMA StutterInv == ASSUME Inv, UNCHANGED vars PROVE Inv'
<1>1. Board' BY BoardKept DEF vars, gameVars, tables, Loaded
<1>2. Turns' BY DEF vars, Inv, Turns, Owed
<1> QED BY <1>1, <1>2 DEF Inv

LEMMA NextInv == Inv /\ [Next]_vars => Inv'
BY AssignInv, ReadInv, MoveInv, OtherMainInv, SecondInv, StutterInv
   DEF Next, Main, Player, OtherMain

LEMMA Invariant == Spec => []Inv
BY InitInv, NextInv, PTL DEF Spec
-----------------------------------------------------------------------------
(* The refinement: each step of the two threads is a step of the game, or none *)

LEMMA InitRefines == Init => Game!Init
BY DEF Init, Game!Init, Loaded

\* Reading the files puts the player into the start room.
LEMMA ReadRefines == ASSUME Inv, ReadRoomDirIntoStruct PROVE Game!Start
<1> USE DEF ReadRoomDirIntoStruct
<1>1. Inv' /\ Loaded' /\ ~Loaded BY ReadInv DEF Loaded
<1>2. /\ Position' \in Ids /\ playerFlag'[Position'] /\ roomName'[Position'] \in Names'
  <2>1. (Position \in Ids /\ (\A j \in Ids : playerFlag[j] <=> j = Position)
           /\ roomName[Position] \in Names)'
    BY <1>1, AtRoom, PTL DEF Inv
  <2> QED BY <2>1
<1>3. map[roomName[Position']].type = "START_ROOM" BY <1>2
<1> QED BY <1>1, <1>2, <1>3 DEF Game!Start, Names

LEMMA MoveRefines == ASSUME Inv, NEW j \in Ids, Move(j) PROVE Game!Move(roomName[j])
<1> USE DEF Move, Turn, tables
<1>1. Loaded /\ Loaded' /\ Position' = j BY MoveInv DEF Loaded
<1>2. /\ Position \in Ids /\ roomName[Position] \in Names /\ roomName[Position] # Nobody
  BY <1>1, AtRoom DEF Inv
<1>3. roomName[j] \in map[roomName[Position]].to
  BY <1>1, <1>2 DEF Inv, Board, ConnectionIdx
<1>4. roomType[j] = map[roomName[j]].type BY <1>1 DEF Inv, Board
<1>5. asked = told + dropped BY DEF Inv, Turns, Owed
<1> QED BY <1>1, <1>2, <1>3, <1>4, <1>5 DEF Game!Move

LEMMA AskRefines == ASSUME Inv, AskTime PROVE Game!Ask
<1> USE DEF AskTime, Turn
<1>1. Loaded /\ roomName[Position] # Nobody BY AtRoom DEF Inv, Loaded
<1>2. UNCHANGED (IF Loaded THEN roomName[Position] ELSE Nobody)
  BY BoardKept DEF Loaded
<1>3. asked = told + dropped BY DEF Inv, Turns, Owed
<1> QED BY <1>1, <1>2, <1>3 DEF Game!Ask, gameVars

\* A request is dealt with when the thread tells the time, or cannot be.
LEMMA AnswerRefines == ASSUME Inv, GetTime \/ JoinAgain PROVE Game!Answer
<1> USE DEF GetTime, JoinAgain
<1>1. UNCHANGED (IF Loaded THEN roomName[Position] ELSE Nobody)
  BY BoardKept DEF Loaded
<1>2. Owed(1)
  BY SecondInv DEF Second, Inv, Turns, Running
<1>3. told' + dropped' = told + dropped + 1 BY DEF Inv, Turns
<1> QED BY <1>1, <1>2, <1>3 DEF Game!Answer, Owed, gameVars, Inv, Turns

\* The threads' other steps are their own affair.
LEMMA StutterRefines ==
  ASSUME Inv, \/ AssignIDToRoomNames \/ Lock \/ CreateThread \/ CreateFails
              \/ Unlock \/ Join \/ Win \/ SecondLocks \/ SecondUnlocks \/ UNCHANGED vars
  PROVE  UNCHANGED Game!vars
<1>1. CASE AssignIDToRoomNames
  BY <1>1 DEF AssignIDToRoomNames, Loaded, Game!vars
<1>2. CASE \/ Lock \/ CreateThread \/ CreateFails \/ Unlock \/ Join \/ Win
           \/ SecondLocks \/ SecondUnlocks \/ UNCHANGED vars
  <2> USE <1>2 DEF Lock, CreateThread, CreateFails, Unlock, Join, Win, SecondLocks,
                   SecondUnlocks, vars, gameVars, Turn
  <2>1. UNCHANGED (IF Loaded THEN roomName[Position] ELSE Nobody)
    BY BoardKept DEF Loaded, tables
  <2> QED BY <2>1 DEF Game!vars
<1> QED BY <1>1, <1>2

\* The game is a walk over the map of the directory, from the start room, over by reaching
\* the end room and by nothing else, in which each request for the time is dealt with once
\* and before the next input, whatever the two threads' interleaving and whichever creation fails.
THEOREM AdventureIsAWalk == Spec => IsWalk
<1>1. Inv /\ [Next]_vars => [Game!Next]_(Game!vars)
  <2> SUFFICES ASSUME Inv, [Next]_vars PROVE [Game!Next]_(Game!vars) OBVIOUS
  <2>1. CASE ReadRoomDirIntoStruct BY <2>1, ReadRefines DEF Game!Next
  <2>2. ASSUME NEW j \in Ids, Move(j) PROVE Game!Next
    <3>1. roomName[j] \in Names BY <2>2 DEF Inv, Board, Named, Move, Turn, Loaded
    <3> QED BY <2>2, <3>1, MoveRefines DEF Game!Next, Names
  <2>3. CASE AskTime BY <2>3, AskRefines DEF Game!Next
  <2>4. CASE GetTime \/ JoinAgain BY <2>4, AnswerRefines DEF Game!Next
  <2> QED BY <2>1, <2>2, <2>3, <2>4, StutterRefines DEF Next, Main, Second, Player
<1> QED BY <1>1, InitRefines, Invariant, PTL DEF Spec, IsWalk, Game!Spec
=============================================================================

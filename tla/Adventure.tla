----------------------------- MODULE Adventure -----------------------------
(***************************************************************************)
(* c/adventure_concurrency/mores.adventure.c: reads a directory of rooms   *)
(* into a table, then moves the player from room to room.  A second thread *)
(* tells the time: it waits for the mutex, which the main thread gives up  *)
(* only for a request, and is joined and created anew after each.          *)
(* Input that is neither "time" nor a connected room changes nothing.      *)
(***************************************************************************)
EXTENDS Integers, Sequences, FiniteSets, SequencesExt

CONSTANTS N,           \* number of rooms: 7 in the code
          Maps,        \* the directories: what the file of each room says
          MaxSteps,    \* bound: moves (pathTakenStr holds 256 characters)
          MaxAsks,     \* bound: requests for the time
          Nobody

Ids == 0..N - 1
Types == {"START_ROOM", "MID_ROOM", "END_ROOM"}

ASSUME NAssumption == N \in Nat \ {0, 1}
ASSUME MapsAssumption ==
    \A m \in Maps :
        /\ Cardinality(DOMAIN m) = N
        /\ \A r \in DOMAIN m : m[r].type \in Types /\ m[r].to \subseteq DOMAIN m \ {r}
        /\ \E r \in DOMAIN m : \A s \in DOMAIN m : m[s].type = "START_ROOM" <=> s = r
ASSUME BoundsAssumption == MaxSteps \in Nat /\ MaxAsks \in Nat
ASSUME NobodyAssumption == Nobody \notin {"main", "second"} /\ \A m \in Maps : Nobody \notin DOMAIN m

VARIABLES
    map,                                         \* the directory
    roomName, roomType, outBound, playerFlag,    \* roomData, by index
    pathTaken, gameFlag,
    pc, second,                                  \* main() and the second thread
    mutex,                                       \* who holds myMutex
    asked, told, dropped                         \* history: requests for the time
tables == <<roomName, roomType, outBound>>
vars == <<map, tables, playerFlag, pathTaken, gameFlag, pc, second, mutex, asked, told,
          dropped>>

Names == DOMAIN map
stepsTaken == Len(pathTaken)

Init ==
    /\ map \in Maps
    /\ roomName = [i \in Ids |-> Nobody] /\ roomType = [i \in Ids |-> "none"]
    /\ outBound = [i \in Ids |-> {}] /\ playerFlag = [i \in Ids |-> FALSE]
    /\ pathTaken = <<>> /\ gameFlag = TRUE
    /\ pc = "assign" /\ second = "none" /\ mutex = Nobody
    /\ asked = 0 /\ told = 0 /\ dropped = 0
-----------------------------------------------------------------------------
(* Reading the directory *)

\* readdir() gives the files in an order of its own.
AssignIDToRoomNames ==
    /\ pc = "assign"
    /\ roomName' \in {order \in [Ids -> Names] : \A r \in Names : \E i \in Ids : order[i] = r}
    /\ pc' = "read"
    /\ UNCHANGED <<map, roomType, outBound, playerFlag, pathTaken, gameFlag, second, mutex,
                   asked, told, dropped>>

ConnectionIdx(file) == {i \in Ids : roomName[i] \in file.to}

\* The files again, in the same order.
ReadRoomDirIntoStruct ==
    /\ pc = "read"
    /\ roomType' = [i \in Ids |-> map[roomName[i]].type]
    /\ playerFlag' = [i \in Ids |-> map[roomName[i]].type = "START_ROOM"]
    /\ outBound' = [i \in Ids |-> ConnectionIdx(map[roomName[i]])]
    /\ pc' = "lock"
    /\ UNCHANGED <<map, roomName, pathTaken, gameFlag, second, mutex, asked, told, dropped>>

(* The main thread *)

gameVars == <<map, tables, playerFlag, pathTaken, gameFlag>>

Lock ==
    /\ pc \in {"lock", "relock"}
    /\ mutex = Nobody
    /\ mutex' = "main"
    /\ pc' = IF pc = "lock" THEN "create" ELSE "recreate"
    /\ UNCHANGED <<gameVars, second, asked, told, dropped>>

CreateThread ==
    /\ pc \in {"create", "recreate"}
    /\ second' = "started"
    /\ pc' = "turn"
    /\ UNCHANGED <<gameVars, mutex, asked, told, dropped>>

\* Only main() looks at the error code.
CreateFails ==
    /\ pc \in {"create", "recreate"}
    /\ pc' = IF pc = "create" THEN "exited" ELSE "turn"
    /\ UNCHANGED <<gameVars, second, mutex, asked, told, dropped>>

\* The flags of all rooms but the last are looked at.
Flagged == {i \in 0..N - 2 : playerFlag[i]}
Position == IF Flagged = {} THEN N - 1 ELSE CHOOSE i \in Flagged : \A j \in Flagged : i <= j

FlagsAfter(j) == [playerFlag EXCEPT ![Position] = FALSE, ![j] = TRUE]

Turn == pc = "turn" /\ gameFlag

Move(j) ==
    /\ Turn /\ stepsTaken < MaxSteps
    /\ j \in outBound[Position]
    /\ playerFlag' = FlagsAfter(j)
    /\ pathTaken' = Append(pathTaken, roomName[j])
    /\ gameFlag' = (roomType[j] # "END_ROOM")
    /\ UNCHANGED <<map, tables, pc, second, mutex, asked, told, dropped>>

\* "time" is looked for once for each connection.
AskTime ==
    /\ Turn /\ asked < MaxAsks
    /\ outBound[Position] # {}
    /\ asked' = asked + 1
    /\ pc' = "unlock"
    /\ UNCHANGED <<gameVars, second, mutex, told, dropped>>

\* Seeded fault: the mutex is kept while the main thread waits.
KeepMutex ==
    /\ pc = "unlock"
    /\ pc' = "join"
    /\ UNCHANGED <<gameVars, second, mutex, asked, told, dropped>>
Unlock ==
    /\ pc = "unlock"
    /\ mutex' = Nobody
    /\ pc' = "join"
    /\ UNCHANGED <<gameVars, second, asked, told, dropped>>

Join ==
    /\ pc = "join"
    /\ second = "ended"
    /\ second' = "joined"
    /\ pc' = "relock"
    /\ UNCHANGED <<gameVars, mutex, asked, told, dropped>>

\* After a thread that could not be created the old one is joined a second time,
\* which is undefined: an error is returned or the program crashes.
JoinAgain ==
    /\ pc = "join"
    /\ second = "joined"
    /\ pc' \in {"relock", "crashed"}
    /\ dropped' = dropped + 1
    /\ UNCHANGED <<gameVars, second, mutex, asked, told>>

\* Victory: main() returns, which ends the second thread wherever it is.
Win ==
    /\ pc = "turn" /\ ~gameFlag
    /\ pc' = "exited"
    /\ UNCHANGED <<gameVars, second, mutex, asked, told, dropped>>

(* getTimeWithThread() *)

Running == pc \notin {"exited", "crashed"}

\* Seeded fault: the thread does not wait for the mutex.
SecondBarges ==
    /\ Running /\ second = "started"
    /\ second' = "getTime"
    /\ UNCHANGED <<gameVars, pc, mutex, asked, told, dropped>>
SecondLocks ==
    /\ Running /\ second = "started"
    /\ mutex = Nobody
    /\ mutex' = "second"
    /\ second' = "getTime"
    /\ UNCHANGED <<gameVars, pc, asked, told, dropped>>

\* Printed, and written to currentTime.txt.
GetTime ==
    /\ Running /\ second = "getTime"
    /\ told' = told + 1
    /\ second' = "told"
    /\ UNCHANGED <<gameVars, pc, mutex, asked, dropped>>

SecondUnlocks ==
    /\ Running /\ second = "told"
    /\ mutex' = Nobody
    /\ second' = "ended"
    /\ UNCHANGED <<gameVars, pc, asked, told, dropped>>
-----------------------------------------------------------------------------
Main == \/ AssignIDToRoomNames \/ ReadRoomDirIntoStruct
        \/ Lock \/ CreateThread \/ CreateFails \/ Unlock \/ Join \/ JoinAgain \/ Win
Second == SecondLocks \/ GetTime \/ SecondUnlocks
Player == (\E j \in Ids : Move(j)) \/ AskTime

Next == Main \/ Second \/ Player
Spec == Init /\ [][Next]_vars
\* Both threads run; the player need not type anything.
FairSpec == Spec /\ WF_vars(Main) /\ WF_vars(Second)
-----------------------------------------------------------------------------
\* Every variable holds a value of its C type; outBound only indices of the table.
TypeOK ==
    /\ map \in Maps
    /\ roomName \in [Ids -> Names \cup {Nobody}]
    /\ roomType \in [Ids -> Types \cup {"none"}]
    /\ outBound \in [Ids -> SUBSET Ids] /\ playerFlag \in [Ids -> BOOLEAN]
    /\ pathTaken \in Seq(Names) /\ stepsTaken <= MaxSteps /\ gameFlag \in BOOLEAN
    /\ pc \in {"assign", "read", "lock", "create", "turn", "unlock", "join", "relock",
               "recreate", "exited", "crashed"}
    /\ second \in {"none", "started", "getTime", "told", "ended", "joined"}
    /\ mutex \in {Nobody, "main", "second"}
    /\ {asked, told, dropped} \subseteq 0..MaxAsks

Loaded == pc \notin {"assign", "read"}
StartRoom == CHOOSE r \in Names : map[r].type = "START_ROOM"

\* The adventure is a walk over the map of the directory, ended by the end room and by
\* nothing else, in which each request for the time is dealt with before the next input.
Game == INSTANCE GameSpec WITH
            Nowhere <- Nobody,
            at <- IF Loaded THEN roomName[Position] ELSE Nobody,
            path <- pathTaken,
            over <- ~gameFlag,
            answered <- told + dropped
IsWalk == Game!Spec

\* The player is prompted again after each request, unless the program has crashed:
\* the two threads never wait for each other.
Served == pc = "unlock" ~> pc \in {"turn", "crashed"}
=============================================================================

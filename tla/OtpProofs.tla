------------------------------ MODULE OtpProofs ------------------------------
(***************************************************************************)
(* Theorems about the otp programs.                                        *)
(*                                                                         *)
(* The daemon, for every set of clients, users and pids: mailboxes are     *)
(* private, no child is left out of the count, mail is sent oldest first,  *)
(* and what is lost is lost in one of the two ways that the code has.      *)
(*                                                                         *)
(* The cipher: for every line, key and value the uninitialised `numeric'   *)
(* may hold, a sound message is stored whole and decrypted with its key is *)
(* itself again, and of whatever else is let through all but the last      *)
(* character survives.  The checks of encrypt(), the arithmetic modulo 27, *)
(* the newline of a key that is too short and the commas that strtok()     *)
(* looks for have to agree for that.                                       *)
(***************************************************************************)
EXTENDS OtpServer, OtpCipher, FiniteSetTheorems, SequenceTheorems, WellFoundedInduction, TLAPS

-----------------------------------------------------------------------------
(* The daemon *)

\* Every variable keeps its type through every step of daemon, handler and children.
LEMMA InitTypeOK == Init => TypeOK
<1> SUFFICES ASSUME Init PROVE TypeOK OBVIOUS
<1>1. /\ request \in [Clients -> Request] /\ now \in Nat
      /\ fdlimit \in Nat /\ stopsLeft \in Nat
  <2>1. PICK s \in Scenarios : /\ request = s.request /\ now = s.begin
                                /\ fdlimit = s.fdlimit /\ stopsLeft = s.stops
    BY DEF Init
  <2>2. s \in [request : [Clients -> Request], begin : Nat \ {0}, fdlimit : Nat, stops : Nat]
    BY ScenariosAssumption
  <2> QED BY <2>1, <2>2
<1>2. request \in [Clients -> Request] => TypeOK
  BY <1>1 DEF Init, TypeOK, Ppcs, Cpcs, Empty, NoFile
<1> QED BY <1>1, <1>2

LEMMA ParentTypeOK == TypeOK /\ Parent => TypeOK'
<1> SUFFICES ASSUME TypeOK, Parent PROVE TypeOK' OBVIOUS
<1> USE DEF TypeOK, Ppcs, Cpcs, clientVars, childVars, walkVars, stopVars, fileVars, history
<1>1. ASSUME NEW c \in Clients, NEW p \in Pids, Accept(c, p) PROVE TypeOK'
  BY <1>1 DEF Accept, Main
<1>2. ASSUME NEW c \in Clients, ForkFails(c) PROVE TypeOK'
  BY <1>2 DEF ForkFails, Main
<1>3. CASE AcceptFails BY <1>3 DEF AcceptFails, Main
<1>4. CASE LoadCount BY <1>4 DEF LoadCount, Main
<1>5. CASE StoreCount BY <1>5 DEF StoreCount, Main
<1>6. CASE CheckLimit BY <1>6 DEF CheckLimit, Main
<1>7. ASSUME NEW p \in Pids, WaitReaps(p) PROVE TypeOK'
  BY <1>7 DEF WaitReaps, Main
<1>8. CASE WaitFindsNone BY <1>8 DEF WaitFindsNone, Main
<1> QED BY <1>1, <1>2, <1>3, <1>4, <1>5, <1>6, <1>7, <1>8 DEF Parent

LEMMA HandlerTypeOK == TypeOK /\ Handler => TypeOK'
<1> SUFFICES ASSUME TypeOK, Handler PROVE TypeOK' OBVIOUS
<1> USE DEF TypeOK, Ppcs, Cpcs, clientVars, parentVars, childVars, walkVars, stopVars, fileVars,
            history
<1>1. CASE HandlerEnter BY <1>1 DEF HandlerEnter
<1>2. ASSUME NEW p \in Pids, HandlerReap(p) PROVE TypeOK'
  BY <1>2 DEF HandlerReap, Decremented
<1>3. ASSUME NEW p \in Pids, HandlerStop(p) PROVE TypeOK'
  BY <1>3 DEF HandlerStop, Decremented
<1>4. CASE HandlerReturn BY <1>4 DEF HandlerReturn
<1> QED BY <1>1, <1>2, <1>3, <1>4 DEF Handler

-----------------------------------------------------------------------------
\* The initial state: no child, no file, no reply.
LEMMA InitOwnInv == Init => OwnInv
<1> SUFFICES ASSUME Init PROVE OwnInv OBVIOUS
<1>1. TypeOK BY InitTypeOK
<1>2. ChildTyped BY DEF Init, ChildTyped, GetPcs
<1>3. MailboxOwned BY DEF Init, MailboxOwned
<1>4. OnlyOwnMessages
  <2>1. \A c, m \in Clients : reply[c] = "none"
    BY DEF Init
  <2> QED BY <2>1, ClientsAssumption DEF OnlyOwnMessages
<1> QED BY <1>1, <1>2, <1>3, <1>4 DEF OwnInv

\* The steps of main() start a child in "recv" and touch no file and no reply.
LEMMA ParentOwnInv == OwnInv /\ Parent => OwnInv'
<1> SUFFICES ASSUME OwnInv, Parent PROVE OwnInv' OBVIOUS
<1>1. TypeOK' BY ParentTypeOK DEF OwnInv
<1>2. MailboxOwned' /\ OnlyOwnMessages'
  BY DEF OwnInv, MailboxOwned, OnlyOwnMessages, Parent, Accept, ForkFails, AcceptFails,
         LoadCount, StoreCount, CheckLimit, WaitReaps, WaitFindsNone, clientVars,
         fileVars
<1>3. ChildTyped'
  <2> USE DEF OwnInv, ChildTyped, GetPcs, User, TypeOK, clientVars, childVars, walkVars, fileVars
  <2>1. ASSUME NEW c \in Clients, NEW p \in Pids, Accept(c, p) PROVE ChildTyped'
    BY <2>1 DEF Accept
  <2>2. ASSUME NEW p \in Pids, WaitReaps(p) PROVE ChildTyped'
    BY <2>2 DEF WaitReaps
  <2>3. CASE UNCHANGED <<request, childVars>>
    BY <2>3
  <2> QED BY <2>1, <2>2, <2>3 DEF Parent, ForkFails, AcceptFails, LoadCount, StoreCount,
             CheckLimit, WaitFindsNone
<1> QED BY <1>1, <1>2, <1>3 DEF OwnInv

\* The handler frees pids and changes the count.
LEMMA HandlerOwnInv == OwnInv /\ Handler => OwnInv'
<1> SUFFICES ASSUME OwnInv, Handler PROVE OwnInv' OBVIOUS
<1>1. TypeOK' BY HandlerTypeOK DEF OwnInv
<1>2. MailboxOwned' /\ OnlyOwnMessages'
  BY DEF OwnInv, MailboxOwned, OnlyOwnMessages, Handler, HandlerEnter, HandlerReap,
         HandlerStop, HandlerReturn, clientVars, fileVars
<1>3. ChildTyped'
  <2> USE DEF OwnInv, ChildTyped, GetPcs, User, TypeOK, clientVars, childVars, walkVars
  <2>1. ASSUME NEW p \in Pids, HandlerReap(p) PROVE ChildTyped'
    BY <2>1 DEF HandlerReap
  <2>2. CASE UNCHANGED <<request, childVars>>
    BY <2>2
  <2> QED BY <2>1, <2>2 DEF Handler, HandlerEnter, HandlerStop, HandlerReturn
<1> QED BY <1>1, <1>2, <1>3 DEF OwnInv

\* A child writes only its own message, into its own user's mailbox, and sends only
\* what it read there.
LEMMA ChildOwnInv == ASSUME OwnInv, NEW p \in Pids, Child(p) PROVE OwnInv'
<1>1. /\ serving[p] \in Clients /\ User(p) \in Users
      /\ request[serving[p]] \in Request
  BY DEF OwnInv, TypeOK, ChildTyped, Child, Running, Receive, ReceiveBad, PostCreate,
         PostFlush, GetScan, GetStat, GetAccess, GetNothing, GetOpen, GetCrash, GetRead,
         GetRemove, Reply, User, Request
<1>2. \A q \in Pids : <<User(p), q>> \in Names
  BY <1>1 DEF Names
<1> USE <1>1, <1>2 DEF Running, GoTo, Exit
<1>3. CASE Receive(p)
  <2> USE <1>3 DEF Receive, clientVars, parentVars, childVars, walkVars, stopVars, fileVars, history
  <2>1. TypeOK'
    BY DEF OwnInv, TypeOK, Cpcs, NextStep
  <2>2. ChildTyped'
    <3>1. request[serving[p]].op \in Ops \ {"BAD"}
      BY DEF Request
    <3> QED BY <3>1 DEF OwnInv, TypeOK, ChildTyped, GetPcs, User, NextStep, Ops
  <2>3. MailboxOwned'
    BY DEF OwnInv, MailboxOwned
  <2>4. OnlyOwnMessages'
    BY DEF OwnInv, OnlyOwnMessages
  <2> QED BY <2>1, <2>2, <2>3, <2>4 DEF OwnInv
<1>4. CASE ReceiveBad(p)
  <2> USE <1>4 DEF ReceiveBad, clientVars, parentVars, childVars, walkVars, stopVars, fileVars, history
  <2>1. TypeOK'
    BY DEF OwnInv, TypeOK, Cpcs
  <2>2. ChildTyped'
    BY DEF OwnInv, TypeOK, ChildTyped, GetPcs, User
  <2>3. MailboxOwned'
    BY DEF OwnInv, MailboxOwned
  <2>4. OnlyOwnMessages'
    BY DEF OwnInv, OnlyOwnMessages
  <2> QED BY <2>1, <2>2, <2>3, <2>4 DEF OwnInv
<1>5. CASE PostCreate(p)
  <2> USE <1>5 DEF PostCreate, clientVars, parentVars, childVars, walkVars, stopVars, fileVars, history
  <2> DEFINE inode == IF dir[<<User(p), p>>] = NoFile THEN serving[p] ELSE dir[<<User(p), p>>]
  <2>0. inode \in Clients /\ request[inode].user = User(p)
    BY DEF OwnInv, TypeOK, MailboxOwned, NoFile, User
  <2>9. /\ dir' = [dir EXCEPT ![<<User(p), p>>] = inode]
        /\ fd' = [fd EXCEPT ![p] = inode]
        /\ content' = [content EXCEPT ![inode] = Empty]
        /\ mtime' = [mtime EXCEPT ![inode] = now]
    BY DEF FileName
  <2> HIDE DEF inode
  <2>1. TypeOK'
    <3>1. /\ dir' \in [Names -> Clients \cup {None}] /\ fd' \in [Pids -> Clients \cup {None}]
          /\ content' \in [Clients -> Clients \cup {None}] /\ mtime' \in [Clients -> Nat]
      <4>1. /\ dir \in [Names -> Clients \cup {None}] /\ fd \in [Pids -> Clients \cup {None}]
            /\ content \in [Clients -> Clients \cup {None}] /\ mtime \in [Clients -> Nat]
            /\ now \in Nat
        BY DEF OwnInv, TypeOK
      <4>2. dir' \in [Names -> Clients \cup {None}] BY <4>1, <2>0, <2>9
      <4>3. fd' \in [Pids -> Clients \cup {None}] BY <4>1, <2>0, <2>9
      <4>4. content' \in [Clients -> Clients \cup {None}] BY <4>1, <2>0, <2>9 DEF Empty
      <4>5. mtime' \in [Clients -> Nat] BY <4>1, <2>0, <2>9
      <4> QED BY <4>2, <4>3, <4>4, <4>5
    <3>2. cpc' \in [Pids -> Cpcs] /\ createdAt' \in [Clients -> Nat]
      BY DEF OwnInv, TypeOK, Cpcs
    <3> HIDE <2>9
    <3> QED BY <3>1, <3>2 DEF OwnInv, TypeOK
  <2>2. ChildTyped'
    BY <2>0, <2>9 DEF OwnInv, TypeOK, ChildTyped, GetPcs, User
  <2>3. MailboxOwned'
    BY <2>0, <2>9 DEF OwnInv, TypeOK, MailboxOwned, Names
  <2>4. OnlyOwnMessages'
    BY DEF OwnInv, OnlyOwnMessages
  <2> QED BY <2>1, <2>2, <2>3, <2>4 DEF OwnInv
<1>6. CASE PostFlush(p)
  <2> USE <1>6 DEF PostFlush, clientVars, parentVars, childVars, walkVars, stopVars, fileVars, history
  <2>1. TypeOK'
    BY DEF OwnInv, TypeOK, ChildTyped, Cpcs
  <2>2. ChildTyped'
    BY DEF OwnInv, TypeOK, ChildTyped, GetPcs, User
  <2>3. MailboxOwned'
    <3>1. /\ fd[p] \in Clients /\ request[fd[p]].user = request[serving[p]].user
          /\ request[serving[p]].op = "POST"
      BY DEF OwnInv, ChildTyped, User
    <3> QED BY <3>1 DEF OwnInv, TypeOK, MailboxOwned
  <2>4. OnlyOwnMessages'
    BY DEF OwnInv, OnlyOwnMessages
  <2> QED BY <2>1, <2>2, <2>3, <2>4 DEF OwnInv
<1>7. CASE GetScan(p)
  <2> USE <1>7 DEF GetScan, clientVars, parentVars, childVars, walkVars, stopVars, fileVars, history
  <2>1. TypeOK'
    <3>1. FilesOf(User(p)) \subseteq Clients
      <4>1. serving[p] \in Clients BY DEF OwnInv, ChildTyped, Running
      <4>2. User(p) \in Users BY <4>1 DEF OwnInv, TypeOK, Request, User
      <4>3. \A q \in Pids : dir[<<User(p), q>>] \in Clients \cup {None}
        BY <4>2 DEF OwnInv, TypeOK, Names
      <4> QED BY <4>3 DEF FilesOf, NoFile
    <3> QED BY <3>1 DEF OwnInv, TypeOK, Cpcs
  <2>2. ChildTyped'
    BY DEF OwnInv, TypeOK, ChildTyped, GetPcs, User
  <2>3. MailboxOwned'
    BY DEF OwnInv, MailboxOwned
  <2>4. OnlyOwnMessages'
    BY DEF OwnInv, OnlyOwnMessages
  <2> QED BY <2>1, <2>2, <2>3, <2>4 DEF OwnInv
<1>15. ASSUME NEW q \in Pids, GetStat(p, q) PROVE OwnInv'
  <2> USE <1>15 DEF GetStat, clientVars, parentVars, childVars, walkVars, stopVars, fileVars, history
  <2> DEFINE f == dir[<<User(p), q>>]
  <2>0. f # NoFile => mtime[f] \in Nat
    BY DEF OwnInv, TypeOK, NoFile
  <2>5. /\ oldest' \in [Pids -> Pids \cup {None}] /\ least' \in [Pids -> Nat]
        /\ ahead' \in [Pids -> SUBSET Pids] /\ cpc' \in [Pids -> Cpcs]
    <3>1. cpc' \in [Pids -> Cpcs] BY DEF OwnInv, TypeOK, Cpcs
    <3>2. CASE f # NoFile /\ Older(p, f) BY <2>0, <3>1, <3>2 DEF OwnInv, TypeOK
    <3>3. CASE ~(f # NoFile /\ Older(p, f)) BY <3>1, <3>3 DEF OwnInv, TypeOK
    <3> QED BY <3>2, <3>3
  <2>1. TypeOK'
    BY <2>5 DEF OwnInv, TypeOK
  <2>2. ChildTyped'
    <3>1. \A r \in Pids \ {p} : oldest'[r] = oldest[r]
      BY DEF OwnInv, TypeOK
    <3> QED BY <3>1 DEF OwnInv, TypeOK, ChildTyped, GetPcs, User
  <2>3. MailboxOwned'
    BY DEF OwnInv, MailboxOwned
  <2>4. OnlyOwnMessages'
    BY DEF OwnInv, OnlyOwnMessages
  <2> QED BY <2>1, <2>2, <2>3, <2>4 DEF OwnInv
<1>8. CASE GetAccess(p)
  <2> USE <1>8 DEF GetAccess, clientVars, parentVars, childVars, walkVars, stopVars, fileVars, history
  <2>1. TypeOK'
    BY DEF OwnInv, TypeOK, Cpcs
  <2>2. ChildTyped'
    <3>1. oldest[p] \in Pids
      BY DEF OwnInv, TypeOK, Found
    <3> QED BY <3>1 DEF OwnInv, TypeOK, ChildTyped, GetPcs, User
  <2>3. MailboxOwned'
    BY DEF OwnInv, MailboxOwned
  <2>4. OnlyOwnMessages'
    BY DEF OwnInv, OnlyOwnMessages
  <2> QED BY <2>1, <2>2, <2>3, <2>4 DEF OwnInv
<1>9. CASE GetNothing(p)
  <2> USE <1>9 DEF GetNothing, clientVars, parentVars, childVars, walkVars, stopVars, fileVars, history
  <2>1. TypeOK'
    BY DEF OwnInv, TypeOK, Cpcs, Send
  <2>2. ChildTyped'
    BY DEF OwnInv, TypeOK, ChildTyped, GetPcs, User
  <2>3. MailboxOwned'
    BY DEF OwnInv, MailboxOwned
  <2>4. OnlyOwnMessages'
    <3>1. \A c \in Clients : reply'[c] \in Clients => reply'[c] = reply[c]
      BY ClientsAssumption DEF OwnInv, TypeOK, Send
    <3> QED BY <3>1 DEF OwnInv, TypeOK, OnlyOwnMessages
  <2> QED BY <2>1, <2>2, <2>3, <2>4 DEF OwnInv
<1>10. CASE GetOpen(p)
  <2> USE <1>10 DEF GetOpen, clientVars, parentVars, childVars, walkVars, stopVars, fileVars, history
  <2>1. TypeOK'
    BY DEF OwnInv, TypeOK, ChildTyped, Cpcs
  <2>2. ChildTyped'
    <3>1. /\ oldest[p] \in Pids
          /\ dir[<<User(p), oldest[p]>>] \in Clients
          /\ request[dir[<<User(p), oldest[p]>>]].user = User(p)
      BY DEF OwnInv, TypeOK, ChildTyped, MailboxOwned, Found, NoFile
    <3> QED BY <3>1 DEF OwnInv, TypeOK, ChildTyped, GetPcs, User
  <2>3. MailboxOwned'
    BY DEF OwnInv, MailboxOwned
  <2>4. OnlyOwnMessages'
    BY DEF OwnInv, OnlyOwnMessages
  <2> QED BY <2>1, <2>2, <2>3, <2>4 DEF OwnInv
<1>11. CASE GetCrash(p)
  <2> USE <1>11 DEF GetCrash, clientVars, parentVars, childVars, walkVars, stopVars, fileVars, history
  <2>1. TypeOK'
    BY DEF OwnInv, TypeOK, Cpcs
  <2>2. ChildTyped'
    BY DEF OwnInv, TypeOK, ChildTyped, GetPcs, User
  <2>3. MailboxOwned'
    BY DEF OwnInv, MailboxOwned
  <2>4. OnlyOwnMessages'
    BY DEF OwnInv, OnlyOwnMessages
  <2> QED BY <2>1, <2>2, <2>3, <2>4 DEF OwnInv
<1>12. CASE GetRead(p)
  <2> USE <1>12 DEF GetRead, clientVars, parentVars, childVars, walkVars, stopVars, fileVars, history
  <2>0. /\ fd[p] \in Clients /\ request[fd[p]].user = request[serving[p]].user
        /\ request[serving[p]].op = "GET"
        /\ content[fd[p]] \in Clients \cup {None}
    BY DEF OwnInv, TypeOK, ChildTyped, GetPcs, User
  <2>1. TypeOK'
    BY <2>0 DEF OwnInv, TypeOK, Cpcs, Send, Empty
  <2>2. ChildTyped'
    BY DEF OwnInv, TypeOK, ChildTyped, GetPcs, User
  <2>3. MailboxOwned'
    BY DEF OwnInv, MailboxOwned
  <2>4. OnlyOwnMessages'
    <3>1. CASE content[fd[p]] = Empty
      BY <3>1 DEF OwnInv, OnlyOwnMessages
    <3>2. CASE content[fd[p]] # Empty
      <4> DEFINE m == content[fd[p]]
      <4>1. /\ request[m].op = "POST"
            /\ request[m].user = request[serving[p]].user
        BY <2>0, <3>2 DEF OwnInv, MailboxOwned
      <4>2. \A c \in Clients : reply'[c] = reply[c] \/ (c = serving[p] /\ reply'[c] = m)
        BY <3>2 DEF OwnInv, TypeOK, Send
      <4> HIDE DEF m
      <4> QED BY <2>0, <4>1, <4>2 DEF OwnInv, OnlyOwnMessages
    <3> QED BY <3>1, <3>2
  <2> QED BY <2>1, <2>2, <2>3, <2>4 DEF OwnInv
<1>13. CASE GetRemove(p)
  <2> USE <1>13 DEF GetRemove, clientVars, parentVars, childVars, walkVars, stopVars, fileVars, history
  <2>1. TypeOK'
    BY DEF OwnInv, TypeOK, ChildTyped, Cpcs, NoFile
  <2>2. ChildTyped'
    BY DEF OwnInv, TypeOK, ChildTyped, GetPcs, User
  <2>3. MailboxOwned'
    BY DEF OwnInv, TypeOK, MailboxOwned
  <2>4. OnlyOwnMessages'
    BY DEF OwnInv, OnlyOwnMessages
  <2> QED BY <2>1, <2>2, <2>3, <2>4 DEF OwnInv
<1>14. CASE Reply(p)
  <2> USE <1>14 DEF Reply, clientVars, parentVars, childVars, walkVars, stopVars, fileVars, history
  <2>1. TypeOK'
    BY DEF OwnInv, TypeOK, Cpcs, Send
  <2>2. ChildTyped'
    BY DEF OwnInv, TypeOK, ChildTyped, GetPcs, User
  <2>3. MailboxOwned'
    BY DEF OwnInv, MailboxOwned
  <2>4. OnlyOwnMessages'
    <3>1. \A c \in Clients : reply'[c] \in Clients => reply'[c] = reply[c]
      BY ClientsAssumption DEF OwnInv, TypeOK, Send
    <3> QED BY <3>1 DEF OwnInv, TypeOK, OnlyOwnMessages
  <2> QED BY <2>1, <2>2, <2>3, <2>4 DEF OwnInv
<1> QED BY <1>3, <1>4, <1>5, <1>6, <1>7, <1>8, <1>9, <1>10, <1>11, <1>12, <1>13, <1>14, <1>15 DEF Child

\* Signals and the clock change nothing OwnInv speaks of.
LEMMA OtherOwnInv ==
  ASSUME OwnInv, \/ Tick \/ \E c \in Clients : Connect(c)
                 \/ \E p \in Pids : Stop(p) \/ Continue(p)
                 \/ UNCHANGED vars
  PROVE  OwnInv'
<1> USE DEF vars, clientVars, parentVars, childVars, walkVars, stopVars, fileVars, history
<1>1. TypeOK'
  <2> USE DEF OwnInv, TypeOK
  <2>1. CASE Tick BY <2>1 DEF Tick
  <2>2. ASSUME NEW c \in Clients, Connect(c) PROVE TypeOK'
    BY <2>2 DEF Connect
  <2>3. ASSUME NEW p \in Pids, Stop(p) PROVE TypeOK'
    BY <2>3 DEF Stop
  <2>4. ASSUME NEW p \in Pids, Continue(p) PROVE TypeOK'
    BY <2>4 DEF Continue
  <2>5. CASE UNCHANGED vars BY <2>5
  <2> QED BY <2>1, <2>2, <2>3, <2>4, <2>5
<1>2. ChildTyped' /\ MailboxOwned' /\ OnlyOwnMessages'
  BY DEF OwnInv, ChildTyped, MailboxOwned, OnlyOwnMessages, Tick, Connect, Stop, Continue,
         User
<1> QED BY <1>1, <1>2 DEF OwnInv

LEMMA OwnInvariant == Spec => []OwnInv
<1>1. Init => OwnInv BY InitOwnInv
<1>2. OwnInv /\ [Next]_vars => OwnInv'
  BY ParentOwnInv, HandlerOwnInv, ChildOwnInv, OtherOwnInv DEF Next
<1> QED BY <1>1, <1>2, PTL DEF Spec

\* Every variable of the daemon, its children and the file system keeps its type.
THEOREM TypeCorrect == Spec => []TypeOK
  BY OwnInvariant, PTL DEF OwnInv

\* No interleaving of children ever sends a client a message of another user's
\* mailbox, or anything to a client that posted.
THEOREM MailboxesArePrivate == Spec => []OnlyOwnMessages
  BY OwnInvariant, PTL DEF OwnInv
-----------------------------------------------------------------------------
(* The count *)

\* A child that begins or ends moves the number of those not reaped by one.
LEMMA UnreapedSize ==
  ASSUME TypeOK
  PROVE  IsFiniteSet(Unreaped) /\ Cardinality(Unreaped) \in Nat
  BY PidsAssumption, FS_Subset, FS_CardinalityType DEF Unreaped

LEMMA Reaped ==
  ASSUME TypeOK, NEW p \in Pids, cpc[p] # "free", cpc' = [cpc EXCEPT ![p] = "free"]
  PROVE  Cardinality(Unreaped') = Cardinality(Unreaped) - 1
<1>1. Unreaped' = Unreaped \ {p} /\ p \in Unreaped
  BY DEF TypeOK, Unreaped
<1> QED BY <1>1, UnreapedSize, FS_RemoveElement

LEMMA Forked ==
  ASSUME TypeOK, NEW p \in Pids, cpc[p] = "free", cpc' = [cpc EXCEPT ![p] = "recv"]
  PROVE  Cardinality(Unreaped') = Cardinality(Unreaped) + 1
<1>1. Unreaped' = Unreaped \cup {p} /\ p \notin Unreaped
  BY DEF TypeOK, Unreaped
<1> QED BY <1>1, UnreapedSize, FS_AddElement

\* No step of a running child begins one or reaps one.
LEMMA ChildKeepsUnreaped ==
  ASSUME TypeOK, NEW p \in Pids, Child(p)
  PROVE  Unreaped' = Unreaped /\ UNCHANGED <<ppc, process_count, loaded, stopsCounted>>
<1>1. cpc[p] # "free" /\ \E next \in Cpcs \ {"free"} : cpc' = [cpc EXCEPT ![p] = next]
  BY DEF Child, Running, GoTo, Exit, NextStep, Receive, ReceiveBad, PostCreate, PostFlush,
         GetScan, GetStat, GetAccess, GetNothing, GetOpen, GetCrash, GetRead, GetRemove,
         Reply, Cpcs
<1>2. Unreaped' = Unreaped
  BY <1>1 DEF TypeOK, Unreaped
<1> QED BY <1>2 DEF Child, Receive, ReceiveBad, PostCreate, PostFlush, GetScan, GetStat,
            GetAccess, GetNothing, GetOpen, GetCrash, GetRead, GetRemove, Reply, parentVars, stopVars

LEMMA CountStep == TypeOK /\ TypeOK' /\ CountInv /\ [Next]_vars => CountInv'
<1> SUFFICES ASSUME TypeOK, TypeOK', CountInv, [Next]_vars PROVE CountInv' OBVIOUS
<1> DEFINE n == Cardinality(Unreaped)
<1>0. n \in Nat BY UnreapedSize
<1> USE <1>0 DEF CountInv, CountNeverUnder, Counting, Main
<1>1. ASSUME NEW c \in Clients, NEW p \in Pids, Accept(c, p) PROVE CountInv'
  <2>1. Cardinality(Unreaped') = n + 1 BY <1>1, Forked DEF Accept
  <2> QED BY <1>1, <2>1 DEF Accept, TypeOK, stopVars
<1>2. ASSUME NEW p \in Pids, WaitReaps(p) PROVE CountInv'
  <2>1. Cardinality(Unreaped') = n - 1 BY <1>2, Reaped DEF WaitReaps
  <2> QED BY <1>2, <2>1 DEF WaitReaps, TypeOK, stopVars
<1>3. ASSUME NEW p \in Pids, HandlerReap(p) PROVE CountInv'
  <2>1. Cardinality(Unreaped') = n - 1 BY <1>3, Reaped DEF HandlerReap
  <2> QED BY <1>3, <2>1 DEF HandlerReap, Decremented, TypeOK, stopVars
<1>4. ASSUME NEW p \in Pids, Child(p) PROVE CountInv'
  BY <1>4, ChildKeepsUnreaped
<1>5. CASE LoadCount
  BY <1>5 DEF LoadCount, TypeOK, stopVars, childVars, walkVars, Unreaped
<1>6. CASE StoreCount
  BY <1>6 DEF StoreCount, TypeOK, stopVars, childVars, walkVars, Unreaped
<1>7. ASSUME NEW p \in Pids, HandlerStop(p) PROVE CountInv'
  BY <1>7 DEF HandlerStop, Decremented, TypeOK, childVars, walkVars, Unreaped
<1>8. CASE \/ \E c \in Clients : ForkFails(c)
           \/ AcceptFails \/ CheckLimit \/ WaitFindsNone
  <2>1. UNCHANGED <<Unreaped, process_count, stopsCounted>>
    BY <1>8 DEF ForkFails, AcceptFails, CheckLimit, WaitFindsNone, childVars, walkVars, stopVars,
                Unreaped
  <2>2. ppc' # "store" /\ (ppc' # "load" => ppc \notin {"load", "store"})
    BY <1>8 DEF ForkFails, AcceptFails, CheckLimit, WaitFindsNone
  <2> QED BY <2>1, <2>2 DEF TypeOK
<1>9. CASE \/ Tick \/ HandlerEnter \/ HandlerReturn
           \/ \E c \in Clients : Connect(c)
           \/ \E p \in Pids : Stop(p) \/ Continue(p)
           \/ UNCHANGED vars
  BY <1>9 DEF Tick, HandlerEnter, HandlerReturn, Connect, Stop, Continue, vars, TypeOK,
              parentVars, childVars, walkVars, stopVars, Unreaped
<1> QED BY <1>1, <1>2, <1>3, <1>4, <1>5, <1>6, <1>7, <1>8, <1>9 DEF Next, Parent, Handler

\* The daemon never believes it serves fewer clients than it has children, but for
\* the stops its handler took for ends: whatever interleaving of main() and handler.
THEOREM CountIsAnUpperBound == Spec => []CountNeverUnder
<1>1. Init => CountInv
  <2> SUFFICES ASSUME Init PROVE CountInv OBVIOUS
  <2>1. /\ ppc = "accept" /\ process_count = 0 /\ stopsCounted = 0
        /\ \A p \in Pids : cpc[p] = "free"
    BY DEF Init
  <2>2. Unreaped = {} BY <2>1 DEF Unreaped
  <2> HIDE DEF Init
  <2> QED BY <2>1, <2>2, FS_EmptySet DEF CountInv, CountNeverUnder, Counting
<1>2. TypeOK /\ TypeOK' /\ CountInv /\ [Next]_vars => CountInv'
  BY CountStep
<1>3. CountInv => CountNeverUnder
  BY DEF CountInv
<1> QED BY <1>1, <1>2, <1>3, TypeCorrect, PTL DEF Spec
-----------------------------------------------------------------------------
(* What becomes of a message.  A file name is a user and a pid, so the one thing that can *)
(* come between a message and its reader is another post that is given the same name.     *)

Posted(e, u, q) == request[e].op = "POST" /\ request[e].user = u /\ pidOf[e] = q

BeforeSend == {"recv", "create", "flush", "scan", "walk", "access", "open", "read"}
AfterWalk == {"access", "open", "read", "remove"}
AfterScan == {"walk"} \cup AfterWalk

\* A client is served by one child, and has no reply before that child sends one.
Served ==
    /\ \A c \in Clients : client[c] # "accepted" =>
                             pidOf[c] = None /\ reply[c] = "none" /\ createdAt[c] = 0
    /\ \A p \in Pids : cpc[p] # "free" => pidOf[serving[p]] = p /\ client[serving[p]] = "accepted"
    /\ \A p \in Pids : cpc[p] \in BeforeSend => reply[serving[p]] = "none"
    /\ \A p \in Pids : cpc[p] \in {"recv", "create"} => createdAt[serving[p]] = 0

\* The clock.
Timed == /\ now > 0
         /\ \A c \in Clients : createdAt[c] <= now /\ mtime[c] <= now

\* Whose a name, an inode, a content and a reply are.
Traced ==
    /\ \A n \in Names : dir[n] # NoFile =>
                           Posted(dir[n], n[1], n[2]) /\ createdAt[dir[n]] > 0
    /\ \A p \in Pids : cpc[p] = "flush" =>
                          Posted(fd[p], User(p), p) /\ createdAt[serving[p]] > 0
    /\ \A p \in Pids : (cpc[p] \in AfterScan /\ oldest[p] # None) =>
                          \E e \in Clients : Posted(e, User(p), oldest[p]) /\ createdAt[e] > 0
    /\ \A p \in Pids : cpc[p] \in {"read", "remove"} => Posted(fd[p], User(p), oldest[p])
    /\ \A e \in Clients : content[e] # Empty =>
          /\ request[content[e]] = request[e] /\ pidOf[content[e]] = pidOf[e]
          /\ pidOf[e] # None /\ createdAt[content[e]] > 0
    /\ \A c \in Clients : reply[c] \in Clients => createdAt[reply[c]] > 0

Unique(m) == request[m].op = "POST" /\ ~NameReused(m)
InMailbox(m) == \E q \in Pids : dir[<<request[m].user, q>>] = m

\* A message whose name is its own is there once it was flushed, until a reader that had
\* opened its file, and read it or found it empty, removes it.
Kept ==
    \A m \in Clients : Unique(m) =>
        /\ createdAt[m] > 0 => InMailbox(m) \/ Sent(m) \/ m \in torn
        /\ createdAt[m] > 0 => \/ content[m] = m
                               \/ \E p \in Pids : cpc[p] = "flush" /\ serving[p] = m
        /\ \A p \in Pids : (cpc[p] = "remove" /\ fd[p] = m) => m \in torn \/ reply[serving[p]] = m

TraceInv == Served /\ Timed /\ Traced /\ Kept

\* What a reader has kept so far, and a message that was there before its walk and whose
\* name it has come by.
Chosen(p, n) == /\ cpc[p] \in AfterScan /\ oldest[p] # None
                /\ oldest[p] = pidOf[n] /\ User(p) = request[n].user
CameBy(p, m) == /\ cpc[p] \in AfterScan /\ User(p) = request[m].user
                /\ m \in there[serving[p]] /\ pidOf[m] \notin ahead[p]

\* The least time kept lies between the beginning of the message chosen and the last
\* change of whatever the walk has come by.
Walked ==
    /\ \A p \in Pids : /\ oldest[p] = None <=> least[p] = 0
                       /\ cpc[p] \in {"recv", "scan"} => oldest[p] = None
                       /\ cpc[p] \in AfterWalk => ahead[p] = {}
    /\ \A c, m \in Clients : m \in there[c] => createdAt[m] > 0
    /\ \A n \in Names : dir[n] # NoFile => mtime[dir[n]] > 0
    /\ \A p \in Pids, n \in Clients : (Unique(n) /\ Chosen(p, n)) => createdAt[n] <= least[p]
    /\ \A p \in Pids, m \in Clients :
          (Unique(m) /\ InMailbox(m) /\ CameBy(p, m)) => oldest[p] # None /\ least[p] <= mtime[m]

\* What was there before a reader's walk, and still is, was changed no earlier than what
\* that reader was sent was begun.
Ordered ==
    /\ \A m \in Clients : Unique(m) => createdAt[m] <= mtime[m]
    /\ \A c, m, n \in Clients :
          (/\ Unique(m) /\ Unique(n) /\ request[m] = request[n] /\ InMailbox(m)
           /\ m \in there[c] /\ reply[c] = n)
          => mtime[m] >= createdAt[n]
-----------------------------------------------------------------------------
(* Each step keeps TraceInv, Walked and Ordered *)

LossInv == TraceInv /\ Walked /\ Ordered

\* Another post of the same name is the message's own, if nothing else was given its name.
LEMMA OwnName ==
  ASSUME TypeOK, NEW m \in Clients, NEW e \in Clients, Unique(m), pidOf[m] # None,
         Posted(e, request[m].user, pidOf[m])
  PROVE  e = m
<1>1. request[e] = request[m]
  <2>1. request[e] \in Request /\ request[m] \in Request BY DEF TypeOK
  <2>2. request[e].op = request[m].op /\ request[e].user = request[m].user
    BY DEF Posted, Unique
  <2> QED BY <2>1, <2>2 DEF Request
<1> QED BY <1>1 DEF Unique, NameReused, SameName, Posted

\* A name that is its own now was so before.
LEMMA WasUnique ==
  ASSUME NEW m \in Clients, request' = request, Unique(m)',
         \A c \in Clients : pidOf[c] # None => pidOf'[c] = pidOf[c]
  PROVE  Unique(m)
BY DEF Unique, NameReused, SameName

\* The child that takes a step is the only one with that client.
LEMMA Serves ==
  ASSUME OwnInv, Served, NEW p \in Pids, cpc[p] # "free"
  PROVE  /\ serving[p] \in Clients /\ pidOf[serving[p]] = p /\ p # None
         /\ User(p) = request[serving[p]].user /\ User(p) \in Users
         /\ \A q \in Pids : (q # p /\ cpc[q] # "free") => serving[q] # serving[p]
<1>1. serving[p] \in Clients BY DEF OwnInv, ChildTyped
<1>2. request[serving[p]].user \in Users BY <1>1 DEF OwnInv, TypeOK, Request
<1> QED BY <1>1, <1>2, NoneAssumption DEF Served, User

\* Steps that leave every walk where it is, give no file a new name and begin no message.
LeavesWalks ==
    /\ UNCHANGED <<request, serving, walkVars, createdAt, pidOf, there>>
    /\ \A m \in Clients : mtime'[m] \in Nat /\ mtime'[m] >= mtime[m]
    /\ \A n \in Names : dir'[n] # NoFile => dir'[n] = dir[n]
    /\ \A p \in Pids : /\ cpc'[p] \in {"recv", "scan"} => cpc[p] \in {"recv", "scan"}
                       /\ cpc'[p] \in AfterScan => cpc[p] \in AfterScan
                       /\ cpc'[p] \in AfterWalk => cpc[p] \in AfterWalk

LEMMA LeavesWalksFacts ==
  ASSUME OwnInv, LeavesWalks
  PROVE  /\ \A m \in Clients : (Unique(m)' <=> Unique(m)) /\ (InMailbox(m)' => InMailbox(m))
         /\ \A p \in Pids, m \in Clients : /\ Chosen(p, m)' => Chosen(p, m)
                                           /\ CameBy(p, m)' => CameBy(p, m)
         /\ \A m \in Clients : /\ createdAt[m] \in Nat /\ mtime[m] \in Nat
                               /\ mtime'[m] \in Nat /\ mtime'[m] >= mtime[m]
         /\ \A p \in Pids : least[p] \in Nat
<1>1. \A m \in Clients : Unique(m)' <=> Unique(m)
  BY DEF LeavesWalks, Unique, NameReused, SameName
<1>2. \A m \in Clients : InMailbox(m)' => InMailbox(m)
  <2>1. \A m \in Clients, q \in Pids : m # NoFile /\ <<request[m].user, q>> \in Names
    BY NoneAssumption DEF OwnInv, TypeOK, Request, Names, NoFile
  <2> QED BY <2>1 DEF LeavesWalks, InMailbox
<1>3. \A p \in Pids, m \in Clients : /\ Chosen(p, m)' => Chosen(p, m)
                                     /\ CameBy(p, m)' => CameBy(p, m)
  BY DEF LeavesWalks, walkVars, Chosen, CameBy, User
<1>4. /\ \A m \in Clients : createdAt[m] \in Nat /\ mtime[m] \in Nat
      /\ \A p \in Pids : least[p] \in Nat
  BY DEF OwnInv, TypeOK
<1> QED BY <1>1, <1>2, <1>3, <1>4 DEF LeavesWalks

LEMMA WalksKept == ASSUME OwnInv, Walked, LeavesWalks PROVE Walked'
<1>1. \A p \in Pids : /\ oldest'[p] = None <=> least'[p] = 0
                      /\ cpc'[p] \in {"recv", "scan"} => oldest'[p] = None
                      /\ cpc'[p] \in AfterWalk => ahead'[p] = {}
  BY DEF Walked, LeavesWalks, walkVars
<1>2. \A c, m \in Clients : m \in there'[c] => createdAt'[m] > 0
  BY DEF Walked, LeavesWalks
<1>3. \A n \in Names : dir'[n] # NoFile => mtime'[dir'[n]] > 0
  <2> SUFFICES ASSUME NEW n \in Names, dir'[n] # NoFile PROVE mtime'[dir[n]] > 0
    BY DEF LeavesWalks
  <2>1. dir[n] \in Clients /\ mtime[dir[n]] > 0
    BY DEF Walked, LeavesWalks, OwnInv, TypeOK, NoFile
  <2> QED BY <2>1, LeavesWalksFacts
<1>4. \A p \in Pids, n \in Clients : (Unique(n)' /\ Chosen(p, n)') => createdAt'[n] <= least'[p]
  <2>1. createdAt' = createdAt /\ least' = least BY DEF LeavesWalks, walkVars
  <2> QED BY <2>1, LeavesWalksFacts DEF Walked
<1>5. ASSUME NEW p \in Pids, NEW m \in Clients, Unique(m)', InMailbox(m)', CameBy(p, m)'
      PROVE  oldest'[p] # None /\ least'[p] <= mtime'[m]
  <2>1. Unique(m) /\ InMailbox(m) /\ CameBy(p, m) BY <1>5, LeavesWalksFacts
  <2>2. oldest[p] # None /\ least[p] <= mtime[m] BY <2>1 DEF Walked
  <2>3. oldest' = oldest /\ least' = least BY DEF LeavesWalks, walkVars
  <2>4. least[p] \in Nat /\ mtime[m] \in Nat /\ mtime'[m] \in Nat /\ mtime'[m] >= mtime[m]
    BY LeavesWalksFacts
  <2> QED BY <2>2, <2>3, <2>4
<1> QED BY <1>1, <1>2, <1>3, <1>4, <1>5 DEF Walked

LEMMA OrderKept ==
  ASSUME OwnInv, Ordered, LeavesWalks,
         \A c, n \in Clients : reply'[c] = n => reply[c] = n
  PROVE  Ordered'
<1> USE LeavesWalksFacts
<1>1. createdAt' = createdAt /\ request' = request /\ there' = there BY DEF LeavesWalks
<1>2. \A m, n \in Clients : mtime[m] >= createdAt[n] => mtime'[m] >= createdAt'[n]
  BY <1>1
<1>3. \A m \in Clients : Unique(m)' => createdAt'[m] <= mtime'[m]
  BY <1>2 DEF Ordered
<1>4. \A c, m, n \in Clients :
         (/\ Unique(m)' /\ Unique(n)' /\ request'[m] = request'[n] /\ InMailbox(m)'
          /\ m \in there'[c] /\ reply'[c] = n)
         => mtime'[m] >= createdAt'[n]
  BY <1>1, <1>2 DEF Ordered
<1> QED BY <1>3, <1>4 DEF Ordered

\* Steps that touch no file, choose nothing and send no message: a child may be freed,
\* end, parse its request, or find a file accessible.
MovesOn(p) ==
    /\ cpc'[p] # "free" => cpc[p] # "free"
    /\ cpc'[p] \in BeforeSend => cpc[p] \in BeforeSend
    /\ cpc'[p] \in {"recv", "create"} => cpc[p] \in {"recv", "create"}
    /\ cpc'[p] = "flush" <=> cpc[p] = "flush"
    /\ cpc'[p] \in {"recv", "scan"} => cpc[p] \in {"recv", "scan"}
    /\ cpc'[p] \in AfterScan => cpc[p] \in AfterScan
    /\ cpc'[p] \in AfterWalk => cpc[p] \in AfterWalk
    /\ cpc'[p] \in {"read", "remove"} => cpc'[p] = cpc[p]
Quiet ==
    /\ UNCHANGED <<request, serving, walkVars, fd, dir, content, mtime, createdAt, pidOf,
                   torn, there>>
    /\ now' >= now /\ now' \in Nat
    /\ \A c \in Clients : client'[c] = "accepted" <=> client[c] = "accepted"
    /\ \A p \in Pids : MovesOn(p)
    /\ \A c \in Clients :
          \/ reply'[c] = reply[c]
          \/ /\ reply[c] = "none" /\ client[c] = "accepted" /\ reply'[c] \notin Clients
             /\ \A q \in Pids : cpc'[q] \in BeforeSend => serving[q] # c

LEMMA QuietKeepsLossInv == ASSUME OwnInv, LossInv, Quiet PROVE LossInv'
<1> USE DEF LossInv, TraceInv, Quiet
<1>0. /\ \A p \in Pids : cpc[p] # "free" => serving[p] \in Clients
      /\ now \in Nat /\ createdAt \in [Clients -> Nat] /\ mtime \in [Clients -> Nat]
  BY DEF OwnInv, TypeOK, ChildTyped
<1>1. Served'
  <2>1. \A c \in Clients : client'[c] # "accepted" =>
                             pidOf'[c] = None /\ reply'[c] = "none" /\ createdAt'[c] = 0
    BY DEF Served
  <2>2. \A p \in Pids : cpc'[p] # "free" => pidOf'[serving'[p]] = p /\ client'[serving'[p]] = "accepted"
    BY <1>0 DEF Served, MovesOn
  <2>3. \A p \in Pids : cpc'[p] \in BeforeSend => reply'[serving'[p]] = "none"
    BY <1>0 DEF Served, MovesOn, BeforeSend
  <2>4. \A p \in Pids : cpc'[p] \in {"recv", "create"} => createdAt'[serving'[p]] = 0
    BY DEF Served, MovesOn
  <2> QED BY <2>1, <2>2, <2>3, <2>4 DEF Served
<1>2. Timed' BY <1>0 DEF Timed
<1>3. Traced'
  BY DEF Traced, Posted, User, MovesOn, walkVars
<1>4. \A m \in Clients : (Unique(m)' <=> Unique(m)) /\ (InMailbox(m)' <=> InMailbox(m))
  BY DEF Unique, NameReused, SameName, InMailbox
<1>5. \A m \in Clients : Sent(m)' <=> Sent(m)
  BY ClientsAssumption DEF Sent
<1>6. Kept'
  <2>1. \A p \in Pids : (cpc'[p] = "flush" <=> cpc[p] = "flush") /\ (cpc'[p] = "remove" => cpc[p] = "remove")
    BY DEF MovesOn
  <2>2. \A m, c \in Clients : reply[c] = m => reply'[c] = m
    BY ClientsAssumption
  <2>3. \A m \in Clients, p \in Pids : (cpc[p] # "free" /\ reply[serving[p]] = m) => reply'[serving[p]] = m
    BY <1>0, <2>2
  <2> QED BY <1>4, <1>5, <2>1, <2>3 DEF Kept
<1>7. Walked' /\ Ordered'
  <2>1. LeavesWalks BY <1>0 DEF LeavesWalks, MovesOn
  <2>2. \A c, n \in Clients : reply'[c] = n => reply[c] = n BY ClientsAssumption
  <2> QED BY <2>1, <2>2, WalksKept, OrderKept
<1> QED BY <1>1, <1>2, <1>3, <1>6, <1>7

\* The steps of main() other than accept(), the handler, signals and the clock.
LEMMA SystemIsQuiet ==
  ASSUME OwnInv, LossInv,
         \/ Tick \/ Handler
         \/ \E c \in Clients : Connect(c) \/ ForkFails(c)
         \/ AcceptFails \/ LoadCount \/ StoreCount \/ CheckLimit \/ WaitFindsNone
         \/ \E p \in Pids : WaitReaps(p) \/ Stop(p) \/ Continue(p)
         \/ UNCHANGED vars
  PROVE  Quiet
<1> USE DEF vars, clientVars, childVars, walkVars, stopVars, fileVars, history
<1>1. now \in Nat /\ client \in [Clients -> {"idle", "queued", "accepted", "unserved"}]
      /\ cpc \in [Pids -> Cpcs]
  BY DEF OwnInv, TypeOK
<1>2. ASSUME cpc' = cpc PROVE \A p \in Pids : MovesOn(p)
  BY <1>2 DEF MovesOn
<1>3. ASSUME NEW q \in Pids, cpc' = [cpc EXCEPT ![q] = "free"], cpc[q] = "zombie"
      PROVE  \A p \in Pids : MovesOn(p)
  BY <1>1, <1>3 DEF MovesOn, BeforeSend, AfterScan, AfterWalk
<1>4. CASE Tick BY <1>1, <1>2, <1>4 DEF Tick, Quiet
<1>5. CASE Handler
  <2>1. CASE HandlerEnter \/ HandlerReturn \/ \E p \in Pids : HandlerStop(p)
    BY <1>1, <1>2, <2>1 DEF HandlerEnter, HandlerReturn, HandlerStop, Quiet
  <2>2. ASSUME NEW p \in Pids, HandlerReap(p) PROVE Quiet
    <3>1. \A q \in Pids : MovesOn(q) BY <1>3, <2>2 DEF HandlerReap
    <3> QED BY <1>1, <3>1, <2>2 DEF HandlerReap, Quiet
  <2> QED BY <1>5, <2>1, <2>2 DEF Handler
<1>6. ASSUME NEW c \in Clients, Connect(c) \/ ForkFails(c) PROVE Quiet
  BY <1>1, <1>2, <1>6 DEF Connect, ForkFails, Quiet
<1>7. CASE \/ AcceptFails \/ LoadCount \/ StoreCount \/ CheckLimit \/ WaitFindsNone
           \/ \E p \in Pids : Stop(p) \/ Continue(p)
           \/ UNCHANGED vars
  BY <1>1, <1>2, <1>7 DEF AcceptFails, LoadCount, StoreCount, CheckLimit, WaitFindsNone,
                          Stop, Continue, Quiet
<1>8. ASSUME NEW p \in Pids, WaitReaps(p) PROVE Quiet
  <2>1. \A q \in Pids : MovesOn(q) BY <1>3, <1>8 DEF WaitReaps
  <2> QED BY <1>1, <2>1, <1>8 DEF WaitReaps, Quiet
<1> QED BY <1>4, <1>5, <1>6, <1>7, <1>8

\* The steps of a child that neither create, write, choose, open, read nor remove a file.
LEMMA ChildIsQuiet ==
  ASSUME OwnInv, LossInv, NEW p \in Pids,
         \/ Receive(p) \/ ReceiveBad(p) \/ Reply(p)
         \/ GetAccess(p) \/ GetNothing(p) \/ GetCrash(p)
  PROVE  Quiet
<1> USE DEF clientVars, childVars, walkVars, stopVars, fileVars, history, Running, GoTo, Exit
<1>1. now \in Nat /\ cpc \in [Pids -> Cpcs]
      /\ reply \in [Clients -> {"none", "greeting", "error"} \cup Clients]
  BY DEF OwnInv, TypeOK
<1>2. ASSUME NEW next, cpc' = [cpc EXCEPT ![p] = next],
             \/ cpc[p] = "recv" /\ next \in {"create", "scan", "reply", "zombie"}
             \/ cpc[p] = "access" /\ next \in {"open", "zombie"}
             \/ cpc[p] \in {"open", "reply"} /\ next = "zombie"
      PROVE  \A q \in Pids : MovesOn(q)
  BY <1>1, <1>2 DEF MovesOn, BeforeSend, AfterScan, AfterWalk
<1>3. CASE Receive(p) \/ ReceiveBad(p) \/ GetAccess(p) \/ GetCrash(p)
  <2>1. \A q \in Pids : MovesOn(q)
    BY <1>2, <1>3 DEF Receive, ReceiveBad, GetAccess, GetCrash, NextStep
  <2> QED BY <1>1, <1>3, <2>1 DEF Receive, ReceiveBad, GetAccess, GetCrash, Quiet
<1>4. ASSUME NEW what, what \notin Clients, cpc[p] # "free",
             Send(serving[p], what), cpc' = [cpc EXCEPT ![p] = "zombie"],
             UNCHANGED serving
      PROVE  \A c \in Clients :
               \/ reply'[c] = reply[c]
               \/ /\ reply[c] = "none" /\ client[c] = "accepted" /\ reply'[c] \notin Clients
                  /\ \A q \in Pids : cpc'[q] \in BeforeSend => serving[q] # c
  <2>1. /\ serving[p] \in Clients
        /\ \A q \in Pids : (q # p /\ cpc[q] # "free") => serving[q] # serving[p]
    BY <1>4, Serves DEF LossInv, TraceInv
  <2>2. client[serving[p]] = "accepted"
    BY <1>4 DEF LossInv, TraceInv, Served
  <2>3. \A q \in Pids : cpc'[q] \in BeforeSend => q # p /\ cpc[q] # "free"
    BY <1>1, <1>4 DEF BeforeSend
  <2> QED BY <1>1, <1>4, <2>1, <2>2, <2>3 DEF Send
<1>5. CASE GetNothing(p)
  <2>1. \A q \in Pids : MovesOn(q)
    BY <1>2, <1>5 DEF GetNothing
  <2> QED BY <1>1, <1>4, <1>5, <2>1, ClientsAssumption DEF GetNothing, Quiet
<1>6. CASE Reply(p)
  <2>1. \A q \in Pids : MovesOn(q)
    BY <1>2, <1>6 DEF Reply
  <2> QED BY <1>1, <1>4, <1>6, <2>1, ClientsAssumption DEF Reply, Quiet
<1> QED BY <1>3, <1>5, <1>6

\* A new child takes on a client that nothing has been done for.
LEMMA AcceptKeepsLossInv ==
  ASSUME OwnInv, OwnInv', LossInv, NEW c \in Clients, NEW p \in Pids, Accept(c, p)
  PROVE  LossInv'
<1> USE DEF LossInv, TraceInv, Accept, clientVars, stopVars, fileVars
<1>1. /\ pidOf \in [Clients -> Pids \cup {None}] /\ client[c] = "queued" /\ cpc[p] = "free"
      /\ cpc \in [Pids -> Cpcs] /\ serving \in [Pids -> Clients \cup {None}]
      /\ oldest \in [Pids -> Pids \cup {None}] /\ fd \in [Pids -> Clients \cup {None}]
      /\ client \in [Clients -> {"idle", "queued", "accepted", "unserved"}]
      /\ mtime \in [Clients -> Nat]
  BY DEF OwnInv, TypeOK
<1>2. pidOf[c] = None /\ reply[c] = "none" /\ createdAt[c] = 0
  BY <1>1 DEF Served
<1>3. \A e \in Clients : pidOf[e] # None => pidOf'[e] = pidOf[e]
  BY <1>1, <1>2
<1>4. \A e \in Clients : \A u, q : (q # None /\ Posted(e, u, q)) => Posted(e, u, q)'
  BY <1>3 DEF Posted
<1>5. \A q \in Pids \ {p} : /\ cpc'[q] = cpc[q] /\ serving'[q] = serving[q]
                            /\ oldest'[q] = oldest[q] /\ fd'[q] = fd[q] /\ User(q)' = User(q)
  BY <1>1 DEF User
<1>6. /\ cpc'[p] = "recv" /\ serving'[p] = c /\ oldest'[p] = None /\ pidOf'[c] = p
      /\ client'[c] = "accepted"
  BY <1>1
<1>7. \A q \in Pids : cpc[q] # "free" => serving[q] \in Clients \ {c} /\ q # p
  BY <1>1 DEF Served, OwnInv, ChildTyped
<1>8. Served'
  <2>1. \A d \in Clients : client'[d] # "accepted" =>
                             pidOf'[d] = None /\ reply'[d] = "none" /\ createdAt'[d] = 0
    BY <1>1 DEF Served
  <2>2. \A q \in Pids : cpc'[q] # "free" =>
                          pidOf'[serving'[q]] = q /\ client'[serving'[q]] = "accepted"
    BY <1>1, <1>5, <1>6, <1>7 DEF Served
  <2>3. \A q \in Pids : cpc'[q] \in BeforeSend => reply'[serving'[q]] = "none"
    BY <1>2, <1>5, <1>6 DEF Served
  <2>4. \A q \in Pids : cpc'[q] \in {"recv", "create"} => createdAt'[serving'[q]] = 0
    BY <1>2, <1>5, <1>6 DEF Served
  <2> QED BY <2>1, <2>2, <2>3, <2>4 DEF Served
<1>9. Timed' BY DEF Timed
<1>10. Traced'
  <2>1. \A n \in Names : dir'[n] # NoFile =>
                           Posted(dir[n], n[1], n[2])' /\ createdAt'[dir'[n]] > 0
    BY <1>4, NoneAssumption DEF Traced, Names, OwnInv, TypeOK, NoFile
  <2>2. \A q \in Pids : cpc'[q] = "flush" =>
                          Posted(fd[q], User(q), q)' /\ createdAt'[serving'[q]] > 0
    <3> SUFFICES ASSUME NEW q \in Pids, cpc'[q] = "flush"
                 PROVE  Posted(fd[q], User(q), q)' /\ createdAt'[serving'[q]] > 0
      OBVIOUS
    <3>1. q # p /\ cpc[q] = "flush" BY <1>5, <1>6
    <3>2. fd[q] \in Clients /\ Posted(fd[q], User(q), q) /\ createdAt[serving[q]] > 0
      BY <3>1 DEF OwnInv, ChildTyped, Traced
    <3> QED BY <1>3, <1>5, <3>1, <3>2, NoneAssumption DEF Posted
  <2>3. \A q \in Pids : (cpc'[q] \in AfterScan /\ oldest'[q] # None) =>
                          \E e \in Clients : Posted(e, User(q), oldest[q])' /\ createdAt'[e] > 0
    <3> SUFFICES ASSUME NEW q \in Pids, cpc'[q] \in AfterScan, oldest'[q] # None
                 PROVE  \E e \in Clients : Posted(e, User(q), oldest[q])' /\ createdAt'[e] > 0
      OBVIOUS
    <3>1. q # p /\ cpc[q] \in AfterScan /\ oldest[q] # None BY <1>5, <1>6
    <3>2. PICK e \in Clients : Posted(e, User(q), oldest[q]) /\ createdAt[e] > 0
      BY <3>1 DEF Traced
    <3> QED BY <1>3, <1>5, <3>1, <3>2 DEF Posted
  <2>4. \A q \in Pids : cpc'[q] \in {"read", "remove"} => Posted(fd[q], User(q), oldest[q])'
    <3> SUFFICES ASSUME NEW q \in Pids, cpc'[q] \in {"read", "remove"}
                 PROVE  Posted(fd[q], User(q), oldest[q])'
      OBVIOUS
    <3>1. q # p /\ cpc[q] \in {"read", "remove"} BY <1>5, <1>6
    <3>2. fd[q] \in Clients /\ oldest[q] \in Pids /\ Posted(fd[q], User(q), oldest[q])
      BY <3>1 DEF OwnInv, ChildTyped, Traced
    <3> QED BY <1>3, <1>5, <3>1, <3>2, NoneAssumption DEF Posted
  <2>5. \A e \in Clients : content'[e] # Empty =>
          /\ request'[content'[e]] = request'[e] /\ pidOf'[content'[e]] = pidOf'[e]
          /\ pidOf'[e] # None /\ createdAt'[content'[e]] > 0
    BY <1>3 DEF Traced, OwnInv, TypeOK, Empty
  <2> QED BY <2>1, <2>2, <2>3, <2>4, <2>5 DEF Traced
<1>11. \A m \in Clients : (Unique(m)' => Unique(m)) /\ (InMailbox(m)' <=> InMailbox(m))
                          /\ (Sent(m)' <=> Sent(m))
  BY <1>3, WasUnique DEF InMailbox, Sent
<1>12. Kept'
  <2>1. \A q \in Pids : cpc[q] = "flush" => cpc'[q] = "flush" /\ serving'[q] = serving[q]
    BY <1>5, <1>7
  <2>2. \A q \in Pids : cpc'[q] = "remove" =>
                          cpc[q] = "remove" /\ fd'[q] = fd[q] /\ serving'[q] = serving[q]
    BY <1>5, <1>6
  <2> QED BY <1>11, <2>1, <2>2 DEF Kept
<1>13. Walked'
  <2>1. /\ ahead'[p] = {} /\ least'[p] = 0
        /\ \A q \in Pids \ {p} : ahead'[q] = ahead[q] /\ least'[q] = least[q]
        /\ \A q \in Pids : least'[q] \in Nat
    BY DEF OwnInv, TypeOK
  <2>2. \A q \in Pids : /\ oldest'[q] = None <=> least'[q] = 0
                        /\ cpc'[q] \in {"recv", "scan"} => oldest'[q] = None
                        /\ cpc'[q] \in AfterWalk => ahead'[q] = {}
    BY <1>5, <1>6, <2>1 DEF Walked, AfterWalk
  <2>3. \A d, m \in Clients : m \in there'[d] => createdAt'[m] > 0
    BY DEF Walked
  <2>4. \A n \in Names : dir'[n] # NoFile => mtime'[dir'[n]] > 0
    BY DEF Walked
  <2>5. ASSUME NEW q \in Pids, NEW n \in Clients, Unique(n)', Chosen(q, n)'
        PROVE  createdAt'[n] <= least'[q]
    <3>1. q # p BY <1>6, <2>5 DEF Chosen
    <3>2. CASE n = c BY <1>2, <2>1, <3>2
    <3>3. CASE n # c
      <4>1. Unique(n) /\ Chosen(q, n) BY <1>1, <1>5, <1>11, <2>5, <3>1, <3>3 DEF Chosen
      <4> QED BY <2>1, <3>1, <4>1 DEF Walked
    <3> QED BY <3>2, <3>3
  <2>6. ASSUME NEW q \in Pids, NEW m \in Clients, Unique(m)', InMailbox(m)', CameBy(q, m)'
        PROVE  oldest'[q] # None /\ least'[q] <= mtime'[m]
    <3>1. q # p BY <1>6, <2>6 DEF CameBy, AfterScan, AfterWalk
    <3>4. m \in there[serving'[q]] /\ serving'[q] \in Clients
      BY <1>5, <1>7, <2>6, <3>1 DEF CameBy, AfterScan, AfterWalk
    <3>2. m # c BY <1>2, <3>4 DEF Walked
    <3>3. Unique(m) /\ InMailbox(m) /\ CameBy(q, m)
      BY <1>1, <1>5, <1>11, <2>1, <2>6, <3>1, <3>2 DEF CameBy
    <3> QED BY <1>5, <2>1, <3>1, <3>3 DEF Walked
  <2> QED BY <2>2, <2>3, <2>4, <2>5, <2>6 DEF Walked
<1>14. Ordered'
  BY <1>11 DEF Ordered
<1> QED BY <1>8, <1>9, <1>10, <1>12, <1>13, <1>14

\* A message of its own name is given an inode of its own; no reader has chosen it and
\* none has been sent it, because it was not begun before now.
LEMMA PostCreateKeepsLossInv ==
  ASSUME OwnInv, OwnInv', LossInv, NEW p \in Pids, PostCreate(p)
  PROVE  LossInv'
<1> DEFINE c == serving[p]
           u == User(p)
           name == <<u, p>>
           inode == IF dir[name] = NoFile THEN c ELSE dir[name]
<1>0. /\ dir' = [dir EXCEPT ![name] = inode] /\ fd' = [fd EXCEPT ![p] = inode]
      /\ content' = [content EXCEPT ![inode] = Empty] /\ mtime' = [mtime EXCEPT ![inode] = now]
      /\ createdAt' = [createdAt EXCEPT ![c] = now] /\ cpc' = [cpc EXCEPT ![p] = "flush"]
      /\ cpc[p] = "create"
      /\ UNCHANGED <<request, client, reply, serving, oldest, ahead, least, now, pidOf,
                     torn, there>>
  BY DEF PostCreate, FileName, GoTo, Running, clientVars, walkVars
<1> USE DEF LossInv, TraceInv
<1>1. /\ c \in Clients /\ pidOf[c] = p /\ p # None /\ u = request[c].user /\ u \in Users
      /\ \A q \in Pids \ {p} : cpc[q] # "free" => serving[q] # c
      /\ name \in Names
  BY <1>0, Serves DEF Names
<1>2. Posted(c, u, p) /\ createdAt[c] = 0
  BY <1>0, <1>1 DEF Posted, OwnInv, ChildTyped, Served
<1>3. /\ dir \in [Names -> Clients \cup {None}] /\ fd \in [Pids -> Clients \cup {None}]
      /\ content \in [Clients -> Clients \cup {None}] /\ mtime \in [Clients -> Nat]
      /\ createdAt \in [Clients -> Nat] /\ cpc \in [Pids -> Cpcs] /\ now \in Nat /\ now > 0
      /\ reply \in [Clients -> {"none", "greeting", "error"} \cup Clients]
  BY DEF OwnInv, TypeOK, Timed
<1>4. inode \in Clients /\ Posted(inode, u, p) /\ (inode # c => createdAt[inode] > 0)
  BY <1>1, <1>2, <1>3 DEF Traced, NoFile
<1> HIDE DEF inode
<1>5. \A e \in Clients : createdAt[e] > 0 => createdAt'[e] > 0
  BY <1>0, <1>1, <1>3
<1>6. createdAt'[inode] > 0 /\ createdAt'[c] = now /\ now > 0 /\ fd'[p] = inode
      /\ \A e \in Clients \ {c} : createdAt'[e] = createdAt[e]
  BY <1>0, <1>1, <1>3, <1>4, <1>5
<1>7. /\ cpc'[p] = "flush"
      /\ \A q \in Pids \ {p} : cpc'[q] = cpc[q] /\ fd'[q] = fd[q]
      /\ \A q \in Pids : User(q)' = User(q)
      /\ \A e \in Clients : \A w, q : Posted(e, w, q)' <=> Posted(e, w, q)
  BY <1>0, <1>3 DEF User, Posted
<1>8. \A m \in Clients : (Unique(m)' <=> Unique(m)) /\ (Sent(m)' <=> Sent(m))
  BY <1>0 DEF Unique, NameReused, SameName, Sent
\* what the inode has to do with a message of its own name
<1>9. \A m \in Clients : (Unique(m) /\ m = inode) => m = c
  BY <1>1, <1>2, <1>4, OwnName DEF OwnInv, Posted
<1>10. Unique(c) => inode = c
  BY <1>1, <1>2, <1>4, OwnName DEF OwnInv
<1>11. Served'
  <2>1. \A d \in Clients : client'[d] # "accepted" =>
                             pidOf'[d] = None /\ reply'[d] = "none" /\ createdAt'[d] = 0
    BY <1>0, <1>1, <1>6 DEF Served
  <2>2. \A q \in Pids : cpc'[q] # "free" =>
                          pidOf'[serving'[q]] = q /\ client'[serving'[q]] = "accepted"
    BY <1>0, <1>7 DEF Served
  <2>3. \A q \in Pids : cpc'[q] \in BeforeSend => reply'[serving'[q]] = "none"
    BY <1>0, <1>7 DEF Served, BeforeSend
  <2>4. \A q \in Pids : cpc'[q] \in {"recv", "create"} => createdAt'[serving'[q]] = 0
    <3> SUFFICES ASSUME NEW q \in Pids, cpc'[q] \in {"recv", "create"}
                 PROVE  createdAt'[serving[q]] = 0
      BY <1>0
    <3>1. q # p /\ cpc[q] \in {"recv", "create"} BY <1>7
    <3>2. serving[q] \in Clients \ {c} BY <1>1, <3>1 DEF OwnInv, ChildTyped
    <3> QED BY <1>6, <3>1, <3>2 DEF Served
  <2> QED BY <2>1, <2>2, <2>3, <2>4 DEF Served
<1>12. Timed'
  BY <1>0, <1>3, <1>4, <1>6 DEF Timed
<1>13. Traced'
  <2>1. \A n \in Names : dir'[n] # NoFile =>
                           Posted(dir[n], n[1], n[2])' /\ createdAt'[dir'[n]] > 0
    <3> SUFFICES ASSUME NEW n \in Names, dir'[n] # NoFile
                 PROVE  Posted(dir[n], n[1], n[2])' /\ createdAt'[dir'[n]] > 0
      OBVIOUS
    <3>1. CASE n = name
      <4>1. dir'[n] = inode BY <1>0, <1>1, <1>3, <3>1
      <4> QED BY <1>0, <1>4, <1>6, <3>1, <4>1 DEF Posted
    <3>2. CASE n # name
      <4>1. dir'[n] = dir[n] /\ dir[n] \in Clients BY <1>0, <1>3, <3>2 DEF NoFile
      <4>2. Posted(dir[n], n[1], n[2]) /\ createdAt[dir[n]] > 0
        BY <4>1 DEF Traced
      <4> QED BY <1>0, <1>5, <4>1, <4>2 DEF Posted
    <3> QED BY <3>1, <3>2
  <2>2. \A q \in Pids : cpc'[q] = "flush" =>
                          Posted(fd[q], User(q), q)' /\ createdAt'[serving'[q]] > 0
    <3> SUFFICES ASSUME NEW q \in Pids, cpc'[q] = "flush"
                 PROVE  Posted(fd[q], User(q), q)' /\ createdAt'[serving'[q]] > 0
      OBVIOUS
    <3>1. CASE q = p
      BY <1>0, <1>4, <1>6, <1>7, <3>1 DEF Posted
    <3>2. CASE q # p
      <4>1. /\ serving[q] \in Clients /\ Posted(fd[q], User(q), q)
            /\ createdAt[serving[q]] > 0
        BY <1>7, <3>2 DEF Traced, OwnInv, ChildTyped
      <4> QED BY <1>0, <1>5, <1>7, <3>2, <4>1 DEF Posted
    <3> QED BY <3>1, <3>2
  <2>3. \A q \in Pids : (cpc'[q] \in AfterScan /\ oldest'[q] # None) =>
                          \E e \in Clients : Posted(e, User(q), oldest[q])' /\ createdAt'[e] > 0
    BY <1>0, <1>5, <1>7 DEF Traced, AfterScan, AfterWalk, Posted
  <2>4. \A q \in Pids : cpc'[q] \in {"read", "remove"} => Posted(fd[q], User(q), oldest[q])'
    BY <1>0, <1>7 DEF Traced, Posted
  <2>5. \A e \in Clients : content'[e] # Empty =>
          /\ request'[content'[e]] = request'[e] /\ pidOf'[content'[e]] = pidOf'[e]
          /\ pidOf'[e] # None /\ createdAt'[content'[e]] > 0
    <3>1. \A e \in Clients : content'[e] # Empty =>
                               content'[e] = content[e] /\ content[e] \in Clients
      BY <1>0, <1>3, <1>4 DEF Empty
    <3> QED BY <1>0, <1>5, <3>1 DEF Traced
  <2>6. \A d \in Clients : reply'[d] \in Clients => createdAt'[reply'[d]] > 0
    BY <1>0, <1>5 DEF Traced
  <2> QED BY <2>1, <2>2, <2>3, <2>4, <2>5, <2>6 DEF Traced
<1>14. \A m \in Clients : InMailbox(m) => InMailbox(m)'
  <2> SUFFICES ASSUME NEW m \in Clients, NEW q \in Pids, dir[<<request[m].user, q>>] = m
               PROVE  InMailbox(m)'
    BY DEF InMailbox
  <2>1. request[m].user \in Users BY DEF OwnInv, TypeOK, Request
  <2>2. dir'[<<request[m].user, q>>] = m
    <3>1. m # NoFile BY NoneAssumption DEF NoFile
    <3> QED BY <1>0, <1>1, <1>3, <2>1, <3>1 DEF Names, inode
  <2> QED BY <1>0, <2>2 DEF InMailbox
<1>15. \A m \in Clients : (Unique(m) /\ InMailbox(m)') => m = c \/ InMailbox(m)
  <2> SUFFICES ASSUME NEW m \in Clients, Unique(m), m # c,
                      NEW q \in Pids, dir'[<<request[m].user, q>>] = m
               PROVE  dir[<<request[m].user, q>>] = m
    BY <1>0 DEF InMailbox
  <2>1. <<request[m].user, q>> \in Names BY DEF OwnInv, TypeOK, Request, Names
  <2> QED BY <1>0, <1>3, <1>9, <2>1
<1>16. Kept'
  <2> SUFFICES ASSUME NEW m \in Clients, Unique(m)
               PROVE  /\ createdAt'[m] > 0 => InMailbox(m)' \/ Sent(m)' \/ m \in torn'
                      /\ createdAt'[m] > 0 => \/ content'[m] = m
                                              \/ \E q \in Pids : cpc'[q] = "flush" /\ serving'[q] = m
                      /\ \A q \in Pids : (cpc'[q] = "remove" /\ fd'[q] = m) =>
                                            m \in torn' \/ reply'[serving'[q]] = m
    BY <1>8 DEF Kept
  <2>1. \A q \in Pids : (cpc'[q] = "remove" /\ fd'[q] = m) =>
                          m \in torn' \/ reply'[serving'[q]] = m
    BY <1>0, <1>7 DEF Kept
  <2>2. CASE m = c
    <3>1. dir'[name] = c BY <1>0, <1>1, <1>3, <1>10, <2>2
    <3>2. InMailbox(c)' BY <1>0, <1>1, <3>1 DEF InMailbox
    <3> QED BY <1>0, <1>7, <2>1, <2>2, <3>2
  <2>3. CASE m # c
    <3>1. content'[m] = content[m] BY <1>0, <1>3, <1>4, <1>9, <2>3
    <3>2. \A q \in Pids : cpc[q] = "flush" => cpc'[q] = "flush" /\ serving'[q] = serving[q]
      BY <1>0, <1>7
    <3> QED BY <1>0, <1>6, <1>8, <1>14, <2>1, <2>3, <3>1, <3>2 DEF Kept
  <2> QED BY <2>2, <2>3
<1>17. /\ \A m \in Clients \ {c} : Unique(m) => mtime'[m] = mtime[m]
       /\ Unique(c) => mtime'[c] = now
  BY <1>0, <1>1, <1>3, <1>4, <1>9, <1>10
<1>18. \A d \in Clients : c \notin there[d]
  BY <1>1, <1>2 DEF Walked
<1>19. Walked'
  <2>1. \A q \in Pids : /\ oldest'[q] = None <=> least'[q] = 0
                        /\ cpc'[q] \in {"recv", "scan"} => oldest'[q] = None
                        /\ cpc'[q] \in AfterWalk => ahead'[q] = {}
    BY <1>0, <1>7 DEF Walked, AfterWalk
  <2>2. \A d, m \in Clients : m \in there'[d] => createdAt'[m] > 0
    BY <1>0, <1>5 DEF Walked
  <2>3. ASSUME NEW n \in Names, dir'[n] # NoFile PROVE mtime'[dir'[n]] > 0
    <3>1. \A k \in Clients : mtime'[k] = IF k = inode THEN now ELSE mtime[k]
      BY <1>0, <1>3, <1>4
    <3>2. CASE n = name
      BY <1>0, <1>3, <1>4, <3>1, <3>2
    <3>3. CASE n # name
      <4>1. dir'[n] = dir[n] /\ dir[n] \in Clients BY <1>0, <1>3, <2>3, <3>3 DEF NoFile
      <4>2. mtime[dir[n]] > 0 BY <2>3, <4>1 DEF Walked
      <4> QED BY <1>3, <3>1, <4>1, <4>2
    <3> QED BY <3>2, <3>3
  <2>4. ASSUME NEW q \in Pids, NEW n \in Clients, Unique(n)', Chosen(q, n)'
        PROVE  createdAt'[n] <= least'[q]
    <3>1. Unique(n) /\ Chosen(q, n)
      BY <1>0, <1>7, <1>8, <2>4 DEF Chosen, AfterScan, AfterWalk
    <3>2. n # c
      <4> SUFFICES ASSUME n = c PROVE FALSE OBVIOUS
      <4>1. cpc[q] \in AfterScan /\ oldest[q] = p /\ User(q) = u
        BY <1>1, <3>1 DEF Chosen
      <4>2. PICK e \in Clients : Posted(e, u, p) /\ createdAt[e] > 0
        BY <1>1, <4>1 DEF Traced
      <4>3. e = c BY <1>1, <3>1, <4>2, OwnName DEF OwnInv
      <4> QED BY <1>2, <4>2, <4>3
    <3> QED BY <1>0, <1>6, <3>1, <3>2 DEF Walked
  <2>5. ASSUME NEW q \in Pids, NEW m \in Clients, Unique(m)', InMailbox(m)', CameBy(q, m)'
        PROVE  oldest'[q] # None /\ least'[q] <= mtime'[m]
    <3>1. CameBy(q, m) /\ m \in there[serving[q]]
      BY <1>0, <1>7, <2>5 DEF CameBy, AfterScan, AfterWalk
    <3>2. m # c
      <4>1. serving[q] \in Clients
        BY <3>1 DEF CameBy, AfterScan, AfterWalk, OwnInv, ChildTyped
      <4> QED BY <1>18, <3>1, <4>1
    <3>3. Unique(m) /\ InMailbox(m) BY <1>8, <1>15, <2>5, <3>2
    <3> QED BY <1>0, <1>17, <3>1, <3>2, <3>3 DEF Walked
  <2> QED BY <2>1, <2>2, <2>3, <2>4, <2>5 DEF Walked
<1>20. Ordered'
  <2>1. \A m \in Clients : Unique(m)' => createdAt'[m] <= mtime'[m]
    BY <1>3, <1>6, <1>8, <1>17 DEF Ordered
  <2>2. ASSUME NEW d \in Clients, NEW m \in Clients, NEW n \in Clients, Unique(m)', Unique(n)',
               request'[m] = request'[n], InMailbox(m)', m \in there'[d], reply'[d] = n
        PROVE  mtime'[m] >= createdAt'[n]
    <3>1. m # c BY <1>0, <1>18, <2>2
    <3>2. n # c BY <1>0, <1>1, <1>2, <2>2 DEF Traced
    <3> QED BY <1>0, <1>6, <1>8, <1>15, <1>17, <2>2, <3>1, <3>2 DEF Ordered
  <2> QED BY <2>1, <2>2 DEF Ordered
<1> QED BY <1>11, <1>12, <1>13, <1>16, <1>19, <1>20

\* The inode that is written is the message's own, if the name is.
LEMMA PostFlushKeepsLossInv ==
  ASSUME OwnInv, OwnInv', LossInv, NEW p \in Pids, PostFlush(p)
  PROVE  LossInv'
<1> DEFINE c == serving[p]
           e == fd[p]
<1>0. /\ content' = [content EXCEPT ![e] = c] /\ mtime' = [mtime EXCEPT ![e] = now]
      /\ cpc' = [cpc EXCEPT ![p] = "reply"] /\ cpc[p] = "flush"
      /\ UNCHANGED <<request, client, reply, serving, walkVars, fd, dir, now, createdAt,
                     pidOf, torn, there>>
  BY DEF PostFlush, GoTo, Running, clientVars, history
<1> USE DEF LossInv, TraceInv
<1>1. /\ c \in Clients /\ pidOf[c] = p /\ p # None /\ User(p) = request[c].user
      /\ request[c].op = "POST" /\ createdAt[c] > 0
      /\ e \in Clients /\ Posted(e, User(p), p)
  BY <1>0, Serves DEF OwnInv, ChildTyped, Traced
<1>2. /\ content \in [Clients -> Clients \cup {None}] /\ mtime \in [Clients -> Nat]
      /\ createdAt \in [Clients -> Nat] /\ cpc \in [Pids -> Cpcs] /\ now \in Nat
  BY DEF OwnInv, TypeOK
<1>3. /\ cpc'[p] = "reply" /\ \A q \in Pids \ {p} : cpc'[q] = cpc[q]
      /\ \A q \in Pids : User(q)' = User(q)
      /\ content'[e] = c /\ \A k \in Clients \ {e} : content'[k] = content[k]
      /\ oldest' = oldest
  BY <1>0, <1>1, <1>2 DEF User, walkVars
<1>11. mtime' \in [Clients -> Nat] /\ \A m \in Clients : mtime'[m] >= mtime[m]
  <2>1. mtime' \in [Clients -> Nat] BY <1>0, <1>2
  <2>2. \A m \in Clients : mtime[m] <= now BY DEF Timed
  <2>3. \A m \in Clients : mtime'[m] = IF m = e THEN now ELSE mtime[m] BY <1>0, <1>2
  <2> QED BY <1>2, <2>1, <2>2, <2>3
<1>4. \A m \in Clients : /\ (Unique(m)' <=> Unique(m)) /\ (Sent(m)' <=> Sent(m))
                         /\ (InMailbox(m)' <=> InMailbox(m))
  BY <1>0 DEF Unique, NameReused, SameName, InMailbox, Sent
<1>5. Served'
  BY <1>0, <1>3 DEF Served, BeforeSend
<1>6. Timed'
  BY <1>0, <1>1, <1>2 DEF Timed
<1>7. Traced'
  <2>1. \A n \in Names : dir'[n] # NoFile =>
                           Posted(dir[n], n[1], n[2])' /\ createdAt'[dir'[n]] > 0
    BY <1>0 DEF Traced, Posted
  <2>2. \A q \in Pids : cpc'[q] = "flush" =>
                          Posted(fd[q], User(q), q)' /\ createdAt'[serving'[q]] > 0
    BY <1>0, <1>3 DEF Traced, Posted
  <2>3. \A q \in Pids : (cpc'[q] \in AfterScan /\ oldest'[q] # None) =>
                          \E k \in Clients : Posted(k, User(q), oldest[q])' /\ createdAt'[k] > 0
    BY <1>0, <1>3 DEF Traced, AfterScan, AfterWalk, Posted
  <2>4. \A q \in Pids : cpc'[q] \in {"read", "remove"} => Posted(fd[q], User(q), oldest[q])'
    BY <1>0, <1>3 DEF Traced, Posted
  <2>5. \A k \in Clients : content'[k] # Empty =>
          /\ request'[content'[k]] = request'[k] /\ pidOf'[content'[k]] = pidOf'[k]
          /\ pidOf'[k] # None /\ createdAt'[content'[k]] > 0
    <3>1. request[c] = request[e] /\ pidOf[c] = pidOf[e] /\ pidOf[e] # None
      <4>1. request[c] \in Request /\ request[e] \in Request BY <1>1 DEF OwnInv, TypeOK
      <4> QED BY <1>1, <4>1 DEF Posted, Request
    <3> QED BY <1>0, <1>1, <1>3, <3>1 DEF Traced
  <2>6. \A d \in Clients : reply'[d] \in Clients => createdAt'[reply'[d]] > 0
    BY <1>0 DEF Traced
  <2> QED BY <2>1, <2>2, <2>3, <2>4, <2>5, <2>6 DEF Traced
<1>8. ASSUME NEW m \in Clients, Unique(m), m = c \/ m = e PROVE m = c /\ m = e
  <2>1. Posted(c, User(p), p) BY <1>1 DEF Posted
  <2> QED BY <1>1, <1>8, <2>1, OwnName DEF OwnInv, Posted
<1>9. Kept'
  <2> SUFFICES ASSUME NEW m \in Clients, Unique(m)
               PROVE  /\ createdAt'[m] > 0 => InMailbox(m)' \/ Sent(m)' \/ m \in torn'
                      /\ createdAt'[m] > 0 => \/ content'[m] = m
                                              \/ \E q \in Pids : cpc'[q] = "flush" /\ serving'[q] = m
                      /\ \A q \in Pids : (cpc'[q] = "remove" /\ fd'[q] = m) =>
                                            m \in torn' \/ reply'[serving'[q]] = m
    BY <1>4 DEF Kept
  <2>1. createdAt'[m] > 0 => InMailbox(m)' \/ Sent(m)' \/ m \in torn'
    BY <1>0, <1>4 DEF Kept
  <2>2. createdAt'[m] > 0 => \/ content'[m] = m
                             \/ \E q \in Pids : cpc'[q] = "flush" /\ serving'[q] = m
    <3>1. CASE m = c BY <1>3, <1>8, <3>1
    <3>2. CASE m # c
      <4>1. content'[m] = content[m] BY <1>3, <1>8, <3>2
      <4>2. \A q \in Pids : (cpc[q] = "flush" /\ serving[q] = m) => cpc'[q] = "flush"
        BY <1>3, <3>2
      <4> QED BY <1>0, <4>1, <4>2 DEF Kept
    <3> QED BY <3>1, <3>2
  <2>3. \A q \in Pids : (cpc'[q] = "remove" /\ fd'[q] = m) =>
                           m \in torn' \/ reply'[serving'[q]] = m
    BY <1>0, <1>3 DEF Kept
  <2> QED BY <2>1, <2>2, <2>3
<1>10. Walked' /\ Ordered'
  <2>1. LeavesWalks
    BY <1>0, <1>3, <1>11 DEF LeavesWalks, AfterScan, AfterWalk
  <2> QED BY <1>0, <2>1, WalksKept, OrderKept
<1> QED BY <1>5, <1>6, <1>7, <1>9, <1>10

\* What a reader's step leaves alone.  It changes the places of that one child.
Reads(p, from, next) ==
    /\ cpc[p] = from /\ cpc' = [cpc EXCEPT ![p] = next]
    /\ UNCHANGED <<request, client, serving, content, mtime, now, createdAt, pidOf>>

LEMMA ReaderFacts ==
  ASSUME OwnInv, LossInv, NEW p \in Pids, NEW from \in Cpcs \ {"free"}, NEW next, Reads(p, from, next)
  PROVE  /\ cpc'[p] = next /\ \A q \in Pids \ {p} : cpc'[q] = cpc[q]
         /\ \A q \in Pids : User(q)' = User(q)
         /\ \A e \in Clients : \A u, q : Posted(e, u, q)' <=> Posted(e, u, q)
         /\ \A m \in Clients : Unique(m)' <=> Unique(m)
         /\ serving[p] \in Clients /\ pidOf[serving[p]] = p /\ User(p) \in Users
         /\ \A q \in Pids : (q # p /\ cpc[q] # "free") => serving[q] # serving[p]
         /\ Timed'
<1>1. cpc \in [Pids -> Cpcs] BY DEF OwnInv, TypeOK
<1>2. cpc[p] # "free" BY DEF Reads
<1> QED BY <1>1, <1>2, Serves DEF Reads, User, Posted, Unique, NameReused, SameName, Timed,
           LossInv, TraceInv

\* The walk begins: every name is ahead and nothing has been kept.
LEMMA GetScanKeepsLossInv ==
  ASSUME OwnInv, OwnInv', LossInv, NEW p \in Pids, GetScan(p)
  PROVE  LossInv'
<1> DEFINE c == serving[p]
<1>0. /\ Reads(p, "scan", "walk")
      /\ ahead' = [ahead EXCEPT ![p] = Pids] /\ there' = [there EXCEPT ![c] = FilesOf(User(p))]
      /\ UNCHANGED <<reply, oldest, least, fd, dir, torn>>
  BY DEF GetScan, GoTo, Running, clientVars, fileVars, Reads
<1>2. UNCHANGED <<request, client, serving, content, mtime, now, createdAt, pidOf>> /\ cpc[p] = "scan"
  BY <1>0 DEF Reads
<1>3. /\ cpc'[p] = "walk" /\ \A q \in Pids \ {p} : cpc'[q] = cpc[q]
      /\ \A q \in Pids : User(q)' = User(q)
      /\ \A m \in Clients : Unique(m)' <=> Unique(m)
      /\ c \in Clients /\ User(p) \in Users /\ Timed'
      /\ \A q \in Pids : (q # p /\ cpc[q] # "free") => serving[q] # c
  BY <1>0, ReaderFacts DEF Cpcs
<1> USE DEF LossInv, TraceInv
<1>4. /\ ahead'[p] = Pids /\ \A q \in Pids \ {p} : ahead'[q] = ahead[q]
      /\ there'[c] = FilesOf(User(p)) /\ \A d \in Clients \ {c} : there'[d] = there[d]
      /\ oldest[p] = None /\ reply[c] = "none"
  BY <1>0, <1>2, <1>3 DEF OwnInv, TypeOK, Walked, Served, BeforeSend
<1>5. Served'
  BY <1>0, <1>2, <1>3 DEF Served, BeforeSend
<1>6. Traced'
  <2>1. /\ \A n \in Names : dir'[n] # NoFile =>
                           Posted(dir[n], n[1], n[2])' /\ createdAt'[dir'[n]] > 0
        /\ \A e \in Clients : content'[e] # Empty =>
             /\ request'[content'[e]] = request'[e] /\ pidOf'[content'[e]] = pidOf'[e]
             /\ pidOf'[e] # None /\ createdAt'[content'[e]] > 0
        /\ \A d \in Clients : reply'[d] \in Clients => createdAt'[reply'[d]] > 0
    BY <1>0, <1>2 DEF Traced, Posted
  <2>2. \A q \in Pids : cpc'[q] = "flush" =>
                          Posted(fd[q], User(q), q)' /\ createdAt'[serving'[q]] > 0
    BY <1>0, <1>2, <1>3 DEF Traced, Posted
  <2>3. \A q \in Pids : (cpc'[q] \in AfterScan /\ oldest'[q] # None) =>
                          \E e \in Clients : Posted(e, User(q), oldest[q])' /\ createdAt'[e] > 0
    BY <1>0, <1>2, <1>3, <1>4 DEF Traced, Posted
  <2>4. \A q \in Pids : cpc'[q] \in {"read", "remove"} => Posted(fd[q], User(q), oldest[q])'
    BY <1>0, <1>2, <1>3 DEF Traced, Posted
  <2> QED BY <2>1, <2>2, <2>3, <2>4 DEF Traced
<1>7. \A m \in Clients : (InMailbox(m)' <=> InMailbox(m)) /\ (Sent(m)' <=> Sent(m))
  BY <1>0, <1>2 DEF InMailbox, Sent
<1>8. Kept'
  <2>1. \A q \in Pids : (cpc'[q] \in {"flush", "remove"} \/ cpc[q] \in {"flush", "remove"}) => cpc'[q] = cpc[q]
    BY <1>2, <1>3
  <2> QED BY <1>0, <1>2, <1>3, <1>7, <2>1 DEF Kept
<1>9. Walked'
  <2>1. \A q \in Pids : /\ oldest'[q] = None <=> least'[q] = 0
                        /\ cpc'[q] \in {"recv", "scan"} => oldest'[q] = None
                        /\ cpc'[q] \in AfterWalk => ahead'[q] = {}
    BY <1>0, <1>3, <1>4 DEF Walked, AfterWalk
  <2>2. \A d, m \in Clients : m \in there'[d] => createdAt'[m] > 0
    <3>1. ASSUME NEW m \in FilesOf(User(p)) PROVE createdAt[m] > 0
      <4>1. PICK q \in Pids : m = dir[<<User(p), q>>] /\ m # NoFile BY DEF FilesOf
      <4>2. <<User(p), q>> \in Names BY <1>3 DEF Names
      <4> QED BY <4>1, <4>2 DEF Traced
    <3> QED BY <1>2, <1>3, <1>4, <3>1 DEF Walked
  <2>3. \A n \in Names : dir'[n] # NoFile => mtime'[dir'[n]] > 0
    BY <1>0, <1>2 DEF Walked
  <2>4. ASSUME NEW q \in Pids, NEW n \in Clients, Unique(n)', Chosen(q, n)'
        PROVE  createdAt'[n] <= least'[q]
    <3>1. q # p BY <1>0, <1>4, <2>4 DEF Chosen
    <3>2. Unique(n) /\ Chosen(q, n) BY <1>0, <1>2, <1>3, <2>4, <3>1 DEF Chosen
    <3> QED BY <1>0, <1>2, <3>2 DEF Walked
  <2>5. ASSUME NEW q \in Pids, NEW m \in Clients, Unique(m)', InMailbox(m)', CameBy(q, m)'
        PROVE  oldest'[q] # None /\ least'[q] <= mtime'[m]
    <3>1. Unique(m) /\ InMailbox(m) BY <1>3, <1>7, <2>5
    <3>2. pidOf[m] \in Pids
      <4>1. PICK r \in Pids : dir[<<request[m].user, r>>] = m BY <3>1 DEF InMailbox
      <4>2. <<request[m].user, r>> \in Names BY DEF OwnInv, TypeOK, Request, Names
      <4> QED BY <4>1, <4>2, NoneAssumption DEF Traced, Posted, NoFile
    <3>3. q # p BY <1>2, <1>4, <2>5, <3>2 DEF CameBy
    <3>4. cpc[q] \in AfterScan BY <1>3, <2>5, <3>3 DEF CameBy
    <3>5. serving[q] \in Clients \ {c}
      BY <1>3, <3>3, <3>4 DEF AfterScan, AfterWalk, OwnInv, ChildTyped
    <3>6. CameBy(q, m) BY <1>2, <1>3, <1>4, <2>5, <3>3, <3>4, <3>5 DEF CameBy
    <3> QED BY <1>0, <1>2, <3>1, <3>6 DEF Walked
  <2> QED BY <2>1, <2>2, <2>3, <2>4, <2>5 DEF Walked
<1>10. Ordered'
  <2>1. \A d, n \in Clients : reply'[d] = n => d # c
    BY <1>0, <1>4, ClientsAssumption
  <2> QED BY <1>0, <1>2, <1>3, <1>4, <1>7, <2>1 DEF Ordered
<1> QED BY <1>3, <1>5, <1>6, <1>8, <1>9, <1>10

\* What the walk keeps: the least time so far, of the file that now has that name.
Keeps(p, q, f) == /\ oldest' = [oldest EXCEPT ![p] = q] /\ least' = [least EXCEPT ![p] = mtime[f]]
                  /\ f # NoFile /\ Older(p, f)
Passes(p, f) == /\ UNCHANGED <<oldest, least>>
                /\ f = NoFile \/ (least[p] # 0 /\ ~(mtime[f] < least[p]))

\* One name of the walk: what is kept was begun no later than its file was changed, and
\* nothing of its own name that the walk has come by was changed before.
LEMMA GetStatKeepsLossInv ==
  ASSUME OwnInv, OwnInv', LossInv, NEW p \in Pids, NEW q \in Pids, GetStat(p, q)
  PROVE  LossInv'
<1> DEFINE c == serving[p]
           f == dir[<<User(p), q>>]
           next == IF ahead[p] = {q} THEN "access" ELSE "walk"
<1>0. /\ Reads(p, "walk", next) /\ q \in ahead[p]
      /\ ahead' = [ahead EXCEPT ![p] = ahead[p] \ {q}]
      /\ Keeps(p, q, f) \/ Passes(p, f)
      /\ UNCHANGED <<reply, fd, dir, torn, there>>
  BY DEF GetStat, GoTo, Running, clientVars, fileVars, history, Reads, Keeps, Passes, Older
<1>2. UNCHANGED <<request, client, serving, content, mtime, now, createdAt, pidOf>> /\ cpc[p] = "walk"
  BY <1>0 DEF Reads
<1>3. /\ cpc'[p] = next /\ \A r \in Pids \ {p} : cpc'[r] = cpc[r]
      /\ \A r \in Pids : User(r)' = User(r)
      /\ \A m \in Clients : Unique(m)' <=> Unique(m)
      /\ c \in Clients /\ User(p) \in Users /\ Timed'
  <2>1. "walk" \in Cpcs \ {"free"} BY DEF Cpcs
  <2>2. Reads(p, "walk", next) BY <1>0
  <2> HIDE <1>0 DEF f, next
  <2> QED BY <2>1, <2>2, ReaderFacts
<1>4. next \in {"walk", "access"} /\ (next = "access" <=> ahead[p] = {q})
  OBVIOUS
<1> HIDE DEF next
<1> USE DEF LossInv, TraceInv
<1>5. /\ ahead'[p] = ahead[p] \ {q} /\ \A r \in Pids \ {p} : ahead'[r] = ahead[r]
      /\ \A r \in Pids \ {p} : oldest'[r] = oldest[r] /\ least'[r] = least[r]
      /\ Keeps(p, q, f) => oldest'[p] = q /\ least'[p] = mtime[f]
      /\ Passes(p, f) => oldest'[p] = oldest[p] /\ least'[p] = least[p]
  BY <1>0 DEF OwnInv, TypeOK, Keeps, Passes
<1>6. /\ <<User(p), q>> \in Names
      /\ f # NoFile => /\ f \in Clients /\ Posted(f, User(p), q) /\ createdAt[f] > 0
                       /\ mtime[f] \in Nat /\ mtime[f] > 0
  <2>1. <<User(p), q>> \in Names BY <1>3 DEF Names
  <2> QED BY <2>1 DEF OwnInv, TypeOK, Traced, Walked, NoFile
<1>7. Served'
  BY <1>0, <1>2, <1>3, <1>4 DEF Served, BeforeSend
<1>8. Traced'
  <2>1. /\ \A n \in Names : dir'[n] # NoFile =>
                           Posted(dir[n], n[1], n[2])' /\ createdAt'[dir'[n]] > 0
        /\ \A e \in Clients : content'[e] # Empty =>
             /\ request'[content'[e]] = request'[e] /\ pidOf'[content'[e]] = pidOf'[e]
             /\ pidOf'[e] # None /\ createdAt'[content'[e]] > 0
        /\ \A d \in Clients : reply'[d] \in Clients => createdAt'[reply'[d]] > 0
    BY <1>0, <1>2 DEF Traced, Posted
  <2>2. \A r \in Pids : cpc'[r] = "flush" =>
                          Posted(fd[r], User(r), r)' /\ createdAt'[serving'[r]] > 0
    BY <1>0, <1>2, <1>3, <1>4 DEF Traced, Posted
  <2>3. ASSUME NEW r \in Pids, cpc'[r] \in AfterScan, oldest'[r] # None
        PROVE  \E e \in Clients : Posted(e, User(r), oldest[r])' /\ createdAt'[e] > 0
    <3>1. CASE r = p /\ Keeps(p, q, f)
      BY <1>2, <1>3, <1>5, <1>6, <3>1 DEF Posted, Keeps
    <3>2. CASE r # p \/ Passes(p, f)
      <4>1. cpc[r] \in AfterScan /\ oldest'[r] = oldest[r]
        BY <1>2, <1>3, <1>5, <2>3, <3>2 DEF AfterScan
      <4> QED BY <1>2, <1>3, <2>3, <4>1 DEF Traced, Posted
    <3> QED BY <1>0, <3>1, <3>2
  <2>4. \A r \in Pids : cpc'[r] \in {"read", "remove"} => Posted(fd[r], User(r), oldest[r])'
    BY <1>0, <1>2, <1>3, <1>4, <1>5 DEF Traced, Posted
  <2> QED BY <2>1, <2>2, <2>3, <2>4 DEF Traced
<1>9. \A m \in Clients : (InMailbox(m)' <=> InMailbox(m)) /\ (Sent(m)' <=> Sent(m))
  BY <1>0, <1>2 DEF InMailbox, Sent
<1>10. Kept'
  <2>1. \A r \in Pids : (cpc'[r] \in {"flush", "remove"} \/ cpc[r] \in {"flush", "remove"}) => cpc'[r] = cpc[r]
    BY <1>2, <1>3, <1>4
  <2> QED BY <1>0, <1>2, <1>3, <1>9, <2>1 DEF Kept
\* the two facts of this child's walk
<1>11. ASSUME NEW n \in Clients, Unique(n), Chosen(p, n)'
       PROVE  createdAt[n] <= least'[p]
  <2>1. oldest'[p] # None /\ oldest'[p] = pidOf[n] /\ User(p) = request[n].user
    BY <1>2, <1>3, <1>11 DEF Chosen
  <2>2. CASE Keeps(p, q, f)
    <3>1. n = f BY <1>5, <1>6, <1>11, <2>1, <2>2, OwnName DEF OwnInv, Keeps
    <3> QED BY <1>5, <1>11, <2>2, <3>1 DEF Ordered
  <2>3. CASE Passes(p, f)
    <3>1. Chosen(p, n) BY <1>2, <1>5, <2>1, <2>3 DEF Chosen, AfterScan
    <3> QED BY <1>5, <1>11, <2>3, <3>1 DEF Walked
  <2> QED BY <1>0, <2>2, <2>3
<1>12. ASSUME NEW m \in Clients, Unique(m), InMailbox(m), CameBy(p, m)'
       PROVE  oldest'[p] # None /\ least'[p] <= mtime[m]
  <2>1. /\ User(p) = request[m].user /\ m \in there[c]
        /\ pidOf[m] = q \/ pidOf[m] \notin ahead[p]
    BY <1>0, <1>2, <1>3, <1>5, <1>12 DEF CameBy
  <2>2. pidOf[m] = q => f = m
    <3>1. PICK r \in Pids : dir[<<request[m].user, r>>] = m BY <1>12 DEF InMailbox
    <3>2. <<request[m].user, r>> \in Names BY DEF OwnInv, TypeOK, Request, Names
    <3>3. pidOf[m] = r BY <3>1, <3>2, NoneAssumption DEF Traced, Posted, NoFile
    <3> QED BY <2>1, <3>1, <3>3
  <2>3. pidOf[m] # q => oldest[p] # None /\ least[p] <= mtime[m]
    BY <1>2, <1>12, <2>1 DEF Walked, CameBy, AfterScan
  <2>4. least[p] \in Nat /\ mtime[m] \in Nat /\ m # NoFile /\ q # None
    BY NoneAssumption DEF OwnInv, TypeOK, NoFile
  <2>5. CASE Keeps(p, q, f)
    <3>1. CASE pidOf[m] = q BY <1>5, <2>2, <2>4, <2>5, <3>1
    <3>2. CASE pidOf[m] # q
      <4>1. Older(p, f) /\ least[p] # 0
        BY <2>3, <2>5, <3>2 DEF Keeps, Walked
      <4> QED BY <1>5, <1>6, <2>3, <2>4, <2>5, <3>2, <4>1 DEF Keeps, Older
    <3> QED BY <3>1, <3>2
  <2>6. CASE Passes(p, f)
    <3>1. CASE pidOf[m] = q
      <4>1. least[p] # 0 /\ ~(mtime[m] < least[p]) BY <2>2, <2>4, <2>6, <3>1 DEF Passes
      <4>2. oldest[p] # None BY <4>1 DEF Walked
      <4> QED BY <1>5, <2>4, <2>6, <4>1, <4>2
    <3>2. CASE pidOf[m] # q BY <1>5, <2>3, <2>6, <3>2
    <3> QED BY <3>1, <3>2
  <2> QED BY <1>0, <2>5, <2>6
<1>13. Walked'
  <2>1. ASSUME NEW r \in Pids
        PROVE  /\ oldest'[r] = None <=> least'[r] = 0
               /\ cpc'[r] \in {"recv", "scan"} => oldest'[r] = None
               /\ cpc'[r] \in AfterWalk => ahead'[r] = {}
    <3>1. CASE r # p BY <1>3, <1>5, <3>1 DEF Walked
    <3>2. CASE r = p
      <4>1. oldest'[p] = None <=> least'[p] = 0
        BY <1>0, <1>5, <1>6, NoneAssumption DEF Walked, Keeps
      <4>2. cpc'[p] \in AfterWalk => ahead'[p] = {}
        BY <1>3, <1>4, <1>5 DEF AfterWalk
      <4> QED BY <1>3, <1>4, <3>2, <4>1, <4>2
    <3> QED BY <3>1, <3>2
  <2>2. /\ \A d, m \in Clients : m \in there'[d] => createdAt'[m] > 0
        /\ \A n \in Names : dir'[n] # NoFile => mtime'[dir'[n]] > 0
    BY <1>0, <1>2 DEF Walked
  <2>3. \A r \in Pids, n \in Clients : (Unique(n)' /\ Chosen(r, n)') => createdAt'[n] <= least'[r]
    <3>1. \A r \in Pids \ {p}, n \in Clients : Chosen(r, n)' => Chosen(r, n)
      BY <1>2, <1>3, <1>5 DEF Chosen
    <3> QED BY <1>2, <1>3, <1>5, <1>11, <3>1 DEF Walked
  <2>4. \A r \in Pids, m \in Clients : (Unique(m)' /\ InMailbox(m)' /\ CameBy(r, m)') =>
                                         oldest'[r] # None /\ least'[r] <= mtime'[m]
    <3>1. \A r \in Pids \ {p}, m \in Clients : CameBy(r, m)' => CameBy(r, m)
      BY <1>0, <1>2, <1>3, <1>5 DEF CameBy
    <3> QED BY <1>2, <1>3, <1>5, <1>9, <1>12, <3>1 DEF Walked
  <2> QED BY <2>1, <2>2, <2>3, <2>4 DEF Walked
<1>14. Ordered'
  BY <1>0, <1>2, <1>3, <1>9 DEF Ordered
<1> QED BY <1>3, <1>7, <1>8, <1>10, <1>13, <1>14

\* The inode that is opened has the name that was chosen.
LEMMA GetOpenKeepsLossInv ==
  ASSUME OwnInv, OwnInv', LossInv, NEW p \in Pids, GetOpen(p)
  PROVE  LossInv'
<1> DEFINE name == <<User(p), oldest[p]>>
<1>0. /\ Reads(p, "open", "read") /\ Found(p) /\ fd' = [fd EXCEPT ![p] = dir[name]]
      /\ UNCHANGED <<reply, oldest, ahead, least, dir, torn, there>>
  BY DEF GetOpen, GoTo, Running, clientVars, walkVars, fileVars, history, Reads
<1>2. UNCHANGED <<request, client, serving, content, mtime, now, createdAt, pidOf>> /\ cpc[p] = "open"
  BY <1>0 DEF Reads
<1>3. /\ cpc'[p] = "read" /\ \A q \in Pids \ {p} : cpc'[q] = cpc[q]
      /\ \A q \in Pids : User(q)' = User(q)
      /\ \A m \in Clients : Unique(m)' <=> Unique(m)
      /\ User(p) \in Users /\ Timed'
  BY <1>0, ReaderFacts DEF Cpcs
<1> USE DEF LossInv, TraceInv
<1>4. /\ name \in Names /\ dir[name] # NoFile
      /\ fd'[p] = dir[name] /\ \A q \in Pids \ {p} : fd'[q] = fd[q]
  BY <1>0, <1>3 DEF OwnInv, TypeOK, Found, Names
<1>5. Posted(dir[name], User(p), oldest[p])
  BY <1>4 DEF Traced
<1>6. Served'
  BY <1>0, <1>2, <1>3 DEF Served, BeforeSend
<1>7. Traced'
  <2>1. /\ \A n \in Names : dir'[n] # NoFile =>
                           Posted(dir[n], n[1], n[2])' /\ createdAt'[dir'[n]] > 0
        /\ \A e \in Clients : content'[e] # Empty =>
             /\ request'[content'[e]] = request'[e] /\ pidOf'[content'[e]] = pidOf'[e]
             /\ pidOf'[e] # None /\ createdAt'[content'[e]] > 0
        /\ \A d \in Clients : reply'[d] \in Clients => createdAt'[reply'[d]] > 0
    BY <1>0, <1>2 DEF Traced, Posted
  <2>2. \A q \in Pids : cpc'[q] = "flush" =>
                          Posted(fd[q], User(q), q)' /\ createdAt'[serving'[q]] > 0
    BY <1>0, <1>2, <1>3, <1>4 DEF Traced, Posted
  <2>3. \A q \in Pids : (cpc'[q] \in AfterScan /\ oldest'[q] # None) =>
                          \E e \in Clients : Posted(e, User(q), oldest[q])' /\ createdAt'[e] > 0
    BY <1>0, <1>2, <1>3 DEF Traced, Posted, AfterScan, AfterWalk
  <2>4. \A q \in Pids : cpc'[q] \in {"read", "remove"} => Posted(fd[q], User(q), oldest[q])'
    BY <1>0, <1>2, <1>3, <1>4, <1>5 DEF Traced, Posted
  <2> QED BY <2>1, <2>2, <2>3, <2>4 DEF Traced
<1>8. \A m \in Clients : (InMailbox(m)' <=> InMailbox(m)) /\ (Sent(m)' <=> Sent(m))
  BY <1>0, <1>2 DEF InMailbox, Sent
<1>9. Kept'
  <2>1. \A q \in Pids : (cpc'[q] \in {"flush", "remove"} \/ cpc[q] \in {"flush", "remove"}) =>
                          q # p /\ cpc'[q] = cpc[q] /\ fd'[q] = fd[q]
    BY <1>2, <1>3, <1>4
  <2> QED BY <1>0, <1>2, <1>3, <1>8, <2>1 DEF Kept
<1>10. Walked' /\ Ordered'
  <2>1. \A m \in Clients : mtime[m] \in Nat BY DEF OwnInv, TypeOK
  <2>2. LeavesWalks
    BY <1>0, <1>2, <1>3, <2>1 DEF LeavesWalks, walkVars, AfterScan, AfterWalk
  <2> QED BY <1>0, <2>2, WalksKept, OrderKept
<1> QED BY <1>3, <1>6, <1>7, <1>9, <1>10

\* The message of an inode of its own is what is read from it, or it is empty; and what
\* is sent is of the name that was chosen.
LEMMA GetReadKeepsLossInv ==
  ASSUME OwnInv, OwnInv', LossInv, NEW p \in Pids, GetRead(p)
  PROVE  LossInv'
<1> DEFINE c == serving[p]
           e == fd[p]
           k == content[e]
<1>0. /\ Reads(p, "read", "remove")
      /\ \/ k = Empty /\ reply' = reply /\ torn' = torn \cup {e}
         \/ k # Empty /\ Send(c, k) /\ torn' = torn
      /\ UNCHANGED <<oldest, ahead, least, fd, dir, there>>
  BY DEF GetRead, GoTo, Running, clientVars, walkVars, fileVars, history, Reads
<1>2. UNCHANGED <<request, client, serving, content, mtime, now, createdAt, pidOf>> /\ cpc[p] = "read"
  BY <1>0 DEF Reads
<1>3. /\ cpc'[p] = "remove" /\ \A q \in Pids \ {p} : cpc'[q] = cpc[q]
      /\ \A q \in Pids : User(q)' = User(q)
      /\ \A m \in Clients : Unique(m)' <=> Unique(m)
      /\ c \in Clients /\ Timed'
      /\ \A q \in Pids : (q # p /\ cpc[q] # "free") => serving[q] # c
  <2>1. "read" \in Cpcs \ {"free"} BY DEF Cpcs
  <2>2. Reads(p, "read", "remove") BY <1>0
  <2> HIDE <1>0 DEF e, k
  <2> QED BY <2>1, <2>2, ReaderFacts
<1> USE DEF LossInv, TraceInv
<1>4. /\ e \in Clients /\ Posted(e, User(p), oldest[p]) /\ oldest[p] # None
      /\ reply[c] = "none" /\ client[c] = "accepted"
  BY <1>2, NoneAssumption DEF OwnInv, ChildTyped, Traced, Served, BeforeSend
<1>5. k # Empty => /\ k \in Clients /\ Posted(k, User(p), oldest[p])
                   /\ createdAt[k] > 0 /\ reply'[c] = k
  <2> SUFFICES ASSUME k # Empty
               PROVE  k \in Clients /\ Posted(k, User(p), oldest[p]) /\ createdAt[k] > 0 /\ reply'[c] = k
    OBVIOUS
  <2>1. k \in Clients BY <1>4 DEF OwnInv, TypeOK, Empty
  <2>2. reply'[c] = k BY <1>0, <1>3, <1>4 DEF Send, OwnInv, TypeOK
  <2> QED BY <1>4, <2>1, <2>2 DEF Traced, Posted
<1>6. /\ \A d \in Clients \ {c} : reply'[d] = reply[d]
      /\ k = Empty => reply' = reply
      /\ torn \subseteq torn' /\ (k = Empty => e \in torn')
  BY <1>0 DEF Send, OwnInv, TypeOK
<1> HIDE DEF k
<1>7. Served'
  <2>1. \A d \in Clients : client'[d] # "accepted" =>
                             pidOf'[d] = None /\ reply'[d] = "none" /\ createdAt'[d] = 0
    BY <1>2, <1>4, <1>6 DEF Served
  <2>2. \A q \in Pids : cpc'[q] # "free" =>
                          pidOf'[serving'[q]] = q /\ client'[serving'[q]] = "accepted"
    BY <1>2, <1>3 DEF Served
  <2>3. \A q \in Pids : cpc'[q] \in BeforeSend => reply'[serving'[q]] = "none"
    <3> SUFFICES ASSUME NEW q \in Pids, cpc'[q] \in BeforeSend
                 PROVE  reply'[serving[q]] = "none"
      BY <1>2
    <3>1. q # p /\ cpc[q] \in BeforeSend /\ cpc[q] # "free" BY <1>3 DEF BeforeSend
    <3>2. serving[q] \in Clients \ {c} BY <1>3, <3>1 DEF OwnInv, ChildTyped
    <3> QED BY <1>6, <3>1, <3>2 DEF Served
  <2>4. \A q \in Pids : cpc'[q] \in {"recv", "create"} => createdAt'[serving'[q]] = 0
    BY <1>2, <1>3 DEF Served
  <2> QED BY <2>1, <2>2, <2>3, <2>4 DEF Served
<1>8. Traced'
  <2>1. /\ \A n \in Names : dir'[n] # NoFile =>
                           Posted(dir[n], n[1], n[2])' /\ createdAt'[dir'[n]] > 0
        /\ \A j \in Clients : content'[j] # Empty =>
             /\ request'[content'[j]] = request'[j] /\ pidOf'[content'[j]] = pidOf'[j]
             /\ pidOf'[j] # None /\ createdAt'[content'[j]] > 0
    BY <1>0, <1>2 DEF Traced, Posted
  <2>2. \A q \in Pids : cpc'[q] = "flush" =>
                          Posted(fd[q], User(q), q)' /\ createdAt'[serving'[q]] > 0
    BY <1>0, <1>2, <1>3 DEF Traced, Posted
  <2>3. \A q \in Pids : (cpc'[q] \in AfterScan /\ oldest'[q] # None) =>
                          \E j \in Clients : Posted(j, User(q), oldest[q])' /\ createdAt'[j] > 0
    BY <1>0, <1>2, <1>3 DEF Traced, Posted, AfterScan, AfterWalk
  <2>4. \A q \in Pids : cpc'[q] \in {"read", "remove"} => Posted(fd[q], User(q), oldest[q])'
    BY <1>0, <1>2, <1>3 DEF Traced, Posted
  <2>5. \A d \in Clients : reply'[d] \in Clients => createdAt'[reply'[d]] > 0
    BY <1>2, <1>5, <1>6 DEF Traced
  <2> QED BY <2>1, <2>2, <2>3, <2>4, <2>5 DEF Traced
<1>9. \A m \in Clients : (InMailbox(m)' <=> InMailbox(m)) /\ (Sent(m) => Sent(m)')
  <2>1. \A m, d \in Clients : reply[d] = m => reply'[d] = m
    BY <1>4, <1>6, ClientsAssumption
  <2> QED BY <1>0, <1>2, <2>1 DEF InMailbox, Sent
<1>10. ASSUME NEW m \in Clients, Unique(m), m = k \/ m = e PROVE m = e /\ (k # Empty => m = k)
  BY <1>4, <1>5, <1>10, OwnName, NoneAssumption DEF OwnInv, Posted, Empty
<1>11. Kept'
  <2> SUFFICES ASSUME NEW m \in Clients, Unique(m)
               PROVE  /\ createdAt'[m] > 0 => InMailbox(m)' \/ Sent(m)' \/ m \in torn'
                      /\ createdAt'[m] > 0 => \/ content'[m] = m
                                              \/ \E q \in Pids : cpc'[q] = "flush" /\ serving'[q] = m
                      /\ \A q \in Pids : (cpc'[q] = "remove" /\ fd'[q] = m) =>
                                            m \in torn' \/ reply'[serving'[q]] = m
    BY <1>3 DEF Kept
  <2>1. createdAt'[m] > 0 => InMailbox(m)' \/ Sent(m)' \/ m \in torn'
    BY <1>2, <1>6, <1>9 DEF Kept
  <2>2. createdAt'[m] > 0 => \/ content'[m] = m
                             \/ \E q \in Pids : cpc'[q] = "flush" /\ serving'[q] = m
    <3>1. \A q \in Pids : cpc[q] = "flush" => cpc'[q] = "flush"
      BY <1>2, <1>3
    <3> QED BY <1>2, <3>1 DEF Kept
  <2>3. ASSUME NEW q \in Pids, cpc'[q] = "remove", fd'[q] = m
        PROVE  m \in torn' \/ reply'[serving'[q]] = m
    <3>1. CASE q = p
      BY <1>0, <1>2, <1>5, <1>6, <1>10, <2>3, <3>1
    <3>2. CASE q # p
      <4>1. cpc[q] = "remove" /\ fd[q] = m BY <1>0, <1>3, <2>3, <3>2
      <4>2. serving[q] \in Clients \ {c} BY <1>3, <3>2, <4>1 DEF OwnInv, ChildTyped
      <4> QED BY <1>2, <1>6, <4>1, <4>2 DEF Kept
    <3> QED BY <3>1, <3>2
  <2> QED BY <2>1, <2>2, <2>3
<1>12. LeavesWalks
  <2>1. \A m \in Clients : mtime[m] \in Nat BY DEF OwnInv, TypeOK
  <2> QED BY <1>0, <1>2, <1>3, <2>1 DEF LeavesWalks, walkVars, AfterScan, AfterWalk
<1>13. Walked' /\ Ordered'
  <2>1. CASE k = Empty
    BY <1>6, <1>12, <2>1, WalksKept, OrderKept
  <2>2. CASE k # Empty
    <3>1. Chosen(p, k)
      BY <1>2, <1>4, <1>5, <2>2 DEF Chosen, AfterScan, AfterWalk, Posted
    <3>2. ASSUME NEW m \in Clients, Unique(m), Unique(k), request[m] = request[k], InMailbox(m),
                 m \in there[c]
          PROVE  mtime[m] >= createdAt[k]
      <4>1. ahead[p] = {} BY <1>2 DEF Walked, AfterWalk
      <4>2. CameBy(p, m)
        BY <1>2, <3>1, <3>2, <4>1 DEF CameBy, Chosen, AfterScan, AfterWalk
      <4>3. least[p] <= mtime[m] BY <3>2, <4>2 DEF Walked
      <4>4. createdAt[k] <= least[p] BY <1>5, <2>2, <3>1, <3>2 DEF Walked
      <4>5. createdAt[k] \in Nat /\ least[p] \in Nat /\ mtime[m] \in Nat
        BY <1>5, <2>2 DEF OwnInv, TypeOK
      <4> QED BY <4>3, <4>4, <4>5
    <3>3. ASSUME NEW d \in Clients, NEW m \in Clients, NEW n \in Clients, Unique(m)', Unique(n)',
                 request'[m] = request'[n], InMailbox(m)', m \in there'[d], reply'[d] = n
          PROVE  mtime'[m] >= createdAt'[n]
      <4>1. Unique(m) /\ Unique(n) /\ request[m] = request[n] /\ InMailbox(m) /\ m \in there[d]
        BY <1>0, <1>2, <1>3, <1>9, <3>3
      <4>2. CASE d = c BY <1>2, <1>5, <2>2, <3>2, <3>3, <4>1, <4>2
      <4>3. CASE d # c BY <1>2, <1>6, <3>3, <4>1, <4>3 DEF Ordered
      <4> QED BY <4>2, <4>3
    <3>4. \A m \in Clients : Unique(m)' => createdAt'[m] <= mtime'[m]
      BY <1>2, <1>3 DEF Ordered
    <3> QED BY <1>12, <3>3, <3>4, WalksKept DEF Ordered
  <2> QED BY <2>1, <2>2
<1> QED BY <1>3, <1>7, <1>8, <1>11, <1>13

\* The name that is removed is that of the file that was read.
LEMMA GetRemoveKeepsLossInv ==
  ASSUME OwnInv, OwnInv', LossInv, NEW p \in Pids, GetRemove(p)
  PROVE  LossInv'
<1> DEFINE name == <<User(p), oldest[p]>>
<1>0. /\ Reads(p, "remove", "reply") /\ dir' = [dir EXCEPT ![name] = NoFile]
      /\ UNCHANGED <<reply, oldest, ahead, least, fd, torn, there>>
  BY DEF GetRemove, GoTo, Running, clientVars, walkVars, history, Reads
<1>2. UNCHANGED <<request, client, serving, content, mtime, now, createdAt, pidOf>> /\ cpc[p] = "remove"
  BY <1>0 DEF Reads
<1>3. /\ cpc'[p] = "reply" /\ \A q \in Pids \ {p} : cpc'[q] = cpc[q]
      /\ \A q \in Pids : User(q)' = User(q)
      /\ \A m \in Clients : Unique(m)' <=> Unique(m)
      /\ serving[p] \in Clients /\ Timed'
  BY <1>0, ReaderFacts DEF Cpcs
<1> USE DEF LossInv, TraceInv
<1>4. /\ fd[p] \in Clients /\ Posted(fd[p], User(p), oldest[p]) /\ oldest[p] # None
      /\ \A n \in Names : dir'[n] = IF n = name THEN NoFile ELSE dir[n]
  BY <1>0, <1>2, NoneAssumption DEF OwnInv, TypeOK, ChildTyped, Traced
<1>5. Served'
  BY <1>0, <1>2, <1>3 DEF Served, BeforeSend
<1>6. Traced'
  <2>1. /\ \A e \in Clients : content'[e] # Empty =>
             /\ request'[content'[e]] = request'[e] /\ pidOf'[content'[e]] = pidOf'[e]
             /\ pidOf'[e] # None /\ createdAt'[content'[e]] > 0
        /\ \A d \in Clients : reply'[d] \in Clients => createdAt'[reply'[d]] > 0
    BY <1>0, <1>2 DEF Traced
  <2>2. \A n \in Names : dir'[n] # NoFile =>
                           Posted(dir[n], n[1], n[2])' /\ createdAt'[dir'[n]] > 0
    BY <1>2, <1>4 DEF Traced, Posted
  <2>3. \A q \in Pids : cpc'[q] = "flush" =>
                          Posted(fd[q], User(q), q)' /\ createdAt'[serving'[q]] > 0
    BY <1>0, <1>2, <1>3 DEF Traced, Posted
  <2>4. \A q \in Pids : (cpc'[q] \in AfterScan /\ oldest'[q] # None) =>
                          \E e \in Clients : Posted(e, User(q), oldest[q])' /\ createdAt'[e] > 0
    BY <1>0, <1>2, <1>3 DEF Traced, Posted, AfterScan, AfterWalk
  <2>5. \A q \in Pids : cpc'[q] \in {"read", "remove"} => Posted(fd[q], User(q), oldest[q])'
    BY <1>0, <1>2, <1>3 DEF Traced, Posted
  <2> QED BY <2>1, <2>2, <2>3, <2>4, <2>5 DEF Traced
<1>7. \A m \in Clients : Sent(m)' <=> Sent(m)
  BY <1>0 DEF Sent
<1>8. \A m \in Clients, q \in Pids : <<request[m].user, q>> \in Names
  BY DEF OwnInv, TypeOK, Request, Names
<1>9. \A m \in Clients : InMailbox(m)' => InMailbox(m)
  BY <1>2, <1>4, <1>8, NoneAssumption DEF InMailbox, NoFile
<1>10. ASSUME NEW m \in Clients, Unique(m), InMailbox(m)
       PROVE  InMailbox(m)' \/ Sent(m) \/ m \in torn
  <2>1. PICK q \in Pids : dir[<<request[m].user, q>>] = m BY <1>10 DEF InMailbox
  <2>2. CASE <<request[m].user, q>> # name
    BY <1>2, <1>4, <1>8, <2>1, <2>2 DEF InMailbox
  <2>3. CASE <<request[m].user, q>> = name
    <3>1. pidOf[m] = q BY <1>8, <2>1, NoneAssumption DEF Traced, Posted, NoFile
    <3>2. request[m].user = User(p) /\ q = oldest[p] BY <2>3
    <3>3. fd[p] = m BY <1>4, <1>10, <3>1, <3>2, OwnName DEF OwnInv
    <3> QED BY <1>2, <1>3, <1>10, <3>3 DEF Kept, Sent
  <2> QED BY <2>2, <2>3
<1>11. Kept'
  <2>1. \A q \in Pids : cpc[q] = "flush" => cpc'[q] = "flush"
    BY <1>2, <1>3
  <2>2. \A q \in Pids : cpc'[q] = "remove" => cpc[q] = "remove"
    BY <1>2, <1>3
  <2> QED BY <1>0, <1>2, <1>3, <1>7, <1>10, <2>1, <2>2 DEF Kept
<1>12. Walked' /\ Ordered'
  <2>1. \A m \in Clients : mtime[m] \in Nat BY DEF OwnInv, TypeOK
  <2>2. LeavesWalks
    BY <1>0, <1>2, <1>3, <1>4, <2>1 DEF LeavesWalks, walkVars, AfterScan, AfterWalk
  <2> QED BY <1>0, <2>2, WalksKept, OrderKept
<1> QED BY <1>3, <1>5, <1>6, <1>11, <1>12
-----------------------------------------------------------------------------
\* No client has been accepted and there is no file.
LEMMA InitLossInv == Init => LossInv
<1> SUFFICES ASSUME Init PROVE LossInv OBVIOUS
<1>1. TypeOK /\ now > 0
  <2>1. PICK s \in Scenarios : now = s.begin BY DEF Init
  <2>2. s \in [request : [Clients -> Request], begin : Nat \ {0}, fdlimit : Nat, stops : Nat]
    BY ScenariosAssumption
  <2> QED BY <2>1, <2>2, InitTypeOK
<1>2. Served BY DEF Init, Served, BeforeSend
<1>3. Timed BY <1>1 DEF Init, Timed, TypeOK
<1>4. Traced BY ClientsAssumption DEF Init, Traced, AfterScan, AfterWalk
<1>5. Kept BY DEF Init, Kept
<1>6. Walked BY DEF Init, Walked, Chosen, CameBy, AfterScan, AfterWalk
<1>7. Ordered
  <2>1. \A m \in Clients : createdAt[m] = 0 /\ mtime[m] = 0 BY DEF Init
  <2> QED BY <2>1 DEF Ordered
<1> QED BY <1>2, <1>3, <1>4, <1>5, <1>6, <1>7 DEF LossInv, TraceInv

LEMMA NextLossInv == OwnInv /\ OwnInv' /\ LossInv /\ [Next]_vars => LossInv'
<1> SUFFICES ASSUME OwnInv, OwnInv', LossInv, [Next]_vars PROVE LossInv' OBVIOUS
<1>1. ASSUME NEW c \in Clients, NEW p \in Pids, Accept(c, p) PROVE LossInv'
  BY <1>1, AcceptKeepsLossInv
<1>2. CASE \/ Tick \/ Handler
           \/ \E c \in Clients : Connect(c) \/ ForkFails(c)
           \/ AcceptFails \/ LoadCount \/ StoreCount \/ CheckLimit \/ WaitFindsNone
           \/ \E p \in Pids : WaitReaps(p) \/ Stop(p) \/ Continue(p)
           \/ UNCHANGED vars
  BY <1>2, SystemIsQuiet, QuietKeepsLossInv
<1>3. ASSUME NEW p \in Pids, Child(p) PROVE LossInv'
  <2>1. CASE \/ Receive(p) \/ ReceiveBad(p) \/ Reply(p)
             \/ GetAccess(p) \/ GetNothing(p) \/ GetCrash(p)
    BY <2>1, ChildIsQuiet, QuietKeepsLossInv
  <2>2. CASE PostCreate(p) BY <2>2, PostCreateKeepsLossInv
  <2>3. CASE PostFlush(p) BY <2>3, PostFlushKeepsLossInv
  <2>4. CASE GetScan(p) BY <2>4, GetScanKeepsLossInv
  <2>8. ASSUME NEW q \in Pids, GetStat(p, q) PROVE LossInv'
    BY <2>8, GetStatKeepsLossInv
  <2>5. CASE GetOpen(p) BY <2>5, GetOpenKeepsLossInv
  <2>6. CASE GetRead(p) BY <2>6, GetReadKeepsLossInv
  <2>7. CASE GetRemove(p) BY <2>7, GetRemoveKeepsLossInv
  <2> QED BY <1>3, <2>1, <2>2, <2>3, <2>4, <2>5, <2>6, <2>7, <2>8 DEF Child
<1> QED BY <1>1, <1>2, <1>3 DEF Next, Parent

LEMMA LossInvariant == Spec => []LossInv
  BY OwnInvariant, InitLossInv, NextLossInv, PTL DEF Spec

\* A message that was acknowledged to its poster is in the mailbox or has been sent to a
\* getter, whatever the children do between each other's steps, unless a reader found its
\* file empty or another post was given the same file name.
THEOREM NoMessageIsLost == Spec => []NoSilentLoss
<1>1. OwnInv /\ LossInv => NoSilentLoss
  <2> SUFFICES ASSUME OwnInv, LossInv, NEW m \in Clients, request[m].op = "POST", Done(m),
                      ~Sent(m), m \notin torn, ~NameReused(m)
               PROVE  Stored(m)
    BY DEF NoSilentLoss
  <2> USE DEF LossInv, TraceInv
  <2>1. Unique(m) /\ createdAt[m] > 0 /\ reply[m] # "none" BY DEF Unique, Done
  <2>2. \A p \in Pids : ~(cpc[p] = "flush" /\ serving[p] = m)
    BY <2>1 DEF Served, BeforeSend
  <2>3. content[m] = m BY <2>1, <2>2 DEF Kept
  <2>4. PICK q \in Pids : dir[<<request[m].user, q>>] = m BY <2>1 DEF Kept, InMailbox
  <2>5. request[m].user \in Users BY DEF OwnInv, TypeOK, Request
  <2>6. m # NoFile BY NoneAssumption DEF NoFile
  <2> QED BY <2>3, <2>4, <2>5, <2>6 DEF Stored
<1> QED BY <1>1, OwnInvariant, LossInvariant, PTL

\* Mail is delivered oldest first, to the second, among what was there when the reader's
\* walk began: what of it is still waiting was not complete a second before the message
\* that the reader was sent was begun, wherever in the walk other children made, wrote and
\* removed their files.
THEOREM OldestIsFirst == Spec => []OldestFirst
<1>1. OwnInv /\ LossInv => OldestFirst
  <2> SUFFICES ASSUME OwnInv, LossInv, NEW c \in Clients, NEW m \in Clients, NEW n \in Clients,
                      reply[c] = n, ~NameReused(n), ~NameReused(m), m \in there[c], Stored(m),
                      request[m] = request[n]
               PROVE  mtime[m] >= createdAt[n]
    BY DEF OldestFirst
  <2> USE DEF LossInv, TraceInv
  <2>1. PICK u \in Users, q \in Pids :
             dir[<<u, q>>] # NoFile /\ content[dir[<<u, q>>]] = m
    BY DEF Stored
  <2> DEFINE e == dir[<<u, q>>]
  <2>2. <<u, q>> \in Names /\ e \in Clients /\ content[e] # Empty
    BY <2>1, NoneAssumption DEF Names, OwnInv, TypeOK, NoFile, Empty
  <2>3. Posted(e, u, q) BY <2>1, <2>2 DEF Traced
  <2>4. request[m] = request[e] /\ pidOf[m] = pidOf[e] /\ pidOf[m] # None
    BY <2>1, <2>2 DEF Traced
  <2>5. Unique(m) /\ Unique(n) BY <2>3, <2>4 DEF Unique, Posted
  <2>6. e = m BY <2>2, <2>3, <2>4, <2>5, OwnName DEF OwnInv, Posted
  <2>7. InMailbox(m) BY <2>3, <2>4, <2>6 DEF InMailbox, Posted
  <2> QED BY <2>5, <2>7 DEF Ordered
<1> QED BY <1>1, OwnInvariant, LossInvariant, PTL
-----------------------------------------------------------------------------
(* The cipher *)

\* The lines something is claimed of, and how many of their characters are sure to survive.
Terminated == Slack = 1 /\ Len(Message) > 1
Survives == Sound \/ Terminated
Sure == IF Sound THEN Len(Message) ELSE Len(Message) - 1

\* What the two checks of encrypt() let through.
Passed ==
    /\ Len(Message) <= Len(key) + 1
    /\ \A n \in 1..Sure : Message[n] \in Alphabet /\ n <= Len(key)
Refused == Sound => Len(Message) = 1 /\ Message = plaintext_file

\* The ciphertext of the first m characters.
Encrypted(m) ==
    /\ Len(ciphertext) = m /\ m <= Len(Message)
    /\ \A n \in 1..m : IF n <= Sure
                       THEN ciphertext[n] = EncryptChar(Value(Message[n]), key[n])
                       ELSE ciphertext[n] \in {Space} \cup 39..90

Checking ==
    /\ pc = "size" => i = 1
    /\ pc = "chars" =>
          /\ ret_flag = (Len(plaintext_line) > KeyLineLen)
          /\ \A n \in 1..i - 1 : n <= Len(plaintext_line) => plaintext_line[n] \in Alphabet
    /\ pc \in {"size", "chars"} => ciphertext = <<>>
    /\ pc \notin {"decrypt", "done"} => plaintext = <<>>
Encrypting ==
    pc = "encrypt" => Passed /\ Encrypted(i - 1) /\ (i > 1 => numeric \in 0..26)
Requesting ==
    /\ pc = "request" => \/ ciphertext = ErrorMsg /\ Refused
                         \/ Passed /\ Encrypted(Len(Message))
    /\ pc \in {"error", "rejected"} => Refused
    /\ pc \in {"misread", "dropped"} => ~Sound

\* The last character is lost when it is a comma.
Storing ==
    pc \in {"stored", "decrypt", "done"} =>
        /\ Passed /\ Encrypted(Len(Message))
        /\ \/ stored = ciphertext
           \/ ~Sound /\ stored = SubSeq(ciphertext, 1, Len(Message) - 1)
Decrypting ==
    /\ pc \in {"decrypt", "done"} =>
          /\ Len(plaintext) = i - 1 /\ i - 1 <= Len(stored)
          /\ get_key = key => \A n \in 1..i - 1 : n <= Sure => plaintext[n] = Message[n]
    /\ pc = "done" => i > Sure

CipherInv == Survives => Checking /\ Encrypting /\ Requesting /\ Storing /\ Decrypting
-----------------------------------------------------------------------------
(* The alphabet *)

LEMMA AlphabetCodes ==
  /\ \A c \in Alphabet : c \in Nat /\ c # NewLine /\ c # Nul /\ c # Comma /\ c # 33
  /\ \A c \in Alphabet : Value(c) \in 0..26 /\ Char(Value(c)) = c
  /\ \A v \in 0..26 : Char(v) \in Alphabet /\ Value(Char(v)) = v
BY DEF Alphabet, Letter, Space, NewLine, Nul, Comma, Value, Char

LEMMA KeyCharIsInAlphabet == KeyChar \subseteq Alphabet
BY DEF KeyChar, Alphabet, Letter, Space

LEMMA CharIsInt == \A v \in Int : Char(v) \in Int
BY DEF Char, Space

LEMMA RemainderIsInt == \A a \in Int : CRem(a, 27) \in Int
BY DEF CRem

\* What is added modulo 27 is taken away again.
LEMMA SumModulo ==
  ASSUME NEW v \in 0..26, NEW w \in 0..26
  PROVE  /\ CRem(v + w, 27) \in 0..26
         /\ LET x == CRem(v + w, 27) - w IN v = IF x < 0 THEN x + 27 ELSE x % 27
<1>1. CASE v + w < 27
  <2>1. CRem(v + w, 27) = v + w BY <1>1 DEF CRem
  <2>2. v + w - w = v /\ v % 27 = v OBVIOUS
  <2> QED BY <1>1, <2>1, <2>2
<1>2. CASE v + w >= 27
  <2>1. CRem(v + w, 27) = v + w - 27 BY <1>2 DEF CRem
  <2>2. v + w - 27 - w = v - 27 /\ v - 27 < 0 /\ v - 27 + 27 = v OBVIOUS
  <2> QED BY <1>2, <2>1, <2>2
<1> QED BY <1>1, <1>2

\* An encrypted character is one of the alphabet, and its key gives it back.
LEMMA CharRoundTrip ==
  ASSUME NEW m \in Alphabet, NEW k \in Alphabet
  PROVE  /\ EncryptChar(Value(m), k) \in Alphabet
         /\ DecryptChar(EncryptChar(Value(m), k), k) = m
<1>1. Value(m) \in 0..26 /\ Value(k) \in 0..26 /\ Char(Value(m)) = m
  BY AlphabetCodes
<1> DEFINE c == CRem(Value(m) + Value(k), 27)
<1>2. c \in 0..26 /\ LET x == c - Value(k) IN Value(m) = IF x < 0 THEN x + 27 ELSE x % 27
  BY <1>1, SumModulo
<1>3. EncryptChar(Value(m), k) = Char(c)
  BY DEF EncryptChar
<1> HIDE DEF c
<1>4. Char(c) \in Alphabet /\ Value(Char(c)) = c
  BY <1>2, AlphabetCodes
<1>5. DecryptChar(Char(c), k) = Char(Value(m))
  BY <1>2, <1>4 DEF DecryptChar
<1> QED BY <1>1, <1>3, <1>4, <1>5

\* The newline at the end of a key is -55 to the cipher.
LEMMA NewLineAsKey ==
  ASSUME NEW v \in 0..26
  PROVE  EncryptChar(v, NewLine) \in {Space} \cup 39..90
<1>1. Value(NewLine) = -55
  BY DEF Value, NewLine, Space
<1>2. PICK t \in 29..55 : t = 55 - v
  OBVIOUS
<1>3. v + (-55) < 0 /\ -(v + (-55)) = t
  BY <1>2
<1>4. CRem(v + (-55), 27) = -(t % 27) /\ t % 27 \in 0..26
  BY <1>2, <1>3 DEF CRem
<1>5. PICK r \in 0..26 : r = t % 27
  BY <1>4
<1>6. EncryptChar(v, NewLine) = -r + 65
  BY <1>1, <1>4, <1>5 DEF EncryptChar, Char
<1> QED BY <1>6

LEMMA CipherIsInt == \A v, k \in Int : EncryptChar(v, k) \in Int /\ DecryptChar(v, k) \in Int
<1> SUFFICES ASSUME NEW v \in Int, NEW k \in Int
             PROVE  EncryptChar(v, k) \in Int /\ DecryptChar(v, k) \in Int
  OBVIOUS
<1>1. Value(k) \in Int /\ Value(v) \in Int
  BY DEF Value
<1>2. v + Value(k) \in Int /\ Value(v) - Value(k) \in Int
  BY <1>1
<1>3. CRem(v + Value(k), 27) \in Int
  BY <1>2, RemainderIsInt
<1>4. EncryptChar(v, k) \in Int
  BY <1>3, CharIsInt DEF EncryptChar
<1>5. DecryptChar(v, k) \in Int
  <2> DEFINE x == Value(v) - Value(k)
  <2>1. (IF x < 0 THEN x + 27 ELSE x % 27) \in Int
    BY <1>2
  <2> QED BY <2>1, CharIsInt DEF DecryptChar
<1> QED BY <1>4, <1>5
-----------------------------------------------------------------------------
(* The files *)

LEMMA Beginning ==
  ASSUME NEW S, NEW s \in Seq(S), NEW m \in 0..Len(s)
  PROVE  /\ SubSeq(s, 1, m) \in Seq(S) /\ Len(SubSeq(s, 1, m)) = m
         /\ \A n \in 1..m : SubSeq(s, 1, m)[n] = s[n]
<1>1. m \in Nat /\ m <= Len(s) /\ \A n \in 1..m : s[n] \in S
  BY LenProperties, ElementOfSeq
<1>2. /\ SubSeq(s, 1, m) \in Seq(S)
      /\ Len(SubSeq(s, 1, m)) = IF 1 <= m THEN m - 1 + 1 ELSE 0
      /\ \A n \in 1..m - 1 + 1 : SubSeq(s, 1, m)[n] = s[1 + n - 1]
  BY <1>1, SubSeqProperties
<1>3. m - 1 + 1 = m /\ \A n \in 1..m : 1 + n - 1 = n
  BY <1>1
<1> QED BY <1>1, <1>2, <1>3

LEMMA KeyFile ==
  ASSUME NEW k \in Keys
  PROVE  /\ k \in Seq(Int) /\ Len(k) \in Nat
         /\ \A n \in 1..Len(k) : k[n] \in Alphabet /\ KeyFileChar(k, n) = k[n]
         /\ KeyFileChar(k, Len(k) + 1) = NewLine
         /\ \A n \in Nat \ {0} : KeyFileChar(k, n) \in Int
<1>1. k \in Seq(KeyChar)
  BY KeysAssumption
<1>2. Len(k) \in Nat /\ \A n \in 1..Len(k) : k[n] \in Alphabet
  BY <1>1, LenProperties, ElementOfSeq, KeyCharIsInAlphabet
<1>3. \A c \in Alphabet : c \in Int
  BY AlphabetCodes
<1>4. k \in Seq(Int)
  <2>1. KeyChar \subseteq Int BY <1>3, KeyCharIsInAlphabet
  <2> QED BY <1>1, <2>1, SeqMonotonic
<1>5. KeyFileChar(k, Len(k) + 1) = NewLine
  BY <1>2 DEF KeyFileChar
<1>6. ASSUME NEW n \in 1..Len(k) PROVE KeyFileChar(k, n) = k[n]
  BY <1>2 DEF KeyFileChar
<1>7. ASSUME NEW n \in Nat \ {0} PROVE KeyFileChar(k, n) \in Int
  BY <1>2, <1>3 DEF KeyFileChar, NewLine, EOF
<1> QED BY <1>2, <1>4, <1>5, <1>6, <1>7

\* The message and the line that fgets() leaves, character by character.
LEMMA MessageIs ==
  ASSUME plaintext_file \in Files
  PROVE  /\ plaintext_file \in Seq(Nat) /\ Len(plaintext_file) \in Nat \ {0}
         /\ Message \in Seq(Nat) /\ Len(Message) \in Nat
         /\ \A n \in 1..Len(Message) : Message[n] = plaintext_file[n]
                                       /\ plaintext_file[n] # NewLine
         /\ \/ /\ Slack = 1 /\ Len(plaintext_file) = Len(Message) + 1
               /\ plaintext_file[Len(plaintext_file)] = NewLine
            \/ /\ Slack = 2 /\ Message = plaintext_file
         /\ Len(plaintext_line) = Len(plaintext_file) - 1
         /\ \A n \in 1..Len(plaintext_line) : plaintext_line[n] = plaintext_file[n]
<1> DEFINE f == plaintext_file
<1>1. /\ f \in Seq(Nat) /\ f # <<>> /\ \A k \in 1..Len(f) - 1 : f[k] # NewLine
  BY FilesAssumption
<1>2. Len(f) \in Nat \ {0} /\ \A n \in 1..Len(f) : f[n] \in Nat
  BY <1>1, EmptySeq, ElementOfSeq
<1>3. /\ SubSeq(f, 1, Len(f) - 1) \in Seq(Nat) /\ Len(SubSeq(f, 1, Len(f) - 1)) = Len(f) - 1
      /\ \A n \in 1..Len(f) - 1 : SubSeq(f, 1, Len(f) - 1)[n] = f[n]
  <2>1. Len(f) - 1 \in 0..Len(f)
    BY <1>2
  <2> HIDE DEF f
  <2> QED BY <1>1, <2>1, Beginning
<1>4. Len(plaintext_line) = Len(f) - 1 /\ \A n \in 1..Len(plaintext_line) : plaintext_line[n] = f[n]
  BY <1>3 DEF plaintext_line
<1>5. CASE f[Len(f)] = NewLine
  <2>1. Message = SubSeq(f, 1, Len(f) - 1)
    BY <1>5 DEF Message, Text
  <2>2. Len(Message) = Len(f) - 1 /\ Message # f
    BY <1>2, <1>3, <2>1
  <2>3. Slack = 1
    BY <2>2 DEF Slack
  <2> QED BY <1>1, <1>2, <1>3, <1>4, <1>5, <2>1, <2>2, <2>3
<1>6. CASE f[Len(f)] # NewLine
  <2>1. Message = f /\ Slack = 2
    BY <1>6 DEF Message, Text, Slack
  <2>2. \A n \in 1..Len(f) : f[n] # NewLine
    BY <1>1, <1>2, <1>6
  <2> QED BY <1>1, <1>2, <1>4, <2>1, <2>2
<1> QED BY <1>5, <1>6
-----------------------------------------------------------------------------
(* The fields of a request *)

LEMMA TokenEnds ==
  ASSUME NEW s \in Seq(Int), NEW k \in TokenStarts(s)
  PROVE  /\ k \in 1..Len(s) /\ TokenEnd(s, k) \in k..Len(s)
         /\ \A n \in k..TokenEnd(s, k) : s[n] # Comma
         /\ TokenEnd(s, k) = Len(s) \/ s[TokenEnd(s, k) + 1] = Comma
<1>1. Len(s) \in Nat /\ k \in 1..Len(s) /\ s[k] # Comma
  BY LenProperties DEF TokenStarts
<1> DEFINE R == OpToRel(<, Nat)
           T == {e \in k..Len(s) : e = Len(s) \/ s[e + 1] = Comma}
<1>2. T \subseteq Nat /\ T # {}
  BY <1>1
<1>3. PICK e \in T : \A y \in T : <<y, e>> \notin R
  <2> HIDE DEF R, T
  <2> QED BY <1>2, NatLessThanWellFounded, WFMin DEF R
<1>4. \A y \in T : ~(y < e)
  BY <1>2, <1>3 DEF OpToRel
<1>5. ASSUME NEW n \in k..e PROVE s[n] # Comma
  <2>1. CASE n = k BY <1>1, <2>1
  <2>2. CASE n # k
    <3>1. n - 1 \in k..Len(s) /\ n - 1 < e /\ n - 1 # Len(s) /\ n - 1 + 1 = n
      BY <1>1, <1>2, <2>2
    <3> QED BY <1>4, <3>1
  <2> QED BY <2>1, <2>2
<1>6. \E x \in k..Len(s) : /\ \A n \in k..x : s[n] # Comma
                           /\ x = Len(s) \/ s[x + 1] = Comma
  BY <1>5
<1> QED BY <1>1, <1>6 DEF TokenEnd

\* A sequence with no comma but perhaps at its end has one field.
LEMMA OneField ==
  ASSUME NEW s \in Seq(Int), NEW m \in 1..Len(s), \A n \in 1..m : s[n] # Comma,
         m = Len(s) \/ (m + 1 = Len(s) /\ s[m + 1] = Comma)
  PROVE  TokenStarts(s) = {1} /\ TokenEnd(s, 1) = m
<1>1. Len(s) \in Nat /\ m \in Nat
  BY LenProperties
<1>2. 1 \in TokenStarts(s)
  BY <1>1 DEF TokenStarts
<1>3. ASSUME NEW k \in TokenStarts(s) PROVE k = 1
  <2>1. k \in 1..Len(s) /\ s[k] # Comma /\ (k = 1 \/ s[k - 1] = Comma)
    BY DEF TokenStarts
  <2>2. CASE k # 1
    <3>1. k <= m BY <1>1, <2>1
    <3>2. k - 1 \in 1..m BY <1>1, <2>1, <2>2, <3>1
    <3> QED BY <2>1, <2>2, <3>2
  <2> QED BY <2>2
<1>4. /\ TokenEnd(s, 1) \in 1..Len(s)
      /\ \A n \in 1..TokenEnd(s, 1) : s[n] # Comma
      /\ TokenEnd(s, 1) = Len(s) \/ s[TokenEnd(s, 1) + 1] = Comma
  BY <1>2, TokenEnds
<1>5. TokenEnd(s, 1) = m
  <2>1. CASE TokenEnd(s, 1) < m
    <3>1. TokenEnd(s, 1) + 1 \in 1..m BY <1>1, <1>4, <2>1
    <3> QED BY <1>1, <1>4, <2>1, <3>1
  <2>2. CASE TokenEnd(s, 1) > m
    <3>1. m + 1 \in 1..TokenEnd(s, 1) BY <1>1, <1>4, <2>2
    <3> QED BY <1>1, <1>4, <2>2, <3>1
  <2> QED BY <1>1, <1>4, <2>1, <2>2
<1> QED BY <1>2, <1>3, <1>5
-----------------------------------------------------------------------------
(* The steps *)

LEMMA TypeInvariant == CipherSpec => []CipherTypeOK
<1>1. CipherInit => CipherTypeOK
  <2> SUFFICES ASSUME CipherInit PROVE CipherTypeOK
    OBVIOUS
  <2>1. numeric \in Int
    BY GarbageAssumption DEF CipherInit
  <2>2. <<>> \in Seq(Int)
    OBVIOUS
  <2>3. ciphertext \in Seq(Int) /\ stored \in Seq(Int) /\ plaintext \in Seq(Int)
    BY <2>2 DEF CipherInit
  <2>4. /\ plaintext_file \in Files /\ key \in Keys /\ get_key \in Keys
        /\ pc \in Pcs /\ ret_flag \in BOOLEAN
    BY Zenon DEF CipherInit, Pcs
  <2>5. i \in Nat \ {0}
    <3>1. i = 1 BY DEF CipherInit
    <3> QED BY <3>1
  <2> QED BY <2>1, <2>3, <2>4, <2>5 DEF CipherTypeOK
<1>2. CipherTypeOK /\ [CipherNext]_cipherVars => CipherTypeOK'
  <2> SUFFICES ASSUME CipherTypeOK, [CipherNext]_cipherVars PROVE CipherTypeOK'
    OBVIOUS
  <2>1. CASE CheckSize BY <2>1 DEF CheckSize, Poster, CipherTypeOK, Pcs
  <2>2. CASE CheckChar BY <2>2 DEF CheckChar, Poster, CipherTypeOK, Pcs
  <2>3. CASE RejectChar BY <2>3 DEF RejectChar, Poster, CipherTypeOK, Pcs
  <2>4. CASE EndOfCheck BY <2>4 DEF EndOfCheck, Poster, CipherTypeOK, Pcs
  <2>5. CASE SendError
    <3>1. ErrorMsg \in Seq(Int) BY DEF ErrorMsg
    <3> QED BY <2>5, <3>1 DEF SendError, Poster, CipherTypeOK, Pcs
  <2>6. CASE EncryptNext
    <3>1. numeric' \in Int
      <4>1. \A c \in Alphabet : Value(c) \in Int BY AlphabetCodes
      <4> QED BY <2>6, <4>1 DEF EncryptNext, NumericAfter, CipherTypeOK
    <3>2. KeyFileChar(key, i) \in Int
      BY KeyFile DEF CipherTypeOK
    <3>3. EncryptChar(numeric', KeyFileChar(key, i)) \in Int
      BY <3>1, <3>2, CipherIsInt
    <3>4. ciphertext' \in Seq(Int)
      BY <2>6, <3>3, AppendProperties DEF EncryptNext, CipherTypeOK
    <3> QED BY <2>6, <3>1, <3>4 DEF EncryptNext, Poster, CipherTypeOK, Pcs
  <2>7. CASE EncryptEnd BY <2>7 DEF EncryptEnd, Poster, CipherTypeOK, Pcs
  <2>8. CASE DispatchPost
    <3>1. PICK k \in 1..Len(ciphertext) :
             /\ TokenStarts(ciphertext) = {k}
             /\ pc' \in {"rejected", "stored"}
             /\ stored' \in {stored, SubSeq(ciphertext, k, TokenEnd(ciphertext, k))}
      BY <2>8 DEF DispatchPost
    <3>2. /\ ciphertext \in Seq(Int) /\ Len(ciphertext) \in Nat
          /\ TokenEnd(ciphertext, k) \in k..Len(ciphertext)
      BY <3>1, TokenEnds, LenProperties DEF CipherTypeOK
    <3>3. PICK e \in k..Len(ciphertext) : e = TokenEnd(ciphertext, k)
      BY <3>2
    <3>4. k \in Int /\ e \in Int /\ \A n \in k..e : ciphertext[n] \in Int
      BY <3>2, ElementOfSeq
    <3>5. SubSeq(ciphertext, k, e) \in Seq(Int)
      BY <3>4, SubSeqProperties
    <3>6. stored' \in Seq(Int)
      BY <3>1, <3>3, <3>5 DEF CipherTypeOK
    <3>7. pc' \in Pcs
      BY <3>1 DEF Pcs
    <3>8. UNCHANGED <<plaintext_file, key, ret_flag, i, numeric, ciphertext, get_key, plaintext>>
      BY <2>8 DEF DispatchPost, Poster
    <3> QED BY <3>6, <3>7, <3>8 DEF CipherTypeOK
  <2>9. CASE DispatchAsGet BY <2>9 DEF DispatchAsGet, Poster, CipherTypeOK, Pcs
  <2>10. CASE DispatchFails BY <2>10 DEF DispatchFails, Poster, CipherTypeOK, Pcs
  <2>11. ASSUME NEW k \in Keys, ReceiveCipher(k) PROVE CipherTypeOK'
    BY <2>11 DEF ReceiveCipher, Poster, CipherTypeOK, Pcs
  <2>12. CASE DecryptNext
    <3>1. stored[i] \in Int
      <4>1. stored[i] \in Alphabet BY <2>12 DEF DecryptNext, MoreToDecrypt
      <4> QED BY <4>1, AlphabetCodes
    <3>2. KeyFileChar(get_key, i) \in Int
      BY KeyFile DEF CipherTypeOK
    <3>3. DecryptChar(stored[i], KeyFileChar(get_key, i)) \in Int
      BY <3>1, <3>2, CipherIsInt
    <3>4. plaintext' \in Seq(Int)
      BY <2>12, <3>3, AppendProperties DEF DecryptNext, CipherTypeOK
    <3> QED BY <2>12, <3>4 DEF DecryptNext, Poster, CipherTypeOK, Pcs
  <2>13. CASE DecryptEnd BY <2>13 DEF DecryptEnd, Poster, CipherTypeOK, Pcs
  <2>14. CASE UNCHANGED cipherVars BY <2>14 DEF cipherVars, CipherTypeOK
  <2> QED BY <2>1, <2>2, <2>3, <2>4, <2>5, <2>6, <2>7, <2>8, <2>9, <2>10, <2>11, <2>12, <2>13,
             <2>14 DEF CipherNext
<1> QED BY <1>1, <1>2, PTL DEF CipherSpec

\* The two files of the poster never change.
LEMMA PosterStays ==
  ASSUME [CipherNext]_cipherVars
  PROVE  /\ plaintext_file' = plaintext_file /\ key' = key
         /\ Message' = Message /\ plaintext_line' = plaintext_line /\ KeyLineLen' = KeyLineLen
         /\ Slack' = Slack /\ (Sound' <=> Sound) /\ (Survives' <=> Survives) /\ Sure' = Sure
         /\ (Passed' <=> Passed) /\ (Refused' <=> Refused)
<1>1. plaintext_file' = plaintext_file /\ key' = key
  BY DEF CipherNext, CheckSize, CheckChar, RejectChar, EndOfCheck, SendError, EncryptNext, EncryptEnd,
         DispatchPost, DispatchAsGet, DispatchFails, ReceiveCipher, DecryptNext, DecryptEnd, Poster, cipherVars
<1>2. Message' = Message /\ plaintext_line' = plaintext_line /\ KeyLineLen' = KeyLineLen
  BY <1>1 DEF Message, Text, plaintext_line, KeyLineLen
<1>3. Slack' = Slack /\ (Sound' <=> Sound)
  BY <1>1, <1>2 DEF Slack, Sound, Valid, Covered
<1>4. (Survives' <=> Survives) /\ Sure' = Sure
  BY <1>2, <1>3 DEF Survives, Terminated, Sure
<1> QED BY <1>1, <1>2, <1>3, <1>4 DEF Passed, Refused

\* At least the first character of a kept line is sure.
LEMMA SureIs ==
  ASSUME CipherTypeOK, Survives
  PROVE  /\ Sure \in 1..Len(Message) /\ Len(Message) \in Nat
         /\ Sound => Sure = Len(Message)
         /\ ~Sound => /\ Sure = Len(Message) - 1 /\ Slack = 1
                      /\ Len(plaintext_line) = Len(Message)
         /\ \A n \in 1..Len(Message) : n <= Sure \/ (~Sound /\ n = Len(Message) /\ n = Sure + 1)
<1>1. /\ Message \in Seq(Nat) /\ Len(Message) \in Nat
      /\ Slack = 1 => Len(plaintext_line) = Len(Message)
  BY MessageIs DEF CipherTypeOK
<1>2. CASE Sound
  <2>1. Message # <<>>
    BY <1>2 DEF Sound
  <2>2. PICK s \in Seq(Nat) : s = Message
    BY <1>1
  <2>3. Len(Message) # 0
    BY <2>1, <2>2, EmptySeq
  <2> QED BY <1>1, <1>2, <2>3 DEF Sure
<1>3. CASE ~Sound
  BY <1>1, <1>3 DEF Sure, Survives, Terminated
<1> QED BY <1>2, <1>3

\* A line that runs through both checks has what they are meant to ask for, but for its
\* last characters.
LEMMA ChecksPass ==
  ASSUME CipherTypeOK, Survives, Checking, EndOfCheck
  PROVE  (ret_flag => Refused) /\ (~ret_flag => Passed)
<1>1. /\ i \in Nat \ {0} /\ pc = "chars" /\ plaintext_line # <<>> /\ ~(i <= Len(plaintext_line) - 1)
      /\ \A n \in 1..i - 1 : n <= Len(plaintext_line) => plaintext_line[n] \in Alphabet
  BY DEF EndOfCheck, MoreToCheck, Checking, CipherTypeOK
<1>2. /\ Len(plaintext_file) \in Nat \ {0} /\ Len(Message) \in Nat
      /\ Len(plaintext_line) = Len(plaintext_file) - 1 /\ Len(plaintext_line) <= Len(Message)
      /\ \A n \in 1..Len(Message) : Message[n] = plaintext_file[n]
      /\ \A n \in 1..Len(plaintext_line) : plaintext_line[n] = plaintext_file[n]
  BY MessageIs DEF CipherTypeOK
<1>3. Len(key) \in Nat /\ KeyLineLen = Len(key) + 1
  BY KeyFile DEF CipherTypeOK, KeyLineLen
<1>4. ret_flag = (Len(plaintext_line) > KeyLineLen)
  BY <1>1 DEF Checking
<1>5. ret_flag <=> Len(plaintext_line) > KeyLineLen
  BY <1>4, Zenon
<1>6. CASE Sound
  <2>1. Len(Message) <= Len(key) /\ Sure = Len(Message)
        /\ \A n \in 1..Len(Message) : Message[n] \in Alphabet
    BY <1>6 DEF Sound, Covered, Valid, Sure
  <2>2. ~ret_flag
    <3>1. ~(Len(plaintext_line) > KeyLineLen) BY <1>2, <1>3, <2>1
    <3> QED BY <1>5, <3>1, Zenon
  <2>3. Passed
    BY <1>2, <1>3, <2>1 DEF Passed
  <2> QED BY <2>2, <2>3
<1>7. CASE ~Sound
  <2>1. Sure = Len(Message) - 1 /\ Len(plaintext_line) = Len(Message)
    BY <1>7, SureIs
  <2>2. ASSUME ~ret_flag PROVE Len(Message) <= Len(key) + 1
    <3>1. ~(Len(plaintext_line) > KeyLineLen) BY <1>5, <2>2, Zenon
    <3> QED BY <1>2, <1>3, <2>1, <3>1
  <2>3. ASSUME ~ret_flag, NEW n \in 1..Sure PROVE Message[n] \in Alphabet /\ n <= Len(key)
    <3>1. n \in 1..i - 1 /\ n \in 1..Len(plaintext_line) /\ n \in 1..Len(Message)
      BY <1>1, <1>2, <2>1
    <3> QED BY <1>1, <1>2, <1>3, <2>1, <2>2, <2>3, <3>1
  <2> QED BY <1>7, <2>2, <2>3 DEF Refused, Passed
<1> QED BY <1>6, <1>7

\* The only sound line that is refused is one character with no newline.
LEMMA ChecksRefuse ==
  ASSUME CipherTypeOK, RejectChar
  PROVE  Refused
<1> SUFFICES ASSUME Sound PROVE Len(Message) = 1 /\ Message = plaintext_file
  BY DEF Refused
<1>1. /\ Len(plaintext_file) \in Nat \ {0} /\ Len(Message) \in Nat
      /\ \/ Len(plaintext_file) = Len(Message) + 1
         \/ Message = plaintext_file
      /\ Len(plaintext_line) = Len(plaintext_file) - 1
      /\ \A n \in 1..Len(Message) : Message[n] = plaintext_file[n]
      /\ \A n \in 1..Len(plaintext_line) : plaintext_line[n] = plaintext_file[n]
  BY MessageIs DEF CipherTypeOK
<1>2. Len(Message) # 0 /\ \A n \in 1..Len(Message) : Message[n] \in Alphabet
  BY SureIs DEF Survives, Sound, Valid
<1>3. CASE plaintext_line = <<>>
  <2>1. Len(plaintext_line) = 0
    BY <1>3
  <2> QED BY <1>1, <1>2, <2>1
<1>4. CASE plaintext_line # <<>>
  <2>1. i \in Nat \ {0} /\ i <= Len(plaintext_line) - 1 /\ plaintext_line[i] \notin Alphabet
    BY <1>4 DEF RejectChar, MoreToCheck, InvalidHere, CipherTypeOK
  <2>2. i \in 1..Len(plaintext_line) /\ i \in 1..Len(Message)
    BY <1>1, <2>1
  <2> QED BY <1>1, <1>2, <2>1, <2>2
<1> QED BY <1>3, <1>4

LEMMA EncryptNextStep ==
  ASSUME CipherTypeOK, Survives, Passed, Encrypted(i - 1), i > 1 => numeric \in 0..26, EncryptNext
  PROVE  /\ numeric' \in 0..26
         /\ Len(ciphertext') = i /\ i <= Len(Message)
         /\ \A n \in 1..i : IF n <= Sure
                            THEN ciphertext'[n] = EncryptChar(Value(Message[n]), key[n])
                            ELSE ciphertext'[n] \in {Space} \cup 39..90
<1>1. /\ i \in Nat \ {0} /\ i <= Len(plaintext_file) /\ plaintext_file[i] # NewLine
      /\ numeric' = NumericAfter(plaintext_file[i])
      /\ ciphertext' = Append(ciphertext, EncryptChar(numeric', KeyFileChar(key, i)))
  BY DEF EncryptNext, MoreToEncrypt, CipherTypeOK
<1>2. /\ Len(plaintext_file) \in Nat \ {0} /\ Len(Message) \in Nat
      /\ \/ /\ Len(plaintext_file) = Len(Message) + 1
            /\ plaintext_file[Len(plaintext_file)] = NewLine
         \/ Message = plaintext_file
      /\ \A n \in 1..Len(Message) : Message[n] = plaintext_file[n]
  BY MessageIs DEF CipherTypeOK
<1>3. i \in 1..Len(Message) /\ Message[i] = plaintext_file[i]
  BY <1>1, <1>2
<1>4. /\ Sure \in 1..Len(Message)
      /\ i <= Sure \/ (i = Len(Message) /\ i = Sure + 1)
  BY <1>3, SureIs
<1>5. /\ Len(key) \in Nat
      /\ \A n \in 1..Len(key) : key[n] \in Alphabet /\ KeyFileChar(key, n) = key[n]
      /\ KeyFileChar(key, Len(key) + 1) = NewLine
  BY KeyFile DEF CipherTypeOK
<1>6. numeric' \in 0..26
  <2>1. CASE i <= Sure
    <3>1. Message[i] \in Alphabet BY <1>1, <1>4, <2>1 DEF Passed
    <3> QED BY <1>1, <1>3, <3>1, AlphabetCodes DEF NumericAfter
  <2>2. CASE ~(i <= Sure)
    <3>1. numeric \in 0..26 BY <1>1, <1>4, <2>2
    <3> QED BY <1>1, <3>1, AlphabetCodes DEF NumericAfter
  <2> QED BY <2>1, <2>2
<1> DEFINE c == EncryptChar(numeric', KeyFileChar(key, i))
<1>7. IF i <= Sure THEN c = EncryptChar(Value(Message[i]), key[i]) ELSE c \in {Space} \cup 39..90
  <2>1. CASE i <= Sure
    <3>1. Message[i] \in Alphabet /\ i \in 1..Len(key)
      BY <1>1, <1>4, <1>5, <2>1 DEF Passed
    <3>2. numeric' = Value(Message[i])
      BY <1>1, <1>3, <3>1 DEF NumericAfter
    <3> QED BY <1>5, <2>1, <3>1, <3>2
  <2>2. CASE ~(i <= Sure) /\ i <= Len(key)
    <3>1. key[i] \in Alphabet /\ KeyFileChar(key, i) = key[i]
      BY <1>1, <1>5, <2>2
    <3>2. Char(numeric') \in Alphabet /\ Value(Char(numeric')) = numeric'
      BY <1>6, AlphabetCodes
    <3>3. c \in Alphabet
      BY <3>1, <3>2, CharRoundTrip
    <3> QED BY <2>2, <3>3 DEF Alphabet, Letter
  <2>3. CASE ~(i <= Sure) /\ ~(i <= Len(key))
    <3>1. i = Len(key) + 1
      BY <1>1, <1>4, <1>5, <2>3 DEF Passed
    <3>2. c = EncryptChar(numeric', NewLine)
      BY <1>5, <3>1
    <3> QED BY <1>6, <2>3, <3>2, NewLineAsKey
  <2> QED BY <2>1, <2>2, <2>3
<1>8. c \in Int
  <2>1. KeyFileChar(key, i) \in Int
    BY <1>1, KeyFile DEF CipherTypeOK
  <2>2. numeric' \in Int
    BY <1>6
  <2> QED BY <2>1, <2>2, CipherIsInt
<1>9. /\ Len(ciphertext') = Len(ciphertext) + 1
      /\ \A n \in 1..Len(ciphertext) : ciphertext'[n] = ciphertext[n]
      /\ ciphertext'[Len(ciphertext) + 1] = c
  <2> HIDE DEF c
  <2>1. ciphertext \in Seq(Int) /\ ciphertext' = Append(ciphertext, c)
    BY <1>1 DEF CipherTypeOK, c
  <2> QED BY <1>8, <2>1, AppendProperties
<1>10. Len(ciphertext) = i - 1
  BY DEF Encrypted
<1>11. ASSUME NEW n \in 1..i
       PROVE  IF n <= Sure
              THEN ciphertext'[n] = EncryptChar(Value(Message[n]), key[n])
              ELSE ciphertext'[n] \in {Space} \cup 39..90
  <2> HIDE DEF c
  <2>1. CASE n = i
    BY <1>1, <1>7, <1>9, <1>10, <2>1
  <2>2. CASE n # i
    <3>1. n \in 1..i - 1 /\ ciphertext'[n] = ciphertext[n]
      BY <1>1, <1>9, <1>10, <2>2
    <3> QED BY <3>1 DEF Encrypted
  <2> QED BY <2>1, <2>2
<1>12. Len(ciphertext') = i /\ i <= Len(Message)
  BY <1>1, <1>3, <1>9, <1>10
<1> HIDE DEF c
<1> QED BY ONLY <1>6, <1>11, <1>12 DEF Encrypted

LEMMA EndOfEncryption ==
  ASSUME CipherTypeOK, Survives, Encrypted(i - 1), EncryptEnd
  PROVE  Encrypted(Len(Message))
<1>1. /\ Len(plaintext_file) \in Nat \ {0} /\ Len(Message) \in Nat
      /\ \/ Len(plaintext_file) = Len(Message) + 1
         \/ Message = plaintext_file
      /\ \A n \in 1..Len(Message) : plaintext_file[n] # NewLine
  BY MessageIs DEF CipherTypeOK
<1>2. i \in Nat \ {0} /\ i - 1 <= Len(Message)
      /\ ~(i <= Len(plaintext_file) /\ plaintext_file[i] # NewLine)
  BY DEF EncryptEnd, MoreToEncrypt, CipherTypeOK, Encrypted
<1>3. i - 1 = Len(Message)
  <2>1. CASE i <= Len(Message)
    <3>1. i \in 1..Len(Message) /\ i <= Len(plaintext_file) BY <1>1, <1>2, <2>1
    <3> QED BY <1>1, <1>2, <3>1
  <2>2. CASE ~(i <= Len(Message)) BY <1>1, <1>2, <2>2
  <2> QED BY <2>1, <2>2
<1> QED BY <1>3

\* No sure character of the ciphertext is one that strtok() or decrypt() stops at.
LEMMA SureCharacters ==
  ASSUME CipherTypeOK, Survives, Passed, Encrypted(Len(Message)), NEW n \in 1..Sure
  PROVE  /\ ciphertext[n] \in Alphabet /\ ciphertext[n] # Comma /\ ciphertext[n] # 33
         /\ DecryptChar(ciphertext[n], KeyFileChar(key, n)) = Message[n]
         /\ n \in 1..Len(Message)
<1>1. Sure \in 1..Len(Message) /\ Len(Message) \in Nat
  BY SureIs
<1>2. n \in 1..Len(Message) /\ n <= Sure
  BY <1>1
<1>3. ciphertext[n] = EncryptChar(Value(Message[n]), key[n])
  BY <1>2 DEF Encrypted
<1>4. Len(key) \in Nat /\ \A k \in 1..Len(key) : key[k] \in Alphabet /\ KeyFileChar(key, k) = key[k]
  BY KeyFile DEF CipherTypeOK
<1>5. Message[n] \in Alphabet /\ n \in 1..Len(key)
  BY <1>2, <1>4 DEF Passed
<1>6. key[n] \in Alphabet /\ KeyFileChar(key, n) = key[n]
  BY <1>4, <1>5
<1>7. /\ EncryptChar(Value(Message[n]), key[n]) \in Alphabet
      /\ DecryptChar(EncryptChar(Value(Message[n]), key[n]), key[n]) = Message[n]
  BY <1>5, <1>6, CharRoundTrip
<1> QED BY <1>2, <1>3, <1>6, <1>7, AlphabetCodes

\* A kept ciphertext is one field, from its first character to its end or to a comma there.
LEMMA CipherField ==
  ASSUME CipherTypeOK, Survives, Passed, Encrypted(Len(Message))
  PROVE  /\ TokenStarts(ciphertext) = {1}
         /\ TokenEnd(ciphertext, 1) = Len(Message)
            \/ (~Sound /\ TokenEnd(ciphertext, 1) = Len(Message) - 1)
         /\ TokenEnd(ciphertext, 1) \in 1..Len(ciphertext)
<1>1. /\ Sure \in 1..Len(Message) /\ Len(Message) \in Nat
      /\ Sound => Sure = Len(Message)
      /\ ~Sound => Sure = Len(Message) - 1
      /\ \A n \in 1..Len(Message) : n <= Sure \/ (~Sound /\ n = Len(Message) /\ n = Sure + 1)
  BY SureIs
<1>2. ciphertext \in Seq(Int) /\ Len(ciphertext) = Len(Message)
      /\ \A n \in 1..Sure : ciphertext[n] # Comma
  BY SureCharacters DEF CipherTypeOK, Encrypted
<1>3. CASE \A n \in 1..Len(Message) : ciphertext[n] # Comma
  <2>1. Len(Message) \in 1..Len(ciphertext) BY <1>1, <1>2
  <2>2. TokenStarts(ciphertext) = {1} /\ TokenEnd(ciphertext, 1) = Len(Message)
    BY <1>2, <1>3, <2>1, OneField
  <2> QED BY <2>1, <2>2
<1>4. CASE \E n \in 1..Len(Message) : ciphertext[n] = Comma
  <2>1. PICK n \in 1..Len(Message) : ciphertext[n] = Comma
    BY <1>4
  <2>2. ~Sound /\ n = Len(Message) /\ n = Sure + 1
    BY <1>1, <1>2, <2>1
  <2>3. Sure \in 1..Len(ciphertext) /\ Sure + 1 = Len(ciphertext) /\ Sure = Len(Message) - 1
    BY <1>1, <1>2, <2>2
  <2>4. TokenStarts(ciphertext) = {1} /\ TokenEnd(ciphertext, 1) = Sure
    BY <1>2, <2>1, <2>2, <2>3, OneField
  <2> QED BY <2>2, <2>3, <2>4
<1> QED BY <1>3, <1>4

LEMMA ErrorField ==
  /\ ErrorMsg \in Seq(Int) /\ TokenStarts(ErrorMsg) = {1}
  /\ SubSeq(ErrorMsg, 1, TokenEnd(ErrorMsg, 1)) = ErrorMsg
<1>1. ErrorMsg \in Seq(Int) /\ Len(ErrorMsg) = 7 /\ \A n \in 1..7 : ErrorMsg[n] # Comma
  BY DEF ErrorMsg, Comma
<1>2. TokenStarts(ErrorMsg) = {1} /\ TokenEnd(ErrorMsg, 1) = 7
  <2>1. ASSUME NEW s \in Seq(Int), Len(s) = 7, \A n \in 1..7 : s[n] # Comma
        PROVE  TokenStarts(s) = {1} /\ TokenEnd(s, 1) = 7
    <3>1. 7 \in 1..Len(s) /\ 7 = Len(s) BY <2>1
    <3> QED BY <2>1, <3>1, OneField
  <2> QED BY <1>1, <2>1
<1> QED BY <1>1, <1>2, SubSeqFull

\* What the daemon makes of the request: it is stored, or it was the error message.
LEMMA DispatchStep ==
  ASSUME CipherTypeOK, Survives, DispatchPost,
         \/ ciphertext = ErrorMsg /\ Refused
         \/ Passed /\ Encrypted(Len(Message))
  PROVE  \/ pc' = "rejected" /\ Refused
         \/ /\ pc' = "stored" /\ Passed /\ Encrypted(Len(Message))
            /\ \/ stored' = ciphertext
               \/ ~Sound /\ stored' = SubSeq(ciphertext, 1, Len(Message) - 1)
<1> DEFINE field == SubSeq(ciphertext, 1, TokenEnd(ciphertext, 1))
<1>1. TokenStarts(ciphertext) = {1}
  BY CipherField, ErrorField
<1>2. \/ field = ErrorMsg /\ pc' = "rejected"
      \/ field # ErrorMsg /\ pc' = "stored" /\ stored' = field
  <2>1. PICK k \in 1..Len(ciphertext) :
           /\ TokenStarts(ciphertext) = {k}
           /\ \/ /\ SubSeq(ciphertext, k, TokenEnd(ciphertext, k)) = ErrorMsg
                 /\ pc' = "rejected"
              \/ /\ SubSeq(ciphertext, k, TokenEnd(ciphertext, k)) # ErrorMsg
                 /\ pc' = "stored" /\ stored' = SubSeq(ciphertext, k, TokenEnd(ciphertext, k))
    BY DEF DispatchPost
  <2>2. k = 1
    BY <1>1, <2>1
  <2> QED BY <2>1, <2>2
<1>3. CASE ciphertext = ErrorMsg /\ Refused
  BY <1>2, <1>3, ErrorField
<1>4. CASE Passed /\ Encrypted(Len(Message))
  <2>1. PICK m \in 1..Len(ciphertext) : m = TokenEnd(ciphertext, 1)
    BY <1>4, CipherField
  <2>2. m = Len(Message) \/ (~Sound /\ m = Len(Message) - 1)
    BY <1>4, <2>1, CipherField
  <2>3. ciphertext \in Seq(Int) /\ Len(ciphertext) \in Nat /\ Len(ciphertext) = Len(Message)
    BY <1>4, LenProperties DEF CipherTypeOK, Encrypted
  <2>4. field # ErrorMsg
    <3>1. m \in 0..Len(ciphertext) /\ 1 \in 1..m
      BY <2>1, <2>3
    <3>2. field[1] = ciphertext[1]
      BY <2>1, <2>3, <3>1, Beginning
    <3>3. 1 \in 1..Sure
      BY SureIs
    <3>4. ciphertext[1] # 33
      BY <1>4, <3>3, SureCharacters
    <3>5. ErrorMsg[1] = 33
      BY DEF ErrorMsg
    <3> QED BY <3>2, <3>4, <3>5
  <2>5. m = Len(Message) => field = ciphertext
    BY <2>1, <2>3, SubSeqFull
  <2> QED BY <1>2, <1>4, <2>1, <2>2, <2>4, <2>5
<1> QED BY <1>3, <1>4

\* What is stored of a kept line, and what it decrypts to.
LEMMA StoredCharacters ==
  ASSUME CipherTypeOK, Survives, Storing, pc \in {"stored", "decrypt", "done"}
  PROVE  /\ Len(stored) \in Nat /\ Sure <= Len(stored) /\ Len(stored) <= Len(Message)
         /\ \A n \in 1..Sure : /\ stored[n] \in Alphabet
                               /\ DecryptChar(stored[n], KeyFileChar(key, n)) = Message[n]
<1>1. /\ Passed /\ Encrypted(Len(Message))
      /\ \/ stored = ciphertext
         \/ ~Sound /\ stored = SubSeq(ciphertext, 1, Len(Message) - 1)
  BY DEF Storing
<1>2. /\ Sure \in 1..Len(Message) /\ Len(Message) \in Nat /\ (~Sound => Sure = Len(Message) - 1)
      /\ ciphertext \in Seq(Int) /\ Len(ciphertext) = Len(Message)
  BY <1>1, SureIs DEF CipherTypeOK, Encrypted
<1>3. \A n \in 1..Sure : /\ ciphertext[n] \in Alphabet
                         /\ DecryptChar(ciphertext[n], KeyFileChar(key, n)) = Message[n]
  BY <1>1, SureCharacters
<1>4. CASE stored = ciphertext
  BY <1>2, <1>3, <1>4
<1>5. CASE ~Sound /\ stored = SubSeq(ciphertext, 1, Len(Message) - 1)
  <2>1. Sure \in 0..Len(ciphertext) /\ stored = SubSeq(ciphertext, 1, Sure)
    BY <1>2, <1>5
  <2>2. Len(stored) = Sure /\ \A n \in 1..Sure : stored[n] = ciphertext[n]
    BY <1>2, <2>1, Beginning
  <2> QED BY <1>2, <1>3, <2>2
<1> QED BY <1>1, <1>4, <1>5

LEMMA CipherStep == CipherTypeOK /\ CipherInv /\ [CipherNext]_cipherVars => CipherInv'
<1> SUFFICES ASSUME CipherTypeOK, CipherInv, [CipherNext]_cipherVars, Survives'
             PROVE  (Checking /\ Encrypting /\ Requesting /\ Storing /\ Decrypting)'
  BY DEF CipherInv
<1>0. /\ Survives /\ Message' = Message /\ plaintext_line' = plaintext_line /\ KeyLineLen' = KeyLineLen
      /\ (Sound' <=> Sound) /\ Sure' = Sure /\ (Passed' <=> Passed) /\ (Refused' <=> Refused)
      /\ key' = key
  BY PosterStays
<1>1. Checking /\ Encrypting /\ Requesting /\ Storing /\ Decrypting
  BY <1>0 DEF CipherInv
<1>2. /\ i \in Nat \ {0} /\ pc \in Pcs /\ Len(Message) \in Nat /\ Sure \in 1..Len(Message)
  BY <1>0, SureIs DEF CipherTypeOK
<1>3. CASE CheckSize
  <2>1. /\ pc = "size" /\ pc' = "chars" /\ i = 1 /\ ciphertext = <<>> /\ plaintext = <<>>
        /\ ret_flag' = (Len(plaintext_line) > KeyLineLen)
        /\ UNCHANGED <<i, ciphertext, plaintext>>
    BY <1>1, <1>3 DEF CheckSize, Checking
  <2>2. \A n \in 1..i' - 1 : FALSE
    BY <2>1
  <2>3. Checking'
    BY <1>0, <2>1, <2>2 DEF Checking
  <2> QED BY <2>1, <2>3 DEF Encrypting, Requesting, Storing, Decrypting
<1>4. CASE CheckChar
  <2>1. /\ pc = "chars" /\ pc' = "chars" /\ i' = i + 1
        /\ UNCHANGED <<ret_flag, ciphertext, plaintext>>
    BY <1>4 DEF CheckChar
  <2>2. plaintext_line # <<>> /\ plaintext_line[i] \in Alphabet
    <3>1. Nul \notin Alphabet BY AlphabetCodes
    <3> QED BY <1>4, <3>1 DEF CheckChar, InvalidHere
  <2>3. \A n \in 1..i' - 1 : n = i \/ n \in 1..i - 1
    BY <1>2, <2>1
  <2>4. Checking'
    BY <1>0, <1>1, <2>1, <2>2, <2>3 DEF Checking
  <2> QED BY <2>1, <2>4 DEF Encrypting, Requesting, Storing, Decrypting
<1>5. CASE RejectChar
  <2>1. pc = "chars" /\ pc' = "error" /\ plaintext' = plaintext /\ Refused
    BY <1>5, ChecksRefuse DEF RejectChar
  <2> QED BY <1>0, <1>1, <2>1 DEF Checking, Encrypting, Requesting, Storing, Decrypting
<1>6. CASE EndOfCheck
  <2>1. /\ pc = "chars" /\ pc' = IF ret_flag THEN "error" ELSE "encrypt"
        /\ i' = 1 /\ UNCHANGED <<ciphertext, plaintext>>
        /\ (ret_flag => Refused) /\ (~ret_flag => Passed)
        /\ ciphertext = <<>> /\ plaintext = <<>>
    BY <1>0, <1>1, <1>6, ChecksPass DEF EndOfCheck, Checking
  <2>2. Len(ciphertext') = 0 /\ i' - 1 = 0 /\ \A n \in 1..0 : FALSE
    BY <2>1
  <2>3. CASE ret_flag
    BY <1>0, <2>1, <2>3 DEF Checking, Encrypting, Requesting, Storing, Decrypting
  <2>4. CASE ~ret_flag
    <3>1. Encrypted(i - 1)'
      BY <1>0, <1>2, <2>2 DEF Encrypted
    <3> QED BY <1>0, <2>1, <2>2, <2>4, <3>1
            DEF Checking, Encrypting, Requesting, Storing, Decrypting
  <2> QED BY <2>3, <2>4
<1>7. CASE SendError
  <2>1. pc = "error" /\ pc' = "request" /\ ciphertext' = ErrorMsg /\ plaintext' = plaintext
        /\ Refused
    BY <1>1, <1>7 DEF SendError, Requesting
  <2>2. ErrorMsg' = ErrorMsg
    BY DEF ErrorMsg
  <2> QED BY <1>0, <1>1, <2>1, <2>2 DEF Checking, Encrypting, Requesting, Storing, Decrypting
<1>8. CASE EncryptNext
  <2>1. /\ pc = "encrypt" /\ pc' = "encrypt" /\ i' = i + 1 /\ plaintext' = plaintext
        /\ Passed /\ Encrypted(i - 1) /\ (i > 1 => numeric \in 0..26)
    BY <1>1, <1>8 DEF EncryptNext, Encrypting
  <2>2. /\ numeric' \in 0..26 /\ Len(ciphertext') = i /\ i <= Len(Message)
        /\ \A n \in 1..i : IF n <= Sure
                           THEN ciphertext'[n] = EncryptChar(Value(Message[n]), key[n])
                           ELSE ciphertext'[n] \in {Space} \cup 39..90
    BY <1>0, <1>8, <2>1, EncryptNextStep
  <2>3. i' - 1 = i
    BY <1>2, <2>1
  <2>4. Encrypted(i - 1)'
    BY <1>0, <2>2, <2>3 DEF Encrypted
  <2> QED BY <1>0, <1>1, <2>1, <2>2, <2>4 DEF Checking, Encrypting, Requesting, Storing, Decrypting
<1>9. CASE EncryptEnd
  <2>1. /\ pc = "encrypt" /\ pc' = "request" /\ UNCHANGED <<ciphertext, plaintext>>
        /\ Passed /\ Encrypted(i - 1)
    BY <1>1, <1>9 DEF EncryptEnd, Encrypting
  <2>2. Encrypted(Len(Message))
    BY <1>0, <1>9, <2>1, EndOfEncryption
  <2>3. Encrypted(Len(Message))'
    BY <1>0, <2>1, <2>2 DEF Encrypted
  <2> QED BY <1>0, <1>1, <2>1, <2>3 DEF Checking, Encrypting, Requesting, Storing, Decrypting
<1>10. CASE DispatchPost
  <2>1. /\ pc = "request" /\ UNCHANGED <<ciphertext, plaintext>>
        /\ \/ ciphertext = ErrorMsg /\ Refused
           \/ Passed /\ Encrypted(Len(Message))
    BY <1>1, <1>10 DEF DispatchPost, Requesting
  <2>2. \/ pc' = "rejected" /\ Refused
        \/ /\ pc' = "stored" /\ Passed /\ Encrypted(Len(Message))
           /\ \/ stored' = ciphertext
              \/ ~Sound /\ stored' = SubSeq(ciphertext, 1, Len(Message) - 1)
    BY <1>0, <1>10, <2>1, DispatchStep
  <2>3. Encrypted(Len(Message))' <=> Encrypted(Len(Message))
    BY <1>0, <2>1 DEF Encrypted
  <2> QED BY <1>0, <1>1, <2>1, <2>2, <2>3 DEF Checking, Encrypting, Requesting, Storing, Decrypting
<1>11. CASE DispatchAsGet \/ DispatchFails
  <2>1. /\ pc = "request" /\ pc' \in {"misread", "dropped"} /\ plaintext' = plaintext
        /\ TokenStarts(ciphertext) = {} \/ \E j, k \in TokenStarts(ciphertext) : j # k
        /\ \/ ciphertext = ErrorMsg /\ Refused
           \/ Passed /\ Encrypted(Len(Message))
    BY <1>1, <1>11 DEF DispatchAsGet, DispatchFails, Requesting
  <2>2. TokenStarts(ciphertext) = {1}
    BY <1>0, <2>1, CipherField, ErrorField
  <2> QED BY <2>1, <2>2
<1>12. ASSUME NEW k \in Keys, ReceiveCipher(k)
       PROVE  (Checking /\ Encrypting /\ Requesting /\ Storing /\ Decrypting)'
  <2>1. /\ pc = "stored" /\ pc' = "decrypt" /\ i' = 1
        /\ UNCHANGED <<ciphertext, stored, plaintext>> /\ plaintext = <<>>
    BY <1>1, <1>12 DEF ReceiveCipher, Checking
  <2>2. Encrypted(Len(Message))' <=> Encrypted(Len(Message))
    BY <1>0, <2>1 DEF Encrypted
  <2>3. Len(stored) \in Nat
    BY <1>0, <1>1, <2>1, StoredCharacters
  <2>4. Len(plaintext') = i' - 1 /\ i' - 1 <= Len(stored') /\ \A n \in 1..i' - 1 : FALSE
    BY <2>1, <2>3
  <2>5. Decrypting'
    BY <2>1, <2>4 DEF Decrypting
  <2> QED BY <1>0, <1>1, <2>1, <2>2, <2>5 DEF Checking, Encrypting, Requesting, Storing
<1>13. CASE DecryptNext
  <2>1. /\ pc = "decrypt" /\ pc' = "decrypt" /\ i' = i + 1 /\ i <= Len(stored)
        /\ UNCHANGED <<ciphertext, stored, get_key>> /\ stored[i] \in Alphabet
        /\ plaintext' = Append(plaintext, DecryptChar(stored[i], KeyFileChar(get_key, i)))
    BY <1>13 DEF DecryptNext, MoreToDecrypt
  <2>2. /\ Len(plaintext) = i - 1 /\ i - 1 <= Len(stored)
        /\ get_key = key => \A n \in 1..i - 1 : n <= Sure => plaintext[n] = Message[n]
    BY <1>1, <2>1 DEF Decrypting
  <2>3. Encrypted(Len(Message))' <=> Encrypted(Len(Message))
    BY <1>0, <2>1 DEF Encrypted
  <2>4. DecryptChar(stored[i], KeyFileChar(get_key, i)) \in Int
    <3>1. stored[i] \in Int
      <4>1. stored[i] \in Alphabet BY <2>1
      <4> QED BY <4>1, AlphabetCodes
    <3>2. KeyFileChar(get_key, i) \in Int BY <1>2, KeyFile DEF CipherTypeOK
    <3> QED BY <3>1, <3>2, CipherIsInt
  <2>5. PICK c \in Int : c = DecryptChar(stored[i], KeyFileChar(get_key, i))
    BY <2>4
  <2>6. /\ Len(plaintext') = Len(plaintext) + 1 /\ plaintext'[Len(plaintext) + 1] = c
        /\ \A n \in 1..Len(plaintext) : plaintext'[n] = plaintext[n]
    <3>1. plaintext \in Seq(Int) /\ plaintext' = Append(plaintext, c)
      BY <2>1, <2>5 DEF CipherTypeOK
    <3> QED BY <3>1, AppendProperties
  <2>7. ASSUME get_key = key, NEW n \in 1..i, n <= Sure PROVE plaintext'[n] = Message[n]
    <3>1. CASE n = i
      <4>1. i \in 1..Sure BY <1>2, <2>7, <3>1
      <4>2. DecryptChar(stored[i], KeyFileChar(key, i)) = Message[i]
        BY <1>0, <1>1, <2>1, <4>1, StoredCharacters
      <4>3. plaintext'[i] = c BY <1>2, <2>2, <2>6
      <4> QED BY <2>5, <2>7, <3>1, <4>2, <4>3
    <3>2. CASE n # i
      <4>1. n \in 1..i - 1 BY <1>2, <2>7, <3>2
      <4> QED BY <2>2, <2>6, <2>7, <4>1
    <3> QED BY <3>1, <3>2
  <2>8. Len(plaintext') = i /\ i' - 1 = i
    BY <1>2, <2>1, <2>2, <2>6
  <2>9. Decrypting'
    BY <1>0, <2>1, <2>7, <2>8 DEF Decrypting
  <2> QED BY <1>0, <1>1, <2>1, <2>3, <2>9 DEF Checking, Encrypting, Requesting, Storing
<1>14. CASE DecryptEnd
  <2>1. /\ pc = "decrypt" /\ pc' = "done" /\ UNCHANGED <<i, ciphertext, stored, get_key, plaintext>>
        /\ ~(i <= Len(stored) /\ stored[i] \in Alphabet)
    BY <1>14 DEF DecryptEnd, MoreToDecrypt
  <2>2. Encrypted(Len(Message))' <=> Encrypted(Len(Message))
    BY <1>0, <2>1 DEF Encrypted
  <2>3. /\ Len(stored) \in Nat /\ Sure <= Len(stored)
        /\ \A n \in 1..Sure : stored[n] \in Alphabet
    BY <1>0, <1>1, <2>1, StoredCharacters
  <2>4. i > Sure
    <3>1. CASE i <= Sure
      <4>1. i \in 1..Sure /\ i <= Len(stored) BY <1>2, <2>3, <3>1
      <4> QED BY <2>1, <2>3, <4>1
    <3> QED BY <1>2, <3>1
  <2>5. Decrypting'
    BY <1>0, <1>1, <2>1, <2>4 DEF Decrypting
  <2> QED BY <1>0, <1>1, <2>1, <2>2, <2>5 DEF Checking, Encrypting, Requesting, Storing
<1>15. CASE UNCHANGED cipherVars
  <2>1. UNCHANGED <<pc, ret_flag, i, numeric, ciphertext, stored, get_key, plaintext>>
    BY <1>15 DEF cipherVars
  <2>2. /\ Encrypted(Len(Message))' <=> Encrypted(Len(Message))
        /\ Encrypted(i - 1)' <=> Encrypted(i - 1)
        /\ ErrorMsg' = ErrorMsg
    BY <1>0, <2>1 DEF Encrypted, ErrorMsg
  <2> QED BY <1>0, <1>1, <2>1, <2>2 DEF Checking, Encrypting, Requesting, Storing, Decrypting
<1> QED BY <1>3, <1>4, <1>5, <1>6, <1>7, <1>8, <1>9, <1>10, <1>11, <1>12, <1>13, <1>14, <1>15
        DEF CipherNext

LEMMA CipherInvariant == CipherSpec => [](CipherTypeOK /\ CipherInv)
<1>1. CipherInit => CipherInv
  <2> SUFFICES ASSUME CipherInit PROVE CipherInv
    OBVIOUS
  <2>1. pc = "size" /\ i = 1 /\ ciphertext = <<>> /\ plaintext = <<>>
    BY DEF CipherInit
  <2> QED BY <2>1 DEF CipherInv, Checking, Encrypting, Requesting, Storing, Decrypting
<1> QED BY <1>1, CipherStep, TypeInvariant, PTL DEF CipherSpec

\* encrypt() of otp.c, the fields that otp_d.c splits a request into and the error message
\* of a refused line together never keep a sound message from being stored as it was sent.
THEOREM SoundMessagesAreStored == CipherSpec => []SoundIsStored
<1>1. CipherTypeOK /\ CipherInv => SoundIsStored
  <2> SUFFICES ASSUME CipherTypeOK, CipherInv, Sound PROVE SoundIsStored
    BY DEF SoundIsStored
  <2>1. Survives /\ Requesting /\ Storing /\ Sure = Len(Message) /\ Len(Message) \in Nat
    BY SureIs DEF CipherInv, Survives
  <2>2. pc \notin {"misread", "dropped"} /\ (pc = "rejected" => Refused)
    BY <2>1 DEF Requesting
  <2>3. ASSUME pc \in {"stored", "decrypt", "done"}
        PROVE  /\ stored = ciphertext /\ Len(stored) = Len(Message)
               /\ \A n \in 1..Len(stored) : stored[n] \in Alphabet
    <3>1. stored = ciphertext BY <2>1, <2>3 DEF Storing
    <3>2. /\ Len(stored) \in Nat /\ Sure <= Len(stored) /\ Len(stored) <= Len(Message)
          /\ \A n \in 1..Sure : stored[n] \in Alphabet
      BY <2>1, <2>3, StoredCharacters
    <3>3. Len(stored) = Len(Message) BY <2>1, <3>2
    <3> QED BY <2>1, <3>1, <3>2, <3>3
  <2> QED BY <2>2, <2>3 DEF SoundIsStored, Refused
<1> QED BY <1>1, CipherInvariant, PTL

\* decrypt() of otp.c gives a sound message back, and all but the last character of any
\* line, ended by a newline, that encrypt() lets through.
THEOREM MessagesSurvive == CipherSpec => []RoundTrip
<1>1. CipherTypeOK /\ CipherInv => RoundTrip
  <2> SUFFICES ASSUME CipherTypeOK, CipherInv, pc = "done", get_key = key
               PROVE  /\ Sound => plaintext = Message
                      /\ Slack = 1 /\ Len(Message) > 1 =>
                            /\ Len(plaintext) \in {Len(Message) - 1, Len(Message)}
                            /\ \A n \in 1..Len(Message) - 1 : plaintext[n] = Message[n]
    BY DEF RoundTrip
  <2>1. ASSUME Survives
        PROVE  /\ Sure <= Len(plaintext) /\ Len(plaintext) <= Len(Message)
               /\ Len(plaintext) \in Nat /\ Len(Message) \in Nat
               /\ \A n \in 1..Sure : plaintext[n] = Message[n]
    <3>1. Storing /\ Decrypting BY <2>1 DEF CipherInv
    <3>2. Len(stored) <= Len(Message) /\ Len(stored) \in Nat BY <2>1, <3>1, StoredCharacters
    <3>3. Sure \in 1..Len(Message) /\ Len(Message) \in Nat BY <2>1, SureIs
    <3>4. /\ Len(plaintext) = i - 1 /\ i - 1 <= Len(stored) /\ i > Sure /\ i \in Nat \ {0}
          /\ \A n \in 1..i - 1 : n <= Sure => plaintext[n] = Message[n]
      BY <3>1 DEF Decrypting, CipherTypeOK
    <3>5. \A n \in 1..Sure : n \in 1..i - 1 /\ n <= Sure
      BY <3>3, <3>4
    <3> QED BY <3>2, <3>3, <3>4, <3>5
  <2>2. ASSUME Sound PROVE plaintext = Message
    <3>1. Survives /\ Sure = Len(Message) BY <2>2, SureIs DEF Survives
    <3>2. Len(plaintext) = Len(Message) /\ \A n \in 1..Len(plaintext) : plaintext[n] = Message[n]
      BY <2>1, <3>1
    <3>3. plaintext \in Seq(Int) /\ Message \in Seq(Int)
      <4>1. Message \in Seq(Nat) BY MessageIs DEF CipherTypeOK
      <4>2. Message \in Seq(Int) BY <4>1, SeqMonotonic
      <4> QED BY <4>2 DEF CipherTypeOK
    <3> QED BY <3>2, <3>3, SeqEqual
  <2>3. ASSUME Slack = 1, Len(Message) > 1
        PROVE  /\ Len(plaintext) \in {Len(Message) - 1, Len(Message)}
               /\ \A n \in 1..Len(Message) - 1 : plaintext[n] = Message[n]
    <3>1. Survives BY <2>3 DEF Survives, Terminated
    <3>2. Sure \in {Len(Message) - 1, Len(Message)} BY DEF Sure
    <3> QED BY <2>1, <3>1, <3>2
  <2> QED BY <2>2, <2>3
<1> QED BY <1>1, CipherInvariant, PTL
=============================================================================

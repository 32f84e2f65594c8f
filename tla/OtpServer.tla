----------------------------- MODULE OtpServer -----------------------------
(***************************************************************************)
(* otp_d.c: the daemon accepts a connection, forks a child for it, and     *)
(* counts its children in process_count, which its SIGCHLD handler         *)
(* decrements between any two steps of main().  The children serve POSTs   *)
(* and GETs on directories of files they share and do not lock.            *)
(* The clients are runs of otp.c; a message is named by the client that    *)
(* posts it, and so is the inode its file is given.                        *)
(***************************************************************************)
EXTENDS Integers, FiniteSets

CONSTANTS Clients, Users, Pids,
          Scenarios,   \* what the clients ask for and the second they begin in, the
                       \* connections the daemon's descriptor table has room for,
                       \* and how often (a bound) a signal stops a child
          Limit,       \* size of child_pid[], 5 in the code
          MaxTime,     \* bound: the last second that passes
          None

Ops == {"POST", "GET", "ERROR", "BAD"}
Request == [op : Ops, user : Users]

ASSUME ScenariosAssumption ==
         Scenarios \subseteq [request : [Clients -> Request], begin : Nat \ {0},
                               fdlimit : Nat, stops : Nat]
ASSUME PidsAssumption == IsFiniteSet(Pids)
ASSUME LimitAssumption == Limit \in Nat \ {0}
ASSUME BoundsAssumption == MaxTime \in Nat \ {0}
\* A reply is a message or one of the daemon's three other answers.
ASSUME ClientsAssumption == Clients \cap {"none", "greeting", "error"} = {}
ASSUME NoneAssumption == None \notin Clients \cup Pids

VARIABLES
    request, client, reply,                 \* otp.c: what is asked, how far, first reply
    ppc, process_count, loaded, fds, fdlimit, \* main() of the daemon
    sigchld, handling,                      \* SIGCHLD pending, handler running
    cpc, serving, oldest, fd,               \* the children
    ahead, least,                           \* ftw(): names not come to, mtime
    stopped, stopReport, stopsLeft, stopsCounted, \* children stopped by a signal
    dir, content, mtime, now,               \* the file system
    createdAt, pidOf, torn, there           \* history, for the properties
clientVars == <<request, client, reply>>
parentVars == <<ppc, process_count, loaded, fds, fdlimit>>
walkVars == <<oldest, ahead, least>>
childVars == <<cpc, serving, walkVars, fd>>
stopVars == <<stopped, stopReport, stopsLeft, stopsCounted>>
fileVars == <<dir, content, mtime>>
history == <<createdAt, pidOf, torn, there>>
vars == <<clientVars, parentVars, sigchld, handling, childVars, stopVars,
          fileVars, now, history>>

Names == Users \X Pids      \* user/user.pid
Empty == None               \* content of a file between fopen "w" and fclose
NoFile == None

Init ==
    /\ \E s \in Scenarios :
         /\ request = s.request /\ now = s.begin
         /\ fdlimit = s.fdlimit /\ stopsLeft = s.stops
    /\ client = [c \in Clients |-> "idle"] /\ reply = [c \in Clients |-> "none"]
    /\ ppc = "accept" /\ process_count = 0 /\ loaded = 0
    /\ fds = 0
    /\ sigchld = FALSE /\ handling = FALSE
    /\ cpc = [p \in Pids |-> "free"] /\ serving = [p \in Pids |-> None]
    /\ oldest = [p \in Pids |-> None] /\ fd = [p \in Pids |-> None]
    /\ ahead = [p \in Pids |-> {}] /\ least = [p \in Pids |-> 0]
    /\ stopped = {} /\ stopReport = {} /\ stopsCounted = 0
    /\ dir = [n \in Names |-> NoFile]
    /\ content = [c \in Clients |-> Empty] /\ mtime = [c \in Clients |-> 0]
    /\ createdAt = [c \in Clients |-> 0] /\ pidOf = [c \in Clients |-> None]
    /\ torn = {} /\ there = [c \in Clients |-> {}]

Tick == /\ now < MaxTime /\ now' = now + 1
        /\ UNCHANGED <<clientVars, parentVars, sigchld, handling, childVars, stopVars,
                       fileVars, history>>
-----------------------------------------------------------------------------
(* The clients *)

\* connect() and send(); the request waits in the listen queue.
Connect(c) ==
    /\ client[c] = "idle"
    /\ client' = [client EXCEPT ![c] = "queued"]
    /\ UNCHANGED <<request, reply, parentVars, sigchld, handling, childVars, stopVars,
                   fileVars, now, history>>

\* The client reads once: what is sent first is its reply.
Send(c, what) == reply' = [reply EXCEPT ![c] = IF @ = "none" THEN what ELSE @]
-----------------------------------------------------------------------------
(* main() of the daemon: runs only while the handler does not *)

Main(from) == ppc = from /\ ~handling

\* accept() and fork().  A pid is free again once its child has been reaped.
Accept(c, p) ==
    /\ Main("accept")
    /\ client[c] = "queued" /\ fds < fdlimit
    /\ cpc[p] = "free"
    /\ fds' = fds + 1
    /\ client' = [client EXCEPT ![c] = "accepted"]
    /\ cpc' = [cpc EXCEPT ![p] = "recv"]
    /\ serving' = [serving EXCEPT ![p] = c]
    /\ oldest' = [oldest EXCEPT ![p] = None] /\ fd' = [fd EXCEPT ![p] = None]
    /\ ahead' = [ahead EXCEPT ![p] = {}] /\ least' = [least EXCEPT ![p] = 0]
    /\ pidOf' = [pidOf EXCEPT ![c] = p]
    /\ ppc' = "load"
    /\ UNCHANGED <<request, reply, process_count, loaded, fdlimit, sigchld, handling,
                   stopVars, fileVars, now, createdAt, torn, there>>

\* fork() returns -1 when no process can be made: main() takes its else branch
\* and counts a child that does not exist; the connection stays open, unserved.
ForkFails(c) ==
    /\ Main("accept")
    /\ client[c] = "queued" /\ fds < fdlimit
    /\ \A p \in Pids : cpc[p] # "free"
    /\ fds' = fds + 1
    /\ client' = [client EXCEPT ![c] = "unserved"]
    /\ ppc' = "load"
    /\ UNCHANGED <<request, reply, process_count, loaded, fdlimit, sigchld, handling,
                   childVars, stopVars, fileVars, now, history>>

\* main() never closes establishedConnectionFD: when the descriptors run out,
\* accept() fails and error() ends the daemon.
AcceptFails ==
    /\ Main("accept")
    /\ \E c \in Clients : client[c] = "queued"
    /\ fds >= fdlimit
    /\ ppc' = "exited"
    /\ UNCHANGED <<clientVars, process_count, loaded, fds, fdlimit, sigchld, handling,
                   childVars, stopVars, fileVars, now, history>>

\* process_count++ is a load into a register and a store, and the handler may run in
\* between.  `loaded' is 0 when the register holds nothing that matters.
LoadCount ==
    /\ Main("load")
    /\ loaded' = process_count
    /\ ppc' = "store"
    /\ UNCHANGED <<clientVars, process_count, fds, fdlimit, sigchld, handling,
                   childVars, stopVars, fileVars, now, history>>

\* Seeded fault: the handler's view of the count is written back unchanged.
StoreLoaded ==
    /\ Main("store")
    /\ process_count' = loaded
    /\ loaded' = 0 /\ ppc' = "check"
    /\ UNCHANGED <<clientVars, fds, fdlimit, sigchld, handling,
                   childVars, stopVars, fileVars, now, history>>

StoreCount ==
    /\ Main("store")
    /\ process_count' = loaded + 1
    /\ loaded' = 0 /\ ppc' = "check"
    /\ UNCHANGED <<clientVars, fds, fdlimit, sigchld, handling,
                   childVars, stopVars, fileVars, now, history>>

\* spawn_pid was overwritten with an element of child_pid[] that nothing ever
\* assigns.  waitpid() on it finds no such child and returns at once, or (0, -1 and
\* its like) waits for any child.
CheckLimit ==
    /\ Main("check")
    /\ \/ process_count # Limit /\ ppc' = "accept"
       \/ process_count = Limit /\ ppc' \in {"accept", "wait"}
    /\ UNCHANGED <<clientVars, process_count, loaded, fds, fdlimit, sigchld, handling,
                   childVars, stopVars, fileVars, now, history>>

\* The blocking waitpid() reaps a child: the count is not decremented for it.
WaitReaps(p) ==
    /\ Main("wait")
    /\ cpc[p] = "zombie"
    /\ cpc' = [cpc EXCEPT ![p] = "free"]
    /\ ppc' = "accept"
    /\ UNCHANGED <<clientVars, process_count, loaded, fds, fdlimit, sigchld, handling,
                   serving, walkVars, fd, stopVars, fileVars, now, history>>

\* Seeded fault: waitpid() is called again when there is no child to wait for.
WaitForever ==
    /\ Main("wait")
    /\ \A p \in Pids : cpc[p] = "free"
    /\ UNCHANGED vars

WaitFindsNone ==
    /\ Main("wait")
    /\ \A p \in Pids : cpc[p] = "free"
    /\ ppc' = "accept"
    /\ UNCHANGED <<clientVars, process_count, loaded, fds, fdlimit, sigchld, handling,
                   childVars, stopVars, fileVars, now, history>>
-----------------------------------------------------------------------------
(* catchSIGCHLD *)

HandlerEnter ==
    /\ sigchld /\ ~handling /\ ppc # "exited"
    /\ sigchld' = FALSE /\ handling' = TRUE
    /\ UNCHANGED <<clientVars, parentVars, childVars, stopVars, fileVars, now, history>>

Decremented == IF process_count > 0 THEN process_count - 1 ELSE process_count

HandlerReap(p) ==
    /\ handling
    /\ cpc[p] = "zombie"
    /\ cpc' = [cpc EXCEPT ![p] = "free"]
    /\ process_count' = Decremented
    /\ UNCHANGED <<clientVars, ppc, loaded, fds, fdlimit, sigchld, handling,
                   serving, walkVars, fd, stopVars, fileVars, now, history>>

\* WUNTRACED: a stopped child is reported too, and the handler cannot tell.
HandlerStop(p) ==
    /\ handling
    /\ p \in stopReport
    /\ stopReport' = stopReport \ {p}
    /\ process_count' = Decremented
    /\ stopsCounted' = stopsCounted + 1
    /\ UNCHANGED <<clientVars, ppc, loaded, fds, fdlimit, sigchld, handling, childVars,
                   stopped, stopsLeft, fileVars, now, history>>

\* Seeded fault: one waitpid() instead of a loop of them.
HandlerReturnsEarly ==
    /\ handling
    /\ handling' = FALSE
    /\ UNCHANGED <<clientVars, parentVars, sigchld, childVars, stopVars, fileVars, now,
                   history>>

HandlerReturn ==
    /\ handling
    /\ stopReport = {} /\ \A p \in Pids : cpc[p] # "zombie"
    /\ handling' = FALSE
    /\ UNCHANGED <<clientVars, parentVars, sigchld, childVars, stopVars, fileVars, now,
                   history>>
-----------------------------------------------------------------------------
(* A child *)

Alive(p) == cpc[p] \notin {"free", "zombie"}
Running(p, at) == cpc[p] = at /\ p \notin stopped
\* Seeded fault: the path of the mailbox without the user's name.
FirstUser(p) == CHOOSE w \in Users : TRUE

User(p) == request[serving[p]].user
GoTo(p, next) == cpc' = [cpc EXCEPT ![p] = next]
\* exit() or death by a signal
Exit(p) == GoTo(p, "zombie") /\ sigchld' = TRUE

NextStep(op) == IF op = "POST" THEN "create" ELSE IF op = "GET" THEN "scan" ELSE "reply"

\* recv() and the parse; a POST of the error message goes straight to the reply.
Receive(p) ==
    /\ Running(p, "recv")
    /\ request[serving[p]].op # "BAD"
    /\ GoTo(p, NextStep(request[serving[p]].op))
    /\ UNCHANGED <<clientVars, parentVars, sigchld, handling, serving, walkVars, fd,
                   stopVars, fileVars, now, history>>

\* "ERROR unable to determine client request": exit without a reply.
ReceiveBad(p) ==
    /\ Running(p, "recv")
    /\ request[serving[p]].op = "BAD"
    /\ Exit(p)
    /\ UNCHANGED <<clientVars, parentVars, handling, serving, walkVars, fd, stopVars,
                   fileVars, now, history>>

\* opendir()/mkdir() and fopen(pname, "w"): a new file, or the one an earlier
\* process of the same pid left there, truncated.
\* Seeded fault: the file is not named for the process.
OneFilePerUser(p) == <<User(p), CHOOSE q \in Pids : TRUE>>

FileName(p) == <<User(p), p>>

PostCreate(p) ==
    /\ Running(p, "create")
    /\ LET name == FileName(p)
           inode == IF dir[name] = NoFile THEN serving[p] ELSE dir[name]
       IN  /\ dir' = [dir EXCEPT ![name] = inode]
           /\ fd' = [fd EXCEPT ![p] = inode]
           /\ content' = [content EXCEPT ![inode] = Empty]
           /\ mtime' = [mtime EXCEPT ![inode] = now]
    /\ createdAt' = [createdAt EXCEPT ![serving[p]] = now]
    /\ GoTo(p, "flush")
    /\ UNCHANGED <<clientVars, parentVars, sigchld, handling, serving, walkVars, stopVars,
                   now, pidOf, torn, there>>

\* fprintf() only fills stdio's buffer: fclose() writes it, to the inode that was
\* opened, whether or not it still has a name.
PostFlush(p) ==
    /\ Running(p, "flush")
    /\ content' = [content EXCEPT ![fd[p]] = serving[p]]
    /\ mtime' = [mtime EXCEPT ![fd[p]] = now]
    /\ GoTo(p, "reply")
    /\ UNCHANGED <<clientVars, parentVars, sigchld, handling, serving, walkVars, fd,
                   stopVars, dir, now, history>>

\* ftw() begins its walk of the mailbox.  `there' is what was in it then.
FilesOf(u) == {dir[<<u, q>>] : q \in Pids} \ {NoFile}

GetScan(p) ==
    /\ Running(p, "scan")
    /\ ahead' = [ahead EXCEPT ![p] = Pids]
    /\ there' = [there EXCEPT ![serving[p]] = FilesOf(User(p))]
    /\ GoTo(p, "walk")
    /\ UNCHANGED <<clientVars, parentVars, sigchld, handling, serving, oldest, least, fd,
                   stopVars, fileVars, now, createdAt, pidOf, torn>>

\* find_oldest(): st_mtime is in seconds, and the first of equals is kept.
\* Seeded fault: the comparison turned round.
Newer(p, i) == least[p] = 0 \/ mtime[i] > least[p]
Older(p, i) == least[p] = 0 \/ mtime[i] < least[p]

\* One readdir() and its stat(), in the order of the directory, whatever that is.  A name
\* that is not there when the walk comes to it is not counted, even if it is made later.
\* (A name that is met twice, having been made anew, is no older than what is kept.)
GetStat(p, q) ==
    /\ Running(p, "walk")
    /\ q \in ahead[p]
    /\ LET i == dir[<<User(p), q>>]
       IN  IF i # NoFile /\ Older(p, i)
           THEN /\ oldest' = [oldest EXCEPT ![p] = q]
                /\ least' = [least EXCEPT ![p] = mtime[i]]
           ELSE UNCHANGED <<oldest, least>>
    /\ ahead' = [ahead EXCEPT ![p] = ahead[p] \ {q}]
    /\ GoTo(p, IF ahead[p] = {q} THEN "access" ELSE "walk")
    /\ UNCHANGED <<clientVars, parentVars, sigchld, handling, serving, fd, stopVars,
                   fileVars, now, history>>

Found(p) == oldest[p] # None /\ dir[<<User(p), oldest[p]>>] # NoFile

GetAccess(p) ==
    /\ Running(p, "access")
    /\ Found(p)
    /\ GoTo(p, "open")
    /\ UNCHANGED <<clientVars, parentVars, sigchld, handling, serving, walkVars, fd,
                   stopVars, fileVars, now, history>>

\* "ERROR no message for inputted user": the error message is the reply.
GetNothing(p) ==
    /\ Running(p, "access")
    /\ ~Found(p)
    /\ Send(serving[p], "error")
    /\ Exit(p)
    /\ UNCHANGED <<request, client, parentVars, handling, serving, walkVars, fd, stopVars,
                   fileVars, now, history>>

GetOpen(p) ==
    /\ Running(p, "open")
    /\ Found(p)
    /\ fd' = [fd EXCEPT ![p] = dir[<<User(p), oldest[p]>>]]
    /\ GoTo(p, "read")
    /\ UNCHANGED <<clientVars, parentVars, sigchld, handling, serving, walkVars, stopVars,
                   fileVars, now, history>>

\* The file went since access(): fopen() returns NULL and fgets() on it crashes.
GetCrash(p) ==
    /\ Running(p, "open")
    /\ ~Found(p)
    /\ Exit(p)
    /\ UNCHANGED <<clientVars, parentVars, handling, serving, walkVars, fd, stopVars,
                   fileVars, now, history>>

\* fgets() and the send loop, which sends nothing of an empty line.
GetRead(p) ==
    /\ Running(p, "read")
    /\ IF content[fd[p]] = Empty
       THEN reply' = reply /\ torn' = torn \cup {fd[p]}
       ELSE Send(serving[p], content[fd[p]]) /\ torn' = torn
    /\ GoTo(p, "remove")
    /\ UNCHANGED <<request, client, parentVars, sigchld, handling, serving, walkVars, fd,
                   stopVars, fileVars, now, createdAt, pidOf, there>>

\* remove() of the name, whatever it names by now; if it fails, an error is printed.
GetRemove(p) ==
    /\ Running(p, "remove")
    /\ dir' = [dir EXCEPT ![<<User(p), oldest[p]>>] = NoFile]
    /\ GoTo(p, "reply")
    /\ UNCHANGED <<clientVars, parentVars, sigchld, handling, serving, walkVars, fd,
                   stopVars, content, mtime, now, history>>

\* "I am the server, and I got your message"
Reply(p) ==
    /\ Running(p, "reply")
    /\ Send(serving[p], "greeting")
    /\ Exit(p)
    /\ UNCHANGED <<request, client, parentVars, handling, serving, walkVars, fd, stopVars,
                   fileVars, now, history>>

\* A child may be stopped and continued by signals; the daemon hears of both.
Stop(p) ==
    /\ Alive(p) /\ p \notin stopped /\ stopsLeft > 0
    /\ stopped' = stopped \cup {p} /\ stopReport' = stopReport \cup {p}
    /\ stopsLeft' = stopsLeft - 1 /\ sigchld' = TRUE
    /\ UNCHANGED <<clientVars, parentVars, handling, childVars, stopsCounted, fileVars,
                   now, history>>

Continue(p) ==
    /\ p \in stopped
    /\ stopped' = stopped \ {p} /\ stopReport' = stopReport \ {p}
    /\ sigchld' = TRUE
    /\ UNCHANGED <<clientVars, parentVars, handling, childVars, stopsLeft, stopsCounted,
                   fileVars, now, history>>
-----------------------------------------------------------------------------
Parent == \/ \E c \in Clients, p \in Pids : Accept(c, p)
          \/ \E c \in Clients : ForkFails(c)
          \/ AcceptFails
          \/ LoadCount \/ StoreCount \/ CheckLimit
          \/ \E p \in Pids : WaitReaps(p)
          \/ WaitFindsNone

Handler == \/ HandlerEnter
           \/ \E p \in Pids : HandlerReap(p)
           \/ \E p \in Pids : HandlerStop(p)
           \/ HandlerReturn

Child(p) == \/ Receive(p) \/ ReceiveBad(p) \/ Reply(p)
            \/ PostCreate(p) \/ PostFlush(p)
            \/ GetScan(p) \/ (\E q \in Pids : GetStat(p, q)) \/ GetAccess(p) \/ GetNothing(p)
            \/ GetOpen(p) \/ GetCrash(p) \/ GetRead(p) \/ GetRemove(p)

Next == \/ Tick
        \/ \E c \in Clients : Connect(c)
        \/ Parent \/ Handler
        \/ \E p \in Pids : Child(p) \/ Stop(p) \/ Continue(p)

Spec == Init /\ [][Next]_vars
\* The scheduler runs every process that can run; a stopped child is continued.
Fairness == /\ WF_vars(Parent) /\ WF_vars(Handler)
            /\ \A p \in Pids : WF_vars(Child(p) \/ Continue(p))
FairSpec == Spec /\ Fairness
-----------------------------------------------------------------------------
Ppcs == {"accept", "load", "store", "check", "wait", "exited"}
Cpcs == {"free", "recv", "create", "flush", "scan", "walk", "access", "open", "read",
         "remove", "reply", "zombie"}

\* Every variable holds a value of the kind the C declares.
TypeOK ==
    /\ request \in [Clients -> Request]
    /\ client \in [Clients -> {"idle", "queued", "accepted", "unserved"}]
    /\ reply \in [Clients -> {"none", "greeting", "error"} \cup Clients]
    /\ ppc \in Ppcs /\ process_count \in Nat /\ loaded \in Nat
    /\ fds \in Nat /\ fdlimit \in Nat
    /\ sigchld \in BOOLEAN /\ handling \in BOOLEAN
    /\ cpc \in [Pids -> Cpcs] /\ serving \in [Pids -> Clients \cup {None}]
    /\ oldest \in [Pids -> Pids \cup {None}] /\ fd \in [Pids -> Clients \cup {None}]
    /\ ahead \in [Pids -> SUBSET Pids] /\ least \in [Pids -> Nat]
    /\ stopped \subseteq Pids /\ stopReport \subseteq Pids
    /\ stopsLeft \in Nat /\ stopsCounted \in Nat
    /\ dir \in [Names -> Clients \cup {None}]
    /\ content \in [Clients -> Clients \cup {None}]
    /\ mtime \in [Clients -> Nat] /\ now \in Nat
    /\ createdAt \in [Clients -> Nat] /\ pidOf \in [Clients -> Pids \cup {None}]
    /\ torn \subseteq Clients /\ there \in [Clients -> SUBSET Clients]

Unreaped == {p \in Pids : cpc[p] # "free"}
Counting == IF ppc \in {"load", "store"} THEN 1 ELSE 0

\* process_count never drops below the children that are not reaped yet, but for the
\* one being counted and one for each stop the handler took for an end: lost
\* updates, early ends and the blocking waitpid() only ever leave it too high.
CountNeverUnder ==
    process_count + Counting + stopsCounted >= Cardinality(Unreaped)

\* A client is only ever sent messages posted to the user it asked for.
OnlyOwnMessages ==
    \A c, m \in Clients : reply[c] = m => /\ request[c].op = "GET"
                                          /\ request[m].op = "POST"
                                          /\ request[m].user = request[c].user

\* Why OnlyOwnMessages holds: a child follows the request it read, and a mailbox and
\* the inodes named in it belong to one user throughout.
GetPcs == {"scan", "walk", "access", "open", "read", "remove"}
ChildTyped ==
    \A p \in Pids :
        /\ cpc[p] # "free" => serving[p] \in Clients
        /\ cpc[p] \in {"create", "flush"} => request[serving[p]].op = "POST"
        /\ cpc[p] \in GetPcs => request[serving[p]].op = "GET"
        /\ cpc[p] \in {"open", "read", "remove"} => oldest[p] \in Pids
        /\ cpc[p] \in {"flush", "read", "remove"} =>
              fd[p] \in Clients /\ request[fd[p]].user = User(p)
MailboxOwned ==
    /\ \A n \in Names : dir[n] # NoFile => request[dir[n]].user = n[1]
    /\ \A i \in Clients : content[i] # Empty =>
          /\ request[content[i]].op = "POST"
          /\ request[content[i]].user = request[i].user
OwnInv == TypeOK /\ ChildTyped /\ MailboxOwned /\ OnlyOwnMessages

\* Why CountNeverUnder holds: what main() loaded is never below what it will overwrite.
CountInv == /\ CountNeverUnder
            /\ ppc = "store" => loaded >= process_count

Stored(m) == \E u \in Users, q \in Pids : dir[<<u, q>>] # NoFile /\ content[dir[<<u, q>>]] = m
Sent(m) == \E c \in Clients : reply[c] = m
Done(m) == createdAt[m] > 0 /\ client[m] = "accepted" /\ reply[m] # "none"
\* A file name is user and pid: these two POSTs were given the same one.
SameName(m, n) == /\ m # n /\ request[m] = request[n]
                  /\ pidOf[m] # None /\ pidOf[m] = pidOf[n]
NameReused(m) == \E n \in Clients : request[n].op = "POST" /\ SameName(m, n)

\* Once its poster has its reply, a message is in the mailbox or has been sent to a
\* getter: it can be lost only to a reader that opened its file before it was
\* written, or to a pid that came around again.
NoSilentLoss ==
    \A m \in Clients :
        (request[m].op = "POST" /\ Done(m)) =>
            Stored(m) \/ Sent(m) \/ m \in torn \/ NameReused(m)

\* Oldest first, to the second, among what was in the mailbox when the reader's walk
\* began: a message whose file was there then, and was complete a second before another
\* was begun, is not still waiting when the reader is sent that other one.  One posted
\* during the walk may be passed over for a later one, if the walk is past its name.
OldestFirst ==
    \A c, m, n \in Clients :
        (/\ reply[c] = n /\ ~NameReused(n) /\ ~NameReused(m)
         /\ m \in there[c] /\ Stored(m) /\ request[m] = request[n])
        => mtime[m] >= createdAt[n]

\* Every client that connects gets a reply, unless the daemon has run out of
\* descriptors or no process could be made, or its child ended on an unreadable request
\* or on a file taken from under it: the daemon never blocks for good in waitpid().
Abandoned(c) == /\ request[c].op \in {"GET", "BAD"}
                /\ \A p \in Pids : Alive(p) => serving[p] # c
Answered == \A c \in Clients :
    client[c] = "queued" ~> \/ reply[c] # "none"
                            \/ client[c] = "accepted" /\ Abandoned(c)
                            \/ client[c] = "unserved"
                            \/ client[c] = "queued" /\ ppc = "exited"

\* No child stays a zombie, however the SIGCHLDs coalesce, while the daemon runs.
ZombiesReaped == \A p \in Pids :
    cpc[p] = "zombie" ~> (cpc[p] # "zombie" \/ ppc = "exited")
=============================================================================

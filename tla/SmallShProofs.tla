---------------------------- MODULE SmallShProofs ----------------------------
(***************************************************************************)
(* Proofs about the shell, for every set of command lines, of pids and of  *)
(* exit codes, and any number of jobs and keys.  The invariant Books says  *)
(* how a job's number leads from its process to its wait status; Waiting   *)
(* says what the shell knows of its last foreground job at each point      *)
(* between fork() and the status it reports.                               *)
(***************************************************************************)
EXTENDS SmallSh, FiniteSetTheorems, TLAPS

\* The types of the variables, and of the history.
Types ==
    /\ TypeOK
    /\ lastfg \in 0..jobs
    /\ background \subseteq 1..jobs /\ handlerReaped \subseteq 1..jobs
    /\ unforked \subseteq 1..jobs
    /\ printed \subseteq 1..jobs /\ buffer \subseteq 1..jobs

\* A process that is not reaped is one job's, and that job's status is known when it
\* has ended and not before; a job that was not begun yet has none.  A background job's
\* program runs in a group of its own.
Books ==
    /\ \A p \in Pids : proc[p] # "free" =>
          /\ number[p] \in 1..jobs
          /\ bg[p] <=> number[p] \in background
          /\ proc[p] = "run" /\ bg[p] => p \in leaders
          /\ IF proc[p] = "zombie" THEN word[p] \in Words /\ endWord[number[p]] = word[p]
                                   ELSE endWord[number[p]] = NotWritten
    /\ \A p, q \in Pids : (p # q /\ proc[p] # "free" /\ proc[q] # "free") =>
                             number[p] # number[q]
    /\ \A n \in JobNumbers : n > jobs => endWord[n] = NotWritten

\* What the status at the prompt is known to be, in a form that later ends of other
\* jobs, and of an interrupted one, leave true.
Known(n) ==
    IF n = 0 THEN previous_command_ret_val = NotWritten
    ELSE \/ /\ endWord[n] # NotWritten
            /\ previous_command_ret_val = StatusOf(endWord[n], NotWritten)
         \/ /\ previous_command_ret_val = Bogus
            /\ n \in handlerReaped \cup interrupted

\* While the shell waits its job has a process, or has been reaped by the handler.
Waiting ==
    /\ pc \in {"prompt", "clear", "read", "mode", "fork", "announce"} =>
          (lastfg \notin unforked => Known(lastfg))
    /\ pc \in {"flag", "pid", "wait", "after"} =>
          /\ lastfg # 0
          /\ spawn_pid = None => lastfg \in unforked
    /\ pc \in {"flag", "pid", "wait"} =>
          /\ result = NotWritten
          /\ spawn_pid # None =>
                /\ lastfg \notin background
                /\ \/ proc[spawn_pid] # "free" /\ number[spawn_pid] = lastfg
                   \/ proc[spawn_pid] = "free" /\ lastfg \in handlerReaped
    /\ pc = "after" /\ lastfg \notin unforked =>
          \/ result # NotWritten /\ result = endWord[lastfg]
          \/ result = NotWritten /\ lastfg \in handlerReaped \cup interrupted

Inv == Types /\ Books /\ Waiting /\ KeysSpareBackground /\ ReapedIsTold
-----------------------------------------------------------------------------
(* Wait status words *)

\* The word of an exit and that of ctrl-C tell which it was; neither is the initial value.
LEMMA WordsDiffer ==
    /\ \A c \in ExitCodes : ExitWord(c) # SIGINT /\ ExitWord(c) # NotWritten /\ ExitWord(c) \in Int
    /\ SIGINT # NotWritten
BY ExitCodesAssumption DEF ExitWord, SIGINT, NotWritten

\* The status taken from a word never depends on the one before it.
LEMMA StatusValues ==
  ASSUME NEW w \in Words \cup {NotWritten}, NEW old
  PROVE  /\ StatusOf(w, old) = StatusOf(w, NotWritten)
         /\ StatusOf(w, old) \in ExitCodes \cup {SIGINT, Bogus}
         /\ w = NotWritten => StatusOf(w, old) = Bogus
<1>1. ASSUME NEW c \in ExitCodes, w = ExitWord(c) PROVE WifExited(w) /\ ExitStatus(w) = c
  BY <1>1, ExitCodesAssumption DEF WifExited, TermSig, ExitStatus, ExitWord
<1>2. CASE w = SIGINT
  <2>1. ~WifExited(w) /\ WifSignaled(w) /\ TermSig(w) = SIGINT
    BY <1>2 DEF WifExited, WifSignaled, TermSig, SIGINT
  <2>2. w # NotWritten BY <1>2, WordsDiffer
  <2> QED BY <2>1, <2>2 DEF StatusOf
<1>3. CASE w = NotWritten
  <2>1. ~WifExited(w) /\ WifSignaled(w) /\ TermSig(w) = Bogus
    BY <1>3 DEF WifExited, WifSignaled, TermSig, Bogus, NotWritten
  <2> QED BY <2>1 DEF StatusOf
<1>4. ASSUME NEW c \in ExitCodes, w = ExitWord(c)
      PROVE  /\ StatusOf(w, old) = c /\ StatusOf(w, NotWritten) = c /\ w # NotWritten
  BY <1>1, <1>4, WordsDiffer DEF StatusOf
<1> QED BY <1>2, <1>3, <1>4 DEF Words

\* What the initial state says.
LEMMA InitInv == Init => Inv
<1> SUFFICES ASSUME Init PROVE Inv OBVIOUS
<1>1. Types
  <2>1. /\ endWord \in [JobNumbers -> Words \cup {NotWritten}]
        /\ number \in [Pids -> 0..MaxJobs] /\ word \in [Pids -> Words \cup {0}]
    BY BoundsAssumption DEF Init, JobNumbers
  <2>2. /\ bg \in [Pids -> BOOLEAN]
        /\ proc \in [Pids -> {"free", "new", "run", "stopped", "zombie"}]
        /\ \A p \in Pids : proc[p] = "free"
    BY DEF Init
  <2>3. jobs \in 0..MaxJobs /\ keys \in 0..MaxKeys /\ lastfg \in 0..jobs
    BY BoundsAssumption DEF Init
  <2> QED BY <2>1, <2>2, <2>3 DEF Init, Types, TypeOK
<1>2. Books BY DEF Init, Books, JobNumbers
<1>3. Waiting BY DEF Init, Waiting, Known
<1> QED BY <1>1, <1>2, <1>3 DEF Init, Inv, KeysSpareBackground, ReapedIsTold
-----------------------------------------------------------------------------
(* The steps of the shell *)

\* What Books and the two properties of background jobs rest on.
bookVars == <<childVars, jobs, background>>

LEMMA BooksKept ==
  ASSUME Inv, UNCHANGED bookVars
  PROVE  Books' /\ KeysSpareBackground'
BY DEF Inv, bookVars, childVars, Books, KeysSpareBackground, JobNumbers

\* What is told of a job stays told, and a job is gone only when it was before.
Told == buffer \cup printed \cup erased \cup masked \cup taken

LEMMA ToldOfGone ==
  ASSUME Inv, Told \subseteq Told',
         \A n \in background' : Gone(n)' => n \in Told' \/ (n \in background /\ Gone(n))
  PROVE  ReapedIsTold'
BY DEF Inv, ReapedIsTold, Told

LEMMA ToldKept ==
  ASSUME Inv, UNCHANGED <<background, proc, number, endWord>>, Told \subseteq Told'
  PROVE  ReapedIsTold'
<1>1. \A n \in background' : Gone(n)' => n \in background /\ Gone(n)
  BY DEF Gone
<1> QED BY <1>1, ToldOfGone

\* Printing, clearing, reading and choosing where to run touch no child.
LEMMA PromptInv ==
  ASSUME Inv, \/ PrintMessages \/ ClearMessages \/ NoMessages \/ Mode
              \/ \E line \in Commands : ReadLine(line)
  PROVE  Inv'
<1> USE DEF PrintMessages, ClearMessages, NoMessages, Mode, ReadLine, shellVars, globals,
            history
<1>1. Types'
  <2> USE DEF Inv, Types, TypeOK, childVars
  <2>1. CASE PrintMessages BY <2>1
  <2>2. CASE ClearMessages BY <2>2
  <2>3. CASE NoMessages BY <2>3
  <2>4. CASE Mode BY <2>4
  <2>5. ASSUME NEW line \in Commands, ReadLine(line) PROVE Types'
    BY <2>5 DEF InBackground
  <2> QED BY <2>1, <2>2, <2>3, <2>4, <2>5
<1>2. UNCHANGED bookVars BY DEF bookVars
<1>3. Waiting'
  BY DEF Inv, Waiting, Known, childVars
<1>4. ReapedIsTold'
  BY ToldKept DEF Told, childVars
<1> QED BY <1>1, <1>2, <1>3, <1>4, BooksKept DEF Inv

LEMMA ForkInv == ASSUME Inv, NEW p \in Pids, Fork(p) PROVE Inv'
<1> USE DEF Fork, globals
<1>1. Types' BY BoundsAssumption DEF Inv, Types, TypeOK
<1>2. Books'
  BY BoundsAssumption DEF Inv, Types, TypeOK, Books, JobNumbers
<1>3. Waiting'
  BY NoneAssumption DEF Inv, Types, TypeOK, Waiting, Known, JobNumbers
<1>4. KeysSpareBackground'
  BY BoundsAssumption, WordsDiffer DEF Inv, Types, TypeOK, Books, KeysSpareBackground, JobNumbers
<1>5. ReapedIsTold'
  <2>1. proc[p] = "free" /\ proc'[p] = "new" /\ number'[p] = jobs + 1 /\ endWord' = endWord
        /\ \A q \in Pids \ {p} : proc'[q] = proc[q] /\ number'[q] = number[q]
    BY DEF Inv, Types, TypeOK
  <2>2. ASSUME NEW n \in background', Gone(n)' PROVE n \in background /\ Gone(n)
    <3>1. n # jobs + 1 BY <2>1, <2>2 DEF Gone
    <3> QED BY <2>1, <2>2, <3>1 DEF Gone
  <2> QED BY <2>2, ToldOfGone DEF Told
<1> QED BY <1>1, <1>2, <1>3, <1>4, <1>5 DEF Inv

LEMMA ForkFailsInv == ASSUME Inv, ForkFails PROVE Inv'
<1> USE DEF ForkFails, globals, childVars
<1>1. Types' BY BoundsAssumption DEF Inv, Types, TypeOK
<1>2. Books' BY DEF Inv, Types, TypeOK, Books, JobNumbers
<1>3. Waiting'
  BY NoneAssumption DEF Inv, Types, TypeOK, Waiting, Known, JobNumbers
<1>4. KeysSpareBackground' BY DEF Inv, KeysSpareBackground
<1>5. ReapedIsTold' BY ToldKept DEF Told, childVars
<1> QED BY <1>1, <1>2, <1>3, <1>4, <1>5 DEF Inv

LEMMA FlagsInv == ASSUME Inv, Announce \/ SetFgFlag \/ SetFgPid PROVE Inv'
<1> USE DEF Announce, SetFgFlag, SetFgPid, shellVars, history
<1>1. Types' BY DEF Inv, Types, TypeOK, childVars
<1>2. UNCHANGED bookVars BY DEF bookVars
<1>3. Waiting' BY DEF Inv, Waiting, Known, childVars
<1>4. ReapedIsTold' BY ToldKept DEF Told, childVars
<1> QED BY <1>1, <1>2, <1>3, <1>4, BooksKept DEF Inv

LEMMA WaitReapsInv == ASSUME Inv, NEW p \in Pids, WaitReaps(p) PROVE Inv'
<1> USE DEF WaitReaps, globals, history
<1>1. Types' BY DEF Inv, Types, TypeOK, Books
<1>2. Books' BY DEF Inv, Types, TypeOK, Books
<1>3. Waiting'
  <2>1. spawn_pid # None => p = spawn_pid BY DEF Awaited
  <2>2. word[p] \in Words /\ endWord[number[p]] = word[p] BY DEF Inv, Books
  <2>3. word[p] # NotWritten BY <2>2, WordsDiffer DEF Words
  <2> QED BY <2>1, <2>2, <2>3 DEF Inv, Waiting
<1>4. KeysSpareBackground' BY DEF Inv, KeysSpareBackground
<1>5. ReapedIsTold'
  <2>1. proc[p] = "zombie" /\ \A q \in Pids \ {p} : proc'[q] = proc[q]
    BY DEF Inv, Types, TypeOK
  <2>2. spawn_pid # None => number[p] \notin background
    BY <2>1 DEF Awaited, Inv, Waiting
  <2>3. ASSUME NEW n \in background', Gone(n)' PROVE n \in Told' \/ (n \in background /\ Gone(n))
    <3>1. CASE n = number[p] BY <2>2, <3>1 DEF Told
    <3>2. CASE n # number[p] BY <2>1, <2>3, <3>2 DEF Gone
    <3> QED BY <3>1, <3>2
  <2> QED BY <2>3, ToldOfGone DEF Told
<1> QED BY <1>1, <1>2, <1>3, <1>4, <1>5 DEF Inv

LEMMA WaitFailsInv == ASSUME Inv, WaitFails PROVE Inv'
<1> USE DEF WaitFails, shellVars, globals, history
<1>1. Types' BY DEF Inv, Types, TypeOK, childVars
<1>2. UNCHANGED bookVars BY DEF bookVars
<1>3. Waiting'
  BY DEF Inv, Types, TypeOK, Waiting, Awaited, childVars
<1>4. ReapedIsTold' BY ToldKept DEF Told, childVars
<1> QED BY <1>1, <1>2, <1>3, <1>4, BooksKept DEF Inv

LEMMA AfterWaitInv == ASSUME Inv, AfterWait PROVE Inv'
<1> USE DEF AfterWait, shellVars, history
<1>0. result \in Words \cup {NotWritten} BY DEF Inv, Types, TypeOK
<1>1. previous_command_ret_val' \in ExitCodes \cup {SIGINT, Bogus} 
  BY <1>0, StatusValues
<1>2. Types' BY <1>1 DEF Inv, Types, TypeOK, childVars
<1>3. UNCHANGED bookVars BY DEF bookVars
<1>4. Waiting'
  <2>1. previous_command_ret_val' = StatusOf(result, NotWritten) BY <1>0, StatusValues
  <2>2. result = NotWritten => previous_command_ret_val' = Bogus BY <1>0, StatusValues
  <2>3. lastfg' \notin unforked' => Known(lastfg)'
    BY <2>1, <2>2 DEF Inv, Waiting, Known, childVars
  <2> QED BY <2>3 DEF Waiting
<1>5. ReapedIsTold' BY ToldKept DEF Told, childVars
<1> QED BY <1>2, <1>3, <1>4, <1>5, BooksKept DEF Inv
-----------------------------------------------------------------------------
(* The handlers *)

LEMMA CatchSIGCHLDInv == ASSUME Inv, CatchSIGCHLD PROVE Inv'
<1> USE DEF CatchSIGCHLD, shellVars, Deliver
<1>1. Numbers(Zombies) \subseteq 1..jobs
  BY DEF Inv, Books, Zombies, Numbers
<1>2. Types'
  <2>1. Numbers(TellOf) \subseteq 1..jobs
    BY <1>1 DEF TellOf, Reaped, Numbers
  <2>2. proc' \in [Pids -> {"free", "new", "run", "stopped", "zombie"}]
    BY DEF Inv, Types, TypeOK
  <2>3. \A p \in Pids : proc'[p] # "free" => number[p] # 0
    BY DEF Inv, Types, TypeOK
  <2>4. /\ handlerReaped' \subseteq 1..jobs /\ buffer' \subseteq 1..jobs
    BY <1>1, <2>1 DEF Inv, Types, Reaped, Appended
  <2>5. buffer' \subseteq JobNumbers
    BY <2>4, BoundsAssumption DEF Inv, Types, TypeOK, JobNumbers
  <2> QED BY <2>2, <2>3, <2>4, <2>5 DEF Inv, Types, TypeOK
<1>3. Books'
  BY DEF Inv, Types, TypeOK, Books, Reaped, Zombies
<1>4. Waiting'
  <2>1. \A n : n \in handlerReaped => n \in handlerReaped' OBVIOUS
  <2>2. ASSUME spawn_pid \in Pids, proc[spawn_pid] # "free", proc'[spawn_pid] = "free"
        PROVE  number[spawn_pid] \in handlerReaped'
    BY <2>2 DEF Numbers, Reaped
  <2>3. ASSUME spawn_pid \in Pids, proc[spawn_pid] = "free" PROVE proc'[spawn_pid] = "free"
    BY <2>3
  <2> QED BY <2>1, <2>2, <2>3 DEF Inv, Types, TypeOK, Waiting, Known
<1>5. KeysSpareBackground' BY DEF Inv, KeysSpareBackground
<1>6. ReapedIsTold'
  <2>1. Numbers(Reaped) \subseteq buffer' \cup masked'
    BY DEF Numbers, TellOf, Appended
  <2>2. ASSUME NEW n \in background', Gone(n)' PROVE n \in Told' \/ (n \in background /\ Gone(n))
    <3>1. CASE n \in Numbers(Reaped) BY <2>1, <3>1 DEF Told
    <3>2. CASE n \notin Numbers(Reaped) BY <2>2, <3>2 DEF Gone, Numbers
    <3> QED BY <3>1, <3>2
  <2> QED BY <2>2, ToldOfGone DEF Told, Appended
<1> QED BY <1>2, <1>3, <1>4, <1>5, <1>6 DEF Inv

LEMMA CatchSIGINTInv == ASSUME Inv, CatchSIGINT PROVE Inv'
<1> USE DEF CatchSIGINT, shellVars, history, Deliver
<1>1. Types' BY DEF Inv, Types, TypeOK, childVars
<1>2. UNCHANGED bookVars BY DEF bookVars
<1>3. Waiting' BY DEF Inv, Waiting, Known, childVars
<1>4. ReapedIsTold' BY ToldKept DEF Told, childVars
<1> QED BY <1>1, <1>2, <1>3, <1>4, BooksKept DEF Inv

LEMMA CatchSIGTSTPInv == ASSUME Inv, CatchSIGTSTP PROVE Inv'
<1> USE DEF CatchSIGTSTP, shellVars, Deliver
<1>1. Types' BY DEF Inv, Types, TypeOK, childVars
<1>2. UNCHANGED bookVars BY DEF bookVars
<1>3. Waiting'
  <2>1. CASE pc = "wait" /\ pc' = "after" /\ interrupted' = interrupted \cup {lastfg}
    BY <2>1 DEF Inv, Waiting, childVars
  <2>2. CASE UNCHANGED <<pc, interrupted>>
    BY <2>2 DEF Inv, Waiting, Known, childVars
  <2> QED BY <2>1, <2>2
<1>4. ReapedIsTold' BY ToldKept DEF Told, childVars
<1> QED BY <1>1, <1>2, <1>3, <1>4, BooksKept DEF Inv
-----------------------------------------------------------------------------
(* The children and the terminal *)

\* Processes that have not ended end, all with the same word.
LEMMA EndsInv ==
  ASSUME Inv, NEW S \in SUBSET {p \in Pids : proc[p] \in {"new", "run"}},
         NEW w \in Words, Ends(S, w), w = SIGINT => \A p \in S : ~bg[p],
         UNCHANGED <<pc, shellVars, globals, bg, leaders, number, stopNews, jobs, history>>,
         pending' \subseteq {"CHLD", "INT", "TSTP"}, keys' \in 0..MaxKeys
  PROVE  Inv'
<1> USE DEF shellVars, globals, history
<1>0. w # NotWritten BY WordsDiffer DEF Words
<1>1. /\ \A p \in Pids : proc'[p] = IF p \in S THEN "zombie" ELSE proc[p]
      /\ \A p \in Pids : word'[p] = IF p \in S THEN w ELSE word[p]
      /\ \A n \in JobNumbers : endWord'[n] = IF n \in Numbers(S) THEN w ELSE endWord[n]
  BY DEF Ends, JobNumbers
<1>2. Types'
  <2>1. /\ proc' \in [Pids -> {"free", "new", "run", "stopped", "zombie"}]
        /\ word' \in [Pids -> Words \cup {0}]
        /\ endWord' \in [JobNumbers -> Words \cup {NotWritten}]
    BY DEF Ends, Inv, Types, TypeOK, JobNumbers
  <2>2. \A p \in Pids : proc'[p] # "free" => number[p] # 0
    BY <1>1 DEF Inv, Types, TypeOK
  <2> QED BY <2>1, <2>2 DEF Inv, Types, TypeOK
<1>3. /\ \A p \in S : p \in Pids /\ proc[p] # "free" /\ proc[p] # "zombie"
      /\ \A p \in Pids : proc[p] # "free" => number[p] \in JobNumbers
      /\ \A p \in Pids : (proc[p] # "free" /\ number[p] \in Numbers(S)) => p \in S
      /\ \A p \in S : number[p] \in Numbers(S)
  <2>1. \A p \in S : p \in Pids /\ proc[p] # "free" /\ proc[p] # "zombie" OBVIOUS
  <2>2. \A p \in Pids : proc[p] # "free" => number[p] \in JobNumbers
    BY BoundsAssumption DEF Inv, Types, TypeOK, Books, JobNumbers
  <2>3. \A p, q \in Pids : (proc[p] # "free" /\ proc[q] # "free" /\ number[p] = number[q]) => p = q
    BY DEF Inv, Books
  <2>4. \A p \in Pids : (proc[p] # "free" /\ number[p] \in Numbers(S)) => p \in S
    BY <2>1, <2>3 DEF Numbers
  <2> QED BY <2>1, <2>2, <2>4 DEF Numbers
<1>4. Books'
  <2>1. ASSUME NEW p \in Pids, proc'[p] # "free"
        PROVE  /\ number[p] \in 1..jobs
               /\ bg[p] <=> number[p] \in background
               /\ proc'[p] = "run" /\ bg[p] => p \in leaders
               /\ IF proc'[p] = "zombie" THEN word'[p] \in Words /\ endWord'[number[p]] = word'[p]
                                        ELSE endWord'[number[p]] = NotWritten
    BY <1>1, <1>3, <2>1 DEF Inv, Books
  <2>2. \A p, q \in Pids : (p # q /\ proc'[p] # "free" /\ proc'[q] # "free") =>
                             number[p] # number[q]
    BY <1>1, <1>3 DEF Inv, Books
  <2>3. \A n \in JobNumbers : n > jobs => endWord'[n] = NotWritten
    <3>1. \A n \in Numbers(S) : n \in 1..jobs
      BY <1>3 DEF Inv, Books, Numbers
    <3> QED BY <1>1, <3>1 DEF Inv, Types, TypeOK, Books, JobNumbers
  <2> QED BY <2>1, <2>2, <2>3 DEF Books
<1>5. \A n \in JobNumbers : endWord[n] # NotWritten => endWord'[n] = endWord[n]
  <2>1. \A n \in Numbers(S) : endWord[n] = NotWritten
    BY <1>3 DEF Inv, Books, Numbers
  <2> QED BY <1>1, <2>1
<1>6. Waiting'
  <2>1. lastfg # 0 => lastfg \in JobNumbers
    BY BoundsAssumption DEF Inv, Types, TypeOK, JobNumbers
  <2>2. \A p \in Pids : proc'[p] = "free" <=> proc[p] = "free"
    BY <1>1, <1>3
  <2> QED BY <1>5, <2>1, <2>2 DEF Inv, Types, TypeOK, Waiting, Known
<1>7. KeysSpareBackground'
  <2>1. ASSUME NEW n \in Numbers(S), n \in background, w = SIGINT PROVE FALSE
    BY <2>1 DEF Inv, Books, Numbers
  <2> QED BY <1>1, <2>1, BoundsAssumption DEF Inv, Types, TypeOK, KeysSpareBackground,
                                              JobNumbers
<1>8. ReapedIsTold'
  <2>1. ASSUME NEW n \in background', Gone(n)' PROVE n \in background /\ Gone(n)
    <3>1. n \in JobNumbers BY BoundsAssumption DEF Inv, Types, TypeOK, JobNumbers
    <3>2. n \notin Numbers(S) BY <1>1, <1>3, <2>1 DEF Numbers, Gone
    <3>3. \A p \in Pids : proc[p] # "free" => proc'[p] # "free" BY <1>1
    <3> QED BY <1>1, <2>1, <3>1, <3>2, <3>3 DEF Gone
  <2> QED BY <2>1, ToldOfGone DEF Told
<1> QED BY <1>2, <1>4, <1>6, <1>7, <1>8 DEF Inv

\* A child executes, or is stopped: it does not end.
LEMMA NotEndedInv ==
  ASSUME Inv, NEW S \in SUBSET {p \in Pids : proc[p] \in {"new", "run"}},
         NEW state \in {"run", "stopped"},
         \A p \in S : bg[p] => state = "run" /\ p \in leaders,
         proc' = [p \in Pids |-> IF p \in S THEN state ELSE proc[p]],
         UNCHANGED <<pc, shellVars, globals, bg, leaders, number, word, endWord, jobs, history>>,
         stopNews' \subseteq Pids,
         pending' \subseteq {"CHLD", "INT", "TSTP"}, keys' \in 0..MaxKeys
  PROVE  Inv'
<1> USE DEF shellVars, globals, history
<1>1. Types' BY DEF Inv, Types, TypeOK
<1>2. Books' BY DEF Inv, Types, TypeOK, Books
<1>3. Waiting' BY DEF Inv, Types, TypeOK, Waiting, Known
<1>4. KeysSpareBackground' BY DEF Inv, Books, KeysSpareBackground
<1>5. ReapedIsTold'
  <2>1. \A n \in background' : Gone(n)' => n \in background /\ Gone(n)
    BY DEF Gone
  <2> QED BY <2>1, ToldOfGone DEF Told
<1> QED BY <1>1, <1>2, <1>3, <1>4, <1>5 DEF Inv

LEMMA ChildInv == ASSUME Inv, NEW p \in Pids, Child(p) PROVE Inv'
<1>0. pending \subseteq {"CHLD", "INT", "TSTP"} /\ keys \in 0..MaxKeys /\ stopNews \subseteq Pids
      /\ proc \in [Pids -> {"free", "new", "run", "stopped", "zombie"}]
  BY DEF Inv, Types, TypeOK
<1>1. CASE ChildExec(p)
  <2>1. proc' = [q \in Pids |-> IF q \in {p} THEN "run" ELSE proc[q]]
    BY <1>0, <1>1 DEF ChildExec
  <2>2. /\ {p} \in SUBSET {q \in Pids : proc[q] \in {"new", "run"}}
        /\ \A q \in {p} : bg[q] => "run" = "run" /\ q \in leaders
    BY <1>1 DEF ChildExec, Execs
  <2>3. UNCHANGED <<pc, shellVars, globals, bg, leaders, number, word, endWord, jobs, history,
                    stopNews, pending, keys>>
    BY <1>1 DEF ChildExec
  <2> QED BY <1>0, <2>1, <2>2, <2>3, NotEndedInv
<1>2. ASSUME NEW c \in ExitCodes, ChildExit(p, c) PROVE Inv'
  <2>1. ExitWord(c) \in Words /\ ExitWord(c) # SIGINT BY WordsDiffer DEF Words
  <2>2. {p} \in SUBSET {q \in Pids : proc[q] \in {"new", "run"}}
    BY <1>2 DEF ChildExit, Execs
  <2> QED BY <1>0, <1>2, <2>1, <2>2, EndsInv DEF ChildExit
<1>3. CASE ChildSetpgid(p)
  <2> USE <1>3 DEF ChildSetpgid, shellVars, globals, history
  <2>1. Types' BY <1>0 DEF Inv, Types, TypeOK
  <2>2. Books' BY DEF Inv, Books
  <2>3. Waiting' BY DEF Inv, Waiting, Known
  <2>4. KeysSpareBackground' BY DEF Inv, KeysSpareBackground
  <2>5. ReapedIsTold' BY ToldKept DEF Told
  <2> QED BY <2>1, <2>2, <2>3, <2>4, <2>5 DEF Inv
<1> QED BY <1>1, <1>2, <1>3 DEF Child

\* The terminal signals no background job's program: it left the group before it ran.
LEMMA KeysInv == ASSUME Inv, CtrlC \/ CtrlZ PROVE Inv'
<1>0. /\ pending \subseteq {"CHLD", "INT", "TSTP"} /\ stopNews \subseteq Pids
      /\ keys < MaxKeys => keys + 1 \in 0..MaxKeys
  BY BoundsAssumption DEF Inv, Types, TypeOK
<1>1. Group \in SUBSET {q \in Pids : proc[q] \in {"new", "run"}} /\ \A q \in Group : ~bg[q]
  <2>1. bg \in [Pids -> BOOLEAN] BY DEF Inv, Types, TypeOK
  <2> QED BY <2>1 DEF Group, Inv, Books
<1>2. CASE CtrlC
  <2>1. SIGINT \in Words BY DEF Words
  <2>2. pending' \subseteq {"CHLD", "INT", "TSTP"} /\ keys' \in 0..MaxKeys
    BY <1>0, <1>2 DEF CtrlC
  <2> QED BY <1>1, <1>2, <2>1, <2>2, EndsInv DEF CtrlC
<1>3. CASE CtrlZ
  <2>1. /\ pending' \subseteq {"CHLD", "INT", "TSTP"} /\ keys' \in 0..MaxKeys
        /\ stopNews' \subseteq Pids
    BY <1>0, <1>1, <1>3 DEF CtrlZ
  <2> QED BY <1>1, <1>3, <2>1, NotEndedInv DEF CtrlZ
<1> QED BY <1>2, <1>3
-----------------------------------------------------------------------------
(* The command line *)

\* What fileio_var is after the token k of a line as RunAsWritten writes it.
LEMMA CountedWritten ==
  ASSUME NEW line \in Seq(STRING), NEW n \in 1..Len(line), NEW i \in {0, 2}, NEW o \in {0, 2},
         NEW b \in {0, 1}, Written(line, n, i, o, b), NEW k \in 1..Len(line)
  PROVE  Counted(line, k) = (IF i = 2 /\ n + 1 <= k THEN 2 ELSE 0)
                            + (IF o = 2 /\ n + i + 1 <= k THEN 1 ELSE 0)
<1> DEFINE reads == {j \in 1..k : line[j] = "<"}
           from == IF reads = {} THEN 0 ELSE Max(reads)
           writes == {j \in from + 1..k : line[j] = ">"}
<1>0. /\ Len(line) \in Nat /\ Len(line) = n + i + o + b
      /\ \A j \in 1..Len(line) : /\ line[j] = "<" <=> i = 2 /\ j = n + 1
                                 /\ line[j] = ">" <=> o = 2 /\ j = n + i + 1
  BY DEF Written
<1>1. reads = IF i = 2 /\ n + 1 <= k THEN {n + 1} ELSE {} BY <1>0
<1>2. from = IF i = 2 /\ n + 1 <= k THEN n + 1 ELSE 0
  <2>1. Max({n + 1}) = n + 1 BY DEF Max
  <2> QED BY <1>1, <2>1
<1> HIDE DEF from
<1>3. writes = IF o = 2 /\ n + i + 1 <= k THEN {n + i + 1} ELSE {}
  <2>1. from \in Nat /\ (o = 2 /\ n + i + 1 <= k => from < n + i + 1) BY <1>2
  <2> QED BY <1>0, <2>1
<1> HIDE DEF writes
<1>4. Cardinality(writes) = IF o = 2 /\ n + i + 1 <= k THEN 1 ELSE 0
  <2>1. Cardinality({}) = 0 BY FS_EmptySet
  <2>2. Cardinality({n + i + 1}) = 1 BY FS_Singleton
  <2> QED BY <1>3, <2>1, <2>2
<1> USE DEF from, writes
<1>5. Counted(line, k) = (IF reads = {} THEN 0 ELSE 2) + Cardinality(writes) BY DEF Counted
<1> QED BY <1>1, <1>4, <1>5

LEMMA FileioWritten ==
  ASSUME NEW line \in Seq(STRING), NEW n \in 1..Len(line), NEW i \in {0, 2}, NEW o \in {0, 2},
         NEW b \in {0, 1}, Written(line, n, i, o, b)
  PROVE  /\ Fileio(line) = (IF i = 2 THEN 2 ELSE 0) + (IF o = 2 THEN 1 ELSE 0)
         /\ InBackground(line) <=> b = 1
<1>0. Len(line) \in Nat /\ Len(line) >= 1 /\ Len(line) = n + i + o + b BY DEF Written
<1>1. InBackground(line) <=> b = 1 BY <1>0 DEF InBackground, Last, Written
<1>2. Counted(line, Len(line)) = (IF i = 2 THEN 2 ELSE 0) + (IF o = 2 THEN 1 ELSE 0)
  BY <1>0, CountedWritten
<1>3. ASSUME NEW k \in 1..Len(line), Stops(line, k) PROVE Counted(line, Len(line)) = 3
  <2>1. Counted(line, k) = 3 BY <1>3 DEF Stops
  <2>2. i = 2 /\ o = 2 BY <2>1, CountedWritten
  <2> QED BY <1>2, <2>2
<1>4. Fileio(line) = Counted(line, Len(line)) BY <1>3 DEF Fileio
<1> QED BY <1>1, <1>2, <1>4

\* What is known of the line between its parse and fork().
Parsed ==
    /\ pc \in {"mode", "fork"} => cmd \in Commands
    /\ pc = "mode" => (background_flag <=> InBackground(cmd))
    /\ pc = "fork" => /\ background_flag => InBackground(cmd)
                      /\ InBackground(cmd) /\ Fileio(cmd) # 0 => background_flag

LEMMA ParsedStep == Types /\ Parsed /\ [Next]_vars => Parsed'
<1> SUFFICES ASSUME Types, Parsed, [Next]_vars PROVE Parsed' OBVIOUS
<1> USE DEF Parsed
<1>1. ASSUME NEW line \in Commands, ReadLine(line) PROVE Parsed' BY <1>1 DEF ReadLine
<1>2. CASE Mode BY <1>2 DEF Mode
<1>3. CASE UNCHANGED <<pc, cmd, background_flag>> BY <1>3
<1>4. CASE pc' \notin {"mode", "fork"} BY <1>4
<1>5. CASE Shell
  <2>1. Mode \/ pc' \notin {"mode", "fork"}
    BY <1>5 DEF Shell, PrintMessages, ClearMessages, NoMessages, Fork, ForkFails, Announce,
                SetFgFlag, SetFgPid, WaitReaps, WaitFails, AfterWait
  <2> QED BY <1>2, <1>4, <2>1
<1>6. CASE Handlers
  <2>1. UNCHANGED <<pc, cmd, background_flag>> \/ pc' = "after"
    BY <1>6 DEF Handlers, CatchSIGCHLD, CatchSIGINT, CatchSIGTSTP, shellVars
  <2> QED BY <1>3, <1>4, <2>1
<1>7. ASSUME NEW p \in Pids, Child(p) PROVE Parsed'
  BY <1>3, <1>7 DEF Child, ChildSetpgid, ChildExec, ChildExit, shellVars
<1>8. CASE CtrlC \/ CtrlZ \/ UNCHANGED vars
  BY <1>3, <1>8 DEF CtrlC, CtrlZ, vars, shellVars
<1> QED BY <1>1, <1>5, <1>6, <1>7, <1>8 DEF Next

-----------------------------------------------------------------------------
LEMMA NextInv == Inv /\ [Next]_vars => Inv'
<1> SUFFICES ASSUME Inv, [Next]_vars PROVE Inv' OBVIOUS
<1>1. CASE Shell
  BY <1>1, PromptInv, ForkInv, ForkFailsInv, FlagsInv, WaitReapsInv, WaitFailsInv, AfterWaitInv
     DEF Shell
<1>2. CASE Handlers
  BY <1>2, CatchSIGCHLDInv, CatchSIGINTInv, CatchSIGTSTPInv DEF Handlers
<1>3. CASE UNCHANGED vars
  <2> USE <1>3 DEF vars, shellVars, globals, history
  <2>1. Types' BY DEF Inv, Types, TypeOK, childVars
  <2>2. UNCHANGED bookVars BY DEF bookVars
  <2>3. Waiting' BY DEF Inv, Waiting, Known, childVars
  <2>4. ReapedIsTold' BY ToldKept DEF Told, childVars
  <2> QED BY <2>1, <2>2, <2>3, <2>4, BooksKept DEF Inv
<1> QED BY <1>1, <1>2, <1>3, PromptInv, ChildInv, KeysInv DEF Next

LEMMA Invariant == Spec => []Inv
  BY InitInv, NextInv, PTL DEF Spec

\* Every variable of the shell keeps its type; the status is one a child can have, or the
\* bogus one, or the initial one (smallsh.c 436-441).
THEOREM TypeCorrect == Spec => []TypeOK
<1>1. Inv => TypeOK BY DEF Inv, Types
<1> QED BY <1>1, Invariant, PTL

\* The status at the prompt is the last foreground job's, or the bogus signal of a wait that
\* the handler or ctrl-Z took the child from: never a background job's, and never one
\* of before, however handlers, ends and waits interleave and pids are used again.
THEOREM StatusIsOfLastForeground == Spec => []StatusIsLastForeground
<1>1. Inv => StatusIsLastForeground
  BY DEF Inv, Waiting, Known, StatusIsLastForeground, AtPrompt
<1> QED BY <1>1, Invariant, PTL

\* Ctrl-C ends and ctrl-Z stops no background job, wherever between fork(), setpgid() and
\* execvp() its child is when the key is pressed (smallsh.c 386-389 and 412): the child
\* that executes has left the shell's group, and the one that has not has the shell's
\* handlers.
THEOREM KeysSpareBackgroundJobs == Spec => []KeysSpareBackground
<1>1. Inv => KeysSpareBackground BY DEF Inv
<1> QED BY <1>1, Invariant, PTL

\* A background job that has ended and is no longer there was told of or is about to be,
\* or is one of those the code loses: its message erased, its pid an old fg_pid, or reaped
\* by the waitpid() for any child after a failed fork() (smallsh.c 354 and 435).
THEOREM ReapedJobsAreTold == Spec => []ReapedIsTold
<1>1. Inv => ReapedIsTold BY DEF Inv
<1> QED BY <1>1, Invariant, PTL

\* A command of any length runs as it is written, when it has at most one '<' and after it
\* at most one '>': with the words before its redirections, and with its input and output
\* where they say; but a background command that redirects both gets /dev/null for both.
\* Foreground-only mode, which is looked up after the parse, changes none of it
\* (smallsh.c 219-251, 297-352 and 358-411).
THEOREM CommandsRunAsWritten == Spec => []RunAsWritten
<1>1. Init => Parsed BY DEF Init, Parsed
<1>2. Inv => Types BY DEF Inv
<1>3. Parsed => RunAsWritten
  <2> SUFFICES ASSUME Parsed, pc = "fork", NEW n \in 1..Len(cmd), NEW i \in {0, 2},
                      NEW o \in {0, 2}, NEW b \in {0, 1}, Written(cmd, n, i, o, b)
               PROVE  /\ Argv(cmd) = SubSeq(cmd, 1, n)
                      /\ IF b + i + o = 5
                         THEN /\ Stdin(Fileio(cmd), background_flag) = "null"
                              /\ Stdout(Fileio(cmd), background_flag) = "null"
                         ELSE /\ Stdin(Fileio(cmd), background_flag) = "file" <=> i = 2
                              /\ Stdout(Fileio(cmd), background_flag) = "file" <=> o = 2
    BY DEF RunAsWritten
  <2>1. cmd \in Seq(STRING) BY CommandsAssumption DEF Parsed
  <2>2. /\ Fileio(cmd) = (IF i = 2 THEN 2 ELSE 0) + (IF o = 2 THEN 1 ELSE 0)
        /\ InBackground(cmd) <=> b = 1
    BY <2>1, FileioWritten
  <2>3. Len(cmd) - Strip(cmd) = n BY <2>1, <2>2 DEF Strip, Written
  <2>4. background_flag => b = 1 BY <2>2 DEF Parsed
  <2>5. (i = 0 /\ o = 0) \/ (b = 1 => background_flag) BY <2>2 DEF Parsed
  <2>6. IF b + i + o = 5 THEN Stdin(Fileio(cmd), background_flag) = "null"
                         ELSE Stdin(Fileio(cmd), background_flag) = "file" <=> i = 2
    BY <2>2, <2>4, <2>5 DEF Stdin
  <2>7. IF b + i + o = 5 THEN Stdout(Fileio(cmd), background_flag) = "null"
                         ELSE Stdout(Fileio(cmd), background_flag) = "file" <=> o = 2
    BY <2>2, <2>4, <2>5 DEF Stdout
  <2> QED BY <2>3, <2>6, <2>7 DEF Argv
<1> QED BY <1>1, <1>2, <1>3, ParsedStep, Invariant, PTL DEF Spec
=============================================================================

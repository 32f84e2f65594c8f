------------------------------ MODULE SmallSh ------------------------------
(***************************************************************************)
(* c/shell/smallsh.c: a shell that runs one command at a time in the       *)
(* foreground and any number in the background, reaps children both with   *)
(* waitpid() and in its SIGCHLD handler, and takes ctrl-C and ctrl-Z       *)
(* between any two of its steps.  A command line is a sequence of tokens.  *)
(***************************************************************************)
EXTENDS Integers, Sequences, FiniteSets, SequencesExt

CONSTANTS Commands,    \* the command lines the user may type
          Pids,
          MaxJobs,     \* bound: commands executed
          MaxKeys,     \* bound: ctrl-C and ctrl-Z pressed
          ExitCodes,   \* values the programs may exit with
          None

Builtins == {"status", "cd", "#"}
Unreadable == "nofile"

ASSUME CommandsAssumption == Commands \subseteq (Seq(STRING) \ {<<>>})
ASSUME BoundsAssumption == MaxJobs \in Nat /\ MaxKeys \in Nat
ASSUME ExitCodesAssumption == ExitCodes \subseteq 0..255
ASSUME NoneAssumption == None \notin Pids

VARIABLES
    pc, cmd, background_flag, spawn_pid, result,  \* shell_user_entry()
    fg_flag, fg_pid, foreground_only_flag,        \* globals the handlers share
    previous_command_ret_val,
    buffer,                        \* child_message_buff_global: the jobs it tells of
    pending,                       \* signals pending for the shell
    proc, bg, number, word,        \* the children: state, "&", number, wait status
    leaders,                       \* children that have a process group of their own
    stopNews,                      \* children stopped since they were last waited for
    jobs, keys,                    \* how many so far
    background, lastfg, endWord,   \* history: background jobs, last foreground job,
    handlerReaped, masked,         \*   whom the handler reaped, and of whom untold,
    printed, erased,               \*   whose message was printed or erased,
    interrupted, unforked,         \*   whose wait was cut short, who never was forked,
    taken                          \*   whom the wait after a failed fork() reaped
shellVars == <<cmd, background_flag, spawn_pid, result>>
globals == <<fg_flag, fg_pid, foreground_only_flag, previous_command_ret_val, buffer>>
childVars == <<proc, bg, leaders, number, word, stopNews, endWord>>
history == <<background, lastfg, handlerReaped, masked, printed, erased, interrupted,
             unforked, taken>>
vars == <<pc, shellVars, globals, pending, childVars, jobs, keys, history>>
-----------------------------------------------------------------------------
(* The command line: lines 219-251 and 297-352 *)

InBackground(line) == Last(line) = "&"

\* fileio_var after the token k: the last '<' has set it to 2, each '>' adds 1.
Counted(line, k) ==
    LET reads == {j \in 1..k : line[j] = "<"}
        from == IF reads = {} THEN 0 ELSE Max(reads)
    IN  (IF reads = {} THEN 0 ELSE 2) + Cardinality({j \in from + 1..k : line[j] = ">"})
\* The scan stops when a '>' makes it 3.
Stops(line, k) == line[k] = ">" /\ Counted(line, k) = 3
Fileio(line) == IF \E k \in 1..Len(line) : Stops(line, k) THEN 3 ELSE Counted(line, Len(line))

\* An unreadable input file makes the shell give the command up.
Refused(line) == \E k \in 1..Len(line) - 1 : /\ line[k] = "<" /\ line[k + 1] = Unreadable
                                             /\ \A j \in 1..k : ~Stops(line, j)

\* The number of arguments deleted from the end before execvp().
Strip(line) == LET io == IF Fileio(line) = 0 THEN 0 ELSE IF Fileio(line) = 3 THEN 4 ELSE 2
               IN  IF InBackground(line) THEN io + 1 ELSE io

\* Where the child's stdin and stdout lead: lines 358-402.  A background command
\* has what it did not redirect sent to /dev/null; with both redirected, both are.
Stdin(fileio, back) == IF back /\ fileio # 2 THEN "null"
                     ELSE IF fileio \in {2, 3} THEN "file" ELSE "terminal"
\* Seeded fault: /dev/null replaces a redirected output too.
StdoutAlwaysNull(fileio, back) == IF back THEN "null"
                                ELSE IF fileio \in {1, 3} THEN "file" ELSE "terminal"
Stdout(fileio, back) == IF back /\ fileio # 1 THEN "null"
                      ELSE IF fileio \in {1, 3} THEN "file" ELSE "terminal"

Argv(line) == SubSeq(line, 1, Len(line) - Strip(line))

(* Wait status words: lines 436-441 *)
ExitWord(c) == c * 256
SIGINT == 2
NotWritten == -5                     \* the initial value of child_exit_meathod
TermSig(w) == w % 128
WifExited(w) == TermSig(w) = 0
WifSignaled(w) == TermSig(w) \notin {0, 127}
ExitStatus(w) == (w \div 256) % 256
StatusOf(w, old) == IF WifExited(w) THEN ExitStatus(w)
                    ELSE IF WifSignaled(w) THEN TermSig(w) ELSE old
Bogus == TermSig(NotWritten)      \* "signal" 123
-----------------------------------------------------------------------------
Init ==
    /\ pc = "prompt" /\ cmd = <<>> /\ background_flag = FALSE
    /\ spawn_pid = None /\ result = NotWritten
    /\ fg_flag = FALSE /\ fg_pid = None /\ foreground_only_flag = FALSE
    /\ previous_command_ret_val = NotWritten /\ buffer = {} /\ pending = {}
    /\ proc = [p \in Pids |-> "free"] /\ bg = [p \in Pids |-> FALSE] /\ leaders = {}
    /\ number = [p \in Pids |-> 0] /\ word = [p \in Pids |-> 0] /\ stopNews = {}
    /\ endWord = [n \in 1..MaxJobs |-> NotWritten]
    /\ jobs = 0 /\ keys = 0
    /\ background = {} /\ lastfg = 0 /\ handlerReaped = {} /\ masked = {}
    /\ printed = {} /\ erased = {} /\ interrupted = {} /\ unforked = {} /\ taken = {}

(* shell_user_entry() *)

\* The messages are printed, and the buffer cleared only after that.
PrintMessages ==
    /\ pc = "prompt"
    /\ buffer # {}
    /\ printed' = printed \cup buffer
    /\ pc' = "clear"
    /\ UNCHANGED <<shellVars, globals, pending, childVars, jobs, keys, background, lastfg,
                   handlerReaped, masked, erased, interrupted, unforked, taken>>

ClearMessages ==
    /\ pc = "clear"
    /\ erased' = erased \cup (buffer \ printed)
    /\ buffer' = {}
    /\ pc' = "read"
    /\ UNCHANGED <<shellVars, fg_flag, fg_pid, foreground_only_flag,
                   previous_command_ret_val, pending, childVars, jobs, keys, background,
                   lastfg, handlerReaped, masked, printed, interrupted, unforked, taken>>

NoMessages ==
    /\ pc = "prompt"
    /\ buffer = {}
    /\ pc' = "read"
    /\ UNCHANGED <<shellVars, globals, pending, childVars, jobs, keys, history>>

\* getline() and the parse.  A comment, cd, status, an unreadable input file or an
\* empty line lead back to the prompt.
ReadLine(line) ==
    /\ pc = "read"
    /\ cmd' = line
    /\ background_flag' = InBackground(line)
    /\ pc' = IF Head(line) = "exit" THEN "exited"
             ELSE IF Refused(line) \/ Head(line) \in Builtins THEN "prompt" ELSE "mode"
    /\ UNCHANGED <<spawn_pid, result, globals, pending, childVars, jobs, keys, history>>

\* foreground_only_flag is consulted only when nothing is redirected.
Mode ==
    /\ pc = "mode"
    /\ background_flag' = (background_flag /\ (Fileio(cmd) # 0 \/ ~foreground_only_flag))
    /\ pc' = "fork"
    /\ UNCHANGED <<cmd, spawn_pid, result, globals, pending, childVars, jobs, keys, history>>

Fork(p) ==
    /\ pc = "fork" /\ jobs < MaxJobs
    /\ proc[p] = "free"
    /\ proc' = [proc EXCEPT ![p] = "new"]
    /\ bg' = [bg EXCEPT ![p] = background_flag] /\ leaders' = leaders \ {p}
    /\ cmd' = <<>>
    /\ number' = [number EXCEPT ![p] = jobs + 1]
    /\ jobs' = jobs + 1
    /\ spawn_pid' = p /\ result' = NotWritten
    /\ background' = IF background_flag THEN background \cup {jobs + 1} ELSE background
    /\ lastfg' = IF background_flag THEN lastfg ELSE jobs + 1
    /\ pc' = IF background_flag THEN "announce" ELSE "flag"
    /\ UNCHANGED <<background_flag, globals, pending, word, stopNews, endWord, keys,
                   handlerReaped, masked, printed, erased, interrupted, unforked, taken>>

\* spawn_pid is -1, which waitpid() takes for any child.
ForkFails ==
    /\ pc = "fork" /\ jobs < MaxJobs
    /\ cmd' = <<>>
    /\ jobs' = jobs + 1
    /\ spawn_pid' = None /\ result' = NotWritten
    /\ unforked' = unforked \cup {jobs + 1}
    /\ lastfg' = IF background_flag THEN lastfg ELSE jobs + 1
    /\ pc' = IF background_flag THEN "announce" ELSE "flag"
    /\ UNCHANGED <<background_flag, globals, pending, childVars, keys, background,
                   handlerReaped, masked, printed, erased, interrupted, taken>>

\* "background process pid is ..."
Announce ==
    /\ pc = "announce"
    /\ fg_flag' = FALSE
    /\ pc' = "prompt"
    /\ UNCHANGED <<shellVars, fg_pid, foreground_only_flag, previous_command_ret_val,
                   buffer, pending, childVars, jobs, keys, history>>

SetFgFlag ==
    /\ pc = "flag"
    /\ fg_flag' = TRUE
    /\ pc' = "pid"
    /\ UNCHANGED <<shellVars, fg_pid, foreground_only_flag, previous_command_ret_val,
                   buffer, pending, childVars, jobs, keys, history>>

SetFgPid ==
    /\ pc = "pid"
    /\ fg_pid' = spawn_pid
    /\ pc' = "wait"
    /\ UNCHANGED <<shellVars, fg_flag, foreground_only_flag, previous_command_ret_val,
                   buffer, pending, childVars, jobs, keys, history>>

\* waitpid() reaps the child it was called for, or after a failed fork() any child, a
\* background job too, of which nobody is told then ...
Awaited == IF spawn_pid = None THEN Pids ELSE {spawn_pid}
WaitReaps(p) ==
    /\ pc = "wait"
    /\ p \in Awaited /\ proc[p] = "zombie"
    /\ proc' = [proc EXCEPT ![p] = "free"]
    /\ result' = word[p]
    /\ taken' = IF spawn_pid = None THEN taken \cup {number[p]} ELSE taken
    /\ pc' = "after"
    /\ UNCHANGED <<cmd, background_flag, spawn_pid, globals, pending, bg, leaders, number,
                   word, stopNews, endWord, jobs, keys, background, lastfg, handlerReaped,
                   masked, printed, erased, interrupted, unforked>>

\* Seeded fault: waitpid() is called again until it returns the child's status.
WaitRetried == \E p \in Awaited : WaitReaps(p)
\* ... or fails because the handler has reaped it: the status stays unwritten.
WaitFails ==
    /\ pc = "wait"
    /\ \A p \in Awaited : proc[p] = "free"
    /\ pc' = "after"
    /\ UNCHANGED <<shellVars, globals, pending, childVars, jobs, keys, history>>

\* Seeded fault: the status is taken only from a wait that reaped a child.
AfterReap ==
    /\ pc = "after"
    /\ previous_command_ret_val' =
          IF result = NotWritten THEN previous_command_ret_val
          ELSE StatusOf(result, previous_command_ret_val)
    /\ fg_flag' = FALSE
    /\ pc' = "prompt"
    /\ UNCHANGED <<shellVars, fg_pid, foreground_only_flag, buffer, pending, childVars,
                   jobs, keys, history>>
\* A nonzero return, -1 included, is taken for the end of the child.
AfterWait ==
    /\ pc = "after"
    /\ previous_command_ret_val' = StatusOf(result, previous_command_ret_val)
    /\ fg_flag' = FALSE
    /\ pc' = "prompt"
    /\ UNCHANGED <<shellVars, fg_pid, foreground_only_flag, buffer, pending, childVars,
                   jobs, keys, history>>
-----------------------------------------------------------------------------
(* The handlers: each masks every signal, so none interrupts another *)

Deliver(s) == pc # "exited" /\ s \in pending /\ pending' = pending \ {s}
Zombies == {p \in Pids : proc[p] = "zombie"}
Numbers(S) == {number[p] : p \in S}

\* Seeded fault: one child is reaped for each signal.
FirstReaped == IF Zombies = {} THEN {} ELSE {CHOOSE p \in Zombies : TRUE}
Reaped == Zombies
TellOf == Reaped \ {fg_pid}
\* Seeded fault: strcpy() for strcat().
Copied(S) == IF S = {} THEN buffer ELSE S
Appended(S) == buffer \cup S

\* The loop reaps all there is, stop reports included, and tells of the children
\* whose pid is not fg_pid.
CatchSIGCHLD ==
    /\ Deliver("CHLD")
    /\ buffer' = Appended(Numbers(TellOf))
    /\ masked' = masked \cup Numbers(Reaped \cap {fg_pid})
    /\ handlerReaped' = handlerReaped \cup Numbers(Reaped)
    /\ proc' = [p \in Pids |-> IF p \in Reaped THEN "free" ELSE proc[p]]
    /\ stopNews' = {}
    /\ UNCHANGED <<pc, shellVars, fg_flag, fg_pid, foreground_only_flag,
                   previous_command_ret_val, bg, leaders, number, word, endWord, jobs,
                   keys, background, lastfg, printed, erased, interrupted, unforked, taken>>

\* "terminated by signal 2"
CatchSIGINT ==
    /\ Deliver("INT")
    /\ fg_flag' = FALSE
    /\ UNCHANGED <<pc, shellVars, fg_pid, foreground_only_flag, previous_command_ret_val,
                   buffer, childVars, jobs, keys, history>>

\* Installed without SA_RESTART: a waitpid() already in progress returns -1 (EINTR).
CatchSIGTSTP ==
    /\ Deliver("TSTP")
    /\ foreground_only_flag' = ~foreground_only_flag
    /\ \/ pc = "wait" /\ pc' = "after" /\ interrupted' = interrupted \cup {lastfg}
       \/ UNCHANGED <<pc, interrupted>>
    /\ UNCHANGED <<shellVars, fg_flag, fg_pid, previous_command_ret_val, buffer, childVars,
                   jobs, keys, background, lastfg, handlerReaped, masked, printed, erased,
                   unforked, taken>>
-----------------------------------------------------------------------------
(* The children and the terminal *)

Ends(S, w) ==
    /\ proc' = [p \in Pids |-> IF p \in S THEN "zombie" ELSE proc[p]]
    /\ word' = [p \in Pids |-> IF p \in S THEN w ELSE word[p]]
    /\ endWord' = [n \in 1..MaxJobs |-> IF n \in Numbers(S) THEN w ELSE endWord[n]]

\* A background command's child leaves the shell's group after its redirections; until
\* then, and until it has executed its program, it has the shell's handlers.
ChildSetpgid(p) ==
    /\ proc[p] = "new" /\ bg[p] /\ p \notin leaders
    /\ leaders' = leaders \cup {p}
    /\ UNCHANGED <<pc, shellVars, globals, pending, proc, bg, number, word, stopNews,
                   endWord, jobs, keys, history>>

\* Seeded fault: the program is executed before the child has left the group.
ExecsEarly(p) == proc[p] = "new"
\* The child is at execvp(), which comes last.
Execs(p) == proc[p] = "new" /\ (bg[p] => p \in leaders)
\* execvp(): from here on signals have their default effect.
ChildExec(p) ==
    /\ Execs(p)
    /\ proc' = [proc EXCEPT ![p] = "run"]
    /\ UNCHANGED <<pc, shellVars, globals, pending, bg, leaders, number, word, stopNews,
                   endWord, jobs, keys, history>>

\* execvp() fails and the child leaves main()'s loop, or the program ends.
ChildExit(p, c) ==
    /\ Execs(p) \/ proc[p] = "run"
    /\ Ends({p}, ExitWord(c))
    /\ pending' = pending \cup {"CHLD"}
    /\ UNCHANGED <<pc, shellVars, globals, bg, leaders, number, stopNews, jobs, keys,
                   history>>

\* The terminal signals its foreground group: the shell and the children that have not
\* left it, of which those that execute a program are ended or stopped.
Group == {p \in Pids : proc[p] = "run" /\ p \notin leaders}

CtrlC ==
    /\ keys < MaxKeys /\ pc # "exited"
    /\ keys' = keys + 1
    /\ Ends(Group, SIGINT)
    /\ pending' = pending \cup {"INT"} \cup (IF Group = {} THEN {} ELSE {"CHLD"})
    /\ UNCHANGED <<pc, shellVars, globals, bg, leaders, number, stopNews, jobs, history>>

CtrlZ ==
    /\ keys < MaxKeys /\ pc # "exited"
    /\ keys' = keys + 1
    /\ proc' = [p \in Pids |-> IF p \in Group THEN "stopped" ELSE proc[p]]
    /\ stopNews' = stopNews \cup Group
    /\ pending' = pending \cup {"TSTP"} \cup (IF Group = {} THEN {} ELSE {"CHLD"})
    /\ UNCHANGED <<pc, shellVars, globals, bg, leaders, number, word, endWord, jobs,
                   history>>
-----------------------------------------------------------------------------
Shell == \/ PrintMessages \/ ClearMessages \/ NoMessages
         \/ Mode \/ (\E p \in Pids : Fork(p)) \/ Announce
         \/ ForkFails \/ SetFgFlag \/ SetFgPid
         \/ (\E p \in Pids : WaitReaps(p)) \/ WaitFails \/ AfterWait
Handlers == CatchSIGCHLD \/ CatchSIGINT \/ CatchSIGTSTP
Child(p) == ChildSetpgid(p) \/ ChildExec(p) \/ \E c \in ExitCodes : ChildExit(p, c)

Next == \/ Shell \/ Handlers
        \/ \E line \in Commands : ReadLine(line)
        \/ \E p \in Pids : Child(p)
        \/ CtrlC \/ CtrlZ

Spec == Init /\ [][Next]_vars
\* Every process that can run does, programs end, signals are delivered; the user
\* need not type anything.
Fairness == WF_vars(Shell) /\ WF_vars(Handlers) /\ (\A p \in Pids : WF_vars(Child(p)))
FairSpec == Spec /\ Fairness
-----------------------------------------------------------------------------
Words == {ExitWord(c) : c \in ExitCodes} \cup {SIGINT}
JobNumbers == 1..MaxJobs

\* Every variable holds a value of the kind the C declares; the status is one a
\* child can have, or one of the two it has without a child.
TypeOK ==
    /\ pc \in {"prompt", "clear", "read", "mode", "fork", "announce", "flag", "pid",
               "wait", "after", "exited"}
    /\ cmd \in Commands \cup {<<>>} /\ background_flag \in BOOLEAN
    /\ spawn_pid \in Pids \cup {None} /\ result \in Words \cup {NotWritten}
    /\ fg_flag \in BOOLEAN /\ foreground_only_flag \in BOOLEAN
    /\ fg_pid \in Pids \cup {None}
    /\ previous_command_ret_val \in ExitCodes \cup {SIGINT, Bogus, NotWritten}
    /\ buffer \subseteq JobNumbers /\ pending \subseteq {"CHLD", "INT", "TSTP"}
    /\ proc \in [Pids -> {"free", "new", "run", "stopped", "zombie"}]
    /\ bg \in [Pids -> BOOLEAN] /\ leaders \subseteq Pids /\ number \in [Pids -> 0..MaxJobs]
    /\ \A p \in Pids : proc[p] # "free" => number[p] # 0
    /\ word \in [Pids -> Words \cup {0}] /\ stopNews \subseteq Pids
    /\ endWord \in [JobNumbers -> Words \cup {NotWritten}]
    /\ jobs \in 0..MaxJobs /\ keys \in 0..MaxKeys

\* The status a prompt reports is that of the last foreground command, or the bogus
\* signal number, and that only when the handler reaped the command first or ctrl-Z
\* interrupted the wait: never the status of a background job, unless fork() failed.
AtPrompt == pc \in {"prompt", "clear", "read", "mode", "fork"}
StatusIsLastForeground ==
    (AtPrompt /\ lastfg \notin unforked) =>
        IF lastfg = 0 THEN previous_command_ret_val = NotWritten
        ELSE \/ previous_command_ret_val = StatusOf(endWord[lastfg], NotWritten)
             \/ /\ previous_command_ret_val = Bogus
                /\ lastfg \in handlerReaped \cup interrupted

\* Neither ctrl-C nor ctrl-Z reaches a background job, whenever it comes: between fork()
\* and setpgid(), when the child is in the shell's group but has the shell's handlers,
\* between setpgid() and execvp(), or after.
KeysSpareBackground ==
    /\ \A n \in background : endWord[n] # SIGINT
    /\ \A p \in Pids : proc[p] = "stopped" => number[p] \notin background

\* A background job that has ended and been reaped, by whomever, is in the buffer or has
\* been printed, unless its message was erased with the ones just printed, its pid was an
\* old fg_pid, or it was taken by the waitpid() for any child that follows a failed
\* fork().
Gone(n) == endWord[n] # NotWritten /\ \A p \in Pids : proc[p] # "free" => number[p] # n
ReapedIsTold ==
    \A n \in background : Gone(n) => n \in buffer \cup printed \cup erased \cup masked \cup taken

\* The command is run as it is written, when it has at most one '<' and after it at
\* most one '>': with the arguments before them, and with what it redirects; but a
\* background command that redirects both gets /dev/null for both.
Written(line, n, i, o, b) ==      \* n arguments, i + o tokens of redirection, b of "&"
    /\ Len(line) = n + i + o + b
    /\ \A k \in 1..Len(line) : /\ line[k] = "<" <=> i = 2 /\ k = n + 1
                               /\ line[k] = ">" <=> o = 2 /\ k = n + i + 1
                               /\ line[k] = "&" <=> b = 1 /\ k = Len(line)
RunAsWritten ==
    \A n \in 1..Len(cmd), i, o \in {0, 2}, b \in {0, 1} :
        (pc = "fork" /\ Written(cmd, n, i, o, b)) =>
            /\ Argv(cmd) = SubSeq(cmd, 1, n)
            /\ LET in == Stdin(Fileio(cmd), background_flag)
                   out == Stdout(Fileio(cmd), background_flag)
               IN  IF b + i + o = 5 THEN in = "null" /\ out = "null"
                   ELSE (in = "file" <=> i = 2) /\ (out = "file" <=> o = 2)

\* The shell comes back from every wait, unless ctrl-Z stopped the command just before
\* waitpid() was called, which does not ask for stopped children.
WaitEnds == pc = "wait" ~> pc # "wait" \/ \E p \in Awaited : proc[p] = "stopped"

\* Every ended child is reaped while the shell runs.
ZombiesReaped == \A p \in Pids :
    proc[p] = "zombie" ~> proc[p] # "zombie" \/ pc = "exited"

\* Claimed by the comment on lines 31-33 of smallsh.c: the message of every background
\* child is kept until it is written.
NoMessageErased == erased = {}

\* Claimed by the message on line 97 of smallsh.c, "& is now ignored": while the shell
\* is in foreground-only mode no command line is made ready to fork in the background.
ForegroundOnly ==
    [][(pc = "mode" /\ pc' = "fork" /\ foreground_only_flag) => ~background_flag']_vars
=============================================================================

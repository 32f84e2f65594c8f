# Models of StephenMoreProjects

This directory holds TLA+ models of the concurrent and algorithmic programs of the
repository, the TLC configurations that check them on small instances, and theorems
about them whose proofs are checked by TLAPS. Source paths below are relative to `src/`.

## 1. The system: inventory

The repository is a collection of programs that do not call each other. Within each
one there is interaction worth modelling: processes that share a directory, handlers
that interrupt a main loop, threads that hand a mutex back and forth.

| Part | Source | State it keeps | Operations | Interaction | What is hard | What makes it correct |
|---|---|---|---|---|---|---|
| otp client, key generator | `c/otp_encrypt_comm/otp.c`, `keygen.c` | the line, the key, `numeric`, the index of a loop | check, encrypt, send, receive, decrypt | one TCP connection per run to the daemon | off-by-one bounds, an unsigned bound that wraps, an uninitialised local, C's `%`, a delimiter inside the data | a sound message comes back as it was; what the checks let through is corrupted only where they do not look |
| otp daemon | `c/otp_encrypt_comm/otp_d.c` | `process_count`, `child_pid[]`, descriptors, one directory per user with one file per message | accept, fork, serve POST, serve GET; SIGCHLD handler | children share directories without locks; handler interrupts `main()` | lost updates, coalesced signals, pid reuse, two readers of one file, a file read before it was flushed | messages go only to their user, are not lost, oldest first; every client is answered; no zombies |
| smallsh | `c/shell/smallsh.c` | flags shared with handlers, message buffer, last status | read and parse, built-ins, fork/exec, wait; three handlers | the SIGCHLD handler and the shell both call `waitpid()` | who reaps first, EINTR, a buffer cleared after it was printed, argument stripping | status and messages are those of the right job; no wait lasts for ever; the command run is the command written |
| map builder | `c/adventure_concurrency/mores.buildrooms.c` | `roomConnection[7][6]`, counts, types | draw types and counts, fill a row, give connections back, write files | writes the directory the game reads | indices at the end of a row, an assertion, rooms filled by others before their turn | two-way, no loops or duplicates, all in one piece |
| adventure game | `c/adventure_concurrency/mores.adventure.c` | table of rooms, player flags, path, a mutex | read directory, move, ask for the time | main thread and time thread share `myMutex` | unlock/join/lock around thread re-creation, a creation that fails | a walk over the map; each request for the time dealt with once |
| branch predictor | `comp_arch/simple_scalar_project/3bit_branch_predictor_with_benchmarking/bpred.c` | counter tables, BTB sets with an LRU list, return-address stack | lookup, recover, update | called by `sim-outorder.c` out of order | mis-speculation between lookup and update, list surgery | the target buffer is in LRU order; counters learn within their range; the stack knows the way back |
| out-of-order core | `sim-outorder.c` beside it | register update unit (RUU), load/store queue (LSQ), dependence links, create vectors, ready and event queues, fetch queue | fetch, dispatch, issue, writeback, commit, once per cycle | the stages share the queues; a mis-predicted branch squashes what came after it | links to instructions that are gone, slots used again, loads that pass stores, two register maps | what commits is the program; operands wait for exactly the right writer; it comes to its end |
| DDR3 calibration sequencer | `rtl/DE-1_SoC/DE-1_SoC_HPS/hps_isw_handoff/hps_fgpa_hps_0/sequencer.c` | scan chains, FIFO positions, delays and phases, error record | configure, calibrate each group (read, write, read again), latency, report | drives the PHY's registers; the controller and the tracking manager read the result | settings written but not loaded, registers shared by all groups, searches whose tests are not repeatable, three units of time | success means every pin is where its search put it, and that is where data is right |
| TAS | `rtl/TAS/rtl_src/tas.sv` | receive FSM, averaging FSM, latch, address | shift in, average, write RAM | two unrelated clocks | a level that crosses over and back, headers among data | one write per packet of temperatures |
| GCD engine | `rtl/GCD/gcd.sv`, `rtl/GCD_formal_property_verification/gcd_ctrl.sv` | two registers, FSM | load, subtract/swap, done | start/done handshake | reset at any time, zero operands | the result is the gcd |
| ATmega128 robot and remote | `ATmega128/*.asm` | freeze count, last byte, timers | send and receive two-byte commands | USART interrupts | interrupts during an action | commands only from the own remote |
| small RTL blocks | `rtl/ALU`, `rtl/NESController`, `rtl/PS2Keyboard`, `rtl/fsm_glitch` | shift registers | shift, decode | one clock | little | enumerated by their test benches |
| generated, third-party, data | the rest of `rtl/DE-1_SoC`, the rest of SimpleScalar, `matlab`, `python`, `bash` | - | - | - | - | not modelled |

`PROJECT.json` lists the same parts with their status, and under `hazards` each place
in the code where one of the hard behaviours bites, with the property that watches it.

## 2. Modules

| Module | Role |
|---|---|
| `OtpCipher` | one message from plaintext file to decrypted text; the loops of `encrypt()` and `decrypt()` are steps |
| `OtpServer` | the daemon: `main()`, the SIGCHLD handler, each child, the file system, the clients |
| `OtpProofs` | theorems about both |
| `SmallSh` | the shell, its handlers, its children and the keys of the terminal |
| `SmallShProofs` | theorems about `SmallSh` |
| `BuildRooms`, `BuildRoomsProofs` | the map builder, and theorems about it |
| `GameSpec` | what the game promises: a walk over a map in which requests for the time are answered |
| `Adventure`, `AdventureProofs` | both threads of the game; implements `GameSpec`, with the proof that it does |
| `LruSpec` | what the branch target buffer promises: per set, the most recently taken branches in order of use |
| `BPred` | the branch predictor and the order in which the pipeline calls it; implements `LruSpec` |
| `IsaSpec` | what a program sees of the processor: one instruction after the other, each where the one before it went |
| `Ruu`, `RuuProofs` | the out-of-order core, stage by stage; implements `IsaSpec`; and theorems about it |
| `Calibration`, `CalibrationProofs` | the sequencer's flow through groups and stages, its scan chains and its report, and theorems about it |
| `EnPhase` | one search of it: at which moment DQS is let through |
| `Deskew`, `DeskewProofs` | the other two: the centre of the data eyes for reads and for writes, and of the mask; and theorems |
| `Tas` | both clock domains of the temperature averaging system |
| `HardwareProofs` | theorems about `Tas` and about `BPred`, which have nothing to do with each other but that both are hardware |
| `MC*` | values of the constants for TLC |

`OtpCipher` and `OtpServer` divide the otp programs: the first has the characters of
one message and no concurrency, the second has the processes and keeps a message as
the name of the client that posted it. `Adventure` instantiates `GameSpec`, `BPred` `LruSpec`, and `Ruu` `IsaSpec`.
`BPred` and `Ruu` divide the simulator: in the first the pipeline is only the order of the calls, in the second
a prediction is a choice. `Calibration` leaves what a search finds to choice; `EnPhase` and `Deskew` are the
searches, with the other stages left out.
`BuildRooms` produces the kind of directory whose two-way, connected maps `Adventure`
plays on, but `Adventure` is checked with maps the builder can draw *and* with one that has no
end room, which the builder can also draw (`mores.buildrooms.c:152`, section 6).

### Operators marked "Seeded fault"

Next to some definitions stands a variant commented *Seeded fault*. These are not part
of any specification. Each is the definition after it with a plausible bug put in; `PROJECT.json`
pairs it with the property that must, and does, catch it when it takes the
definition's place.

### How the models correspond to the code

**OtpCipher.** `CheckSize`, `CheckChar`, `RejectChar` and `EndOfCheck` are the two checks of
`encrypt()` (otp.c 137-153), `EncryptNext`/`EncryptEnd` its `fgetc` loop, `SendError` the
replacement of the ciphertext in `main()`. The request is dispatched by how many
comma-separated tokens `strtok` finds in it (otp_d.c 165 ff.): `DispatchPost`, `DispatchAsGet`, `DispatchFails`.
`DecryptNext`/`DecryptEnd` are `decrypt()`. C's `%`, the newline that counts in `strlen(key_line)` and
the `numeric` that keeps its last value are modelled as they are; `Garbage` is what an
uninitialised `numeric` may hold.

**OtpServer.** `ppc` is where `main()` stands, `cpc[p]` where the child with pid `p` stands, and
`handling` says that the handler runs (then `main()` does not). `process_count++` is the
two steps `LoadCount` and `StoreCount`. A file is an inode in `content` and `mtime`, named by
`dir[<<user, pid>>]`: `PostCreate` is `fopen("w")`, `PostFlush` is the `fclose()` that writes stdio's buffer; a GET
takes the steps `GetScan` (`ftw()` begins), `GetStat` for each name of the mailbox (a `readdir()` and a `stat()`, with `find_oldest()`),
`GetAccess`, `GetOpen`, `GetRead`, `GetRemove`, each of which another
child may overtake. `ahead` is what the walk has not come to, in whatever order, `oldest` and `least` the globals `oldest` and `mtime`
of the child. A file made behind the walk is not seen by it. `there` is history: what the mailbox held when the walk began. `child_pid[]` is never assigned, so `CheckLimit` waits, or does not, at will. `fork()`
fails when every pid is in use; `accept()` fails when the descriptors main() never closes run out. `Stop` and
`Continue` are signals to a child, which `WUNTRACED` reports to a handler that takes them for ends.

**SmallSh.** `pc` walks through one round of `shell_user_entry()`: `PrintMessages`/`ClearMessages`, `ReadLine`
(parse, built-ins), `Mode` (strip arguments, foreground-only flag), `Fork`, then
`Announce` for a background job or `SetFgFlag`, `SetFgPid`, `WaitReaps`/`WaitFails`, `AfterWait`. The handlers
`CatchSIGCHLD`, `CatchSIGINT`, `CatchSIGTSTP` are atomic with respect to each other (each masks all
signals) and happen between any two of those steps. Jobs are numbered; `buffer` is the
set of jobs the message buffer tells of. A status is the wait word the kernel gives. A child that was forked is `"new"` and has the shell's
handlers until `ChildExec`; if it is in the background it takes `ChildSetpgid` before that and is from then on one of the `leaders`. The keys
reach the `Group`, the children that execute a program and are not leaders. `taken` is history: the jobs that the
`waitpid(-1)` after a failed `fork()` reaped.

**BuildRooms.** `AssignTypes`, `AssignCounts`, then for each room in turn the fill loop (`SlotTaken`,
`DrawConnection`, `EndOfFill`) and the give-back loop (`HasWayBack`, `AddWayBack`, `NextRoom`), then `WriteRoom` for
each file. `rand()` is a free choice; the shuffled list of candidates is the set of those left.
The search for a way back is `checkConnIdx`, the first index at which the C loop stops.

**Adventure.** `AssignIDToRoomNames` and `ReadRoomDirIntoStruct` are the two passes over the directory, in
whatever order `readdir()` gives. The main thread goes through `Lock`, `CreateThread`/`CreateFails`, then
`Move` or `AskTime`; a request takes `Unlock`, `Join` (or the undefined `JoinAgain`), `Lock`, `CreateThread`. The second
thread is `SecondLocks`, `GetTime`, `SecondUnlocks`.

**BPred.** `Fetch` is one round of `ruu_fetch()` with the `bpred_lookup()` in it: `PredPC` is the prediction, `TosAfter` and
`StackAfter` the push or pop it does at once, `DirUpdate` the pointers it hands on to the update. `Dispatch` and
`Misfetch` are the ends `ruu_dispatch()` has for a branch, `Recover` is `ruu_recover()`, `tracer_recover()` and
`bpred_recover()`, `Commit` and `CommitReturn` are `ruu_commit()` with `bpred_update()`. `ifq` and `ruu` hold only
branches. `path` says where the next fetch is; what a branch really does (`npc`) is chosen when it is
fetched and looked at when it is dispatched. The pointers `prev` and `next` of an entry are way numbers of its set, -1 for NULL. The
history variables `calls`, `lost`, `overwritten`, `undonePops`, `undonePushes`, `run` only record; no step depends on
them, but that a return of the right path leads behind the innermost open call.

**Ruu.** `stage` is the call of `sim_main()`'s loop that comes next and `n` its loop counter (the number
committed, issued, decoded or fetched so far), so a step is one turn of one stage's loop: `ruu_commit`, `ruu_writeback` (with `ruu_recover()` and
`tracer_recover()`), `issue_store`/`issue_unit`/`issue_without_unit`/`put_back`, `ruu_dispatch`, `ruu_fetch`/`fetch_miss`; `stale_event` and
`stale_node` are the entries whose tag is no longer that of their slot. `lsq_refresh` is one step. A station is a record of
the fields of `struct RUU_station` that control depends on; the lists of links are sequences; `bugcompat` gives the other order of
the stages. `panic` holds the message of the `panic()` that a step runs into. An instruction lists where it may go, what may be predicted
and which addresses it may access, and dispatch chooses: that is all the simulator's functional half does here.

**Calibration.** `scc` is what the program has written to the scan chain manager and marked to be loaded, `io` what the
pins run with; `SCC_MGR_UPD` carries the one over to the other. The registers of the pins exist once and go to the group that
`scc.counter` selects. Each action is one search with the writes it leaves behind, for each outcome it can have; `d`, `orig_start_dqs`
and `dqs_in_dtaps` are the loops of `rw_mgr_mem_calibrate_vfifo()`. `chosen`, `proven`, `failure` and `recovered` are history. `Again` is a
second run, after a warm reset, with the registers as they are.

**EnPhase.** A test is at a `Position` on a ring of whole clocks; the window in which reads work, with its fringe, is a constant of
the run. `pc` names the loops in turn: `FindFailing`, `FindBegin`, `FindBeginTap`, `Forward`, `FindEnd`/`SkipZero`, `FindEndTap`, `Range`, `FindPassing`,
`FindFailed`, `Centre`, `Push`. `work_bgn`, `work_end`, `p`, `d`, `i`, `dtaps_per_ptap` are the program's variables.

**Deskew.** `board` says which side is trained and where each pin's eye is. `LeftSweep` delays the pins, `RightSweep` delays DQS, `Centre` is
the arithmetic of the middle, and `MaskSweep`, `MaskTurns`, `MaskDqsSweep`, `MaskEnds` look for the window of the data mask. `Unset` is the
sentinel, one more than the longest delay.

**Tas.** `FastEdge` is one edge of `clk_50`, with everything combinational between, `SlowEdge` one of `clk_2`. Whether a byte is a header
is a choice made when its last bit arrives. Between two slow edges come `Ratio` fast ones, one more or one less, so
that the clocks drift against each other. `owed` is the set of complete packets not yet written.

## 3. What the runs check

| Run | Instance | Shows |
|---|---|---|
| `otp_cipher` | every line of up to 3 characters over {H, Z, space, a}, with and without newline; keys of up to 3 over {T, space} | `SoundIsStored`, `RoundTrip` |
| `otp_server` | 3 clients in four mixes of requests, 2 pids, 2 users, 2 seconds | `CountNeverUnder`, `OnlyOwnMessages`, `NoSilentLoss`, `OldestFirst`, `Answered`, `ZombiesReaped` |
| `smallsh` | every form of command line, 2 jobs, 2 key presses, exit codes 0 and 1, fork failing at will | `StatusIsLastForeground`, `KeysSpareBackground`, `ReapedIsTold`, `RunAsWritten`, `WaitEnds`, `ZombiesReaped` |
| `buildrooms` | 4 rooms, least count 2, every draw | `NeverAborts`, `TwoWay`, `TwoMovesApart` |
| `adventure` | 4 rooms in a ring with and without a shortcut, end room near, far or absent; 3 moves, 2 requests | `IsWalk` (refinement of `GameSpec`), `Served` |
| `bpred` | five predictors with small programs, see below | `RunIsLearned`, `ReturnsAreKnown`, `BtbIsLru` (refinement of `LruSpec`) |
| `ruu` | six programs, queues of 2, 4 and 8, in-order and out-of-order issue, both orders of the stages | `NeverPanics`, `ReadyIsExact`, `LoadsWaitForStores`, `RetiresTheProgram` (refinement of `IsaSpec`), `Exits` |
| `calibration` | 2 groups, chains of 3 delays, latencies up to 3, every outcome of every search | `SettingsInForce`, `WritesStartFromReserve`, `FailureIsNamed`, `GroupsApart`, `AlwaysReports` |
| `deskew` | 2 pins, chains of 5 delays, every pair of eyes, clean or fringed; every set of mask offsets | `SuccessIsInTheEye`, `EyesAreCentred`, `WidestWindow` |
| `en_phase` | the board's phases and taps, a ring of 4 clocks, windows at every third of a phase | `WindowIsUsed`, `TapsAreOfWholePhases` |
| `tas` | the clocks and the pace of `tb.sv` | `OneWriteEach`, `InStep`, `EveryPacketIsWritten` |
| `en_phase_taps` | as `en_phase` | finding: `TapsAreOfAPhase` is violated |

Several properties state the *weakest* thing the code really guarantees and name the exceptions,
because the exceptions are what the code does:

- `NoSilentLoss`: a message is lost only to a reader that opened its file before it was
  flushed (`torn`), or to a pid that came around again (`NameReused`).
- `OldestFirst`: of what was in the mailbox when the reader's walk began. A message posted during the walk, under a name the walk
  has passed, is not seen, and a later one whose name is still ahead may be sent before it. Two such posts and a reader are three children at once;
  the run has two, the theorem any number.
- `RoundTrip`: what `encrypt()` accepts may be wrong in its last character, and nowhere else, if the file ends with a newline. Without
  one the checks reach one character less, and of messages that are not sound nothing is claimed.
- `StatusIsLastForeground`: the prompt's status is wrong only when the handler reaped the
  command before `waitpid()` or ctrl-Z interrupted the wait, and then it is always "signal 123".
- `ReapedIsTold`: a background job goes unreported only by the erased buffer, because its pid equals an old
  `fg_pid`, or because the `waitpid(-1)` after a failed `fork()` took it.
- `RunAsWritten`: a background command that redirects both its input and its output gets `/dev/null` for both.
- `WaitEnds`: the shell blocks for ever only on a command stopped before `waitpid()` was called.
- `ReturnsAreKnown`: recovery sets the stack to what it was *before* the mis-predicted branch, so that branch's
  own pop or push is undone though it is not squashed; and what a wrong path wrote stays.
- `FailureIsNamed`: a failure that was overcome with the next delay stays on record, and a later one then
  reports the earlier stage (`recovered`).
- `WindowIsUsed`, `EyesAreCentred`: of clean windows that are not empty and that the delays can reach; the
  second leaves every pin within half a tap of the middle, which is as near as whole taps come. With a fringe in which tests differ from one
  time to the next, `SuccessIsInTheEye` still holds, but a window may be missed.
- `TapsAreOfWholePhases`: the taps measured are those of one phase *or of two* (section 6).

### Bounds, and why they are enough

- `otp_cipher`: the three loops treat a character at the start, in the middle and at the
  end; three characters have one of each, and both checks are off by at most two. The
  characters are one of each class that the comparisons, the modulus and `strtok` tell apart.
- `otp_server`: races need two children on one file and a third request before or after;
  2 pids for 3 clients make pids come around and make `fork()` fail. `MaxTime` = 2 tells
  "same second" from "later second"; time passes in the mix with two messages in one mailbox, the only
  one in which the order of times is looked at, and the others begin in the last second. `Limit` = 2 instead of 5 is reached and
  passed; descriptors run out and a child is stopped in the last mix.
- `smallsh`: two jobs are one in the foreground and one in the background, in either
  order, with the second able to reuse the first's pid; with two key presses each handler meets each step,
  and a ctrl-C follows a ctrl-Z or goes before it.
- `buildrooms`: with 4 rooms and least count 2 a row can be full, be filled by others
  before its turn, or be in between; the theorems cover every other size.
- `adventure`: 3 moves reach the end room, pass it by, or come back to a room; 2
  requests make the thread be re-created, with either creation failing.
- `bpred`: `most` bounds the branches fetched. `StackConfig`: a stack of 2 and 6 branches, so that three calls overflow it and
  wrong paths push and pop; `ListConfig`: a set of 4 ways and 5 branches, so that each position of the list is spliced
  and each victim chosen; `CounterConfig`: 3-bit counters, 7 branches, so that one saturates and turns back (4 moves
  decide); `LevelConfigs`: the two-level and combining predictors, whose index moves with the history.
- `ruu`: an RUU of 4, an LSQ and a fetch queue of 2 (8, 4 and 4 where loads pass stores), two instructions wide, fill and wrap round within programs of 5 to 8 instructions. Each program
  is for one hazard: `Aliases` and `Hidden` for loads among stores with late addresses and late values, `Chain` for a
  unit wanted twice, `Stale` for a link of a wrong path whose slot is used again, `Fork` for the create
  vectors after a recovery, `Jumps` for mis-fetches and no-operations. Loads take 1 or 7 cycles, so that results come before and
  after the branches they race with. Programs have no loops, so a run ends and `Exits` can be asked.
- `calibration`: two groups tell "this group" from "the others" and are done one after the other; delays of 0 and 1, a
  reserve of 1 and 3 and `dtaps_per_ptap` = 2 make every loop run once, twice and to its end. The theorems cover every other size.
- `deskew`: two pins are the one with the smallest middle and another; chains of 5 let an eye lie within, across
  and outside what can be reached on either side, and every start of DQS that differs is 0 or not. `SuccessIsInTheEye`
  is proved for every size.
- `en_phase`: phases (8 of 312) and taps (32 of 25) are the board's; a ring of 4 clocks instead of 16 still wraps round and keeps
  a window from meeting itself. Windows are 1900 to 2650 wide, about one clock (2496), as the comments describe.
- `tas`: 25 fast edges for a slow one, bursts of 5 bytes with gaps of 40 edges as in `tb.sv`; 2 words of memory make the
  address wrap. The pace matters: `OneWriteEach` is proved for all paces with `Burst <= 5` and
  `3 * Ratio + 2 < 5 * (Bits + 1) + Gap` (section 4), and with these clocks it holds with gaps of 33 edges and TLC finds it violated with
  32, where a packet ends before the one before it was written. The specification of the interface is not in the repository beyond the
  test bench.

`CHECK_DEADLOCK FALSE` is set where programs end, or a user or a client need do nothing; `calibration` is
checked for deadlock, since the board can always be started again.

### Fairness

- `OtpServer`: weak fairness of the daemon, of its handler and of each child, because the
  operating system schedules a process that can run and delivers a pending signal. With the steps of a child goes its `Continue`,
  because a stopped child that nobody continues is outside the claim: a child either runs or is stopped and continued. Clients need not connect.
- `SmallSh`: weak fairness of the shell's own steps, of signal delivery and of each child; `ReadLine`, `CtrlC` and
  `CtrlZ` belong to the user and have none.
- `Adventure`: weak fairness of the two threads; the player has none. The mutex is only contended when
  the other side is joined or blocked, so strong fairness is not needed.
- `Ruu`: weak fairness of the next step: one thread runs the loop.
- `Calibration`: weak fairness of the sequencer's steps, for the same reason; `Again` has none.
- `Tas`: weak fairness of both clocks: they do not stop. Nothing is assumed of the satellite.
- `OtpCipher`, `BuildRooms` and `BPred` have safety properties only, and no fairness. `EnPhase` and `Deskew` are sequential; their
  specifications have weak fairness of the next step, on which no property relies.

## 4. What is proved

`OtpProofs`, on the daemon (for every set of clients, users, pids, every mix of requests and every limit):

- `TypeCorrect` (`TypeOK`), `MailboxesArePrivate` (`OnlyOwnMessages`). The invariant that is inductive is
  `OwnInv`: types, plus `ChildTyped` (a child in a GET or POST step serves such a request, and the
  file it holds open belongs to its user) and `MailboxOwned` (a name in a user's directory
  leads to an inode of that user, whose content was posted for that user). Without
  them the step `GetRead` could send anything. The assumption used is that a client's name is not one of the
  daemon's three fixed answers.
- `CountIsAnUpperBound` (`CountNeverUnder`): `process_count`, plus the one being counted, plus the stops
  mistaken for ends, is never below the number of children not reaped. Inductive with
  `CountInv`: between load and store the loaded value is at least the count, since the handler only
  decrements. This is why the lost update never lets the count run low.
- `NoMessageIsLost` (`NoSilentLoss`) and `OldestIsFirst` (`OldestFirst`), from `LossInv`. A file's name is a user and a pid, so what can come
  between a message and its reader is a post that is given the same name, or a reader that opened the file before `fclose()` wrote
  it. `Traced` says of each name, open file, content and chosen pid which post it goes back to; with it a message whose name is its own
  (`Unique`) is the only thing found under that name. `Kept` follows such a message: in its directory, then sent or torn.
  `Walked` is about a reader in the middle of `ftw()`: what was there when the walk began and still waits is either still ahead of
  it or was changed no earlier than the second `least` that it has found, and what it has chosen was begun no later than that second.
  `Ordered` carries that from the end of the walk to the reply, past the removals and the reuse of names by others.

`OtpProofs`, on the cipher (for every line and key, and every value of the uninitialised `numeric`):

- `SoundMessagesAreStored` (`SoundIsStored`) and `MessagesSurvive` (`RoundTrip`), from `CipherInv`, which follows the message from loop to
  loop. `Sure` is how many of its characters are sure to survive, all or all but the last; `Passed` is what the two checks leave for the
  loops after them, `Encrypted(m)` what the first `m` characters of the ciphertext are, and `Storing` and `Decrypting` carry that
  through the daemon and back. `Encrypted` also bounds the doubtful last character, since `strtok` would cut the text at a comma
  there, and nowhere before (`OneField`, `TokenEnds`). That decryption undoes encryption modulo 27 with C's `%` is `CharRoundTrip`; that
  the newline at the end of a short key is a key character that still gives a printable one is `NewLineAsKey`.

`SmallShProofs` (for every set of command lines, pids and exit codes, and any number of jobs and keys):

- `TypeCorrect` (`TypeOK`), `StatusIsOfLastForeground` (`StatusIsLastForeground`), `KeysSpareBackgroundJobs` (`KeysSpareBackground`) and
  `ReapedJobsAreTold` (`ReapedIsTold`), from one invariant. `Books` says that each process that is not reaped is one job's, in the background
  if that job is, and that a job's end is recorded exactly when its process has ended. `Waiting` says what the shell
  knows between `fork()` and the status: while it is to wait, the process is there or the handler has reaped it; after the wait the
  result is the job's, or there is none for one of the two reasons that `StatusIsLastForeground` names.
  Every background child that executes a program is a leader, which is what keeps the keys from it.
- `CommandsRunAsWritten` (`RunAsWritten`): what is run is the line as written, up to the arguments the shell takes for itself and to the
  case of both redirections in the background.

`AdventureProofs` (for every directory of rooms, with any number of moves and requests):

- `AdventureIsAWalk` (`IsWalk`, `Spec => Game!Spec`): every step of either thread is a step of `GameSpec` or leaves its variables alone. The
  invariant says that the table is the directory and one room holds the player (`Board`), and at each point of the two threads who has
  the mutex and whether a request is not yet answered (`Turns`): one is owed exactly while the main thread waits for a thread that has not told the time. The constant
  `Nobody`, which stands for a player who is nowhere yet, must not be a room (`NobodyAssumption`).

`BuildRoomsProofs` (for every `N > 1` and every `Least` in `1..N-1`; the C has 7 and 3):

- `TypeCorrect`, `AssertionHolds` (the `assert` of line 234), `RowsAreSound`, `RowsSuffice`, from `RowInv` = types,
  `NoSelfNoDupes`, `LeftPacked` (rows fill from the left up to their count), `Progress` (rooms before the
  one in hand are complete; the candidates are exactly the rooms not yet in the row) and `NeverAborts`.
  Two pigeonhole lemmas carry it: a row with a free slot leaves a candidate (`OptionsLeft`), and a row without
  one leads to every other room, so the search finds its way back before the end
  (`FullRowLeadsEverywhere`).
- `WaysLeadBack` (`TwoWay`) from `WayInv` = `RowInv` and `TwoWay`.
- `ConnectionCounts` and `EndIsNear` (`EnoughConnections`, `TwoMovesApart`) from `FileInv`, which adds that the files
  agree with the tables: two sets of more than half of the other rooms share one, so
  any two rooms are at most two moves apart.

`CalibrationProofs` (for every number of groups, length of the chains, latency and set of choices): `CalibratedSettingsInForce` (`SettingsInForce`),
`WritesBeginFromReserve` (`WritesStartFromReserve`), `CalibrationGroupsApart` (`GroupsApart`), `FailureNamesItsStage` (`FailureIsNamed`) and `LatencyInUseHasMargin`.
The invariant has two parts. `Wires` says that between two steps nothing waits to be loaded, that the chains, and the pins of
the group in hand, hold what is written, and that finished groups have what was chosen: without the part about the shared
registers, a load for the next group might carry the last one's delays. `Reports` ties the error record and the registers to how far
the calibration has come. `UpdLoads` and a lemma for each operation on a chain say once what a load changes.

`DeskewProofs` (for every finite set of pins, length of the chains, eyes, fringes and outcomes of tests): `CentreIsInTheEye` (`SuccessIsInTheEye`).
The invariant `Inv` says of each edge what side of the eye it bounds, or what a sentinel means at each point of a sweep, and
that every recorded window of the mask passes throughout. That the smallest middle exists is proved from the well-foundedness of the
naturals (`LeastExists`); the rest is linear arithmetic with the rounding of C's division (`Half`).

- `WindowIsWidest` (`WidestWindow`) from `Measured` and `Best`. `Measured`: no window passed so far is wider than the best, and the current one
  is the whole of what passed last; that has to survive the turn from the mask's own delays to those of DQS. `Best`: `win_best` is the
  width of the window from `bgn_best` to `end_best`, its ends are within reach, and after a success the mask is at its middle.
- `CleanEyesAreCentred` (`EyesAreCentred`) from `EyeInv`: for clean eyes the tests have one outcome, so after each step of a sweep the two
  edges of each pin are known exactly as functions of the eye and of the delay reached (`ExactLeft`, `ExactBetween`, `ExactRight`). At the
  end they are the eye (`ExactEdges`), and the shifts against the smallest middle never clamp. An empty eye is excluded: it
  has no middle that a sweep could find.

`HardwareProofs`, on the averaging system:

- `PacketsStayInStep` (`InStep`), for every ratio of the clocks and every pace, inductive with the ranges of the two counters.
- `OneWritePerPacket` (`OneWriteEach`), for every ratio, length of a byte and pace with `Paced`. `Handshake` names the five stages of the
  crossing: at rest, flag raised, seen by one register, by two, and the answer being taken back, during which the
  next flag may already rise. In each stage in which a packet is pending, `Since` bounds from above the fast edges since it was
  complete, by the ticks of the slow clock; `Within` bounds them from below, by the bytes and bits that came after it and the pause
  the satellite must have made once its bytes are spent. `Paced` keeps the two apart, so that no packet ends before the write. The bound is
  sharp at the clocks of the test bench.

`HardwareProofs`, on the branch predictor (for every class of predictor, size of table, set, stack and queue, and every program):

- `PredictorTyped` (`TypeOK`) and `ListsHaveTwoEnds` (the asserts of `bpred.c:919-931`) from `PredInv`: types; `Entries`, what a
  branch between its fetch and its commit carries; and `BtbInv`. For each set `Ordered` gives an order of all its ways which the links
  follow in both directions, those that hold a branch first and each branch once. `SplicedOrder` says that the pointer surgery brings one
  way to the front of that order and changes nothing else of it (`Fronted`). `Holds` says that a direct branch's
  destination is its own, without which a misfetch would not be the only way out of a wrong one.
- `CountersLearn` (`RunIsLearned`) from `Learned`: a counter is at least as far from its end as it was moved in a row.
- `WrongPathsAreKnown` (`Paths`): while a wrong path is fetched or executed, exactly one branch in the queues will end it:
  mispredicted among the fetched ones before dispatch, marked `recover_inst` after.
- `ReturnsKnown` (`ReturnsAreKnown`) from `StackInv`. `Good(t)` says that the slots below the top `t` hold the open calls, innermost
  first, but those overwritten or pushed out; `Tops` says so of the top now on the right path, and otherwise of the top that the
  recovery to come puts back, which the marked branch carries.
- `BtbImplementsLru` (`BtbIsLru`, `Spec => Lru!Spec`). The refinement mapping follows the links from the head (`Chain`); the
  equation that defines it has one solution, by the least place at which two could differ (`ChainIs`), so it reads the order that
  `BtbInv` has (`RecentIs`). The commit of a taken branch is then `Lru!Use` (`ComesIsUse`), every other step a stutter.

`RuuProofs` (for every program, prediction, size of the queues, width, set of units and latency):

- `NothingPanics` (`NeverPanics`): none of the `panic()` calls of the core is reached, and RUU and LSQ are rings whose counts agree with
  their ends. The invariant `Inv` has two halves. `Good` is about references, of which the code has four kinds: links, nodes of the ready queue and of
  the old one, events, and the entries of the create vectors. The first three may be stale; what is common to them (`Refers`, `Once`) is that a tag
  never runs ahead of its slot's, that one which is current leads to an instruction in flight, and that no two current ones do the same.
  `Wires`, `NodeList`, `EventList` add what the instruction at the other end is like: it waits for this operand, it is queued, it is issued
  and not completed; and `Progress` which of these states exclude each other. `Holders` and `Creators` say that what hangs on an instruction, and what a
  create vector names, is still to have its result, which is why no result comes twice.
  `Steady` is about the two rings: LSQ holds as many entries as RUU holds accesses, and the same of the wrong path; a mispredicted branch is
  pending exactly while the simulator is in its speculative mode, there is one, and what is younger than it, in either ring, is speculative. So
  `ruu_recover()`, which walks back from both tails, stops at the branch with both rings in step (`SquashesWhatIsWrong`).
- `CommitsTheProgram` (`RetiresTheProgram`, `Spec => Arch!Spec`): what commits is the program, whatever was predicted, and `exit()` is
  called when all before it has committed. `OnPath` strengthens `Inv` by the path: from the last instruction retired, the instructions in
  RUU that are not speculative are each the one after the one before (`Leads`, past no-operations, which take no station), and the youngest goes
  on at the `Target`: `recover_PC` in speculative mode, else the front of the fetch queue, or the address to fetch next when
  that is empty; `Chained` says that in the fetch queue each address is what was predicted before it. One lemma says what each change of the ring makes of the path:
  `RetiresHead`, `FollowsJoined`, and `FollowsSquashed`, which needs `SquashesWhatIsWrong`; `FrontAfter` says that however a dispatch finds the
  prediction (right, wrong, or wrong and seen so while decoding) the target is where the instruction went. Only a commit and `exit` are seen by
  `IsaSpec`: they are its `Retire` and its `Exit`, and every other step is a stutter (`StepIsSeen`). That `Past` of
  `IsaSpec`, recursive, has a solution is `PastIs`.
- The loops over links and over LSQ are recursive functions; a step of the loop preserves `Good` (`WokenIs`, `Refreshed`), and the theorem about the loop
  follows by the least index at which it would not. Both theorems rest on `RuuAssumption`, which says of programs: a store names no register to
  write (the instruction set is a file outside the repository; the panic of `sim-outorder.c:2630` says that it has no other stores); there is an
  instruction at the entry; an instruction other than `exit()` goes to one of the program; and `Bogus`, and the address after it, are not
  the program's.

Only model-checked, and why:

- Liveness (`Answered`, `ZombiesReaped`, `WaitEnds`, `Served`, `Exits`, `AlwaysReports`, `EveryPacketIsWritten`): fairness and `ENABLED` are beyond
  the prover.
- `ReadyIsExact` and `LoadsWaitForStores` of `Ruu`: `Inv` says that whatever a list refers to is in flight and waits, and
  for that it need not know which writer of a register is the latest. These two need that, and the order of `seq` along the rings.
- `WindowIsUsed`, `TapsAreOfWholePhases` of `EnPhase`: positions on a ring, products of phases and taps modulo the clock, that is,
  arithmetic with products of variables, which the SMT solver does not decide; they are checked with the board's own numbers.

## 5. What is abstracted

- `OtpServer`: one `send` is one step; a reply is the first thing sent, since `otp.c` reads
  once; the directory exists or is made without failing. A `readdir()` and the `stat()` of its entry are one step: a name that goes
  between them is not counted, as one that had gone before, and a directory read in blocks misses what comes after the block was read, as
  a walk does that came to that name earlier.
- `OtpCipher`: sockets and partial reads; the file is one line.
- `SmallSh`: `SIGCONT` and `kill`, what `cd` does, `$$`, end of input, text of the messages (and so the
  512 characters of their buffer), the undefined parse of an empty line.
- `BuildRooms`: names of rooms, `mkdir`/`fopen` failing.
- `Adventure`: which directory is the newest, end of input, the 256 characters of
  `pathTakenStr` (the moves are bounded instead).
- `BPred`: instructions that are not branches, caches and timing (any branch may follow any other), the xor option, the
  static predictors, a return stack of size 0, updates at dispatch or writeback (the default is commit), statistics. An address counts
  instructions, and the upper bits in the hash of the counter table are 0.
- `Ruu`: values, the tracer's speculative copies of registers and memory, cache and TLB contents (a latency is any of a set), statistics,
  pipetrace, DLite. One class of latencies per unit, one `Width` for all stages, and one cycle for a load that a store forwards to;
  `MAX_STD_UNKNOWNS` and the event and link pools are never exhausted.
- `Calibration`: the instructions sent to the memory (initialisation, patterns, precharge, refresh), one rank, the debugger's
  report. A search is one step with any outcome; what it leaves behind is what the code's last writes leave. `scc_mgr_initialize()`, which clears
  the register file of the scan chain manager, is left out: a second calibration starts from older registers than the code's.
- `EnPhase`: the position of a window does not move while it is looked for; every test at one position inside the clean part agrees.
- `Deskew`: one length for all chains; no moving of the DQS enable with DQS (`IO_SHIFT_DQS_EN_WHEN_SHIFT_DQS` is 0);
  what the mask tests report is fixed, while those of the pins may differ each time in the fringe.
- `Tas`: temperatures and the bits of a byte; reset comes only at the start; a register that samples a changing level gets the old or
  the new value, which the free order of the two clocks' edges gives.

## 6. Findings and known divergences

One disagreement between the code and its text is checked by a run:

1. `sequencer.c:4484`: to measure the taps of a phase, the search backs up a phase; where it stands at phase 1, phase 0 cannot
   be used, it backs up two, and stores the taps of two phases (about 25 instead of 12) as `dtaps_per_ptap`, against the comment of
   lines 4475-4476. The tracking is told that number, through the register of line 4543; the loop over `d` of
   `rw_mgr_mem_calibrate_vfifo()` counts its own (5774-5783) and is not affected (`TapsAreOfAPhase`).

Others have no run. Where a property is named it is defined in the module, and TLC finds it
violated when it is added to the run's `.cfg`:

- `otp_d.c:272` waits for `child_pid[...]`, which is never assigned, so the limit the comment on line 278 describes is not kept.
- `otp_d.c:223` finds the oldest file of those its walk came to; an older one may have come behind it (`OldestFirst`).
- `smallsh.c:391-400` sends a background command with both redirections to `/dev/null`, although the comment on line 385 says that it does so
  when none was given (`RunAsWritten` names it).
- `smallsh.c:157` clears the message buffer after printing it, with SIGCHLD enabled between, so a message the comment on line 31
  says is written may be erased (`NoMessageErased`).
- `smallsh.c:349` consults the foreground-only flag only for lines without redirection, though line 97 tells the user that `&`
  is now ignored (`ForegroundOnly`).
- `mores.buildrooms.c:152` leaves the loop when the end room is drawn where the start room is, so some maps have no
  end room, against the comment on line 121 (`OneEndRoom`).
- `bpred.c:1047` decides whether to replace a destination by the prediction made at fetch, before older instances of the branch
  committed, so an entry need not hold the "last destination of branch when taken" of `bpred.h:115` (`TargetIsLast`).
- `sequencer.c:5938` says that DQS goes back to the reserve value before the deskew; after a deskew that had failed it goes back to what
  it was when the sweep began, which may be something else (`DeskewFromReserve`).
- `sequencer.c:594` keeps the first failure, also when the next delay overcomes it: a later failure is then reported under the
  earlier stage. `error_group` receives the number of a pin from the centring and that of a group elsewhere.
- `sequencer.c:6206` adds 2 to the latency after the loop has taken 1 off, so the one in use may be one more than the largest that
  `mem_config()` allows.
- A packet that is not of temperatures also clocks `packet_avg_temp` at its end (`tas.sv:209`); at the pace of the test bench the
  average before it has been written by then. `acc_done` and the reset of the accumulator are a race in simulation.

## 7. Not modelled, and the plan

Not modelled:

- `sequencer.c`: `wlevel` and `mem_skip_calibrate` (not compiled or not called in this configuration), margin reports,
  `user_init_cal_req` (not called), self-tests, the loading of instruction memories. `sequencer.pre.c` beside it is the same text.
- `tclrpt.c` and the headers of the handoff directory: reports for a debugger and generated constants.
- The GCD engine: one clock, and the assertions beside it in the repository cover its control. The small RTL blocks: combinational, or
  shift registers their test benches enumerate. The robot: polling loops and delays in assembly.
- Scripts, image processing and the table editor: data in, data out.
- In the modelled parts, what section 5 lists.

What could come next: `ReadyIsExact` of `Ruu` as a theorem (beyond `Inv` of `RuuProofs` it must say that the
links are exactly the operands that wait, and that a create vector names the latest writer); `WindowIsUsed` of `EnPhase` for clean
windows and one size of the clock; the memory's side of the sequencer (initialisation and patterns) and the GCD engine.

--------------------------------- MODULE Ruu ---------------------------------
(***************************************************************************)
(* The out-of-order core of sim-outorder.c: the register update unit, the  *)
(* load/store queue, the links by which a result wakes what waits for it,  *)
(* and the stages that sim_main() calls every cycle, last stage first.     *)
(* What an instruction computes is left out: where a branch goes and which *)
(* address is accessed are any of those its instruction lists.             *)
(* bpred.c is a choice here (BPred has it), and so are the caches.         *)
(***************************************************************************)
EXTENDS Integers, Sequences, FiniteSets, FiniteSetsExt, SequencesExt

CONSTANTS FuPool,              \* from a unit to its classes, and of each its latencies
          LoadLats, MissLats,  \* latencies of the data cache, of a miss when fetching
          BlockSize,           \* instructions in a block of the I-cache
          Simulations,         \* programs, each with the simulator's options
          NA, Bogus            \* no register; an address outside the program

PowersOfTwo == {2^k : k \in 0..10}
Operations == {"alu", "mul", "load", "store", "cond", "jump", "ijump", "nop", "trap", "exit"}
DTMP == "DTMP"         \* takes the address from the RUU half of an access to its LSQ half
ASSUME RuuAssumption ==
    /\ LoadLats \cup MissLats \cup {BlockSize} \subseteq Nat \ {0} /\ 1 \notin MissLats
    /\ \A u \in DOMAIN FuPool : \A class \in DOMAIN FuPool[u] :
          {FuPool[u][class].oplat, FuPool[u][class].issuelat} \subseteq Nat \ {0}
    /\ PowersOfTwo \subseteq Nat \ {0} /\ NA # DTMP
    /\ \A s \in Simulations :
          /\ {s.opt.RUU_size, s.opt.LSQ_size} \subseteq PowersOfTwo \ {1}
          /\ s.opt.ifq_size \in PowersOfTwo
          /\ {s.opt.width, s.opt.penalty} \subseteq Nat \ {0}
          /\ {s.opt.inorder, s.opt.include_spec, s.opt.bugcompat, s.opt.perfect} \subseteq BOOLEAN
          /\ s.program \in Seq(Range(s.program)) \ {<<>>}
          /\ {Bogus, Bogus + 1} \cap DOMAIN s.program = {}
          /\ \A pc \in DOMAIN s.program :
                LET i == s.program[pc]
                IN  /\ i.op \in Operations /\ DOMAIN i.out = 1..2 /\ DOMAIN i.in = 1..3
                    /\ i.op = "store" => i.out = <<NA, NA>>
                    /\ i.op # "exit" => i.next \subseteq DOMAIN s.program

VARIABLES
    opt, program,
    st,                        \* the stations of RUU and of LSQ
    RUU, LSQ,                  \* head, tail and num of each
    ready_queue, work,         \* the ready queue, and the old one ruu_issue() goes through
    event_queue,               \* results to come, each with the cycles until it is due
    create_vector,
    spec_create_vector,        \* Unset where the bit of use_spec_cv is clear
    busy,                      \* of each unit, cycles until it is free
    spec_mode, recover_PC,
    last_op, inst_seq,
    fetch_data, fetch_pred_PC, ruu_fetch_issue_delay,
    filled,                    \* the block the I-cache got last
    stage, n,                  \* what sim_main() runs, and its loop counter
    panic,                     \* the message the simulator died of
    retired                    \* history: PC of the last commit, and where it went
queues == <<ready_queue, work, event_queue>>
rename == <<create_vector, spec_create_vector>>
front == <<fetch_data, fetch_pred_PC, ruu_fetch_issue_delay, filled>>
fixed == <<opt, program>>
vars == <<fixed, st, RUU, LSQ, queues, rename, busy, spec_mode, recover_PC, last_op,
          inst_seq, front, stage, n, panic, retired>>
-----------------------------------------------------------------------------
(* Options and stations *)

RUU_size == opt.RUU_size
LSQ_size == opt.LSQ_size
ruu_ifq_size == opt.ifq_size
ruu_branch_penalty == opt.penalty
Width == opt.width         \* of decode, of issue and of commit

R(i) == <<"RUU", i>>
L(i) == <<"LSQ", i>>
Slots == {R(i) : i \in 0..RUU_size - 1} \cup {L(i) : i \in 0..LSQ_size - 1}
in_LSQ(x) == x[1] = "LSQ"
Arch == INSTANCE IsaSpec WITH Start <- 1, did <- retired.did,
                              at <- retired.at, exited <- stage = "exit"
Registers == {DTMP} \cup
    ((UNION {Range(i.out) \cup Range(i.in) : i \in UNION {Range(s.program) : s \in Simulations}})
     \ {NA})

Branches == {"cond", "jump", "ijump"}          \* F_CTRL
Direct == {"cond", "jump"}                     \* F_DIRJMP
Memory == {"load", "store"}
Blank == [op |-> "nop", PC |-> Bogus, next_PC |-> Bogus, ea_comp |-> FALSE,
          recover_inst |-> FALSE, spec_mode |-> FALSE, addr |-> 0, tag |-> 0, seq |-> 0,
          queued |-> FALSE, issued |-> FALSE, completed |-> FALSE,
          idep_ready |-> [k \in 0..2 |-> FALSE],
          onames |-> <<NA, NA>>, odep_list |-> <<<<>>, <<>>>>]

OPERANDS_READY(s) == \A k \in 0..2 : s.idep_ready[k]
STORE_ADDR_READY(s) == s.idep_ready[1]

\* A reference holds only as long as its slot keeps the tag.
RSLINK(stations, x) == [slot |-> x, tag |-> stations[x].tag]
\* Seeded fault: the tag is not looked at.
RSLINK_VALID_Always(stations, l) == TRUE
RSLINK_VALID(stations, l) == l.tag = stations[l.slot].tag

\* Entries of the create vectors: a slot and which of its outputs.
Unset == <<"unset">>
NoCreator == <<>>
CREATE_VECTOR(D, r) == IF D.scv[r] # Unset THEN D.scv[r] ELSE D.cv[r]

\* Put e before the first of the places K of q, or last.
InsertBefore(q, e, K) == IF K = {} THEN Append(q, e) ELSE InsertAt(q, Min(K), e)

\* Loads, stores, long operations and branches first, the others by age.
readyq_enqueue(S, x) ==
    LET s == S.st[x]
        first == in_LSQ(x) \/ s.op \in {"mul"} \cup Branches
    IN  IF s.queued THEN [S EXCEPT !.panic = "node is already queued"]
        ELSE [S EXCEPT !.st[x].queued = TRUE,
                       !.queue = InsertBefore(@, [slot |-> x, tag |-> s.tag, seq |-> s.seq],
                                    {j \in DOMAIN @ : first \/ @[j].seq >= s.seq})]

eventq_queue_event(x, lat) ==
    InsertBefore(event_queue, [slot |-> x, tag |-> st[x].tag, due |-> lat],
                 {j \in DOMAIN event_queue : event_queue[j].due >= lat})

Init ==
    /\ \E s \in Simulations : opt = s.opt /\ program = s.program
    /\ st = [x \in Slots |-> Blank]
    /\ RUU = [head |-> 0, tail |-> 0, num |-> 0] /\ LSQ = RUU
    /\ ready_queue = <<>> /\ work = <<>> /\ event_queue = <<>>
    /\ create_vector = [r \in Registers |-> NoCreator]
    /\ spec_create_vector = [r \in Registers |-> Unset]
    /\ busy = [u \in DOMAIN FuPool |-> 0]
    /\ spec_mode = FALSE /\ recover_PC = Bogus
    /\ last_op = <<>> /\ inst_seq = 0
    /\ fetch_data = <<>> /\ fetch_pred_PC = 1 /\ ruu_fetch_issue_delay = 0 /\ filled = Bogus
    /\ stage = "commit" /\ n = 0 /\ panic = "none"
    /\ retired = [did |-> Bogus, at |-> 1]

\* The order of sim_main().
Stages == IF opt.bugcompat
          THEN <<"commit", "release", "writeback", "dispatch", "refresh", "issue", "fetch">>
          ELSE <<"commit", "release", "writeback", "refresh", "issue", "dispatch", "fetch">>
NextStage ==
    LET k == CHOOSE i \in 1..7 : Stages[i] = stage
    IN  stage' = Stages[(k % 7) + 1] /\ n' = 0
In(s) == stage = s /\ panic = "none"
Again == n' = n + 1 /\ UNCHANGED stage

Next1(i, size) == (i + 1) % size
Younger(i, j, size) == (j + size - 1 - i) % size    \* entries after i, up to tail j
Advance(q, size) == [q EXCEPT !.tail = Next1(@, size), !.num = @ + 1]
Retreat(q, size) == [q EXCEPT !.head = Next1(@, size), !.num = @ - 1]
-----------------------------------------------------------------------------
(* ruu_commit(), ruu_release_fu() *)

FuClass(op) == CASE op \in {"alu", "agen"} \cup Branches -> "ialu"
                 [] op = "mul" -> "imult"
                 [] op = "load" -> "rdport"
                 [] op = "store" -> "wrport"
                 [] op \in {"trap", "exit", "nop"} -> "none"
res_get(class) == {u \in DOMAIN FuPool : class \in DOMAIN FuPool[u] /\ busy[u] = 0}

Oldest == st[R(RUU.head)]
OldestAccess == st[L(LSQ.head)]
CanCommit ==
    /\ RUU.num > 0 /\ n < Width /\ Oldest.completed
    /\ Oldest.ea_comp => /\ OldestAccess.completed
                         /\ OldestAccess.op = "store" => res_get("wrport") # {}

ruu_commit ==
    /\ In("commit") /\ CanCommit
    /\ LET x == R(RUU.head)
           y == L(LSQ.head)
           ea == Oldest.ea_comp
       IN  /\ st' = [z \in Slots |->
                        IF z = x \/ (ea /\ z = y) THEN [st[z] EXCEPT !.tag = @ + 1] ELSE st[z]]
           /\ RUU' = Retreat(RUU, RUU_size)
           /\ LSQ' = IF ea THEN Retreat(LSQ, LSQ_size) ELSE LSQ
           /\ IF ea /\ OldestAccess.op = "store"
              THEN \E u \in res_get("wrport") :
                      busy' = [busy EXCEPT ![u] = FuPool[u]["wrport"].issuelat]
              ELSE UNCHANGED busy
           /\ panic' = CASE ea /\ LSQ.num = 0 -> "RUU out of sync with LSQ"
                         [] \E i \in 1..2 : Oldest.odep_list[i] # <<>> ->
                               "retired instruction has odeps"
                         [] OTHER -> panic
           /\ retired' = [did |-> Oldest.PC, at |-> Oldest.next_PC]
    /\ Again
    /\ UNCHANGED <<fixed, queues, rename, spec_mode, recover_PC, last_op, inst_seq, front>>

commit_end ==
    /\ In("commit") /\ ~CanCommit /\ NextStage
    /\ UNCHANGED <<fixed, st, RUU, LSQ, queues, rename, busy, spec_mode, recover_PC,
                   last_op, inst_seq, front, panic, retired>>

ruu_release_fu ==
    /\ In("release") /\ NextStage
    /\ busy' = [u \in DOMAIN busy |-> IF busy[u] > 0 THEN busy[u] - 1 ELSE 0]
    /\ UNCHANGED <<fixed, st, RUU, LSQ, queues, rename, spec_mode, recover_PC, last_op,
                   inst_seq, front, panic, retired>>
-----------------------------------------------------------------------------
(* ruu_writeback() with ruu_recover() and tracer_recover() *)

Due == event_queue # <<>> /\ Head(event_queue).due <= 0

\* The result reaches the operand that waits at the other end of the link.
Wake(S, l) ==
    LET x == l.slot
        s == [S.st[x] EXCEPT !.idep_ready[l.opnum] = TRUE]
        T == [S EXCEPT !.st[x] = s]
    IN  CASE ~RSLINK_VALID(S.st, l) -> S
          [] RSLINK_VALID(S.st, l) /\ S.st[x].idep_ready[l.opnum] ->
                [S EXCEPT !.panic = "output dependence already satisfied"]
          [] OTHER -> IF OPERANDS_READY(s) /\ s.op # "load" THEN readyq_enqueue(T, x) ELSE T

\* The loop over the links of all outputs.
WakeAll(S, links) ==
    LET after[k \in 0..Len(links)] == IF k = 0 THEN S ELSE Wake(after[k - 1], links[k])
    IN  after[Len(links)]

Squash(s) == [s EXCEPT !.tag = @ + 1, !.odep_list = <<<<>>, <<>>>>]

\* What ruu_recover() leaves of the stations when the branch in slot x was mis-predicted.
Wrong(x) == {R((x[2] + k) % RUU_size) : k \in 1..Younger(x[2], RUU.tail, RUU_size)}
WrongAccesses(x) == Cardinality({y \in Wrong(x) : st[y].ea_comp})
Squashed(x) ==
    Wrong(x) \cup {L((LSQ.tail + LSQ_size - k) % LSQ_size) : k \in 1..WrongAccesses(x)}
\* Seeded fault: the bits of use_spec_cv stay set.
Recovered_Vector_Kept == spec_create_vector
Recovered_Vector == [r \in Registers |-> Unset]

\* The entry of a create vector goes when its creator has written the register.
Written(vector, x) ==
    [r \in DOMAIN vector |-> IF vector[r] \in {<<x, i>> : i \in 1..2} THEN NoCreator
                             ELSE vector[r]]

tracer_recover ==
    /\ spec_mode' = FALSE
    /\ fetch_data' = <<>> /\ fetch_pred_PC' = recover_PC
    /\ ruu_fetch_issue_delay' = ruu_branch_penalty
    /\ UNCHANGED filled

ruu_writeback ==
    /\ In("writeback") /\ Due
    /\ RSLINK_VALID(st, Head(event_queue))
    /\ LET x == Head(event_queue).slot
           s == st[x]
           gone == IF s.recover_inst THEN Squashed(x) ELSE {}
           links == s.odep_list[1] \o s.odep_list[2]
           st1 == [y \in Slots |-> CASE y \in gone -> Squash(st[y])
                                     [] y = x -> [s EXCEPT !.completed = TRUE,
                                                           !.odep_list = <<<<>>, <<>>>>]
                                     [] OTHER -> st[y]]
           S == WakeAll([st |-> st1, queue |-> ready_queue, panic |-> panic], links)
           scv == IF s.recover_inst THEN Recovered_Vector ELSE spec_create_vector
       IN  /\ st' = S.st /\ ready_queue' = S.queue
           /\ panic' = CASE ~OPERANDS_READY(s) \/ s.queued \/ ~s.issued \/ s.completed ->
                               "inst completed and !ready, !issued, or completed"
                         [] s.recover_inst /\ in_LSQ(x) -> "mis-predicted load or store?!?!?"
                         [] s.recover_inst /\ R(RUU.head) \in Wrong(x) ->
                               "RUU head and tail broken"
                         [] s.recover_inst /\ WrongAccesses(x) > LSQ.num ->
                               "RUU and LSQ out of sync"
                         [] s.recover_inst /\ ~spec_mode ->
                               "cannot recover unless in speculative mode"
                         [] OTHER -> S.panic
           /\ create_vector' = IF s.spec_mode THEN create_vector ELSE Written(create_vector, x)
           /\ spec_create_vector' = IF s.spec_mode THEN Written(scv, x) ELSE scv
           /\ IF s.recover_inst
              THEN /\ RUU' = [RUU EXCEPT !.tail = Next1(x[2], RUU_size),
                                         !.num = @ - Cardinality(Wrong(x))]
                   /\ LSQ' = [LSQ EXCEPT !.tail = (@ + LSQ_size - WrongAccesses(x)) % LSQ_size,
                                         !.num = @ - WrongAccesses(x)]
                   /\ tracer_recover
              ELSE UNCHANGED <<RUU, LSQ, spec_mode, front>>
    /\ event_queue' = Tail(event_queue)
    /\ UNCHANGED <<fixed, work, busy, recover_PC, last_op, inst_seq, stage, n, retired>>

\* The instruction was squashed meanwhile.
stale_event ==
    /\ In("writeback") /\ Due
    /\ ~RSLINK_VALID(st, Head(event_queue))
    /\ event_queue' = Tail(event_queue)
    /\ UNCHANGED <<fixed, st, RUU, LSQ, ready_queue, work, rename, busy, spec_mode,
                   recover_PC, last_op, inst_seq, front, stage, n, panic, retired>>

writeback_end ==
    /\ In("writeback") /\ ~Due /\ NextStage
    /\ UNCHANGED <<fixed, st, RUU, LSQ, queues, rename, busy, spec_mode, recover_PC,
                   last_op, inst_seq, front, panic, retired>>
-----------------------------------------------------------------------------
(* lsq_refresh() *)

\* One entry of the LSQ, oldest first.  unknown: addresses stored to with data to come.
\* Seeded fault: an address not yet computed does not end the search.
RefreshOne_NoStop(S, y) ==
    LET s == S.st[y]
    IN  CASE s.op = "store" -> S
          [] s.op = "load" /\ OPERANDS_READY(s) /\ ~s.queued /\ ~s.issued /\ ~s.completed
                /\ s.addr \notin S.unknown -> readyq_enqueue(S, y)
          [] OTHER -> S
RefreshOne(S, y) ==
    LET s == S.st[y]
        Cleared == {IF a = s.addr THEN 0 ELSE a : a \in S.unknown}
    IN  CASE S.stop -> S
          [] ~S.stop /\ s.op = "store" ->
                IF ~STORE_ADDR_READY(s) THEN [S EXCEPT !.stop = TRUE]
                ELSE [S EXCEPT !.unknown = IF OPERANDS_READY(s) THEN Cleared
                                           ELSE @ \cup {s.addr}]
          [] ~S.stop /\ s.op = "load" ->
                IF OPERANDS_READY(s) /\ ~s.queued /\ ~s.issued /\ ~s.completed
                      /\ s.addr \notin S.unknown
                THEN readyq_enqueue(S, y) ELSE S

\* The scan of LSQ, oldest first.
RefreshAll(S) ==
    LET after[k \in 0..LSQ.num] ==
            IF k = 0 THEN S ELSE RefreshOne(after[k - 1], L((LSQ.head + k - 1) % LSQ_size))
    IN  after[LSQ.num]

\* ruu_issue() then takes the ready queue over.
lsq_refresh ==
    /\ In("refresh")
    /\ LET S == RefreshAll([st |-> st, queue |-> ready_queue, panic |-> panic,
                            unknown |-> {}, stop |-> FALSE])
       IN  st' = S.st /\ work' = S.queue /\ panic' = S.panic
    /\ ready_queue' = <<>>
    /\ NextStage
    /\ UNCHANGED <<fixed, RUU, LSQ, event_queue, rename, busy, spec_mode, recover_PC,
                   last_op, inst_seq, front, retired>>
-----------------------------------------------------------------------------
(* ruu_issue() *)

Node == Head(work)
NodeValid == RSLINK_VALID(st, Node)
Issuing == In("issue") /\ work # <<>> /\ NodeValid /\ n < Width
IssuePanic == LET s == st[Node.slot]
              IN  IF ~OPERANDS_READY(s) \/ ~s.queued \/ s.issued \/ s.completed
                  THEN "issued inst !ready, issued, or completed" ELSE panic
NextNode ==
    /\ work' = Tail(work)
    /\ UNCHANGED <<fixed, RUU, LSQ, rename, spec_mode, recover_PC, last_op, inst_seq, front,
                   retired>>

\* A store has nothing to execute: its value waits in the LSQ for the commit.
issue_store ==
    /\ Issuing /\ st[Node.slot].op = "store"
    /\ st' = [st EXCEPT ![Node.slot].queued = FALSE, ![Node.slot].issued = TRUE,
                        ![Node.slot].completed = TRUE]
    /\ panic' = IF st[Node.slot].onames # <<NA, NA>> THEN "store creates result"
                ELSE IF st[Node.slot].recover_inst THEN "mis-predicted store" ELSE IssuePanic
    /\ Again /\ NextNode
    /\ UNCHANGED <<ready_queue, event_queue, busy>>

Executing(x, lat) ==
    /\ st' = [st EXCEPT ![x].queued = FALSE, ![x].issued = TRUE]
    /\ event_queue' = eventq_queue_event(x, lat)
    /\ panic' = IF lat <= 0 THEN "event occurred in the past" ELSE IssuePanic

\* A store before it in the LSQ has the address of the load in slot y.
Forwards(y) ==
    \E k \in 1..Younger(LSQ.head, y[2] + 1, LSQ_size) :
        LET z == L((LSQ.head + k - 1) % LSQ_size)
        IN  st[z].op = "store" /\ st[z].addr = st[y].addr

issue_unit ==
    /\ Issuing /\ st[Node.slot].op # "store"
    /\ LET x == Node.slot
           class == FuClass(st[x].op)
       IN  \E u \in res_get(class) :
              /\ busy' = [busy EXCEPT ![u] = FuPool[u][class].issuelat]
              /\ IF st[x].op # "load" THEN Executing(x, FuPool[u][class].oplat)
                 ELSE IF Forwards(x) THEN Executing(x, 1)
                 ELSE \E lat \in LoadLats : Executing(x, lat)
    /\ Again /\ NextNode
    /\ UNCHANGED ready_queue

issue_without_unit ==
    /\ Issuing /\ FuClass(st[Node.slot].op) = "none"
    /\ Executing(Node.slot, 1)
    /\ Again /\ NextNode
    /\ UNCHANGED <<ready_queue, busy>>

\* No unit is free, or the issue width is used up: again in the next cycle.
\* Seeded fault: without a unit the instruction leaves the queue.
put_back_Lost ==
    /\ In("issue") /\ work # <<>> /\ NodeValid
    /\ \/ n >= Width
       \/ st[Node.slot].op # "store" /\ FuClass(st[Node.slot].op) # "none"
             /\ res_get(FuClass(st[Node.slot].op)) = {}
    /\ st' = [st EXCEPT ![Node.slot].queued = FALSE]
    /\ NextNode
    /\ UNCHANGED <<ready_queue, panic, event_queue, busy, stage, n>>
put_back ==
    /\ In("issue") /\ work # <<>> /\ NodeValid
    /\ \/ n >= Width
       \/ st[Node.slot].op # "store" /\ FuClass(st[Node.slot].op) # "none"
             /\ res_get(FuClass(st[Node.slot].op)) = {}
    /\ LET S == readyq_enqueue([st |-> [st EXCEPT ![Node.slot].queued = FALSE],
                                queue |-> ready_queue,
                                panic |-> IF n >= Width THEN panic ELSE IssuePanic], Node.slot)
       IN  st' = S.st /\ ready_queue' = S.queue /\ panic' = S.panic
    /\ NextNode
    /\ UNCHANGED <<event_queue, busy, stage, n>>

stale_node ==
    /\ In("issue") /\ work # <<>> /\ ~NodeValid
    /\ NextNode
    /\ UNCHANGED <<st, ready_queue, panic, event_queue, busy, stage, n>>

issue_end ==
    /\ In("issue") /\ work = <<>> /\ NextStage
    /\ UNCHANGED <<fixed, st, RUU, LSQ, queues, rename, busy, spec_mode, recover_PC,
                   last_op, inst_seq, front, panic, retired>>
-----------------------------------------------------------------------------
(* ruu_dispatch() *)

\* D: the stations and the two create vectors.
\* Operand k of x waits for the instruction that is to write the register, if there is one.
ruu_link_idep(D, x, k, name) ==
    IF name = NA \/ CREATE_VECTOR(D, name) = NoCreator
    THEN [D EXCEPT !.st[x].idep_ready[k] = TRUE]
    ELSE LET c == CREATE_VECTOR(D, name)
             link == [slot |-> x, tag |-> D.st[x].tag, opnum |-> k]
         IN  [D EXCEPT !.st[x].idep_ready[k] = FALSE,
                       !.st[c[1]].odep_list[c[2]] = <<link>> \o @]

\* x is the next to write the register.
ruu_install_odep(D, x, i, name) ==
    IF name = NA THEN [D EXCEPT !.st[x].onames[i] = NA]
    ELSE LET E == [D EXCEPT !.st[x].onames[i] = name, !.st[x].odep_list[i] = <<>>]
         IN  IF spec_mode THEN [E EXCEPT !.scv[name] = <<x, i>>]
             ELSE [E EXCEPT !.cv[name] = <<x, i>>]

LinkAll(D, x, in, out) ==
    LET D0 == ruu_link_idep(D, x, 0, in[1])
        D1 == ruu_link_idep(D0, x, 1, in[2])
        D2 == ruu_link_idep(D1, x, 2, in[3])
        D3 == ruu_install_odep(D2, x, 1, out[1])
    IN  ruu_install_odep(D3, x, 2, out[2])

\* The stations after the instruction takes its entries.  A load or store takes two:
\* the address is computed in the RUU and goes to the LSQ as register DTMP.
Entered(D, i) ==
    LET x == R(RUU.tail)
        y == L(LSQ.tail)
    IN  IF i.op \in Memory
        THEN LinkAll(LinkAll(D, x, <<NA, i.in[2], i.in[3]>>, <<DTMP, NA>>),
                     y, <<i.in[1], DTMP, NA>>, i.out)
        ELSE LinkAll(D, x, i.in, i.out)

Fill(pc, i, npc, addr, wrong) ==
    LET x == R(RUU.tail)
        y == L(LSQ.tail)
        mem == i.op \in Memory
        Common(s) == [Blank EXCEPT !.tag = s.tag, !.PC = pc, !.next_PC = npc,
                         !.spec_mode = spec_mode, !.odep_list = s.odep_list,
                         !.onames = s.onames]
        first == [Common(st[x]) EXCEPT !.op = IF mem THEN "agen" ELSE i.op, !.ea_comp = mem,
                                       !.recover_inst = wrong, !.seq = inst_seq + 1]
        access == [Common(st[y]) EXCEPT !.op = i.op, !.addr = addr, !.seq = inst_seq + 2]
    IN  IF mem THEN [st EXCEPT ![x] = first, ![y] = access] ELSE [st EXCEPT ![x] = first]

CanDispatch ==
    /\ n < Width /\ RUU.num < RUU_size /\ LSQ.num < LSQ_size /\ fetch_data # <<>>
    /\ opt.include_spec \/ ~spec_mode
    /\ ~(/\ opt.inorder /\ last_op # <<>>
         /\ RSLINK_VALID(st, last_op[1]) /\ ~OPERANDS_READY(st[last_op[1].slot]))
    /\ Arch!Instruction(Head(fetch_data).PC).op \in {"trap", "exit"} => RUU.num = 0

\* The next PC that was predicted is not where the instruction goes, and decoding shows it.
MisFetch(i, f, npc) ==
    \/ opt.perfect /\ f.pred_PC # npc
    \/ /\ i.op \in Direct
       /\ f.pred_PC \notin {i.target, Arch!Following(f.PC)}

\* Seeded fault: the fetch queue is not emptied.
Redirect_Kept(npc) ==
    /\ fetch_data' = Tail(fetch_data) /\ fetch_pred_PC' = npc
    /\ ruu_fetch_issue_delay' = IF opt.perfect THEN ruu_fetch_issue_delay
                                ELSE ruu_branch_penalty
    /\ UNCHANGED filled
Redirect(npc) ==
    /\ fetch_data' = <<>> /\ fetch_pred_PC' = npc
    /\ ruu_fetch_issue_delay' = IF opt.perfect THEN ruu_fetch_issue_delay
                                ELSE ruu_branch_penalty
    /\ UNCHANGED filled

\* An instruction goes to npc and accesses addr, if it accesses memory.
Dispatch(i, npc, addr) ==
    LET f == Head(fetch_data)
        redirect == MisFetch(i, f, npc)
        wrong == ~spec_mode /\ f.pred_PC # npc /\ ~redirect
        mem == i.op \in Memory
        x == R(RUU.tail)
        y == L(LSQ.tail)
        D == Entered([st |-> Fill(f.PC, i, npc, addr, wrong), cv |-> create_vector,
                      scv |-> spec_create_vector], i)
        S0 == [st |-> D.st, queue |-> ready_queue, panic |-> panic]
        S1 == IF OPERANDS_READY(D.st[x]) THEN readyq_enqueue(S0, x) ELSE S0
        S2 == IF i.op = "store" /\ OPERANDS_READY(D.st[y]) THEN readyq_enqueue(S1, y) ELSE S1
    IN  /\ IF i.op = "nop"
           THEN /\ UNCHANGED <<st, RUU, LSQ, ready_queue, rename, last_op, inst_seq>>
                /\ panic' = IF wrong THEN "no station for a mis-predicted NOP" ELSE panic
           ELSE /\ st' = S2.st /\ ready_queue' = S2.queue
                /\ panic' = IF i.op = "trap" /\ spec_mode THEN "drained and speculative"
                            ELSE S2.panic
                /\ create_vector' = D.cv /\ spec_create_vector' = D.scv
                /\ RUU' = Advance(RUU, RUU_size)
                /\ LSQ' = IF mem THEN Advance(LSQ, LSQ_size) ELSE LSQ
                /\ last_op' = CASE mem -> <<RSLINK(D.st, y)>>
                                [] ~mem /\ OPERANDS_READY(D.st[x]) -> <<>>
                                [] OTHER -> <<RSLINK(D.st, x)>>
                /\ inst_seq' = inst_seq + (IF mem THEN 2 ELSE 1)
        /\ spec_mode' = (spec_mode \/ wrong)
        /\ recover_PC' = IF wrong THEN npc ELSE recover_PC
        /\ IF redirect THEN Redirect(npc)
           ELSE /\ fetch_data' = Tail(fetch_data)
                /\ UNCHANGED <<fetch_pred_PC, ruu_fetch_issue_delay, filled>>

ruu_dispatch ==
    /\ In("dispatch") /\ CanDispatch
    /\ LET i == Arch!Instruction(Head(fetch_data).PC)
       IN  IF i.op = "nop"
           THEN Dispatch(i, Arch!Following(Head(fetch_data).PC), 0) /\ UNCHANGED <<stage, n>>
           ELSE /\ i.op # "exit" /\ Again
                /\ \E npc \in i.next, addr \in i.addrs : Dispatch(i, npc, addr)
    /\ UNCHANGED <<fixed, work, event_queue, busy, retired>>

\* The system call that ends the simulation runs when it is decoded.
exit ==
    /\ In("dispatch") /\ CanDispatch
    /\ Arch!Instruction(Head(fetch_data).PC).op = "exit"
    /\ IF spec_mode THEN panic' = "drained and speculative" /\ UNCHANGED stage
       ELSE stage' = "exit" /\ UNCHANGED panic
    /\ UNCHANGED <<fixed, st, RUU, LSQ, queues, rename, busy, spec_mode, recover_PC,
                   last_op, inst_seq, front, n, retired>>

dispatch_end ==
    /\ In("dispatch") /\ ~CanDispatch /\ NextStage
    /\ UNCHANGED <<fixed, st, RUU, LSQ, queues, rename, busy, spec_mode, recover_PC,
                   last_op, inst_seq, front, panic, retired>>
-----------------------------------------------------------------------------
(* ruu_fetch() and the end of a cycle *)

Cycle ==
    /\ event_queue' = [k \in DOMAIN event_queue |->
                          [event_queue[k] EXCEPT !.due = IF @ > 0 THEN @ - 1 ELSE 0]]
    /\ NextStage
    /\ UNCHANGED <<fixed, st, RUU, LSQ, ready_queue, work, rename, busy, spec_mode,
                   recover_PC, last_op, inst_seq, panic, retired>>

CanFetch == ruu_fetch_issue_delay = 0 /\ n < Width /\ Len(fetch_data) < ruu_ifq_size
InText(pc) == pc \in DOMAIN program
Block(pc) == pc \div BlockSize

\* The I-cache has not got the block: no more until it has.
fetch_miss ==
    /\ In("fetch") /\ CanFetch /\ InText(fetch_pred_PC) /\ filled # Block(fetch_pred_PC)
    /\ \E lat \in MissLats : ruu_fetch_issue_delay' = ruu_fetch_issue_delay + lat - 1
    /\ filled' = Block(fetch_pred_PC)
    /\ UNCHANGED <<fetch_data, fetch_pred_PC>>
    /\ Cycle

\* Fetching goes on at the address predicted; one taken branch ends the cycle's share.
ruu_fetch ==
    /\ In("fetch") /\ CanFetch
    /\ LET pc == fetch_pred_PC
           i == Arch!Instruction(pc)
           ctrl == i.op \in Branches /\ ~opt.perfect
       IN  \E pred \in IF ctrl THEN i.preds ELSE {Arch!Following(pc)} :
              /\ fetch_data' = Append(fetch_data, [PC |-> pc, pred_PC |-> pred])
              /\ fetch_pred_PC' = pred
              /\ n' = IF pred # Arch!Following(pc) THEN Width ELSE n + 1
    /\ UNCHANGED <<fixed, st, RUU, LSQ, queues, rename, busy, spec_mode, recover_PC,
                   last_op, inst_seq, ruu_fetch_issue_delay, filled, stage, panic, retired>>

fetch_end ==
    /\ In("fetch") /\ ~CanFetch
    /\ ruu_fetch_issue_delay' = IF ruu_fetch_issue_delay > 0 THEN ruu_fetch_issue_delay - 1
                                ELSE 0
    /\ UNCHANGED <<fetch_data, fetch_pred_PC, filled>>
    /\ Cycle
-----------------------------------------------------------------------------
Next ==
    \/ ruu_commit \/ commit_end \/ ruu_release_fu
    \/ ruu_writeback \/ stale_event \/ writeback_end
    \/ lsq_refresh
    \/ issue_store \/ issue_unit \/ issue_without_unit \/ put_back \/ stale_node \/ issue_end
    \/ ruu_dispatch \/ exit \/ dispatch_end
    \/ fetch_miss \/ ruu_fetch \/ fetch_end
Spec == Init /\ [][Next]_vars /\ WF_vars(Next)
-----------------------------------------------------------------------------
(* Properties *)

Live == {R((RUU.head + k) % RUU_size) : k \in 0..RUU.num - 1} \cup
        {L((LSQ.head + k) % LSQ_size) : k \in 0..LSQ.num - 1}

\* The register that operand k of a live entry is read from.
InName(x, k) ==
    LET in == Arch!Instruction(st[x].PC).in
    IN  CASE in_LSQ(x) -> <<in[1], DTMP, NA>>[k + 1]
          [] ~in_LSQ(x) /\ st[x].ea_comp -> <<NA, in[2], in[3]>>[k + 1]
          [] OTHER -> in[k + 1]

\* The instruction in flight that is the last before x, in program order, to write r.
Before(x) == {y \in Live : st[y].seq < st[x].seq}
WritersBefore(x, r) == {y \in Before(x) : \E i \in 1..2 : st[y].onames[i] = r}
Latest(S) == CHOOSE y \in S : \A z \in S : st[z].seq <= st[y].seq

\* The simulator dies of none of its panics: entries are queued once, results reach an
\* operand once, what is executed is ready, RUU and LSQ stay in step, a squash ends at the
\* branch, the heads, tails and numbers agree, and no mis-predicted NOP is dereferenced.
NeverPanics ==
    /\ panic = "none"
    /\ LSQ.num <= RUU.num
    /\ (RUU.head + RUU.num) % RUU_size = RUU.tail
    /\ (LSQ.head + LSQ.num) % LSQ_size = LSQ.tail

\* An operand is ready exactly when the last instruction before it, on its own path, that
\* writes the register has its result: no squashed or older writer wakes it or holds it up.
ReadyIsExact ==
    \A x \in Live, k \in 0..2 :
        LET r == InName(x, k)
            W == WritersBefore(x, r)
        IN  st[x].idep_ready[k] <=> r = NA \/ W = {} \/ st[Latest(W)].completed

\* A load is started only when the addresses of all stores before it are known, and when
\* the last of them to its own address has the value.
LoadsWaitForStores ==
    \A x \in Live : in_LSQ(x) /\ st[x].op = "load" /\ st[x].issued =>
        LET S == {y \in Before(x) : in_LSQ(y) /\ st[y].op = "store"}
            Same == {y \in S : st[y].addr = st[x].addr}
        IN  /\ \A y \in S : STORE_ADDR_READY(st[y])
            /\ Same # {} => OPERANDS_READY(st[Latest(Same)])

\* What commits is the program, an instruction at a time in its order and none of a wrong
\* path, and all that comes before the call of exit() has committed when it is made.
RetiresTheProgram == Arch!Spec

\* A program that has no loop comes to its end.
Exits == <>(stage = "exit")
=============================================================================

-------------------------------- MODULE BPred --------------------------------
(***************************************************************************)
(* bpred.c of the SimpleScalar project, with the 3-bit predictor it adds,  *)
(* and the order in which sim-outorder.c calls it: bpred_lookup() when a   *)
(* branch is fetched, on a mis-predicted path too; bpred_recover() when a  *)
(* mis-predicted branch completes; bpred_update() when a branch commits.   *)
(* An address counts instructions.  Other instructions are left out: any   *)
(* branch of the program may come after any other.                         *)
(***************************************************************************)
EXTENDS Integers, Sequences, FiniteSets, SequencesExt

CONSTANTS Configs,     \* options of the predictor, sizes of the queues, the program,
                       \* and how many branches are fetched (a bound)
          None

Classes == {"2bit", "3bit", "2lev", "comb"}
Direct == {"cond", "jump", "call"}       \* the destination is in the instruction
Calls == {"call", "icall"}

ASSUME ConfigsAssumption ==
    \A c \in Configs :
        /\ c.class \in Classes
        /\ {c.bimod, c.l1, c.l2, c.meta, c.sets, c.assoc, c.ras, c.ifq, c.ruu} \subseteq
              Nat \ {0}
        /\ {c.width, c.most} \subseteq Nat /\ 2^c.width \in Nat \ {0}
        /\ \A b \in DOMAIN c.program :
              /\ b \in Nat \ {0, 1}
              /\ c.program[b].kind \in Direct \cup {"ijump", "icall", "return"}
              /\ c.program[b].target \in Nat \ {0, 1, b + 1}
        /\ c.targets \subseteq Nat \ ({0, 1} \cup {b + 1 : b \in DOMAIN c.program})

VARIABLES
    config,
    table,                 \* the counters of bimod, l2table and meta
    shiftregs,             \* the first level of the 2-level predictor
    btb,
    stack, tos,            \* retstack
    ifq, ruu,              \* branches fetched, and branches dispatched, oldest first
    spec_mode,
    path,                  \* where the next fetch is: the right path, a wrong one, or
                           \* an address outside the program, where there are NOPs only
    fetched,               \* how many so far
    calls,                 \* history: return addresses open on the right path,
    lost,                  \*   of these the deepest that did not fit in the stack,
    overwritten,           \*   slots a wrong path pushed to,
    undonePops, undonePushes,  \*   what recovery took back on the right path,
    run                    \*   how often in a row each counter was moved one way
predictor == <<table, shiftregs, btb>>
retstack == <<stack, tos>>
history == <<calls, lost, overwritten, undonePops, undonePushes>>
vars == <<config, predictor, retstack, ifq, ruu, spec_mode, path, fetched, history, run>>

Program == config.program
Branches == DOMAIN Program
Kind(b) == Program[b].kind
Size == config.ras
Null == -1
-----------------------------------------------------------------------------
(* bpred_create() *)

MaxState == IF config.class = "3bit" THEN 7 ELSE 3
\* Seeded fault: the threshold of the 2-bit counters for the 3-bit ones.
ThresholdOfTwoBits == 2
Threshold == IF config.class = "3bit" THEN 4 ELSE 2

Bimods == {"bimod"} \X (0..config.bimod - 1)
TwoLevs == {"l2"} \X (0..config.l2 - 1)
Metas == {"meta"} \X (0..config.meta - 1)
Cells == CASE config.class \in {"2bit", "3bit"} -> Bimods
           [] config.class = "2lev" -> TwoLevs
           [] config.class = "comb" -> Bimods \cup TwoLevs \cup Metas

\* Weakly this or that, in turns.
FlipFlop(i) == LET low == MaxState \div 2 IN IF i % 2 = 0 THEN low ELSE MaxState - low

Sets == 0..config.sets - 1
Ways == 0..config.assoc - 1
EmptySet == [addr |-> [w \in Ways |-> 0], target |-> [w \in Ways |-> 0],
             prev |-> [w \in Ways |-> IF w = 0 THEN Null ELSE w - 1],
             next |-> [w \in Ways |-> IF w = config.assoc - 1 THEN Null ELSE w + 1]]

Init ==
    /\ config \in Configs
    /\ table = [c \in Cells |-> FlipFlop(c[2])]
    /\ shiftregs = [i \in 0..config.l1 - 1 |-> 0]
    /\ btb = [s \in Sets |-> EmptySet]
    /\ stack = [k \in 0..Size - 1 |-> 0] /\ tos = Size - 1
    /\ ifq = <<>> /\ ruu = <<>> /\ spec_mode = FALSE /\ path = "right" /\ fetched = 0
    /\ calls = <<>> /\ lost = 0 /\ overwritten = {}
    /\ undonePops = 0 /\ undonePushes = 0
    /\ run = [c \in Cells |-> [up |-> FALSE, n |-> 0]]
-----------------------------------------------------------------------------
(* bpred_lookup() *)

SetOf(b) == b % config.sets
Matches(b) == {w \in Ways : btb[SetOf(b)].addr[w] = b}
First(S) == CHOOSE w \in S : \A v \in S : w <= v

Bimod(b) == <<"bimod", b % config.bimod>>
\* The index is taken from the history without the xor option.
TwoLev(b) == <<"l2", (shiftregs[b % config.l1] + b * 2^config.width) % config.l2>>
Meta(b) == <<"meta", b % config.meta>>
High(cell) == table[cell] >= Threshold

\* Which counters the update is to move, and what the components said.
NoUpdate == [pdir1 |-> None, pdir2 |-> None, pmeta |-> None, bimod |-> FALSE,
             twolev |-> FALSE]
DirUpdate(b) ==
    CASE Kind(b) # "cond" -> NoUpdate
      [] Kind(b) = "cond" /\ config.class \in {"2bit", "3bit"} ->
            [NoUpdate EXCEPT !.pdir1 = Bimod(b)]
      [] Kind(b) = "cond" /\ config.class = "2lev" -> [NoUpdate EXCEPT !.pdir1 = TwoLev(b)]
      [] Kind(b) = "cond" /\ config.class = "comb" ->
            [pdir1 |-> IF High(Meta(b)) THEN TwoLev(b) ELSE Bimod(b),
             pdir2 |-> IF High(Meta(b)) THEN Bimod(b) ELSE TwoLev(b),
             pmeta |-> Meta(b), bimod |-> High(Bimod(b)), twolev |-> High(TwoLev(b))]

\* 0 is "not taken", 1 is "taken" without a destination.
Destination(b) == IF Matches(b) = {} THEN 1 ELSE btb[SetOf(b)].target[First(Matches(b))]
Looked(b) == IF Kind(b) = "return" THEN stack[tos]
             ELSE IF Kind(b) # "cond" \/ High(DirUpdate(b).pdir1) THEN Destination(b)
             ELSE 0
\* ruu_fetch() goes on behind the branch when it is given 0.
PredPC(b) == IF Looked(b) = 0 THEN b + 1 ELSE Looked(b)

Pushed == (tos + 1) % Size
Popped == (tos + Size - 1) % Size
TosAfter(b) == IF Kind(b) = "return" THEN Popped ELSE IF Kind(b) \in Calls THEN Pushed ELSE tos
\* Seeded fault: the return address is written before tos is moved.
SlotBefore(b) == tos
SlotFor(b) == Pushed
StackAfter(b) == IF Kind(b) \in Calls THEN [stack EXCEPT ![SlotFor(b)] = b + 1] ELSE stack

\* The top before the pop or push.
RecoverIdx(b) == tos
-----------------------------------------------------------------------------
(* ruu_fetch() *)

\* Where the branch really leads; on the right path a return leads behind its call, of
\* which there is one.
Outcomes(b) ==
    CASE Kind(b) = "cond" -> {b + 1, Program[b].target}
      [] Kind(b) \in {"jump", "call"} -> {Program[b].target}
      [] Kind(b) = "return" /\ path = "right" -> {calls[k] : k \in {Len(calls)} \ {0}}
      [] OTHER -> config.targets

PathAfter(b, npc) == IF PredPC(b) = 1 THEN "bogus"
                     ELSE IF path = "right" /\ PredPC(b) = npc THEN "right" ELSE "wrong"

OnRightPath(b) ==
    /\ overwritten' = IF Kind(b) \in Calls THEN overwritten \ {SlotFor(b)} ELSE overwritten
    /\ calls' = CASE Kind(b) \in Calls -> Append(calls, b + 1)
                  [] Kind(b) = "return" -> Front(calls)
                  [] OTHER -> calls
    /\ lost' = IF Len(calls') - Size > lost THEN Len(calls') - Size
               ELSE IF Len(calls') < lost THEN Len(calls') ELSE lost
OnWrongPath(b) ==
    /\ overwritten' = IF Kind(b) \in Calls THEN overwritten \cup {SlotFor(b)} ELSE overwritten
    /\ UNCHANGED <<calls, lost>>

Fetch(b, npc) ==
    /\ fetched < config.most
    /\ Len(ifq) < config.ifq /\ path # "bogus"
    /\ npc \in Outcomes(b)
    /\ ifq' = Append(ifq, [PC |-> b, next_PC |-> npc, pred_PC |-> PredPC(b),
                           stack_recover_idx |-> RecoverIdx(b), dir_update |-> DirUpdate(b),
                           recover_inst |-> FALSE])
    /\ stack' = StackAfter(b) /\ tos' = TosAfter(b)
    /\ path' = PathAfter(b, npc)
    /\ fetched' = fetched + 1
    /\ IF path = "right" THEN OnRightPath(b) ELSE OnWrongPath(b)
    /\ UNCHANGED <<config, predictor, ruu, spec_mode, undonePops, undonePushes, run>>

(* ruu_dispatch() *)

Oldest == Head(ifq)
Dispatching == ifq # <<>> /\ Len(ruu) < config.ruu
\* Taken was predicted with a destination the instruction contradicts.
Misfetched == /\ Kind(Oldest.PC) \in Direct
              /\ Oldest.pred_PC \notin {Oldest.PC + 1, Program[Oldest.PC].target}

\* What was fetched behind it is squashed, and fetching goes on at the right place.
Misfetch ==
    /\ Dispatching /\ Misfetched
    /\ ruu' = Append(ruu, Oldest)
    /\ ifq' = <<>>
    /\ path' = IF spec_mode THEN "wrong" ELSE "right"
    /\ UNCHANGED <<config, predictor, retstack, spec_mode, fetched, history, run>>

Dispatch ==
    /\ Dispatching /\ ~Misfetched
    /\ LET mispredicted == ~spec_mode /\ Oldest.pred_PC # Oldest.next_PC
       IN  /\ ruu' = Append(ruu, [Oldest EXCEPT !.recover_inst = mispredicted])
           /\ spec_mode' = (spec_mode \/ mispredicted)
    /\ ifq' = Tail(ifq)
    /\ UNCHANGED <<config, predictor, retstack, path, fetched, history, run>>

(* ruu_writeback() *)

\* What is younger is squashed, and bpred_recover() sets tos back: to what it was before
\* the mis-predicted branch, though that branch is not squashed itself.
Recover ==
    \E k \in 1..Len(ruu) :
        /\ ruu[k].recover_inst
        /\ ruu' = [SubSeq(ruu, 1, k) EXCEPT ![k].recover_inst = FALSE]
        /\ ifq' = <<>> /\ spec_mode' = FALSE /\ path' = "right"
        /\ tos' = ruu[k].stack_recover_idx
        /\ undonePops' = undonePops + (IF Kind(ruu[k].PC) = "return" THEN 1 ELSE 0)
        /\ undonePushes' = undonePushes + (IF Kind(ruu[k].PC) \in Calls THEN 1 ELSE 0)
        /\ UNCHANGED <<config, predictor, stack, fetched, calls, lost, overwritten, run>>
-----------------------------------------------------------------------------
(* ruu_commit() and bpred_update() *)

Moved(v, up) == IF up THEN (IF v < MaxState THEN v + 1 ELSE v) ELSE IF v > 0 THEN v - 1 ELSE v

\* The meta counter is moved only when the two components differed.
TableAfter(u, taken) ==
    [c \in Cells |->
        IF c \in {u.pdir1, u.pdir2} THEN Moved(table[c], taken)
        ELSE IF c = u.pmeta /\ u.bimod # u.twolev THEN Moved(table[c], u.twolev = taken)
        ELSE table[c]]
ShiftRegsAfter(b, taken) ==
    IF Kind(b) = "cond" /\ config.class \in {"2lev", "comb"}
    THEN [shiftregs EXCEPT ![b % config.l1] =
                 (2 * @ + (IF taken THEN 1 ELSE 0)) % 2^config.width]
    ELSE shiftregs

MRU(s) == CHOOSE w \in Ways : btb[s].prev[w] = Null
LRU(s) == CHOOSE w \in Ways : btb[s].next[w] = Null
\* The way that holds the branch, or else the victim.
WayFor(b) == IF Matches(b) = {} THEN LRU(SetOf(b)) ELSE First(Matches(b))

\* Seeded fault: the way behind the one that is spliced out keeps its prev.
SplicedHalf(s, w) ==
    LET set == btb[s]
    IN  [set EXCEPT !.next = [[@ EXCEPT ![set.prev[w]] = set.next[w]] EXCEPT ![w] = MRU(s)],
                    !.prev = [@ EXCEPT ![w] = Null, ![MRU(s)] = w]]
Spliced(s, w) ==
    LET set == btb[s]
        p == set.prev[w]
        n == set.next[w]
        next == IF p = Null THEN set.next ELSE [set.next EXCEPT ![p] = n]
        prev == IF n = Null THEN set.prev ELSE [set.prev EXCEPT ![n] = p]
    IN  [set EXCEPT !.next = [next EXCEPT ![w] = MRU(s)],
                    !.prev = [prev EXCEPT ![w] = Null, ![MRU(s)] = w]]

\* Only a branch that was taken is entered; its destination is replaced when it was
\* predicted wrong, or another branch's entry is taken over.
BtbAfter(e, taken) ==
    LET s == SetOf(e.PC)
        w == WayFor(e.PC)
        set == IF w = MRU(s) THEN btb[s] ELSE Spliced(s, w)
        kept == set.addr[w] = e.PC /\ e.pred_PC = e.next_PC
    IN  IF ~taken THEN btb
        ELSE [btb EXCEPT ![s] = [set EXCEPT !.addr[w] = e.PC,
                                            !.target[w] = IF kept THEN @ ELSE e.next_PC]]

Retiring == ruu # <<>> /\ ~Head(ruu).recover_inst

Half == (MaxState + 1) \div 2
RunAfter(u, taken) ==
    [c \in Cells |->
        IF c \notin {u.pdir1, u.pdir2} THEN run[c]
        ELSE IF run[c].up # taken THEN [up |-> taken, n |-> 1]
        ELSE [up |-> taken, n |-> IF run[c].n < Half THEN run[c].n + 1 ELSE Half]]

Commit ==
    /\ Retiring /\ Kind(Head(ruu).PC) # "return"
    /\ LET e == Head(ruu)
           taken == e.next_PC # e.PC + 1
       IN  /\ table' = TableAfter(e.dir_update, taken)
           /\ shiftregs' = ShiftRegsAfter(e.PC, taken)
           /\ btb' = BtbAfter(e, taken)
           /\ run' = RunAfter(e.dir_update, taken)
    /\ ruu' = Tail(ruu)
    /\ UNCHANGED <<config, retstack, ifq, spec_mode, path, fetched, history>>

\* A return that used the stack changes nothing.
CommitReturn ==
    /\ Retiring /\ Kind(Head(ruu).PC) = "return"
    /\ ruu' = Tail(ruu)
    /\ UNCHANGED <<config, predictor, retstack, ifq, spec_mode, path, fetched, history, run>>

Next == \/ \E b \in Branches : \E npc \in Outcomes(b) : Fetch(b, npc)
        \/ Misfetch \/ Dispatch \/ Recover \/ Commit \/ CommitReturn
Spec == Init /\ [][Next]_vars
-----------------------------------------------------------------------------
\* Every variable holds a value of its C type; the counters have 2 or 3 bits.
TypeOK ==
    /\ config \in Configs
    /\ table \in [Cells -> 0..MaxState]
    /\ shiftregs \in [0..config.l1 - 1 -> 0..2^config.width - 1]
    /\ btb \in [Sets -> [addr : [Ways -> Branches \cup {0}], target : [Ways -> Nat],
                         prev : [Ways -> Ways \cup {Null}],
                         next : [Ways -> Ways \cup {Null}]]]
    /\ stack \in [0..Size - 1 -> Nat] /\ tos \in 0..Size - 1
    /\ Len(ifq) <= config.ifq /\ Len(ruu) <= config.ruu
    /\ spec_mode \in BOOLEAN /\ path \in {"right", "wrong", "bogus"}

\* A counter that was moved one way as often in a row as half its states predicts that
\* way, and keeps predicting it until it is moved the other way: twice for 2 bits, four
\* times for 3.  The moves come from commits, between which it may be looked up.
RunIsLearned ==
    \A c \in Cells \ Metas : run[c].n = Half => (High(c) <=> run[c].up)

\* While no mis-predicted call or return has been taken back, the next return is
\* predicted, whatever else was squashed, if it is not one of those whose address was
\* pushed out of the full stack or overwritten by a call of a wrong path.
ReturnsAreKnown ==
    (/\ path = "right" /\ undonePops = 0 /\ undonePushes = 0
     /\ Len(calls) > lost /\ tos \notin overwritten) => stack[tos] = Last(calls)

\* The linked list of a set, followed from the head; Null where it has ended.
Chain(s) ==
    LET at[k \in 1..config.assoc] ==
            IF k = 1 THEN MRU(s) ELSE IF at[k - 1] = Null THEN Null ELSE btb[s].next[at[k - 1]]
    IN  at
\* The places in the list of ways that hold a branch.
Places(s) == {k \in 1..config.assoc : Chain(s)[k] # Null /\ btb[s].addr[Chain(s)[k]] # 0}
EntryAt(s, w) == [addr |-> btb[s].addr[w], target |-> btb[s].target[w]]
\* The lists of the sets are the order of use, what holds no branch at their ends.
Recent == [s \in Sets |-> [k \in 1..Max({0} \cup Places(s)) |-> EntryAt(s, Chain(s)[k])]]
Destinations == config.targets \cup {Program[b].target : b \in Branches}
Lru == INSTANCE LruSpec WITH
            assoc <- config.assoc,
            entries <- [addr : Branches, target : Destinations],
            recent <- Recent
BtbIsLru == Lru!Spec

\* Claimed by bpred.h line 115, "last destination of branch when taken": a branch that
\* was taken leaves its destination in its entry.
TargetIsLast ==
    [][(Commit /\ Head(ruu).next_PC # Head(ruu).PC + 1) =>
          \E s \in Sets : \E w \in Ways : /\ btb'[s].addr[w] = Head(ruu).PC
                                          /\ btb'[s].target[w] = Head(ruu).next_PC]_vars
=============================================================================

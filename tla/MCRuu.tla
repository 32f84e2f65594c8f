------------------------------- MODULE MCRuu -------------------------------
(***************************************************************************)
(* Small queues, so that they fill and their slots are used again, and     *)
(* short programs without loops.                                           *)
(***************************************************************************)
EXTENDS Ruu

Plain(o, a, b, pc) == [op |-> o, out |-> <<a, NA>>, in |-> <<b, NA, NA>>, next |-> {pc + 1},
                       target |-> Bogus, addrs |-> {0}, preds |-> {pc + 1}]
Load(a, b, pc, where) == [Plain("load", a, NA, pc) EXCEPT !.in = <<NA, b, NA>>, !.addrs = where]
Store(a, b, pc, where) == [Plain("store", NA, a, pc) EXCEPT !.in = <<a, b, NA>>, !.addrs = where]
Cond(a, pc, to) == [Plain("cond", NA, a, pc) EXCEPT !.next = {pc + 1, to}, !.target = to,
                                                    !.preds = {pc + 1, to}]
Exit(pc) == Plain("exit", NA, NA, pc)

\* Two stores and a load that may meet.  The address of the first store is late, and so
\* is the value of the other one.
Aliases == <<Load("r1", NA, 1, {0}), Store("r2", "r1", 2, {0, 4}), Store("r1", NA, 3, {0, 4}),
             Load("r2", NA, 4, {0, 4}), Plain("trap", NA, "r2", 5), Exit(6)>>
\* A later store hides an earlier one whose value is late.
Hidden == <<Load("r1", NA, 1, {8}), Store("r1", NA, 2, {0, 4}), Store("r2", NA, 3, {0, 4}),
            Load("r2", NA, 4, {0, 4}), Exit(5)>>
\* The multiplier is wanted twice, and its results are written over.
Chain == <<Plain("mul", "r1", NA, 1), [Plain("mul", "r2", NA, 2) EXCEPT !.out[2] = "r1"],
           Plain("alu", "r1", "r1", 3), Store("r1", "r1", 4, {4}), Load("r1", "r2", 5, {0, 4}),
           Plain("alu", "r2", "r1", 6), Exit(7)>>
\* A wrong path waits for a result that comes when its slots are in use again.
Stale == <<Load("r1", NA, 1, {0}), Cond(NA, 2, 5), Plain("alu", "r2", "r1", 3),
           Store("r1", "r1", 4, {0}), [Plain("alu", "r2", NA, 5) EXCEPT !.in[2] = "r1"],
           Store("r2", "r1", 6, {0}), Plain("alu", "r1", "r2", 7), Exit(8)>>
\* A wrong path leaves a creator of a register behind.
Fork == <<Plain("mul", "r1", NA, 1), Cond("r1", 2, 5), Plain("mul", "r2", "r1", 3),
          Load("r2", "r1", 4, {0}), Plain("alu", "r1", "r2", 5), Store("r1", "r2", 6, {0}),
          Exit(7)>>
\* Destinations that the predictor does not know, and no-operations.
Jumps == <<Load("r1", NA, 1, {0}),
           [Plain("ijump", "r2", "r1", 2) EXCEPT !.next = {3, 4}, !.preds = {3, 4, Bogus}],
           Plain("nop", NA, NA, 3), [Cond("r2", 4, 6) EXCEPT !.preds = {5, 6, 3}],
           Plain("alu", "r1", "r1", 5), Exit(6)>>

Plainly == [RUU_size |-> 4, LSQ_size |-> 2, ifq_size |-> 2, width |-> 2, penalty |-> 1,
            inorder |-> FALSE, include_spec |-> TRUE, bugcompat |-> FALSE, perfect |-> FALSE]
Large == [Plainly EXCEPT !.RUU_size = 8, !.LSQ_size = 4, !.ifq_size = 4]
MCSimulations ==
    [opt : {Plainly}, program : {Aliases, Chain, Stale, Fork, Jumps}] \cup
    [opt : {Large}, program : {Aliases, Hidden}] \cup
    [opt : {[Plainly EXCEPT !.inorder = TRUE]}, program : {Chain, Stale}] \cup
    [opt : {[Plainly EXCEPT !.include_spec = FALSE], [Plainly EXCEPT !.perfect = TRUE]},
     program : {Jumps}] \cup
    [opt : {[Plainly EXCEPT !.bugcompat = TRUE]}, program : {Aliases, Fork}]
Latencies(o, i) == [oplat |-> o, issuelat |-> i]
MCFuPool == [alu |-> [ialu |-> Latencies(1, 1)], mult |-> [imult |-> Latencies(3, 2)],
             port |-> [rdport |-> Latencies(1, 1), wrport |-> Latencies(1, 1)]]
MCLoadLats == {1, 7}
MCMissLats == {2}
=============================================================================

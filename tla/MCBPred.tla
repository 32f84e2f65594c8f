------------------------------ MODULE MCBPred ------------------------------
(* Small programs, each with the options that bring one part of the predictor to  *)
(* its limits: the stack, the lists of the sets, the 3-bit counters, and the two- *)
(* level and combining predictors.                                                *)
EXTENDS BPred

On(k, t) == [kind |-> k, target |-> t]
Basic == [class |-> "2bit", bimod |-> 1, l1 |-> 1, l2 |-> 2, width |-> 1, meta |-> 1,
          sets |-> 1, assoc |-> 1, ras |-> 1, ifq |-> 1, ruu |-> 1, most |-> 8,
          targets |-> {30, 50}, program |-> [b \in {10} |-> On("cond", 30)]]
StackConfig ==
    [Basic EXCEPT !.ras = 2, !.ifq = 1, !.ruu = 2, !.most = 6, !.sets = 4,
                  !.program = [b \in {10, 21, 32, 43} |->
                                 CASE b = 10 -> On("call", 50) [] b = 21 -> On("icall", 50)
                                   [] b = 32 -> On("return", 50) [] b = 43 -> On("cond", 30)]]
ListConfig ==
    [Basic EXCEPT !.assoc = 4, !.most = 6,
                  !.program = [b \in {10, 12, 14, 16, 18} |-> On("jump", 30)]]
CounterConfig ==
    [Basic EXCEPT !.class = "3bit", !.bimod = 2, !.assoc = 2, !.ruu = 2, !.most = 7,
                  !.program = [b \in {12, 15} |->
                                 IF b = 12 THEN On("ijump", 30) ELSE On("cond", 30)]]
LevelConfigs ==
    {[Basic EXCEPT !.class = class, !.bimod = 2, !.l2 = 4, !.ruu = 2, !.most = 5,
                   !.program = [b \in {10, 13} |-> On("cond", 30)]] : class \in {"2lev", "comb"}}
MCConfigs == {StackConfig, ListConfig, CounterConfig} \cup LevelConfigs
=============================================================================

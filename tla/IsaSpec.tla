------------------------------ MODULE IsaSpec -------------------------------
(***************************************************************************)
(* What a program sees of the processor: its instructions take effect one  *)
(* at a time, each where the one before it went.                           *)
(***************************************************************************)
EXTENDS Integers

CONSTANTS Bogus,        \* an address outside the program
          Start

VARIABLES program,             \* from an address to its instruction
          did, at, exited      \* the last instruction retired, where it went, and
                               \* whether the program has called exit()

Instruction(pc) == IF pc \in DOMAIN program THEN program[pc] ELSE [op |-> "nop"]
Following(pc) == IF pc + 1 \in DOMAIN program THEN pc + 1 ELSE Bogus

\* The first address from pc on that is not a no-operation, which is never retired.
Past[pc \in DOMAIN program] ==
    IF program[pc].op # "nop" \/ pc + 1 \notin DOMAIN program THEN pc ELSE Past[pc + 1]

Init == did = Bogus /\ at = Start /\ exited = FALSE

Retire ==
    /\ ~exited /\ program[Past[at]].op # "exit"
    /\ did' = Past[at] /\ at' \in program[did'].next
    /\ UNCHANGED <<program, exited>>

Exit == /\ ~exited /\ program[Past[at]].op = "exit"
        /\ exited' = TRUE
        /\ UNCHANGED <<program, did, at>>

Spec == Init /\ [][Retire \/ Exit]_<<program, did, at, exited>>
=============================================================================

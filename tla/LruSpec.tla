------------------------------ MODULE LruSpec ------------------------------
(***************************************************************************)
(* What the branch target buffer promises: in each set the branches that   *)
(* were last updated as taken, the latest first, and never more of them    *)
(* than the set has ways.  bpred.c keeps its sets as linked lists through  *)
(* an array; BPred shows that the lists implement this.                    *)
(***************************************************************************)
EXTENDS Naturals, Sequences

VARIABLES assoc,       \* ways in a set
          entries,     \* the entries there can be: a branch and a destination
          recent       \* what each set holds, the most recently used entry first

Init == /\ assoc \in Nat \ {0}
        /\ \A s \in DOMAIN recent : recent[s] = <<>>

\* The place that becomes free for a branch: its own, or else a new one, or in a set that
\* is full the last.
Freed(seq, addr) ==
    IF \E k \in 1..Len(seq) : seq[k].addr = addr
    THEN CHOOSE k \in 1..Len(seq) : seq[k].addr = addr
    ELSE IF Len(seq) < assoc THEN Len(seq) + 1 ELSE assoc

\* The entry's branch becomes the most recent of its set, and those in front of the place
\* move up by one.
Use(s, e) ==
    /\ LET seq == recent[s]
           p == Freed(seq, e.addr)
           n == IF p > Len(seq) THEN p ELSE Len(seq)
       IN  recent' = [recent EXCEPT ![s] =
               [k \in 1..n |-> IF k = 1 THEN e ELSE IF k <= p THEN seq[k - 1] ELSE seq[k]]]
    /\ UNCHANGED <<assoc, entries>>

Next == \E s \in DOMAIN recent, e \in entries : Use(s, e)
Spec == Init /\ [][Next]_<<assoc, entries, recent>>
=============================================================================

------------------------------ MODULE RuuProofs ------------------------------
(***************************************************************************)
(* The out-of-order core dies of none of its panics, and what it commits   *)
(* is the program as IsaSpec has it, for every set of programs, sizes of   *)
(* its queues, functional units and latencies.                             *)
(***************************************************************************)
EXTENDS Ruu, FiniteSetTheorems, WellFoundedInduction, TLAPS

\* There is a least element in a set of integers that is bounded from below.
LEMMA LeastExists ==
    ASSUME NEW S \in SUBSET Int, S # {}, NEW b \in Int, \A x \in S : b <= x
    PROVE  \E m \in S : \A x \in S : m <= x
<1> DEFINE Less == OpToRel(<, Nat)
           T == {x - b : x \in S}
<1>1. IsWellFoundedOn(Less, Nat) BY NatLessThanWellFounded
<1>2. T \subseteq Nat /\ T # {}
  <2>1. \A x \in S : x \in Int /\ x - b \in Nat OBVIOUS
  <2> QED BY <2>1
<1>3. PICK t \in T : \A y \in T : <<y, t>> \notin Less
  <2> HIDE DEF Less, T
  <2> QED BY <1>1, <1>2, WFMin
<1>4. \A y \in T : ~(y < t) BY <1>2, <1>3 DEF OpToRel
<1>5. PICK m \in S : t = m - b OBVIOUS
<1>6. ASSUME NEW x \in S PROVE m <= x
  <2>1. x - b \in T /\ m \in Int /\ x \in Int OBVIOUS
  <2>2. ~(x - b < m - b) BY <1>4, <1>5, <2>1
  <2> QED BY <2>1, <2>2
<1> QED BY <1>6
-----------------------------------------------------------------------------
(* Rings *)

\* How many steps i is behind the head of a ring.
Place(i, head, size) == (i + size - head) % size

\* Going once round a ring.
LEMMA ModOnce ==
  ASSUME NEW s \in Nat \ {0}, NEW a \in Int, 0 <= a, a < s + s
  PROVE  a % s = IF a < s THEN a ELSE a - s
OBVIOUS

\* A place without the remainder.
LEMMA PlaceIs ==
  ASSUME NEW s \in Nat \ {0}, NEW h \in 0..s - 1, NEW i \in 0..s - 1
  PROVE  Place(i, h, s) = IF i >= h THEN i - h ELSE i + s - h
BY DEF Place

\* In a ring of size s, indices and places correspond one to one.
LEMMA Places ==
  ASSUME NEW s \in Nat \ {0}, NEW h \in 0..s - 1
  PROVE  /\ \A k \in 0..s - 1 : (h + k) % s \in 0..s - 1 /\ Place((h + k) % s, h, s) = k
         /\ \A i \in 0..s - 1 : Place(i, h, s) \in 0..s - 1 /\ (h + Place(i, h, s)) % s = i
<1>1. ASSUME NEW k \in 0..s - 1
      PROVE  (h + k) % s = IF h + k < s THEN h + k ELSE h + k - s
  <2> DEFINE a == h + k
  <2>1. a \in Int /\ 0 <= a /\ a < s + s OBVIOUS
  <2> HIDE DEF a
  <2>2. a % s = IF a < s THEN a ELSE a - s BY <2>1, ModOnce
  <2> QED BY <2>2 DEF a
<1>2. ASSUME NEW k \in 0..s - 1
      PROVE  (h + k) % s \in 0..s - 1 /\ Place((h + k) % s, h, s) = k
  <2> DEFINE m == (h + k) % s
  <2>1. m = IF h + k < s THEN h + k ELSE h + k - s BY <1>1
  <2> HIDE DEF m
  <2>2. m \in 0..s - 1 BY <2>1
  <2>3. Place(m, h, s) = IF m >= h THEN m - h ELSE m + s - h BY <2>2, PlaceIs
  <2>4. m \in 0..s - 1 /\ Place(m, h, s) = k BY <2>1, <2>2, <2>3
  <2> QED BY <2>4 DEF m
<1>3. ASSUME NEW i \in 0..s - 1
      PROVE  Place(i, h, s) \in 0..s - 1 /\ (h + Place(i, h, s)) % s = i
  <2> DEFINE k == Place(i, h, s)
  <2>1. k = IF i >= h THEN i - h ELSE i + s - h BY PlaceIs
  <2> HIDE DEF k
  <2>2. k \in 0..s - 1 BY <2>1
  <2>3. (h + k) % s = IF h + k < s THEN h + k ELSE h + k - s BY <2>2, <1>1
  <2>4. k \in 0..s - 1 /\ (h + k) % s = i BY <2>1, <2>2, <2>3
  <2> QED BY <2>4 DEF k
<1> QED BY <1>2, <1>3

\* A ring of the given size.
Ring(q, size) ==
    /\ DOMAIN q = {"head", "tail", "num"}
    /\ q.head \in 0..size - 1 /\ q.num \in 0..size
    /\ q.tail = (q.head + q.num) % size
\* The index i is in use.
InRing(q, size, i) == Place(i, q.head, size) < q.num

\* Where the tail of a ring is; the next instruction goes there, behind all others.
LEMMA TailIs ==
  ASSUME NEW size \in Nat \ {0}, NEW q, Ring(q, size)
  PROVE  /\ q.tail = IF q.head + q.num < size THEN q.head + q.num ELSE q.head + q.num - size
         /\ q.head \in 0..size - 1 /\ q.num \in 0..size /\ q.tail \in 0..size - 1
         /\ q.num < size => Place(q.tail, q.head, size) = q.num
<1>1. q.head \in 0..size - 1 /\ q.num \in 0..size BY DEF Ring
<1>2. q.head + q.num \in Int /\ 0 <= q.head + q.num /\ q.head + q.num < size + size BY <1>1
<1>3. (q.head + q.num) % size = IF q.head + q.num < size THEN q.head + q.num
                                ELSE (q.head + q.num) - size
  BY ONLY size \in Nat \ {0}, <1>2, ModOnce
<1>4. q.tail = IF q.head + q.num < size THEN q.head + q.num ELSE q.head + q.num - size
  BY <1>3 DEF Ring
<1>5. q.tail \in 0..size - 1 BY <1>1, <1>4
<1>6. Place(q.tail, q.head, size) = IF q.tail >= q.head THEN q.tail - q.head
                                    ELSE q.tail + size - q.head
  BY <1>1, <1>5, PlaceIs
<1> QED BY <1>1, <1>4, <1>5, <1>6

\* What the operations on rings do.
LEMMA Advances ==
  ASSUME NEW size \in Nat \ {0}, NEW q, Ring(q, size), q.num < size
  PROVE  /\ Ring(Advance(q, size), size)
         /\ Advance(q, size).head = q.head /\ Advance(q, size).num = q.num + 1
<1> DEFINE r == Advance(q, size)
<1>1. /\ DOMAIN r = {"head", "tail", "num"} /\ r.head = q.head /\ r.num = q.num + 1
      /\ r.tail = (q.tail + 1) % size
  BY DEF Ring, Advance, Next1
<1> HIDE DEF r
<1>2. /\ q.tail = IF q.head + q.num < size THEN q.head + q.num ELSE q.head + q.num - size
      /\ q.head \in 0..size - 1 /\ q.num \in 0..size - 1 /\ q.tail \in 0..size - 1
  BY TailIs
<1>3. q.tail + 1 \in Int /\ 0 <= q.tail + 1 /\ q.tail + 1 < size + size BY <1>2
<1>4. (q.tail + 1) % size = IF q.tail + 1 < size THEN q.tail + 1 ELSE (q.tail + 1) - size
  BY ONLY size \in Nat \ {0}, <1>3, ModOnce
<1>5. r.head + r.num \in Int /\ 0 <= r.head + r.num /\ r.head + r.num < size + size
  BY <1>1, <1>2
<1>6. (r.head + r.num) % size = IF r.head + r.num < size THEN r.head + r.num
                                ELSE (r.head + r.num) - size
  BY ONLY size \in Nat \ {0}, <1>5, ModOnce
<1>7. r.tail = (r.head + r.num) % size BY <1>1, <1>2, <1>4, <1>6
<1>8. Ring(r, size) BY <1>1, <1>2, <1>7 DEF Ring
<1> QED BY <1>1, <1>8 DEF r

\* When the head leaves, every other instruction moves up by one place.
LEMMA Retreats ==
  ASSUME NEW size \in Nat \ {0}, NEW q, Ring(q, size), q.num > 0
  PROVE  /\ Ring(Retreat(q, size), size)
         /\ Retreat(q, size).num = q.num - 1
         /\ \A i \in 0..size - 1 :
               Place(i, Retreat(q, size).head, size) =
                   IF i = q.head THEN size - 1 ELSE Place(i, q.head, size) - 1
         /\ Place(q.head, q.head, size) = 0
<1> DEFINE r == Retreat(q, size)
<1>1. /\ DOMAIN r = {"head", "tail", "num"} /\ r.tail = q.tail /\ r.num = q.num - 1
      /\ r.head = (q.head + 1) % size
  BY DEF Ring, Retreat, Next1
<1> HIDE DEF r
<1>2. /\ q.tail = IF q.head + q.num < size THEN q.head + q.num ELSE q.head + q.num - size
      /\ q.head \in 0..size - 1 /\ q.num \in 1..size
  BY TailIs
<1>3. q.head + 1 \in Int /\ 0 <= q.head + 1 /\ q.head + 1 < size + size BY <1>2
<1>4. (q.head + 1) % size = IF q.head + 1 < size THEN q.head + 1 ELSE (q.head + 1) - size
  BY ONLY size \in Nat \ {0}, <1>3, ModOnce
<1>5. r.head \in 0..size - 1 BY <1>1, <1>2, <1>4
<1>6. r.head + r.num \in Int /\ 0 <= r.head + r.num /\ r.head + r.num < size + size
  BY <1>1, <1>2, <1>5
<1>7. (r.head + r.num) % size = IF r.head + r.num < size THEN r.head + r.num
                                ELSE (r.head + r.num) - size
  BY ONLY size \in Nat \ {0}, <1>6, ModOnce
<1>8. r.tail = (r.head + r.num) % size
  <2>1. CASE q.head + 1 < size BY <1>1, <1>2, <1>4, <1>7, <2>1
  <2>2. CASE ~(q.head + 1 < size)
    <3>1. q.head + 1 = size /\ r.head = 0 BY <1>1, <1>2, <1>4, <2>2
    <3>2. r.head + r.num < size /\ r.head + r.num = q.num - 1 BY <1>1, <1>2, <3>1
    <3>3. q.tail = q.num - 1 BY <1>2, <3>1
    <3> QED BY <1>1, <1>7, <3>2, <3>3
  <2> QED BY <2>1, <2>2
<1>9. Ring(r, size) BY <1>1, <1>2, <1>5, <1>8 DEF Ring
<1>10. ASSUME NEW i \in 0..size - 1
       PROVE  Place(i, r.head, size) = IF i = q.head THEN size - 1 ELSE Place(i, q.head, size) - 1
  <2>1. /\ Place(i, r.head, size) = IF i >= r.head THEN i - r.head ELSE i + size - r.head
        /\ Place(i, q.head, size) = IF i >= q.head THEN i - q.head ELSE i + size - q.head
    BY <1>2, <1>5, PlaceIs
  <2> QED BY <1>1, <1>2, <1>4, <2>1
<1>11. Place(q.head, q.head, size) = 0 BY <1>2, PlaceIs
<1> QED BY <1>1, <1>9, <1>10, <1>11 DEF r

\* The entries behind i, up to the tail.
LEMMA BehindAre ==
  ASSUME NEW size \in Nat \ {0}, NEW q, Ring(q, size), NEW i \in 0..size - 1, InRing(q, size, i)
  PROVE  /\ Younger(i, q.tail, size) = q.num - 1 - Place(i, q.head, size)
         /\ \A k \in 1..Younger(i, q.tail, size) :
               /\ (i + k) % size \in 0..size - 1
               /\ Place((i + k) % size, q.head, size) = Place(i, q.head, size) + k
         /\ \A j \in 0..size - 1 :
               InRing(q, size, j) /\ Place(j, q.head, size) > Place(i, q.head, size) =>
                   \E k \in 1..Younger(i, q.tail, size) : j = (i + k) % size
<1> DEFINE h == q.head
           p == Place(i, h, size)
           y == Younger(i, q.tail, size)
<1>1. /\ q.tail = IF h + q.num < size THEN h + q.num ELSE h + q.num - size
      /\ h \in 0..size - 1 /\ q.num \in 0..size /\ q.tail \in 0..size - 1
  BY TailIs
<1>2. p = (IF i >= h THEN i - h ELSE i + size - h) /\ p \in 0..size - 1 /\ p < q.num
  <2>1. p = IF i >= h THEN i - h ELSE i + size - h BY <1>1, PlaceIs
  <2>2. p < q.num BY DEF InRing
  <2> HIDE DEF p
  <2> QED BY <1>1, <2>1, <2>2
<1>3. q.tail + size - 1 - i \in Int /\ 0 <= q.tail + size - 1 - i
      /\ q.tail + size - 1 - i < size + size
  BY <1>1
<1>4. y = IF q.tail + size - 1 - i < size THEN q.tail + size - 1 - i
          ELSE (q.tail + size - 1 - i) - size
  <2>1. (q.tail + size - 1 - i) % size =
           IF q.tail + size - 1 - i < size THEN q.tail + size - 1 - i
           ELSE (q.tail + size - 1 - i) - size
    BY ONLY size \in Nat \ {0}, <1>3, ModOnce
  <2> QED BY <2>1 DEF Younger
<1> HIDE DEF p, h, y
<1>5. y = q.num - 1 - p BY <1>1, <1>2, <1>4
<1>6. ASSUME NEW k \in 1..y
      PROVE  /\ (i + k) % size \in 0..size - 1
             /\ Place((i + k) % size, h, size) = p + k
  <2> DEFINE m == (i + k) % size
  <2>1. i + k \in Int /\ 0 <= i + k /\ i + k < size + size BY <1>1, <1>2, <1>5
  <2>2. m = IF i + k < size THEN i + k ELSE (i + k) - size
    BY ONLY size \in Nat \ {0}, <2>1, ModOnce
  <2> HIDE DEF m
  <2>3. m \in 0..size - 1 BY <2>1, <2>2
  <2>4. Place(m, h, size) = IF m >= h THEN m - h ELSE m + size - h BY <1>1, <2>3, PlaceIs
  <2>5. Place(m, h, size) = p + k BY <1>1, <1>2, <1>5, <2>2, <2>3, <2>4
  <2> QED BY <2>3, <2>5 DEF m
<1>7. ASSUME NEW j \in 0..size - 1, Place(j, h, size) < q.num, Place(j, h, size) > p
      PROVE  \E k \in 1..y : j = (i + k) % size
  <2> DEFINE k == Place(j, h, size) - p
  <2>1. Place(j, h, size) = IF j >= h THEN j - h ELSE j + size - h BY <1>1, PlaceIs
  <2>2. k \in 1..y BY <1>1, <1>2, <1>5, <1>7, <2>1
  <2>3. k = (IF j >= h THEN j - h ELSE j + size - h) - p BY <2>1
  <2> HIDE DEF k
  <2>4. i + k \in Int /\ 0 <= i + k /\ i + k < size + size BY <1>1, <1>2, <2>2, <2>3
  <2>5. (i + k) % size = IF i + k < size THEN i + k ELSE (i + k) - size
    BY ONLY size \in Nat \ {0}, <2>4, ModOnce
  <2>6. j = (i + k) % size BY <1>1, <1>2, <2>3, <2>5
  <2> QED BY <2>2, <2>6
<1> QED BY <1>5, <1>6, <1>7 DEF InRing, h, p, y
-----------------------------------------------------------------------------
(* The state *)

\* The stations in use when RUU is r and LSQ is l.
LiveIn(r, l) ==
    {x \in Slots : IF in_LSQ(x) THEN InRing(l, LSQ_size, x[2]) ELSE InRing(r, RUU_size, x[2])}

Links == [slot : Slots, tag : Nat, opnum : 0..2]
Nodes == [slot : Slots, tag : Nat, seq : Nat]
Events == [slot : Slots, tag : Nat, due : Nat]

StationType(s) ==
    /\ DOMAIN s = DOMAIN Blank
    /\ s.tag \in Nat /\ s.seq \in Nat
    /\ s.queued \in BOOLEAN /\ s.issued \in BOOLEAN /\ s.completed \in BOOLEAN
    /\ s.ea_comp \in BOOLEAN /\ s.recover_inst \in BOOLEAN /\ s.spec_mode \in BOOLEAN
    /\ DOMAIN s.idep_ready = 0..2 /\ \A k \in 0..2 : s.idep_ready[k] \in BOOLEAN
    /\ s.onames \in [1..2 -> Registers \cup {NA}]
    /\ DOMAIN s.odep_list = 1..2 /\ \A i \in 1..2 : s.odep_list[i] \in Seq(Links)
Typed(stn) == DOMAIN stn = Slots /\ \A x \in Slots : StationType(stn[x])

\* How far an instruction in flight has come.
Progress(stn, live) ==
    \A x \in live :
        /\ stn[x].queued => OPERANDS_READY(stn[x]) /\ ~stn[x].issued /\ ~stn[x].completed
        /\ stn[x].issued => OPERANDS_READY(stn[x])
        /\ stn[x].completed => stn[x].issued
        /\ in_LSQ(x) => stn[x].op \in Memory /\ ~stn[x].recover_inst
        /\ ~in_LSQ(x) => stn[x].op # "store"

\* A reference may be stale; if it is not, the instruction is in flight.
Refers(stn, live, q) ==
    \A k \in DOMAIN q : /\ q[k].slot \in Slots /\ q[k].tag \in Nat
                        /\ q[k].tag <= stn[q[k].slot].tag
                        /\ RSLINK_VALID(stn, q[k]) => q[k].slot \in live
Once(stn, q) ==
    \A j, k \in DOMAIN q : /\ RSLINK_VALID(stn, q[j]) /\ RSLINK_VALID(stn, q[k])
                           /\ q[j].slot = q[k].slot
                           => j = k

\* A ready queue.
NodeList(stn, live, q) ==
    /\ q \in Seq(Nodes) /\ Refers(stn, live, q) /\ Once(stn, q)
    /\ \A k \in DOMAIN q : RSLINK_VALID(stn, q[k]) => stn[q[k].slot].queued
Apart(stn, q, r) ==
    \A j \in DOMAIN q, k \in DOMAIN r :
        ~(RSLINK_VALID(stn, q[j]) /\ RSLINK_VALID(stn, r[k]) /\ q[j].slot = r[k].slot)
EventList(stn, live, q) ==
    /\ q \in Seq(Events) /\ Refers(stn, live, q) /\ Once(stn, q)
    /\ \A k \in DOMAIN q :
          RSLINK_VALID(stn, q[k]) => stn[q[k].slot].issued /\ ~stn[q[k].slot].completed
\* Links: each for an operand that waits, and no other for the same.
Wires(stn, live, f) ==
    /\ Refers(stn, live, f)
    /\ \A k \in DOMAIN f :
          /\ f[k].opnum \in 0..2
          /\ RSLINK_VALID(stn, f[k]) => ~stn[f[k].slot].idep_ready[f[k].opnum]
    /\ \A j, k \in DOMAIN f : /\ RSLINK_VALID(stn, f[j]) /\ RSLINK_VALID(stn, f[k])
                              /\ f[j].slot = f[k].slot /\ f[j].opnum = f[k].opnum
                              => j = k

Sound(stn, live, f, rq, wk, ev) ==
    /\ Typed(stn) /\ Progress(stn, live) /\ Wires(stn, live, f)
    /\ NodeList(stn, live, rq) /\ NodeList(stn, live, wk) /\ Apart(stn, rq, wk)
    /\ EventList(stn, live, ev)

\* All links, by station, output and position.
AllLinks(stn) ==
    [w \in {u \in Slots \X (1..2) \X Nat : u[3] \in DOMAIN stn[u[1]].odep_list[u[2]]} |->
        stn[w[1]].odep_list[w[2]][w[3]]]
\* Who waits waits for an instruction that will have a result.
Holders(stn, live) ==
    \A x \in Slots, i \in 1..2 :
        stn[x].odep_list[i] # <<>> => x \in live /\ ~stn[x].completed /\ stn[x].op # "store"

\* What a create vector has for a register.
Creates(stn, live, c, r, spec) ==
    \E x \in live, i \in 1..2 : /\ c = <<x, i>> /\ stn[x].onames[i] = r /\ ~stn[x].completed
                                /\ stn[x].op # "store" /\ stn[x].spec_mode = spec
Creators(stn, live, cv, scv) ==
    /\ DOMAIN cv = Registers /\ DOMAIN scv = Registers
    /\ \A r \in Registers : /\ cv[r] = NoCreator \/ Creates(stn, live, cv[r], r, FALSE)
                            /\ \/ scv[r] = Unset \/ scv[r] = NoCreator
                               \/ Creates(stn, live, scv[r], r, TRUE)
StoresWriteNothing(stn, live) == \A x \in live : stn[x].op = "store" => stn[x].onames = <<NA, NA>>

\* What the steps that only move an instruction through its stages leave alone.
Frame(stn, stn2) ==
    \A z \in Slots :
        /\ stn2[z].tag = stn[z].tag /\ stn2[z].completed = stn[z].completed
        /\ stn2[z].op = stn[z].op /\ stn2[z].onames = stn[z].onames
        /\ stn2[z].odep_list = stn[z].odep_list /\ stn2[z].spec_mode = stn[z].spec_mode
        /\ stn2[z].ea_comp = stn[z].ea_comp /\ stn2[z].recover_inst = stn[z].recover_inst
        /\ stn2[z].PC = stn[z].PC /\ stn2[z].next_PC = stn[z].next_PC
\* What every step leaves alone of an instruction that stays in flight.
Same(stn, stn2, z) == /\ stn2[z].PC = stn[z].PC /\ stn2[z].next_PC = stn[z].next_PC
                      /\ stn2[z].spec_mode = stn[z].spec_mode
-----------------------------------------------------------------------------
(* Sequences *)

Inserted(q, e, r) ==
    \E p \in 1..Len(q) + 1 :
        /\ DOMAIN r = 1..Len(q) + 1
        /\ \A k \in 1..Len(q) + 1 : r[k] = IF k < p THEN q[k] ELSE IF k = p THEN e ELSE q[k - 1]

\* What the loops that keep the event queue and the ready queue sorted build.
LEMMA InsertBeforeIs ==
  ASSUME NEW T, NEW q \in Seq(T), NEW e \in T, NEW K \in SUBSET DOMAIN q
  PROVE  InsertBefore(q, e, K) \in Seq(T) /\ Inserted(q, e, InsertBefore(q, e, K))
<1>1. CASE K = {}
  <2>1. InsertBefore(q, e, K) = Append(q, e) BY <1>1 DEF InsertBefore
  <2>2. Append(q, e) \in Seq(T) /\ Inserted(q, e, Append(q, e))
    <3> DEFINE r == Append(q, e)
    <3>1. r \in Seq(T) /\ Len(r) = Len(q) + 1 /\ DOMAIN r = 1..Len(q) + 1
          /\ \A k \in 1..Len(q) + 1 : r[k] = IF k < Len(q) + 1 THEN q[k] ELSE e
      OBVIOUS
    <3>2. Len(q) + 1 \in 1..Len(q) + 1 OBVIOUS
    <3> HIDE DEF r
    <3>3. \A k \in 1..Len(q) + 1 : r[k] = IF k < Len(q) + 1 THEN q[k]
                                       ELSE IF k = Len(q) + 1 THEN e ELSE q[k - 1]
      BY <3>1
    <3>4. r \in Seq(T) /\ Inserted(q, e, r) BY <3>1, <3>2, <3>3 DEF Inserted
    <3> QED BY <3>4 DEF r
  <2> QED BY <2>1, <2>2
<1>2. CASE K # {}
  <2> DEFINE p == Min(K)
  <2>1. p \in K
    <3>1. K \in SUBSET Int /\ 1 \in Int /\ \A x \in K : 1 <= x OBVIOUS
    <3>2. \E m \in K : \A x \in K : m <= x BY <1>2, <3>1, LeastExists
    <3> QED BY <3>2 DEF Min
  <2> HIDE DEF p
  <2>2. p \in 1..Len(q) BY <2>1
  <2> DEFINE a == SubSeq(q, 1, p - 1)
             b == SubSeq(q, p, Len(q))
  <2>3. a \in Seq(T) /\ Len(a) = p - 1 /\ \A k \in 1..p - 1 : a[k] = q[k] BY <2>2
  <2>4. b \in Seq(T) /\ Len(b) = Len(q) - p + 1 /\ \A k \in 1..Len(q) - p + 1 : b[k] = q[p + k - 1]
    BY <2>2
  <2>5. InsertBefore(q, e, K) = (a \o <<e>>) \o b BY <1>2 DEF InsertBefore, InsertAt, p
  <2> HIDE DEF a, b
  <2> DEFINE c == a \o <<e>>
  <2>6. c \in Seq(T) /\ Len(c) = p /\ \A k \in 1..p : c[k] = IF k < p THEN q[k] ELSE e
    BY <2>2, <2>3
  <2> HIDE DEF c
  <2> DEFINE r == c \o b
  <2>7. c \in Seq(T) /\ b \in Seq(T) /\ Len(c) = p /\ Len(b) = Len(q) - p + 1
        /\ p \in Nat /\ Len(q) \in Nat
    BY <2>2, <2>4, <2>6
  <2>8. /\ r \in Seq(T) /\ Len(r) = Len(q) + 1 /\ DOMAIN r = 1..Len(q) + 1
        /\ \A k \in 1..Len(q) + 1 : r[k] = IF k <= p THEN c[k] ELSE b[k - p]
    BY ONLY <2>7, SMTT(30)
  <2> HIDE DEF r
  <2>9. \A k \in 1..Len(q) + 1 : r[k] = IF k < p THEN q[k] ELSE IF k = p THEN e ELSE q[k - 1]
    <3> TAKE k \in 1..Len(q) + 1
    <3>1. CASE k <= p
      <4>1. r[k] = c[k] BY <2>8, <3>1
      <4>2. k \in 1..p BY <2>2, <3>1
      <4> QED BY <2>6, <4>1, <4>2, <3>1
    <3>2. CASE k > p
      <4>1. k - p \in 1..Len(q) - p + 1 /\ p + (k - p) - 1 = k - 1 BY <2>2, <3>2
      <4>2. r[k] = b[k - p] BY <2>2, <2>8, <3>2
      <4>3. b[k - p] = q[p + (k - p) - 1] BY <2>4, <4>1
      <4> QED BY <2>2, <3>2, <4>1, <4>2, <4>3
    <3> QED BY <2>2, <3>1, <3>2
  <2>10. p \in 1..Len(q) + 1 /\ DOMAIN r = 1..Len(q) + 1 BY <2>2, <2>8
  <2>11. Inserted(q, e, r) BY ONLY <2>9, <2>10 DEF Inserted
  <2> QED BY <2>5, <2>8, <2>11 DEF c, r
<1> QED BY <1>1, <1>2
-----------------------------------------------------------------------------
(* Slots and stations *)

\* A slot is an index of RUU or one of LSQ.
LEMMA SlotIs ==
  /\ \A i \in 0..RUU_size - 1 : R(i) \in Slots /\ ~in_LSQ(R(i)) /\ R(i)[2] = i
  /\ \A i \in 0..LSQ_size - 1 : L(i) \in Slots /\ in_LSQ(L(i)) /\ L(i)[2] = i
  /\ \A x \in Slots : \/ ~in_LSQ(x) /\ x = R(x[2]) /\ x[2] \in 0..RUU_size - 1
                      \/ in_LSQ(x) /\ x = L(x[2]) /\ x[2] \in 0..LSQ_size - 1
BY DEF Slots, R, L, in_LSQ

\* The slots that the model calls live are those whose index is in use.
LEMMA LiveIs ==
  ASSUME RUU_size \in Nat \ {0}, LSQ_size \in Nat \ {0}, Ring(RUU, RUU_size), Ring(LSQ, LSQ_size)
  PROVE  Live = LiveIn(RUU, LSQ)
<1>1. ASSUME NEW x \in Live PROVE x \in LiveIn(RUU, LSQ)
  <2>1. CASE \E k \in 0..RUU.num - 1 : x = R((RUU.head + k) % RUU_size)
    <3>1. PICK k \in 0..RUU.num - 1 : x = R((RUU.head + k) % RUU_size) BY <2>1
    <3>2. RUU.head \in 0..RUU_size - 1 /\ k \in 0..RUU_size - 1 BY <3>1 DEF Ring
    <3>3. /\ (RUU.head + k) % RUU_size \in 0..RUU_size - 1
          /\ Place((RUU.head + k) % RUU_size, RUU.head, RUU_size) = k
      BY <3>2, Places
    <3>4. k < RUU.num BY <3>1, <3>2 DEF Ring
    <3> QED BY <3>1, <3>3, <3>4, SlotIs DEF LiveIn, InRing
  <2>2. CASE \E k \in 0..LSQ.num - 1 : x = L((LSQ.head + k) % LSQ_size)
    <3>1. PICK k \in 0..LSQ.num - 1 : x = L((LSQ.head + k) % LSQ_size) BY <2>2
    <3>2. LSQ.head \in 0..LSQ_size - 1 /\ k \in 0..LSQ_size - 1 BY <3>1 DEF Ring
    <3>3. /\ (LSQ.head + k) % LSQ_size \in 0..LSQ_size - 1
          /\ Place((LSQ.head + k) % LSQ_size, LSQ.head, LSQ_size) = k
      BY <3>2, Places
    <3>4. k < LSQ.num BY <3>1, <3>2 DEF Ring
    <3> QED BY <3>1, <3>3, <3>4, SlotIs DEF LiveIn, InRing
  <2> QED BY <2>1, <2>2 DEF Live
<1>2. ASSUME NEW x \in LiveIn(RUU, LSQ) PROVE x \in Live
  <2>1. x \in Slots BY DEF LiveIn
  <2>2. CASE ~in_LSQ(x)
    <3>1. x = R(x[2]) /\ x[2] \in 0..RUU_size - 1 BY <2>1, <2>2, SlotIs
    <3>2. RUU.head \in 0..RUU_size - 1 /\ RUU.num \in Nat BY DEF Ring
    <3> DEFINE k == Place(x[2], RUU.head, RUU_size)
    <3>3. k \in 0..RUU_size - 1 /\ (RUU.head + k) % RUU_size = x[2] BY <3>1, <3>2, Places
    <3>4. k < RUU.num BY <2>2 DEF LiveIn, InRing
    <3> HIDE DEF k
    <3>5. k \in 0..RUU.num - 1 BY <3>2, <3>3, <3>4
    <3> QED BY <3>1, <3>3, <3>5 DEF Live
  <2>3. CASE in_LSQ(x)
    <3>1. x = L(x[2]) /\ x[2] \in 0..LSQ_size - 1 BY <2>1, <2>3, SlotIs
    <3>2. LSQ.head \in 0..LSQ_size - 1 /\ LSQ.num \in Nat BY DEF Ring
    <3> DEFINE k == Place(x[2], LSQ.head, LSQ_size)
    <3>3. k \in 0..LSQ_size - 1 /\ (LSQ.head + k) % LSQ_size = x[2] BY <3>1, <3>2, Places
    <3>4. k < LSQ.num BY <2>3 DEF LiveIn, InRing
    <3> HIDE DEF k
    <3>5. k \in 0..LSQ.num - 1 BY <3>2, <3>3, <3>4
    <3> QED BY <3>1, <3>3, <3>5 DEF Live
  <2> QED BY <2>2, <2>3
<1> QED BY <1>1, <1>2

\* The fields of a station.
LEMMA Fields ==
  DOMAIN Blank = {"op", "PC", "next_PC", "ea_comp", "recover_inst", "spec_mode", "addr", "tag",
                  "seq", "queued", "issued", "completed", "idep_ready", "onames", "odep_list"}
BY DEF Blank

\* What the changes of one field make of a station.
LEMMA StationSets ==
  ASSUME NEW s, StationType(s)
  PROVE  /\ \A b \in BOOLEAN : /\ StationType([s EXCEPT !.queued = b])
                               /\ StationType([s EXCEPT !.issued = b])
                               /\ StationType([s EXCEPT !.completed = b])
                               /\ \A k \in 0..2 : StationType([s EXCEPT !.idep_ready[k] = b])
         /\ StationType([s EXCEPT !.tag = @ + 1])
<1>1. \A b \in BOOLEAN : StationType([s EXCEPT !.queued = b]) BY Fields DEF StationType
<1>2. \A b \in BOOLEAN : StationType([s EXCEPT !.issued = b]) BY Fields DEF StationType
<1>3. \A b \in BOOLEAN : StationType([s EXCEPT !.completed = b]) BY Fields DEF StationType
<1>4. \A b \in BOOLEAN, k \in 0..2 : StationType([s EXCEPT !.idep_ready[k] = b])
  BY Fields DEF StationType
<1>5. StationType([s EXCEPT !.tag = @ + 1]) BY Fields DEF StationType
<1> QED BY <1>1, <1>2, <1>3, <1>4, <1>5

\* Which references are stale depends on the tags only.
LEMMA RefsKept ==
  ASSUME NEW stn, NEW stn2, NEW live, NEW q, Refers(stn, live, q),
         \A z \in Slots : stn2[z].tag = stn[z].tag
  PROVE  /\ Refers(stn2, live, q)
         /\ Once(stn, q) => Once(stn2, q)
         /\ \A k \in DOMAIN q : /\ q[k].slot \in Slots
                                /\ RSLINK_VALID(stn2, q[k]) <=> RSLINK_VALID(stn, q[k])
BY DEF Refers, Once, RSLINK_VALID

\* The head and the tail of a queue.
LEMMA TailOf ==
  ASSUME NEW T, NEW q \in Seq(T), q # <<>>
  PROVE  /\ Tail(q) \in Seq(T) /\ Head(q) = q[1] /\ 1 \in DOMAIN q
         /\ \A k \in DOMAIN Tail(q) : k + 1 \in DOMAIN q /\ Tail(q)[k] = q[k + 1] /\ k + 1 # 1
         /\ \A j, k \in DOMAIN Tail(q) : j + 1 = k + 1 => j = k
OBVIOUS

\* The front node of a ready queue leaves it.
LEMMA NodeTaken ==
  ASSUME NEW stn, NEW live, NEW q, NodeList(stn, live, q), q # <<>>
  PROVE  /\ NodeList(stn, live, Tail(q))
         /\ \A r : Apart(stn, r, q) => Apart(stn, r, Tail(q))
         /\ RSLINK_VALID(stn, Head(q)) => /\ Head(q).slot \in live /\ stn[Head(q).slot].queued
                                          /\ \A k \in DOMAIN Tail(q) :
                                                RSLINK_VALID(stn, Tail(q)[k]) =>
                                                    Tail(q)[k].slot # Head(q).slot
                                          /\ \A r : Apart(stn, r, q) =>
                                                \A k \in DOMAIN r : RSLINK_VALID(stn, r[k]) =>
                                                    r[k].slot # Head(q).slot
<1>1. /\ q \in Seq(Nodes) /\ Refers(stn, live, q) /\ Once(stn, q)
      /\ \A k \in DOMAIN q : RSLINK_VALID(stn, q[k]) => stn[q[k].slot].queued
  BY DEF NodeList
<1>2. /\ Tail(q) \in Seq(Nodes) /\ Head(q) = q[1] /\ 1 \in DOMAIN q
      /\ \A k \in DOMAIN Tail(q) : k + 1 \in DOMAIN q /\ Tail(q)[k] = q[k + 1] /\ k + 1 # 1
      /\ \A j, k \in DOMAIN Tail(q) : j + 1 = k + 1 => j = k
  BY <1>1, TailOf
<1>3. Refers(stn, live, Tail(q)) BY <1>1, <1>2 DEF Refers
<1>4. Once(stn, Tail(q)) BY <1>1, <1>2 DEF Once
<1>5. \A k \in DOMAIN Tail(q) : RSLINK_VALID(stn, Tail(q)[k]) => stn[Tail(q)[k].slot].queued
  BY <1>1, <1>2
<1>6. NodeList(stn, live, Tail(q)) BY <1>2, <1>3, <1>4, <1>5 DEF NodeList
<1>7. \A r : Apart(stn, r, q) => Apart(stn, r, Tail(q)) BY <1>2 DEF Apart
<1>8. ASSUME RSLINK_VALID(stn, Head(q))
      PROVE  /\ Head(q).slot \in live /\ stn[Head(q).slot].queued
             /\ \A k \in DOMAIN Tail(q) :
                   RSLINK_VALID(stn, Tail(q)[k]) => Tail(q)[k].slot # Head(q).slot
             /\ \A r : Apart(stn, r, q) =>
                   \A k \in DOMAIN r : RSLINK_VALID(stn, r[k]) => r[k].slot # Head(q).slot
  <2>1. Head(q).slot \in live /\ stn[Head(q).slot].queued BY <1>1, <1>2, <1>8 DEF Refers
  <2>2. ASSUME NEW k \in DOMAIN Tail(q), RSLINK_VALID(stn, Tail(q)[k])
        PROVE  Tail(q)[k].slot # Head(q).slot
    BY <1>1, <1>2, <1>8, <2>2 DEF Once
  <2>3. \A r : Apart(stn, r, q) =>
           \A k \in DOMAIN r : RSLINK_VALID(stn, r[k]) => r[k].slot # Head(q).slot
    BY <1>2, <1>8 DEF Apart
  <2> QED BY <2>1, <2>2, <2>3
<1> QED BY <1>6, <1>7, <1>8
-----------------------------------------------------------------------------
(* Changes of stations and of queues *)

\* A step that changes no tag keeps every reference, if what it says still holds.
LEMMA SoundKept ==
  ASSUME NEW stn, NEW live \in SUBSET Slots, NEW f, NEW rq, NEW wk, NEW ev,
         Sound(stn, live, f, rq, wk, ev),
         NEW stn2, Typed(stn2), Progress(stn2, live), \A z \in Slots : stn2[z].tag = stn[z].tag,
         \A k \in DOMAIN f :
            RSLINK_VALID(stn, f[k]) => ~stn2[f[k].slot].idep_ready[f[k].opnum],
         \A k \in DOMAIN rq : RSLINK_VALID(stn, rq[k]) => stn2[rq[k].slot].queued,
         \A k \in DOMAIN wk : RSLINK_VALID(stn, wk[k]) => stn2[wk[k].slot].queued,
         \A k \in DOMAIN ev :
            RSLINK_VALID(stn, ev[k]) => stn2[ev[k].slot].issued /\ ~stn2[ev[k].slot].completed
  PROVE  Sound(stn2, live, f, rq, wk, ev)
<1>1. /\ Wires(stn, live, f) /\ NodeList(stn, live, rq) /\ NodeList(stn, live, wk)
      /\ Apart(stn, rq, wk) /\ EventList(stn, live, ev)
  BY DEF Sound
<1>2. Wires(stn2, live, f)
  <2>1. Refers(stn, live, f) BY <1>1 DEF Wires
  <2>2. /\ Refers(stn2, live, f)
        /\ \A k \in DOMAIN f : RSLINK_VALID(stn2, f[k]) <=> RSLINK_VALID(stn, f[k])
    BY <2>1, RefsKept
  <2> QED BY <1>1, <2>2 DEF Wires
<1>3. ASSUME NEW q, NodeList(stn, live, q),
             \A k \in DOMAIN q : RSLINK_VALID(stn, q[k]) => stn2[q[k].slot].queued
      PROVE  NodeList(stn2, live, q)
  <2>1. Refers(stn, live, q) /\ Once(stn, q) BY <1>3 DEF NodeList
  <2>2. /\ Refers(stn2, live, q) /\ Once(stn2, q)
        /\ \A k \in DOMAIN q : RSLINK_VALID(stn2, q[k]) <=> RSLINK_VALID(stn, q[k])
    BY <2>1, RefsKept
  <2> QED BY <1>3, <2>2 DEF NodeList
<1>4. NodeList(stn2, live, rq) /\ NodeList(stn2, live, wk) BY <1>1, <1>3
<1>5. Apart(stn2, rq, wk)
  <2>1. Refers(stn, live, rq) /\ Refers(stn, live, wk) BY <1>1 DEF NodeList
  <2>2. /\ \A k \in DOMAIN rq : RSLINK_VALID(stn2, rq[k]) <=> RSLINK_VALID(stn, rq[k])
        /\ \A k \in DOMAIN wk : RSLINK_VALID(stn2, wk[k]) <=> RSLINK_VALID(stn, wk[k])
    BY <2>1, RefsKept
  <2> QED BY <1>1, <2>2 DEF Apart
<1>6. EventList(stn2, live, ev)
  <2>1. Refers(stn, live, ev) /\ Once(stn, ev) BY <1>1 DEF EventList
  <2>2. /\ Refers(stn2, live, ev) /\ Once(stn2, ev)
        /\ \A k \in DOMAIN ev : RSLINK_VALID(stn2, ev[k]) <=> RSLINK_VALID(stn, ev[k])
    BY <2>1, RefsKept
  <2> QED BY <1>1, <2>2 DEF EventList
<1> QED BY <1>2, <1>4, <1>5, <1>6 DEF Sound

\* A node for a queued instruction that has none may be put into the ready queue.
LEMMA NodeInserted ==
  ASSUME NEW stn, NEW live \in SUBSET Slots, NEW f, NEW rq, NEW wk, NEW ev,
         Sound(stn, live, f, rq, wk, ev),
         NEW x \in live, stn[x].queued,
         \A k \in DOMAIN rq : RSLINK_VALID(stn, rq[k]) => rq[k].slot # x,
         \A k \in DOMAIN wk : RSLINK_VALID(stn, wk[k]) => wk[k].slot # x,
         NEW e, e.slot = x, e.tag = stn[x].tag,
         NEW r \in Seq(Nodes), Inserted(rq, e, r)
  PROVE  Sound(stn, live, f, r, wk, ev)
<1>1. /\ Typed(stn) /\ Progress(stn, live) /\ Wires(stn, live, f)
      /\ NodeList(stn, live, rq) /\ NodeList(stn, live, wk) /\ Apart(stn, rq, wk)
      /\ EventList(stn, live, ev)
  BY DEF Sound
<1>2. /\ rq \in Seq(Nodes) /\ Refers(stn, live, rq) /\ Once(stn, rq)
      /\ \A k \in DOMAIN rq : RSLINK_VALID(stn, rq[k]) => stn[rq[k].slot].queued
  BY <1>1 DEF NodeList
<1>3. PICK p \in 1..Len(rq) + 1 :
          /\ DOMAIN r = 1..Len(rq) + 1
          /\ \A k \in 1..Len(rq) + 1 : r[k] = IF k < p THEN rq[k] ELSE IF k = p THEN e ELSE rq[k - 1]
  BY DEF Inserted
<1> DEFINE from(k) == IF k < p THEN k ELSE k - 1
<1>4. Len(rq) \in Nat /\ DOMAIN rq = 1..Len(rq) BY <1>2
<1>5. /\ \A k \in DOMAIN r : k # p => from(k) \in DOMAIN rq /\ r[k] = rq[from(k)]
      /\ \A j, k \in DOMAIN r : j # p /\ k # p /\ from(j) = from(k) => j = k
  BY <1>3, <1>4
<1>6. r[p] = e BY <1>3, <1>4
<1> HIDE DEF from
<1>7. x \in Slots /\ stn[x].tag \in Nat BY <1>1 DEF Typed, StationType
<1>8. Refers(stn, live, r)
  <2> SUFFICES ASSUME NEW k \in DOMAIN r
               PROVE  /\ r[k].slot \in Slots /\ r[k].tag \in Nat
                      /\ r[k].tag <= stn[r[k].slot].tag
                      /\ RSLINK_VALID(stn, r[k]) => r[k].slot \in live
    BY DEF Refers
  <2>1. CASE k = p BY <1>6, <1>7, <2>1
  <2>2. CASE k # p BY <1>2, <1>5, <2>2 DEF Refers
  <2> QED BY <2>1, <2>2
<1>9. Once(stn, r)
  <2>1. \A k \in DOMAIN r : k # p /\ RSLINK_VALID(stn, r[k]) => r[k].slot # x BY <1>5
  <2>2. \A j, k \in DOMAIN r : /\ j # p /\ k # p
                               /\ RSLINK_VALID(stn, r[j]) /\ RSLINK_VALID(stn, r[k])
                               /\ r[j].slot = r[k].slot
                               => j = k
    BY <1>2, <1>5 DEF Once
  <2> QED BY <1>6, <2>1, <2>2 DEF Once
<1>10. \A k \in DOMAIN r : RSLINK_VALID(stn, r[k]) => stn[r[k].slot].queued BY <1>2, <1>5, <1>6
<1>11. Apart(stn, r, wk) BY <1>1, <1>5, <1>6 DEF Apart
<1>12. NodeList(stn, live, r) BY <1>8, <1>9, <1>10 DEF NodeList
<1> QED BY <1>1, <1>11, <1>12 DEF Sound

\* An event for an issued instruction that has none may be put into the event queue.
LEMMA EventInserted ==
  ASSUME NEW stn, NEW live \in SUBSET Slots, NEW f, NEW rq, NEW wk, NEW ev,
         Sound(stn, live, f, rq, wk, ev),
         NEW x \in live, stn[x].issued, ~stn[x].completed,
         \A k \in DOMAIN ev : RSLINK_VALID(stn, ev[k]) => ev[k].slot # x,
         NEW e, e.slot = x, e.tag = stn[x].tag,
         NEW r \in Seq(Events), Inserted(ev, e, r)
  PROVE  Sound(stn, live, f, rq, wk, r)
<1>1. /\ Typed(stn) /\ Progress(stn, live) /\ Wires(stn, live, f)
      /\ NodeList(stn, live, rq) /\ NodeList(stn, live, wk) /\ Apart(stn, rq, wk)
      /\ EventList(stn, live, ev)
  BY DEF Sound
<1>2. /\ ev \in Seq(Events) /\ Refers(stn, live, ev) /\ Once(stn, ev)
      /\ \A k \in DOMAIN ev :
            RSLINK_VALID(stn, ev[k]) => stn[ev[k].slot].issued /\ ~stn[ev[k].slot].completed
  BY <1>1 DEF EventList
<1>3. PICK p \in 1..Len(ev) + 1 :
          /\ DOMAIN r = 1..Len(ev) + 1
          /\ \A k \in 1..Len(ev) + 1 : r[k] = IF k < p THEN ev[k] ELSE IF k = p THEN e ELSE ev[k - 1]
  BY DEF Inserted
<1> DEFINE from(k) == IF k < p THEN k ELSE k - 1
<1>4. Len(ev) \in Nat /\ DOMAIN ev = 1..Len(ev) BY <1>2
<1>5. /\ \A k \in DOMAIN r : k # p => from(k) \in DOMAIN ev /\ r[k] = ev[from(k)]
      /\ \A j, k \in DOMAIN r : j # p /\ k # p /\ from(j) = from(k) => j = k
  BY <1>3, <1>4
<1>6. r[p] = e BY <1>3, <1>4
<1> HIDE DEF from
<1>7. x \in Slots /\ stn[x].tag \in Nat BY <1>1 DEF Typed, StationType
<1>8. Refers(stn, live, r)
  <2> SUFFICES ASSUME NEW k \in DOMAIN r
               PROVE  /\ r[k].slot \in Slots /\ r[k].tag \in Nat
                      /\ r[k].tag <= stn[r[k].slot].tag
                      /\ RSLINK_VALID(stn, r[k]) => r[k].slot \in live
    BY DEF Refers
  <2>1. CASE k = p BY <1>6, <1>7, <2>1
  <2>2. CASE k # p BY <1>2, <1>5, <2>2 DEF Refers
  <2> QED BY <2>1, <2>2
<1>9. Once(stn, r)
  <2>1. \A k \in DOMAIN r : k # p /\ RSLINK_VALID(stn, r[k]) => r[k].slot # x BY <1>5
  <2>2. \A j, k \in DOMAIN r : /\ j # p /\ k # p
                               /\ RSLINK_VALID(stn, r[j]) /\ RSLINK_VALID(stn, r[k])
                               /\ r[j].slot = r[k].slot
                               => j = k
    BY <1>2, <1>5 DEF Once
  <2> QED BY <1>6, <2>1, <2>2 DEF Once
<1>10. \A k \in DOMAIN r :
          RSLINK_VALID(stn, r[k]) => stn[r[k].slot].issued /\ ~stn[r[k].slot].completed
  BY <1>2, <1>5, <1>6
<1>11. EventList(stn, live, r) BY <1>8, <1>9, <1>10 DEF EventList
<1> QED BY <1>1, <1>11 DEF Sound

\* The same with fewer links.
LEMMA FewerWires ==
  ASSUME NEW stn, NEW live \in SUBSET Slots, NEW f, NEW rq, NEW wk, NEW ev,
         Sound(stn, live, f, rq, wk, ev),
         NEW g, DOMAIN g \subseteq DOMAIN f, \A w \in DOMAIN g : g[w] = f[w]
  PROVE  Sound(stn, live, g, rq, wk, ev)
BY DEF Sound, Wires, Refers

\* The front node of the queue gone through leaves it.
LEMMA Taken ==
  ASSUME NEW stn, NEW live \in SUBSET Slots, NEW f, NEW rq, NEW wk, NEW ev,
         Sound(stn, live, f, rq, wk, ev), wk # <<>>
  PROVE  /\ Sound(stn, live, f, rq, Tail(wk), ev)
         /\ RSLINK_VALID(stn, Head(wk)) =>
               /\ Head(wk).slot \in live /\ stn[Head(wk).slot].queued
               /\ \A k \in DOMAIN Tail(wk) :
                     RSLINK_VALID(stn, Tail(wk)[k]) => Tail(wk)[k].slot # Head(wk).slot
               /\ \A k \in DOMAIN rq : RSLINK_VALID(stn, rq[k]) => rq[k].slot # Head(wk).slot
<1>1. /\ Typed(stn) /\ Progress(stn, live) /\ Wires(stn, live, f)
      /\ NodeList(stn, live, rq) /\ NodeList(stn, live, wk) /\ Apart(stn, rq, wk)
      /\ EventList(stn, live, ev)
  BY DEF Sound
<1>2. NodeList(stn, live, Tail(wk)) /\ Apart(stn, rq, Tail(wk)) BY <1>1, NodeTaken
<1>3. Sound(stn, live, f, rq, Tail(wk), ev) BY <1>1, <1>2 DEF Sound
<1> QED BY <1>1, <1>3, NodeTaken
-----------------------------------------------------------------------------
(* Small steps of one instruction *)

\* It leaves the queue that is gone through.
CanTake(stn, live, f, rq, wk, ev, x, stn2) ==
    /\ live \in SUBSET Slots /\ Sound(stn, live, f, rq, wk, ev) /\ wk # <<>>
    /\ RSLINK_VALID(stn, Head(wk)) /\ x = Head(wk).slot
    /\ stn2 = [stn EXCEPT ![x].queued = FALSE]
TakenOut(stn, live, f, rq, wk, ev, x, stn2) ==
    /\ x \in live /\ stn[x].queued
    /\ Sound(stn2, live, f, rq, Tail(wk), ev) /\ Frame(stn, stn2)
    /\ stn2[x] = [stn[x] EXCEPT !.queued = FALSE] /\ ~stn2[x].queued
    /\ \A k \in DOMAIN Tail(wk) : RSLINK_VALID(stn2, Tail(wk)[k]) => Tail(wk)[k].slot # x
    /\ \A k \in DOMAIN rq : RSLINK_VALID(stn2, rq[k]) => rq[k].slot # x
\* ruu_issue() takes a node and clears queued.
LEMMA Unqueued ==
  ASSUME NEW stn, NEW live, NEW f, NEW rq, NEW wk, NEW ev, NEW x, NEW stn2,
         CanTake(stn, live, f, rq, wk, ev, x, stn2)
  PROVE  TakenOut(stn, live, f, rq, wk, ev, x, stn2)
<1> USE DEF CanTake
<1>1. /\ Sound(stn, live, f, rq, Tail(wk), ev)
      /\ x \in live /\ stn[x].queued
      /\ \A k \in DOMAIN Tail(wk) : RSLINK_VALID(stn, Tail(wk)[k]) => Tail(wk)[k].slot # x
      /\ \A k \in DOMAIN rq : RSLINK_VALID(stn, rq[k]) => rq[k].slot # x
  BY Taken
<1>2. /\ Typed(stn) /\ Progress(stn, live) /\ Wires(stn, live, f)
      /\ NodeList(stn, live, rq) /\ NodeList(stn, live, Tail(wk)) /\ EventList(stn, live, ev)
  BY <1>1 DEF Sound
<1>3. x \in Slots /\ StationType(stn[x]) BY <1>1, <1>2 DEF Typed
<1>4. /\ DOMAIN stn2 = Slots /\ stn2[x] = [stn[x] EXCEPT !.queued = FALSE]
      /\ \A z \in Slots : z # x => stn2[z] = stn[z]
  BY <1>2, <1>3 DEF Typed
<1>5. StationType(stn2[x]) BY <1>3, <1>4, StationSets
<1>6. /\ Frame(stn, stn2) /\ ~stn2[x].queued
      /\ \A z \in Slots : /\ stn2[z].tag = stn[z].tag /\ stn2[z].issued = stn[z].issued
                          /\ stn2[z].completed = stn[z].completed
                          /\ stn2[z].idep_ready = stn[z].idep_ready
                          /\ stn2[z].op = stn[z].op /\ stn2[z].recover_inst = stn[z].recover_inst
                          /\ z # x => stn2[z].queued = stn[z].queued
  BY <1>3, <1>4, Fields DEF StationType, Frame
<1>7. Typed(stn2) BY <1>2, <1>4, <1>5 DEF Typed
<1>8. Progress(stn2, live) BY ONLY <1>2, <1>6, live \in SUBSET Slots DEF Progress, OPERANDS_READY
<1>9. /\ \A z \in Slots : stn2[z].tag = stn[z].tag
      /\ \A k \in DOMAIN f : RSLINK_VALID(stn, f[k]) => ~stn2[f[k].slot].idep_ready[f[k].opnum]
      /\ \A k \in DOMAIN rq : RSLINK_VALID(stn, rq[k]) => stn2[rq[k].slot].queued
      /\ \A k \in DOMAIN Tail(wk) : RSLINK_VALID(stn, Tail(wk)[k]) => stn2[Tail(wk)[k].slot].queued
      /\ \A k \in DOMAIN ev :
            RSLINK_VALID(stn, ev[k]) => stn2[ev[k].slot].issued /\ ~stn2[ev[k].slot].completed
  <2>1. \A k \in DOMAIN f : RSLINK_VALID(stn, f[k]) => ~stn2[f[k].slot].idep_ready[f[k].opnum]
    BY ONLY <1>2, <1>6 DEF Wires, Refers
  <2>2. \A k \in DOMAIN rq : RSLINK_VALID(stn, rq[k]) => stn2[rq[k].slot].queued
    BY ONLY <1>1, <1>2, <1>6 DEF NodeList, Refers
  <2>3. \A k \in DOMAIN Tail(wk) :
           RSLINK_VALID(stn, Tail(wk)[k]) => stn2[Tail(wk)[k].slot].queued
    BY ONLY <1>1, <1>2, <1>6 DEF NodeList, Refers
  <2>4. \A k \in DOMAIN ev :
           RSLINK_VALID(stn, ev[k]) => stn2[ev[k].slot].issued /\ ~stn2[ev[k].slot].completed
    BY ONLY <1>2, <1>6 DEF EventList, Refers
  <2>5. \A z \in Slots : stn2[z].tag = stn[z].tag BY ONLY <1>6
  <2> QED BY ONLY <2>1, <2>2, <2>3, <2>4, <2>5
<1>10. Sound(stn2, live, f, rq, Tail(wk), ev) BY <1>1, <1>7, <1>8, <1>9, SoundKept
<1>11. /\ \A k \in DOMAIN Tail(wk) : RSLINK_VALID(stn2, Tail(wk)[k]) => Tail(wk)[k].slot # x
       /\ \A k \in DOMAIN rq : RSLINK_VALID(stn2, rq[k]) => rq[k].slot # x
  BY <1>1, <1>2, <1>9 DEF NodeList, Refers, RSLINK_VALID
<1> QED BY <1>1, <1>4, <1>6, <1>10, <1>11 DEF TakenOut

\* It enters the ready queue.
LEMMA Enqueued ==
  ASSUME NEW S, NEW live \in SUBSET Slots, NEW f, NEW wk, NEW ev,
         {"st", "queue", "panic"} \subseteq DOMAIN S, Sound(S.st, live, f, S.queue, wk, ev),
         NEW x \in live, OPERANDS_READY(S.st[x]),
         ~S.st[x].queued, ~S.st[x].issued, ~S.st[x].completed,
         NEW T, T = readyq_enqueue(S, x)
  PROVE  /\ Sound(T.st, live, f, T.queue, wk, ev) /\ Frame(S.st, T.st)
         /\ DOMAIN T = DOMAIN S /\ \A a \in DOMAIN S \ {"st", "queue"} : T[a] = S[a]
         /\ \A z \in Slots : z # x => T.st[z] = S.st[z]
<1> DEFINE stn == S.st
           e == [slot |-> x, tag |-> stn[x].tag, seq |-> stn[x].seq]
           K == {j \in DOMAIN S.queue : \/ in_LSQ(x) \/ stn[x].op \in {"mul"} \cup Branches
                                        \/ S.queue[j].seq >= stn[x].seq}
           r == InsertBefore(S.queue, e, K)
           stn2 == [stn EXCEPT ![x].queued = TRUE]
<1>1. /\ Typed(stn) /\ Progress(stn, live) /\ Wires(stn, live, f)
      /\ NodeList(stn, live, S.queue) /\ NodeList(stn, live, wk) /\ EventList(stn, live, ev)
  BY DEF Sound
<1>2. x \in Slots /\ StationType(stn[x]) BY <1>1 DEF Typed
<1>3. T = [S EXCEPT !.st[x].queued = TRUE, !.queue = r] BY DEF readyq_enqueue
<1>4. e \in Nodes /\ S.queue \in Seq(Nodes) /\ K \in SUBSET DOMAIN S.queue
  BY <1>1, <1>2 DEF Nodes, StationType, NodeList
<1>5. r \in Seq(Nodes) /\ Inserted(S.queue, e, r)
  <2> HIDE DEF e, K
  <2> QED BY <1>4, InsertBeforeIs
<1>6. e.slot = x /\ e.tag = stn[x].tag OBVIOUS
<1> HIDE DEF e, K, r
<1>7. /\ T.st = stn2 /\ T.queue = r /\ DOMAIN T = DOMAIN S
      /\ \A a \in DOMAIN S \ {"st", "queue"} : T[a] = S[a]
  BY <1>3
<1>8. /\ DOMAIN stn2 = Slots /\ stn2[x] = [stn[x] EXCEPT !.queued = TRUE]
      /\ \A z \in Slots : z # x => stn2[z] = stn[z]
  BY <1>1, <1>2 DEF Typed
<1> HIDE DEF stn2, stn
<1>9. StationType(stn2[x]) BY <1>2, <1>8, StationSets
<1>10. /\ Frame(stn, stn2) /\ stn2[x].queued
       /\ \A z \in Slots : /\ stn2[z].tag = stn[z].tag /\ stn2[z].issued = stn[z].issued
                           /\ stn2[z].completed = stn[z].completed
                           /\ stn2[z].idep_ready = stn[z].idep_ready
                           /\ stn2[z].op = stn[z].op /\ stn2[z].recover_inst = stn[z].recover_inst
                           /\ z # x => stn2[z].queued = stn[z].queued
  BY <1>2, <1>8, Fields DEF StationType, Frame
<1>11. Typed(stn2) BY <1>1, <1>8, <1>9 DEF Typed
<1>12. Progress(stn2, live)
  BY <1>1, <1>10 DEF Progress, OPERANDS_READY, stn
<1>13. /\ \A z \in Slots : stn2[z].tag = stn[z].tag
       /\ \A k \in DOMAIN f : RSLINK_VALID(stn, f[k]) => ~stn2[f[k].slot].idep_ready[f[k].opnum]
       /\ \A k \in DOMAIN S.queue : RSLINK_VALID(stn, S.queue[k]) => stn2[S.queue[k].slot].queued
       /\ \A k \in DOMAIN wk : RSLINK_VALID(stn, wk[k]) => stn2[wk[k].slot].queued
       /\ \A k \in DOMAIN ev :
             RSLINK_VALID(stn, ev[k]) => stn2[ev[k].slot].issued /\ ~stn2[ev[k].slot].completed
  BY <1>1, <1>10 DEF Wires, NodeList, EventList, Refers
<1>14. Sound(stn2, live, f, S.queue, wk, ev)
  <2>1. Sound(stn, live, f, S.queue, wk, ev) BY DEF stn
  <2> QED BY <1>11, <1>12, <1>13, <2>1, SoundKept
<1>15. /\ \A k \in DOMAIN S.queue : RSLINK_VALID(stn2, S.queue[k]) => S.queue[k].slot # x
       /\ \A k \in DOMAIN wk : RSLINK_VALID(stn2, wk[k]) => wk[k].slot # x
  BY <1>1, <1>13 DEF NodeList, Refers, RSLINK_VALID, stn
<1>16. e.tag = stn2[x].tag BY <1>2, <1>6, <1>13
<1>17. Sound(stn2, live, f, r, wk, ev) BY <1>5, <1>6, <1>10, <1>14, <1>15, <1>16, NodeInserted
<1> QED BY <1>7, <1>8, <1>10, <1>17 DEF stn

\* It is executed, and its result will come.
CanIssue(stn, live, f, rq, wk, ev, x, stn2, due, r) ==
    /\ live \in SUBSET Slots /\ Sound(stn, live, f, rq, wk, ev)
    /\ x \in live /\ OPERANDS_READY(stn[x])
    /\ ~stn[x].queued /\ ~stn[x].issued /\ ~stn[x].completed
    /\ stn2 = [stn EXCEPT ![x].issued = TRUE] /\ due \in Nat
    /\ \E K \in SUBSET DOMAIN ev :
          r = InsertBefore(ev, [slot |-> x, tag |-> stn[x].tag, due |-> due], K)
\* ruu_issue() gives an instruction to a unit and puts its event into the event queue.
LEMMA Issued ==
  ASSUME NEW stn, NEW live, NEW f, NEW rq, NEW wk, NEW ev, NEW x, NEW stn2, NEW due, NEW r,
         CanIssue(stn, live, f, rq, wk, ev, x, stn2, due, r)
  PROVE  Sound(stn2, live, f, rq, wk, r) /\ Frame(stn, stn2)
<1> SUFFICES
      ASSUME live \in SUBSET Slots, Sound(stn, live, f, rq, wk, ev),
             x \in live, OPERANDS_READY(stn[x]),
             ~stn[x].queued, ~stn[x].issued, ~stn[x].completed,
             stn2 = [stn EXCEPT ![x].issued = TRUE], due \in Nat, NEW K \in SUBSET DOMAIN ev,
             r = InsertBefore(ev, [slot |-> x, tag |-> stn[x].tag, due |-> due], K)
      PROVE  Sound(stn2, live, f, rq, wk, r) /\ Frame(stn, stn2)
  BY DEF CanIssue
<1>1. /\ Typed(stn) /\ Progress(stn, live) /\ Wires(stn, live, f)
      /\ NodeList(stn, live, rq) /\ NodeList(stn, live, wk) /\ EventList(stn, live, ev)
  BY DEF Sound
<1>2. x \in Slots /\ StationType(stn[x]) BY <1>1 DEF Typed
<1> DEFINE e == [slot |-> x, tag |-> stn[x].tag, due |-> due]
<1>3. e \in Events /\ ev \in Seq(Events) /\ e.slot = x /\ e.tag = stn[x].tag
  BY <1>1, <1>2 DEF Events, StationType, EventList
<1> HIDE DEF e
<1>4. r \in Seq(Events) /\ Inserted(ev, e, r)
  <2>1. r = InsertBefore(ev, e, K) BY DEF e
  <2> QED BY <1>3, <2>1, InsertBeforeIs
<1>5. /\ DOMAIN stn2 = Slots /\ stn2[x] = [stn[x] EXCEPT !.issued = TRUE]
      /\ \A z \in Slots : z # x => stn2[z] = stn[z]
  BY <1>1, <1>2 DEF Typed
<1>6. StationType(stn2[x]) BY <1>2, <1>5, StationSets
<1>7. /\ Frame(stn, stn2) /\ stn2[x].issued
      /\ \A z \in Slots : /\ stn2[z].tag = stn[z].tag /\ stn2[z].queued = stn[z].queued
                          /\ stn2[z].completed = stn[z].completed
                          /\ stn2[z].idep_ready = stn[z].idep_ready
                          /\ stn2[z].op = stn[z].op /\ stn2[z].recover_inst = stn[z].recover_inst
                          /\ z # x => stn2[z].issued = stn[z].issued
  BY <1>2, <1>5, Fields DEF StationType, Frame
<1>8. Typed(stn2) BY <1>1, <1>5, <1>6 DEF Typed
<1>9. Progress(stn2, live) BY <1>1, <1>7 DEF Progress, OPERANDS_READY
<1>10. /\ \A z \in Slots : stn2[z].tag = stn[z].tag
       /\ \A k \in DOMAIN f : RSLINK_VALID(stn, f[k]) => ~stn2[f[k].slot].idep_ready[f[k].opnum]
       /\ \A k \in DOMAIN rq : RSLINK_VALID(stn, rq[k]) => stn2[rq[k].slot].queued
       /\ \A k \in DOMAIN wk : RSLINK_VALID(stn, wk[k]) => stn2[wk[k].slot].queued
       /\ \A k \in DOMAIN ev :
             RSLINK_VALID(stn, ev[k]) => stn2[ev[k].slot].issued /\ ~stn2[ev[k].slot].completed
  BY <1>1, <1>7 DEF Wires, NodeList, EventList, Refers
<1>11. Sound(stn2, live, f, rq, wk, ev) BY <1>8, <1>9, <1>10, SoundKept
<1>12. \A k \in DOMAIN ev : RSLINK_VALID(stn2, ev[k]) => ev[k].slot # x
  BY <1>1, <1>10 DEF EventList, Refers, RSLINK_VALID
<1>13. e.tag = stn2[x].tag /\ ~stn2[x].completed BY <1>2, <1>3, <1>7
<1>14. Sound(stn2, live, f, rq, wk, r)
  <2>1. /\ live \in SUBSET Slots /\ x \in live /\ stn2[x].issued /\ e.slot = x
    BY <1>3, <1>7
  <2> QED BY ONLY <1>4, <1>11, <1>12, <1>13, <2>1, EventInserted
<1> QED BY <1>7, <1>14

\* A store is executed: it has no result.
CanIssueStore(stn, live, f, rq, wk, ev, x, stn2) ==
    /\ live \in SUBSET Slots /\ Sound(stn, live, f, rq, wk, ev)
    /\ x \in live /\ OPERANDS_READY(stn[x])
    /\ ~stn[x].queued /\ ~stn[x].issued /\ ~stn[x].completed
    /\ stn2 = [stn EXCEPT ![x].issued = TRUE, ![x].completed = TRUE]
DoneStore(stn, live, f, rq, wk, ev, x, stn2) ==
    /\ Sound(stn2, live, f, rq, wk, ev)
    /\ stn2[x] = [stn[x] EXCEPT !.issued = TRUE, !.completed = TRUE]
    /\ \A z \in Slots : z # x => stn2[z] = stn[z]
\* ruu_issue() completes a store at once: it needs no unit.
LEMMA StoreIssued ==
  ASSUME NEW stn, NEW live, NEW f, NEW rq, NEW wk, NEW ev, NEW x, NEW stn2,
         CanIssueStore(stn, live, f, rq, wk, ev, x, stn2)
  PROVE  DoneStore(stn, live, f, rq, wk, ev, x, stn2)
<1> SUFFICES
      ASSUME live \in SUBSET Slots, Sound(stn, live, f, rq, wk, ev),
             x \in live, OPERANDS_READY(stn[x]),
             ~stn[x].queued, ~stn[x].issued, ~stn[x].completed,
             stn2 = [stn EXCEPT ![x].issued = TRUE, ![x].completed = TRUE]
      PROVE  DoneStore(stn, live, f, rq, wk, ev, x, stn2)
  BY DEF CanIssueStore
<1>1. /\ Typed(stn) /\ Progress(stn, live) /\ Wires(stn, live, f)
      /\ NodeList(stn, live, rq) /\ NodeList(stn, live, wk) /\ EventList(stn, live, ev)
  BY DEF Sound
<1>2. x \in Slots /\ StationType(stn[x]) BY <1>1 DEF Typed
<1>3. /\ DOMAIN stn2 = Slots /\ stn2[x] = [stn[x] EXCEPT !.issued = TRUE, !.completed = TRUE]
      /\ \A z \in Slots : z # x => stn2[z] = stn[z]
  BY <1>1, <1>2 DEF Typed
<1>4. StationType(stn2[x])
  <2>1. StationType([stn[x] EXCEPT !.issued = TRUE]) BY <1>2, StationSets
  <2>2. StationType([[stn[x] EXCEPT !.issued = TRUE] EXCEPT !.completed = TRUE])
    BY <2>1, StationSets
  <2> QED BY <1>3, <2>2
<1>5. /\ stn2[x].issued /\ stn2[x].completed
      /\ \A z \in Slots : /\ stn2[z].tag = stn[z].tag /\ stn2[z].queued = stn[z].queued
                          /\ stn2[z].idep_ready = stn[z].idep_ready
                          /\ stn2[z].op = stn[z].op /\ stn2[z].recover_inst = stn[z].recover_inst
                          /\ z # x => /\ stn2[z].issued = stn[z].issued
                                      /\ stn2[z].completed = stn[z].completed
  BY <1>2, <1>3, Fields DEF StationType
<1>6. Typed(stn2) BY <1>1, <1>3, <1>4 DEF Typed
<1>7. Progress(stn2, live)
  <2> SUFFICES ASSUME NEW z \in live
               PROVE  /\ stn2[z].queued => /\ OPERANDS_READY(stn2[z])
                                          /\ ~stn2[z].issued /\ ~stn2[z].completed
                      /\ stn2[z].issued => OPERANDS_READY(stn2[z])
                      /\ stn2[z].completed => stn2[z].issued
                      /\ in_LSQ(z) => stn2[z].op \in Memory /\ ~stn2[z].recover_inst
                      /\ ~in_LSQ(z) => stn2[z].op # "store"
    BY DEF Progress
  <2>1. OPERANDS_READY(stn2[z]) <=> OPERANDS_READY(stn[z]) BY <1>5 DEF OPERANDS_READY
  <2>2. /\ stn[z].queued => /\ OPERANDS_READY(stn[z]) /\ ~stn[z].issued /\ ~stn[z].completed
        /\ stn[z].issued => OPERANDS_READY(stn[z])
        /\ stn[z].completed => stn[z].issued
        /\ in_LSQ(z) => stn[z].op \in Memory /\ ~stn[z].recover_inst
        /\ ~in_LSQ(z) => stn[z].op # "store"
    BY <1>1 DEF Progress
  <2>3. /\ stn2[z].queued = stn[z].queued
        /\ stn2[z].op = stn[z].op /\ stn2[z].recover_inst = stn[z].recover_inst
        /\ z # x => stn2[z].issued = stn[z].issued /\ stn2[z].completed = stn[z].completed
    BY <1>5
  <2>4. CASE z = x BY ONLY <1>5, <2>1, <2>2, <2>3, <2>4, OPERANDS_READY(stn[x]), ~stn[x].queued
  <2>5. CASE z # x BY ONLY <2>1, <2>2, <2>3, <2>5
  <2> QED BY ONLY <2>4, <2>5
<1>8. /\ \A z \in Slots : stn2[z].tag = stn[z].tag
      /\ \A k \in DOMAIN f : RSLINK_VALID(stn, f[k]) => ~stn2[f[k].slot].idep_ready[f[k].opnum]
      /\ \A k \in DOMAIN rq : RSLINK_VALID(stn, rq[k]) => stn2[rq[k].slot].queued
      /\ \A k \in DOMAIN wk : RSLINK_VALID(stn, wk[k]) => stn2[wk[k].slot].queued
      /\ \A k \in DOMAIN ev :
            RSLINK_VALID(stn, ev[k]) => stn2[ev[k].slot].issued /\ ~stn2[ev[k].slot].completed
  <2>1. \A k \in DOMAIN ev :
           RSLINK_VALID(stn, ev[k]) => stn2[ev[k].slot].issued /\ ~stn2[ev[k].slot].completed
    <3> TAKE k \in DOMAIN ev
    <3>1. RSLINK_VALID(stn, ev[k]) => /\ ev[k].slot \in Slots /\ ev[k].slot # x
                                      /\ stn[ev[k].slot].issued /\ ~stn[ev[k].slot].completed
      BY <1>1 DEF EventList, Refers
    <3> QED BY <1>3, <3>1
  <2>2. \A k \in DOMAIN f : RSLINK_VALID(stn, f[k]) => ~stn2[f[k].slot].idep_ready[f[k].opnum]
    BY <1>1, <1>5 DEF Wires, Refers
  <2>3. ASSUME NEW q, NodeList(stn, live, q)
        PROVE  \A k \in DOMAIN q : RSLINK_VALID(stn, q[k]) => stn2[q[k].slot].queued
    <3>1. \A k \in DOMAIN q : /\ q[k].slot \in Slots
                              /\ RSLINK_VALID(stn, q[k]) => stn[q[k].slot].queued
      BY ONLY <2>3 DEF NodeList, Refers
    <3>2. \A z \in Slots : stn2[z].queued = stn[z].queued BY <1>5
    <3> QED BY ONLY <3>1, <3>2
  <2>4. \A z \in Slots : stn2[z].tag = stn[z].tag BY <1>5
  <2> QED BY ONLY <1>1, <2>1, <2>2, <2>3, <2>4
<1>9. Sound(stn2, live, f, rq, wk, ev) BY <1>6, <1>7, <1>8, SoundKept
<1> QED BY <1>3, <1>9 DEF DoneStore

\* An event leaves the queue.
LEMMA EventTaken ==
  ASSUME NEW stn, NEW live \in SUBSET Slots, NEW f, NEW rq, NEW wk, NEW ev,
         Sound(stn, live, f, rq, wk, ev), ev # <<>>
  PROVE  /\ Sound(stn, live, f, rq, wk, Tail(ev))
         /\ RSLINK_VALID(stn, Head(ev)) =>
               /\ Head(ev).slot \in live
               /\ stn[Head(ev).slot].issued /\ ~stn[Head(ev).slot].completed
               /\ \A k \in DOMAIN Tail(ev) :
                     RSLINK_VALID(stn, Tail(ev)[k]) => Tail(ev)[k].slot # Head(ev).slot
<1>1. /\ ev \in Seq(Events) /\ Refers(stn, live, ev) /\ Once(stn, ev)
      /\ \A k \in DOMAIN ev :
            RSLINK_VALID(stn, ev[k]) => stn[ev[k].slot].issued /\ ~stn[ev[k].slot].completed
  BY DEF Sound, EventList
<1>2. /\ Tail(ev) \in Seq(Events) /\ Head(ev) = ev[1] /\ 1 \in DOMAIN ev
      /\ \A k \in DOMAIN Tail(ev) : k + 1 \in DOMAIN ev /\ Tail(ev)[k] = ev[k + 1] /\ k + 1 # 1
      /\ \A j, k \in DOMAIN Tail(ev) : j + 1 = k + 1 => j = k
  BY <1>1, TailOf
<1>3. Refers(stn, live, Tail(ev)) BY <1>1, <1>2 DEF Refers
<1>4. Once(stn, Tail(ev)) BY <1>1, <1>2 DEF Once
<1>5. EventList(stn, live, Tail(ev)) BY <1>1, <1>2, <1>3, <1>4 DEF EventList
<1>6. Sound(stn, live, f, rq, wk, Tail(ev)) BY <1>5 DEF Sound
<1>7. ASSUME RSLINK_VALID(stn, Head(ev))
      PROVE  /\ Head(ev).slot \in live
             /\ stn[Head(ev).slot].issued /\ ~stn[Head(ev).slot].completed
             /\ \A k \in DOMAIN Tail(ev) :
                   RSLINK_VALID(stn, Tail(ev)[k]) => Tail(ev)[k].slot # Head(ev).slot
  BY <1>1, <1>2, <1>7 DEF Refers, Once
<1> QED BY <1>6, <1>7

\* Its result is there; who waited for it is told one after the other.
LEMMA Completed ==
  ASSUME NEW stn, NEW live \in SUBSET Slots, NEW f, NEW rq, NEW wk, NEW ev,
         Sound(stn, live, f, rq, wk, ev),
         NEW x \in live, stn[x].issued, ~stn[x].completed,
         \A k \in DOMAIN ev : RSLINK_VALID(stn, ev[k]) => ev[k].slot # x,
         NEW stn2, DOMAIN stn2 = Slots, \A z \in Slots : z # x => stn2[z] = stn[z],
         stn2[x] = [stn[x] EXCEPT !.completed = TRUE, !.odep_list = <<<<>>, <<>>>>]
  PROVE  Sound(stn2, live, f, rq, wk, ev)
<1>1. /\ Typed(stn) /\ Progress(stn, live) /\ Wires(stn, live, f)
      /\ NodeList(stn, live, rq) /\ NodeList(stn, live, wk) /\ EventList(stn, live, ev)
  BY DEF Sound
<1>2. x \in Slots /\ StationType(stn[x]) BY <1>1 DEF Typed
<1> DEFINE none == <<<<>>, <<>>>>
<1>n. /\ stn2[x] = [stn[x] EXCEPT !.completed = TRUE, !.odep_list = none]
      /\ DOMAIN none = 1..2 /\ \A i \in 1..2 : none[i] \in Seq(Links)
  OBVIOUS
<1> HIDE DEF none
<1>3. StationType(stn2[x]) BY <1>2, <1>n, Fields DEF StationType
<1>4. /\ stn2[x].completed
      /\ \A z \in Slots : /\ stn2[z].tag = stn[z].tag /\ stn2[z].queued = stn[z].queued
                          /\ stn2[z].issued = stn[z].issued
                          /\ stn2[z].idep_ready = stn[z].idep_ready
                          /\ stn2[z].op = stn[z].op /\ stn2[z].recover_inst = stn[z].recover_inst
                          /\ z # x => stn2[z].completed = stn[z].completed
  <2>1. /\ stn2[x].completed /\ stn2[x].tag = stn[x].tag /\ stn2[x].queued = stn[x].queued
        /\ stn2[x].issued = stn[x].issued /\ stn2[x].idep_ready = stn[x].idep_ready
        /\ stn2[x].op = stn[x].op /\ stn2[x].recover_inst = stn[x].recover_inst
    BY ONLY <1>2, <1>n, Fields DEF StationType
  <2> QED BY ONLY <2>1, \A z \in Slots : z # x => stn2[z] = stn[z]
<1>5. Typed(stn2) BY <1>1, <1>3 DEF Typed
<1>6. Progress(stn2, live) BY <1>1, <1>4 DEF Progress, OPERANDS_READY
<1>7. /\ \A z \in Slots : stn2[z].tag = stn[z].tag
      /\ \A k \in DOMAIN f : RSLINK_VALID(stn, f[k]) => ~stn2[f[k].slot].idep_ready[f[k].opnum]
      /\ \A k \in DOMAIN rq : RSLINK_VALID(stn, rq[k]) => stn2[rq[k].slot].queued
      /\ \A k \in DOMAIN wk : RSLINK_VALID(stn, wk[k]) => stn2[wk[k].slot].queued
      /\ \A k \in DOMAIN ev :
            RSLINK_VALID(stn, ev[k]) => stn2[ev[k].slot].issued /\ ~stn2[ev[k].slot].completed
  BY <1>1, <1>4 DEF Wires, NodeList, EventList, Refers
<1> QED BY <1>5, <1>6, <1>7, SoundKept

\* One that waits is told.
LEMMA Woken ==
  ASSUME NEW S, NEW live \in SUBSET Slots, NEW f, NEW wk, NEW ev,
         {"st", "queue", "panic"} \subseteq DOMAIN S, Sound(S.st, live, f, S.queue, wk, ev),
         NEW i \in DOMAIN f, NEW g, DOMAIN g = DOMAIN f \ {i}, \A w \in DOMAIN g : g[w] = f[w],
         NEW T, T = Wake(S, f[i])
  PROVE  /\ Sound(T.st, live, g, T.queue, wk, ev) /\ Frame(S.st, T.st)
         /\ DOMAIN T = DOMAIN S /\ T.panic = S.panic
<1> DEFINE stn == S.st
           l == f[i]
           x == l.slot
           s == [stn[x] EXCEPT !.idep_ready[l.opnum] = TRUE]
           stn2 == [stn EXCEPT ![x] = s]
           U == [S EXCEPT !.st[x] = s]
<1>1. Sound(stn, live, g, S.queue, wk, ev) BY FewerWires
<1>2. CASE ~RSLINK_VALID(stn, l)
  <2>1. T = S BY <1>2 DEF Wake
  <2> QED BY <1>1, <2>1 DEF Frame
<1>3. CASE RSLINK_VALID(stn, l)
  <2>1. /\ Typed(stn) /\ Progress(stn, live) /\ Wires(stn, live, f)
        /\ NodeList(stn, live, S.queue) /\ NodeList(stn, live, wk) /\ EventList(stn, live, ev)
    BY DEF Sound
  <2>2. /\ x \in live /\ x \in Slots /\ l.opnum \in 0..2 /\ ~stn[x].idep_ready[l.opnum]
        /\ \A w \in DOMAIN g : RSLINK_VALID(stn, g[w]) =>
                                  /\ g[w].slot \in Slots /\ g[w].opnum \in 0..2
                                  /\ ~stn[g[w].slot].idep_ready[g[w].opnum]
                                  /\ g[w].slot = x => g[w].opnum # l.opnum
    BY <1>3, <2>1 DEF Wires, Refers
  <2>3. StationType(stn[x]) BY <2>1, <2>2 DEF Typed
  <2>4. ~stn[x].queued /\ ~stn[x].issued /\ ~stn[x].completed
    BY <2>1, <2>2, <2>3 DEF Progress, OPERANDS_READY, StationType
  <2>5. StationType(s) BY <2>2, <2>3, StationSets
  <2>6. /\ DOMAIN stn2 = Slots /\ stn2[x] = s
        /\ \A z \in Slots : z # x => stn2[z] = stn[z]
    BY <2>1, <2>2 DEF Typed
  <2>7. /\ s.tag = stn[x].tag /\ s.queued = stn[x].queued
        /\ s.issued = stn[x].issued /\ s.completed = stn[x].completed
        /\ s.op = stn[x].op /\ s.recover_inst = stn[x].recover_inst
        /\ s.onames = stn[x].onames /\ s.odep_list = stn[x].odep_list
        /\ s.spec_mode = stn[x].spec_mode /\ s.ea_comp = stn[x].ea_comp
        /\ s.PC = stn[x].PC /\ s.next_PC = stn[x].next_PC
        /\ s.idep_ready[l.opnum]
        /\ \A k \in 0..2 : k # l.opnum => s.idep_ready[k] = stn[x].idep_ready[k]
    BY <2>2, <2>3, Fields DEF StationType
  <2>8. /\ T = IF OPERANDS_READY(s) /\ s.op # "load" THEN readyq_enqueue(U, x) ELSE U
        /\ DOMAIN U = DOMAIN S /\ U.st = stn2 /\ U.queue = S.queue /\ U.panic = S.panic
    BY <1>3, <2>2 DEF Wake
  <2> HIDE DEF s, stn2, U
  <2>9. /\ Frame(stn, stn2)
        /\ \A z \in Slots : /\ stn2[z].tag = stn[z].tag /\ stn2[z].queued = stn[z].queued
                            /\ stn2[z].issued = stn[z].issued
                            /\ stn2[z].completed = stn[z].completed
                            /\ stn2[z].op = stn[z].op
                            /\ stn2[z].recover_inst = stn[z].recover_inst
                            /\ z # x => stn2[z].idep_ready = stn[z].idep_ready
    BY <2>6, <2>7 DEF Frame
  <2>10. Typed(stn2) BY <2>1, <2>5, <2>6 DEF Typed
  <2>11. Progress(stn2, live) BY <2>1, <2>4, <2>6, <2>7, <2>9 DEF Progress, OPERANDS_READY
  <2>12. /\ \A z \in Slots : stn2[z].tag = stn[z].tag
         /\ \A k \in DOMAIN g :
               RSLINK_VALID(stn, g[k]) => ~stn2[g[k].slot].idep_ready[g[k].opnum]
         /\ \A k \in DOMAIN S.queue : RSLINK_VALID(stn, S.queue[k]) => stn2[S.queue[k].slot].queued
         /\ \A k \in DOMAIN wk : RSLINK_VALID(stn, wk[k]) => stn2[wk[k].slot].queued
         /\ \A k \in DOMAIN ev :
               RSLINK_VALID(stn, ev[k]) => stn2[ev[k].slot].issued /\ ~stn2[ev[k].slot].completed
    <3>1. \A k \in DOMAIN g :
             RSLINK_VALID(stn, g[k]) => ~stn2[g[k].slot].idep_ready[g[k].opnum]
      BY <2>2, <2>6, <2>7
    <3> QED BY <2>1, <2>9, <3>1 DEF NodeList, EventList, Refers
  <2>13. Sound(stn2, live, g, S.queue, wk, ev)
    <3> HIDE DEF stn
    <3> QED BY <1>1, <2>10, <2>11, <2>12, SoundKept
  <2>14. CASE ~(OPERANDS_READY(s) /\ s.op # "load")
    BY <2>8, <2>9, <2>13, <2>14
  <2>15. CASE OPERANDS_READY(s) /\ s.op # "load"
    <3>1. /\ {"st", "queue", "panic"} \subseteq DOMAIN U /\ Sound(U.st, live, g, U.queue, wk, ev)
          /\ x \in live /\ OPERANDS_READY(U.st[x]) /\ T = readyq_enqueue(U, x)
          /\ ~U.st[x].queued /\ ~U.st[x].issued /\ ~U.st[x].completed
      BY <2>2, <2>4, <2>6, <2>7, <2>8, <2>13, <2>15
    <3>2. /\ Sound(T.st, live, g, T.queue, wk, ev) /\ Frame(U.st, T.st)
          /\ DOMAIN T = DOMAIN U /\ \A a \in DOMAIN U \ {"st", "queue"} : T[a] = U[a]
      <4>1. live \in SUBSET Slots OBVIOUS
      <4> QED BY ONLY <3>1, <4>1, Enqueued
    <3>3. T.panic = U.panic BY <3>1, <3>2
    <3>4. Frame(stn, T.st) BY <2>8, <2>9, <3>2 DEF Frame
    <3> QED BY <2>8, <3>2, <3>3, <3>4
  <2> QED BY <2>14, <2>15
<1> QED BY <1>2, <1>3

\* Instructions leave their stations, at the head when they retire or behind a branch: what
\* refers to them becomes stale.
LEMMA Leave ==
  ASSUME NEW stn, NEW live \in SUBSET Slots, NEW f, NEW rq, NEW wk, NEW ev,
         Sound(stn, live, f, rq, wk, ev),
         NEW gone \in SUBSET live, NEW stn2, DOMAIN stn2 = Slots,
         \A z \in Slots \ gone : stn2[z] = stn[z],
         \A z \in gone : StationType(stn2[z]) /\ stn2[z].tag = stn[z].tag + 1
  PROVE  Sound(stn2, live \ gone, f, rq, wk, ev)
<1>1. /\ Typed(stn) /\ Progress(stn, live) /\ Wires(stn, live, f)
      /\ NodeList(stn, live, rq) /\ NodeList(stn, live, wk) /\ Apart(stn, rq, wk)
      /\ EventList(stn, live, ev)
  BY DEF Sound
<1>2. \A z \in Slots : stn[z].tag \in Nat BY <1>1 DEF Typed, StationType
<1>3. Typed(stn2) BY <1>1 DEF Typed
<1>4. Progress(stn2, live \ gone) BY <1>1 DEF Progress
<1>5. ASSUME NEW q, Refers(stn, live, q)
      PROVE  /\ Refers(stn2, live \ gone, q)
             /\ \A k \in DOMAIN q : RSLINK_VALID(stn2, q[k]) =>
                   /\ RSLINK_VALID(stn, q[k])
                   /\ q[k].slot \in Slots /\ stn2[q[k].slot] = stn[q[k].slot]
  <2> SUFFICES ASSUME NEW k \in DOMAIN q
               PROVE  /\ q[k].slot \in Slots /\ q[k].tag \in Nat
                      /\ q[k].tag <= stn2[q[k].slot].tag
                      /\ RSLINK_VALID(stn2, q[k]) =>
                            /\ q[k].slot \in live \ gone /\ RSLINK_VALID(stn, q[k])
                            /\ stn2[q[k].slot] = stn[q[k].slot]
    BY DEF Refers
  <2>1. /\ q[k].slot \in Slots /\ q[k].tag \in Nat /\ q[k].tag <= stn[q[k].slot].tag
        /\ RSLINK_VALID(stn, q[k]) => q[k].slot \in live
    BY <1>5 DEF Refers
  <2>2. CASE q[k].slot \in gone BY <1>2, <2>1, <2>2 DEF RSLINK_VALID
  <2>3. CASE q[k].slot \notin gone BY <2>1, <2>3 DEF RSLINK_VALID
  <2> QED BY <2>2, <2>3
<1>6. Wires(stn2, live \ gone, f)
  <2>1. Refers(stn, live, f) BY <1>1 DEF Wires
  <2>2. /\ Refers(stn2, live \ gone, f)
        /\ \A k \in DOMAIN f : RSLINK_VALID(stn2, f[k]) =>
              RSLINK_VALID(stn, f[k]) /\ f[k].slot \in Slots /\ stn2[f[k].slot] = stn[f[k].slot]
    BY <1>5, <2>1
  <2> QED BY ONLY <1>1, <2>2 DEF Wires
<1>7. ASSUME NEW q, NodeList(stn, live, q) PROVE NodeList(stn2, live \ gone, q)
  <2>1. Refers(stn, live, q) BY <1>7 DEF NodeList
  <2>2. /\ Refers(stn2, live \ gone, q)
        /\ \A k \in DOMAIN q : RSLINK_VALID(stn2, q[k]) =>
              RSLINK_VALID(stn, q[k]) /\ q[k].slot \in Slots /\ stn2[q[k].slot] = stn[q[k].slot]
    BY <1>5, <2>1
  <2> QED BY ONLY <1>7, <2>2 DEF NodeList, Once
<1>8. NodeList(stn2, live \ gone, rq) /\ NodeList(stn2, live \ gone, wk) BY <1>1, <1>7
<1>9. Apart(stn2, rq, wk)
  <2>1. Refers(stn, live, rq) /\ Refers(stn, live, wk) BY <1>1 DEF NodeList
  <2>2. /\ \A k \in DOMAIN rq : RSLINK_VALID(stn2, rq[k]) => RSLINK_VALID(stn, rq[k])
        /\ \A k \in DOMAIN wk : RSLINK_VALID(stn2, wk[k]) => RSLINK_VALID(stn, wk[k])
    BY <1>5, <2>1
  <2> QED BY ONLY <1>1, <2>2 DEF Apart
<1>10. EventList(stn2, live \ gone, ev)
  <2>1. Refers(stn, live, ev) BY <1>1 DEF EventList
  <2>2. /\ Refers(stn2, live \ gone, ev)
        /\ \A k \in DOMAIN ev : RSLINK_VALID(stn2, ev[k]) =>
              RSLINK_VALID(stn, ev[k]) /\ ev[k].slot \in Slots /\ stn2[ev[k].slot] = stn[ev[k].slot]
    BY <1>5, <2>1
  <2> QED BY ONLY <1>1, <2>2 DEF EventList, Once
<1> QED BY <1>3, <1>4, <1>6, <1>8, <1>9, <1>10 DEF Sound

\* Instructions take stations that are free: nothing refers to them yet.
CanEnter(stn, live, new, stn2) ==
    /\ live \in SUBSET Slots /\ new \in SUBSET Slots /\ new \cap live = {}
    /\ DOMAIN stn2 = Slots /\ \A z \in Slots \ new : stn2[z] = stn[z]
    /\ \A z \in new : /\ StationType(stn2[z]) /\ stn2[z].tag = stn[z].tag
                      /\ ~stn2[z].queued /\ ~stn2[z].issued /\ ~stn2[z].completed
                      /\ in_LSQ(z) => stn2[z].op \in Memory /\ ~stn2[z].recover_inst
                      /\ ~in_LSQ(z) => stn2[z].op # "store"

\* Instructions enter slots that were free; every old reference to these is stale by then.
LEMMA Enter ==
  ASSUME NEW stn, NEW live, NEW f, NEW rq, NEW wk, NEW ev, Sound(stn, live, f, rq, wk, ev),
         NEW new, NEW stn2, CanEnter(stn, live, new, stn2)
  PROVE  /\ Sound(stn2, live \cup new, f, rq, wk, ev)
         /\ \A w \in DOMAIN f : RSLINK_VALID(stn2, f[w]) => f[w].slot \notin new
<1> SUFFICES
      ASSUME live \in SUBSET Slots, new \in SUBSET Slots, new \cap live = {},
             DOMAIN stn2 = Slots, \A z \in Slots \ new : stn2[z] = stn[z],
             \A z \in new : /\ StationType(stn2[z]) /\ stn2[z].tag = stn[z].tag
                            /\ ~stn2[z].queued /\ ~stn2[z].issued /\ ~stn2[z].completed
                            /\ in_LSQ(z) => stn2[z].op \in Memory /\ ~stn2[z].recover_inst
                            /\ ~in_LSQ(z) => stn2[z].op # "store"
      PROVE  /\ Sound(stn2, live \cup new, f, rq, wk, ev)
             /\ \A w \in DOMAIN f : RSLINK_VALID(stn2, f[w]) => f[w].slot \notin new
  BY DEF CanEnter
<1>1. /\ Typed(stn) /\ Progress(stn, live) /\ Wires(stn, live, f)
      /\ NodeList(stn, live, rq) /\ NodeList(stn, live, wk) /\ Apart(stn, rq, wk)
      /\ EventList(stn, live, ev)
  BY DEF Sound
<1>2. \A z \in Slots : stn2[z].tag = stn[z].tag OBVIOUS
<1>3. Typed(stn2) BY <1>1 DEF Typed
<1>4. Progress(stn2, live \cup new) BY <1>1 DEF Progress
<1>5. ASSUME NEW q, Refers(stn, live, q)
      PROVE  /\ Refers(stn2, live \cup new, q)
             /\ \A k \in DOMAIN q : RSLINK_VALID(stn2, q[k]) =>
                   /\ RSLINK_VALID(stn, q[k])
                   /\ q[k].slot \in Slots \ new /\ stn2[q[k].slot] = stn[q[k].slot]
  <2> SUFFICES ASSUME NEW k \in DOMAIN q
               PROVE  /\ q[k].slot \in Slots /\ q[k].tag \in Nat
                      /\ q[k].tag <= stn2[q[k].slot].tag
                      /\ RSLINK_VALID(stn2, q[k]) =>
                            /\ q[k].slot \in live \cup new /\ RSLINK_VALID(stn, q[k])
                            /\ q[k].slot \notin new /\ stn2[q[k].slot] = stn[q[k].slot]
    BY DEF Refers
  <2>1. /\ q[k].slot \in Slots /\ q[k].tag \in Nat /\ q[k].tag <= stn[q[k].slot].tag
        /\ RSLINK_VALID(stn, q[k]) => q[k].slot \in live
    BY <1>5 DEF Refers
  <2> QED BY <1>2, <2>1 DEF RSLINK_VALID
<1>6. Wires(stn2, live \cup new, f)
  <2>1. Refers(stn, live, f) BY <1>1 DEF Wires
  <2>2. /\ Refers(stn2, live \cup new, f)
        /\ \A k \in DOMAIN f : RSLINK_VALID(stn2, f[k]) =>
              RSLINK_VALID(stn, f[k]) /\ f[k].slot \in Slots /\ stn2[f[k].slot] = stn[f[k].slot]
    BY <1>5, <2>1
  <2> QED BY ONLY <1>1, <2>2 DEF Wires
<1>7. ASSUME NEW q, NodeList(stn, live, q) PROVE NodeList(stn2, live \cup new, q)
  <2>1. Refers(stn, live, q) BY <1>7 DEF NodeList
  <2>2. /\ Refers(stn2, live \cup new, q)
        /\ \A k \in DOMAIN q : RSLINK_VALID(stn2, q[k]) =>
              RSLINK_VALID(stn, q[k]) /\ q[k].slot \in Slots /\ stn2[q[k].slot] = stn[q[k].slot]
    BY <1>5, <2>1
  <2> QED BY ONLY <1>7, <2>2 DEF NodeList, Once
<1>8. NodeList(stn2, live \cup new, rq) /\ NodeList(stn2, live \cup new, wk) BY <1>1, <1>7
<1>9. Apart(stn2, rq, wk)
  <2>1. Refers(stn, live, rq) /\ Refers(stn, live, wk) BY <1>1 DEF NodeList
  <2>2. /\ \A k \in DOMAIN rq : RSLINK_VALID(stn2, rq[k]) => RSLINK_VALID(stn, rq[k])
        /\ \A k \in DOMAIN wk : RSLINK_VALID(stn2, wk[k]) => RSLINK_VALID(stn, wk[k])
    BY <1>5, <2>1
  <2> QED BY ONLY <1>1, <2>2 DEF Apart
<1>10. EventList(stn2, live \cup new, ev)
  <2>1. Refers(stn, live, ev) BY <1>1 DEF EventList
  <2>2. /\ Refers(stn2, live \cup new, ev)
        /\ \A k \in DOMAIN ev : RSLINK_VALID(stn2, ev[k]) =>
              RSLINK_VALID(stn, ev[k]) /\ ev[k].slot \in Slots /\ stn2[ev[k].slot] = stn[ev[k].slot]
    BY <1>5, <2>1
  <2> QED BY ONLY <1>1, <2>2 DEF EventList, Once
<1>11. \A w \in DOMAIN f : RSLINK_VALID(stn2, f[w]) => f[w].slot \notin new
  <2>1. Refers(stn, live, f) BY <1>1 DEF Wires
  <2> QED BY <1>5, <2>1
<1> QED BY <1>3, <1>4, <1>6, <1>8, <1>9, <1>10, <1>11 DEF Sound
-----------------------------------------------------------------------------
(* The links of an instruction that enters *)

\* AllLinks is the union of the lists of all stations.
LEMMA LinksAre ==
  ASSUME NEW stn, Typed(stn)
  PROVE  /\ \A z \in Slots, i \in 1..2 : \A m \in DOMAIN stn[z].odep_list[i] :
               /\ <<z, i, m>> \in DOMAIN AllLinks(stn)
               /\ AllLinks(stn)[<<z, i, m>>] = stn[z].odep_list[i][m]
         /\ \A w \in DOMAIN AllLinks(stn) :
               \E z \in Slots, i \in 1..2 : \E m \in DOMAIN stn[z].odep_list[i] : w = <<z, i, m>>
<1>1. \A z \in Slots, i \in 1..2 : \A m \in DOMAIN stn[z].odep_list[i] : m \in Nat
  <2> TAKE z \in Slots, i \in 1..2
  <2>1. stn[z].odep_list[i] \in Seq(Links) BY DEF Typed, StationType
  <2> QED BY <2>1
<1> QED BY <1>1 DEF AllLinks

\* No link is for operand k of x; no entry of the create vectors is for output i of x.
Unwired(stn, f, x, k) ==
    \A w \in DOMAIN f : RSLINK_VALID(stn, f[w]) => ~(f[w].slot = x /\ f[w].opnum = k)
Unlinked(stn, x, k) == Unwired(stn, AllLinks(stn), x, k)
Uncreated(D, x, i) == \A r \in Registers : D.cv[r] # <<x, i>> /\ D.scv[r] # <<x, i>>

Linking(D, live, rq, wk, ev) ==
    /\ DOMAIN D = {"st", "cv", "scv"}
    /\ Sound(D.st, live, AllLinks(D.st), rq, wk, ev)
    /\ Holders(D.st, live)
    /\ Creators(D.st, live, D.cv, D.scv)

\* What linking leaves alone.
LinkFrame(stn, stn2) ==
    \A z \in Slots :
        /\ stn2[z].tag = stn[z].tag /\ stn2[z].completed = stn[z].completed
        /\ stn2[z].queued = stn[z].queued /\ stn2[z].issued = stn[z].issued
        /\ stn2[z].op = stn[z].op /\ stn2[z].spec_mode = stn[z].spec_mode
        /\ stn2[z].ea_comp = stn[z].ea_comp /\ stn2[z].recover_inst = stn[z].recover_inst
        /\ stn2[z].PC = stn[z].PC /\ stn2[z].next_PC = stn[z].next_PC

\* An operand that no other instruction has to provide is ready.
LEMMA OperandReady ==
  ASSUME NEW stn, NEW live \in SUBSET Slots, NEW f, NEW rq, NEW wk, NEW ev,
         Sound(stn, live, f, rq, wk, ev),
         NEW x \in live, ~stn[x].queued, ~stn[x].issued, ~stn[x].completed,
         NEW k \in 0..2, Unwired(stn, f, x, k),
         NEW stn2, \E b \in BOOLEAN : stn2 = [stn EXCEPT ![x].idep_ready[k] = b]
  PROVE  Sound(stn2, live, f, rq, wk, ev) /\ Frame(stn, stn2) /\ LinkFrame(stn, stn2)
<1>b. PICK b \in BOOLEAN : stn2 = [stn EXCEPT ![x].idep_ready[k] = b] OBVIOUS
<1>1. /\ Typed(stn) /\ Progress(stn, live) /\ Wires(stn, live, f)
      /\ NodeList(stn, live, rq) /\ NodeList(stn, live, wk) /\ EventList(stn, live, ev)
  BY DEF Sound
<1>2. x \in Slots /\ StationType(stn[x]) BY <1>1 DEF Typed
<1>3. /\ DOMAIN stn2 = Slots /\ stn2[x] = [stn[x] EXCEPT !.idep_ready[k] = b]
      /\ \A z \in Slots : z # x => stn2[z] = stn[z]
  BY <1>1, <1>2, <1>b, Fields DEF Typed, StationType
<1>4. StationType(stn2[x]) BY <1>2, <1>3, <1>b, StationSets
<1>5. /\ stn2[x].tag = stn[x].tag /\ stn2[x].queued = stn[x].queued
      /\ stn2[x].issued = stn[x].issued /\ stn2[x].completed = stn[x].completed
      /\ stn2[x].op = stn[x].op /\ stn2[x].recover_inst = stn[x].recover_inst
      /\ stn2[x].onames = stn[x].onames /\ stn2[x].odep_list = stn[x].odep_list
      /\ stn2[x].spec_mode = stn[x].spec_mode /\ stn2[x].ea_comp = stn[x].ea_comp
      /\ stn2[x].PC = stn[x].PC /\ stn2[x].next_PC = stn[x].next_PC
      /\ stn2[x].idep_ready[k] = b
      /\ \A j \in 0..2 : j # k => stn2[x].idep_ready[j] = stn[x].idep_ready[j]
  BY <1>2, <1>3, Fields DEF StationType
<1>6. Frame(stn, stn2) /\ LinkFrame(stn, stn2) BY <1>3, <1>5 DEF Frame, LinkFrame
<1>7. Typed(stn2) BY <1>1, <1>3, <1>4 DEF Typed
<1>8. Progress(stn2, live) BY <1>1, <1>3, <1>5 DEF Progress
<1>9. \A z \in Slots : stn2[z].tag = stn[z].tag BY <1>6 DEF Frame
<1>10. \A w \in DOMAIN f : RSLINK_VALID(stn, f[w]) => ~stn2[f[w].slot].idep_ready[f[w].opnum]
  <2> TAKE w \in DOMAIN f
  <2>1. RSLINK_VALID(stn, f[w]) => /\ f[w].slot \in Slots /\ f[w].opnum \in 0..2
                                   /\ ~stn[f[w].slot].idep_ready[f[w].opnum]
    BY <1>1 DEF Wires, Refers
  <2> QED BY <1>3, <1>5, <2>1 DEF Unwired
<1>11. /\ \A j \in DOMAIN rq : RSLINK_VALID(stn, rq[j]) => stn2[rq[j].slot].queued
       /\ \A j \in DOMAIN wk : RSLINK_VALID(stn, wk[j]) => stn2[wk[j].slot].queued
       /\ \A j \in DOMAIN ev :
             RSLINK_VALID(stn, ev[j]) => stn2[ev[j].slot].issued /\ ~stn2[ev[j].slot].completed
  BY <1>1, <1>6 DEF NodeList, EventList, Refers, LinkFrame
<1>12. Sound(stn2, live, f, rq, wk, ev) BY <1>7, <1>8, <1>9, <1>10, <1>11, SoundKept
<1> QED BY <1>5, <1>6, <1>12

\* Stations of which a step changes nothing but the outputs.
LEMMA OutputsChanged ==
  ASSUME NEW stn, NEW live \in SUBSET Slots, NEW f, NEW rq, NEW wk, NEW ev,
         Sound(stn, live, f, rq, wk, ev), NEW stn2, Typed(stn2), LinkFrame(stn, stn2),
         \A z \in Slots : stn2[z].idep_ready = stn[z].idep_ready
  PROVE  Sound(stn2, live, f, rq, wk, ev)
<1>1. /\ Typed(stn) /\ Progress(stn, live) /\ Wires(stn, live, f)
      /\ NodeList(stn, live, rq) /\ NodeList(stn, live, wk) /\ EventList(stn, live, ev)
  BY DEF Sound
<1>2. Progress(stn2, live) BY <1>1 DEF Progress, LinkFrame, OPERANDS_READY
<1>3. /\ \A z \in Slots : stn2[z].tag = stn[z].tag
      /\ \A k \in DOMAIN f : RSLINK_VALID(stn, f[k]) => ~stn2[f[k].slot].idep_ready[f[k].opnum]
  BY <1>1 DEF Wires, Refers, LinkFrame
<1>4. /\ \A j \in DOMAIN rq : RSLINK_VALID(stn, rq[j]) => stn2[rq[j].slot].queued
      /\ \A j \in DOMAIN wk : RSLINK_VALID(stn, wk[j]) => stn2[wk[j].slot].queued
      /\ \A j \in DOMAIN ev :
            RSLINK_VALID(stn, ev[j]) => stn2[ev[j].slot].issued /\ ~stn2[ev[j].slot].completed
  BY <1>1 DEF NodeList, EventList, Refers, LinkFrame
<1> QED BY <1>2, <1>3, <1>4, SoundKept

\* One link more.
OneMore(f, g, l) ==
    \E v, from : /\ v \in DOMAIN g => g[v] = l
                 /\ \A w \in DOMAIN g : w # v => from[w] \in DOMAIN f /\ g[w] = f[from[w]]
                 /\ \A w, u \in DOMAIN g : w # v /\ u # v /\ from[w] = from[u] => w = u

\* One more link, for an operand that waits and has none.
LEMMA WireAdded ==
  ASSUME NEW stn, NEW live \in SUBSET Slots, NEW f, NEW rq, NEW wk, NEW ev,
         Sound(stn, live, f, rq, wk, ev),
         NEW x \in live, NEW k \in 0..2, ~stn[x].idep_ready[k],
         \A w \in DOMAIN f : RSLINK_VALID(stn, f[w]) => ~(f[w].slot = x /\ f[w].opnum = k),
         NEW g, OneMore(f, g, [slot |-> x, tag |-> stn[x].tag, opnum |-> k])
  PROVE  Sound(stn, live, g, rq, wk, ev)
<1>m. PICK v, from :
         /\ v \in DOMAIN g => g[v] = [slot |-> x, tag |-> stn[x].tag, opnum |-> k]
         /\ \A w \in DOMAIN g : w # v => from[w] \in DOMAIN f /\ g[w] = f[from[w]]
         /\ \A w, u \in DOMAIN g : w # v /\ u # v /\ from[w] = from[u] => w = u
  BY DEF OneMore
<1>1. Typed(stn) /\ Wires(stn, live, f) BY DEF Sound
<1>2. x \in Slots /\ stn[x].tag \in Nat BY <1>1 DEF Typed, StationType
<1>3. Refers(stn, live, g)
  <2> SUFFICES ASSUME NEW w \in DOMAIN g
               PROVE  /\ g[w].slot \in Slots /\ g[w].tag \in Nat
                      /\ g[w].tag <= stn[g[w].slot].tag
                      /\ RSLINK_VALID(stn, g[w]) => g[w].slot \in live
    BY DEF Refers
  <2>1. CASE w = v BY <1>2, <1>m, <2>1
  <2>2. CASE w # v BY <1>1, <1>m, <2>2 DEF Wires, Refers
  <2> QED BY <2>1, <2>2
<1>4. \A w \in DOMAIN g : /\ g[w].opnum \in 0..2
                          /\ RSLINK_VALID(stn, g[w]) => ~stn[g[w].slot].idep_ready[g[w].opnum]
  <2> TAKE w \in DOMAIN g
  <2>1. CASE w = v BY <1>2, <1>m, <2>1
  <2>2. CASE w # v BY <1>1, <1>m, <2>2 DEF Wires
  <2> QED BY <2>1, <2>2
<1>5. ASSUME NEW w \in DOMAIN g, NEW u \in DOMAIN g,
             RSLINK_VALID(stn, g[w]), RSLINK_VALID(stn, g[u]),
             g[w].slot = g[u].slot, g[w].opnum = g[u].opnum
      PROVE  w = u
  <2>1. CASE w # v /\ u # v
    <3>1. /\ from[w] \in DOMAIN f /\ g[w] = f[from[w]] /\ from[u] \in DOMAIN f
          /\ g[u] = f[from[u]]
      BY <1>m, <2>1
    <3>2. from[w] = from[u] BY <1>1, <1>5, <3>1 DEF Wires
    <3> QED BY <1>m, <2>1, <3>2
  <2>2. CASE w = v /\ u # v BY <1>5, <1>m, <2>2
  <2>3. CASE w # v /\ u = v BY <1>5, <1>m, <2>3
  <2> QED BY <2>1, <2>2, <2>3
<1>6. Wires(stn, live, g) BY <1>3, <1>4, <1>5 DEF Wires
<1> QED BY <1>6 DEF Sound

\* The create vectors say the truth as long as the names and the modes stay.
LEMMA CreatorsKept ==
  ASSUME NEW stn, NEW stn2, NEW live \in SUBSET Slots, NEW cv, NEW scv,
         Creators(stn, live, cv, scv),
         \A z \in live : /\ stn2[z].op = stn[z].op /\ stn2[z].onames = stn[z].onames
                         /\ stn2[z].completed = stn[z].completed
                         /\ stn2[z].spec_mode = stn[z].spec_mode
  PROVE  Creators(stn2, live, cv, scv)
<1>1. \A c, r, spec : Creates(stn, live, c, r, spec) => Creates(stn2, live, c, r, spec)
  BY DEF Creates
<1> QED BY <1>1 DEF Creators

CanLink(D, live, rq, wk, ev, x, k, name) ==
    /\ live \in SUBSET Slots /\ Linking(D, live, rq, wk, ev)
    /\ x \in live /\ ~D.st[x].queued /\ ~D.st[x].issued /\ ~D.st[x].completed
    /\ k \in 0..2 /\ Unlinked(D.st, x, k) /\ name \in Registers \cup {NA}
Linked(D, live, rq, wk, ev, x, k, T) ==
    /\ Linking(T, live, rq, wk, ev) /\ LinkFrame(D.st, T.st)
    /\ T.cv = D.cv /\ T.scv = D.scv
    /\ \A z \in Slots : T.st[z].onames = D.st[z].onames
    /\ \A z \in Slots, j \in 0..2 : (z # x \/ j # k) /\ Unlinked(D.st, z, j) =>
          Unlinked(T.st, z, j)

\* ruu_link_idep() finds the operand ready, or links it to its creator.
LEMMA OperandLinked ==
  ASSUME NEW D, NEW live, NEW rq, NEW wk, NEW ev, NEW x, NEW k, NEW name,
         CanLink(D, live, rq, wk, ev, x, k, name)
  PROVE  Linked(D, live, rq, wk, ev, x, k, ruu_link_idep(D, x, k, name))
<1> SUFFICES
      ASSUME live \in SUBSET Slots, Linking(D, live, rq, wk, ev),
             x \in live, ~D.st[x].queued, ~D.st[x].issued, ~D.st[x].completed,
             k \in 0..2, Unlinked(D.st, x, k), name \in Registers \cup {NA},
             NEW T, T = ruu_link_idep(D, x, k, name)
      PROVE  /\ Linking(T, live, rq, wk, ev) /\ LinkFrame(D.st, T.st)
             /\ T.cv = D.cv /\ T.scv = D.scv
             /\ \A z \in Slots : T.st[z].onames = D.st[z].onames
             /\ \A z \in Slots, j \in 0..2 : (z # x \/ j # k) /\ Unlinked(D.st, z, j) =>
                   Unlinked(T.st, z, j)
  BY DEF CanLink, Linked
<1> DEFINE stn == D.st
           f == AllLinks(stn)
<1>1. /\ DOMAIN D = {"st", "cv", "scv"} /\ Sound(stn, live, f, rq, wk, ev)
      /\ Holders(stn, live) /\ Creators(stn, live, D.cv, D.scv)
  BY DEF Linking
<1>2. Typed(stn) /\ x \in Slots /\ StationType(stn[x]) BY <1>1 DEF Sound, Typed
<1>3. Unwired(stn, f, x, k)
  BY DEF Unlinked, Unwired
<1>n. ~stn[x].queued /\ ~stn[x].issued /\ ~stn[x].completed OBVIOUS
<1>4. ASSUME NEW stn2, \E b \in BOOLEAN : stn2 = [stn EXCEPT ![x].idep_ready[k] = b]
      PROVE  Sound(stn2, live, f, rq, wk, ev) /\ Frame(stn, stn2) /\ LinkFrame(stn, stn2)
  <2> HIDE DEF stn, f
  <2> QED BY <1>1, <1>n, <1>3, <1>4, OperandReady
<1>5. CASE name = NA \/ CREATE_VECTOR(D, name) = NoCreator
  <2> DEFINE stn2 == [stn EXCEPT ![x].idep_ready[k] = TRUE]
  <2>1. T.st = stn2 /\ T.cv = D.cv /\ T.scv = D.scv /\ DOMAIN T = {"st", "cv", "scv"}
    BY <1>1, <1>5 DEF ruu_link_idep
  <2>2. Sound(stn2, live, f, rq, wk, ev) /\ Frame(stn, stn2) /\ LinkFrame(stn, stn2)
    BY <1>4
  <2> HIDE DEF stn2
  <2>3. AllLinks(stn2) = f BY <2>2 DEF AllLinks, Frame
  <2>4. Holders(stn2, live) BY <1>1, <2>2 DEF Holders, Frame
  <2>5. Creators(stn2, live, D.cv, D.scv)
    <3>1. \A z \in live : /\ stn2[z].op = stn[z].op /\ stn2[z].onames = stn[z].onames
                          /\ stn2[z].completed = stn[z].completed
                          /\ stn2[z].spec_mode = stn[z].spec_mode
      BY <2>2 DEF Frame
    <3> QED BY <1>1, <3>1, CreatorsKept
  <2>6. \A z \in Slots, j \in 0..2 : Unlinked(stn, z, j) => Unlinked(stn2, z, j)
    <3>1. Refers(stn, live, f) BY <1>1 DEF Sound, Wires
    <3>2. \A w \in DOMAIN f : RSLINK_VALID(stn2, f[w]) <=> RSLINK_VALID(stn, f[w])
      BY <2>2, <3>1 DEF Refers, RSLINK_VALID, Frame
    <3> QED BY <2>3, <3>2 DEF Unlinked, Unwired
  <2> QED BY <2>1, <2>2, <2>3, <2>4, <2>5, <2>6 DEF Linking, Frame
<1>6. CASE ~(name = NA \/ CREATE_VECTOR(D, name) = NoCreator)
  <2> DEFINE c == CREATE_VECTOR(D, name)
  <2>1. PICK z \in live, i \in 1..2 : c = <<z, i>> /\ ~stn[z].completed /\ stn[z].op # "store"
    BY <1>1, <1>6 DEF CREATE_VECTOR, Creators, Creates
  <2>2. c[1] = z /\ c[2] = i /\ z \in Slots /\ StationType(stn[z]) BY <1>2, <2>1 DEF Typed
  <2> HIDE DEF c
  <2> DEFINE link == [slot |-> x, tag |-> stn[x].tag, opnum |-> k]
             stn1 == [stn EXCEPT ![x].idep_ready[k] = FALSE]
             list == <<link>> \o stn1[z].odep_list[i]
             stn2 == [stn1 EXCEPT ![z].odep_list[i] = list]
  <2>3. T.st = stn2 /\ T.cv = D.cv /\ T.scv = D.scv /\ DOMAIN T = {"st", "cv", "scv"}
    BY <1>1, <1>6, <2>2 DEF ruu_link_idep, c
  <2>4. /\ Sound(stn1, live, f, rq, wk, ev) /\ Frame(stn, stn1) /\ LinkFrame(stn, stn1)
        /\ ~stn1[x].idep_ready[k]
    <3>1. ~stn1[x].idep_ready[k] BY <1>2, Fields DEF Typed, StationType
    <3> QED BY <1>4, <3>1
  <2> HIDE DEF stn1
  <2>5. Typed(stn1) /\ StationType(stn1[z]) BY <2>2, <2>4 DEF Sound, Typed
  <2>6. link \in Links BY <1>2 DEF Links, StationType
  <2>7. stn1[z].odep_list[i] \in Seq(Links) /\ stn1[z].odep_list = stn[z].odep_list
    BY <2>2, <2>4, <2>5 DEF StationType, Frame
  <2> HIDE DEF link
  <2> DEFINE old == stn1[z].odep_list[i]
  <2>8. /\ list \in Seq(Links) /\ DOMAIN list = 1..Len(old) + 1 /\ DOMAIN old = 1..Len(old)
        /\ Len(old) \in Nat
        /\ \A m \in 1..Len(old) + 1 : list[m] = IF m = 1 THEN link ELSE old[m - 1]
    <3>1. old \in Seq(Links) /\ list = <<link>> \o old BY <2>7
    <3> HIDE DEF old, list
    <3> QED BY <2>6, <3>1
  <2>9. /\ DOMAIN stn2 = Slots /\ stn2[z] = [stn1[z] EXCEPT !.odep_list[i] = list]
        /\ \A y \in Slots : y # z => stn2[y] = stn1[y]
    <3> HIDE DEF list
    <3> QED BY <2>2, <2>5, Fields DEF Typed, StationType
  <2> HIDE DEF list, stn2
  <2>10. StationType(stn2[z]) BY <2>5, <2>8, <2>9, Fields DEF StationType
  <2>11. /\ stn2[z].tag = stn1[z].tag /\ stn2[z].queued = stn1[z].queued
         /\ stn2[z].issued = stn1[z].issued /\ stn2[z].completed = stn1[z].completed
         /\ stn2[z].op = stn1[z].op /\ stn2[z].recover_inst = stn1[z].recover_inst
         /\ stn2[z].onames = stn1[z].onames /\ stn2[z].idep_ready = stn1[z].idep_ready
         /\ stn2[z].spec_mode = stn1[z].spec_mode /\ stn2[z].ea_comp = stn1[z].ea_comp
         /\ stn2[z].PC = stn1[z].PC /\ stn2[z].next_PC = stn1[z].next_PC
         /\ stn2[z].odep_list[i] = list
         /\ \A j \in 1..2 : j # i => stn2[z].odep_list[j] = stn1[z].odep_list[j]
    BY <2>1, <2>5, <2>9, Fields DEF StationType
  <2>12. /\ Typed(stn2) /\ LinkFrame(stn1, stn2)
         /\ \A y \in Slots : /\ stn2[y].idep_ready = stn1[y].idep_ready
                             /\ stn2[y].onames = stn1[y].onames
    BY <2>5, <2>9, <2>10, <2>11 DEF Typed, LinkFrame
  <2>13. Sound(stn2, live, f, rq, wk, ev) BY <2>4, <2>12, OutputsChanged
  <2>14. LinkFrame(stn, stn2) /\ \A y \in Slots : stn2[y].onames = stn[y].onames
    BY <2>4, <2>12 DEF LinkFrame, Frame
  <2> DEFINE g == AllLinks(stn2)
             v == <<z, i, 1>>
             from == [w \in DOMAIN g |-> IF w[1] = z /\ w[2] = i THEN <<z, i, w[3] - 1>> ELSE w]
  <2>15. v \in DOMAIN g => g[v] = link
    <3>1. 1 \in DOMAIN stn2[z].odep_list[i] /\ stn2[z].odep_list[i][1] = link
      BY <2>8, <2>11
    <3> QED BY <2>2, <2>12, <3>1, LinksAre
  <2>16. ASSUME NEW w \in DOMAIN g, w # v
         PROVE  /\ from[w] \in DOMAIN f /\ g[w] = f[from[w]]
                /\ \E y \in Slots, j \in 1..2, m \in Nat :
                      /\ w = <<y, j, m>> /\ (y = z /\ j = i => m > 1)
                      /\ from[w] = IF y = z /\ j = i THEN <<z, i, m - 1>> ELSE w
    <3>1. PICK y \in Slots, j \in 1..2 : \E m \in DOMAIN stn2[y].odep_list[j] : w = <<y, j, m>>
      BY <2>12, <2>16, LinksAre
    <3>2. PICK m \in DOMAIN stn2[y].odep_list[j] : w = <<y, j, m>> BY <3>1
    <3>3. g[w] = stn2[y].odep_list[j][m] BY <2>12, <3>1, <3>2, LinksAre
    <3>4. from[w] = IF y = z /\ j = i THEN <<z, i, m - 1>> ELSE w BY <2>16, <3>2
    <3>5. stn2[y].odep_list[j] \in Seq(Links) BY <2>12 DEF Typed, StationType
    <3>6. m \in Nat BY <3>2, <3>5
    <3> HIDE DEF from, g
    <3>7. CASE y = z /\ j = i
      <4>1. m \in 1..Len(old) + 1 /\ m # 1 BY <2>8, <2>11, <2>16, <3>2, <3>7
      <4>2. m - 1 \in DOMAIN old /\ list[m] = old[m - 1] BY <2>8, <4>1
      <4>3. old = stn[z].odep_list[i] BY <2>7
      <4>4. <<z, i, m - 1>> \in DOMAIN f /\ f[<<z, i, m - 1>>] = old[m - 1]
        BY <1>2, <2>1, <2>2, <4>2, <4>3, LinksAre
      <4>5. m > 1 BY <4>1, <2>8
      <4> QED BY <2>11, <3>2, <3>3, <3>4, <3>6, <3>7, <4>2, <4>4, <4>5
    <3>8. CASE ~(y = z /\ j = i)
      <4>1. stn2[y].odep_list[j] = stn[y].odep_list[j]
        <5>1. stn1[y].odep_list = stn[y].odep_list BY <2>4 DEF Frame
        <5>2. CASE y = z BY ONLY <2>11, <3>1, <3>8, <5>1, <5>2
        <5>3. CASE y # z BY <2>9, <5>1, <5>3
        <5> QED BY <5>2, <5>3
      <4>2. w \in DOMAIN f /\ f[w] = stn[y].odep_list[j][m]
        BY <1>2, <3>2, <4>1, LinksAre
      <4> QED BY <3>2, <3>3, <3>4, <3>6, <3>8, <4>1, <4>2
    <3> QED BY <3>7, <3>8
  <2>17. \A w, u \in DOMAIN g : w # v /\ u # v /\ from[w] = from[u] => w = u
    <3> SUFFICES ASSUME NEW w \in DOMAIN g, NEW u \in DOMAIN g, w # v, u # v, from[w] = from[u]
                 PROVE  w = u
      OBVIOUS
    <3>1. PICK y \in Slots, j \in 1..2, m \in Nat :
             /\ w = <<y, j, m>> /\ (y = z /\ j = i => m > 1)
             /\ from[w] = IF y = z /\ j = i THEN <<z, i, m - 1>> ELSE w
      BY <2>16
    <3>2. PICK a \in Slots, b \in 1..2, n2 \in Nat :
             /\ u = <<a, b, n2>> /\ (a = z /\ b = i => n2 > 1)
             /\ from[u] = IF a = z /\ b = i THEN <<z, i, n2 - 1>> ELSE u
      BY <2>16
    <3> HIDE DEF from, g, v
    <3> QED BY <3>1, <3>2
  <2> HIDE DEF from, g, v
  <2>18. link = [slot |-> x, tag |-> stn2[x].tag, opnum |-> k]
    BY <1>2, <2>14 DEF link, LinkFrame
  <2>19. Refers(stn, live, f) BY <1>1 DEF Sound, Wires
  <2>20. \A w \in DOMAIN f : RSLINK_VALID(stn2, f[w]) <=> RSLINK_VALID(stn, f[w])
    BY <2>14, <2>19 DEF Refers, RSLINK_VALID, LinkFrame
  <2>21. Sound(stn2, live, g, rq, wk, ev)
    <3>1. ~stn2[x].idep_ready[k] BY <1>2, <2>4, <2>12
    <3>2. \A w \in DOMAIN f : RSLINK_VALID(stn2, f[w]) => ~(f[w].slot = x /\ f[w].opnum = k)
      BY <1>3, <2>20 DEF Unwired
    <3>3. v \in DOMAIN g => g[v] = [slot |-> x, tag |-> stn2[x].tag, opnum |-> k] BY <2>15, <2>18
    <3>4. \A w \in DOMAIN g : w # v => from[w] \in DOMAIN f /\ g[w] = f[from[w]] BY <2>16
    <3>5. live \in SUBSET Slots /\ x \in live /\ k \in 0..2 OBVIOUS
    <3> HIDE DEF f, stn
    <3>6. OneMore(f, g, [slot |-> x, tag |-> stn2[x].tag, opnum |-> k])
      BY ONLY <2>17, <3>3, <3>4 DEF OneMore
    <3> QED BY ONLY <2>13, <3>1, <3>2, <3>5, <3>6, WireAdded
  <2>22. Holders(stn2, live)
    <3> SUFFICES ASSUME NEW y \in Slots, NEW j \in 1..2, stn2[y].odep_list[j] # <<>>
                 PROVE  y \in live /\ ~stn2[y].completed /\ stn2[y].op # "store"
      BY DEF Holders
    <3>1. CASE y = z BY <2>1, <2>14, <3>1 DEF LinkFrame
    <3>2. CASE y # z BY <1>1, <2>4, <2>9, <3>2 DEF Holders, Frame
    <3> QED BY <3>1, <3>2
  <2>23. Creators(stn2, live, D.cv, D.scv)
    <3>1. \A y \in live : /\ stn2[y].op = stn[y].op /\ stn2[y].onames = stn[y].onames
                          /\ stn2[y].completed = stn[y].completed
                          /\ stn2[y].spec_mode = stn[y].spec_mode
      BY <2>14 DEF LinkFrame
    <3> QED BY <1>1, <3>1, CreatorsKept
  <2>24. ASSUME NEW y \in Slots, NEW j \in 0..2, y # x \/ j # k, Unlinked(stn, y, j)
         PROVE  Unlinked(stn2, y, j)
    <3> SUFFICES ASSUME NEW w \in DOMAIN g, RSLINK_VALID(stn2, g[w])
                 PROVE  ~(g[w].slot = y /\ g[w].opnum = j)
      BY DEF Unlinked, Unwired, g
    <3>1. CASE w = v BY <2>15, <2>18, <2>24, <3>1
    <3>2. CASE w # v
      <4>1. from[w] \in DOMAIN f /\ g[w] = f[from[w]] BY <2>16, <3>2
      <4> QED BY <2>20, <2>24, <4>1 DEF Unlinked, Unwired
    <3> QED BY <3>1, <3>2
  <2> QED BY <2>3, <2>14, <2>21, <2>22, <2>23, <2>24 DEF Linking, g
<1> QED BY <1>5, <1>6

CanInstall(D, live, rq, wk, ev, x, i, name) ==
    /\ live \in SUBSET Slots /\ Linking(D, live, rq, wk, ev)
    /\ x \in live /\ i \in 1..2 /\ Uncreated(D, x, i) /\ name \in Registers \cup {NA}
    /\ name # NA => D.st[x].op # "store" /\ ~D.st[x].completed
    /\ D.st[x].spec_mode = spec_mode
Installed(D, live, rq, wk, ev, x, i, name, T) ==
    /\ Linking(T, live, rq, wk, ev) /\ LinkFrame(D.st, T.st)
    /\ T.st[x].onames[i] = name
    /\ \A j \in 1..2 : j # i => T.st[x].onames[j] = D.st[x].onames[j]
    /\ \A z \in Slots : /\ z # x => T.st[z].onames = D.st[z].onames
                        /\ \A j \in 0..2 : Unlinked(D.st, z, j) => Unlinked(T.st, z, j)
                        /\ \A j \in 1..2 : (z # x \/ j # i) /\ Uncreated(D, z, j) =>
                              Uncreated(T, z, j)

\* ruu_install_odep() does not panic, and makes x the creator of the register.
LEMMA ResultInstalled ==
  ASSUME NEW D, NEW live, NEW rq, NEW wk, NEW ev, NEW x, NEW i, NEW name,
         CanInstall(D, live, rq, wk, ev, x, i, name)
  PROVE  Installed(D, live, rq, wk, ev, x, i, name, ruu_install_odep(D, x, i, name))
<1> SUFFICES
      ASSUME live \in SUBSET Slots, Linking(D, live, rq, wk, ev),
             x \in live, i \in 1..2, Uncreated(D, x, i), name \in Registers \cup {NA},
             name # NA => D.st[x].op # "store" /\ ~D.st[x].completed,
             D.st[x].spec_mode = spec_mode,
             NEW T, T = ruu_install_odep(D, x, i, name)
      PROVE  /\ Linking(T, live, rq, wk, ev) /\ LinkFrame(D.st, T.st)
             /\ T.st[x].onames[i] = name
             /\ \A j \in 1..2 : j # i => T.st[x].onames[j] = D.st[x].onames[j]
             /\ \A z \in Slots :
                   /\ z # x => T.st[z].onames = D.st[z].onames
                   /\ \A j \in 0..2 : Unlinked(D.st, z, j) => Unlinked(T.st, z, j)
                   /\ \A j \in 1..2 : (z # x \/ j # i) /\ Uncreated(D, z, j) =>
                         Uncreated(T, z, j)
  BY DEF CanInstall, Installed
<1> DEFINE stn == D.st
           f == AllLinks(stn)
<1>1. /\ DOMAIN D = {"st", "cv", "scv"} /\ Sound(stn, live, f, rq, wk, ev)
      /\ Holders(stn, live) /\ Creators(stn, live, D.cv, D.scv)
  BY DEF Linking
<1>2. Typed(stn) /\ x \in Slots /\ StationType(stn[x]) BY <1>1 DEF Sound, Typed
<1> DEFINE s == IF name = NA THEN [stn[x] EXCEPT !.onames[i] = NA]
                ELSE [stn[x] EXCEPT !.onames[i] = name, !.odep_list[i] = <<>>]
           stn2 == T.st
<1>3. /\ DOMAIN stn2 = Slots /\ stn2[x] = s /\ \A z \in Slots : z # x => stn2[z] = stn[z]
      /\ DOMAIN T = {"st", "cv", "scv"}
  <2>1. CASE name = NA
    BY <1>1, <1>2, <2>1, Fields DEF ruu_install_odep, Typed, StationType
  <2>2. CASE name # NA
    <3>1. T.st = [stn EXCEPT ![x].onames[i] = name, ![x].odep_list[i] = <<>>]
          /\ DOMAIN T = {"st", "cv", "scv"}
      BY <1>1, <2>2 DEF ruu_install_odep
    <3> QED BY <1>2, <2>2, <3>1, Fields DEF Typed, StationType
  <2> QED BY <2>1, <2>2
<1>4. /\ T.cv = IF name # NA /\ ~spec_mode THEN [D.cv EXCEPT ![name] = <<x, i>>] ELSE D.cv
      /\ T.scv = IF name # NA /\ spec_mode THEN [D.scv EXCEPT ![name] = <<x, i>>] ELSE D.scv
  BY <1>1 DEF ruu_install_odep
<1>5. /\ s.tag = stn[x].tag /\ s.queued = stn[x].queued
      /\ s.issued = stn[x].issued /\ s.completed = stn[x].completed
      /\ s.op = stn[x].op /\ s.recover_inst = stn[x].recover_inst
      /\ s.idep_ready = stn[x].idep_ready
      /\ s.spec_mode = stn[x].spec_mode /\ s.ea_comp = stn[x].ea_comp
      /\ s.PC = stn[x].PC /\ s.next_PC = stn[x].next_PC
      /\ s.onames[i] = name /\ \A j \in 1..2 : j # i => s.onames[j] = stn[x].onames[j]
      /\ s.odep_list[i] \in {<<>>, stn[x].odep_list[i]}
      /\ \A j \in 1..2 : j # i => s.odep_list[j] = stn[x].odep_list[j]
      /\ DOMAIN s = DOMAIN Blank /\ s.seq = stn[x].seq
      /\ DOMAIN s.onames = 1..2 /\ DOMAIN s.odep_list = 1..2
  <2>1. CASE name = NA BY <1>2, <2>1, Fields DEF StationType
  <2>2. CASE name # NA BY <1>2, <2>2, Fields DEF StationType
  <2> QED BY <2>1, <2>2
<1>6. StationType(s)
  <2>1. <<>> \in Seq(Links) OBVIOUS
  <2>2. \A j \in 1..2 : s.odep_list[j] \in Seq(Links) BY <1>2, <1>5, <2>1 DEF StationType
  <2>3. s.onames \in [1..2 -> Registers \cup {NA}]
    <3> DEFINE o == stn[x].onames
    <3>1. o \in [1..2 -> Registers \cup {NA}] BY <1>2 DEF StationType
    <3>2. s.onames = [o EXCEPT ![i] = name]
      <4>1. CASE name = NA BY <1>2, <4>1, Fields DEF StationType
      <4>2. CASE name # NA BY <1>2, <4>2, Fields DEF StationType
      <4> QED BY <4>1, <4>2
    <3> HIDE DEF o, s
    <3> QED BY <3>1, <3>2
  <2> HIDE DEF s
  <2> QED BY <1>2, <1>5, <2>2, <2>3 DEF StationType
<1> HIDE DEF s, stn2
<1>7. Typed(stn2) BY <1>2, <1>3, <1>6 DEF Typed
<1>8. LinkFrame(stn, stn2) /\ \A z \in Slots : stn2[z].idep_ready = stn[z].idep_ready
  BY <1>3, <1>5 DEF LinkFrame
<1>9. Sound(stn2, live, f, rq, wk, ev)
  <2> HIDE DEF stn, f
  <2> QED BY <1>1, <1>7, <1>8, OutputsChanged
<1> DEFINE g == AllLinks(stn2)
<1>10. DOMAIN g \subseteq DOMAIN f /\ \A w \in DOMAIN g : g[w] = f[w]
  <2> SUFFICES ASSUME NEW w \in DOMAIN g PROVE w \in DOMAIN f /\ g[w] = f[w]
    OBVIOUS
  <2>1. PICK z \in Slots, j \in 1..2 : \E m \in DOMAIN stn2[z].odep_list[j] : w = <<z, j, m>>
    BY <1>7, LinksAre
  <2>2. PICK m \in DOMAIN stn2[z].odep_list[j] : w = <<z, j, m>> BY <2>1
  <2>3. stn2[z].odep_list[j] = stn[z].odep_list[j]
    <3>1. stn2[z].odep_list[j] # <<>> BY <2>2
    <3>2. CASE z = x /\ j = i BY <1>3, <1>5, <3>1, <3>2
    <3>3. CASE z = x /\ j # i BY <1>3, <1>5, <3>3
    <3>4. CASE z # x BY <1>3, <3>4
    <3> QED BY <3>2, <3>3, <3>4
  <2> HIDE DEF f, g
  <2>4. g[w] = stn2[z].odep_list[j][m] BY <1>7, <2>2, LinksAre DEF g
  <2>5. w \in DOMAIN f /\ f[w] = stn[z].odep_list[j][m] BY <1>2, <2>2, <2>3, LinksAre DEF f
  <2> QED BY <2>3, <2>4, <2>5
<1>11. Sound(stn2, live, g, rq, wk, ev)
  <2> HIDE DEF stn, f, g
  <2> QED BY <1>9, <1>10, FewerWires
<1>12. Holders(stn2, live)
  <2> SUFFICES ASSUME NEW z \in Slots, NEW j \in 1..2, stn2[z].odep_list[j] # <<>>
               PROVE  z \in live /\ ~stn2[z].completed /\ stn2[z].op # "store"
    BY DEF Holders
  <2>1. stn2[z].odep_list[j] = stn[z].odep_list[j]
    <3>1. CASE z = x /\ j = i BY <1>3, <1>5, <3>1
    <3>2. CASE z = x /\ j # i BY <1>3, <1>5, <3>2
    <3>3. CASE z # x BY <1>3, <3>3
    <3> QED BY <3>1, <3>2, <3>3
  <2> QED BY <1>1, <1>8, <2>1 DEF Holders, LinkFrame
<1>13. ASSUME NEW c, NEW r, NEW spec, Creates(stn, live, c, r, spec), c # <<x, i>>
       PROVE  Creates(stn2, live, c, r, spec)
  <2>1. PICK z \in live, j \in 1..2 :
           /\ c = <<z, j>> /\ stn[z].onames[j] = r /\ ~stn[z].completed
           /\ stn[z].op # "store" /\ stn[z].spec_mode = spec
    BY <1>13 DEF Creates
  <2>2. stn2[z].onames[j] = stn[z].onames[j]
    <3>1. CASE z = x BY <1>3, <1>5, <1>13, <2>1, <3>1
    <3>2. CASE z # x BY <1>3, <3>2
    <3> QED BY <3>1, <3>2
  <2>3. /\ stn2[z].completed = stn[z].completed /\ stn2[z].op = stn[z].op
        /\ stn2[z].spec_mode = stn[z].spec_mode
    BY <1>8 DEF LinkFrame
  <2> HIDE DEF stn
  <2> QED BY <2>1, <2>2, <2>3 DEF Creates
<1>14. name # NA => Creates(stn2, live, <<x, i>>, name, spec_mode)
  <2>1. /\ stn2[x].completed = stn[x].completed /\ stn2[x].op = stn[x].op
        /\ stn2[x].spec_mode = stn[x].spec_mode /\ stn2[x].onames[i] = name
    BY <1>2, <1>3, <1>5, <1>8 DEF LinkFrame
  <2> QED BY <2>1 DEF Creates
<1>15. spec_mode \in BOOLEAN BY <1>2 DEF StationType
<1>16. Creators(stn2, live, T.cv, T.scv)
  <2>1. DOMAIN D.cv = Registers /\ DOMAIN D.scv = Registers BY <1>1 DEF Creators
  <2>2. DOMAIN T.cv = Registers /\ DOMAIN T.scv = Registers BY <1>4, <2>1
  <2>3. ASSUME NEW r \in Registers
        PROVE  /\ T.cv[r] = NoCreator \/ Creates(stn2, live, T.cv[r], r, FALSE)
               /\ \/ T.scv[r] = Unset \/ T.scv[r] = NoCreator
                  \/ Creates(stn2, live, T.scv[r], r, TRUE)
    <3>1. D.cv[r] # <<x, i>> /\ D.scv[r] # <<x, i>> BY DEF Uncreated
    <3>2. /\ D.cv[r] = NoCreator \/ Creates(stn, live, D.cv[r], r, FALSE)
          /\ \/ D.scv[r] = Unset \/ D.scv[r] = NoCreator
             \/ Creates(stn, live, D.scv[r], r, TRUE)
      BY <1>1 DEF Creators
    <3>3. /\ D.cv[r] = NoCreator \/ Creates(stn2, live, D.cv[r], r, FALSE)
          /\ \/ D.scv[r] = Unset \/ D.scv[r] = NoCreator
             \/ Creates(stn2, live, D.scv[r], r, TRUE)
      BY <1>13, <3>1, <3>2
    <3>4. T.cv[r] = IF name # NA /\ ~spec_mode /\ r = name THEN <<x, i>> ELSE D.cv[r]
      BY <1>4, <2>1
    <3>5. T.scv[r] = IF name # NA /\ spec_mode /\ r = name THEN <<x, i>> ELSE D.scv[r]
      BY <1>4, <2>1
    <3>6. T.cv[r] = NoCreator \/ Creates(stn2, live, T.cv[r], r, FALSE)
      BY <1>14, <1>15, <3>3, <3>4
    <3>7. \/ T.scv[r] = Unset \/ T.scv[r] = NoCreator
          \/ Creates(stn2, live, T.scv[r], r, TRUE)
      BY <1>14, <1>15, <3>3, <3>5
    <3> QED BY <3>6, <3>7
  <2> QED BY <2>2, <2>3 DEF Creators
<1>17. ASSUME NEW z \in Slots, NEW j \in 0..2, Unlinked(stn, z, j) PROVE Unlinked(stn2, z, j)
  <2>1. Refers(stn, live, f) BY <1>1 DEF Sound, Wires
  <2>2. \A w \in DOMAIN f : RSLINK_VALID(stn2, f[w]) <=> RSLINK_VALID(stn, f[w])
    BY <1>8, <2>1 DEF Refers, RSLINK_VALID, LinkFrame
  <2> HIDE DEF f, g
  <2>3. Unwired(stn, f, z, j) BY <1>17 DEF Unlinked, f
  <2>4. Unwired(stn2, g, z, j) BY <1>10, <2>2, <2>3 DEF Unwired
  <2> QED BY <2>4 DEF Unlinked, g
<1>18. ASSUME NEW z \in Slots, NEW j \in 1..2, z # x \/ j # i, Uncreated(D, z, j)
       PROVE  Uncreated(T, z, j)
  <2> SUFFICES ASSUME NEW r \in Registers PROVE T.cv[r] # <<z, j>> /\ T.scv[r] # <<z, j>>
    BY DEF Uncreated
  <2>1. DOMAIN D.cv = Registers /\ DOMAIN D.scv = Registers BY <1>1 DEF Creators
  <2>2. D.cv[r] # <<z, j>> /\ D.scv[r] # <<z, j>> BY <1>18 DEF Uncreated
  <2>3. <<x, i>> # <<z, j>> BY <1>18
  <2> QED BY <1>4, <2>1, <2>2, <2>3
<1>19. Linking(T, live, rq, wk, ev) BY <1>3, <1>11, <1>12, <1>16 DEF Linking, stn2
<1>20. /\ T.st[x].onames[i] = name
       /\ \A j \in 1..2 : j # i => T.st[x].onames[j] = stn[x].onames[j]
       /\ \A z \in Slots : z # x => T.st[z].onames = stn[z].onames
  BY <1>3, <1>5 DEF stn2
<1> QED BY <1>8, <1>17, <1>18, <1>19, <1>20 DEF stn2

CanLinkAll(D, live, rq, wk, ev, x, in, out) ==
    /\ live \in SUBSET Slots /\ Linking(D, live, rq, wk, ev)
    /\ x \in live /\ ~D.st[x].queued /\ ~D.st[x].issued /\ ~D.st[x].completed
    /\ D.st[x].spec_mode = spec_mode
    /\ \A k \in 0..2 : Unlinked(D.st, x, k)
    /\ \A i \in 1..2 : Uncreated(D, x, i)
    /\ \A k \in 1..3 : in[k] \in Registers \cup {NA}
    /\ \A i \in 1..2 : out[i] \in Registers \cup {NA}
    /\ D.st[x].op = "store" => \A i \in 1..2 : out[i] = NA
LinkedAll(D, live, rq, wk, ev, x, out, T) ==
    /\ Linking(T, live, rq, wk, ev) /\ LinkFrame(D.st, T.st)
    /\ \A i \in 1..2 : T.st[x].onames[i] = out[i]
    /\ \A z \in Slots : z # x =>
          /\ T.st[z].onames = D.st[z].onames
          /\ \A j \in 0..2 : Unlinked(D.st, z, j) => Unlinked(T.st, z, j)
          /\ \A i \in 1..2 : Uncreated(D, z, i) => Uncreated(T, z, i)

\* ruu_dispatch() links every input and installs every output of one operation.
LEMMA AllLinked ==
  ASSUME NEW D, NEW live, NEW rq, NEW wk, NEW ev, NEW x, NEW in, NEW out,
         CanLinkAll(D, live, rq, wk, ev, x, in, out)
  PROVE  LinkedAll(D, live, rq, wk, ev, x, out, LinkAll(D, x, in, out))
<1> SUFFICES
      ASSUME live \in SUBSET Slots, Linking(D, live, rq, wk, ev), x \in live,
             ~D.st[x].queued, ~D.st[x].issued, ~D.st[x].completed,
             D.st[x].spec_mode = spec_mode,
             \A k \in 0..2 : Unlinked(D.st, x, k), \A i \in 1..2 : Uncreated(D, x, i),
             \A k \in 1..3 : in[k] \in Registers \cup {NA},
             \A i \in 1..2 : out[i] \in Registers \cup {NA},
             D.st[x].op = "store" => \A i \in 1..2 : out[i] = NA,
             NEW T, T = LinkAll(D, x, in, out)
      PROVE  /\ Linking(T, live, rq, wk, ev) /\ LinkFrame(D.st, T.st)
             /\ \A i \in 1..2 : T.st[x].onames[i] = out[i]
             /\ \A z \in Slots : z # x =>
                   /\ T.st[z].onames = D.st[z].onames
                   /\ \A j \in 0..2 : Unlinked(D.st, z, j) => Unlinked(T.st, z, j)
                   /\ \A i \in 1..2 : Uncreated(D, z, i) => Uncreated(T, z, i)
  BY DEF CanLinkAll, LinkedAll
<1> DEFINE D0 == ruu_link_idep(D, x, 0, in[1])
           D1 == ruu_link_idep(D0, x, 1, in[2])
           D2 == ruu_link_idep(D1, x, 2, in[3])
           D3 == ruu_install_odep(D2, x, 1, out[1])
           D4 == ruu_install_odep(D3, x, 2, out[2])
<1>1. T = D4 BY DEF LinkAll
<1>2. /\ in[1] \in Registers \cup {NA} /\ in[2] \in Registers \cup {NA}
      /\ in[3] \in Registers \cup {NA}
      /\ out[1] \in Registers \cup {NA} /\ out[2] \in Registers \cup {NA}
      /\ x \in Slots /\ 0 \in 0..2 /\ 1 \in 0..2 /\ 2 \in 0..2 /\ 1 \in 1..2 /\ 2 \in 1..2
  OBVIOUS
<1>3. /\ Linking(D0, live, rq, wk, ev) /\ LinkFrame(D.st, D0.st)
      /\ D0.cv = D.cv /\ D0.scv = D.scv
      /\ \A z \in Slots : D0.st[z].onames = D.st[z].onames
      /\ \A z \in Slots, j \in 0..2 : (z # x \/ j # 0) /\ Unlinked(D.st, z, j) =>
            Unlinked(D0.st, z, j)
  <2>1. CanLink(D, live, rq, wk, ev, x, 0, in[1])
    BY <1>2 DEF CanLink
  <2>2. Linked(D, live, rq, wk, ev, x, 0, D0) BY ONLY <2>1, OperandLinked DEF D0
  <2> HIDE DEF D0
  <2> QED BY <2>2 DEF Linked
<1> HIDE DEF D0
<1>4. /\ ~D0.st[x].queued /\ ~D0.st[x].issued /\ ~D0.st[x].completed
      /\ Unlinked(D0.st, x, 1) /\ Unlinked(D0.st, x, 2)
  BY <1>2, <1>3 DEF LinkFrame
<1>5. /\ Linking(D1, live, rq, wk, ev) /\ LinkFrame(D0.st, D1.st)
      /\ D1.cv = D0.cv /\ D1.scv = D0.scv
      /\ \A z \in Slots : D1.st[z].onames = D0.st[z].onames
      /\ \A z \in Slots, j \in 0..2 : (z # x \/ j # 1) /\ Unlinked(D0.st, z, j) =>
            Unlinked(D1.st, z, j)
  <2>1. CanLink(D0, live, rq, wk, ev, x, 1, in[2])
    BY <1>2, <1>3, <1>4 DEF CanLink
  <2>2. Linked(D0, live, rq, wk, ev, x, 1, D1) BY ONLY <2>1, OperandLinked DEF D1
  <2> HIDE DEF D1
  <2> QED BY <2>2 DEF Linked
<1> HIDE DEF D1
<1>6. /\ ~D1.st[x].queued /\ ~D1.st[x].issued /\ ~D1.st[x].completed
      /\ Unlinked(D1.st, x, 2)
  BY <1>2, <1>4, <1>5 DEF LinkFrame
<1>7. /\ Linking(D2, live, rq, wk, ev) /\ LinkFrame(D1.st, D2.st)
      /\ D2.cv = D1.cv /\ D2.scv = D1.scv
      /\ \A z \in Slots : D2.st[z].onames = D1.st[z].onames
      /\ \A z \in Slots, j \in 0..2 : (z # x \/ j # 2) /\ Unlinked(D1.st, z, j) =>
            Unlinked(D2.st, z, j)
  <2>1. CanLink(D1, live, rq, wk, ev, x, 2, in[3])
    BY <1>2, <1>5, <1>6 DEF CanLink
  <2>2. Linked(D1, live, rq, wk, ev, x, 2, D2) BY ONLY <2>1, OperandLinked DEF D2
  <2> HIDE DEF D2
  <2> QED BY <2>2 DEF Linked
<1> HIDE DEF D2
<1>8. LinkFrame(D.st, D2.st) BY <1>3, <1>5, <1>7 DEF LinkFrame
<1>9. /\ \A z \in Slots : D2.st[z].onames = D.st[z].onames
      /\ \A z \in Slots, j \in 0..2 : z # x /\ Unlinked(D.st, z, j) => Unlinked(D2.st, z, j)
      /\ \A z, i : Uncreated(D, z, i) => Uncreated(D2, z, i)
  BY <1>3, <1>5, <1>7 DEF Uncreated
<1>10. /\ D2.st[x].spec_mode = spec_mode /\ Uncreated(D2, x, 1) /\ Uncreated(D2, x, 2)
       /\ ~D2.st[x].completed
       /\ out[1] # NA => D2.st[x].op # "store"
       /\ out[2] # NA => D2.st[x].op # "store"
  BY <1>2, <1>8, <1>9 DEF LinkFrame
<1>11. /\ Linking(D3, live, rq, wk, ev) /\ LinkFrame(D2.st, D3.st)
       /\ D3.st[x].onames[1] = out[1]
       /\ \A z \in Slots : /\ z # x => D3.st[z].onames = D2.st[z].onames
                           /\ \A j \in 0..2 : Unlinked(D2.st, z, j) => Unlinked(D3.st, z, j)
                           /\ \A j \in 1..2 : (z # x \/ j # 1) /\ Uncreated(D2, z, j) =>
                                 Uncreated(D3, z, j)
  <2>1. CanInstall(D2, live, rq, wk, ev, x, 1, out[1])
    BY <1>2, <1>7, <1>10 DEF CanInstall
  <2>2. Installed(D2, live, rq, wk, ev, x, 1, out[1], D3) BY ONLY <2>1, ResultInstalled DEF D3
  <2> HIDE DEF D3
  <2> QED BY <2>2 DEF Installed
<1> HIDE DEF D3
<1>12. /\ D3.st[x].spec_mode = spec_mode /\ Uncreated(D3, x, 2)
       /\ out[2] # NA => D3.st[x].op # "store" /\ ~D3.st[x].completed
  BY <1>2, <1>10, <1>11 DEF LinkFrame
<1>13. /\ Linking(D4, live, rq, wk, ev) /\ LinkFrame(D3.st, D4.st)
       /\ D4.st[x].onames[2] = out[2]
       /\ \A j \in 1..2 : j # 2 => D4.st[x].onames[j] = D3.st[x].onames[j]
       /\ \A z \in Slots : /\ z # x => D4.st[z].onames = D3.st[z].onames
                           /\ \A j \in 0..2 : Unlinked(D3.st, z, j) => Unlinked(D4.st, z, j)
                           /\ \A j \in 1..2 : (z # x \/ j # 2) /\ Uncreated(D3, z, j) =>
                                 Uncreated(D4, z, j)
  <2>1. CanInstall(D3, live, rq, wk, ev, x, 2, out[2])
    BY <1>2, <1>11, <1>12 DEF CanInstall
  <2>2. Installed(D3, live, rq, wk, ev, x, 2, out[2], D4) BY ONLY <2>1, ResultInstalled DEF D4
  <2> HIDE DEF D4
  <2> QED BY <2>2 DEF Installed
<1> HIDE DEF D4
<1>14. LinkFrame(D.st, D4.st) BY <1>8, <1>11, <1>13 DEF LinkFrame
<1>15. \A i \in 1..2 : D4.st[x].onames[i] = out[i] BY <1>2, <1>11, <1>13
<1>16. \A z \in Slots : z # x =>
          /\ D4.st[z].onames = D.st[z].onames
          /\ \A j \in 0..2 : Unlinked(D.st, z, j) => Unlinked(D4.st, z, j)
          /\ \A i \in 1..2 : Uncreated(D, z, i) => Uncreated(D4, z, i)
  BY <1>9, <1>11, <1>13
<1> QED BY <1>1, <1>13, <1>14, <1>15, <1>16
-----------------------------------------------------------------------------
(* The stations and all that refers to them *)

Good(stn, live, rq, wk, ev, cv, scv) ==
    /\ live \in SUBSET Slots
    /\ Sound(stn, live, AllLinks(stn), rq, wk, ev)
    /\ Holders(stn, live) /\ Creators(stn, live, cv, scv) /\ StoresWriteNothing(stn, live)

\* The links are in the lists of outputs, and nowhere else.
LEMMA LinksSame ==
  ASSUME NEW stn, NEW stn2, \A z \in Slots : stn2[z].odep_list = stn[z].odep_list
  PROVE  AllLinks(stn2) = AllLinks(stn)
<1> DEFINE A(s) == {u \in Slots \X (1..2) \X Nat : u[3] \in DOMAIN s[u[1]].odep_list[u[2]]}
<1>1. \A u \in Slots \X (1..2) \X Nat : u[1] \in Slots OBVIOUS
<1>2. A(stn2) = A(stn) BY <1>1
<1>3. \A u \in A(stn) : stn2[u[1]].odep_list[u[2]][u[3]] = stn[u[1]].odep_list[u[2]][u[3]]
  BY <1>1
<1> QED BY <1>2, <1>3 DEF AllLinks

\* A step that moves instructions only through their stages.
LEMMA GoodFrame ==
  ASSUME NEW stn, NEW live, NEW rq, NEW wk, NEW ev, NEW cv, NEW scv,
         Good(stn, live, rq, wk, ev, cv, scv),
         NEW stn2, NEW rq2, NEW wk2, NEW ev2, Frame(stn, stn2),
         Sound(stn2, live, AllLinks(stn), rq2, wk2, ev2)
  PROVE  Good(stn2, live, rq2, wk2, ev2, cv, scv)
<1>1. AllLinks(stn2) = AllLinks(stn) BY LinksSame DEF Frame
<1>2. live \in SUBSET Slots BY DEF Good
<1>3. Holders(stn2, live) BY <1>2 DEF Good, Holders, Frame
<1>4. Creators(stn2, live, cv, scv) BY <1>2, CreatorsKept DEF Good, Frame
<1>5. StoresWriteNothing(stn2, live) BY <1>2 DEF Good, StoresWriteNothing, Frame
<1> QED BY <1>1, <1>2, <1>3, <1>4, <1>5 DEF Good

\* The program and the options are those of a simulation.
FixedOk == \E s \in Simulations : opt = s.opt /\ program = s.program

\* The sizes that sim_check_options() accepts.
LEMMA OptionsAre ==
  ASSUME FixedOk
  PROVE  RUU_size \in Nat \ {0} /\ LSQ_size \in Nat \ {0}
<1>1. PICK s \in Simulations : opt = s.opt BY DEF FixedOk
<1>2. s.opt.RUU_size \in PowersOfTwo /\ s.opt.LSQ_size \in PowersOfTwo
  BY <1>1, RuuAssumption
<1>3. PowersOfTwo \subseteq Nat \ {0} BY RuuAssumption
<1> QED BY <1>1, <1>2, <1>3 DEF RUU_size, LSQ_size

\* What the instructions are that take a station.
Enters(i) ==
    /\ i.op \in Operations \ {"nop"}
    /\ i.op = "store" => i.out = <<NA, NA>>
    /\ \A k \in 1..3 : i.in[k] \in Registers \cup {NA}
    /\ \A k \in 1..2 : i.out[k] \in Registers \cup {NA}

\* Every instruction of a program may be dispatched.
LEMMA InstructionIs ==
  ASSUME FixedOk, NEW pc, Arch!Instruction(pc).op # "nop"
  PROVE  Enters(Arch!Instruction(pc))
<1>1. PICK s \in Simulations : program = s.program BY DEF FixedOk
<1>2. pc \in DOMAIN program /\ Arch!Instruction(pc) = program[pc] BY DEF Arch!Instruction
<1> DEFINE i == program[pc]
<1>3. /\ i.op \in Operations /\ DOMAIN i.out = 1..2 /\ DOMAIN i.in = 1..3
      /\ i.op = "store" => i.out = <<NA, NA>>
  BY <1>1, <1>2, RuuAssumption
<1>4. i \in UNION {Range(t.program) : t \in Simulations}
  <2>1. i \in Range(s.program) BY <1>1, <1>2 DEF Range
  <2> QED BY <2>1
<1> HIDE DEF i
<1>5. ASSUME NEW r \in Range(i.out) \cup Range(i.in) PROVE r \in Registers \cup {NA}
  BY <1>4, <1>5 DEF Registers
<1>6. /\ \A k \in 1..3 : i.in[k] \in Range(i.in)
      /\ \A k \in 1..2 : i.out[k] \in Range(i.out)
  BY <1>3 DEF Range
<1>7. /\ \A k \in 1..3 : i.in[k] \in Registers \cup {NA}
      /\ \A k \in 1..2 : i.out[k] \in Registers \cup {NA}
  BY <1>5, <1>6
<1> QED BY <1>2, <1>3, <1>7 DEF Enters, i

\* Entries for an instruction, at the tails.
Taking(i) == IF i.op \in Memory THEN {R(RUU.tail), L(LSQ.tail)} ELSE {R(RUU.tail)}

\* What ruu_dispatch() writes to the stations before it links them.
LEMMA FilledIs ==
  ASSUME NEW live \in SUBSET Slots, Typed(st), Holders(st, live),
         NEW i, Enters(i), Taking(i) \subseteq Slots \ live,
         spec_mode \in BOOLEAN, inst_seq \in Nat, NEW wrong \in BOOLEAN,
         NEW pc, NEW npc, NEW addr, NEW F, F = Fill(pc, i, npc, addr, wrong)
  PROVE  /\ DOMAIN F = Slots
         /\ \A z \in Slots \ Taking(i) : F[z] = st[z]
         /\ \A z \in Slots : F[z].odep_list = st[z].odep_list
         /\ \A z \in Taking(i) :
               /\ StationType(F[z]) /\ F[z].tag = st[z].tag /\ F[z].spec_mode = spec_mode
               /\ ~F[z].queued /\ ~F[z].issued /\ ~F[z].completed
               /\ in_LSQ(z) => F[z].op = i.op /\ i.op \in Memory
                               /\ ~F[z].recover_inst /\ ~F[z].ea_comp
               /\ ~in_LSQ(z) => /\ F[z].op # "store" /\ F[z].recover_inst = wrong
                                /\ F[z].ea_comp <=> i.op \in Memory
               /\ F[z].PC = pc /\ F[z].next_PC = npc
<1> DEFINE x == R(RUU.tail)
           y == L(LSQ.tail)
           Common(s) == [Blank EXCEPT !.tag = s.tag, !.PC = pc, !.next_PC = npc,
                            !.spec_mode = spec_mode, !.odep_list = s.odep_list,
                            !.onames = s.onames]
           first == [Common(st[x]) EXCEPT !.op = IF i.op \in Memory THEN "agen" ELSE i.op,
                                          !.ea_comp = i.op \in Memory,
                                          !.recover_inst = wrong, !.seq = inst_seq + 1]
           access == [Common(st[y]) EXCEPT !.op = i.op, !.addr = addr, !.seq = inst_seq + 2]
<1>1. x \in Slots /\ ~in_LSQ(x) BY DEF Taking, in_LSQ, R
<1>2. i.op \in Memory => y \in Slots BY DEF Taking
<1>3. in_LSQ(y) /\ x # y BY DEF in_LSQ, L, R
<1>4. F = IF i.op \in Memory THEN [st EXCEPT ![x] = first, ![y] = access]
          ELSE [st EXCEPT ![x] = first]
  BY DEF Fill
<1>5. DOMAIN st = Slots BY DEF Typed
<1>6. /\ StationType(first) /\ first.tag = st[x].tag /\ first.spec_mode = spec_mode
      /\ first.PC = pc /\ first.next_PC = npc
      /\ ~first.queued /\ ~first.issued /\ ~first.completed
      /\ first.op # "store" /\ first.recover_inst = wrong /\ first.odep_list = st[x].odep_list
      /\ first.ea_comp <=> i.op \in Memory
  <2>1. StationType(st[x]) BY <1>1 DEF Typed
  <2>2. DOMAIN first = DOMAIN Blank BY Fields
  <2>3. /\ first.tag = st[x].tag /\ first.seq = inst_seq + 1 /\ first.queued = FALSE
        /\ first.issued = FALSE /\ first.completed = FALSE
        /\ first.ea_comp = (i.op \in Memory)
        /\ first.recover_inst = wrong /\ first.spec_mode = spec_mode
        /\ first.idep_ready = [k \in 0..2 |-> FALSE]
        /\ first.onames = st[x].onames /\ first.odep_list = st[x].odep_list
        /\ first.op = IF i.op \in Memory THEN "agen" ELSE i.op
        /\ first.PC = pc /\ first.next_PC = npc
    BY DEF Blank
  <2>4. wrong \in BOOLEAN /\ spec_mode \in BOOLEAN /\ (i.op \in Memory) \in BOOLEAN
        /\ inst_seq + 1 \in Nat
    OBVIOUS
  <2> HIDE DEF first, access
  <2>5. first.op # "store" BY <2>3 DEF Memory
  <2>6. StationType(first) BY ONLY <2>1, <2>2, <2>3, <2>4 DEF StationType
  <2> QED BY <2>3, <2>5, <2>6
<1>7. i.op \in Memory =>
         /\ StationType(access) /\ access.tag = st[y].tag /\ access.spec_mode = spec_mode
         /\ ~access.queued /\ ~access.issued /\ ~access.completed
         /\ access.op = i.op /\ ~access.recover_inst /\ ~access.ea_comp
         /\ access.odep_list = st[y].odep_list
         /\ access.PC = pc /\ access.next_PC = npc
  <2> SUFFICES ASSUME i.op \in Memory
               PROVE  /\ StationType(access) /\ access.tag = st[y].tag
                      /\ access.spec_mode = spec_mode
                      /\ ~access.queued /\ ~access.issued /\ ~access.completed
                      /\ access.op = i.op /\ ~access.recover_inst /\ ~access.ea_comp
                      /\ access.odep_list = st[y].odep_list
                      /\ access.PC = pc /\ access.next_PC = npc
    OBVIOUS
  <2>1. StationType(st[y]) BY <1>2 DEF Typed
  <2>2. DOMAIN access = DOMAIN Blank BY Fields
  <2>3. /\ access.tag = st[y].tag /\ access.seq = inst_seq + 2 /\ access.queued = FALSE
        /\ access.issued = FALSE /\ access.completed = FALSE /\ access.ea_comp = FALSE
        /\ access.recover_inst = FALSE /\ access.spec_mode = spec_mode
        /\ access.idep_ready = [k \in 0..2 |-> FALSE]
        /\ access.onames = st[y].onames /\ access.odep_list = st[y].odep_list
        /\ access.op = i.op /\ access.PC = pc /\ access.next_PC = npc
    BY DEF Blank
  <2> HIDE DEF access, first
  <2>4. spec_mode \in BOOLEAN /\ inst_seq + 2 \in Nat OBVIOUS
  <2>5. StationType(access) BY ONLY <2>1, <2>2, <2>3, <2>4 DEF StationType
  <2> QED BY <2>3, <2>5
<1> HIDE DEF first, access
<1>8. CASE i.op \in Memory
  <2>1. /\ DOMAIN F = Slots /\ F[x] = first /\ F[y] = access
        /\ \A z \in Slots \ {x, y} : F[z] = st[z]
    BY <1>1, <1>2, <1>3, <1>4, <1>5, <1>8
  <2>2. Taking(i) = {x, y} BY <1>8 DEF Taking
  <2> QED BY <1>1, <1>2, <1>3, <1>6, <1>7, <1>8, <2>1, <2>2
<1>9. CASE i.op \notin Memory
  <2>1. /\ DOMAIN F = Slots /\ F[x] = first
        /\ \A z \in Slots \ {x} : F[z] = st[z]
    BY <1>1, <1>4, <1>5, <1>9
  <2>2. Taking(i) = {x} BY <1>9 DEF Taking
  <2> QED BY <1>1, <1>6, <1>9, <2>1, <2>2
<1> QED BY <1>8, <1>9

\* The stations with those of a new instruction, before it is linked to the others.
LEMMA NewStations ==
  ASSUME NEW live, NEW rq, NEW wk, NEW ev, NEW cv, NEW scv,
         Good(st, live, rq, wk, ev, cv, scv),
         NEW i, Enters(i), Taking(i) \subseteq Slots \ live,
         spec_mode \in BOOLEAN, inst_seq \in Nat, NEW wrong \in BOOLEAN,
         NEW pc, NEW npc, NEW addr, NEW F, F = Fill(pc, i, npc, addr, wrong),
         NEW D, D = [st |-> F, cv |-> cv, scv |-> scv]
  PROVE  /\ Linking(D, live \cup Taking(i), rq, wk, ev)
         /\ \A z \in Taking(i) : /\ \A k \in 0..2 : Unlinked(D.st, z, k)
                                 /\ \A j \in 1..2 : Uncreated(D, z, j)
<1> DEFINE new == Taking(i)
           all == live \cup new
<1>1. /\ live \in SUBSET Slots /\ Sound(st, live, AllLinks(st), rq, wk, ev)
      /\ Holders(st, live) /\ Creators(st, live, cv, scv) /\ Typed(st)
  BY DEF Good, Sound
<1>2. /\ DOMAIN F = Slots
      /\ \A z \in Slots \ new : F[z] = st[z]
      /\ \A z \in Slots : F[z].odep_list = st[z].odep_list
      /\ \A z \in new :
               /\ StationType(F[z]) /\ F[z].tag = st[z].tag /\ F[z].spec_mode = spec_mode
               /\ ~F[z].queued /\ ~F[z].issued /\ ~F[z].completed
               /\ in_LSQ(z) => F[z].op = i.op /\ i.op \in Memory
                               /\ ~F[z].recover_inst /\ ~F[z].ea_comp
               /\ ~in_LSQ(z) => /\ F[z].op # "store" /\ F[z].recover_inst = wrong
                                /\ F[z].ea_comp <=> i.op \in Memory
  BY <1>1, FilledIs
<1>3. new \in SUBSET Slots /\ new \cap live = {} /\ all \in SUBSET Slots BY <1>1
<1> HIDE DEF new
<1>4. /\ Sound(F, all, AllLinks(st), rq, wk, ev)
      /\ \A w \in DOMAIN AllLinks(st) :
            RSLINK_VALID(F, AllLinks(st)[w]) => AllLinks(st)[w].slot \notin new
  <2>1. \A z \in new : /\ StationType(F[z]) /\ F[z].tag = st[z].tag
                       /\ ~F[z].queued /\ ~F[z].issued /\ ~F[z].completed
                       /\ in_LSQ(z) => F[z].op \in Memory /\ ~F[z].recover_inst
                       /\ ~in_LSQ(z) => F[z].op # "store"
    BY <1>2
  <2>2. CanEnter(st, live, new, F) BY <1>1, <1>2, <1>3, <2>1 DEF CanEnter
  <2>3. Sound(st, live, AllLinks(st), rq, wk, ev) BY <1>1
  <2> QED BY ONLY <2>2, <2>3, Enter
<1>5. AllLinks(F) = AllLinks(st) BY <1>2, LinksSame
<1>6. Holders(F, all) BY <1>1, <1>2, <1>3 DEF Holders
<1>7. Creators(F, all, cv, scv)
  <2>1. ASSUME NEW c, NEW r, NEW spec, Creates(st, live, c, r, spec)
        PROVE  Creates(F, all, c, r, spec)
    <3>1. PICK z \in live, j \in 1..2 :
             /\ c = <<z, j>> /\ st[z].onames[j] = r /\ ~st[z].completed
             /\ st[z].op # "store" /\ st[z].spec_mode = spec
      BY <2>1 DEF Creates
    <3>2. z \in all /\ F[z] = st[z] BY <1>1, <1>2, <1>3
    <3> QED BY <3>1, <3>2 DEF Creates
  <2> QED BY <1>1, <2>1 DEF Creators
<1>8. Linking(D, all, rq, wk, ev) BY <1>4, <1>5, <1>6, <1>7 DEF Linking
<1>9. ASSUME NEW z \in new, NEW k \in 0..2 PROVE Unlinked(D.st, z, k)
  BY <1>4, <1>5 DEF Unlinked, Unwired
<1>10. ASSUME NEW z \in new, NEW j \in 1..2 PROVE Uncreated(D, z, j)
  <2> SUFFICES ASSUME NEW r \in Registers PROVE cv[r] # <<z, j>> /\ scv[r] # <<z, j>>
    BY DEF Uncreated
  <2>1. z \notin live BY <1>3
  <2>2. \A spec : ~Creates(st, live, <<z, j>>, r, spec) BY <2>1 DEF Creates
  <2>3. NoCreator # <<z, j>> /\ Unset # <<z, j>>
    <3>1. Len(<<z, j>>) = 2 /\ Len(NoCreator) = 0 /\ Len(Unset) = 1 BY DEF NoCreator, Unset
    <3> QED BY <3>1
  <2> QED BY <1>1, <2>2, <2>3 DEF Creators
<1> QED BY <1>8, <1>9, <1>10 DEF new

\* The stations with a new instruction.
LEMMA EnteredIs ==
  ASSUME NEW live, NEW rq, NEW wk, NEW ev, NEW cv, NEW scv,
         Good(st, live, rq, wk, ev, cv, scv),
         NEW i, Enters(i), Taking(i) \subseteq Slots \ live,
         spec_mode \in BOOLEAN, inst_seq \in Nat, NEW wrong \in BOOLEAN,
         NEW pc, NEW npc, NEW addr, NEW F, F = Fill(pc, i, npc, addr, wrong),
         NEW D, D = Entered([st |-> F, cv |-> cv, scv |-> scv], i)
  PROVE  /\ Good(D.st, live \cup Taking(i), rq, wk, ev, D.cv, D.scv)
         /\ LinkFrame(F, D.st)
<1> DEFINE x == R(RUU.tail)
           y == L(LSQ.tail)
           D0 == [st |-> F, cv |-> cv, scv |-> scv]
           all == live \cup Taking(i)
<1>1. /\ live \in SUBSET Slots /\ Typed(st) /\ Holders(st, live)
      /\ StoresWriteNothing(st, live)
  BY DEF Good, Sound
<1>2. /\ DOMAIN F = Slots
      /\ \A z \in Slots \ Taking(i) : F[z] = st[z]
      /\ \A z \in Slots : F[z].odep_list = st[z].odep_list
      /\ \A z \in Taking(i) :
               /\ StationType(F[z]) /\ F[z].tag = st[z].tag /\ F[z].spec_mode = spec_mode
               /\ ~F[z].queued /\ ~F[z].issued /\ ~F[z].completed
               /\ in_LSQ(z) => F[z].op = i.op /\ i.op \in Memory
                               /\ ~F[z].recover_inst /\ ~F[z].ea_comp
               /\ ~in_LSQ(z) => /\ F[z].op # "store" /\ F[z].recover_inst = wrong
                                /\ F[z].ea_comp <=> i.op \in Memory
  BY <1>1, FilledIs
<1>3. /\ Linking(D0, all, rq, wk, ev)
      /\ \A z \in Taking(i) : /\ \A k \in 0..2 : Unlinked(D0.st, z, k)
                              /\ \A j \in 1..2 : Uncreated(D0, z, j)
  <2> DEFINE E == D0
  <2>1. E = D0 OBVIOUS
  <2> HIDE DEF E
  <2> QED BY <2>1, NewStations
<1>4. /\ all \in SUBSET Slots /\ x \in Taking(i) /\ x \in Slots /\ ~in_LSQ(x) /\ in_LSQ(y)
      /\ i.op \in Memory => y \in Taking(i) /\ y \in Slots
      /\ Taking(i) \subseteq {x, y}
      /\ i.op \notin Memory => Taking(i) = {x}
  BY <1>1 DEF Taking, R, L, in_LSQ
<1>5. D0.st = F OBVIOUS
<1> HIDE DEF D0, x, y, all
<1>6. DTMP \in Registers /\ NA \in Registers \cup {NA} BY DEF Registers
<1>7. CASE i.op \notin Memory
  <2>1. D = LinkAll(D0, x, i.in, i.out) BY <1>7 DEF Entered, D0, x
  <2>2. F[x].op # "store" BY <1>2, <1>4
  <2>3. CanLinkAll(D0, all, rq, wk, ev, x, i.in, i.out)
    BY <1>2, <1>3, <1>4, <1>5, <2>2 DEF CanLinkAll, all, Enters
  <2>4. LinkedAll(D0, all, rq, wk, ev, x, i.out, D) BY ONLY <2>1, <2>3, AllLinked
  <2>5. LinkFrame(F, D.st) BY <1>5, <2>4 DEF LinkedAll
  <2>6. ASSUME NEW z \in all, D.st[z].op = "store" PROVE D.st[z].onames = <<NA, NA>>
    <3>1. F[z].op = "store" BY <1>4, <2>5, <2>6 DEF LinkFrame
    <3>2. z # x /\ z \in live BY <1>4, <1>7, <2>2, <3>1 DEF all
    <3>3. D.st[z].onames = F[z].onames BY <1>4, <1>5, <2>4, <3>2 DEF LinkedAll
    <3>4. F[z] = st[z] BY <1>1, <1>2, <1>4, <1>7, <3>2
    <3> QED BY <1>1, <3>1, <3>2, <3>3, <3>4 DEF StoresWriteNothing
  <2> QED BY <1>4, <2>4, <2>5, <2>6 DEF Good, LinkedAll, Linking, StoresWriteNothing, all
<1>8. CASE i.op \in Memory
  <2> DEFINE in1 == <<NA, i.in[2], i.in[3]>>
             out1 == <<DTMP, NA>>
             in2 == <<i.in[1], DTMP, NA>>
             D1 == LinkAll(D0, x, in1, out1)
  <2>1. D = LinkAll(D1, y, in2, i.out) BY <1>8 DEF Entered, D0, x, y
  <2>2. F[x].op # "store" /\ y \in Taking(i) /\ y # x BY <1>2, <1>4, <1>8
  <2>3. /\ \A k \in 1..3 : in1[k] \in Registers \cup {NA} /\ in2[k] \in Registers \cup {NA}
        /\ \A k \in 1..2 : out1[k] \in Registers \cup {NA}
    <3>1. /\ in1[1] = NA /\ in1[2] = i.in[2] /\ in1[3] = i.in[3]
          /\ in2[1] = i.in[1] /\ in2[2] = DTMP /\ in2[3] = NA
          /\ out1[1] = DTMP /\ out1[2] = NA
      OBVIOUS
    <3>2. \A k \in 1..3 : i.in[k] \in Registers \cup {NA} BY DEF Enters
    <3>3. i.in[1] \in Registers \cup {NA} /\ i.in[2] \in Registers \cup {NA}
          /\ i.in[3] \in Registers \cup {NA}
      BY <3>2
    <3> HIDE DEF in1, in2, out1
    <3>4. \A k \in 1..3 : k = 1 \/ k = 2 \/ k = 3 OBVIOUS
    <3>5. \A k \in 1..2 : k = 1 \/ k = 2 OBVIOUS
    <3> QED BY ONLY <1>6, <3>1, <3>3, <3>4, <3>5
  <2> HIDE DEF in1, in2, out1
  <2>4. CanLinkAll(D0, all, rq, wk, ev, x, in1, out1)
    BY <1>2, <1>3, <1>4, <1>5, <2>2, <2>3 DEF CanLinkAll, all
  <2>5. LinkedAll(D0, all, rq, wk, ev, x, out1, D1) BY ONLY <2>4, AllLinked DEF D1
  <2> HIDE DEF D1
  <2>6. LinkFrame(F, D1.st) /\ Linking(D1, all, rq, wk, ev) BY <1>5, <2>5 DEF LinkedAll
  <2>7. \A k \in 0..2 : Unlinked(D1.st, y, k) BY <1>3, <1>4, <2>2, <2>5 DEF LinkedAll
  <2>8. \A k \in 1..2 : Uncreated(D1, y, k) BY <1>3, <1>4, <2>2, <2>5 DEF LinkedAll
  <2>9. /\ ~D1.st[y].queued /\ ~D1.st[y].issued /\ ~D1.st[y].completed
        /\ D1.st[y].spec_mode = spec_mode /\ D1.st[y].op = i.op /\ y \in all
    BY <1>2, <1>4, <2>2, <2>6 DEF LinkFrame, all
  <2>10. i.op = "store" => \A k \in 1..2 : i.out[k] = NA
    <3>1. <<NA, NA>>[1] = NA /\ <<NA, NA>>[2] = NA OBVIOUS
    <3> QED BY <3>1 DEF Enters
  <2>11. CanLinkAll(D1, all, rq, wk, ev, y, in2, i.out)
    BY <1>4, <2>3, <2>6, <2>7, <2>8, <2>9, <2>10 DEF CanLinkAll, Enters
  <2>12. LinkedAll(D1, all, rq, wk, ev, y, i.out, D) BY ONLY <2>1, <2>11, AllLinked
  <2>13. LinkFrame(F, D.st) BY <2>6, <2>12 DEF LinkedAll, LinkFrame
  <2>14. ASSUME NEW z \in all, D.st[z].op = "store" PROVE D.st[z].onames = <<NA, NA>>
    <3>1. F[z].op = "store" BY <1>4, <2>13, <2>14 DEF LinkFrame
    <3>2. CASE z = y
      <4>1. i.op = "store" BY <1>2, <1>4, <2>2, <3>1, <3>2
      <4>2. \A k \in 1..2 : D.st[y].onames[k] = NA BY <2>10, <2>12, <4>1 DEF LinkedAll
      <4>3. StationType(D.st[y]) BY <1>4, <2>2, <2>12 DEF LinkedAll, Linking, Sound, Typed
      <4> DEFINE o == D.st[y].onames
      <4>4. o \in [1..2 -> Registers \cup {NA}] BY <4>3 DEF StationType
      <4>5. \A k \in 1..2 : o[k] = NA BY <4>2
      <4> HIDE DEF o
      <4>6. o = <<NA, NA>> BY <4>4, <4>5
      <4> QED BY <3>2, <4>6 DEF o
    <3>3. CASE z # y
      <4>1. z # x /\ z \in live BY <1>4, <2>2, <3>1, <3>3 DEF all
      <4>2. D.st[z].onames = F[z].onames
        BY <1>4, <1>5, <2>5, <2>12, <3>3, <4>1 DEF LinkedAll
      <4>3. F[z] = st[z] BY <1>1, <1>2, <1>4, <3>3, <4>1
      <4> QED BY <1>1, <3>1, <4>1, <4>2, <4>3 DEF StoresWriteNothing
    <3> QED BY <3>2, <3>3
  <2> QED BY <1>4, <2>12, <2>13, <2>14 DEF Good, LinkedAll, Linking, StoresWriteNothing, all
<1> QED BY <1>7, <1>8

\* An instruction that is ready, and nowhere else, gets into the ready queue.
CanEnqueue(S, live, wk, ev, cv, scv, x) ==
    /\ {"st", "queue", "panic"} \subseteq DOMAIN S
    /\ Good(S.st, live, S.queue, wk, ev, cv, scv)
    /\ x \in live /\ OPERANDS_READY(S.st[x])
    /\ ~S.st[x].queued /\ ~S.st[x].issued /\ ~S.st[x].completed
InQueue(S, live, wk, ev, cv, scv, x, T) ==
    /\ Good(T.st, live, T.queue, wk, ev, cv, scv) /\ Frame(S.st, T.st)
    /\ DOMAIN T = DOMAIN S /\ \A a \in DOMAIN S \ {"st", "queue"} : T[a] = S[a]
    /\ \A z \in Slots : z # x => T.st[z] = S.st[z]

\* readyq_enqueue() does not panic for an instruction that is ready and not yet queued.
LEMMA GoodEnqueued ==
  ASSUME NEW S, NEW live, NEW wk, NEW ev, NEW cv, NEW scv, NEW x,
         CanEnqueue(S, live, wk, ev, cv, scv, x)
  PROVE  InQueue(S, live, wk, ev, cv, scv, x, readyq_enqueue(S, x))
<1> DEFINE T == readyq_enqueue(S, x)
           f == AllLinks(S.st)
<1>1. /\ live \in SUBSET Slots /\ {"st", "queue", "panic"} \subseteq DOMAIN S
      /\ Sound(S.st, live, f, S.queue, wk, ev)
      /\ x \in live /\ OPERANDS_READY(S.st[x])
      /\ ~S.st[x].queued /\ ~S.st[x].issued /\ ~S.st[x].completed
  BY DEF CanEnqueue, Good
<1>2. T = readyq_enqueue(S, x) OBVIOUS
<1> HIDE DEF T, f
<1>3. /\ Sound(T.st, live, f, T.queue, wk, ev) /\ Frame(S.st, T.st)
      /\ DOMAIN T = DOMAIN S /\ \A a \in DOMAIN S \ {"st", "queue"} : T[a] = S[a]
      /\ \A z \in Slots : z # x => T.st[z] = S.st[z]
  BY ONLY <1>1, <1>2, Enqueued
<1>4. Good(T.st, live, T.queue, wk, ev, cv, scv)
  <2>1. Good(S.st, live, S.queue, wk, ev, cv, scv) BY DEF CanEnqueue
  <2>2. Sound(T.st, live, AllLinks(S.st), T.queue, wk, ev) BY <1>3 DEF f
  <2> QED BY ONLY <1>3, <2>1, <2>2, GoodFrame
<1> QED BY <1>3, <1>4 DEF T, InQueue

\* The state after an instruction is dispatched.
CanEnterAll(live, rq, wk, ev, cv, scv, i, wrong, pc, npc, addr, F, D, S2) ==
    /\ Good(st, live, rq, wk, ev, cv, scv) /\ Enters(i) /\ Taking(i) \subseteq Slots \ live
    /\ spec_mode \in BOOLEAN /\ inst_seq \in Nat /\ wrong \in BOOLEAN
    /\ F = Fill(pc, i, npc, addr, wrong)
    /\ D = Entered([st |-> F, cv |-> cv, scv |-> scv], i)
    /\ \E S0, S1 :
          /\ S0 = [st |-> D.st, queue |-> rq, panic |-> panic]
          /\ S1 = IF OPERANDS_READY(D.st[R(RUU.tail)]) THEN readyq_enqueue(S0, R(RUU.tail)) ELSE S0
          /\ S2 = IF i.op = "store" /\ OPERANDS_READY(D.st[L(LSQ.tail)])
                  THEN readyq_enqueue(S1, L(LSQ.tail)) ELSE S1
InFlight(live, wk, ev, i, F, D, S2) ==
    /\ Good(S2.st, live \cup Taking(i), S2.queue, wk, ev, D.cv, D.scv)
    /\ S2.panic = panic
    /\ \A z \in Slots : /\ S2.st[z].spec_mode = F[z].spec_mode
                        /\ S2.st[z].ea_comp = F[z].ea_comp
                        /\ S2.st[z].completed = F[z].completed
                        /\ S2.st[z].recover_inst = F[z].recover_inst
                        /\ Same(F, S2.st, z)
\* All that ruu_dispatch() does to the stations and the ready queue.
LEMMA DispatchedIs ==
  ASSUME NEW live, NEW rq, NEW wk, NEW ev, NEW cv, NEW scv, NEW i, NEW wrong, NEW pc, NEW npc,
         NEW addr, NEW F, NEW D, NEW S2,
         CanEnterAll(live, rq, wk, ev, cv, scv, i, wrong, pc, npc, addr, F, D, S2)
  PROVE  InFlight(live, wk, ev, i, F, D, S2)
<1> SUFFICES
      ASSUME Good(st, live, rq, wk, ev, cv, scv),
             Enters(i), Taking(i) \subseteq Slots \ live,
             spec_mode \in BOOLEAN, inst_seq \in Nat, wrong \in BOOLEAN,
             F = Fill(pc, i, npc, addr, wrong),
             D = Entered([st |-> F, cv |-> cv, scv |-> scv], i),
             NEW S0, S0 = [st |-> D.st, queue |-> rq, panic |-> panic],
             NEW S1, S1 = IF OPERANDS_READY(D.st[R(RUU.tail)])
                          THEN readyq_enqueue(S0, R(RUU.tail)) ELSE S0,
             S2 = IF i.op = "store" /\ OPERANDS_READY(D.st[L(LSQ.tail)])
                  THEN readyq_enqueue(S1, L(LSQ.tail)) ELSE S1
      PROVE  InFlight(live, wk, ev, i, F, D, S2)
  BY DEF CanEnterAll
<1> DEFINE x == R(RUU.tail)
           y == L(LSQ.tail)
           all == live \cup Taking(i)
<1>1. Good(D.st, all, rq, wk, ev, D.cv, D.scv) /\ LinkFrame(F, D.st)
  BY EnteredIs
<1>2. live \in SUBSET Slots /\ Typed(st) /\ Holders(st, live) BY DEF Good, Sound
<1>3. \A z \in Taking(i) : ~F[z].queued /\ ~F[z].issued /\ ~F[z].completed
  BY <1>2, FilledIs
<1>4. /\ x \in Taking(i) /\ x \in Slots /\ x # y /\ Taking(i) \subseteq Slots
      /\ i.op = "store" => y \in Taking(i)
      /\ all \in SUBSET Slots /\ Taking(i) \subseteq all
  BY <1>2 DEF Taking, R, L, Memory
<1>5. /\ S1 = IF OPERANDS_READY(D.st[x]) THEN readyq_enqueue(S0, x) ELSE S0
      /\ S2 = IF i.op = "store" /\ OPERANDS_READY(D.st[y]) THEN readyq_enqueue(S1, y) ELSE S1
  OBVIOUS
<1> HIDE DEF x, y, all
<1>6. /\ DOMAIN S0 = {"st", "queue", "panic"} /\ S0.st = D.st /\ S0.queue = rq
      /\ S0.panic = panic
  OBVIOUS
<1>7. \A z \in Taking(i) : ~D.st[z].queued /\ ~D.st[z].issued /\ ~D.st[z].completed
  BY <1>1, <1>3, <1>4 DEF LinkFrame
<1>8. /\ Good(S1.st, all, S1.queue, wk, ev, D.cv, D.scv) /\ Frame(D.st, S1.st)
      /\ DOMAIN S1 = {"st", "queue", "panic"} /\ S1.panic = panic
      /\ \A z \in Slots : z # x => S1.st[z] = D.st[z]
  <2>1. CASE ~OPERANDS_READY(D.st[x])
    <3>1. Frame(D.st, D.st) BY DEF Frame
    <3>2. S1 = S0 BY <1>5, <2>1
    <3> QED BY <1>1, <1>6, <3>1, <3>2
  <2>2. CASE OPERANDS_READY(D.st[x])
    <3>1. CanEnqueue(S0, all, wk, ev, D.cv, D.scv, x)
      BY <1>1, <1>4, <1>6, <1>7, <2>2 DEF CanEnqueue
    <3>2. S1 = readyq_enqueue(S0, x) BY <1>5, <2>2
    <3>3. InQueue(S0, all, wk, ev, D.cv, D.scv, x, S1) BY ONLY <3>1, <3>2, GoodEnqueued
    <3> QED BY <1>6, <3>3 DEF InQueue
  <2> QED BY <2>1, <2>2
<1>9. /\ Good(S2.st, all, S2.queue, wk, ev, D.cv, D.scv) /\ Frame(S1.st, S2.st)
      /\ S2.panic = panic
  <2>1. CASE ~(i.op = "store" /\ OPERANDS_READY(D.st[y]))
    <3>1. Frame(S1.st, S1.st) BY DEF Frame
    <3>2. S2 = S1 BY <1>5, <2>1
    <3> QED BY <1>8, <3>1, <3>2
  <2>2. CASE i.op = "store" /\ OPERANDS_READY(D.st[y])
    <3>1. y \in Taking(i) /\ S1.st[y] = D.st[y] BY <1>4, <1>8, <2>2
    <3>2. CanEnqueue(S1, all, wk, ev, D.cv, D.scv, y)
      BY <1>4, <1>7, <1>8, <2>2, <3>1 DEF CanEnqueue
    <3>3. S2 = readyq_enqueue(S1, y) BY <1>5, <2>2
    <3>4. InQueue(S1, all, wk, ev, D.cv, D.scv, y, S2) BY ONLY <3>2, <3>3, GoodEnqueued
    <3> QED BY <1>8, <3>4 DEF InQueue
  <2> QED BY <2>1, <2>2
<1>10. \A z \in Slots : /\ S2.st[z].spec_mode = F[z].spec_mode
                        /\ S2.st[z].ea_comp = F[z].ea_comp
                        /\ S2.st[z].completed = F[z].completed
                        /\ S2.st[z].recover_inst = F[z].recover_inst
                        /\ Same(F, S2.st, z)
  BY ONLY <1>1, <1>8, <1>9 DEF LinkFrame, Frame, Same
<1> QED BY <1>9, <1>10 DEF all, InFlight
-----------------------------------------------------------------------------
(* ruu_writeback() wakes what waits for a result *)

WakeRun(S, links, N, F) ==
    \A k \in 0..N : F[k] = IF k = 0 THEN S ELSE Wake(F[k - 1], links[k])

\* The loop over the links, as a run of its single steps.
LEMMA WakeAllIs ==
  ASSUME NEW S, NEW links, NEW N \in Nat, N = Len(links), NEW T, T = WakeAll(S, links)
  PROVE  \E F : WakeRun(S, links, N, F) /\ T = F[N]
<1> DEFINE Is(F, m) == F = [k \in 0..m |-> IF k = 0 THEN S ELSE Wake(F[k - 1], links[k])]
           Bad == {m \in 0..N : ~\E F : Is(F, m)}
<1>1. Bad = {}
  <2> SUFFICES ASSUME Bad # {} PROVE FALSE OBVIOUS
  <2>1. Bad \in SUBSET Int /\ 0 \in Int /\ \A m \in Bad : 0 <= m OBVIOUS
  <2>2. PICK m \in Bad : \A j \in Bad : m <= j
    <3> HIDE DEF Bad
    <3> QED BY <2>1, LeastExists
  <2>3. m # 0
    <3> DEFINE F == [k \in 0..0 |-> S]
    <3>1. Is(F, 0) OBVIOUS
    <3> QED BY <2>2, <3>1
  <2>4. PICK F : Is(F, m - 1)
    <3>1. m \in 0..N BY <2>2
    <3>2. m - 1 \in 0..N BY ONLY <2>3, <3>1, N \in Nat
    <3>3. m - 1 \notin Bad
      <4> HIDE DEF Bad
      <4> QED BY ONLY <2>2, <3>1
    <3> QED BY <3>2, <3>3
  <2>5. m \in 1..N BY <2>2, <2>3
  <2> DEFINE G == [k \in 0..m |-> IF k = m THEN Wake(F[m - 1], links[m]) ELSE F[k]]
  <2>6. \A k \in 0..m - 1 : F[k] = IF k = 0 THEN S ELSE Wake(F[k - 1], links[k]) BY <2>4
  <2>7. ASSUME NEW k \in 0..m
        PROVE  G[k] = IF k = 0 THEN S ELSE Wake(G[k - 1], links[k])
    <3>1. CASE k = m
      <4>1. G[k] = Wake(F[m - 1], links[m]) /\ G[k - 1] = F[m - 1] BY <2>5, <3>1
      <4> QED BY <2>5, <3>1, <4>1
    <3>2. CASE k # m
      <4>1. k \in 0..m - 1 /\ G[k] = F[k] BY <2>5, <3>2
      <4>2. k # 0 => G[k - 1] = F[k - 1] BY <2>5, <3>2
      <4> QED BY <2>6, <4>1, <4>2
    <3> QED BY <3>1, <3>2
  <2>8. DOMAIN G = 0..m /\ G = [k \in 0..m |-> G[k]] OBVIOUS
  <2> HIDE DEF G
  <2>9. Is(G, m) BY <2>7, <2>8
  <2> QED BY <2>2, <2>9
<1>2. \E F : Is(F, N) BY <1>1
<1> DEFINE after == CHOOSE F : Is(F, N)
<1>3. Is(after, N) BY <1>2
<1>4. T = after[N] BY DEF WakeAll
<1> HIDE DEF after
<1>5. WakeRun(S, links, N, after) BY <1>3 DEF WakeRun
<1> QED BY <1>4, <1>5

\* One link less to follow.
CanWake(S, live, f, wk, ev, i, g) ==
    /\ live \in SUBSET Slots /\ {"st", "queue", "panic"} \subseteq DOMAIN S
    /\ Sound(S.st, live, f, S.queue, wk, ev)
    /\ i \in DOMAIN f /\ DOMAIN g = DOMAIN f \ {i} /\ \A w \in DOMAIN g : g[w] = f[w]
WokenTo(S, live, g, wk, ev, T) ==
    /\ Sound(T.st, live, g, T.queue, wk, ev) /\ Frame(S.st, T.st)
    /\ DOMAIN T = DOMAIN S /\ T.panic = S.panic

\* One link: the operand becomes ready, and the last one puts its instruction into the queue.
LEMMA WokenIs ==
  ASSUME NEW S, NEW live, NEW f, NEW wk, NEW ev, NEW i, NEW g,
         CanWake(S, live, f, wk, ev, i, g)
  PROVE  WokenTo(S, live, g, wk, ev, Wake(S, f[i]))
<1> DEFINE T == Wake(S, f[i])
<1>1. /\ live \in SUBSET Slots /\ {"st", "queue", "panic"} \subseteq DOMAIN S
      /\ Sound(S.st, live, f, S.queue, wk, ev)
      /\ i \in DOMAIN f /\ DOMAIN g = DOMAIN f \ {i} /\ \A w \in DOMAIN g : g[w] = f[w]
  BY DEF CanWake
<1>2. T = Wake(S, f[i]) OBVIOUS
<1> HIDE DEF T
<1>3. /\ Sound(T.st, live, g, T.queue, wk, ev) /\ Frame(S.st, T.st)
      /\ DOMAIN T = DOMAIN S /\ T.panic = S.panic
  BY ONLY <1>1, <1>2, Woken
<1> QED BY <1>3 DEF T, WokenTo

\* f: all links.  from: of those of the result, where they are in f.  g: the others.
CanWakeAll(S, live, f, wk, ev, g, links, N, from, T) ==
    /\ live \in SUBSET Slots /\ {"st", "queue", "panic"} \subseteq DOMAIN S
    /\ Sound(S.st, live, f, S.queue, wk, ev)
    /\ DOMAIN g \subseteq DOMAIN f /\ \A w \in DOMAIN g : g[w] = f[w]
    /\ N \in Nat /\ N = Len(links)
    /\ \A k \in 1..N : from[k] \in DOMAIN f \ DOMAIN g /\ links[k] = f[from[k]]
    /\ \A j, k \in 1..N : from[j] = from[k] => j = k
    /\ T = WakeAll(S, links)

\* writeback_resolve's loop over the output's links keeps the invariants, g the links left.
LEMMA AllWoken ==
  ASSUME NEW S, NEW live, NEW f, NEW wk, NEW ev, NEW g, NEW links, NEW N, NEW from, NEW T,
         CanWakeAll(S, live, f, wk, ev, g, links, N, from, T)
  PROVE  Sound(T.st, live, g, T.queue, wk, ev) /\ Frame(S.st, T.st) /\ T.panic = S.panic
<1> SUFFICES
      ASSUME live \in SUBSET Slots, {"st", "queue", "panic"} \subseteq DOMAIN S,
             Sound(S.st, live, f, S.queue, wk, ev),
             DOMAIN g \subseteq DOMAIN f, \A w \in DOMAIN g : g[w] = f[w],
             N \in Nat, N = Len(links),
             \A k \in 1..N : from[k] \in DOMAIN f \ DOMAIN g /\ links[k] = f[from[k]],
             \A j, k \in 1..N : from[j] = from[k] => j = k,
             T = WakeAll(S, links)
      PROVE  Sound(T.st, live, g, T.queue, wk, ev) /\ Frame(S.st, T.st) /\ T.panic = S.panic
  BY DEF CanWakeAll
<1>1. PICK F : WakeRun(S, links, N, F) /\ T = F[N]
  <2>1. N \in Nat /\ N = Len(links) /\ T = WakeAll(S, links) OBVIOUS
  <2> QED BY ONLY <2>1, WakeAllIs
<1>2. \A k \in 0..N : F[k] = IF k = 0 THEN S ELSE Wake(F[k - 1], links[k])
  BY <1>1 DEF WakeRun
<1> DEFINE A(k) == {u \in DOMAIN f : \A j \in 1..k : u # from[j]}
           Left(k) == [w \in A(k) |-> f[w]]
           P(k) == /\ DOMAIN F[k] = DOMAIN S /\ F[k].panic = S.panic /\ Frame(S.st, F[k].st)
                   /\ Sound(F[k].st, live, Left(k), F[k].queue, wk, ev)
           Bad == {k \in 0..N : ~P(k)}
<1>3. P(0)
  <2>1. F[0] = S /\ Frame(S.st, S.st) BY <1>2 DEF Frame
  <2>2. DOMAIN Left(0) \subseteq DOMAIN f /\ \A w \in DOMAIN Left(0) : Left(0)[w] = f[w]
    OBVIOUS
  <2> DEFINE h == Left(0)
  <2> HIDE DEF h
  <2>3. /\ live \in SUBSET Slots /\ Sound(S.st, live, f, S.queue, wk, ev)
        /\ DOMAIN h \subseteq DOMAIN f /\ \A w \in DOMAIN h : h[w] = f[w]
    BY <2>2 DEF h
  <2>4. Sound(S.st, live, h, S.queue, wk, ev) BY ONLY <2>3, FewerWires
  <2> QED BY <2>1, <2>4 DEF h
<1>4. ASSUME NEW k \in 1..N, P(k - 1) PROVE P(k)
  <2> DEFINE U == F[k - 1]
             a == Left(k - 1)
             b == Left(k)
  <2>1. from[k] \in A(k - 1)
    <3>1. from[k] \in DOMAIN f OBVIOUS
    <3>2. \A j \in 1..k - 1 : j \in 1..N /\ j # k OBVIOUS
    <3>3. \A j \in 1..k - 1 : from[k] # from[j] BY <3>2
    <3> QED BY <3>1, <3>3
  <2>2. A(k) = A(k - 1) \ {from[k]}
    <3>1. \A j \in 1..k : j = k \/ j \in 1..k - 1 OBVIOUS
    <3>2. \A j \in 1..k - 1 : j \in 1..k OBVIOUS
    <3>3. k \in 1..k OBVIOUS
    <3> QED BY <3>1, <3>2, <3>3
  <2>3. from[k] \in DOMAIN a /\ DOMAIN b = DOMAIN a \ {from[k]}
        /\ \A w \in DOMAIN b : b[w] = a[w]
    BY <2>1, <2>2
  <2>4. a[from[k]] = links[k] BY <2>1
  <2>5. F[k] = Wake(U, links[k]) BY <1>2
  <2>6. /\ DOMAIN U = DOMAIN S /\ U.panic = S.panic /\ Frame(S.st, U.st)
        /\ Sound(U.st, live, a, U.queue, wk, ev)
    BY <1>4
  <2> HIDE DEF a, b, U
  <2>7. CanWake(U, live, a, wk, ev, from[k], b) BY <2>3, <2>6 DEF CanWake
  <2>8. WokenTo(U, live, b, wk, ev, F[k]) BY ONLY <2>4, <2>5, <2>7, WokenIs
  <2>9. Frame(S.st, F[k].st) BY <2>6, <2>8 DEF WokenTo, Frame
  <2> QED BY <2>6, <2>8, <2>9 DEF WokenTo, b
<1>5. Bad = {}
  <2> SUFFICES ASSUME Bad # {} PROVE FALSE OBVIOUS
  <2>1. Bad \in SUBSET Int /\ 0 \in Int /\ \A m \in Bad : 0 <= m OBVIOUS
  <2>2. PICK m \in Bad : \A j \in Bad : m <= j
    <3> HIDE DEF Bad
    <3> QED BY <2>1, LeastExists
  <2> HIDE DEF P
  <2>3. m # 0 BY <1>3, <2>2
  <2>4. m \in 1..N /\ m - 1 \in 0..N /\ m - 1 \notin Bad BY <2>2, <2>3
  <2> QED BY <1>4, <2>2, <2>4
<1>6. P(N)
  <2> HIDE DEF P
  <2> QED BY <1>5
<1> DEFINE h == Left(N)
<1>7. DOMAIN g \subseteq DOMAIN h /\ \A w \in DOMAIN g : g[w] = h[w]
  <2>1. \A w \in DOMAIN g : w \in A(N) OBVIOUS
  <2> QED BY <2>1
<1>8. Sound(T.st, live, h, T.queue, wk, ev) BY <1>1, <1>6
<1> HIDE DEF h
<1>9. Sound(T.st, live, g, T.queue, wk, ev)
  <2>1. live \in SUBSET Slots OBVIOUS
  <2> QED BY ONLY <1>7, <1>8, <2>1, FewerWires
<1> QED BY <1>1, <1>6, <1>9
-----------------------------------------------------------------------------
(* lsq_refresh() *)

CanRefresh(U, live, wk, ev, cv, scv) ==
    /\ DOMAIN U = {"st", "queue", "panic", "unknown", "stop"} /\ U.stop \in BOOLEAN
    /\ Good(U.st, live, U.queue, wk, ev, cv, scv)

\* lsq_refresh() queues one load, which is not queued twice.
LEMMA Refreshed ==
  ASSUME NEW U, NEW live, NEW wk, NEW ev, NEW cv, NEW scv, CanRefresh(U, live, wk, ev, cv, scv),
         NEW y \in live, in_LSQ(y), NEW T, T = RefreshOne(U, y)
  PROVE  /\ CanRefresh(T, live, wk, ev, cv, scv)
         /\ Frame(U.st, T.st) /\ T.panic = U.panic
<1> DEFINE s == U.st[y]
           same == DOMAIN U = {"st", "queue", "panic", "unknown", "stop"}
<1>1. /\ DOMAIN U = {"st", "queue", "panic", "unknown", "stop"} /\ U.stop \in BOOLEAN
      /\ Good(U.st, live, U.queue, wk, ev, cv, scv)
  BY DEF CanRefresh
<1>2. s.op = "load" \/ s.op = "store"
  <2>1. Progress(U.st, live) BY <1>1 DEF Good, Sound
  <2> QED BY <2>1 DEF Progress, Memory
<1>3. Frame(U.st, U.st) BY DEF Frame
<1>4. CASE U.stop
  <2>1. T = U BY <1>1, <1>4 DEF RefreshOne
  <2> QED BY <1>3, <2>1
<1>5. CASE ~U.stop /\ s.op = "store" /\ ~STORE_ADDR_READY(s)
  <2>1. T = [U EXCEPT !.stop = TRUE] BY <1>5 DEF RefreshOne
  <2>2. /\ DOMAIN T = DOMAIN U /\ T.st = U.st /\ T.queue = U.queue /\ T.panic = U.panic
        /\ T.stop = TRUE
    BY <1>1, <2>1
  <2> QED BY <1>1, <1>3, <2>2 DEF CanRefresh
<1>6. CASE ~U.stop /\ s.op = "store" /\ STORE_ADDR_READY(s)
  <2>1. PICK a : T = [U EXCEPT !.unknown = a] BY <1>6 DEF RefreshOne
  <2>2. /\ DOMAIN T = DOMAIN U /\ T.st = U.st /\ T.queue = U.queue /\ T.panic = U.panic
        /\ T.stop = U.stop
    BY <1>1, <2>1
  <2> QED BY <1>1, <1>3, <2>2 DEF CanRefresh
<1>7. CASE ~U.stop /\ s.op = "load"
  <2> DEFINE go == OPERANDS_READY(s) /\ ~s.queued /\ ~s.issued /\ ~s.completed
                      /\ s.addr \notin U.unknown
  <2>1. T = IF go THEN readyq_enqueue(U, y) ELSE U BY <1>7 DEF RefreshOne
  <2>2. CASE ~go BY <1>3, <2>1, <2>2
  <2>3. CASE go
    <3>1. CanEnqueue(U, live, wk, ev, cv, scv, y) BY <1>1, <2>3 DEF CanEnqueue
    <3>2. T = readyq_enqueue(U, y) BY <2>1, <2>3
    <3>3. InQueue(U, live, wk, ev, cv, scv, y, T) BY ONLY <3>1, <3>2, GoodEnqueued
    <3>4. DOMAIN T = DOMAIN U /\ T.panic = U.panic /\ T.stop = U.stop
      BY <1>1, <3>3 DEF InQueue
    <3> QED BY <1>1, <3>3, <3>4 DEF CanRefresh, InQueue
  <2> QED BY <2>2, <2>3
<1> QED BY <1>2, <1>4, <1>5, <1>6, <1>7

\* The entries of the LSQ, oldest first.
Entry(k) == L((LSQ.head + k - 1) % LSQ_size)
RefreshRun(S, N, F) ==
    \A k \in 0..N : F[k] = IF k = 0 THEN S ELSE RefreshOne(F[k - 1], Entry(k))

\* The loop of lsq_refresh(), as a run of its single steps.
LEMMA RefreshAllIs ==
  ASSUME NEW S, NEW N \in Nat, N = LSQ.num, NEW T, T = RefreshAll(S)
  PROVE  \E F : RefreshRun(S, N, F) /\ T = F[N]
<1> DEFINE Is(F, m) == F = [k \in 0..m |-> IF k = 0 THEN S ELSE RefreshOne(F[k - 1], Entry(k))]
           Bad == {m \in 0..N : ~\E F : Is(F, m)}
<1>1. Bad = {}
  <2> SUFFICES ASSUME Bad # {} PROVE FALSE OBVIOUS
  <2>1. Bad \in SUBSET Int /\ 0 \in Int /\ \A m \in Bad : 0 <= m OBVIOUS
  <2>2. PICK m \in Bad : \A j \in Bad : m <= j
    <3> HIDE DEF Bad
    <3> QED BY <2>1, LeastExists
  <2>3. m # 0
    <3> DEFINE F == [k \in 0..0 |-> S]
    <3>1. Is(F, 0) OBVIOUS
    <3> QED BY <2>2, <3>1
  <2>4. PICK F : Is(F, m - 1)
    <3>1. m \in 0..N BY <2>2
    <3>2. m - 1 \in 0..N BY ONLY <2>3, <3>1, N \in Nat
    <3>3. m - 1 \notin Bad
      <4> HIDE DEF Bad
      <4> QED BY ONLY <2>2, <3>1
    <3> QED BY <3>2, <3>3
  <2>5. m \in 1..N BY <2>2, <2>3
  <2> DEFINE G == [k \in 0..m |-> IF k = m THEN RefreshOne(F[m - 1], Entry(m)) ELSE F[k]]
  <2>6. \A k \in 0..m - 1 : F[k] = IF k = 0 THEN S ELSE RefreshOne(F[k - 1], Entry(k)) BY <2>4
  <2>7. ASSUME NEW k \in 0..m
        PROVE  G[k] = IF k = 0 THEN S ELSE RefreshOne(G[k - 1], Entry(k))
    <3>1. CASE k = m
      <4>1. G[k] = RefreshOne(F[m - 1], Entry(m)) /\ G[k - 1] = F[m - 1] BY <2>5, <3>1
      <4> QED BY <2>5, <3>1, <4>1
    <3>2. CASE k # m
      <4>1. k \in 0..m - 1 /\ G[k] = F[k] BY <2>5, <3>2
      <4>2. k # 0 => G[k - 1] = F[k - 1] BY <2>5, <3>2
      <4> QED BY <2>6, <4>1, <4>2
    <3> QED BY <3>1, <3>2
  <2>8. DOMAIN G = 0..m /\ G = [k \in 0..m |-> G[k]] OBVIOUS
  <2> HIDE DEF G
  <2>9. Is(G, m) BY <2>7, <2>8
  <2> QED BY <2>2, <2>9
<1>2. \E F : Is(F, N) BY <1>1
<1> DEFINE after == CHOOSE F : Is(F, N)
<1>3. Is(after, N) BY <1>2
<1>4. T = after[N] BY DEF RefreshAll, Entry
<1> HIDE DEF after
<1>5. RefreshRun(S, N, after) BY <1>3 DEF RefreshRun
<1> QED BY <1>4, <1>5

\* lsq_refresh() keeps everything in place and does not panic.
LEMMA AllRefreshed ==
  ASSUME NEW S, NEW live, NEW wk, NEW ev, NEW cv, NEW scv, CanRefresh(S, live, wk, ev, cv, scv),
         NEW N \in Nat, N = LSQ.num, \A k \in 1..N : Entry(k) \in live /\ in_LSQ(Entry(k)),
         NEW T, T = RefreshAll(S)
  PROVE  /\ Good(T.st, live, T.queue, wk, ev, cv, scv)
         /\ Frame(S.st, T.st) /\ T.panic = S.panic
<1>1. PICK F : RefreshRun(S, N, F) /\ T = F[N]
  <2>1. N \in Nat /\ N = LSQ.num /\ T = RefreshAll(S) OBVIOUS
  <2> QED BY ONLY <2>1, RefreshAllIs
<1>2. \A k \in 0..N : F[k] = IF k = 0 THEN S ELSE RefreshOne(F[k - 1], Entry(k))
  BY <1>1 DEF RefreshRun
<1> DEFINE P(k) == /\ CanRefresh(F[k], live, wk, ev, cv, scv)
                   /\ Frame(S.st, F[k].st) /\ F[k].panic = S.panic
           Bad == {k \in 0..N : ~P(k)}
<1>3. P(0)
  <2>1. F[0] = S /\ Frame(S.st, S.st) BY <1>2 DEF Frame
  <2> QED BY <2>1
<1>4. ASSUME NEW k \in 1..N, P(k - 1) PROVE P(k)
  <2> DEFINE U == F[k - 1]
             y == Entry(k)
  <2>1. /\ CanRefresh(U, live, wk, ev, cv, scv) /\ Frame(S.st, U.st) /\ U.panic = S.panic
        /\ y \in live /\ in_LSQ(y) /\ F[k] = RefreshOne(U, y)
    BY <1>2, <1>4
  <2> HIDE DEF U, y
  <2>2. /\ CanRefresh(F[k], live, wk, ev, cv, scv)
        /\ Frame(U.st, F[k].st) /\ F[k].panic = U.panic
    BY ONLY <2>1, Refreshed
  <2>3. Frame(S.st, F[k].st) BY <2>1, <2>2 DEF Frame
  <2> QED BY <2>1, <2>2, <2>3
<1>5. Bad = {}
  <2> SUFFICES ASSUME Bad # {} PROVE FALSE OBVIOUS
  <2>1. Bad \in SUBSET Int /\ 0 \in Int /\ \A m \in Bad : 0 <= m OBVIOUS
  <2>2. PICK m \in Bad : \A j \in Bad : m <= j
    <3> HIDE DEF Bad
    <3> QED BY <2>1, LeastExists
  <2> HIDE DEF P
  <2>3. m # 0 BY <1>3, <2>2
  <2>4. m \in 1..N /\ m - 1 \in 0..N /\ m - 1 \notin Bad BY <2>2, <2>3
  <2> QED BY <1>4, <2>2, <2>4
<1>6. P(N)
  <2> HIDE DEF P
  <2> QED BY <1>5
<1> QED BY <1>1, <1>6 DEF CanRefresh
-----------------------------------------------------------------------------
(* ruu_writeback() *)

\* No pair of a slot and an output is taken for one of the two marks.
LEMMA NoCreatorIs ==
  ASSUME NEW x, NEW i PROVE NoCreator # <<x, i>> /\ Unset # <<x, i>>
<1>1. Len(<<x, i>>) = 2 /\ Len(NoCreator) = 0 /\ Len(Unset) = 1 BY DEF NoCreator, Unset
<1> QED BY <1>1

\* The create vector names no instruction that has written its result.
LEMMA WrittenIs ==
  ASSUME NEW v, NEW x, NEW r \in DOMAIN v
  PROVE  /\ DOMAIN Written(v, x) = DOMAIN v
         /\ Written(v, x)[r] = NoCreator \/ Written(v, x)[r] = v[r]
         /\ \A i \in 1..2 : Written(v, x)[r] # <<x, i>>
<1>1. \A i \in 1..2 : NoCreator # <<x, i>> BY NoCreatorIs
<1> QED BY <1>1 DEF Written

\* The links of a station's two outputs, one list after the other.
Origins(stn, x, links, from) ==
    /\ \A k \in 1..Len(links) : /\ from[k] \in DOMAIN AllLinks(stn) /\ from[k][1] = x
                                /\ links[k] = AllLinks(stn)[from[k]]
    /\ \A j, k \in 1..Len(links) : from[j] = from[k] => j = k

\* Every link of a station, in the order in which it is followed.
LinksFrom(s) == s.odep_list[1] \o s.odep_list[2]
\* Each link that a write-back follows has a place of its own in the lists of x.
LEMMA LinksOf ==
  ASSUME NEW stn, Typed(stn), NEW x \in Slots,
         NEW links, links = LinksFrom(stn[x])
  PROVE  Len(links) \in Nat /\ \E from : Origins(stn, x, links, from)
<1> DEFINE a == stn[x].odep_list[1]
           b == stn[x].odep_list[2]
           from == [k \in 1..Len(links) |-> IF k <= Len(a) THEN <<x, 1, k>>
                                            ELSE <<x, 2, k - Len(a)>>]
<1>1. a \in Seq(Links) /\ b \in Seq(Links) BY DEF Typed, StationType
<1>2. /\ \A m \in DOMAIN a : <<x, 1, m>> \in DOMAIN AllLinks(stn)
                             /\ AllLinks(stn)[<<x, 1, m>>] = a[m]
      /\ \A m \in DOMAIN b : <<x, 2, m>> \in DOMAIN AllLinks(stn)
                             /\ AllLinks(stn)[<<x, 2, m>>] = b[m]
  BY LinksAre
<1>3. links = a \o b BY DEF LinksFrom
<1> HIDE DEF a, b
<1>4. /\ Len(links) = Len(a) + Len(b) /\ Len(a) \in Nat /\ Len(b) \in Nat
      /\ \A k \in 1..Len(links) : links[k] = IF k <= Len(a) THEN a[k] ELSE b[k - Len(a)]
  BY ONLY <1>1, <1>3
<1>5. ASSUME NEW k \in 1..Len(links)
      PROVE  /\ from[k] \in DOMAIN AllLinks(stn) /\ from[k][1] = x
             /\ links[k] = AllLinks(stn)[from[k]]
  <2>1. CASE k <= Len(a)
    <3>1. from[k] = <<x, 1, k>> /\ links[k] = a[k] BY <1>4, <2>1
    <3>2. k \in DOMAIN a BY <1>1, <1>4, <2>1
    <3> QED BY <1>2, <3>1, <3>2
  <2>2. CASE ~(k <= Len(a))
    <3>1. from[k] = <<x, 2, k - Len(a)>> /\ links[k] = b[k - Len(a)] BY <1>4, <2>2
    <3>2. k - Len(a) \in DOMAIN b BY <1>1, <1>4, <2>2
    <3> QED BY <1>2, <3>1, <3>2
  <2> QED BY <2>1, <2>2
<1>6. ASSUME NEW j \in 1..Len(links), NEW k \in 1..Len(links), from[j] = from[k] PROVE j = k
  <2>1. /\ from[j] = IF j <= Len(a) THEN <<x, 1, j>> ELSE <<x, 2, j - Len(a)>>
        /\ from[k] = IF k <= Len(a) THEN <<x, 1, k>> ELSE <<x, 2, k - Len(a)>>
    OBVIOUS
  <2>2. j \in Int /\ k \in Int /\ Len(a) \in Int BY <1>4
  <2>3. /\ from[j][2] = from[k][2] /\ from[j][3] = from[k][3] BY <1>6
  <2>4. /\ j <= Len(a) => from[j][2] = 1 /\ from[j][3] = j
        /\ k <= Len(a) => from[k][2] = 1 /\ from[k][3] = k
        /\ ~(j <= Len(a)) => from[j][2] = 2 /\ from[j][3] = j - Len(a)
        /\ ~(k <= Len(a)) => from[k][2] = 2 /\ from[k][3] = k - Len(a)
    BY <2>1
  <2> HIDE DEF from
  <2>5. CASE j <= Len(a) /\ k <= Len(a) BY ONLY <2>3, <2>4, <2>5
  <2>6. CASE ~(j <= Len(a)) /\ ~(k <= Len(a))
    <3>1. j - Len(a) = k - Len(a) BY ONLY <2>3, <2>4, <2>6
    <3> QED BY ONLY <2>2, <3>1
  <2>7. CASE j <= Len(a) /\ ~(k <= Len(a)) BY ONLY <2>3, <2>4, <2>7
  <2>8. CASE ~(j <= Len(a)) /\ k <= Len(a) BY ONLY <2>3, <2>4, <2>8
  <2> QED BY <2>5, <2>6, <2>7, <2>8
<1> HIDE DEF from
<1>7. Origins(stn, x, links, from) BY <1>5, <1>6 DEF Origins
<1> QED BY <1>4, <1>7

NoLinks == <<<<>>, <<>>>>
\* The lists of a station from which nothing is to be woken.
LEMMA NoLinksAre ==
  /\ DOMAIN NoLinks = 1..2
  /\ \A j \in 1..2 : NoLinks[j] = <<>> /\ NoLinks[j] \in Seq(Links) /\ DOMAIN NoLinks[j] = {}
<1>1. DOMAIN NoLinks = 1..2 /\ NoLinks[1] = <<>> /\ NoLinks[2] = <<>> BY DEF NoLinks
<1>2. \A j \in 1..2 : j = 1 \/ j = 2 OBVIOUS
<1>3. <<>> \in Seq(Links) /\ DOMAIN <<>> = {} OBVIOUS
<1> QED BY <1>1, <1>2, <1>3

\* The stations when the result of x has come, before those wake that wait for it.
AfterWrite(x, s, gone) ==
    [y \in Slots |-> CASE y \in gone -> Squash(st[y])
                       [] y = x -> [s EXCEPT !.completed = TRUE, !.odep_list = <<<<>>, <<>>>>]
                       [] OTHER -> st[y]]
\* The state after a result is written back; gone: what it squashes.
CanWrite(live, rq, wk, ev, cv, scv, x, gone, S, cv2, scv2) ==
    /\ Good(st, live, rq, wk, ev, cv, scv) /\ ev # <<>> /\ RSLINK_VALID(st, Head(ev))
    /\ x = Head(ev).slot /\ gone \subseteq live /\ x \notin gone
    /\ \A z \in gone : st[z].spec_mode
    /\ \E s, links, st1, scvA :
          /\ s = st[x] /\ (~s.recover_inst => gone = {})
          /\ links = LinksFrom(s)
          /\ st1 = AfterWrite(x, s, gone)
          /\ S = WakeAll([st |-> st1, queue |-> rq, panic |-> panic], links)
          /\ scvA = IF s.recover_inst THEN Recovered_Vector ELSE scv
          /\ cv2 = IF s.spec_mode THEN cv ELSE Written(cv, x)
          /\ scv2 = IF s.spec_mode THEN Written(scvA, x) ELSE scvA
WroteBack(live, wk, ev, x, gone, S, cv2, scv2) ==
    /\ Good(S.st, live \ gone, S.queue, wk, Tail(ev), cv2, scv2)
    /\ S.panic = panic /\ x \in live
    /\ OPERANDS_READY(st[x]) /\ ~st[x].queued /\ st[x].issued /\ ~st[x].completed
    /\ S.st[x].completed
    /\ \A z \in live \ gone : /\ S.st[z].spec_mode = st[z].spec_mode
                              /\ S.st[z].ea_comp = st[z].ea_comp
                              /\ S.st[z].recover_inst = st[z].recover_inst
                              /\ z # x => S.st[z].completed = st[z].completed
                              /\ Same(st, S.st, z)
\* ruu_writeback() finds an instruction that is issued and not completed, squashes what
\* follows a mispredicted branch, and wakes those that wait, without a panic.
LEMMA WrittenBack ==
  ASSUME NEW live, NEW rq, NEW wk, NEW ev, NEW cv, NEW scv, NEW x, NEW gone, NEW S, NEW cv2,
         NEW scv2, CanWrite(live, rq, wk, ev, cv, scv, x, gone, S, cv2, scv2)
  PROVE  WroteBack(live, wk, ev, x, gone, S, cv2, scv2)
<1> SUFFICES
      ASSUME Good(st, live, rq, wk, ev, cv, scv), ev # <<>>, RSLINK_VALID(st, Head(ev)),
             x = Head(ev).slot, NEW s, s = st[x],
             gone \in SUBSET live, x \notin gone,
             \A z \in gone : st[z].spec_mode, ~s.recover_inst => gone = {},
             NEW links, links = LinksFrom(s),
             NEW st1, st1 = AfterWrite(x, s, gone),
             S = WakeAll([st |-> st1, queue |-> rq, panic |-> panic], links),
             NEW scvA, scvA = IF s.recover_inst THEN Recovered_Vector ELSE scv,
             cv2 = IF s.spec_mode THEN cv ELSE Written(cv, x),
             scv2 = IF s.spec_mode THEN Written(scvA, x) ELSE scvA
      PROVE  WroteBack(live, wk, ev, x, gone, S, cv2, scv2)
  BY DEF CanWrite
<1> DEFINE f == AllLinks(st)
           g == AllLinks(st1)
           rest == live \ gone
           q == Tail(ev)
           sx == [s EXCEPT !.completed = TRUE, !.odep_list = <<<<>>, <<>>>>]
           stA == [st EXCEPT ![x] = sx]
<1>1. /\ live \in SUBSET Slots /\ Sound(st, live, f, rq, wk, ev) /\ Typed(st)
      /\ Holders(st, live) /\ Creators(st, live, cv, scv) /\ StoresWriteNothing(st, live)
      /\ Progress(st, live)
  BY DEF Good, Sound
<1>2. /\ Sound(st, live, f, rq, wk, q)
      /\ x \in live /\ s.issued /\ ~s.completed
      /\ \A k \in DOMAIN q : RSLINK_VALID(st, q[k]) => q[k].slot # x
  <2>1. /\ live \in SUBSET Slots /\ Sound(st, live, f, rq, wk, ev) /\ ev # <<>>
        /\ RSLINK_VALID(st, Head(ev)) /\ x = Head(ev).slot /\ s = st[x] /\ q = Tail(ev)
    BY <1>1
  <2> HIDE DEF f, q
  <2>2. /\ Sound(st, live, f, rq, wk, Tail(ev))
        /\ RSLINK_VALID(st, Head(ev)) =>
              /\ Head(ev).slot \in live
              /\ st[Head(ev).slot].issued /\ ~st[Head(ev).slot].completed
              /\ \A k \in DOMAIN Tail(ev) :
                    RSLINK_VALID(st, Tail(ev)[k]) => Tail(ev)[k].slot # Head(ev).slot
    BY ONLY <2>1, EventTaken
  <2> QED BY <2>1, <2>2
<1>3. OPERANDS_READY(s) /\ ~s.queued BY <1>1, <1>2 DEF Progress
<1>4. x \in Slots /\ DOMAIN st = Slots /\ StationType(s) BY <1>1, <1>2 DEF Typed
<1>5. /\ DOMAIN stA = Slots /\ stA[x] = sx /\ \A z \in Slots : z # x => stA[z] = st[z]
  BY <1>4
<1> HIDE DEF f, q, stA
<1>6. Sound(stA, live, f, rq, wk, q)
  <2>1. stA[x] = [st[x] EXCEPT !.completed = TRUE, !.odep_list = <<<<>>, <<>>>>] BY <1>5
  <2>2. /\ live \in SUBSET Slots /\ Sound(st, live, f, rq, wk, q)
        /\ x \in live /\ st[x].issued /\ ~st[x].completed
        /\ \A k \in DOMAIN q : RSLINK_VALID(st, q[k]) => q[k].slot # x
        /\ DOMAIN stA = Slots /\ \A z \in Slots : z # x => stA[z] = st[z]
    BY <1>1, <1>2, <1>5
  <2> QED BY ONLY <2>1, <2>2, Completed
<1>7. /\ DOMAIN st1 = Slots /\ st1[x] = sx
      /\ \A z \in Slots \ gone : z # x => st1[z] = st[z]
      /\ \A z \in gone : st1[z] = Squash(st[z])
  <2>1. DOMAIN st1 = Slots BY DEF AfterWrite
  <2>2. \A z \in Slots : z \in gone => st1[z] = Squash(st[z]) BY DEF AfterWrite
  <2>3. \A z \in Slots : z \notin gone /\ z = x => st1[z] = sx BY DEF AfterWrite
  <2>4. \A z \in Slots : z \notin gone /\ z # x => st1[z] = st[z] BY DEF AfterWrite
  <2>5. gone \subseteq Slots BY <1>1
  <2> HIDE DEF sx
  <2> QED BY ONLY <1>4, <2>1, <2>2, <2>3, <2>4, <2>5, x \notin gone
<1>8. ASSUME NEW z \in gone
      PROVE  /\ StationType(st1[z]) /\ st1[z].tag = stA[z].tag + 1
             /\ st1[z].odep_list = <<<<>>, <<>>>>
  <2>1. z \in Slots /\ z # x /\ stA[z] = st[z] /\ StationType(st[z])
    BY <1>1, <1>5 DEF Typed
  <2> DEFINE u == st[z]
             v == Squash(u)
  <2>2. st1[z] = v BY <1>7
  <2>3. v = [u EXCEPT !.tag = @ + 1, !.odep_list = <<<<>>, <<>>>>] BY DEF Squash
  <2>4. StationType(u) BY <2>1
  <2> HIDE DEF u, v
  <2>5. /\ DOMAIN v = DOMAIN u /\ v.tag = u.tag + 1 /\ v.odep_list = <<<<>>, <<>>>>
        /\ \A a \in DOMAIN Blank \ {"tag", "odep_list"} : v[a] = u[a]
    BY <2>3, <2>4, Fields DEF StationType
  <2>6. \A j \in 1..2 : v.odep_list[j] \in Seq(Links)
    BY <2>5, NoLinksAre DEF NoLinks
  <2>7. DOMAIN v.odep_list = 1..2 BY ONLY <2>5, NoLinksAre DEF NoLinks
  <2>8. StationType(v)
    BY ONLY <2>4, <2>5, <2>6, <2>7, Fields DEF StationType
  <2> QED BY <2>1, <2>2, <2>5, <2>8 DEF u
<1>9. Sound(st1, rest, f, rq, wk, q)
  <2>1. /\ live \in SUBSET Slots /\ Sound(stA, live, f, rq, wk, q) /\ gone \in SUBSET live
        /\ DOMAIN st1 = Slots /\ \A z \in Slots \ gone : st1[z] = stA[z]
        /\ \A z \in gone : StationType(st1[z]) /\ st1[z].tag = stA[z].tag + 1
    <3>1. live \in SUBSET Slots /\ gone \in SUBSET live BY <1>1
    <3>2. DOMAIN st1 = Slots BY ONLY <1>7
    <3>3. \A z \in Slots \ gone : st1[z] = stA[z] BY ONLY <1>5, <1>7
    <3>4. \A z \in gone : StationType(st1[z]) /\ st1[z].tag = stA[z].tag + 1 BY ONLY <1>8
    <3> QED BY ONLY <1>6, <3>1, <3>2, <3>3, <3>4
  <2> QED BY ONLY <2>1, Leave
<1>10. \A z \in Slots : st1[z].odep_list = IF z = x \/ z \in gone THEN <<<<>>, <<>>>>
                                           ELSE st[z].odep_list
  <2>1. sx.odep_list = <<<<>>, <<>>>> BY <1>4, Fields DEF StationType
  <2>2. \A z \in gone : st1[z].odep_list = <<<<>>, <<>>>> BY <1>8
  <2>3. \A z \in Slots \ gone : z # x => st1[z] = st[z] BY ONLY <1>7
  <2>4. st1[x].odep_list = <<<<>>, <<>>>> BY ONLY <1>7, <2>1
  <2> QED BY ONLY <2>2, <2>3, <2>4
<1>11. /\ DOMAIN g \subseteq DOMAIN f /\ \A w \in DOMAIN g : g[w] = f[w] /\ w[1] # x
  <2>1. Typed(st1) BY <1>9 DEF Sound
  <2>2. /\ \A w \in DOMAIN g :
              \E z \in Slots, i \in 1..2 : \E m \in DOMAIN st1[z].odep_list[i] : w = <<z, i, m>>
        /\ \A z \in Slots, i \in 1..2 : \A m \in DOMAIN st1[z].odep_list[i] :
              g[<<z, i, m>>] = st1[z].odep_list[i][m]
    BY ONLY <2>1, LinksAre DEF g
  <2>f. \A z \in Slots, i \in 1..2 : \A m \in DOMAIN st[z].odep_list[i] :
              <<z, i, m>> \in DOMAIN f /\ f[<<z, i, m>>] = st[z].odep_list[i][m]
    BY ONLY <1>1, LinksAre DEF f
  <2> HIDE DEF g
  <2>3. ASSUME NEW w \in DOMAIN g PROVE w \in DOMAIN f /\ g[w] = f[w] /\ w[1] # x
    <3>1. PICK z \in Slots, i \in 1..2 : \E m \in DOMAIN st1[z].odep_list[i] : w = <<z, i, m>>
      BY ONLY <2>2, <2>3
    <3>2. PICK m \in DOMAIN st1[z].odep_list[i] : w = <<z, i, m>> BY ONLY <3>1
    <3>3. z # x /\ z \notin gone
      BY ONLY <1>10, <3>1, <3>2, NoLinksAre DEF NoLinks
    <3>4. st1[z].odep_list = st[z].odep_list BY ONLY <1>10, <3>1, <3>3
    <3>5. w \in DOMAIN f /\ f[w] = st[z].odep_list[i][m] /\ g[w] = st1[z].odep_list[i][m]
      BY ONLY <2>2, <2>f, <3>1, <3>2, <3>4
    <3>6. w[1] = z BY <3>2
    <3> QED BY ONLY <3>3, <3>4, <3>5, <3>6
  <2> QED BY <2>3
<1> DEFINE N == Len(links)
           S0 == [st |-> st1, queue |-> rq, panic |-> panic]
<1>12. N \in Nat /\ \E from : Origins(st, x, links, from) BY <1>1, <1>4, LinksOf
<1>13. PICK from : Origins(st, x, links, from) BY <1>12
<1>14. /\ \A k \in 1..N : from[k] \in DOMAIN f \ DOMAIN g /\ links[k] = f[from[k]]
       /\ \A j, k \in 1..N : from[j] = from[k] => j = k
  BY <1>11, <1>13 DEF Origins, f
<1>15. /\ {"st", "queue", "panic"} \subseteq DOMAIN S0 /\ S0.st = st1 /\ S0.queue = rq
       /\ S0.panic = panic /\ S = WakeAll(S0, links)
  OBVIOUS
<1>16. /\ rest \in SUBSET Slots /\ N = Len(links) BY <1>1
<1> HIDE DEF g, N, S0, rest
<1>17. Sound(S.st, rest, g, S.queue, wk, q) /\ Frame(st1, S.st) /\ S.panic = panic
  <2>1. Sound(S0.st, rest, f, S0.queue, wk, q) BY <1>9, <1>15
  <2>2. Sound(S.st, rest, g, S.queue, wk, q) /\ Frame(S0.st, S.st) /\ S.panic = S0.panic
    <3>1. CanWakeAll(S0, rest, f, wk, q, g, links, N, from, S)
      BY ONLY <1>11, <1>12, <1>14, <1>15, <1>16, <2>1 DEF CanWakeAll
    <3> QED BY ONLY <3>1, AllWoken
  <2> QED BY <1>15, <2>2
<1>18. AllLinks(S.st) = AllLinks(st1)
  <2>1. \A z \in Slots : S.st[z].odep_list = st1[z].odep_list BY ONLY <1>17 DEF Frame
  <2> QED BY ONLY <2>1, LinksSame
<1>19. ASSUME NEW z \in rest, z # x
       PROVE  /\ z \in Slots /\ st1[z] = st[z]
              /\ S.st[z].op = st[z].op /\ S.st[z].onames = st[z].onames
              /\ S.st[z].completed = st[z].completed /\ S.st[z].spec_mode = st[z].spec_mode
              /\ S.st[z].ea_comp = st[z].ea_comp /\ S.st[z].recover_inst = st[z].recover_inst
              /\ S.st[z].PC = st[z].PC /\ S.st[z].next_PC = st[z].next_PC
  <2>1. z \in Slots \ gone /\ z \in Slots BY <1>1, <1>19 DEF rest
  <2>2. st1[z] = st[z] BY <1>7, <1>19, <2>1
  <2> QED BY ONLY <1>17, <2>1, <2>2 DEF Frame
<1>20. /\ S.st[x].op = s.op /\ S.st[x].onames = s.onames /\ S.st[x].completed
       /\ S.st[x].spec_mode = s.spec_mode /\ S.st[x].ea_comp = s.ea_comp
       /\ S.st[x].recover_inst = s.recover_inst
       /\ S.st[x].PC = s.PC /\ S.st[x].next_PC = s.next_PC
  <2>1. /\ sx.op = s.op /\ sx.onames = s.onames /\ sx.completed
        /\ sx.spec_mode = s.spec_mode /\ sx.ea_comp = s.ea_comp
        /\ sx.recover_inst = s.recover_inst /\ sx.PC = s.PC /\ sx.next_PC = s.next_PC
    BY <1>4, Fields DEF StationType
  <2> HIDE DEF sx
  <2> QED BY ONLY <1>4, <1>7, <1>17, <2>1 DEF Frame
<1>21. Holders(S.st, rest)
  <2> SUFFICES ASSUME NEW z \in Slots, NEW i \in 1..2, S.st[z].odep_list[i] # <<>>
               PROVE  z \in rest /\ ~S.st[z].completed /\ S.st[z].op # "store"
    BY DEF Holders
  <2>a. z \in Slots /\ i \in 1..2 /\ S.st[z].odep_list[i] # <<>> OBVIOUS
  <2>1. S.st[z].odep_list = st1[z].odep_list BY ONLY <1>17, <2>a DEF Frame
  <2>2. z # x /\ z \notin gone BY ONLY <1>10, <2>a, <2>1, NoLinksAre DEF NoLinks
  <2>3. st[z].odep_list[i] # <<>> BY ONLY <1>10, <2>a, <2>1, <2>2
  <2>4. z \in live /\ ~st[z].completed /\ st[z].op # "store"
    BY ONLY <1>1, <2>a, <2>3 DEF Holders
  <2>5. z \in rest BY <2>2, <2>4 DEF rest
  <2> QED BY <1>19, <2>2, <2>4, <2>5
<1>22. StoresWriteNothing(S.st, rest)
  <2> SUFFICES ASSUME NEW z \in rest, S.st[z].op = "store" PROVE S.st[z].onames = <<NA, NA>>
    BY DEF StoresWriteNothing
  <2>a. z \in rest /\ S.st[z].op = "store" OBVIOUS
  <2>1. z \in live BY DEF rest
  <2>2. S.st[z].op = st[z].op /\ S.st[z].onames = st[z].onames
    <3>1. CASE z = x
      <4>1. s = st[x] OBVIOUS
      <4> QED BY ONLY <1>20, <3>1, <4>1
    <3>2. CASE z # x BY ONLY <1>19, <2>a, <3>2
    <3> QED BY <3>1, <3>2
  <2> QED BY ONLY <1>1, <2>a, <2>1, <2>2 DEF StoresWriteNothing
\* What a register waits for is still there, if it is not x.
<1>23. ASSUME NEW c, NEW r, NEW spec \in BOOLEAN, Creates(st, live, c, r, spec),
              \A i \in 1..2 : c # <<x, i>>, spec => gone = {}
       PROVE  Creates(S.st, rest, c, r, spec)
  <2>1. PICK z \in live, i \in 1..2 :
           /\ c = <<z, i>> /\ st[z].onames[i] = r /\ ~st[z].completed
           /\ st[z].op # "store" /\ st[z].spec_mode = spec
    BY <1>23 DEF Creates
  <2>2. z # x BY <1>23, <2>1
  <2>3. z \notin gone BY <1>23, <2>1
  <2>4. z \in rest BY <2>3 DEF rest
  <2>5. /\ S.st[z].op = st[z].op /\ S.st[z].onames = st[z].onames
        /\ S.st[z].completed = st[z].completed /\ S.st[z].spec_mode = st[z].spec_mode
    BY <1>19, <2>2, <2>4
  <2> QED BY ONLY <2>1, <2>4, <2>5 DEF Creates
<1>24. ASSUME NEW c, NEW r, NEW spec \in BOOLEAN, spec # s.spec_mode, NEW i \in 1..2
       PROVE  ~Creates(st, live, <<x, i>>, r, spec)
  <2> SUFFICES ASSUME Creates(st, live, <<x, i>>, r, spec) PROVE FALSE OBVIOUS
  <2>1. PICK z \in live, j \in 1..2 : <<x, i>> = <<z, j>> /\ st[z].spec_mode = spec
    BY DEF Creates
  <2> QED BY <1>24, <2>1
<1>25. \A i \in 1..2 : NoCreator # <<x, i>> /\ Unset # <<x, i>> BY ONLY NoCreatorIs
<1>26. DOMAIN cv = Registers /\ DOMAIN scv = Registers BY <1>1 DEF Creators
<1>27. DOMAIN scvA = Registers
  <2>1. DOMAIN Recovered_Vector = Registers BY <1>26 DEF Recovered_Vector
  <2> QED BY <1>26, <2>1
<1>28. s.spec_mode \in BOOLEAN /\ s.recover_inst \in BOOLEAN BY <1>4 DEF StationType
<1>29. Creators(S.st, rest, cv2, scv2)
  <2>1. DOMAIN cv2 = Registers /\ DOMAIN scv2 = Registers
    BY <1>26, <1>27 DEF Written
  <2>2. ASSUME NEW r \in Registers
        PROVE  cv2[r] = NoCreator \/ Creates(S.st, rest, cv2[r], r, FALSE)
    <3>1. cv[r] = NoCreator \/ Creates(st, live, cv[r], r, FALSE) BY <1>1 DEF Creators
    <3>2. cv2[r] = NoCreator \/ (cv2[r] = cv[r] /\ \A i \in 1..2 : cv[r] # <<x, i>>)
      <4>1. CASE s.spec_mode
        <5>1. cv2[r] = cv[r] BY <4>1
        <5>2. ASSUME NEW i \in 1..2 PROVE cv[r] # <<x, i>>
          BY <1>24, <1>25, <3>1, <4>1
        <5> QED BY <5>1, <5>2
      <4>2. CASE ~s.spec_mode
        <5>1. cv2 = Written(cv, x) /\ r \in DOMAIN cv BY <1>26, <4>2
        <5> QED BY ONLY <5>1, WrittenIs
      <4> QED BY <4>1, <4>2
    <3> QED BY <1>23, <3>1, <3>2
  <2>3. ASSUME NEW r \in Registers
        PROVE  \/ scv2[r] = Unset \/ scv2[r] = NoCreator
               \/ Creates(S.st, rest, scv2[r], r, TRUE)
    <3>1. CASE s.recover_inst
      <4>1. scvA[r] = Unset BY <1>26, <3>1 DEF Recovered_Vector
      <4>2. scv2 = scvA \/ scv2 = Written(scvA, x) OBVIOUS
      <4>3. Written(scvA, x)[r] = NoCreator \/ Written(scvA, x)[r] = Unset
        <5>1. r \in DOMAIN scvA BY <1>27
        <5> QED BY ONLY <4>1, <5>1, WrittenIs
      <4> QED BY ONLY <4>1, <4>2, <4>3
    <3>2. CASE ~s.recover_inst
      <4>1. scvA = scv /\ gone = {} BY <3>2
      <4>2. scv[r] = Unset \/ scv[r] = NoCreator \/ Creates(st, live, scv[r], r, TRUE)
        BY <1>1 DEF Creators
      <4>3. scv2[r] = NoCreator \/ (scv2[r] = scv[r] /\ \A i \in 1..2 : scv[r] # <<x, i>>)
        <5>1. CASE ~s.spec_mode
          <6>1. scv2[r] = scv[r] BY <4>1, <5>1
          <6>2. ASSUME NEW i \in 1..2 PROVE scv[r] # <<x, i>>
            BY <1>24, <1>25, <4>2, <5>1
          <6> QED BY <6>1, <6>2
        <5>2. CASE s.spec_mode
          <6>1. scv2 = Written(scv, x) /\ r \in DOMAIN scv BY <1>26, <4>1, <5>2
          <6> QED BY ONLY <6>1, WrittenIs
        <5> QED BY <5>1, <5>2
      <4> QED BY <1>23, <4>1, <4>2, <4>3
    <3> QED BY <3>1, <3>2
  <2> QED BY <2>1, <2>2, <2>3 DEF Creators
<1>30. Good(S.st, rest, S.queue, wk, q, cv2, scv2)
  BY <1>16, <1>17, <1>18, <1>21, <1>22, <1>29 DEF Good, g
<1>31. x \in rest BY <1>2 DEF rest
<1>32. x \in live /\ OPERANDS_READY(st[x]) /\ ~st[x].queued /\ st[x].issued /\ ~st[x].completed
  BY <1>2, <1>3
<1>33. ASSUME NEW z \in rest
       PROVE  /\ S.st[z].spec_mode = st[z].spec_mode
              /\ S.st[z].ea_comp = st[z].ea_comp
              /\ S.st[z].recover_inst = st[z].recover_inst
              /\ z # x => S.st[z].completed = st[z].completed
              /\ Same(st, S.st, z)
  <2>1. s = st[x] OBVIOUS
  <2>2. CASE z = x BY ONLY <1>20, <2>1, <2>2 DEF Same
  <2>3. CASE z # x BY ONLY <1>19, <1>33, <2>3 DEF Same
  <2> QED BY <2>2, <2>3
<1> QED BY ONLY <1>17, <1>20, <1>30, <1>32, <1>33 DEF rest, q, WroteBack
-----------------------------------------------------------------------------
(* How many instructions are in flight *)

\* The RUU half of LiveIn(), from place a of the ring on.
InRUU(r, a) == {x \in Slots : /\ ~in_LSQ(x)
                              /\ a <= Place(x[2], r.head, RUU_size)
                              /\ Place(x[2], r.head, RUU_size) < r.num}

\* As many instructions are in RUU as num says.
LEMMA RingCounts ==
  ASSUME RUU_size \in Nat \ {0}, NEW r, Ring(r, RUU_size), NEW a \in 0..r.num
  PROVE  IsFiniteSet(InRUU(r, a)) /\ Cardinality(InRUU(r, a)) = r.num - a
<1> DEFINE X == InRUU(r, a)
           I == a..r.num - 1
           f == [x \in X |-> Place(x[2], r.head, RUU_size)]
<1>1. r.head \in 0..RUU_size - 1 /\ r.num \in 0..RUU_size BY DEF Ring
<1>2. /\ \A k \in 0..RUU_size - 1 :
            /\ (r.head + k) % RUU_size \in 0..RUU_size - 1
            /\ Place((r.head + k) % RUU_size, r.head, RUU_size) = k
      /\ \A i \in 0..RUU_size - 1 :
            /\ Place(i, r.head, RUU_size) \in 0..RUU_size - 1
            /\ (r.head + Place(i, r.head, RUU_size)) % RUU_size = i
  BY <1>1, Places
<1>3. \A x \in X : /\ x = R(x[2]) /\ x[2] \in 0..RUU_size - 1
                   /\ a <= Place(x[2], r.head, RUU_size)
                   /\ Place(x[2], r.head, RUU_size) < r.num
  BY SlotIs DEF InRUU
<1>4. f \in [X -> I]
  <2> SUFFICES ASSUME NEW x \in X PROVE Place(x[2], r.head, RUU_size) \in I OBVIOUS
  <2> QED BY <1>1, <1>2, <1>3
<1>5. ASSUME NEW x \in X, NEW y \in X, f[x] = f[y] PROVE x = y
  <2>1. Place(x[2], r.head, RUU_size) = Place(y[2], r.head, RUU_size) BY <1>5
  <2>2. x[2] = y[2] BY <1>2, <1>3, <2>1
  <2> QED BY <1>3, <2>2
<1>6. ASSUME NEW k \in I PROVE \E x \in X : f[x] = k
  <2> DEFINE x == R((r.head + k) % RUU_size)
  <2>1. k \in 0..RUU_size - 1 /\ a <= k /\ k < r.num BY <1>1
  <2>2. x \in Slots /\ ~in_LSQ(x) /\ x[2] = (r.head + k) % RUU_size BY <1>2, <2>1, SlotIs
  <2>3. x \in X /\ Place(x[2], r.head, RUU_size) = k BY <1>2, <2>1, <2>2 DEF InRUU
  <2> QED BY <2>3
<1> HIDE DEF f, X, I
<1>7. f \in Injection(X, I) BY <1>4, <1>5 DEF Injection, IsInjective
<1>8. f \in Surjection(X, I) BY <1>4, <1>6 DEF Surjection
<1>9. IsFiniteSet(I) /\ Cardinality(I) = r.num - a
  <2> DEFINE b == r.num - 1
  <2>1. a \in Int /\ b \in Int /\ r.num \in Nat /\ (IF a > b THEN 0 ELSE b - a + 1) = r.num - a
    BY <1>1
  <2>2. I = a..b BY DEF I
  <2> HIDE DEF b
  <2>3. IsFiniteSet(a..b) /\ Cardinality(a..b) = IF a > b THEN 0 ELSE b - a + 1
    BY ONLY <2>1, FS_Interval
  <2> QED BY <2>1, <2>2, <2>3
<1>10. IsFiniteSet(X) /\ Cardinality(X) = Cardinality(I) BY <1>7, <1>8, <1>9, FS_Injection
<1> QED BY <1>9, <1>10 DEF X

\* The entries behind a branch are those that ruu_recover() squashes.
LEMMA WrongIs ==
  ASSUME RUU_size \in Nat \ {0}, Ring(RUU, RUU_size),
         NEW x \in Slots, ~in_LSQ(x), InRing(RUU, RUU_size, x[2]),
         NEW p, p = Place(x[2], RUU.head, RUU_size),
         NEW r, r = [RUU EXCEPT !.tail = Next1(x[2], RUU_size), !.num = @ - Cardinality(Wrong(x))]
  PROVE  /\ Wrong(x) = InRUU(RUU, p + 1) /\ p \in 0..RUU.num - 1
         /\ Ring(r, RUU_size) /\ r.head = RUU.head /\ r.num = p + 1
<1> DEFINE i == x[2]
<1>1. x = R(i) /\ i \in 0..RUU_size - 1 BY SlotIs
<1>2. /\ Younger(i, RUU.tail, RUU_size) = RUU.num - 1 - p
      /\ \A k \in 1..Younger(i, RUU.tail, RUU_size) :
            /\ (i + k) % RUU_size \in 0..RUU_size - 1
            /\ Place((i + k) % RUU_size, RUU.head, RUU_size) = p + k
      /\ \A j \in 0..RUU_size - 1 :
            InRing(RUU, RUU_size, j) /\ Place(j, RUU.head, RUU_size) > p =>
                \E k \in 1..Younger(i, RUU.tail, RUU_size) : j = (i + k) % RUU_size
  BY <1>1, BehindAre
<1>3. RUU.head \in 0..RUU_size - 1 /\ RUU.num \in 0..RUU_size BY DEF Ring
<1>4. p \in 0..RUU.num - 1 /\ p = IF i >= RUU.head THEN i - RUU.head ELSE i + RUU_size - RUU.head
  <2>1. p = IF i >= RUU.head THEN i - RUU.head ELSE i + RUU_size - RUU.head
    BY <1>1, <1>3, PlaceIs
  <2>2. p < RUU.num BY DEF InRing
  <2> QED BY <1>1, <1>3, <2>1, <2>2
<1> DEFINE Y == Younger(i, RUU.tail, RUU_size)
<1> HIDE DEF i, Y
<1>5. ASSUME NEW z \in Wrong(x) PROVE z \in InRUU(RUU, p + 1)
  <2>1. PICK k \in 1..Y : z = R((i + k) % RUU_size) BY DEF Wrong, i, Y
  <2>2. /\ (i + k) % RUU_size \in 0..RUU_size - 1
        /\ Place((i + k) % RUU_size, RUU.head, RUU_size) = p + k
    BY <1>2 DEF Y
  <2>3. z \in Slots /\ ~in_LSQ(z) /\ z[2] = (i + k) % RUU_size BY <2>1, <2>2, SlotIs
  <2>4. p + k < RUU.num /\ p + 1 <= p + k BY <1>2, <1>3, <1>4 DEF Y
  <2> QED BY <2>2, <2>3, <2>4 DEF InRUU
<1>6. ASSUME NEW z \in InRUU(RUU, p + 1) PROVE z \in Wrong(x)
  <2>1. /\ z = R(z[2]) /\ z[2] \in 0..RUU_size - 1
        /\ p + 1 <= Place(z[2], RUU.head, RUU_size)
        /\ Place(z[2], RUU.head, RUU_size) < RUU.num
    BY SlotIs DEF InRUU
  <2>2. Place(z[2], RUU.head, RUU_size) \in 0..RUU_size - 1 BY <1>3, <2>1, Places
  <2>3. Place(z[2], RUU.head, RUU_size) > p BY <1>4, <2>1, <2>2
  <2>4. PICK k \in 1..Y : z[2] = (i + k) % RUU_size BY <1>2, <2>1, <2>3 DEF InRing, Y
  <2> QED BY <2>1, <2>4 DEF Wrong, i, Y
<1>7. Wrong(x) = InRUU(RUU, p + 1) BY <1>5, <1>6
<1>8. Cardinality(Wrong(x)) = RUU.num - (p + 1)
  <2>1. p + 1 \in 0..RUU.num BY <1>3, <1>4
  <2> QED BY <1>7, <2>1, RingCounts
<1>9. /\ DOMAIN r = {"head", "tail", "num"} /\ r.head = RUU.head
      /\ r.num = p + 1 /\ r.tail = (i + 1) % RUU_size
  <2>1. RUU.num - (RUU.num - (p + 1)) = p + 1 BY <1>3, <1>4
  <2> QED BY <1>8, <2>1 DEF Ring, Next1, i
<1>10. (i + 1) % RUU_size = IF i + 1 < RUU_size THEN i + 1 ELSE (i + 1) - RUU_size
  <2>1. i + 1 \in Int /\ 0 <= i + 1 /\ i + 1 < RUU_size + RUU_size BY <1>1 DEF i
  <2> QED BY ONLY RUU_size \in Nat \ {0}, <2>1, ModOnce
<1>11. (RUU.head + (p + 1)) % RUU_size = IF RUU.head + (p + 1) < RUU_size THEN RUU.head + (p + 1)
                                         ELSE (RUU.head + (p + 1)) - RUU_size
  <2>1. /\ RUU.head + (p + 1) \in Int /\ 0 <= RUU.head + (p + 1)
        /\ RUU.head + (p + 1) < RUU_size + RUU_size
    BY <1>3, <1>4
  <2> QED BY ONLY RUU_size \in Nat \ {0}, <2>1, ModOnce
<1>12. i \in 0..RUU_size - 1 BY <1>1
<1>13. r.tail = (r.head + r.num) % RUU_size
  BY ONLY RUU_size \in Nat \ {0}, <1>3, <1>4, <1>9, <1>10, <1>11, <1>12
<1>14. Ring(r, RUU_size) BY <1>3, <1>4, <1>9, <1>13 DEF Ring
<1> QED BY <1>4, <1>7, <1>9, <1>14

\* The last w entries of a ring.
CanDrop(q, size, w, r) ==
    /\ size \in Nat \ {0} /\ Ring(q, size) /\ w \in 0..q.num
    /\ r = [q EXCEPT !.tail = (@ + size - w) % size, !.num = @ - w]
Dropped(q, size, w, r) ==
    /\ Ring(r, size) /\ r.head = q.head /\ r.num = q.num - w
    /\ \A i \in 0..size - 1 : (\E k \in 1..w : i = (q.tail + size - k) % size) <=>
          q.num - w <= Place(i, q.head, size) /\ Place(i, q.head, size) < q.num
    /\ \A k \in 1..w : (q.tail + size - k) % size \in 0..size - 1
\* Going back from the tail until x is the youngest drops exactly what is younger.
LEMMA LastAre ==
  ASSUME NEW q, NEW size, NEW w, NEW r, CanDrop(q, size, w, r)
  PROVE  Dropped(q, size, w, r)
<1> SUFFICES ASSUME size \in Nat \ {0}, Ring(q, size), w \in 0..q.num,
                    r = [q EXCEPT !.tail = (@ + size - w) % size, !.num = @ - w]
             PROVE  Dropped(q, size, w, r)
  BY DEF CanDrop
<1>1. /\ q.tail = IF q.head + q.num < size THEN q.head + q.num ELSE q.head + q.num - size
      /\ q.head \in 0..size - 1 /\ q.num \in 0..size /\ q.tail \in 0..size - 1
  BY TailIs
<1>2. ASSUME NEW k \in 0..w
      PROVE  (q.tail + size - k) % size = IF q.tail >= k THEN q.tail - k ELSE q.tail + size - k
  <2>1. q.tail + size - k \in Int /\ 0 <= q.tail + size - k /\ q.tail + size - k < size + size + 1
        /\ w \in 0..size
    BY <1>1
  <2>2. CASE q.tail + size - k < size + size
    <3>1. (q.tail + size - k) % size = IF q.tail + size - k < size THEN q.tail + size - k
                                       ELSE (q.tail + size - k) - size
      BY ONLY size \in Nat \ {0}, <2>1, <2>2, ModOnce
    <3> QED BY <1>1, <2>1, <3>1
  <2> QED BY <1>1, <2>1, <2>2
<1>3. /\ DOMAIN r = {"head", "tail", "num"} /\ r.head = q.head /\ r.num = q.num - w
      /\ r.tail = IF q.tail >= w THEN q.tail - w ELSE q.tail + size - w
  <2>1. (q.tail + size - w) % size = IF q.tail >= w THEN q.tail - w ELSE q.tail + size - w
    BY <1>2
  <2> QED BY <2>1 DEF Ring
<1>4. r.tail = (r.head + r.num) % size
  <2>1. /\ q.head + (q.num - w) \in Int /\ 0 <= q.head + (q.num - w)
        /\ q.head + (q.num - w) < size + size /\ w \in Nat
    BY <1>1
  <2>2. (q.head + (q.num - w)) % size = IF q.head + (q.num - w) < size THEN q.head + (q.num - w)
                                      ELSE (q.head + (q.num - w)) - size
    BY ONLY size \in Nat \ {0}, <2>1, ModOnce
  <2> QED BY <1>1, <1>3, <2>2
<1>5. Ring(r, size) BY <1>1, <1>3, <1>4 DEF Ring
<1>6. ASSUME NEW k \in 1..w
      PROVE  /\ (q.tail + size - k) % size \in 0..size - 1
             /\ Place((q.tail + size - k) % size, q.head, size) = q.num - k
  <2> DEFINE m == (q.tail + size - k) % size
  <2>1. m = IF q.tail >= k THEN q.tail - k ELSE q.tail + size - k BY <1>2
  <2> HIDE DEF m
  <2>2. m \in 0..size - 1 BY <1>1, <2>1
  <2>3. Place(m, q.head, size) = IF m >= q.head THEN m - q.head ELSE m + size - q.head
    BY <1>1, <2>2, PlaceIs
  <2>4. Place(m, q.head, size) = q.num - k BY <1>1, <2>1, <2>2, <2>3
  <2> QED BY <2>2, <2>4 DEF m
<1>7. ASSUME NEW i \in 0..size - 1, q.num - w <= Place(i, q.head, size),
             Place(i, q.head, size) < q.num
      PROVE  \E k \in 1..w : i = (q.tail + size - k) % size
  <2> DEFINE k == q.num - Place(i, q.head, size)
  <2>1. Place(i, q.head, size) = IF i >= q.head THEN i - q.head ELSE i + size - q.head
    BY <1>1, PlaceIs
  <2>2. k \in 1..w BY <1>1, <1>7, <2>1
  <2>3. Place(i, q.head, size) \in Int /\ k = q.num - Place(i, q.head, size) BY <1>1, <2>1
  <2> HIDE DEF k
  <2>4. (q.tail + size - k) % size = IF q.tail >= k THEN q.tail - k ELSE q.tail + size - k
    BY <1>2, <2>2
  <2> DEFINE p == Place(i, q.head, size)
             m == (q.tail + size - k) % size
  <2>5. /\ p = (IF i >= q.head THEN i - q.head ELSE i + size - q.head)
        /\ k = q.num - p /\ m = IF q.tail >= k THEN q.tail - k ELSE q.tail + size - k
        /\ k \in Int /\ i \in 0..size - 1 /\ size \in Nat
        /\ q.head \in 0..size - 1 /\ q.num \in 0..size /\ q.tail \in 0..size - 1 /\ p < q.num
    BY <1>1, <1>7, <2>1, <2>2, <2>3, <2>4
  <2> HIDE DEF p, m
  <2>6. i = m
    <3>1. CASE i >= q.head
      <4>1. k = q.num - (i - q.head) BY ONLY <2>5, <3>1
      <4>2. CASE q.head + q.num < size
        <5>1. q.tail = q.head + q.num BY ONLY <1>1, <4>2
        <5>2. q.tail >= k /\ q.tail - k = i BY ONLY <2>5, <4>1, <5>1
        <5> QED BY ONLY <2>5, <5>2
      <4>3. CASE ~(q.head + q.num < size)
        <5>1. q.tail = q.head + q.num - size BY ONLY <1>1, <4>3
        <5>2. /\ size \in Int /\ i \in Int /\ q.num \in Int /\ q.head \in Int /\ k \in Int
              /\ q.tail \in Int /\ i < size
          BY ONLY <2>5
        <5>3. ~(q.tail >= k) /\ q.tail + size - k = i BY ONLY <4>1, <5>1, <5>2
        <5> QED BY ONLY <2>5, <5>3
      <4> QED BY <4>2, <4>3
    <3>2. CASE ~(i >= q.head) BY ONLY <1>1, <2>5, <3>2
    <3> QED BY <3>1, <3>2
  <2> QED BY <2>2, <2>6 DEF m
<1>8. ASSUME NEW i \in 0..size - 1
      PROVE  (\E k \in 1..w : i = (q.tail + size - k) % size) <=>
               q.num - w <= Place(i, q.head, size) /\ Place(i, q.head, size) < q.num
  <2>1. ASSUME NEW k \in 1..w, i = (q.tail + size - k) % size
        PROVE  q.num - w <= Place(i, q.head, size) /\ Place(i, q.head, size) < q.num
    <3>1. Place(i, q.head, size) = q.num - k BY <1>6, <2>1
    <3> QED BY <1>1, <3>1
  <2> QED BY <1>7, <2>1
<1> QED BY <1>3, <1>5, <1>6, <1>8 DEF Dropped

(* The invariant *)

Pending(s) == s.recover_inst /\ ~s.completed
RPlace(r, x) == Place(x[2], r.head, RUU_size)
LPlace(l, x) == Place(x[2], l.head, LSQ_size)
Accesses(stn, live) == {x \in live : ~in_LSQ(x) /\ stn[x].ea_comp}
SpecAccesses(stn, live) == {x \in Accesses(stn, live) : stn[x].spec_mode}

Branch(stn, r, live, x) ==
    /\ x \in live /\ ~in_LSQ(x) /\ Pending(stn[x])
    /\ \A z \in live : ~in_LSQ(z) => /\ stn[z].spec_mode <=> RPlace(r, z) > RPlace(r, x)
                                     /\ Pending(stn[z]) => z = x
Steady(stn, r, l, live, mode) ==
    /\ l.num = Cardinality(Accesses(stn, live))
    /\ ~mode => \A x \in live : ~stn[x].spec_mode /\ ~Pending(stn[x])
    /\ mode => \E x \in live : Branch(stn, r, live, x)
    /\ \A z \in live : in_LSQ(z) =>
          (stn[z].spec_mode <=> LPlace(l, z) >= l.num - Cardinality(SpecAccesses(stn, live)))

Works(stn, r, l, rq, wk, ev, cv, scv, mode) ==
    /\ Ring(r, RUU_size) /\ Ring(l, LSQ_size)
    /\ Good(stn, LiveIn(r, l), rq, wk, ev, cv, scv)
    /\ mode \in BOOLEAN /\ Steady(stn, r, l, LiveIn(r, l), mode)

Fetched(q) ==
    /\ \E T : q \in Seq(T)
    /\ \A k \in DOMAIN q :
          Arch!Instruction(q[k].PC).op = "nop" => q[k].pred_PC = Arch!Following(q[k].PC)

Core ==
    Works(st, RUU, LSQ, ready_queue, work, event_queue, create_vector, spec_create_vector,
          spec_mode)
Inv == FixedOk /\ inst_seq \in Nat /\ panic = "none" /\ Fetched(fetch_data) /\ Core

\* The parts of the invariant in the next state.
LEMMA Primed ==
  ASSUME UNCHANGED fixed,
         Works(st', RUU', LSQ', ready_queue', work', event_queue', create_vector',
               spec_create_vector', spec_mode')
  PROVE  Core'
<1>1. opt' = opt /\ program' = program BY DEF fixed
<1>2. RUU_size' = RUU_size /\ LSQ_size' = LSQ_size BY <1>1 DEF RUU_size, LSQ_size
<1>3. Slots' = Slots BY <1>2 DEF Slots
<1>4. Links' = Links BY <1>3 DEF Links
<1>5. Nodes' = Nodes /\ Events' = Events BY <1>3 DEF Nodes, Events
<1>6. (LiveIn(RUU, LSQ))' = LiveIn(RUU', LSQ') BY <1>2, <1>3 DEF LiveIn
<1>7. (Typed(st))' <=> Typed(st') BY <1>3, <1>4 DEF Typed, StationType
<1>8. (AllLinks(st))' = AllLinks(st') BY <1>3 DEF AllLinks
<1> DEFINE live == LiveIn(RUU, LSQ)
           live2 == LiveIn(RUU', LSQ')
<1>9. live' = live2 BY <1>6
<1> HIDE DEF live, live2
<1>10. (Sound(st, live, AllLinks(st), ready_queue, work, event_queue))' <=>
         Sound(st', live2, AllLinks(st'), ready_queue', work', event_queue')
  <2>1. (Progress(st, live))' <=> Progress(st', live2) BY <1>9 DEF Progress
  <2>3. (Wires(st, live, AllLinks(st)))' <=> Wires(st', live2, AllLinks(st'))
    BY <1>3, <1>8, <1>9 DEF Wires, Refers
  <2>4. (NodeList(st, live, ready_queue))' <=> NodeList(st', live2, ready_queue')
    BY <1>3, <1>5, <1>9 DEF NodeList, Refers
  <2>5. (NodeList(st, live, work))' <=> NodeList(st', live2, work')
    BY <1>3, <1>5, <1>9 DEF NodeList, Refers
  <2>6. (EventList(st, live, event_queue))' <=> EventList(st', live2, event_queue')
    BY <1>3, <1>5, <1>9 DEF EventList, Refers
  <2> QED BY <1>7, <2>1, <2>3, <2>4, <2>5, <2>6 DEF Sound
<1>11. (Holders(st, live))' <=> Holders(st', live2) BY <1>3, <1>9 DEF Holders
<1>12. (Creators(st, live, create_vector, spec_create_vector))' <=>
         Creators(st', live2, create_vector', spec_create_vector')
  BY <1>9 DEF Creators, Creates
<1>13. (StoresWriteNothing(st, live))' <=> StoresWriteNothing(st', live2)
  BY <1>9 DEF StoresWriteNothing
<1>14. (Good(st, live, ready_queue, work, event_queue, create_vector, spec_create_vector))' <=>
         Good(st', live2, ready_queue', work', event_queue', create_vector', spec_create_vector')
  BY <1>3, <1>9, <1>10, <1>11, <1>12, <1>13 DEF Good
<1>15. (Steady(st, RUU, LSQ, live, spec_mode))' <=>
         Steady(st', RUU', LSQ', live2, spec_mode')
  <2>1. (Accesses(st, live))' = Accesses(st', live2) BY <1>9 DEF Accesses
  <2>2. (SpecAccesses(st, live))' = SpecAccesses(st', live2) BY <2>1 DEF SpecAccesses
  <2>3. ASSUME NEW x PROVE (Branch(st, RUU, live, x))' <=> Branch(st', RUU', live2, x)
    BY <1>2, <1>9 DEF Branch, RPlace
  <2>4. \A x : (LPlace(LSQ, x))' = LPlace(LSQ', x) BY <1>2 DEF LPlace
  <2> QED BY <1>9, <2>1, <2>2, <2>3, <2>4 DEF Steady
<1>16. (Ring(RUU, RUU_size))' <=> Ring(RUU', RUU_size) BY <1>2 DEF Ring
<1>17. (Ring(LSQ, LSQ_size))' <=> Ring(LSQ', LSQ_size) BY <1>2 DEF Ring
<1> QED BY <1>14, <1>15, <1>16, <1>17 DEF Works, Core, live, live2

\* What is left to show of a step that does not change the options.
LEMMA InvNext ==
  ASSUME UNCHANGED fixed, FixedOk, inst_seq' \in Nat, panic' = "none", Fetched(fetch_data'),
         Works(st', RUU', LSQ', ready_queue', work', event_queue', create_vector',
               spec_create_vector', spec_mode')
  PROVE  Inv'
<1>1. opt' = opt /\ program' = program BY DEF fixed
<1>2. FixedOk' BY <1>1 DEF FixedOk
<1>3. \A pc : /\ (Arch!Instruction(pc))' = Arch!Instruction(pc)
              /\ (Arch!Following(pc))' = Arch!Following(pc)
  BY <1>1 DEF Arch!Instruction, Arch!Following
<1>4. (Fetched(fetch_data))' <=> Fetched(fetch_data') BY <1>3 DEF Fetched
<1>5. Core' BY Primed
<1> QED BY <1>2, <1>4, <1>5 DEF Inv

\* Steps that leave the stations to themselves.
LEMMA Idle ==
  ASSUME Inv, UNCHANGED <<fixed, st, RUU, LSQ, ready_queue, work, event_queue, rename,
                          spec_mode, inst_seq, panic>>,
         Fetched(fetch_data')
  PROVE  Inv'
<1>1. /\ st' = st /\ RUU' = RUU /\ LSQ' = LSQ /\ ready_queue' = ready_queue /\ work' = work
      /\ event_queue' = event_queue /\ create_vector' = create_vector
      /\ spec_create_vector' = spec_create_vector /\ spec_mode' = spec_mode
      /\ inst_seq' = inst_seq /\ panic' = panic /\ UNCHANGED fixed
  BY DEF rename
<1>2. Works(st', RUU', LSQ', ready_queue', work', event_queue', create_vector',
            spec_create_vector', spec_mode')
  BY <1>1 DEF Inv, Core
<1> QED BY <1>1, <1>2, InvNext DEF Inv

\* A step that leaves the modes and the pending branches alone.
LEMMA SteadyKept ==
  ASSUME NEW stn, NEW r, NEW l, NEW live, NEW mode, Steady(stn, r, l, live, mode),
         NEW stn2, \A z \in live : /\ stn2[z].spec_mode = stn[z].spec_mode
                                   /\ stn2[z].ea_comp = stn[z].ea_comp
                                   /\ Pending(stn2[z]) <=> Pending(stn[z])
  PROVE  Steady(stn2, r, l, live, mode)
<1>1. Accesses(stn2, live) = Accesses(stn, live) BY DEF Accesses
<1>2. SpecAccesses(stn2, live) = SpecAccesses(stn, live) BY <1>1 DEF SpecAccesses, Accesses
<1>3. \A x : Branch(stn, r, live, x) => Branch(stn2, r, live, x) BY DEF Branch
<1> QED BY <1>1, <1>2, <1>3 DEF Steady

\* Steps that only move instructions through their stages.
LEMMA WorksKept ==
  ASSUME NEW stn, NEW r, NEW l, NEW rq, NEW wk, NEW ev, NEW cv, NEW scv, NEW mode,
         Works(stn, r, l, rq, wk, ev, cv, scv, mode),
         NEW stn2, NEW rq2, NEW wk2, NEW ev2, Frame(stn, stn2),
         Good(stn2, LiveIn(r, l), rq2, wk2, ev2, cv, scv)
  PROVE  Works(stn2, r, l, rq2, wk2, ev2, cv, scv, mode)
<1>1. \A z \in LiveIn(r, l) : z \in Slots BY DEF LiveIn
<1>2. \A z \in LiveIn(r, l) : /\ stn2[z].spec_mode = stn[z].spec_mode
                              /\ stn2[z].ea_comp = stn[z].ea_comp
                              /\ Pending(stn2[z]) <=> Pending(stn[z])
  BY <1>1 DEF Frame, Pending
<1> QED BY <1>2, SteadyKept DEF Works

\* The time until a result comes gets shorter.
LEMMA Cycled ==
  ASSUME NEW stn, NEW live, NEW f, NEW rq, NEW wk, NEW ev, Sound(stn, live, f, rq, wk, ev),
         NEW ev2, ev2 = [k \in DOMAIN ev |-> [ev[k] EXCEPT !.due = IF @ > 0 THEN @ - 1 ELSE 0]]
  PROVE  Sound(stn, live, f, rq, wk, ev2)
<1>1. EventList(stn, live, ev) BY DEF Sound
<1>2. ev \in Seq(Events) BY <1>1 DEF EventList
<1>3. ASSUME NEW k \in DOMAIN ev
      PROVE  ev2[k] \in Events /\ ev2[k].slot = ev[k].slot /\ ev2[k].tag = ev[k].tag
  <2>1. ev[k] \in Events BY <1>2
  <2> QED BY <2>1 DEF Events
<1>4. DOMAIN ev2 = DOMAIN ev OBVIOUS
<1>5. ev2 \in Seq(Events)
  <2>1. DOMAIN ev = 1..Len(ev) /\ Len(ev) \in Nat BY <1>2
  <2>2. ev2 \in [1..Len(ev) -> Events] BY <1>3, <2>1
  <2> QED BY <2>1, <2>2
<1>6. EventList(stn, live, ev2)
  BY <1>1, <1>3, <1>4, <1>5 DEF EventList, Refers, Once, RSLINK_VALID
<1> QED BY <1>6 DEF Sound

\* A no-operation is fetched with the prediction that it falls through.
LEMMA FetchedAre ==
  ASSUME NEW q, Fetched(q)
  PROVE  /\ Fetched(<<>>)
         /\ q # <<>> => /\ Fetched(Tail(q))
                        /\ Arch!Instruction(Head(q).PC).op = "nop" =>
                              Head(q).pred_PC = Arch!Following(Head(q).PC)
         /\ \A e : (Arch!Instruction(e.PC).op = "nop" => e.pred_PC = Arch!Following(e.PC)) =>
                      Fetched(Append(q, e))
<1> DEFINE Ok(e) == Arch!Instruction(e.PC).op = "nop" => e.pred_PC = Arch!Following(e.PC)
<1>1. PICK T : q \in Seq(T) BY DEF Fetched
<1>2. \A k \in DOMAIN q : Ok(q[k]) BY DEF Fetched
<1>3. \A p, U : p \in Seq(U) /\ (\A k \in DOMAIN p : Ok(p[k])) => Fetched(p)
  BY DEF Fetched
<1> HIDE DEF Ok
<1>4. Fetched(<<>>)
  <2> DEFINE p == <<>>
  <2>1. p \in Seq(T) /\ DOMAIN p = {} OBVIOUS
  <2> HIDE DEF p
  <2>2. Fetched(p) BY <1>3, <2>1
  <2> QED BY <2>2 DEF p
<1>5. ASSUME q # <<>> PROVE Fetched(Tail(q)) /\ Ok(Head(q))
  <2>1. /\ Tail(q) \in Seq(T) /\ Head(q) = q[1] /\ 1 \in DOMAIN q
        /\ \A k \in DOMAIN Tail(q) : k + 1 \in DOMAIN q /\ Tail(q)[k] = q[k + 1]
    BY ONLY <1>1, <1>5, TailOf
  <2> QED BY <1>2, <1>3, <2>1
<1>6. ASSUME NEW e, Ok(e) PROVE Fetched(Append(q, e))
  <2>1. q \in Seq(T \cup {e}) BY <1>1
  <2>2. /\ Append(q, e) \in Seq(T \cup {e}) /\ DOMAIN Append(q, e) = 1..Len(q) + 1
        /\ Len(q) \in Nat /\ DOMAIN q = 1..Len(q)
        /\ \A k \in 1..Len(q) : Append(q, e)[k] = q[k]
        /\ Append(q, e)[Len(q) + 1] = e
    BY <2>1
  <2>3. ASSUME NEW k \in 1..Len(q) + 1 PROVE Ok(Append(q, e)[k])
    <3>1. CASE k \in 1..Len(q) BY <1>2, <2>2, <3>1
    <3>2. CASE k = Len(q) + 1 BY <1>6, <2>2, <3>2
    <3> QED BY <2>2, <3>1, <3>2
  <2> QED BY <1>3, <2>2, <2>3
<1> QED BY <1>4, <1>5, <1>6 DEF Ok

\* The steps that touch neither station nor queue.
LEMMA PassiveSteps ==
  ASSUME Inv, \/ commit_end \/ ruu_release_fu \/ writeback_end \/ issue_end \/ dispatch_end
              \/ ruu_fetch
  PROVE  Inv'
<1>1. Fetched(fetch_data) BY DEF Inv
<1>2. CASE ruu_fetch
  <2> DEFINE pc == fetch_pred_PC
             i == Arch!Instruction(pc)
             ctrl == i.op \in Branches /\ ~opt.perfect
  <2>1. PICK pred \in IF ctrl THEN i.preds ELSE {Arch!Following(pc)} :
           fetch_data' = Append(fetch_data, [PC |-> pc, pred_PC |-> pred])
    BY <1>2 DEF ruu_fetch
  <2>2. i.op = "nop" => pred = Arch!Following(pc) BY <2>1 DEF Branches
  <2>3. Fetched(fetch_data')
    <3> DEFINE e == [PC |-> pc, pred_PC |-> pred]
    <3>1. e.PC = pc /\ e.pred_PC = pred OBVIOUS
    <3>2. Arch!Instruction(e.PC).op = "nop" => e.pred_PC = Arch!Following(e.PC) BY <2>2
    <3> HIDE DEF e
    <3>3. Fetched(Append(fetch_data, e)) BY ONLY <1>1, <3>2, FetchedAre
    <3> QED BY <2>1, <3>3 DEF e
  <2> QED BY <1>2, <2>3, Idle DEF ruu_fetch, queues
<1>3. CASE \/ commit_end \/ ruu_release_fu \/ writeback_end \/ issue_end \/ dispatch_end
  <2>1. UNCHANGED <<fixed, st, RUU, LSQ, ready_queue, work, event_queue, rename, spec_mode,
                    inst_seq, panic, fetch_data>>
    BY <1>3 DEF commit_end, ruu_release_fu, writeback_end, issue_end, dispatch_end, queues, front
  <2> QED BY <1>1, <2>1, Idle
<1> QED BY <1>2, <1>3

\* In speculative mode there is an instruction in flight.
LEMMA NotDrained ==
  ASSUME FixedOk, Core, spec_mode
  PROVE  RUU.num \in Nat /\ RUU.num > 0
<1>1. RUU_size \in Nat \ {0} BY OptionsAre
<1>2. PICK x \in LiveIn(RUU, LSQ) : ~in_LSQ(x) BY DEF Core, Works, Steady, Branch
<1>3. x[2] \in 0..RUU_size - 1 /\ Place(x[2], RUU.head, RUU_size) < RUU.num
  BY <1>2, SlotIs DEF LiveIn, InRing
<1>4. RUU.head \in 0..RUU_size - 1 /\ RUU.num \in 0..RUU_size BY DEF Core, Works, Ring
<1>5. Place(x[2], RUU.head, RUU_size) \in 0..RUU_size - 1 BY <1>1, <1>3, <1>4, Places
<1> QED BY <1>3, <1>4, <1>5

\* The end of the program.
LEMMA ExitStep ==
  ASSUME Inv, exit PROVE Inv'
<1>1. CanDispatch /\ Arch!Instruction(Head(fetch_data).PC).op = "exit" BY DEF exit
<1>2. RUU.num = 0 BY <1>1 DEF CanDispatch
<1>3. ~spec_mode BY <1>2, NotDrained DEF Inv
<1>4. UNCHANGED <<fixed, st, RUU, LSQ, ready_queue, work, event_queue, rename, spec_mode,
                  inst_seq, panic, fetch_data>>
  BY <1>3 DEF exit, queues, front
<1> QED BY <1>4, Idle DEF Inv

\* Steps that change no more than the event queue.
LEMMA CycleSteps ==
  ASSUME Inv, fetch_miss \/ fetch_end PROVE Inv'
<1>1. /\ Cycle /\ UNCHANGED fetch_data BY DEF fetch_miss, fetch_end
<1>2. /\ event_queue' = [k \in DOMAIN event_queue |->
                            [event_queue[k] EXCEPT !.due = IF @ > 0 THEN @ - 1 ELSE 0]]
      /\ UNCHANGED <<fixed, st, RUU, LSQ, ready_queue, work, create_vector, spec_create_vector,
                     spec_mode, inst_seq, panic>>
  BY <1>1 DEF Cycle, rename
<1> DEFINE live == LiveIn(RUU, LSQ)
<1>3. /\ Works(st, RUU, LSQ, ready_queue, work, event_queue, create_vector, spec_create_vector,
               spec_mode)
      /\ Good(st, live, ready_queue, work, event_queue, create_vector, spec_create_vector)
  BY DEF Inv, Core, Works
<1> HIDE DEF live
<1>4. Sound(st, live, AllLinks(st), ready_queue, work, event_queue') BY <1>2, <1>3, Cycled DEF Good
<1>5. Frame(st, st) BY DEF Frame
<1>6. Good(st, live, ready_queue, work, event_queue', create_vector, spec_create_vector)
  BY <1>3, <1>4 DEF Good
<1>7. Works(st, RUU, LSQ, ready_queue, work, event_queue', create_vector, spec_create_vector,
            spec_mode)
  BY <1>3, <1>5, <1>6, WorksKept DEF live
<1> QED BY <1>1, <1>2, <1>7, InvNext DEF Inv
-----------------------------------------------------------------------------
(* The steps, one by one *)

\* What the invariant gives to every step.
LEMMA InvIs ==
  ASSUME Inv
  PROVE  /\ FixedOk /\ inst_seq \in Nat /\ panic = "none" /\ Fetched(fetch_data)
         /\ spec_mode \in BOOLEAN
         /\ Ring(RUU, RUU_size) /\ Ring(LSQ, LSQ_size)
         /\ RUU_size \in Nat \ {0} /\ LSQ_size \in Nat \ {0}
         /\ LiveIn(RUU, LSQ) \in SUBSET Slots
         /\ Works(st, RUU, LSQ, ready_queue, work, event_queue, create_vector,
                  spec_create_vector, spec_mode)
         /\ Steady(st, RUU, LSQ, LiveIn(RUU, LSQ), spec_mode)
         /\ Good(st, LiveIn(RUU, LSQ), ready_queue, work, event_queue, create_vector,
                 spec_create_vector)
         /\ Sound(st, LiveIn(RUU, LSQ), AllLinks(st), ready_queue, work, event_queue)
         /\ Typed(st) /\ Progress(st, LiveIn(RUU, LSQ))
         /\ Frame(st, st)
BY OptionsAre DEF Inv, Core, Works, Good, Sound, Frame

\* An event or a node that is stale is dropped.
LEMMA StaleSteps ==
  ASSUME Inv, stale_event \/ stale_node PROVE Inv'
<1> DEFINE live == LiveIn(RUU, LSQ)
           f == AllLinks(st)
<1>1. /\ FixedOk /\ inst_seq \in Nat /\ panic = "none" /\ Fetched(fetch_data)
      /\ live \in SUBSET Slots
      /\ Works(st, RUU, LSQ, ready_queue, work, event_queue, create_vector,
               spec_create_vector, spec_mode)
      /\ Good(st, live, ready_queue, work, event_queue, create_vector, spec_create_vector)
      /\ Sound(st, live, f, ready_queue, work, event_queue) /\ Frame(st, st)
  BY InvIs
<1>2. /\ UNCHANGED <<fixed, st, RUU, LSQ, ready_queue, create_vector, spec_create_vector,
                     spec_mode, inst_seq, fetch_data, panic>>
      /\ \/ UNCHANGED work /\ event_queue # <<>> /\ event_queue' = Tail(event_queue)
         \/ UNCHANGED event_queue /\ work # <<>> /\ work' = Tail(work)
  BY DEF stale_event, stale_node, NextNode, Due, rename, front
<1> HIDE DEF live, f
<1>3. Sound(st, live, f, ready_queue, work', event_queue')
  <2>1. CASE UNCHANGED work /\ event_queue # <<>> /\ event_queue' = Tail(event_queue)
    <3>1. Sound(st, live, f, ready_queue, work, Tail(event_queue))
      BY ONLY <1>1, <2>1, EventTaken
    <3> QED BY <2>1, <3>1
  <2>2. CASE UNCHANGED event_queue /\ work # <<>> /\ work' = Tail(work)
    <3>1. Sound(st, live, f, ready_queue, Tail(work), event_queue)
      BY ONLY <1>1, <2>2, Taken
    <3> QED BY <2>2, <3>1
  <2> QED BY <1>2, <2>1, <2>2
<1>4. Good(st, live, ready_queue, work', event_queue', create_vector, spec_create_vector)
  BY ONLY <1>1, <1>3, GoodFrame DEF f
<1>5. Works(st, RUU, LSQ, ready_queue, work', event_queue', create_vector, spec_create_vector,
            spec_mode)
  BY ONLY <1>1, <1>4, WorksKept DEF live
<1> QED BY <1>1, <1>2, <1>5, InvNext

\* What is issued is ready, and was not issued before.
LEMMA IssueIs ==
  ASSUME Inv, work # <<>>, NodeValid, NEW x, x = Node.slot
  PROVE  /\ x \in LiveIn(RUU, LSQ) /\ st[x].queued /\ OPERANDS_READY(st[x])
         /\ ~st[x].issued /\ ~st[x].completed
         /\ IssuePanic = "none" /\ (st[x].op = "store" => in_LSQ(x))
         /\ in_LSQ(x) => ~st[x].recover_inst
         /\ st[x].op = "store" => st[x].onames = <<NA, NA>>
<1> DEFINE live == LiveIn(RUU, LSQ)
           f == AllLinks(st)
<1>1. /\ live \in SUBSET Slots /\ Sound(st, live, f, ready_queue, work, event_queue)
      /\ Progress(st, live) /\ panic = "none"
      /\ Good(st, live, ready_queue, work, event_queue, create_vector, spec_create_vector)
  BY InvIs
<1>2. work # <<>> /\ RSLINK_VALID(st, Head(work)) BY DEF NodeValid, Node
<1> HIDE DEF live, f
<1>3. Head(work).slot \in live /\ st[Head(work).slot].queued BY ONLY <1>1, <1>2, Taken
<1>4. x \in live /\ st[x].queued BY <1>3 DEF Node
<1>5. /\ OPERANDS_READY(st[x]) /\ ~st[x].issued /\ ~st[x].completed
      /\ st[x].op = "store" => in_LSQ(x)
      /\ in_LSQ(x) => ~st[x].recover_inst
  BY <1>1, <1>4 DEF Progress
<1>6. st[x].op = "store" => st[x].onames = <<NA, NA>>
  BY <1>1, <1>4 DEF Good, StoresWriteNothing
<1> QED BY <1>1, <1>4, <1>5, <1>6 DEF IssuePanic, live

\* The node is taken out of the queue.
TakesNode(x, stn) ==
    /\ Inv /\ work # <<>> /\ NodeValid /\ x = Node.slot
    /\ stn = [st EXCEPT ![x].queued = FALSE]
NodeIsOut(x, stn) ==
    /\ Good(stn, LiveIn(RUU, LSQ), ready_queue, Tail(work), event_queue, create_vector,
            spec_create_vector)
    /\ Sound(stn, LiveIn(RUU, LSQ), AllLinks(stn), ready_queue, Tail(work), event_queue)
    /\ Frame(st, stn) /\ DOMAIN stn = Slots
    /\ stn[x] = [st[x] EXCEPT !.queued = FALSE] /\ ~stn[x].queued
    /\ OPERANDS_READY(stn[x]) /\ ~stn[x].issued /\ ~stn[x].completed
    /\ \A z \in Slots : z # x => stn[z] = st[z]
\* ruu_issue() looks at the next node.
LEMMA NodeOut ==
  ASSUME NEW x, NEW stn, TakesNode(x, stn) PROVE NodeIsOut(x, stn)
<1> SUFFICES ASSUME Inv, work # <<>>, NodeValid, x = Node.slot, stn = [st EXCEPT ![x].queued = FALSE]
             PROVE  NodeIsOut(x, stn)
  BY DEF TakesNode
<1> DEFINE live == LiveIn(RUU, LSQ)
           f == AllLinks(st)
<1>1. /\ live \in SUBSET Slots /\ Sound(st, live, f, ready_queue, work, event_queue)
      /\ Good(st, live, ready_queue, work, event_queue, create_vector, spec_create_vector)
      /\ Typed(st)
  BY InvIs
<1>2. work # <<>> /\ RSLINK_VALID(st, Head(work)) /\ x = Head(work).slot
      /\ stn = [st EXCEPT ![x].queued = FALSE]
  BY DEF NodeValid, Node
<1>3. x \in live /\ OPERANDS_READY(st[x]) /\ ~st[x].issued /\ ~st[x].completed
  BY IssueIs
<1> HIDE DEF live, f
<1>4. /\ Sound(stn, live, f, ready_queue, Tail(work), event_queue) /\ Frame(st, stn)
      /\ stn[x] = [st[x] EXCEPT !.queued = FALSE] /\ ~stn[x].queued
  <2>1. CanTake(st, live, f, ready_queue, work, event_queue, x, stn) BY <1>1, <1>2 DEF CanTake
  <2>2. TakenOut(st, live, f, ready_queue, work, event_queue, x, stn) BY ONLY <2>1, Unqueued
  <2> QED BY <2>2 DEF TakenOut
<1>5. Good(stn, live, ready_queue, Tail(work), event_queue, create_vector, spec_create_vector)
  BY ONLY <1>1, <1>4, GoodFrame DEF f
<1>6. /\ stn[x].issued = st[x].issued /\ stn[x].completed = st[x].completed
      /\ stn[x].idep_ready = st[x].idep_ready
  BY <1>4
<1>7. DOMAIN stn = Slots /\ \A z \in Slots : z # x => stn[z] = st[z] BY <1>1, <1>2 DEF Typed
<1> QED BY <1>3, <1>4, <1>5, <1>6, <1>7 DEF OPERANDS_READY, live, Good, NodeIsOut

\* An instruction that is not a store is executed.
LEMMA Executed ==
  ASSUME Inv, work # <<>>, NodeValid, NEW x, x = Node.slot, NEW lat \in Nat \ {0},
         Executing(x, lat), NextNode, UNCHANGED ready_queue
  PROVE  Inv' /\ \A z \in Slots : Same(st, st', z)
<1> DEFINE live == LiveIn(RUU, LSQ)
           stn == [st EXCEPT ![x].queued = FALSE]
           f == AllLinks(stn)
<1>1. /\ FixedOk /\ inst_seq \in Nat /\ panic = "none" /\ Fetched(fetch_data)
      /\ live \in SUBSET Slots
      /\ Works(st, RUU, LSQ, ready_queue, work, event_queue, create_vector,
               spec_create_vector, spec_mode)
      /\ Typed(st)
  BY InvIs
<1>2. x \in live /\ IssuePanic = "none" BY IssueIs
<1>3. /\ Good(stn, live, ready_queue, Tail(work), event_queue, create_vector,
              spec_create_vector)
      /\ Sound(stn, live, f, ready_queue, Tail(work), event_queue)
      /\ Frame(st, stn) /\ DOMAIN stn = Slots
      /\ stn[x] = [st[x] EXCEPT !.queued = FALSE] /\ ~stn[x].queued
      /\ OPERANDS_READY(stn[x]) /\ ~stn[x].issued /\ ~stn[x].completed
  <2>1. TakesNode(x, stn) BY DEF TakesNode
  <2> HIDE DEF stn
  <2>2. NodeIsOut(x, stn) BY ONLY <2>1, NodeOut
  <2> QED BY <2>2 DEF NodeIsOut
<1>4. /\ st' = [st EXCEPT ![x].queued = FALSE, ![x].issued = TRUE]
      /\ event_queue' = eventq_queue_event(x, lat)
      /\ panic' = "none"
  <2>1. ~(lat <= 0) OBVIOUS
  <2>2. /\ st' = [st EXCEPT ![x].queued = FALSE, ![x].issued = TRUE]
        /\ event_queue' = eventq_queue_event(x, lat)
        /\ panic' = IF lat <= 0 THEN "event occurred in the past" ELSE IssuePanic
    BY DEF Executing
  <2>3. panic' = "none" BY <1>2, <2>1, <2>2
  <2> QED BY <2>2, <2>3
<1>5. st' = [stn EXCEPT ![x].issued = TRUE] BY <1>4
<1>6. stn[x].tag = st[x].tag BY <1>1, <1>2, <1>3 DEF Frame
<1>7. \E K \in SUBSET DOMAIN event_queue :
         event_queue' = InsertBefore(event_queue, [slot |-> x, tag |-> stn[x].tag, due |-> lat], K)
  <2> DEFINE K == {j \in DOMAIN event_queue : event_queue[j].due >= lat}
  <2>1. K \in SUBSET DOMAIN event_queue OBVIOUS
  <2>2. event_queue' = InsertBefore(event_queue, [slot |-> x, tag |-> st[x].tag, due |-> lat], K)
    BY <1>4 DEF eventq_queue_event
  <2> HIDE DEF K
  <2> QED BY <1>6, <2>1, <2>2
<1> HIDE DEF stn, live, f
<1>8. CanIssue(stn, live, f, ready_queue, Tail(work), event_queue, x, st', lat, event_queue')
  BY <1>1, <1>2, <1>3, <1>5, <1>7 DEF CanIssue
<1>9. Sound(st', live, f, ready_queue, Tail(work), event_queue') /\ Frame(stn, st')
  BY ONLY <1>8, Issued
<1>10. Good(st', live, ready_queue, Tail(work), event_queue', create_vector,
            spec_create_vector)
  BY ONLY <1>3, <1>9, GoodFrame DEF f
<1>11. Frame(st, st') BY <1>3, <1>9 DEF Frame
<1>12. Works(st', RUU, LSQ, ready_queue, Tail(work), event_queue', create_vector,
             spec_create_vector, spec_mode)
  BY ONLY <1>1, <1>10, <1>11, WorksKept DEF live
<1>13. UNCHANGED <<fixed, RUU, LSQ, create_vector, spec_create_vector, spec_mode, inst_seq,
                   fetch_data, ready_queue>> /\ work' = Tail(work)
  BY DEF NextNode, rename, front
<1>14. Works(st', RUU', LSQ', ready_queue', work', event_queue', create_vector',
             spec_create_vector', spec_mode')
  BY <1>12, <1>13
<1>15. \A z \in Slots : Same(st, st', z) BY <1>11 DEF Frame, Same
<1> QED BY <1>1, <1>4, <1>13, <1>14, <1>15, InvNext

\* A unit takes at least one cycle.
LEMMA UnitLatency ==
  ASSUME NEW class, NEW u \in res_get(class) PROVE FuPool[u][class].oplat \in Nat \ {0}
BY RuuAssumption DEF res_get

\* ruu_issue() of anything but a store.
LEMMA IssueSteps ==
  ASSUME Inv, issue_unit \/ issue_without_unit
  PROVE  Inv' /\ \A z \in Slots : Same(st, st', z)
<1>1. Issuing /\ NextNode /\ UNCHANGED ready_queue BY DEF issue_unit, issue_without_unit
<1>2. work # <<>> /\ NodeValid BY <1>1 DEF Issuing
<1> DEFINE x == Node.slot
<1>3. \E lat \in Nat \ {0} : Executing(x, lat)
  <2>1. CASE issue_without_unit BY <2>1 DEF issue_without_unit
  <2>2. CASE issue_unit
    <3> DEFINE class == FuClass(st[x].op)
    <3>1. PICK u \in res_get(class) :
             IF st[x].op # "load" THEN Executing(x, FuPool[u][class].oplat)
             ELSE IF Forwards(x) THEN Executing(x, 1)
             ELSE \E lat \in LoadLats : Executing(x, lat)
      BY <2>2 DEF issue_unit
    <3> HIDE DEF class, x
    <3>2. FuPool[u][class].oplat \in Nat \ {0} BY UnitLatency
    <3>3. LoadLats \subseteq Nat \ {0} BY RuuAssumption
    <3> QED BY <3>1, <3>2, <3>3
  <2> QED BY <2>1, <2>2
<1>4. PICK lat \in Nat \ {0} : Executing(x, lat) BY <1>3
<1> QED BY <1>1, <1>2, <1>4, Executed

\* ruu_issue() of a store.
LEMMA StoreStep ==
  ASSUME Inv, issue_store, NEW x, x = Node.slot
  PROVE  Inv' /\ \A z \in Slots : Same(st, st', z)
<1> DEFINE live == LiveIn(RUU, LSQ)
           stn == [st EXCEPT ![x].queued = FALSE]
           f == AllLinks(stn)
<1>1. /\ FixedOk /\ inst_seq \in Nat /\ panic = "none" /\ Fetched(fetch_data)
      /\ live \in SUBSET Slots
      /\ Works(st, RUU, LSQ, ready_queue, work, event_queue, create_vector,
               spec_create_vector, spec_mode)
      /\ Typed(st)
  BY InvIs
<1>2. work # <<>> /\ NodeValid /\ st[x].op = "store" BY DEF issue_store, Issuing
<1>3. /\ x \in live /\ IssuePanic = "none" /\ in_LSQ(x) /\ ~st[x].recover_inst
      /\ st[x].onames = <<NA, NA>>
  BY <1>2, IssueIs
<1>4. /\ Good(stn, live, ready_queue, Tail(work), event_queue, create_vector,
              spec_create_vector)
      /\ Sound(stn, live, f, ready_queue, Tail(work), event_queue)
      /\ Frame(st, stn) /\ DOMAIN stn = Slots
      /\ stn[x] = [st[x] EXCEPT !.queued = FALSE] /\ ~stn[x].queued
      /\ OPERANDS_READY(stn[x]) /\ ~stn[x].issued /\ ~stn[x].completed
      /\ \A z \in Slots : z # x => stn[z] = st[z]
  <2>1. TakesNode(x, stn) BY <1>2 DEF TakesNode
  <2> HIDE DEF stn
  <2>2. NodeIsOut(x, stn) BY ONLY <2>1, NodeOut
  <2> QED BY <2>2 DEF NodeIsOut, f, live
<1>5. /\ st' = [st EXCEPT ![x].queued = FALSE, ![x].issued = TRUE, ![x].completed = TRUE]
      /\ panic' = "none"
  BY <1>3 DEF issue_store
<1>6. st' = [stn EXCEPT ![x].issued = TRUE, ![x].completed = TRUE] BY <1>5
<1> HIDE DEF stn, live, f
<1>7. CanIssueStore(stn, live, f, ready_queue, Tail(work), event_queue, x, st')
  BY <1>1, <1>3, <1>4, <1>6 DEF CanIssueStore
<1>8. DoneStore(stn, live, f, ready_queue, Tail(work), event_queue, x, st')
  BY ONLY <1>7, StoreIssued
<1>9. /\ Sound(st', live, f, ready_queue, Tail(work), event_queue)
      /\ st'[x] = [stn[x] EXCEPT !.issued = TRUE, !.completed = TRUE]
      /\ \A z \in Slots : z # x => st'[z] = stn[z]
  BY <1>8 DEF DoneStore
<1>10. /\ \A z \in Slots : /\ st'[z].odep_list = stn[z].odep_list
                           /\ st'[z].op = stn[z].op /\ st'[z].onames = stn[z].onames
                           /\ st'[z].spec_mode = stn[z].spec_mode
                           /\ st'[z].ea_comp = stn[z].ea_comp
                           /\ st'[z].recover_inst = stn[z].recover_inst
                           /\ Same(stn, st', z)
                           /\ z # x => st'[z].completed = stn[z].completed
       /\ stn[x].op = "store" /\ ~stn[x].recover_inst /\ x \in Slots
  <2>1. /\ st'[x].odep_list = stn[x].odep_list
        /\ st'[x].op = stn[x].op /\ st'[x].onames = stn[x].onames
        /\ st'[x].spec_mode = stn[x].spec_mode
        /\ st'[x].ea_comp = stn[x].ea_comp
        /\ st'[x].recover_inst = stn[x].recover_inst
        /\ st'[x].PC = stn[x].PC /\ st'[x].next_PC = stn[x].next_PC
    BY <1>9
  <2>2. stn[x].op = "store" /\ ~stn[x].recover_inst /\ x \in Slots
    BY <1>1, <1>2, <1>3, <1>4 DEF Frame
  <2> QED BY <1>9, <2>1, <2>2 DEF Same
<1>11. Good(st', live, ready_queue, Tail(work), event_queue, create_vector,
            spec_create_vector)
  <2>1. AllLinks(st') = f BY <1>10, LinksSame DEF f
  <2>2. Holders(st', live)
    <3>1. \A z \in Slots, i \in 1..2 :
             stn[z].odep_list[i] # <<>> => z \in live /\ ~stn[z].completed /\ stn[z].op # "store"
      BY ONLY <1>4 DEF Good, Holders
    <3>2. \A z \in Slots, i \in 1..2 :
             st'[z].odep_list[i] # <<>> => z \in live /\ ~st'[z].completed /\ st'[z].op # "store"
      BY ONLY <1>10, <3>1
    <3> QED BY ONLY <3>2 DEF Holders
  <2>3. Creators(st', live, create_vector, spec_create_vector)
    <3>1. ASSUME NEW c, NEW r, NEW spec, Creates(stn, live, c, r, spec)
          PROVE  Creates(st', live, c, r, spec)
      BY ONLY <1>1, <1>10, <3>1 DEF Creates
    <3> QED BY ONLY <1>4, <3>1 DEF Good, Creators
  <2>4. StoresWriteNothing(st', live) BY ONLY <1>1, <1>4, <1>10 DEF Good, StoresWriteNothing
  <2> QED BY <1>1, <1>9, <2>1, <2>2, <2>3, <2>4 DEF Good
<1>12. Steady(st', RUU, LSQ, live, spec_mode)
  <2>1. Steady(st, RUU, LSQ, live, spec_mode) BY <1>1 DEF Works, live
  <2>2. \A z \in live : /\ st'[z].spec_mode = st[z].spec_mode
                        /\ st'[z].ea_comp = st[z].ea_comp
                        /\ Pending(st'[z]) <=> Pending(st[z])
    BY ONLY <1>1, <1>4, <1>10 DEF Pending, Frame
  <2> QED BY ONLY <2>1, <2>2, SteadyKept
<1>13. Works(st', RUU, LSQ, ready_queue, Tail(work), event_queue, create_vector,
             spec_create_vector, spec_mode)
  BY <1>1, <1>11, <1>12 DEF Works, live
<1>14. UNCHANGED <<fixed, RUU, LSQ, create_vector, spec_create_vector, spec_mode, inst_seq,
                   fetch_data, ready_queue, event_queue>> /\ work' = Tail(work)
  BY DEF issue_store, NextNode, rename, front
<1>15. Works(st', RUU', LSQ', ready_queue', work', event_queue', create_vector',
             spec_create_vector', spec_mode')
  BY <1>13, <1>14
<1>16. \A z \in Slots : Same(st, st', z) BY ONLY <1>4, <1>10 DEF Frame, Same
<1> QED BY <1>1, <1>5, <1>14, <1>15, <1>16, InvNext

\* The instruction goes back into the ready queue.
LEMMA PutBackStep ==
  ASSUME Inv, put_back, NEW x, x = Node.slot
  PROVE  Inv' /\ \A z \in Slots : Same(st, st', z)
<1> DEFINE live == LiveIn(RUU, LSQ)
           stn == [st EXCEPT ![x].queued = FALSE]
           p == IF n >= Width THEN panic ELSE IssuePanic
           S0 == [st |-> stn, queue |-> ready_queue, panic |-> p]
           S == readyq_enqueue(S0, x)
<1>1. /\ FixedOk /\ inst_seq \in Nat /\ panic = "none" /\ Fetched(fetch_data)
      /\ Works(st, RUU, LSQ, ready_queue, work, event_queue, create_vector,
               spec_create_vector, spec_mode)
  BY InvIs
<1>2. work # <<>> /\ NodeValid BY DEF put_back
<1>3. x \in live /\ p = "none" BY <1>1, <1>2, IssueIs
<1>4. NodeIsOut(x, stn)
  <2>1. TakesNode(x, stn) BY <1>2 DEF TakesNode
  <2> HIDE DEF stn
  <2> QED BY ONLY <2>1, NodeOut
<1>5. st' = S.st /\ ready_queue' = S.queue /\ panic' = S.panic BY DEF put_back
<1>6. /\ DOMAIN S0 = {"st", "queue", "panic"} /\ S0.st = stn /\ S0.queue = ready_queue
      /\ S0.panic = p
  OBVIOUS
<1> HIDE DEF stn, p, S0
<1>7. CanEnqueue(S0, live, Tail(work), event_queue, create_vector, spec_create_vector, x)
  BY <1>3, <1>4, <1>6 DEF CanEnqueue, NodeIsOut
<1> HIDE DEF live
<1>8. InQueue(S0, live, Tail(work), event_queue, create_vector, spec_create_vector, x, S)
  BY ONLY <1>7, GoodEnqueued
<1> HIDE DEF S
<1>9. /\ Good(S.st, live, S.queue, Tail(work), event_queue, create_vector, spec_create_vector)
      /\ Frame(stn, S.st) /\ S.panic = "none"
  BY <1>3, <1>6, <1>8 DEF InQueue
<1>10. Frame(st, S.st) BY <1>4, <1>9 DEF Frame, NodeIsOut
<1>11. Works(S.st, RUU, LSQ, S.queue, Tail(work), event_queue, create_vector,
             spec_create_vector, spec_mode)
  BY ONLY <1>1, <1>9, <1>10, WorksKept DEF live
<1>12. UNCHANGED <<fixed, RUU, LSQ, create_vector, spec_create_vector, spec_mode, inst_seq,
                   fetch_data, event_queue>> /\ work' = Tail(work)
  BY DEF put_back, NextNode, rename, front
<1>13. Works(st', RUU', LSQ', ready_queue', work', event_queue', create_vector',
             spec_create_vector', spec_mode')
  BY <1>5, <1>11, <1>12
<1>14. \A z \in Slots : Same(st, st', z) BY <1>5, <1>10 DEF Frame, Same
<1> QED BY <1>1, <1>5, <1>9, <1>12, <1>13, <1>14, InvNext

\* lsq_refresh() as a step.
LEMMA RefreshStep ==
  ASSUME Inv, lsq_refresh PROVE Inv' /\ \A z \in Slots : Same(st, st', z)
<1> DEFINE live == LiveIn(RUU, LSQ)
           U == [st |-> st, queue |-> ready_queue, panic |-> panic, unknown |-> {}, stop |-> FALSE]
           T == RefreshAll(U)
           f == AllLinks(T.st)
<1>1. /\ FixedOk /\ inst_seq \in Nat /\ panic = "none" /\ Fetched(fetch_data)
      /\ Ring(LSQ, LSQ_size) /\ LSQ_size \in Nat \ {0}
      /\ Works(st, RUU, LSQ, ready_queue, work, event_queue, create_vector,
               spec_create_vector, spec_mode)
      /\ Good(st, live, ready_queue, work, event_queue, create_vector, spec_create_vector)
  BY InvIs
<1>2. /\ DOMAIN U = {"st", "queue", "panic", "unknown", "stop"} /\ U.stop \in BOOLEAN
      /\ U.st = st /\ U.queue = ready_queue /\ U.panic = panic
  OBVIOUS
<1>3. /\ st' = T.st /\ work' = T.queue /\ panic' = T.panic /\ ready_queue' = <<>>
      /\ UNCHANGED <<fixed, RUU, LSQ, create_vector, spec_create_vector, spec_mode, inst_seq,
                     fetch_data, event_queue>>
  BY DEF lsq_refresh, rename, front
<1> HIDE DEF U
<1>4. CanRefresh(U, live, work, event_queue, create_vector, spec_create_vector)
  BY <1>1, <1>2 DEF CanRefresh
<1>5. LSQ.num \in Nat /\ \A k \in 1..LSQ.num : Entry(k) \in live /\ in_LSQ(Entry(k))
  <2>1. LSQ.head \in 0..LSQ_size - 1 /\ LSQ.num \in 0..LSQ_size BY <1>1 DEF Ring
  <2>2. ASSUME NEW k \in 1..LSQ.num PROVE Entry(k) \in live /\ in_LSQ(Entry(k))
    <3> DEFINE m == k - 1
               i == (LSQ.head + m) % LSQ_size
    <3>1. m \in 0..LSQ_size - 1 /\ m < LSQ.num BY <1>1, <2>1
    <3>2. LSQ.head + k - 1 = LSQ.head + m BY <2>1
    <3> HIDE DEF m
    <3>3. i \in 0..LSQ_size - 1 /\ Place(i, LSQ.head, LSQ_size) = m BY <1>1, <2>1, <3>1, Places
    <3>4. Entry(k) = L(i) BY <3>2 DEF Entry
    <3> HIDE DEF i
    <3>5. Entry(k) \in Slots /\ in_LSQ(Entry(k)) /\ Entry(k)[2] = i BY <3>3, <3>4, SlotIs
    <3> QED BY <3>1, <3>3, <3>5 DEF LiveIn, InRing
  <2> QED BY <2>1, <2>2
<1> HIDE DEF live
<1>6. /\ Good(T.st, live, T.queue, work, event_queue, create_vector, spec_create_vector)
      /\ Frame(U.st, T.st) /\ T.panic = U.panic
  <2> DEFINE N == LSQ.num
  <2>1. N \in Nat /\ N = LSQ.num /\ \A k \in 1..N : Entry(k) \in live /\ in_LSQ(Entry(k))
    BY <1>5
  <2>2. T = RefreshAll(U) OBVIOUS
  <2> HIDE DEF N, T
  <2> QED BY ONLY <1>4, <2>1, <2>2, AllRefreshed
<1> HIDE DEF T, f
<1>7. Sound(T.st, live, f, T.queue, work, event_queue) BY <1>6 DEF Good, f
<1>8. Sound(T.st, live, f, <<>>, T.queue, event_queue)
  <2> DEFINE q == <<>>
  <2>1. q \in Seq(Nodes) /\ DOMAIN q = {} OBVIOUS
  <2> HIDE DEF q
  <2>2. NodeList(T.st, live, q) /\ Apart(T.st, q, T.queue)
    BY <2>1 DEF NodeList, Apart, Refers, Once
  <2>3. Sound(T.st, live, f, q, T.queue, event_queue) BY <1>7, <2>2 DEF Sound
  <2> QED BY <2>3 DEF q
<1>9. Good(T.st, live, <<>>, T.queue, event_queue, create_vector, spec_create_vector)
  BY <1>6, <1>8 DEF Good, f
<1>10. Frame(st, T.st) BY <1>2, <1>6
<1>11. Works(T.st, RUU, LSQ, <<>>, T.queue, event_queue, create_vector,
             spec_create_vector, spec_mode)
  BY ONLY <1>1, <1>9, <1>10, WorksKept DEF live
<1>12. Works(st', RUU', LSQ', ready_queue', work', event_queue', create_vector',
             spec_create_vector', spec_mode')
  BY <1>3, <1>11
<1>13. panic' = "none" BY <1>1, <1>2, <1>3, <1>6
<1>14. \A z \in Slots : Same(st, st', z) BY <1>3, <1>10 DEF Frame, Same
<1> QED BY <1>1, <1>3, <1>12, <1>13, <1>14, InvNext
-----------------------------------------------------------------------------
(* ruu_commit() *)

\* There are at most as many accesses to memory as instructions.
LEMMA CountsAre ==
  ASSUME RUU_size \in Nat \ {0}, NEW r, NEW l, Ring(r, RUU_size), NEW stn, NEW live,
         live = LiveIn(r, l)
  PROVE  /\ IsFiniteSet(Accesses(stn, live)) /\ IsFiniteSet(SpecAccesses(stn, live))
         /\ Cardinality(Accesses(stn, live)) \in Nat
         /\ Cardinality(SpecAccesses(stn, live)) \in Nat
         /\ Cardinality(Accesses(stn, live)) <= r.num
         /\ Cardinality(SpecAccesses(stn, live)) <= Cardinality(Accesses(stn, live))
<1> DEFINE A == Accesses(stn, live)
           B == SpecAccesses(stn, live)
           X == InRUU(r, 0)
<1>1. r.head \in 0..RUU_size - 1 /\ r.num \in 0..RUU_size BY DEF Ring
<1>2. IsFiniteSet(X) /\ Cardinality(X) = r.num - 0
  <2>1. 0 \in 0..r.num BY <1>1
  <2> QED BY <2>1, RingCounts
<1>3. A \subseteq X
  <2> SUFFICES ASSUME NEW x \in A PROVE x \in X OBVIOUS
  <2>1. x \in Slots /\ ~in_LSQ(x) /\ Place(x[2], r.head, RUU_size) < r.num
    BY DEF Accesses, LiveIn, InRing
  <2>2. x[2] \in 0..RUU_size - 1 BY <2>1, SlotIs
  <2>3. Place(x[2], r.head, RUU_size) \in 0..RUU_size - 1 BY <1>1, <2>2, Places
  <2>4. 0 <= Place(x[2], r.head, RUU_size) BY <2>3
  <2> QED BY <2>1, <2>4 DEF InRUU
<1>4. B \subseteq A BY DEF SpecAccesses
<1> HIDE DEF A, B, X
<1>5. IsFiniteSet(A) /\ Cardinality(A) <= Cardinality(X) BY <1>2, <1>3, FS_Subset
<1>6. IsFiniteSet(B) /\ Cardinality(B) <= Cardinality(A) BY <1>4, <1>5, FS_Subset
<1>7. Cardinality(A) \in Nat /\ Cardinality(B) \in Nat BY <1>5, <1>6, FS_CardinalityType
<1>8. Cardinality(A) <= r.num BY <1>1, <1>2, <1>5, <1>7
<1> QED BY <1>5, <1>6, <1>7, <1>8 DEF A, B

\* A ring without its head.
LEMMA HeadGone ==
  ASSUME NEW size \in Nat \ {0}, NEW q, Ring(q, size), q.num > 0, NEW r, r = Retreat(q, size)
  PROVE  /\ Ring(r, size) /\ r.num = q.num - 1 /\ q.head \in 0..size - 1 /\ q.num \in 1..size
         /\ InRing(q, size, q.head) /\ Place(q.head, q.head, size) = 0
         /\ \A i \in 0..size - 1 : /\ InRing(r, size, i) <=> InRing(q, size, i) /\ i # q.head
                                   /\ i # q.head => Place(i, r.head, size) = Place(i, q.head, size) - 1
                                   /\ Place(i, q.head, size) \in Nat
<1>1. /\ Ring(r, size) /\ r.num = q.num - 1
      /\ \A i \in 0..size - 1 :
            Place(i, r.head, size) = IF i = q.head THEN size - 1 ELSE Place(i, q.head, size) - 1
      /\ Place(q.head, q.head, size) = 0
  BY Retreats
<1>2. q.head \in 0..size - 1 /\ q.num \in 1..size BY DEF Ring
<1>3. \A i \in 0..size - 1 : Place(i, q.head, size) \in 0..size - 1 BY <1>2, Places
<1>4. InRing(q, size, q.head) BY <1>1, <1>2 DEF InRing
<1>5. ASSUME NEW i \in 0..size - 1
      PROVE  InRing(r, size, i) <=> InRing(q, size, i) /\ i # q.head
  <2> DEFINE p == Place(i, q.head, size)
             p2 == Place(i, r.head, size)
  <2>1. p2 = (IF i = q.head THEN size - 1 ELSE p - 1) /\ p \in 0..size - 1 BY <1>1, <1>3
  <2> HIDE DEF p, p2
  <2>2. p2 < q.num - 1 <=> p < q.num /\ i # q.head BY <1>2, <2>1
  <2> QED BY <1>1, <2>2 DEF InRing, p, p2
<1> QED BY <1>1, <1>2, <1>3, <1>4, <1>5

\* What has completed leaves without a trace.
CanLeave(stn, live, rq, wk, ev, cv, scv, gone, stn2) ==
    /\ Good(stn, live, rq, wk, ev, cv, scv) /\ gone \subseteq live
    /\ DOMAIN stn2 = Slots /\ \A z \in Slots \ gone : stn2[z] = stn[z]
    /\ \A z \in gone : stn2[z] = [stn[z] EXCEPT !.tag = @ + 1] /\ stn[z].completed
\* Instructions leave: all that remains refers to nothing of theirs.
LEMMA Left ==
  ASSUME NEW stn, NEW live, NEW rq, NEW wk, NEW ev, NEW cv, NEW scv, NEW gone, NEW stn2,
         CanLeave(stn, live, rq, wk, ev, cv, scv, gone, stn2)
  PROVE  Good(stn2, live \ gone, rq, wk, ev, cv, scv)
<1> DEFINE f == AllLinks(stn)
           rest == live \ gone
<1>1. /\ live \in SUBSET Slots /\ Sound(stn, live, f, rq, wk, ev) /\ Typed(stn)
      /\ Holders(stn, live) /\ Creators(stn, live, cv, scv) /\ StoresWriteNothing(stn, live)
      /\ gone \in SUBSET live
      /\ DOMAIN stn2 = Slots /\ \A z \in Slots \ gone : stn2[z] = stn[z]
      /\ \A z \in gone : stn2[z] = [stn[z] EXCEPT !.tag = @ + 1] /\ stn[z].completed
  BY DEF CanLeave, Good, Sound
<1>2. ASSUME NEW z \in gone
      PROVE  /\ StationType(stn2[z]) /\ stn2[z].tag = stn[z].tag + 1
             /\ stn2[z].odep_list = stn[z].odep_list
  <2>1. StationType(stn[z]) /\ stn2[z] = [stn[z] EXCEPT !.tag = @ + 1] BY <1>1 DEF Typed
  <2>2. StationType(stn2[z]) BY <2>1, StationSets
  <2>3. stn2[z].tag = stn[z].tag + 1 /\ stn2[z].odep_list = stn[z].odep_list
    BY <2>1, Fields DEF StationType
  <2> QED BY <2>2, <2>3
<1>3. \A z \in Slots : stn2[z].odep_list = stn[z].odep_list BY <1>1, <1>2
<1>4. AllLinks(stn2) = f BY <1>3, LinksSame
<1> HIDE DEF f, rest
<1>5. Sound(stn2, live \ gone, f, rq, wk, ev)
  <2>1. \A z \in gone : StationType(stn2[z]) /\ stn2[z].tag = stn[z].tag + 1 BY <1>2
  <2> QED BY ONLY <1>1, <2>1, Leave
<1>6. Holders(stn2, live \ gone)
  <2> SUFFICES ASSUME NEW z \in Slots, NEW i \in 1..2, stn2[z].odep_list[i] # <<>>
               PROVE  z \in live \ gone /\ ~stn2[z].completed /\ stn2[z].op # "store"
    BY DEF Holders
  <2>1. z \in live /\ ~stn[z].completed /\ stn[z].op # "store" BY <1>1, <1>3 DEF Holders
  <2> QED BY <1>1, <2>1
<1>7. Creators(stn2, live \ gone, cv, scv)
  <2>1. ASSUME NEW c, NEW r, NEW spec, Creates(stn, live, c, r, spec)
        PROVE  Creates(stn2, live \ gone, c, r, spec)
    <3>1. PICK x \in live, i \in 1..2 :
             /\ c = <<x, i>> /\ stn[x].onames[i] = r /\ ~stn[x].completed
             /\ stn[x].op # "store" /\ stn[x].spec_mode = spec
      BY <2>1 DEF Creates
    <3>2. x \in live \ gone /\ stn2[x] = stn[x] BY <1>1, <3>1
    <3> QED BY <3>1, <3>2 DEF Creates
  <2> QED BY <1>1, <2>1 DEF Creators
<1>8. StoresWriteNothing(stn2, live \ gone) BY <1>1 DEF StoresWriteNothing
<1>9. live \ gone \in SUBSET Slots BY <1>1
<1> QED BY <1>4, <1>5, <1>6, <1>7, <1>8, <1>9 DEF Good

\* The heads: what they hold, and that they are in step.
LEMMA HeadsAre ==
  ASSUME Inv, RUU.num > 0, NEW live, live = LiveIn(RUU, LSQ),
         NEW x, x = R(RUU.head), NEW y, y = L(LSQ.head)
  PROVE  /\ x \in live /\ ~in_LSQ(x) /\ x[2] = RUU.head
         /\ in_LSQ(y) /\ y[2] = LSQ.head /\ y \in Slots /\ st[x].ea_comp \in BOOLEAN
         /\ st[x].ea_comp => LSQ.num > 0 /\ y \in live
         /\ st[x].completed => ~st[x].spec_mode
<1>1. /\ Ring(RUU, RUU_size) /\ Ring(LSQ, LSQ_size)
      /\ RUU_size \in Nat \ {0} /\ LSQ_size \in Nat \ {0}
      /\ Steady(st, RUU, LSQ, live, spec_mode) /\ Typed(st) /\ spec_mode \in BOOLEAN
  BY InvIs
<1>2. /\ RUU.head \in 0..RUU_size - 1 /\ RUU.num \in 0..RUU_size
      /\ LSQ.head \in 0..LSQ_size - 1 /\ LSQ.num \in 0..LSQ_size
  BY <1>1 DEF Ring
<1>3. /\ x \in Slots /\ ~in_LSQ(x) /\ x[2] = RUU.head
      /\ y \in Slots /\ in_LSQ(y) /\ y[2] = LSQ.head
  BY <1>2, SlotIs
<1>4. Place(RUU.head, RUU.head, RUU_size) = 0 /\ Place(LSQ.head, LSQ.head, LSQ_size) = 0
  BY <1>1, <1>2, PlaceIs
<1>5. x \in live BY <1>2, <1>3, <1>4 DEF LiveIn, InRing
<1>6. st[x].ea_comp \in BOOLEAN BY <1>1, <1>3 DEF Typed, StationType
<1>7. ASSUME st[x].ea_comp PROVE LSQ.num > 0 /\ y \in live
  <2>1. x \in Accesses(st, live) BY <1>3, <1>5, <1>7 DEF Accesses
  <2>2. IsFiniteSet(Accesses(st, live)) BY <1>1, CountsAre
  <2>3. Cardinality(Accesses(st, live)) # 0 BY <2>1, <2>2, FS_EmptySet
  <2>4. LSQ.num > 0 BY <1>1, <1>2, <2>3 DEF Steady
  <2> QED BY <1>3, <1>4, <2>4 DEF LiveIn, InRing
<1>8. ASSUME st[x].completed PROVE ~st[x].spec_mode
  <2>1. CASE ~spec_mode BY <1>1, <1>5, <2>1 DEF Steady
  <2>2. CASE spec_mode
    <3>1. PICK b \in live : Branch(st, RUU, live, b) BY <1>1, <2>2 DEF Steady
    <3>2. b \in Slots /\ ~in_LSQ(b) BY <3>1 DEF LiveIn, Branch
    <3>3. b[2] \in 0..RUU_size - 1 BY <3>2, SlotIs
    <3>4. RPlace(RUU, b) \in 0..RUU_size - 1 BY <1>1, <1>2, <3>3, Places DEF RPlace
    <3>5. RPlace(RUU, x) = 0 BY <1>3, <1>4 DEF RPlace
    <3>6. ~(RPlace(RUU, x) > RPlace(RUU, b)) BY <3>4, <3>5
    <3> QED BY <1>3, <1>5, <3>1, <3>6 DEF Branch
  <2> QED BY <2>1, <2>2
<1> QED BY <1>3, <1>5, <1>6, <1>7, <1>8

\* What remains in flight when the heads go.
CanRetire(ea, r, l, gone) ==
    /\ Inv /\ RUU.num > 0 /\ ea \in BOOLEAN /\ (ea => LSQ.num > 0)
    /\ r = Retreat(RUU, RUU_size) /\ l = IF ea THEN Retreat(LSQ, LSQ_size) ELSE LSQ
    /\ gone = IF ea THEN {R(RUU.head), L(LSQ.head)} ELSE {R(RUU.head)}
Rest(ea, r, l, gone) ==
    /\ Ring(r, RUU_size) /\ Ring(l, LSQ_size)
    /\ LiveIn(r, l) = LiveIn(RUU, LSQ) \ gone
    /\ \A z \in LiveIn(r, l) :
          IF in_LSQ(z) THEN LPlace(l, z) = (IF ea THEN LPlace(LSQ, z) - 1 ELSE LPlace(LSQ, z))
                            /\ LPlace(LSQ, z) \in Nat
          ELSE RPlace(r, z) = RPlace(RUU, z) - 1 /\ RPlace(RUU, z) \in Nat
    /\ l.num = (IF ea THEN LSQ.num - 1 ELSE LSQ.num) /\ LSQ.num \in Nat
\* ruu_commit() takes the head of RUU, and the head of LSQ with it for an access.
LEMMA RestIs ==
  ASSUME NEW ea, NEW r, NEW l, NEW gone, CanRetire(ea, r, l, gone) PROVE Rest(ea, r, l, gone)
<1> SUFFICES ASSUME Inv, RUU.num > 0, ea \in BOOLEAN, ea => LSQ.num > 0,
                    r = Retreat(RUU, RUU_size), l = IF ea THEN Retreat(LSQ, LSQ_size) ELSE LSQ,
                    gone = IF ea THEN {R(RUU.head), L(LSQ.head)} ELSE {R(RUU.head)}
             PROVE  Rest(ea, r, l, gone)
  BY DEF CanRetire
<1>1. /\ Ring(RUU, RUU_size) /\ Ring(LSQ, LSQ_size)
      /\ RUU_size \in Nat \ {0} /\ LSQ_size \in Nat \ {0}
  BY InvIs
<1>2. /\ Ring(r, RUU_size) /\ r.num = RUU.num - 1 /\ RUU.head \in 0..RUU_size - 1
      /\ \A i \in 0..RUU_size - 1 :
            /\ InRing(r, RUU_size, i) <=> InRing(RUU, RUU_size, i) /\ i # RUU.head
            /\ i # RUU.head => Place(i, r.head, RUU_size) = Place(i, RUU.head, RUU_size) - 1
            /\ Place(i, RUU.head, RUU_size) \in Nat
  BY <1>1, HeadGone
<1>3. /\ Ring(l, LSQ_size) /\ LSQ.head \in 0..LSQ_size - 1 /\ LSQ.num \in Nat
      /\ l.num = (IF ea THEN LSQ.num - 1 ELSE LSQ.num)
      /\ \A i \in 0..LSQ_size - 1 :
            /\ InRing(l, LSQ_size, i) <=> InRing(LSQ, LSQ_size, i) /\ ~(ea /\ i = LSQ.head)
            /\ ~(ea /\ i = LSQ.head) => Place(i, l.head, LSQ_size) =
                  (IF ea THEN Place(i, LSQ.head, LSQ_size) - 1 ELSE Place(i, LSQ.head, LSQ_size))
            /\ Place(i, LSQ.head, LSQ_size) \in Nat
  <2>0. LSQ.head \in 0..LSQ_size - 1 /\ LSQ.num \in Nat BY <1>1 DEF Ring
  <2>1. CASE ea
    <3>1. l = Retreat(LSQ, LSQ_size) /\ LSQ.num > 0 BY <2>1
    <3>2. /\ Ring(l, LSQ_size) /\ l.num = LSQ.num - 1
          /\ \A i \in 0..LSQ_size - 1 :
               /\ InRing(l, LSQ_size, i) <=> InRing(LSQ, LSQ_size, i) /\ i # LSQ.head
               /\ i # LSQ.head => Place(i, l.head, LSQ_size) = Place(i, LSQ.head, LSQ_size) - 1
               /\ Place(i, LSQ.head, LSQ_size) \in Nat
      BY ONLY <1>1, <3>1, HeadGone
    <3> QED BY <2>0, <2>1, <3>2
  <2>2. CASE ~ea
    <3>1. l = LSQ BY <2>2
    <3>2. \A i \in 0..LSQ_size - 1 : Place(i, LSQ.head, LSQ_size) \in Nat
      <4>1. \A i \in 0..LSQ_size - 1 : Place(i, LSQ.head, LSQ_size) \in 0..LSQ_size - 1
        BY <1>1, <2>0, Places
      <4>2. 0..LSQ_size - 1 \subseteq Nat BY <1>1
      <4> QED BY ONLY <4>1, <4>2
    <3> QED BY <1>1, <2>0, <2>2, <3>1, <3>2
  <2> QED BY <2>1, <2>2
<1>4. ASSUME NEW z \in Slots
      PROVE  z \in LiveIn(r, l) <=> z \in LiveIn(RUU, LSQ) /\ z \notin gone
  <2>1. CASE in_LSQ(z)
    <3>1. z = L(z[2]) /\ z[2] \in 0..LSQ_size - 1 BY <2>1, SlotIs
    <3>2. z # R(RUU.head) BY <2>1 DEF R, in_LSQ
    <3>3. z = L(LSQ.head) <=> z[2] = LSQ.head BY <1>3, <3>1, SlotIs
    <3>4. z \in gone <=> ea /\ z[2] = LSQ.head BY <3>2, <3>3
    <3> QED BY <1>3, <2>1, <3>1, <3>4 DEF LiveIn
  <2>2. CASE ~in_LSQ(z)
    <3>1. z = R(z[2]) /\ z[2] \in 0..RUU_size - 1 BY <2>2, SlotIs
    <3>2. z # L(LSQ.head) BY <2>2 DEF L, in_LSQ
    <3>3. z = R(RUU.head) <=> z[2] = RUU.head BY <1>2, <3>1, SlotIs
    <3>4. z \in gone <=> z[2] = RUU.head BY <3>2, <3>3
    <3> QED BY <1>2, <2>2, <3>1, <3>4 DEF LiveIn
  <2> QED BY <2>1, <2>2
<1>5. LiveIn(r, l) = LiveIn(RUU, LSQ) \ gone
  <2>1. LiveIn(r, l) \subseteq Slots /\ LiveIn(RUU, LSQ) \subseteq Slots BY DEF LiveIn
  <2> QED BY <1>4, <2>1
<1>6. ASSUME NEW z \in LiveIn(r, l), in_LSQ(z)
      PROVE  /\ LPlace(l, z) = (IF ea THEN LPlace(LSQ, z) - 1 ELSE LPlace(LSQ, z))
             /\ LPlace(LSQ, z) \in Nat
  <2>1. z[2] \in 0..LSQ_size - 1 /\ InRing(l, LSQ_size, z[2]) BY <1>6, SlotIs DEF LiveIn
  <2>2. ~(ea /\ z[2] = LSQ.head) BY <1>3, <2>1
  <2> QED BY <1>3, <2>1, <2>2 DEF LPlace
<1>7. ASSUME NEW z \in LiveIn(r, l), ~in_LSQ(z)
      PROVE  RPlace(r, z) = RPlace(RUU, z) - 1 /\ RPlace(RUU, z) \in Nat
  <2>1. z[2] \in 0..RUU_size - 1 /\ InRing(r, RUU_size, z[2]) BY <1>7, SlotIs DEF LiveIn
  <2> QED BY <1>2, <2>1 DEF RPlace
<1> QED BY <1>2, <1>3, <1>5, <1>6, <1>7 DEF Rest

\* ruu_commit() finds RUU and LSQ in step.
LEMMA CommitStep ==
  ASSUME Inv, ruu_commit PROVE Inv'
<1> DEFINE live == LiveIn(RUU, LSQ)
           x == R(RUU.head)
           y == L(LSQ.head)
           ea == st[x].ea_comp
           gone == IF ea THEN {x, y} ELSE {x}
           rest == LiveIn(RUU', LSQ')
<1>1. /\ FixedOk /\ inst_seq \in Nat /\ panic = "none" /\ Fetched(fetch_data)
      /\ RUU_size \in Nat \ {0} /\ LSQ_size \in Nat \ {0} /\ spec_mode \in BOOLEAN
      /\ Ring(RUU, RUU_size)
      /\ live \in SUBSET Slots /\ Steady(st, RUU, LSQ, live, spec_mode) /\ Typed(st)
      /\ Good(st, live, ready_queue, work, event_queue, create_vector, spec_create_vector)
  BY InvIs
<1>2. /\ RUU.num > 0 /\ st[x].completed
      /\ ea => st[y].completed
  BY DEF ruu_commit, CanCommit, Oldest, OldestAccess
<1>3. /\ x \in live /\ ~in_LSQ(x) /\ in_LSQ(y) /\ y \in Slots /\ ea \in BOOLEAN
      /\ ea => LSQ.num > 0 /\ y \in live
      /\ ~st[x].spec_mode
  BY <1>2, HeadsAre
<1>4. /\ st' = [z \in Slots |->
                  IF z = x \/ (ea /\ z = y) THEN [st[z] EXCEPT !.tag = @ + 1] ELSE st[z]]
      /\ RUU' = Retreat(RUU, RUU_size)
      /\ LSQ' = IF ea THEN Retreat(LSQ, LSQ_size) ELSE LSQ
      /\ panic' = CASE ea /\ LSQ.num = 0 -> "RUU out of sync with LSQ"
                     [] \E i \in 1..2 : st[x].odep_list[i] # <<>> ->
                           "retired instruction has odeps"
                     [] OTHER -> panic
  BY DEF ruu_commit, Oldest
<1>5. panic' = "none"
  <2>1. ~\E i \in 1..2 : st[x].odep_list[i] # <<>>
    BY <1>1, <1>2, <1>3 DEF Good, Holders
  <2>2. ~(ea /\ LSQ.num = 0) BY <1>3
  <2> QED BY <1>1, <1>4, <2>1, <2>2
<1>6. /\ Ring(RUU', RUU_size) /\ Ring(LSQ', LSQ_size) /\ rest = live \ gone
      /\ \A z \in rest :
            IF in_LSQ(z) THEN LPlace(LSQ', z) = (IF ea THEN LPlace(LSQ, z) - 1 ELSE LPlace(LSQ, z))
                              /\ LPlace(LSQ, z) \in Nat
            ELSE RPlace(RUU', z) = RPlace(RUU, z) - 1 /\ RPlace(RUU, z) \in Nat
      /\ LSQ'.num = (IF ea THEN LSQ.num - 1 ELSE LSQ.num) /\ LSQ.num \in Nat
  <2>1. CanRetire(ea, RUU', LSQ', gone) BY <1>2, <1>3, <1>4 DEF CanRetire
  <2> HIDE DEF ea, gone
  <2>2. Rest(ea, RUU', LSQ', gone) BY ONLY <2>1, RestIs
  <2> QED BY <2>2 DEF Rest
<1> HIDE DEF live, rest, x, y, ea
<1>7. Good(st', rest, ready_queue, work, event_queue, create_vector, spec_create_vector)
  <2>1. gone \subseteq live /\ \A z \in gone : st[z].completed BY <1>2, <1>3
  <2>2. \A z \in Slots \ gone : st'[z] = st[z] BY <1>4
  <2>3. \A z \in gone : st'[z] = [st[z] EXCEPT !.tag = @ + 1]
    <3> SUFFICES ASSUME NEW z \in gone PROVE st'[z] = [st[z] EXCEPT !.tag = @ + 1] OBVIOUS
    <3>1. z \in Slots /\ (z = x \/ (ea /\ z = y)) BY <1>1, <1>3
    <3> QED BY <1>4, <3>1
  <2>4. DOMAIN st' = Slots BY <1>4
  <2>5. CanLeave(st, live, ready_queue, work, event_queue, create_vector, spec_create_vector,
                 gone, st')
    BY <1>1, <2>1, <2>2, <2>3, <2>4 DEF CanLeave
  <2> HIDE DEF gone
  <2>6. Good(st', live \ gone, ready_queue, work, event_queue, create_vector, spec_create_vector)
    BY ONLY <2>5, Left
  <2> QED BY <1>6, <2>6
<1>8. \A z \in rest : z \in live /\ z # x /\ z \in Slots /\ st'[z] = st[z]
  BY <1>1, <1>4, <1>6
<1>9. /\ Accesses(st', rest) = (IF ea THEN Accesses(st, live) \ {x} ELSE Accesses(st, live))
      /\ SpecAccesses(st', rest) = SpecAccesses(st, live)
      /\ ea <=> x \in Accesses(st, live)
  <2>1. ASSUME NEW z PROVE z \in Accesses(st', rest) <=> z \in Accesses(st, live) /\ z # x
    BY <1>3, <1>6, <1>8 DEF Accesses
  <2>2. ea <=> x \in Accesses(st, live) BY <1>3 DEF Accesses, ea
  <2>3. Accesses(st', rest) = Accesses(st, live) \ {x} BY <2>1
  <2>4. ASSUME NEW z PROVE z \in SpecAccesses(st', rest) <=> z \in SpecAccesses(st, live)
    BY <1>3, <1>8, <2>1 DEF SpecAccesses, Accesses
  <2>5. SpecAccesses(st', rest) = SpecAccesses(st, live) BY <2>4
  <2>6. ~ea => Accesses(st', rest) = Accesses(st, live) BY <2>2, <2>3
  <2> QED BY <2>2, <2>3, <2>5, <2>6
<1>10. LSQ'.num = Cardinality(Accesses(st', rest))
  <2>1. IsFiniteSet(Accesses(st, live)) BY <1>1, CountsAre DEF live
  <2>2. LSQ.num = Cardinality(Accesses(st, live)) BY <1>1 DEF Steady
  <2>3. Cardinality(Accesses(st, live) \ {x}) =
           IF x \in Accesses(st, live) THEN Cardinality(Accesses(st, live)) - 1
           ELSE Cardinality(Accesses(st, live))
    BY <2>1, FS_RemoveElement
  <2> QED BY <1>3, <1>6, <1>9, <2>2, <2>3
<1>11. ~spec_mode => \A z \in rest : ~st'[z].spec_mode /\ ~Pending(st'[z])
  BY <1>1, <1>8 DEF Steady
<1>12. spec_mode => \E b \in rest : Branch(st', RUU', rest, b)
  <2> SUFFICES ASSUME spec_mode PROVE \E b \in rest : Branch(st', RUU', rest, b) OBVIOUS
  <2>1. PICK b \in live : Branch(st, RUU, live, b) BY <1>1 DEF Steady
  <2>2. b # x /\ ~in_LSQ(b) BY <1>2, <2>1 DEF Branch, Pending
  <2>3. b \in rest BY <1>3, <1>6, <2>2
  <2>4. ASSUME NEW z \in rest, ~in_LSQ(z)
        PROVE  /\ st'[z].spec_mode <=> RPlace(RUU', z) > RPlace(RUU', b)
               /\ Pending(st'[z]) => z = b
    <3>1. /\ RPlace(RUU', z) = RPlace(RUU, z) - 1 /\ RPlace(RUU, z) \in Nat
          /\ RPlace(RUU', b) = RPlace(RUU, b) - 1 /\ RPlace(RUU, b) \in Nat
      BY <1>6, <2>2, <2>3, <2>4
    <3>2. RPlace(RUU', z) > RPlace(RUU', b) <=> RPlace(RUU, z) > RPlace(RUU, b) BY <3>1
    <3>3. z \in live /\ st'[z] = st[z] BY <1>8
    <3>4. /\ st[z].spec_mode <=> RPlace(RUU, z) > RPlace(RUU, b)
          /\ Pending(st[z]) => z = b
      BY <2>1, <2>4, <3>3 DEF Branch
    <3> QED BY <3>2, <3>3, <3>4
  <2>5. Pending(st'[b]) BY <1>8, <2>1, <2>3 DEF Branch
  <2>6. Branch(st', RUU', rest, b) BY <2>2, <2>3, <2>4, <2>5 DEF Branch
  <2> QED BY <2>3, <2>6
<1>13. ASSUME NEW z \in rest, in_LSQ(z)
       PROVE  st'[z].spec_mode <=> LPlace(LSQ', z) >= LSQ'.num - Cardinality(SpecAccesses(st', rest))
  <2> DEFINE w == Cardinality(SpecAccesses(st, live))
  <2>1. /\ LPlace(LSQ', z) = (IF ea THEN LPlace(LSQ, z) - 1 ELSE LPlace(LSQ, z))
        /\ LPlace(LSQ, z) \in Nat /\ LSQ.num \in Nat
        /\ LSQ'.num = (IF ea THEN LSQ.num - 1 ELSE LSQ.num)
    BY <1>6, <1>13
  <2>2. w \in Nat BY <1>1, CountsAre DEF live
  <2>3. st[z].spec_mode <=> LPlace(LSQ, z) >= LSQ.num - w BY <1>1, <1>8, <1>13 DEF Steady
  <2>4. Cardinality(SpecAccesses(st', rest)) = w BY <1>9
  <2> HIDE DEF w
  <2>5. LPlace(LSQ', z) >= LSQ'.num - w <=> LPlace(LSQ, z) >= LSQ.num - w BY <2>1, <2>2
  <2>6. st'[z] = st[z] BY <1>8
  <2> QED BY <2>3, <2>4, <2>5, <2>6
<1>14. Steady(st', RUU', LSQ', rest, spec_mode)
  BY <1>10, <1>11, <1>12, <1>13 DEF Steady
<1>15. UNCHANGED <<fixed, create_vector, spec_create_vector, spec_mode, inst_seq, work,
                   fetch_data, ready_queue, event_queue>>
  BY DEF ruu_commit, queues, rename, front
<1>16. Works(st', RUU', LSQ', ready_queue', work', event_queue', create_vector',
             spec_create_vector', spec_mode')
  BY <1>1, <1>6, <1>7, <1>14, <1>15 DEF Works, rest
<1> QED BY <1>1, <1>5, <1>15, <1>16, InvNext
-----------------------------------------------------------------------------
(* ruu_recover() *)

\* What a branch that was mis-predicted makes of RUU and LSQ.
RecoveredRUU(x) == [RUU EXCEPT !.tail = Next1(x[2], RUU_size), !.num = @ - Cardinality(Wrong(x))]
RecoveredLSQ(x) == [LSQ EXCEPT !.tail = (@ + LSQ_size - WrongAccesses(x)) % LSQ_size,
                               !.num = @ - WrongAccesses(x)]
SquashedIs(x) ==
    LET live == LiveIn(RUU, LSQ)
        w == Cardinality(SpecAccesses(st, live))
        r == RecoveredRUU(x)
        l == RecoveredLSQ(x)
    IN  /\ ~in_LSQ(x) /\ spec_mode /\ x \notin Squashed(x) /\ Squashed(x) \subseteq live
        /\ \A z \in live : z \in Squashed(x) <=> st[z].spec_mode
        /\ WrongAccesses(x) = w /\ w \in Nat /\ w <= LSQ.num /\ LSQ.num \in Nat
        /\ R(RUU.head) \notin Wrong(x)
        /\ Ring(r, RUU_size) /\ Ring(l, LSQ_size) /\ LiveIn(r, l) = live \ Squashed(x)
        /\ l.head = LSQ.head /\ l.num = LSQ.num - w
        /\ \A z \in live : Pending(st[z]) => z = x

\* ruu_recover() squashes exactly what is younger than the branch: all of the wrong path,
\* from LSQ as much as from RUU.
LEMMA SquashesWhatIsWrong ==
  ASSUME Inv, NEW x \in LiveIn(RUU, LSQ), Pending(st[x])
  PROVE  SquashedIs(x)
<1> DEFINE live == LiveIn(RUU, LSQ)
           w == Cardinality(SpecAccesses(st, live))
           r == RecoveredRUU(x)
           l == RecoveredLSQ(x)
           p == RPlace(RUU, x)
<1>1. /\ Ring(RUU, RUU_size) /\ Ring(LSQ, LSQ_size)
      /\ RUU_size \in Nat \ {0} /\ LSQ_size \in Nat \ {0}
      /\ live \in SUBSET Slots /\ Steady(st, RUU, LSQ, live, spec_mode)
      /\ Progress(st, live) /\ spec_mode \in BOOLEAN
  BY InvIs
<1>2. /\ RUU.head \in 0..RUU_size - 1 /\ RUU.num \in 0..RUU_size
      /\ LSQ.head \in 0..LSQ_size - 1 /\ LSQ.num \in 0..LSQ_size
  BY <1>1 DEF Ring
<1>3. x \in live /\ x \in Slots /\ ~in_LSQ(x) /\ spec_mode /\ InRing(RUU, RUU_size, x[2])
  <2>1. ~in_LSQ(x) BY <1>1 DEF Progress, Pending
  <2>2. spec_mode BY <1>1 DEF Steady
  <2> QED BY <1>1, <2>1, <2>2 DEF LiveIn
<1>4. Branch(st, RUU, live, x)
  <2>1. PICK b \in live : Branch(st, RUU, live, b) BY <1>1, <1>3 DEF Steady
  <2>2. x = b BY <1>3, <2>1 DEF Branch
  <2> QED BY <2>1, <2>2
<1>5. /\ Wrong(x) = InRUU(RUU, p + 1) /\ p \in 0..RUU.num - 1
      /\ Ring(r, RUU_size) /\ r.head = RUU.head /\ r.num = p + 1
  BY <1>1, <1>3, WrongIs DEF RPlace, RecoveredRUU
<1>6. w \in Nat /\ w <= LSQ.num
  <2>1. LSQ.num = Cardinality(Accesses(st, live)) BY <1>1 DEF Steady
  <2> QED BY <1>1, <2>1, CountsAre
<1> HIDE DEF live, w, r, l, p
<1>7. \A z \in Slots : ~in_LSQ(z) => /\ z[2] \in 0..RUU_size - 1
                                     /\ RPlace(RUU, z) \in 0..RUU_size - 1
  <2> TAKE z \in Slots
  <2>1. ~in_LSQ(z) => z[2] \in 0..RUU_size - 1 BY SlotIs
  <2> QED BY <1>1, <1>2, <2>1, Places DEF RPlace
<1>8. ASSUME NEW z \in Slots, ~in_LSQ(z)
      PROVE  /\ z \in live <=> RPlace(RUU, z) < RUU.num
             /\ z \in Wrong(x) <=> z \in live /\ st[z].spec_mode
  <2>1. z \in live <=> RPlace(RUU, z) < RUU.num BY <1>8 DEF live, LiveIn, InRing, RPlace
  <2>2. z \in live => (st[z].spec_mode <=> RPlace(RUU, z) > p)
    BY <1>4, <1>8 DEF Branch, p
  <2>3. z \in Wrong(x) <=> p + 1 <= RPlace(RUU, z) /\ RPlace(RUU, z) < RUU.num
    BY <1>5, <1>8 DEF InRUU, RPlace
  <2>4. RPlace(RUU, z) \in Int /\ p \in Int BY <1>5, <1>7, <1>8
  <2>5. p + 1 <= RPlace(RUU, z) <=> RPlace(RUU, z) > p BY <2>4
  <2> QED BY <2>1, <2>2, <2>3, <2>5
<1>9. \A z \in Wrong(x) : z \in Slots /\ ~in_LSQ(z) BY <1>5 DEF InRUU
<1>10. WrongAccesses(x) = w
  <2>1. ASSUME NEW z
        PROVE  z \in {y \in Wrong(x) : st[y].ea_comp} <=> z \in SpecAccesses(st, live)
    <3>1. live \in SUBSET Slots BY <1>1 DEF live
    <3> QED BY <1>8, <1>9, <3>1 DEF SpecAccesses, Accesses
  <2>2. {y \in Wrong(x) : st[y].ea_comp} = SpecAccesses(st, live) BY <2>1
  <2> QED BY <2>2 DEF WrongAccesses, w
<1> DEFINE Youngest == {L((LSQ.tail + LSQ_size - k) % LSQ_size) : k \in 1..WrongAccesses(x)}
<1>11. /\ Ring(l, LSQ_size) /\ l.head = LSQ.head /\ l.num = LSQ.num - w
       /\ \A i \in 0..LSQ_size - 1 : (\E k \in 1..w : i = (LSQ.tail + LSQ_size - k) % LSQ_size) <=>
             LSQ.num - w <= Place(i, LSQ.head, LSQ_size) /\ Place(i, LSQ.head, LSQ_size) < LSQ.num
       /\ \A k \in 1..w : (LSQ.tail + LSQ_size - k) % LSQ_size \in 0..LSQ_size - 1
  <2>1. w \in 0..LSQ.num BY <1>2, <1>6
  <2>2. l = [LSQ EXCEPT !.tail = (@ + LSQ_size - w) % LSQ_size, !.num = @ - w]
    BY <1>10 DEF l, RecoveredLSQ
  <2>3. CanDrop(LSQ, LSQ_size, w, l) BY <1>1, <2>1, <2>2 DEF CanDrop
  <2>4. Dropped(LSQ, LSQ_size, w, l) BY ONLY <2>3, LastAre
  <2> QED BY <2>4 DEF Dropped
<1>12. ASSUME NEW z \in Slots, in_LSQ(z)
       PROVE  /\ z \in live <=> LPlace(LSQ, z) < LSQ.num
              /\ z \in Youngest <=> z \in live /\ st[z].spec_mode
              /\ z[2] \in 0..LSQ_size - 1 /\ LPlace(LSQ, z) \in 0..LSQ_size - 1
  <2>0. z = L(z[2]) /\ z[2] \in 0..LSQ_size - 1 BY <1>12, SlotIs
  <2>1. z \in live <=> LPlace(LSQ, z) < LSQ.num BY <1>12 DEF live, LiveIn, InRing, LPlace
  <2>2. z \in live => (st[z].spec_mode <=> LPlace(LSQ, z) >= LSQ.num - w)
    BY <1>1, <1>12 DEF Steady, live, w
  <2>3. z \in Youngest <=> LSQ.num - w <= LPlace(LSQ, z) /\ LPlace(LSQ, z) < LSQ.num
    <3>1. z \in Youngest <=> \E k \in 1..w : z[2] = (LSQ.tail + LSQ_size - k) % LSQ_size
      <4>1. ASSUME NEW k \in 1..w
            PROVE  z = L((LSQ.tail + LSQ_size - k) % LSQ_size) <=>
                     z[2] = (LSQ.tail + LSQ_size - k) % LSQ_size
        <5>1. (LSQ.tail + LSQ_size - k) % LSQ_size \in 0..LSQ_size - 1 BY <1>11
        <5>2. L((LSQ.tail + LSQ_size - k) % LSQ_size)[2] = (LSQ.tail + LSQ_size - k) % LSQ_size
          BY <5>1, SlotIs
        <5> QED BY <2>0, <5>2
      <4> QED BY <1>10, <4>1
    <3> HIDE DEF Youngest
    <3> QED BY <1>11, <2>0, <3>1 DEF LPlace
  <2>4. LPlace(LSQ, z) \in 0..LSQ_size - 1 BY <1>1, <1>2, <2>0, Places DEF LPlace
  <2>5. LPlace(LSQ, z) \in Int /\ LSQ.num \in Int /\ w \in Int BY <1>2, <1>6, <2>4
  <2>6. LSQ.num - w <= LPlace(LSQ, z) <=> LPlace(LSQ, z) >= LSQ.num - w BY <2>5
  <2> HIDE DEF Youngest
  <2> QED BY <2>0, <2>1, <2>2, <2>3, <2>4, <2>6
<1>13. \A z \in Youngest : z \in Slots /\ in_LSQ(z) BY <1>10, <1>11, SlotIs
<1>14. Squashed(x) = Wrong(x) \cup Youngest BY DEF Squashed
<1> HIDE DEF Youngest
<1>15. ASSUME NEW z \in Slots PROVE z \in Squashed(x) <=> z \in live /\ st[z].spec_mode
  <2>1. CASE in_LSQ(z) BY <1>9, <1>12, <1>14, <2>1
  <2>2. CASE ~in_LSQ(z) BY <1>8, <1>13, <1>14, <2>2
  <2> QED BY <2>1, <2>2
<1>16. Squashed(x) \subseteq Slots BY <1>9, <1>13, <1>14
<1>17. ~(RPlace(RUU, x) > RPlace(RUU, x)) /\ ~st[x].spec_mode
  <2>1. RPlace(RUU, x) \in Int BY <1>3, <1>7
  <2>2. ~(RPlace(RUU, x) > RPlace(RUU, x)) BY <2>1
  <2> QED BY <1>3, <1>4, <2>2 DEF Branch
<1>18. R(RUU.head) \notin Wrong(x)
  <2> SUFFICES ASSUME R(RUU.head) \in Wrong(x) PROVE FALSE OBVIOUS
  <2>1. p + 1 <= Place(R(RUU.head)[2], RUU.head, RUU_size) BY <1>5 DEF InRUU
  <2>2. R(RUU.head)[2] = RUU.head BY <1>2, SlotIs
  <2>3. Place(RUU.head, RUU.head, RUU_size) = 0 BY <1>1, <1>2, PlaceIs
  <2>4. p + 1 > 0 BY <1>5
  <2> QED BY <1>5, <2>1, <2>2, <2>3, <2>4
<1>19. LiveIn(r, l) = live \ Squashed(x)
  <2>1. ASSUME NEW z \in Slots
        PROVE  z \in LiveIn(r, l) <=> z \in live /\ z \notin Squashed(x)
    <3>1. CASE in_LSQ(z)
      <4>1. z \in LiveIn(r, l) <=> LPlace(LSQ, z) < LSQ.num - w
        BY <1>11, <3>1 DEF LiveIn, InRing, LPlace
      <4>2. z \in live => (st[z].spec_mode <=> LPlace(LSQ, z) >= LSQ.num - w)
        BY <1>1, <3>1 DEF Steady, live, w
      <4>3. z \in live <=> LPlace(LSQ, z) < LSQ.num BY <1>12, <3>1
      <4>4. LPlace(LSQ, z) \in Int /\ LSQ.num \in Int /\ w \in Nat BY <1>2, <1>6, <1>12, <3>1
      <4>5. LPlace(LSQ, z) < LSQ.num - w <=>
               LPlace(LSQ, z) < LSQ.num /\ ~(LPlace(LSQ, z) >= LSQ.num - w)
        BY <4>4
      <4> QED BY <1>15, <4>1, <4>2, <4>3, <4>5
    <3>2. CASE ~in_LSQ(z)
      <4>1. z \in LiveIn(r, l) <=> RPlace(RUU, z) < p + 1
        BY <1>5, <3>2 DEF LiveIn, InRing, RPlace
      <4>2. z \in live => (st[z].spec_mode <=> RPlace(RUU, z) > p)
        BY <1>4, <3>2 DEF Branch, p
      <4>3. z \in live <=> RPlace(RUU, z) < RUU.num BY <1>8, <3>2
      <4>4. RPlace(RUU, z) \in Int /\ RUU.num \in Int /\ p \in 0..RUU.num - 1
        BY <1>2, <1>5, <1>7, <3>2
      <4>5. RPlace(RUU, z) < p + 1 <=> RPlace(RUU, z) < RUU.num /\ ~(RPlace(RUU, z) > p)
        BY <4>4
      <4> QED BY <1>15, <4>1, <4>2, <4>3, <4>5
    <3> QED BY <3>1, <3>2
  <2>2. LiveIn(r, l) \subseteq Slots /\ live \subseteq Slots BY <1>1 DEF LiveIn, live
  <2> QED BY <2>1, <2>2
<1>20. LSQ.num \in Nat BY <1>2
<1>21. \A z \in live : Pending(st[z]) => z = x
  BY <1>1, <1>4 DEF Branch, Progress, Pending, live
<1>22. live \subseteq Slots BY <1>1 DEF live
<1> QED BY <1>3, <1>5, <1>6, <1>10, <1>11, <1>15, <1>16, <1>17, <1>18, <1>19, <1>20, <1>21, <1>22
        DEF SquashedIs, live, w, r, l

\* RUU and LSQ after a mis-predicted branch has been resolved.
LEMMA SteadyRecovered ==
  ASSUME Inv, NEW x \in LiveIn(RUU, LSQ), Pending(st[x]), NEW stn2, stn2[x].completed,
         NEW live, live = LiveIn(RUU, LSQ),
         \A z \in live \ Squashed(x) : /\ stn2[z].spec_mode = st[z].spec_mode
                                       /\ stn2[z].ea_comp = st[z].ea_comp
                                       /\ stn2[z].recover_inst = st[z].recover_inst
                                       /\ z # x => stn2[z].completed = st[z].completed
  PROVE  Steady(stn2, RecoveredRUU(x), RecoveredLSQ(x), live \ Squashed(x), FALSE)
<1> DEFINE w == Cardinality(SpecAccesses(st, live))
           r == RecoveredRUU(x)
           l == RecoveredLSQ(x)
           rest == live \ Squashed(x)
           A == Accesses(st, live)
           B == SpecAccesses(st, live)
<1>1. /\ Ring(RUU, RUU_size) /\ RUU_size \in Nat \ {0} /\ LSQ_size \in Nat \ {0}
      /\ live \in SUBSET Slots /\ Steady(st, RUU, LSQ, live, spec_mode)
  BY InvIs
<1>2. /\ \A z \in live : z \in Squashed(x) <=> st[z].spec_mode
      /\ w \in Nat /\ LSQ.num \in Nat
      /\ Ring(l, LSQ_size) /\ LiveIn(r, l) = rest /\ l.num = LSQ.num - w
      /\ \A z \in live : Pending(st[z]) => z = x
  BY SquashesWhatIsWrong DEF SquashedIs
<1>3. IsFiniteSet(A) /\ LSQ.num = Cardinality(A) BY <1>1, CountsAre DEF Steady
<1>4. ASSUME NEW z \in rest
      PROVE  /\ z \in live /\ ~stn2[z].spec_mode /\ (stn2[z].ea_comp <=> st[z].ea_comp)
             /\ ~Pending(stn2[z])
  <2>1. z \in live /\ ~st[z].spec_mode BY <1>2
  <2>2. ~Pending(stn2[z])
    <3>1. CASE z = x BY <3>1 DEF Pending
    <3>2. CASE z # x BY <1>2, <2>1, <3>2 DEF Pending
    <3> QED BY <3>1, <3>2
  <2> QED BY <2>1, <2>2
<1> HIDE DEF w, r, l, rest, A, B
<1>5. Accesses(stn2, rest) = A \ B
  <2>1. ASSUME NEW z PROVE z \in Accesses(stn2, rest) <=> z \in A /\ z \notin B
    BY <1>2, <1>4 DEF Accesses, SpecAccesses, A, B, rest
  <2> QED BY <2>1
<1>6. SpecAccesses(stn2, rest) = {} BY <1>4 DEF SpecAccesses, Accesses
<1>7. l.num = Cardinality(Accesses(stn2, rest))
  <2>1. A \cap B = B BY DEF A, B, SpecAccesses
  <2>2. Cardinality(A \ B) = Cardinality(A) - Cardinality(A \cap B) BY <1>3, FS_Difference
  <2>3. Cardinality(B) = w BY DEF w, B
  <2> QED BY <1>2, <1>3, <1>5, <2>1, <2>2, <2>3
<1>8. Cardinality(SpecAccesses(stn2, rest)) = 0 BY <1>6, FS_EmptySet
<1>9. ASSUME NEW z \in rest, in_LSQ(z)
      PROVE  ~(LPlace(l, z) >= l.num - Cardinality(SpecAccesses(stn2, rest)))
  <2>1. z \in LiveIn(r, l) BY <1>2
  <2>2. z \in Slots /\ LPlace(l, z) < l.num BY <1>9, <2>1 DEF LiveIn, InRing, LPlace
  <2>3. z[2] \in 0..LSQ_size - 1 /\ l.head \in 0..LSQ_size - 1 /\ l.num \in Nat
    BY <1>1, <1>2, <1>9, <2>2, SlotIs DEF Ring
  <2>4. LPlace(l, z) \in 0..LSQ_size - 1 BY <1>1, <2>3, Places DEF LPlace
  <2> QED BY <1>8, <2>2, <2>3, <2>4
<1> QED BY <1>4, <1>7, <1>9 DEF Steady, rest, r, l

\* What a write-back squashes, and that it leaves the others to themselves.
Gone == LET x == Head(event_queue).slot IN IF st[x].recover_inst THEN Squashed(x) ELSE {}
WroteResult ==
    /\ Head(event_queue).slot \in Slots /\ st[Head(event_queue).slot].recover_inst \in BOOLEAN
    /\ st[Head(event_queue).slot].recover_inst => SquashedIs(Head(event_queue).slot)
    /\ \A z \in LiveIn(RUU, LSQ) \ Gone : Same(st, st', z)
\* ruu_writeback() and ruu_recover() as a step.
LEMMA WritebackStep ==
  ASSUME Inv, ruu_writeback PROVE Inv' /\ WroteResult
<1> DEFINE x == Head(event_queue).slot
           live == LiveIn(RUU, LSQ)
           s == st[x]
           gone == IF s.recover_inst THEN Squashed(x) ELSE {}
           links == s.odep_list[1] \o s.odep_list[2]
           st1 == [y \in Slots |-> CASE y \in gone -> Squash(st[y])
                                     [] y = x -> [s EXCEPT !.completed = TRUE,
                                                           !.odep_list = <<<<>>, <<>>>>]
                                     [] OTHER -> st[y]]
           S == WakeAll([st |-> st1, queue |-> ready_queue, panic |-> panic], links)
           scvA == IF s.recover_inst THEN Recovered_Vector ELSE spec_create_vector
<1>1. /\ FixedOk /\ inst_seq \in Nat /\ panic = "none" /\ Fetched(fetch_data)
      /\ Works(st, RUU, LSQ, ready_queue, work, event_queue, create_vector,
               spec_create_vector, spec_mode)
      /\ Ring(RUU, RUU_size) /\ Ring(LSQ, LSQ_size)
      /\ Good(st, live, ready_queue, work, event_queue, create_vector, spec_create_vector)
      /\ live \in SUBSET Slots /\ Sound(st, live, AllLinks(st), ready_queue, work, event_queue)
      /\ Steady(st, RUU, LSQ, live, spec_mode) /\ Typed(st)
  BY InvIs
<1>2. /\ event_queue # <<>> /\ RSLINK_VALID(st, Head(event_queue))
      /\ st' = S.st /\ ready_queue' = S.queue
      /\ create_vector' = (IF s.spec_mode THEN create_vector ELSE Written(create_vector, x))
      /\ spec_create_vector' = (IF s.spec_mode THEN Written(scvA, x) ELSE scvA)
      /\ event_queue' = Tail(event_queue)
      /\ UNCHANGED <<fixed, work, inst_seq>>
  BY DEF ruu_writeback, Due
<1>3. panic' = CASE ~OPERANDS_READY(s) \/ s.queued \/ ~s.issued \/ s.completed ->
                        "inst completed and !ready, !issued, or completed"
                 [] s.recover_inst /\ in_LSQ(x) -> "mis-predicted load or store?!?!?"
                 [] s.recover_inst /\ R(RUU.head) \in Wrong(x) -> "RUU head and tail broken"
                 [] s.recover_inst /\ WrongAccesses(x) > LSQ.num -> "RUU and LSQ out of sync"
                 [] s.recover_inst /\ ~spec_mode -> "cannot recover unless in speculative mode"
                 [] OTHER -> S.panic
  BY DEF ruu_writeback
<1>4. IF s.recover_inst
      THEN /\ RUU' = RecoveredRUU(x) /\ LSQ' = RecoveredLSQ(x) /\ tracer_recover
      ELSE UNCHANGED <<RUU, LSQ, spec_mode, front>>
  BY DEF ruu_writeback, RecoveredRUU, RecoveredLSQ
<1>x. x = Head(event_queue).slot OBVIOUS
<1> HIDE DEF x
<1>5. x \in live /\ ~s.completed
  <2> HIDE DEF live
  <2>1. Head(event_queue).slot \in live /\ ~st[Head(event_queue).slot].completed
    BY ONLY <1>1, <1>2, EventTaken
  <2> QED BY <1>x, <2>1
<1>6. s.recover_inst \in BOOLEAN BY <1>1, <1>5 DEF Typed, StationType
<1>7. s.recover_inst => Pending(st[x]) /\ SquashedIs(x)
  <2>1. s.recover_inst => Pending(st[x]) BY <1>5 DEF Pending
  <2> QED BY <1>5, <2>1, SquashesWhatIsWrong
<1>8. /\ gone \subseteq live /\ x \notin gone /\ \A z \in gone : st[z].spec_mode
      /\ LiveIn(RUU', LSQ') = live \ gone
      /\ Ring(RUU', RUU_size) /\ Ring(LSQ', LSQ_size)
  <2>1. CASE s.recover_inst
    <3> DEFINE g == Squashed(x)
    <3>1. gone = g /\ RUU' = RecoveredRUU(x) /\ LSQ' = RecoveredLSQ(x) BY <1>4, <2>1
    <3>2. /\ g \subseteq live /\ x \notin g /\ \A z \in live : z \in g <=> st[z].spec_mode
          /\ LiveIn(RecoveredRUU(x), RecoveredLSQ(x)) = live \ g
          /\ Ring(RecoveredRUU(x), RUU_size) /\ Ring(RecoveredLSQ(x), LSQ_size)
      BY <1>7, <2>1 DEF SquashedIs
    <3> HIDE DEF gone, g, live
    <3> QED BY <3>1, <3>2
  <2>2. CASE ~s.recover_inst
    <3>1. gone = {} /\ RUU' = RUU /\ LSQ' = LSQ BY <1>4, <2>2
    <3> HIDE DEF gone
    <3> QED BY <1>1, <3>1
  <2> QED BY <2>1, <2>2
<1>9. CanWrite(live, ready_queue, work, event_queue, create_vector, spec_create_vector, x, gone,
               S, create_vector', spec_create_vector')
  <2>1. ~s.recover_inst => gone = {} OBVIOUS
  <2>2. /\ s = st[x] /\ links = LinksFrom(s)
        /\ st1 = AfterWrite(x, s, gone)
        /\ S = WakeAll([st |-> st1, queue |-> ready_queue, panic |-> panic], links)
        /\ scvA = IF s.recover_inst THEN Recovered_Vector ELSE spec_create_vector
    BY DEF AfterWrite, LinksFrom
  <2> HIDE DEF live, s, gone, links, st1, S, scvA
  <2> QED BY <1>1, <1>2, <1>x, <1>8, <2>1, <2>2 DEF CanWrite
<1> HIDE DEF S, gone
<1>10. WroteBack(live, work, event_queue, x, gone, S, create_vector', spec_create_vector')
  BY ONLY <1>9, WrittenBack
<1>11. panic' = "none"
  <2>1. OPERANDS_READY(s) /\ ~s.queued /\ s.issued /\ ~s.completed /\ S.panic = panic
    BY <1>10 DEF WroteBack
  <2>2. s.recover_inst => /\ ~in_LSQ(x) /\ R(RUU.head) \notin Wrong(x) /\ spec_mode
                          /\ ~(WrongAccesses(x) > LSQ.num)
    BY <1>7 DEF SquashedIs
  <2> HIDE DEF s
  <2> QED BY <1>1, <1>3, <2>1, <2>2
<1>12. Fetched(fetch_data')
  <2>1. CASE s.recover_inst BY <1>1, <1>4, <2>1, FetchedAre DEF tracer_recover
  <2>2. CASE ~s.recover_inst BY <1>1, <1>4, <2>2 DEF front
  <2> QED BY <2>1, <2>2
<1>13. /\ S.st[x].completed
       /\ \A z \in live \ gone : /\ S.st[z].spec_mode = st[z].spec_mode
                                 /\ S.st[z].ea_comp = st[z].ea_comp
                                 /\ S.st[z].recover_inst = st[z].recover_inst
                                 /\ z # x => S.st[z].completed = st[z].completed
                                 /\ Same(st, S.st, z)
  BY <1>10 DEF WroteBack
<1>14. Steady(S.st, RUU', LSQ', live \ gone, spec_mode') /\ spec_mode' \in BOOLEAN
  <2>1. CASE s.recover_inst
    <3>1. /\ gone = Squashed(x) /\ RUU' = RecoveredRUU(x) /\ LSQ' = RecoveredLSQ(x)
          /\ spec_mode' = FALSE
      BY <1>4, <2>1 DEF gone, tracer_recover
    <3>2. Steady(S.st, RecoveredRUU(x), RecoveredLSQ(x), live \ Squashed(x), FALSE)
      BY <1>5, <1>7, <1>13, <2>1, <3>1, SteadyRecovered
    <3> QED BY <3>1, <3>2
  <2>2. CASE ~s.recover_inst
    <3>1. live \ gone = live /\ RUU' = RUU /\ LSQ' = LSQ /\ spec_mode' = spec_mode
      BY <1>4, <2>2 DEF gone
    <3>2. \A z \in live : /\ S.st[z].spec_mode = st[z].spec_mode
                          /\ S.st[z].ea_comp = st[z].ea_comp
                          /\ Pending(S.st[z]) <=> Pending(st[z])
      BY <1>13, <2>2, <3>1 DEF Pending
    <3>3. Steady(S.st, RUU, LSQ, live, spec_mode) BY <1>1, <3>2, SteadyKept
    <3>4. spec_mode \in BOOLEAN BY InvIs
    <3> QED BY <3>1, <3>3, <3>4
  <2> QED BY <1>6, <2>1, <2>2
<1>15. Good(S.st, live \ gone, S.queue, work, Tail(event_queue), create_vector',
            spec_create_vector')
  BY <1>10 DEF WroteBack
<1> HIDE DEF live
<1>16. Works(st', RUU', LSQ', ready_queue', work', event_queue', create_vector',
             spec_create_vector', spec_mode')
  BY <1>2, <1>8, <1>14, <1>15 DEF Works
<1>17. WroteResult
  <2>1. Gone = gone /\ st[x] = s BY <1>x DEF Gone, gone
  <2>2. st' = S.st /\ x \in Slots BY <1>1, <1>2, <1>5
  <2> HIDE DEF s
  <2> QED BY ONLY <1>x, <1>6, <1>7, <1>13, <2>1, <2>2 DEF WroteResult, live
<1> QED BY <1>1, <1>2, <1>11, <1>12, <1>16, <1>17, InvNext
-----------------------------------------------------------------------------
(* ruu_dispatch() *)

\* A ring with one more entry, at its tail.
LEMMA TailJoins ==
  ASSUME NEW size \in Nat \ {0}, NEW q, Ring(q, size), q.num < size, NEW r, r = Advance(q, size)
  PROVE  /\ Ring(r, size) /\ r.num = q.num + 1 /\ q.num \in Nat /\ q.tail \in 0..size - 1
         /\ Place(q.tail, q.head, size) = q.num /\ ~InRing(q, size, q.tail)
         /\ \A i \in 0..size - 1 : /\ Place(i, r.head, size) = Place(i, q.head, size)
                                   /\ Place(i, q.head, size) \in Nat
                                   /\ InRing(r, size, i) <=> InRing(q, size, i) \/ i = q.tail
<1>1. Ring(r, size) /\ r.head = q.head /\ r.num = q.num + 1 BY Advances
<1>2. /\ q.head \in 0..size - 1 /\ q.num \in 0..size /\ q.tail \in 0..size - 1
      /\ Place(q.tail, q.head, size) = q.num
  BY TailIs
<1>3. q.tail = (q.head + q.num) % size BY DEF Ring
<1>4. \A i \in 0..size - 1 : /\ Place(i, q.head, size) \in 0..size - 1
                             /\ (q.head + Place(i, q.head, size)) % size = i
  BY <1>2, Places
<1>5. ~InRing(q, size, q.tail) BY <1>2 DEF InRing
<1>6. ASSUME NEW i \in 0..size - 1
      PROVE  /\ Place(i, q.head, size) \in Nat
             /\ InRing(r, size, i) <=> InRing(q, size, i) \/ i = q.tail
  <2> DEFINE p == Place(i, q.head, size)
  <2>1. p \in 0..size - 1 /\ (q.head + p) % size = i BY <1>4
  <2>2. i = q.tail => p = q.num BY <1>2
  <2> HIDE DEF p
  <2>3. p = q.num => i = q.tail BY <1>3, <2>1
  <2>4. p < q.num + 1 <=> p < q.num \/ i = q.tail BY <1>2, <2>1, <2>2, <2>3
  <2>5. p \in Nat BY <2>1
  <2> QED BY <1>1, <2>4, <2>5 DEF InRing, p
<1> QED BY <1>1, <1>2, <1>5, <1>6

\* What is in flight when an instruction has joined at the tails.
CanGrow(mem, r, l, new) ==
    /\ Inv /\ RUU.num < RUU_size /\ LSQ.num < LSQ_size /\ mem \in BOOLEAN
    /\ r = Advance(RUU, RUU_size) /\ l = IF mem THEN Advance(LSQ, LSQ_size) ELSE LSQ
    /\ new = IF mem THEN {R(RUU.tail), L(LSQ.tail)} ELSE {R(RUU.tail)}
Grown(mem, r, l, new) ==
    /\ Ring(r, RUU_size) /\ Ring(l, LSQ_size)
    /\ RUU.num \in Nat /\ r.num = RUU.num + 1
    /\ LSQ.num \in Nat /\ l.num = (IF mem THEN LSQ.num + 1 ELSE LSQ.num)
    /\ new \subseteq Slots \ LiveIn(RUU, LSQ) /\ LiveIn(r, l) = LiveIn(RUU, LSQ) \cup new
    /\ \A z \in LiveIn(r, l) :
          IF in_LSQ(z)
          THEN /\ LPlace(l, z) = LPlace(LSQ, z) /\ LPlace(LSQ, z) \in Nat
               /\ z \in new => LPlace(LSQ, z) = LSQ.num
               /\ z \notin new => LPlace(LSQ, z) < LSQ.num
          ELSE /\ RPlace(r, z) = RPlace(RUU, z) /\ RPlace(RUU, z) \in Nat
               /\ z \in new => RPlace(RUU, z) = RUU.num
               /\ z \notin new => RPlace(RUU, z) < RUU.num
\* ruu_dispatch() takes the tail of RUU, and the tail of LSQ with it for an access.
LEMMA GrownIs ==
  ASSUME NEW mem, NEW r, NEW l, NEW new, CanGrow(mem, r, l, new) PROVE Grown(mem, r, l, new)
<1> SUFFICES ASSUME Inv, RUU.num < RUU_size, LSQ.num < LSQ_size, mem \in BOOLEAN,
                    r = Advance(RUU, RUU_size),
                    l = IF mem THEN Advance(LSQ, LSQ_size) ELSE LSQ,
                    new = IF mem THEN {R(RUU.tail), L(LSQ.tail)} ELSE {R(RUU.tail)}
             PROVE  Grown(mem, r, l, new)
  BY DEF CanGrow
<1>1. /\ Ring(RUU, RUU_size) /\ Ring(LSQ, LSQ_size)
      /\ RUU_size \in Nat \ {0} /\ LSQ_size \in Nat \ {0}
  BY InvIs
<1>2. /\ Ring(r, RUU_size) /\ r.num = RUU.num + 1 /\ RUU.num \in Nat
      /\ RUU.tail \in 0..RUU_size - 1
      /\ Place(RUU.tail, RUU.head, RUU_size) = RUU.num /\ ~InRing(RUU, RUU_size, RUU.tail)
      /\ \A i \in 0..RUU_size - 1 :
            /\ Place(i, r.head, RUU_size) = Place(i, RUU.head, RUU_size)
            /\ Place(i, RUU.head, RUU_size) \in Nat
            /\ InRing(r, RUU_size, i) <=> InRing(RUU, RUU_size, i) \/ i = RUU.tail
  BY <1>1, TailJoins
<1>3. /\ Ring(l, LSQ_size) /\ LSQ.num \in Nat /\ LSQ.tail \in 0..LSQ_size - 1
      /\ l.num = (IF mem THEN LSQ.num + 1 ELSE LSQ.num)
      /\ Place(LSQ.tail, LSQ.head, LSQ_size) = LSQ.num /\ ~InRing(LSQ, LSQ_size, LSQ.tail)
      /\ \A i \in 0..LSQ_size - 1 :
            /\ Place(i, l.head, LSQ_size) = Place(i, LSQ.head, LSQ_size)
            /\ Place(i, LSQ.head, LSQ_size) \in Nat
            /\ InRing(l, LSQ_size, i) <=> InRing(LSQ, LSQ_size, i) \/ (mem /\ i = LSQ.tail)
  <2> DEFINE a == Advance(LSQ, LSQ_size)
  <2>1. /\ Ring(a, LSQ_size) /\ LSQ.num \in Nat /\ LSQ.tail \in 0..LSQ_size - 1
        /\ a.num = LSQ.num + 1
        /\ Place(LSQ.tail, LSQ.head, LSQ_size) = LSQ.num /\ ~InRing(LSQ, LSQ_size, LSQ.tail)
        /\ \A i \in 0..LSQ_size - 1 :
            /\ Place(i, a.head, LSQ_size) = Place(i, LSQ.head, LSQ_size)
            /\ Place(i, LSQ.head, LSQ_size) \in Nat
            /\ InRing(a, LSQ_size, i) <=> InRing(LSQ, LSQ_size, i) \/ i = LSQ.tail
    BY <1>1, TailJoins
  <2> HIDE DEF a
  <2>2. CASE mem
    <3>1. l = a BY <2>2 DEF a
    <3> QED BY <2>1, <2>2, <3>1
  <2>3. CASE ~mem
    <3>1. l = LSQ BY <2>3
    <3> QED BY <1>1, <2>1, <2>3, <3>1
  <2> QED BY <2>2, <2>3
<1>4. ASSUME NEW z \in Slots
      PROVE  /\ z \in LiveIn(r, l) <=> z \in LiveIn(RUU, LSQ) \/ z \in new
             /\ z \in new => z \notin LiveIn(RUU, LSQ)
             /\ in_LSQ(z) => /\ z[2] \in 0..LSQ_size - 1
                             /\ z \in new <=> mem /\ z[2] = LSQ.tail
             /\ ~in_LSQ(z) => /\ z[2] \in 0..RUU_size - 1
                              /\ z \in new <=> z[2] = RUU.tail
  <2>1. CASE in_LSQ(z)
    <3>1. z = L(z[2]) /\ z[2] \in 0..LSQ_size - 1 BY <2>1, SlotIs
    <3>2. z # R(RUU.tail) BY <2>1 DEF R, in_LSQ
    <3>3. z = L(LSQ.tail) <=> z[2] = LSQ.tail BY <1>3, <3>1, SlotIs
    <3>4. z \in new <=> mem /\ z[2] = LSQ.tail BY <3>2, <3>3
    <3> QED BY <1>3, <2>1, <3>1, <3>4 DEF LiveIn
  <2>2. CASE ~in_LSQ(z)
    <3>1. z = R(z[2]) /\ z[2] \in 0..RUU_size - 1 BY <2>2, SlotIs
    <3>2. z # L(LSQ.tail) BY <2>2 DEF L, in_LSQ
    <3>3. z = R(RUU.tail) <=> z[2] = RUU.tail BY <1>2, <3>1, SlotIs
    <3>4. z \in new <=> z[2] = RUU.tail BY <3>2, <3>3
    <3> QED BY <1>2, <2>2, <3>1, <3>4 DEF LiveIn
  <2> QED BY <2>1, <2>2
<1>5. new \subseteq Slots BY <1>2, <1>3, SlotIs
<1>6. LiveIn(r, l) \subseteq Slots /\ LiveIn(RUU, LSQ) \subseteq Slots BY DEF LiveIn
<1>7. LiveIn(r, l) = LiveIn(RUU, LSQ) \cup new BY <1>4, <1>5, <1>6
<1>8. new \subseteq Slots \ LiveIn(RUU, LSQ) BY <1>4, <1>5
<1>9. ASSUME NEW z \in LiveIn(r, l), in_LSQ(z)
      PROVE  /\ LPlace(l, z) = LPlace(LSQ, z) /\ LPlace(LSQ, z) \in Nat
             /\ z \in new => LPlace(LSQ, z) = LSQ.num
             /\ z \notin new => LPlace(LSQ, z) < LSQ.num
  <2>1. z \in Slots /\ z[2] \in 0..LSQ_size - 1 /\ (z \in new => z[2] = LSQ.tail)
    BY <1>4, <1>6, <1>9
  <2>2. z \notin new => InRing(LSQ, LSQ_size, z[2]) BY <1>7, <1>9 DEF LiveIn
  <2> QED BY <1>3, <2>1, <2>2 DEF LPlace, InRing
<1>10. ASSUME NEW z \in LiveIn(r, l), ~in_LSQ(z)
      PROVE  /\ RPlace(r, z) = RPlace(RUU, z) /\ RPlace(RUU, z) \in Nat
             /\ z \in new => RPlace(RUU, z) = RUU.num
             /\ z \notin new => RPlace(RUU, z) < RUU.num
  <2>1. z \in Slots /\ z[2] \in 0..RUU_size - 1 /\ (z \in new => z[2] = RUU.tail)
    BY <1>4, <1>6, <1>10
  <2>2. z \notin new => InRing(RUU, RUU_size, z[2]) BY <1>7, <1>10 DEF LiveIn
  <2> QED BY <1>2, <2>1, <2>2 DEF RPlace, InRing
<1> QED BY <1>2, <1>3, <1>7, <1>8, <1>9, <1>10 DEF Grown

\* What a new instruction makes of the speculative path.
LEMMA SteadyDispatched ==
  ASSUME Inv, NEW mem \in BOOLEAN, NEW r, NEW l, NEW new, CanGrow(mem, r, l, new),
         NEW live, live = LiveIn(RUU, LSQ),
         NEW wrong \in BOOLEAN, wrong => ~spec_mode,
         NEW stn2,
         \A z \in live : /\ stn2[z].spec_mode = st[z].spec_mode
                         /\ stn2[z].ea_comp = st[z].ea_comp
                         /\ Pending(stn2[z]) <=> Pending(st[z]),
         \A z \in new : /\ stn2[z].spec_mode = spec_mode
                        /\ in_LSQ(z) => ~Pending(stn2[z])
                        /\ ~in_LSQ(z) => /\ Pending(stn2[z]) <=> wrong
                                         /\ stn2[z].ea_comp <=> mem
  PROVE  Steady(stn2, r, l, live \cup new, spec_mode \/ wrong)
<1> DEFINE all == live \cup new
           x == R(RUU.tail)
           A == Accesses(st, live)
           B == SpecAccesses(st, live)
           w == Cardinality(B)
           A2 == Accesses(stn2, all)
           B2 == SpecAccesses(stn2, all)
<1>1. /\ Ring(RUU, RUU_size) /\ RUU_size \in Nat \ {0} /\ spec_mode \in BOOLEAN
      /\ Steady(st, RUU, LSQ, live, spec_mode)
  BY InvIs
<1>2. /\ IsFiniteSet(A) /\ IsFiniteSet(B) /\ w \in Nat /\ LSQ.num = Cardinality(A)
  BY <1>1, CountsAre DEF Steady
<1>3. /\ RUU.num \in Nat /\ LSQ.num \in Nat
      /\ l.num = (IF mem THEN LSQ.num + 1 ELSE LSQ.num)
      /\ new \cap live = {}
      /\ \A z \in all :
            IF in_LSQ(z)
            THEN /\ LPlace(l, z) = LPlace(LSQ, z) /\ LPlace(LSQ, z) \in Nat
                 /\ z \in new => LPlace(LSQ, z) = LSQ.num
                 /\ z \notin new => LPlace(LSQ, z) < LSQ.num
            ELSE /\ RPlace(r, z) = RPlace(RUU, z) /\ RPlace(RUU, z) \in Nat
                 /\ z \in new => RPlace(RUU, z) = RUU.num
                 /\ z \notin new => RPlace(RUU, z) < RUU.num
  <2>1. Grown(mem, r, l, new) BY GrownIs
  <2> QED BY <2>1 DEF Grown
<1>4. /\ x \in new /\ ~in_LSQ(x) /\ \A z \in new : ~in_LSQ(z) => z = x
  BY DEF CanGrow, R, L, in_LSQ
<1> HIDE DEF all, x, A, B, w, A2, B2
<1>5. A2 = (IF mem THEN A \cup {x} ELSE A) /\ x \notin A
  <2>1. ASSUME NEW z PROVE z \in A2 <=> z \in A \/ (mem /\ z = x)
    <3>1. CASE z \in live BY <1>3, <1>4, <3>1 DEF A2, A, Accesses, all
    <3>2. CASE z \in new BY <1>3, <1>4, <3>2 DEF A2, A, Accesses, all
    <3>3. CASE z \notin all BY <1>4, <3>3 DEF A2, A, Accesses, all
    <3> QED BY <3>1, <3>2, <3>3 DEF all
  <2>2. x \notin A BY <1>3, <1>4 DEF A, Accesses
  <2> QED BY <2>1, <2>2
<1>6. B2 = (IF mem /\ spec_mode THEN B \cup {x} ELSE B) /\ x \notin B
  <2>1. ASSUME NEW z PROVE z \in B2 <=> z \in B \/ (mem /\ spec_mode /\ z = x)
    <3>1. CASE z \in A
      <4>1. z \in live /\ z # x BY <1>3, <1>4, <3>1 DEF A, Accesses
      <4>2. z \in A2 BY <1>5, <3>1
      <4> QED BY <3>1, <4>1, <4>2 DEF B2, B, SpecAccesses, A2, A
    <3>2. CASE z = x
      <4>1. z \notin B BY <1>5, <3>2 DEF B, SpecAccesses, A
      <4>2. z \in A2 <=> mem BY <1>5, <3>2
      <4> QED BY <1>4, <3>2, <4>1, <4>2 DEF B2, SpecAccesses, A2
    <3>3. CASE z \notin A /\ z # x
      <4>1. z \notin A2 BY <1>5, <3>3
      <4> QED BY <3>3, <4>1 DEF B2, B, SpecAccesses, A2, A
    <3> QED BY <3>1, <3>2, <3>3
  <2>2. x \notin B BY <1>5 DEF B, SpecAccesses, A
  <2> QED BY <2>1, <2>2
<1>7. l.num = Cardinality(A2)
  <2>1. Cardinality(A \cup {x}) = Cardinality(A) + 1 BY <1>2, <1>5, FS_AddElement
  <2> QED BY <1>2, <1>3, <1>5, <2>1
<1>8. Cardinality(B2) = IF mem /\ spec_mode THEN w + 1 ELSE w
  <2>1. Cardinality(B \cup {x}) = Cardinality(B) + 1 BY <1>2, <1>6, FS_AddElement
  <2> QED BY <1>6, <2>1 DEF w
<1>9. ~spec_mode => w = 0
  <2> SUFFICES ASSUME ~spec_mode PROVE w = 0 OBVIOUS
  <2>1. \A z \in live : ~st[z].spec_mode BY <1>1 DEF Steady
  <2>2. B = {} BY <2>1 DEF B, SpecAccesses, Accesses
  <2> QED BY <2>2, FS_EmptySet DEF w
<1>10. ASSUME NEW z \in all, in_LSQ(z)
       PROVE  stn2[z].spec_mode <=> LPlace(l, z) >= l.num - Cardinality(B2)
  <2> DEFINE p == LPlace(LSQ, z)
  <2>1. /\ LPlace(l, z) = p /\ p \in Nat /\ (z \in new => p = LSQ.num)
        /\ (z \notin new => p < LSQ.num)
    BY <1>3, <1>10
  <2>2. z \in live => (stn2[z].spec_mode <=> p >= LSQ.num - w)
    BY <1>1, <1>10 DEF Steady, w, B
  <2>3. z \in new => mem /\ (stn2[z].spec_mode <=> spec_mode)
    BY <1>10 DEF CanGrow, R, in_LSQ
  <2>4. z \in live \/ z \in new BY DEF all
  <2>5. z \in live => z \notin new BY <1>3
  <2> HIDE DEF p
  <2>6. CASE z \in new
    <3>1. CASE spec_mode
      <4>1. LSQ.num >= l.num - Cardinality(B2) BY <1>2, <1>3, <1>8, <2>3, <2>6, <3>1
      <4> QED BY <2>1, <2>3, <2>6, <3>1, <4>1
    <3>2. CASE ~spec_mode BY <1>3, <1>8, <1>9, <2>1, <2>3, <2>6, <3>2
    <3> QED BY <3>1, <3>2
  <2>7. CASE z \in live
    <3>1. CASE spec_mode BY <1>2, <1>3, <1>8, <2>1, <2>2, <2>7, <3>1
    <3>2. CASE ~spec_mode BY <1>3, <1>8, <1>9, <2>1, <2>2, <2>5, <2>7, <3>2
    <3> QED BY <3>1, <3>2
  <2> QED BY <2>4, <2>6, <2>7
<1>11. ASSUME ~(spec_mode \/ wrong)
       PROVE  \A z \in all : ~stn2[z].spec_mode /\ ~Pending(stn2[z])
  <2> SUFFICES ASSUME NEW z \in all PROVE ~stn2[z].spec_mode /\ ~Pending(stn2[z]) OBVIOUS
  <2>1. CASE z \in live BY <1>1, <1>11, <2>1 DEF Steady
  <2>2. CASE z \in new BY <1>11, <2>2
  <2> QED BY <2>1, <2>2 DEF all
<1>12. ASSUME spec_mode \/ wrong PROVE \E b \in all : Branch(stn2, r, all, b)
  <2>1. CASE spec_mode
    <3>1. PICK b \in live : Branch(st, RUU, live, b) BY <1>1, <2>1 DEF Steady
    <3>2. b \in all /\ b \notin new /\ ~in_LSQ(b) /\ Pending(stn2[b])
      BY <1>3, <3>1 DEF Branch, all
    <3>3. ASSUME NEW z \in all, ~in_LSQ(z)
          PROVE  /\ stn2[z].spec_mode <=> RPlace(r, z) > RPlace(r, b)
                 /\ Pending(stn2[z]) => z = b
      <4>1. /\ RPlace(r, z) = RPlace(RUU, z) /\ RPlace(RUU, z) \in Nat
            /\ RPlace(r, b) = RPlace(RUU, b) /\ RPlace(RUU, b) \in Nat
            /\ RPlace(RUU, b) < RUU.num
            /\ z \in new => RPlace(RUU, z) = RUU.num
        BY <1>3, <3>2, <3>3
      <4>2. CASE z \in live BY <3>1, <3>3, <4>1, <4>2 DEF Branch
      <4>3. CASE z \in new
        <5>1. stn2[z].spec_mode /\ ~Pending(stn2[z]) BY <2>1, <3>3, <4>3
        <5>2. RPlace(r, z) > RPlace(r, b) BY <1>3, <4>1, <4>3
        <5> QED BY <5>1, <5>2
      <4> QED BY <4>2, <4>3 DEF all
    <3>4. Branch(stn2, r, all, b) BY <3>2, <3>3 DEF Branch
    <3> QED BY <3>2, <3>4
  <2>2. CASE ~spec_mode
    <3>1. x \in all /\ Pending(stn2[x]) BY <1>4, <1>12, <2>2 DEF all
    <3>2. ASSUME NEW z \in all, ~in_LSQ(z)
          PROVE  /\ stn2[z].spec_mode <=> RPlace(r, z) > RPlace(r, x)
                 /\ Pending(stn2[z]) => z = x
      <4>1. /\ RPlace(r, z) = RPlace(RUU, z) /\ RPlace(RUU, z) \in Nat
            /\ z \notin new => RPlace(RUU, z) < RUU.num
            /\ RPlace(r, x) = RPlace(RUU, x) /\ RPlace(RUU, x) = RUU.num
        BY <1>3, <1>4, <3>1, <3>2
      <4>2. CASE z \in live
        <5>1. ~st[z].spec_mode /\ ~Pending(st[z]) BY <1>1, <2>2, <4>2 DEF Steady
        <5>2. z \notin new BY <1>3, <4>2
        <5>3. ~(RPlace(r, z) > RPlace(r, x)) BY <1>3, <4>1, <5>2
        <5> QED BY <4>2, <5>1, <5>3
      <4>3. CASE z \in new
        <5>1. z = x /\ ~stn2[z].spec_mode BY <1>4, <2>2, <3>2, <4>3
        <5>2. ~(RPlace(r, z) > RPlace(r, x)) BY <1>3, <4>1, <5>1
        <5> QED BY <5>1, <5>2
      <4> QED BY <4>2, <4>3 DEF all
    <3>3. Branch(stn2, r, all, x) BY <1>4, <3>1, <3>2 DEF Branch
    <3> QED BY <3>1, <3>3
  <2> QED BY <1>1, <2>1, <2>2
<1> QED BY <1>7, <1>10, <1>11, <1>12 DEF Steady, all, A2, B2
\* Where the new instruction is, and that the others are left to themselves.
Joined(npc) ==
    LET x == R(RUU.tail)
    IN  /\ x \in Slots /\ ~in_LSQ(x)
        /\ st'[x].PC = Head(fetch_data).PC /\ st'[x].next_PC = npc
        /\ st'[x].spec_mode = spec_mode
        /\ \A z \in Slots : ~in_LSQ(z) /\ z # x => Same(st, st', z)
\* ruu_dispatch() of anything but a no-operation.
LEMMA DispatchedStep ==
  ASSUME Inv, CanDispatch, NEW i, i = Arch!Instruction(Head(fetch_data).PC), i.op # "nop",
         NEW npc, NEW addr, Dispatch(i, npc, addr), UNCHANGED <<fixed, work, event_queue>>
  PROVE  Inv' /\ Joined(npc)
<1> DEFINE f == Head(fetch_data)
           redirect == MisFetch(i, f, npc)
           wrong == ~spec_mode /\ f.pred_PC # npc /\ ~redirect
           mem == i.op \in Memory
           x == R(RUU.tail)
           y == L(LSQ.tail)
           F == Fill(f.PC, i, npc, addr, wrong)
           D == Entered([st |-> F, cv |-> create_vector, scv |-> spec_create_vector], i)
           S0 == [st |-> D.st, queue |-> ready_queue, panic |-> panic]
           S1 == IF OPERANDS_READY(D.st[x]) THEN readyq_enqueue(S0, x) ELSE S0
           S2 == IF i.op = "store" /\ OPERANDS_READY(D.st[y]) THEN readyq_enqueue(S1, y) ELSE S1
           live == LiveIn(RUU, LSQ)
           new == Taking(i)
<1>1. /\ st' = S2.st /\ ready_queue' = S2.queue
      /\ panic' = (IF i.op = "trap" /\ spec_mode THEN "drained and speculative" ELSE S2.panic)
      /\ create_vector' = D.cv /\ spec_create_vector' = D.scv
      /\ RUU' = Advance(RUU, RUU_size)
      /\ LSQ' = (IF mem THEN Advance(LSQ, LSQ_size) ELSE LSQ)
      /\ inst_seq' = inst_seq + (IF mem THEN 2 ELSE 1)
      /\ spec_mode' = (spec_mode \/ wrong)
      /\ fetch_data' = <<>> \/ fetch_data' = Tail(fetch_data)
  BY DEF Dispatch, Redirect
<1>2. /\ FixedOk /\ inst_seq \in Nat /\ panic = "none" /\ Fetched(fetch_data)
      /\ live \in SUBSET Slots /\ spec_mode \in BOOLEAN /\ Typed(st)
      /\ Good(st, live, ready_queue, work, event_queue, create_vector, spec_create_vector)
      /\ Holders(st, live)
  BY InvIs DEF Good
<1>3. /\ RUU.num < RUU_size /\ LSQ.num < LSQ_size /\ fetch_data # <<>>
      /\ i.op = "trap" => RUU.num = 0
  BY DEF CanDispatch
<1>4. i.op = "trap" => ~spec_mode BY <1>3, NotDrained DEF Inv
<1>5. wrong \in BOOLEAN /\ mem \in BOOLEAN /\ (wrong => ~spec_mode) OBVIOUS
<1>6. Enters(i) BY <1>2, InstructionIs
<1>7. CanGrow(mem, RUU', LSQ', new) BY <1>1, <1>3, <1>5 DEF CanGrow, Taking
<1> HIDE DEF mem, x, y, live, redirect, wrong
<1>8. Grown(mem, RUU', LSQ', new)
  <2> HIDE DEF new
  <2> QED BY ONLY <1>7, GrownIs
<1>9. new \subseteq Slots \ live BY <1>8 DEF Grown, live
<1>10. CanEnterAll(live, ready_queue, work, event_queue, create_vector, spec_create_vector, i,
                   wrong, f.PC, npc, addr, F, D, S2)
  <2>1. /\ F = Fill(f.PC, i, npc, addr, wrong)
        /\ D = Entered([st |-> F, cv |-> create_vector, scv |-> spec_create_vector], i)
    OBVIOUS
  <2>2. /\ S0 = [st |-> D.st, queue |-> ready_queue, panic |-> panic]
        /\ S1 = IF OPERANDS_READY(D.st[R(RUU.tail)]) THEN readyq_enqueue(S0, R(RUU.tail)) ELSE S0
        /\ S2 = IF i.op = "store" /\ OPERANDS_READY(D.st[L(LSQ.tail)])
                THEN readyq_enqueue(S1, L(LSQ.tail)) ELSE S1
    BY DEF x, y
  <2> HIDE DEF F, D, S0, S1, S2
  <2> QED BY ONLY <1>2, <1>5, <1>6, <1>9, <2>1, <2>2 DEF CanEnterAll, new
<1>11. /\ \A z \in Slots \ new : F[z] = st[z]
       /\ \A z \in new :
             /\ F[z].spec_mode = spec_mode /\ ~F[z].completed
             /\ F[z].PC = f.PC /\ F[z].next_PC = npc
             /\ in_LSQ(z) => ~F[z].recover_inst /\ ~F[z].ea_comp
             /\ ~in_LSQ(z) => F[z].recover_inst = wrong /\ (F[z].ea_comp <=> mem)
  <2> DEFINE pc == f.PC
  <2>1. F = Fill(pc, i, npc, addr, wrong) OBVIOUS
  <2> HIDE DEF F, f, pc
  <2>2. /\ \A z \in Slots \ new : F[z] = st[z]
        /\ \A z \in new :
              /\ F[z].spec_mode = spec_mode /\ ~F[z].completed
              /\ F[z].PC = pc /\ F[z].next_PC = npc
              /\ in_LSQ(z) => ~F[z].recover_inst /\ ~F[z].ea_comp
              /\ ~in_LSQ(z) => F[z].recover_inst = wrong /\ (F[z].ea_comp <=> mem)
    BY <1>2, <1>5, <1>6, <1>9, <2>1, FilledIs DEF mem
  <2> HIDE DEF new
  <2> QED BY ONLY <2>2 DEF pc
<1> HIDE DEF F, D, S0, S1, S2, f
<1>12. InFlight(live, work, event_queue, i, F, D, S2) BY ONLY <1>10, DispatchedIs
<1>13. /\ Good(S2.st, live \cup new, S2.queue, work, event_queue, D.cv, D.scv)
       /\ S2.panic = panic
       /\ \A z \in Slots : /\ S2.st[z].spec_mode = F[z].spec_mode
                           /\ S2.st[z].ea_comp = F[z].ea_comp
                           /\ S2.st[z].completed = F[z].completed
                           /\ S2.st[z].recover_inst = F[z].recover_inst
                           /\ Same(F, S2.st, z)
  BY <1>12 DEF InFlight
<1>a. new = IF i.op \in Memory THEN {R(RUU.tail), L(LSQ.tail)} ELSE {R(RUU.tail)}
  BY DEF Taking
<1> HIDE DEF new
<1>14. \A z \in live : /\ S2.st[z].spec_mode = st[z].spec_mode
                       /\ S2.st[z].ea_comp = st[z].ea_comp
                       /\ Pending(S2.st[z]) <=> Pending(st[z])
  BY <1>2, <1>9, <1>11, <1>13 DEF Pending
<1>15. \A z \in new : /\ S2.st[z].spec_mode = spec_mode
                      /\ in_LSQ(z) => ~Pending(S2.st[z])
                      /\ ~in_LSQ(z) => /\ Pending(S2.st[z]) <=> wrong
                                       /\ S2.st[z].ea_comp <=> mem
  BY <1>5, <1>9, <1>11, <1>13 DEF Pending
<1>16. Steady(S2.st, RUU', LSQ', live \cup new, spec_mode \/ wrong)
  BY <1>5, <1>7, <1>14, <1>15, SteadyDispatched DEF live
<1>17. /\ Ring(RUU', RUU_size) /\ Ring(LSQ', LSQ_size) /\ LiveIn(RUU', LSQ') = live \cup new
  BY <1>8 DEF Grown, live
<1>18. Works(st', RUU', LSQ', ready_queue', work', event_queue', create_vector',
             spec_create_vector', spec_mode')
  <2>1. spec_mode' \in BOOLEAN /\ spec_mode' = (spec_mode \/ wrong) BY <1>1
  <2> QED BY <1>1, <1>13, <1>16, <1>17, <2>1 DEF Works
<1>19. panic' = "none" BY <1>1, <1>2, <1>4, <1>13
<1>20. inst_seq' \in Nat
  <2>1. inst_seq' = inst_seq + 1 \/ inst_seq' = inst_seq + 2 BY <1>1
  <2> QED BY ONLY <1>2, <2>1
<1>21. Fetched(fetch_data') BY <1>1, <1>2, <1>3, FetchedAre
<1>22. Joined(npc)
  <2>1. /\ R(RUU.tail) \in new /\ ~in_LSQ(R(RUU.tail))
        /\ \A z \in Slots : ~in_LSQ(z) /\ z # R(RUU.tail) => z \notin new
    BY <1>a DEF R, L, in_LSQ
  <2>2. st' = S2.st /\ f = Head(fetch_data) BY <1>1 DEF f
  <2> QED BY ONLY <1>9, <1>11, <1>13, <2>1, <2>2 DEF Joined, Same
<1> QED BY <1>2, <1>18, <1>19, <1>20, <1>21, <1>22, InvNext

\* ruu_dispatch() as a step.
LEMMA DispatchStep ==
  ASSUME Inv, ruu_dispatch PROVE Inv'
<1> DEFINE f == Head(fetch_data)
           i == Arch!Instruction(f.PC)
<1>1. CanDispatch /\ UNCHANGED <<fixed, work, event_queue>> BY DEF ruu_dispatch
<1>2. CASE i.op = "nop"
  <2> DEFINE npc == Arch!Following(f.PC)
             wrong == ~spec_mode /\ f.pred_PC # npc /\ ~MisFetch(i, f, npc)
  <2>1. Dispatch(i, npc, 0) BY <1>2 DEF ruu_dispatch
  <2>2. /\ UNCHANGED <<st, RUU, LSQ, ready_queue, rename, inst_seq>>
        /\ panic' = (IF wrong THEN "no station for a mis-predicted NOP" ELSE panic)
        /\ spec_mode' = (spec_mode \/ wrong)
        /\ fetch_data' = <<>> \/ fetch_data' = Tail(fetch_data)
    BY <1>2, <2>1 DEF Dispatch, Redirect
  <2>3. Fetched(fetch_data) /\ fetch_data # <<>> /\ spec_mode \in BOOLEAN
    BY <1>1, InvIs DEF CanDispatch
  <2>4. f.pred_PC = npc BY <1>2, <2>3, FetchedAre
  <2>5. ~wrong BY <2>4
  <2>6. UNCHANGED <<panic, spec_mode>> BY <2>2, <2>3, <2>5
  <2>7. Fetched(fetch_data') BY <2>2, <2>3, FetchedAre
  <2> HIDE DEF f, i, npc, wrong
  <2> QED BY <1>1, <2>2, <2>6, <2>7, Idle
<1>3. CASE i.op # "nop"
  <2>1. PICK npc \in i.next, addr \in i.addrs : Dispatch(i, npc, addr)
    BY <1>3 DEF ruu_dispatch
  <2>2. i = Arch!Instruction(Head(fetch_data).PC) OBVIOUS
  <2> HIDE DEF i
  <2> QED BY <1>1, <1>3, <2>1, <2>2, DispatchedStep
<1> QED BY <1>2, <1>3
-----------------------------------------------------------------------------
(* The theorem *)

\* The invariant holds in the state that ruu_init() and its companions leave.
LEMMA InitInv ==
  ASSUME Init PROVE Inv
<1> DEFINE live == LiveIn(RUU, LSQ)
<1>1. FixedOk BY DEF Init, FixedOk
<1>2. RUU_size \in Nat \ {0} /\ LSQ_size \in Nat \ {0} BY <1>1, OptionsAre
<1>3. /\ st = [x \in Slots |-> Blank]
      /\ RUU = [head |-> 0, tail |-> 0, num |-> 0] /\ LSQ = RUU
      /\ ready_queue = <<>> /\ work = <<>> /\ event_queue = <<>>
      /\ create_vector = [r \in Registers |-> NoCreator]
      /\ spec_create_vector = [r \in Registers |-> Unset]
      /\ spec_mode = FALSE /\ inst_seq = 0 /\ fetch_data = <<>> /\ panic = "none"
  BY DEF Init
<1>4. Ring(RUU, RUU_size) /\ Ring(LSQ, LSQ_size)
  <2>1. (0 + 0) % RUU_size = 0 /\ (0 + 0) % LSQ_size = 0 BY <1>2
  <2> QED BY <1>2, <1>3, <2>1 DEF Ring
<1>5. live = {}
  <2> SUFFICES ASSUME NEW x \in live PROVE FALSE OBVIOUS
  <2>1. x \in Slots /\ (IF in_LSQ(x) THEN Place(x[2], 0, LSQ_size) < 0
                        ELSE Place(x[2], 0, RUU_size) < 0)
    BY <1>3 DEF LiveIn, InRing
  <2>2. CASE in_LSQ(x)
    <3>1. x[2] \in 0..LSQ_size - 1 /\ 0 \in 0..LSQ_size - 1 BY <1>2, <2>1, <2>2, SlotIs
    <3>2. Place(x[2], 0, LSQ_size) \in 0..LSQ_size - 1 BY <1>2, <3>1, Places
    <3> QED BY <2>1, <2>2, <3>2
  <2>3. CASE ~in_LSQ(x)
    <3>1. x[2] \in 0..RUU_size - 1 /\ 0 \in 0..RUU_size - 1 BY <1>2, <2>1, <2>3, SlotIs
    <3>2. Place(x[2], 0, RUU_size) \in 0..RUU_size - 1 BY <1>2, <3>1, Places
    <3> QED BY <2>1, <2>3, <3>2
  <2> QED BY <2>2, <2>3
<1>6. StationType(Blank)
  <2>1. <<NA, NA>> \in [1..2 -> Registers \cup {NA}] OBVIOUS
  <2>2. /\ DOMAIN <<<<>>, <<>>>> = 1..2
        /\ \A j \in 1..2 : <<<<>>, <<>>>>[j] = <<>>
    OBVIOUS
  <2>3. <<>> \in Seq(Links) OBVIOUS
  <2>4. /\ Blank.tag = 0 /\ Blank.seq = 0 /\ Blank.queued = FALSE /\ Blank.issued = FALSE
        /\ Blank.completed = FALSE /\ Blank.ea_comp = FALSE /\ Blank.recover_inst = FALSE
        /\ Blank.spec_mode = FALSE /\ Blank.idep_ready = [k \in 0..2 |-> FALSE]
        /\ Blank.onames = <<NA, NA>> /\ Blank.odep_list = <<<<>>, <<>>>>
    BY DEF Blank
  <2>5. /\ DOMAIN Blank.idep_ready = 0..2
        /\ \A k \in 0..2 : Blank.idep_ready[k] \in BOOLEAN
    BY <2>4
  <2>6. /\ DOMAIN Blank.odep_list = 1..2
        /\ \A j \in 1..2 : Blank.odep_list[j] \in Seq(Links)
    BY <2>2, <2>3, <2>4
  <2>7. Blank.onames \in [1..2 -> Registers \cup {NA}] BY <2>1, <2>4
  <2>8. 0 \in Nat OBVIOUS
  <2> QED BY ONLY <2>4, <2>5, <2>6, <2>7, <2>8 DEF StationType
<1>7. \A x \in Slots : st[x] = Blank BY <1>3
<1>8. \A x \in Slots, j \in 1..2 : st[x].odep_list[j] = <<>> BY <1>7 DEF Blank
<1>9. AllLinks(st) = [w \in {} |-> 0]
  <2>1. DOMAIN AllLinks(st) = {}
    <3> SUFFICES ASSUME NEW w \in Slots \X (1..2) \X Nat,
                        w[3] \in DOMAIN st[w[1]].odep_list[w[2]]
                 PROVE  FALSE
      BY DEF AllLinks
    <3>1. st[w[1]].odep_list[w[2]] = <<>> BY <1>8
    <3> QED BY <3>1
  <2> QED BY <2>1 DEF AllLinks
<1>10. DOMAIN AllLinks(st) = {} BY <1>9
<1> DEFINE none == <<>>
<1>11. DOMAIN none = {} /\ none \in Seq(Nodes) /\ none \in Seq(Events) OBVIOUS
<1> HIDE DEF none, live
<1>12. Sound(st, live, AllLinks(st), none, none, none)
  <2>1. Typed(st) BY <1>3, <1>6, <1>7 DEF Typed
  <2>2. Progress(st, live) BY <1>5 DEF Progress
  <2>3. Wires(st, live, AllLinks(st)) BY <1>10 DEF Wires, Refers
  <2>4. NodeList(st, live, none) /\ EventList(st, live, none) /\ Apart(st, none, none)
    BY <1>11 DEF NodeList, EventList, Apart, Refers, Once
  <2> QED BY <2>1, <2>2, <2>3, <2>4 DEF Sound
<1>13. Holders(st, live) BY <1>8 DEF Holders
<1>14. Creators(st, live, create_vector, spec_create_vector) BY <1>3 DEF Creators
<1>15. StoresWriteNothing(st, live) BY <1>5 DEF StoresWriteNothing
<1>16. Good(st, live, ready_queue, work, event_queue, create_vector, spec_create_vector)
  <2>1. live \in SUBSET Slots BY <1>5
  <2> QED BY <1>3, <1>12, <1>13, <1>14, <1>15, <2>1 DEF Good, none
<1>17. Steady(st, RUU, LSQ, live, spec_mode)
  <2>1. Accesses(st, live) = {} BY <1>5 DEF Accesses
  <2>2. LSQ.num = 0 BY <1>3
  <2> QED BY <1>3, <1>5, <2>1, <2>2, FS_EmptySet DEF Steady
<1>18. Core BY <1>3, <1>4, <1>16, <1>17 DEF Core, Works, live
<1>19. Fetched(fetch_data) BY <1>3, <1>11 DEF Fetched, none
<1> QED BY <1>1, <1>3, <1>18, <1>19 DEF Inv

\* Every step preserves the invariant: one lemma for each of its actions.
LEMMA InvStep ==
  ASSUME Inv, [Next]_vars PROVE Inv'
<1>1. CASE UNCHANGED vars
  <2>1. UNCHANGED <<fixed, st, RUU, LSQ, ready_queue, work, event_queue, rename, spec_mode,
                    inst_seq, panic, fetch_data>>
    BY <1>1 DEF vars, queues, front
  <2> QED BY <2>1, Idle DEF Inv
<1>2. ASSUME Next PROVE Inv'
  <2>1. CASE ruu_commit BY <2>1, CommitStep
  <2>2. CASE \/ commit_end \/ ruu_release_fu \/ writeback_end \/ issue_end \/ dispatch_end
             \/ ruu_fetch
    BY <2>2, PassiveSteps
  <2>3. CASE ruu_writeback BY <2>3, WritebackStep
  <2>4. CASE stale_event \/ stale_node BY <2>4, StaleSteps
  <2>5. CASE lsq_refresh BY <2>5, RefreshStep
  <2>6. CASE issue_store BY <2>6, StoreStep
  <2>7. CASE issue_unit \/ issue_without_unit BY <2>7, IssueSteps
  <2>8. CASE put_back BY <2>8, PutBackStep
  <2>9. CASE ruu_dispatch BY <2>9, DispatchStep
  <2>10. CASE exit BY <2>10, ExitStep
  <2>11. CASE fetch_miss \/ fetch_end BY <2>11, CycleSteps
  <2> QED BY <1>2, <2>1, <2>2, <2>3, <2>4, <2>5, <2>6, <2>7, <2>8, <2>9, <2>10, <2>11 DEF Next
<1> QED BY <1>1, <1>2

\* In a state of the invariant no panic is pending and the queues are in step.
LEMMA InvPanics ==
  ASSUME Inv PROVE NeverPanics
<1>1. /\ Ring(RUU, RUU_size) /\ Ring(LSQ, LSQ_size) /\ RUU_size \in Nat \ {0}
      /\ panic = "none" /\ Steady(st, RUU, LSQ, LiveIn(RUU, LSQ), spec_mode)
  BY InvIs
<1>2. LSQ.num <= RUU.num BY <1>1, CountsAre DEF Steady
<1> QED BY <1>1, <1>2 DEF NeverPanics, Ring

\* No panic of the out-of-order core is ever reached: not "inst completed and !ready,
\* !issued, or completed", nor "node is already queued", "RUU out of sync with LSQ" or any
\* other.
\* RUU and LSQ are rings whose counts agree with their ends, and LSQ never holds more than RUU.
\* For every program, prediction, size of the queues, set of units and latency.
THEOREM NothingPanics == Spec => []NeverPanics
<1>1. Init => Inv BY InitInv
<1>2. Inv /\ [Next]_vars => Inv' BY InvStep
<1>3. Inv => NeverPanics BY InvPanics
<1> QED BY <1>1, <1>2, <1>3, PTL DEF Spec
-----------------------------------------------------------------------------
(* The path of the program *)

\* Past of IsaSpec, for a program that is fixed.
PastOf(P) ==
    CHOOSE f : f = [pc \in DOMAIN P |-> IF P[pc].op # "nop" \/ pc + 1 \notin DOMAIN P THEN pc
                                        ELSE f[pc + 1]]

\* There is such a function, although its definition is recursive.
LEMMA PastIs ==
  ASSUME NEW P, NEW m \in Nat, DOMAIN P = 1..m
  PROVE  \A pc \in DOMAIN P :
            PastOf(P)[pc] = IF P[pc].op # "nop" \/ pc + 1 \notin DOMAIN P THEN pc
                            ELSE PastOf(P)[pc + 1]
<1> DEFINE Stop(pc) == P[pc].op # "nop" \/ pc + 1 \notin DOMAIN P
           From(pc) == {q \in DOMAIN P : pc <= q /\ Stop(q)}
           First(S) == CHOOSE q \in S : \A r \in S : q <= r
           g == [pc \in DOMAIN P |-> First(From(pc))]
           Body(f) == [pc \in DOMAIN P |-> IF Stop(pc) THEN pc ELSE f[pc + 1]]
<1>1. ASSUME NEW pc \in DOMAIN P, Stop(pc) PROVE g[pc] = pc
  <2>1. pc \in From(pc) /\ \A r \in From(pc) : pc <= r BY <1>1
  <2>2. From(pc) \subseteq Int OBVIOUS
  <2> HIDE DEF From
  <2>3. First(From(pc)) \in From(pc) /\ \A r \in From(pc) : First(From(pc)) <= r BY <2>1
  <2> HIDE DEF First
  <2>4. First(From(pc)) = pc BY <2>1, <2>2, <2>3
  <2> QED BY <2>4
<1>2. ASSUME NEW pc \in DOMAIN P, ~Stop(pc) PROVE g[pc] = g[pc + 1]
  <2>1. pc + 1 \in DOMAIN P BY <1>2
  <2>2. From(pc) = From(pc + 1)
    <3> HIDE DEF Stop
    <3> QED BY <1>2
  <2> HIDE DEF From, First
  <2> QED BY <2>1, <2>2
<1>3. g = Body(g)
  <2> HIDE DEF Stop, From, First
  <2>1. ASSUME NEW pc \in DOMAIN P PROVE g[pc] = IF Stop(pc) THEN pc ELSE g[pc + 1]
    BY <1>1, <1>2
  <2>2. g = [pc \in DOMAIN P |-> g[pc]] OBVIOUS
  <2> HIDE DEF g
  <2> QED BY <2>1, <2>2
<1>4. PastOf(P) = CHOOSE f : f = Body(f) BY DEF PastOf
<1> HIDE DEF g
<1>5. PastOf(P) = Body(PastOf(P))
  <2> HIDE DEF Body
  <2> QED BY <1>3, <1>4
<1> QED BY <1>5

\* The instruction that comes next where at is.
LEMMA PastIsArch == Arch!Past = PastOf(program)
BY DEF Arch!Past, PastOf

\* A program has an entry, and is left by no way but exit().
LEMMA ProgramIs ==
  ASSUME FixedOk
  PROVE  /\ \E m \in Nat \ {0} : DOMAIN program = 1..m
         /\ Bogus \notin DOMAIN program /\ Bogus + 1 \notin DOMAIN program
         /\ \A pc \in DOMAIN program :
               program[pc].op # "exit" => program[pc].next \subseteq DOMAIN program
<1>1. PICK s \in Simulations : program = s.program BY DEF FixedOk
<1>2. /\ program \in Seq(Range(program)) /\ program # <<>>
      /\ {Bogus, Bogus + 1} \cap DOMAIN program = {}
      /\ \A pc \in DOMAIN program :
            program[pc].op # "exit" => program[pc].next \subseteq DOMAIN program
  BY <1>1, RuuAssumption
<1>3. Len(program) \in Nat \ {0} /\ DOMAIN program = 1..Len(program) BY <1>2
<1> QED BY <1>2, <1>3

\* b is the next instruction after at.
Leads(a, b) == a \in DOMAIN program /\ b = PastOf(program)[a]
\* Going on at b gets to the same instruction as going on at a, if b is in the program at all.
SameNext(a, b) ==
    b = Bogus \/ (a \in DOMAIN program /\ b \in DOMAIN program
                  /\ PastOf(program)[a] = PastOf(program)[b])

\* Going on at a no-operation is going on behind it; any other instruction is next itself.
LEMMA GoingOn ==
  ASSUME FixedOk, NEW pc, NEW i, i = Arch!Instruction(pc)
  PROVE  /\ i.op = "nop" => \A a : SameNext(a, pc) => SameNext(a, Arch!Following(pc))
         /\ i.op # "nop" => /\ pc \in DOMAIN program /\ program[pc] = i /\ pc # Bogus
                            /\ PastOf(program)[pc] = pc
                            /\ \A a : SameNext(a, pc) => Leads(a, pc)
<1>1. PICK m \in Nat : DOMAIN program = 1..m BY ProgramIs
<1>2. Bogus \notin DOMAIN program /\ Bogus + 1 \notin DOMAIN program BY ProgramIs
<1>3. \A a \in DOMAIN program :
         PastOf(program)[a] = IF program[a].op # "nop" \/ a + 1 \notin DOMAIN program THEN a
                              ELSE PastOf(program)[a + 1]
  BY <1>1, PastIs
<1>4. CASE i.op = "nop"
  <2>1. ASSUME NEW a, SameNext(a, pc) PROVE SameNext(a, Arch!Following(pc))
    <3>1. CASE pc = Bogus BY <1>2, <3>1 DEF SameNext, Arch!Following
    <3>2. CASE pc # Bogus
      <4>1. a \in DOMAIN program /\ pc \in DOMAIN program
            /\ PastOf(program)[a] = PastOf(program)[pc]
        BY <2>1, <3>2 DEF SameNext
      <4>2. program[pc].op = "nop" BY <1>4, <4>1 DEF Arch!Instruction
      <4>3. CASE pc + 1 \in DOMAIN program
        BY <1>3, <4>1, <4>2, <4>3 DEF SameNext, Arch!Following
      <4>4. CASE pc + 1 \notin DOMAIN program BY <4>4 DEF SameNext, Arch!Following
      <4> QED BY <4>3, <4>4
    <3> QED BY <3>1, <3>2
  <2> QED BY <1>4, <2>1
<1>5. CASE i.op # "nop"
  <2>1. pc \in DOMAIN program /\ program[pc] = i BY <1>5 DEF Arch!Instruction
  <2>2. pc # Bogus /\ PastOf(program)[pc] = pc BY <1>2, <1>3, <1>5, <2>1
  <2> QED BY <1>5, <2>1, <2>2 DEF SameNext, Leads
<1> QED BY <1>4, <1>5

\* What is in RUU r.
Flight(r) == {z \in Slots : ~in_LSQ(z) /\ InRing(r, RUU_size, z[2])}
\* An instruction of the program that went where it may go.
OfProgram(s) ==
    /\ s.PC \in DOMAIN program /\ program[s.PC].op \notin {"nop", "exit"}
    /\ s.next_PC \in program[s.PC].next
\* All that is younger than z is on the wrong path.
Youngest(stn, r, z) == \A w \in Flight(r) : RPlace(r, w) > RPlace(r, z) => stn[w].spec_mode
\* From at, the last retired, over what is in RUU and not on the wrong path, to the target.
Follows(stn, r, at, target) ==
    /\ r.num = 0 => SameNext(at, target)
    /\ \A z \in Flight(r) : ~stn[z].spec_mode =>
          /\ OfProgram(stn[z])
          /\ RPlace(r, z) = 0 => Leads(at, stn[z].PC)
          /\ \A w \in Flight(r) :
                RPlace(r, z) = RPlace(r, w) + 1 => Leads(stn[w].next_PC, stn[z].PC)
          /\ Youngest(stn, r, z) => SameNext(stn[z].next_PC, target)

\* A slot of RUU.
LEMMA FlightIs ==
  ASSUME NEW r, NEW z \in Flight(r)
  PROVE  z \in Slots /\ ~in_LSQ(z) /\ z[2] \in 0..RUU_size - 1 /\ z = R(z[2])
         /\ InRing(r, RUU_size, z[2]) /\ RPlace(r, z) < r.num
BY SlotIs DEF Flight, InRing, RPlace

\* The path stays the same as long as the instructions do.
LEMMA FollowsSame ==
  ASSUME NEW stn, NEW r, NEW at, NEW target, Follows(stn, r, at, target),
         NEW stn2, \A z \in Flight(r) : Same(stn, stn2, z)
  PROVE  Follows(stn2, r, at, target)
<1>1. \A z \in Flight(r) : Youngest(stn2, r, z) => Youngest(stn, r, z) BY DEF Youngest, Same
<1>2. \A z \in Flight(r) : OfProgram(stn[z]) => OfProgram(stn2[z]) BY DEF OfProgram, Same
<1>3. ASSUME NEW z \in Flight(r), ~stn2[z].spec_mode
      PROVE  /\ OfProgram(stn2[z])
             /\ RPlace(r, z) = 0 => Leads(at, stn2[z].PC)
             /\ \A w \in Flight(r) :
                   RPlace(r, z) = RPlace(r, w) + 1 => Leads(stn2[w].next_PC, stn2[z].PC)
             /\ Youngest(stn2, r, z) => SameNext(stn2[z].next_PC, target)
  <2>1. Same(stn, stn2, z) /\ ~stn[z].spec_mode BY <1>3 DEF Same
  <2> QED BY <1>1, <1>2, <2>1 DEF Follows, Same
<1> QED BY <1>3 DEF Follows

\* The target may be replaced by what comes behind it.
LEMMA FollowsOn ==
  ASSUME NEW stn, NEW r, NEW at, NEW target, Follows(stn, r, at, target),
         NEW target2, \A a : SameNext(a, target) => SameNext(a, target2)
  PROVE  Follows(stn, r, at, target2)
BY DEF Follows

\* The oldest retires.
CanRetireHead(stn, r, at, target, x, stn2, r2) ==
    /\ RUU_size \in Nat \ {0} /\ Ring(r, RUU_size) /\ r.num > 0 /\ r2 = Retreat(r, RUU_size)
    /\ x = R(r.head) /\ ~stn[x].spec_mode
    /\ \A z \in Flight(r) : Same(stn, stn2, z)
    /\ Follows(stn, r, at, target)
HeadRetired(stn, at, target, x, stn2, r2) ==
    /\ OfProgram(stn[x]) /\ Leads(at, stn[x].PC)
    /\ Follows(stn2, r2, stn[x].next_PC, target)
\* The program has gone on by one instruction, and the path is the same from there.
LEMMA RetiresHead ==
  ASSUME NEW stn, NEW r, NEW at, NEW target, NEW x, NEW stn2, NEW r2,
         CanRetireHead(stn, r, at, target, x, stn2, r2)
  PROVE  HeadRetired(stn, at, target, x, stn2, r2)
<1>1. /\ RUU_size \in Nat \ {0} /\ Ring(r, RUU_size) /\ r.num > 0 /\ r2 = Retreat(r, RUU_size)
      /\ x = R(r.head) /\ ~stn[x].spec_mode
      /\ \A z \in Flight(r) : Same(stn, stn2, z)
      /\ Follows(stn, r, at, target)
  BY DEF CanRetireHead
<1>2. /\ r2.num = r.num - 1 /\ r.head \in 0..RUU_size - 1 /\ r.num \in 1..RUU_size
      /\ InRing(r, RUU_size, r.head) /\ Place(r.head, r.head, RUU_size) = 0
      /\ \A i \in 0..RUU_size - 1 :
            /\ InRing(r2, RUU_size, i) <=> InRing(r, RUU_size, i) /\ i # r.head
            /\ i # r.head => Place(i, r2.head, RUU_size) = Place(i, r.head, RUU_size) - 1
            /\ Place(i, r.head, RUU_size) \in Nat
  <2>1. RUU_size \in Nat \ {0} /\ Ring(r, RUU_size) /\ r.num > 0 /\ r2 = Retreat(r, RUU_size)
    BY <1>1
  <2> QED BY ONLY <2>1, HeadGone
<1>3. x \in Flight(r) /\ x[2] = r.head /\ RPlace(r, x) = 0
  BY <1>1, <1>2, SlotIs DEF Flight, RPlace
<1>4. /\ \A z \in Flight(r) : RPlace(r, z) \in Nat /\ (z # x => z \in Flight(r2))
      /\ \A z \in Flight(r2) : z \in Flight(r) /\ z # x /\ RPlace(r2, z) = RPlace(r, z) - 1
  <2>1. ASSUME NEW z \in Flight(r) PROVE RPlace(r, z) \in Nat /\ (z # x => z \in Flight(r2))
    <3>1. z[2] \in 0..RUU_size - 1 /\ z = R(z[2]) BY FlightIs
    <3> QED BY <1>1, <1>2, <3>1 DEF Flight, RPlace
  <2>2. ASSUME NEW z \in Flight(r2)
        PROVE  z \in Flight(r) /\ z # x /\ RPlace(r2, z) = RPlace(r, z) - 1
    <3>1. z[2] \in 0..RUU_size - 1 /\ z = R(z[2]) BY FlightIs
    <3>2. z[2] # r.head BY <1>2, <3>1 DEF Flight
    <3> QED BY <1>2, <1>3, <3>1, <3>2 DEF Flight, RPlace
  <2> QED BY <2>1, <2>2
<1>5. OfProgram(stn[x]) /\ Leads(at, stn[x].PC) BY <1>1, <1>3 DEF Follows
<1>6. r2.num = 0 => SameNext(stn[x].next_PC, target)
  <2>1. ASSUME r2.num = 0 PROVE Youngest(stn, r, x)
    <3>1. \A w \in Flight(r) : RPlace(r, w) < r.num BY FlightIs
    <3>2. r.num = 1 BY <1>2, <2>1
    <3> QED BY <1>3, <1>4, <3>1, <3>2 DEF Youngest
  <2> QED BY <1>1, <1>3, <2>1 DEF Follows
<1>7. ASSUME NEW z \in Flight(r2), ~stn2[z].spec_mode
      PROVE  /\ OfProgram(stn2[z])
             /\ RPlace(r2, z) = 0 => Leads(stn[x].next_PC, stn2[z].PC)
             /\ \A w \in Flight(r2) :
                   RPlace(r2, z) = RPlace(r2, w) + 1 => Leads(stn2[w].next_PC, stn2[z].PC)
             /\ Youngest(stn2, r2, z) => SameNext(stn2[z].next_PC, target)
  <2>1. /\ z \in Flight(r) /\ z # x /\ RPlace(r2, z) = RPlace(r, z) - 1 /\ RPlace(r, z) \in Nat
        /\ Same(stn, stn2, z)
    BY <1>1, <1>4
  <2>2. /\ OfProgram(stn[z])
        /\ \A w \in Flight(r) :
              RPlace(r, z) = RPlace(r, w) + 1 => Leads(stn[w].next_PC, stn[z].PC)
        /\ Youngest(stn, r, z) => SameNext(stn[z].next_PC, target)
    BY <1>1, <1>7, <2>1 DEF Follows, Same
  <2>3. OfProgram(stn2[z]) BY <2>1, <2>2 DEF OfProgram, Same
  <2>4. RPlace(r2, z) = 0 => Leads(stn[x].next_PC, stn2[z].PC)
    BY <1>3, <2>1, <2>2 DEF Same
  <2>5. ASSUME NEW w \in Flight(r2), RPlace(r2, z) = RPlace(r2, w) + 1
        PROVE  Leads(stn2[w].next_PC, stn2[z].PC)
    <3>1. /\ w \in Flight(r) /\ RPlace(r2, w) = RPlace(r, w) - 1 /\ RPlace(r, w) \in Nat
          /\ Same(stn, stn2, w)
      BY <1>1, <1>4
    <3>2. RPlace(r, z) = RPlace(r, w) + 1 BY <2>1, <2>5, <3>1
    <3> QED BY <2>1, <2>2, <3>1, <3>2 DEF Same
  <2>6. ASSUME Youngest(stn2, r2, z) PROVE Youngest(stn, r, z)
    <3> SUFFICES ASSUME NEW w \in Flight(r), RPlace(r, w) > RPlace(r, z) PROVE stn[w].spec_mode
      BY DEF Youngest
    <3>1. w # x BY <1>3, <2>1
    <3>2. w \in Flight(r2) /\ RPlace(r2, w) = RPlace(r, w) - 1 /\ RPlace(r, w) \in Nat
          /\ Same(stn, stn2, w)
      BY <1>1, <1>4, <3>1
    <3>3. RPlace(r2, w) > RPlace(r2, z) BY <2>1, <3>2
    <3> QED BY <2>6, <3>2, <3>3 DEF Youngest, Same
  <2> QED BY <2>1, <2>2, <2>3, <2>4, <2>5, <2>6 DEF Same
<1>8. Follows(stn2, r2, stn[x].next_PC, target) BY <1>6, <1>7 DEF Follows
<1> QED BY <1>5, <1>8 DEF HeadRetired

\* The wrong path is squashed: what is left keeps its place.
CanSquash(stn, r, stn2, r2) ==
    /\ r2.head = r.head /\ r2.num # 0 /\ Flight(r2) \subseteq Flight(r)
    /\ \A z \in Flight(r) : IF stn[z].spec_mode THEN z \notin Flight(r2)
                            ELSE z \in Flight(r2) /\ Same(stn, stn2, z)
\* What is left is the whole path so far.
LEMMA FollowsSquashed ==
  ASSUME NEW stn, NEW r, NEW at, NEW target, Follows(stn, r, at, target),
         NEW stn2, NEW r2, CanSquash(stn, r, stn2, r2)
  PROVE  Follows(stn2, r2, at, target)
<1>1. \A z : RPlace(r2, z) = RPlace(r, z) BY DEF RPlace, CanSquash
<1>2. ASSUME NEW z \in Flight(r2) PROVE z \in Flight(r) /\ ~stn[z].spec_mode /\ Same(stn, stn2, z)
  BY DEF CanSquash
<1>3. ASSUME NEW z \in Flight(r2), Youngest(stn2, r2, z) PROVE Youngest(stn, r, z)
  BY <1>1, <1>3 DEF CanSquash, Youngest, Same
<1>4. \A z \in Flight(r) : OfProgram(stn[z]) /\ Same(stn, stn2, z) => OfProgram(stn2[z])
  BY DEF OfProgram, Same
<1>5. ASSUME NEW z \in Flight(r2)
      PROVE  /\ OfProgram(stn2[z])
             /\ RPlace(r2, z) = 0 => Leads(at, stn2[z].PC)
             /\ \A w \in Flight(r2) :
                   RPlace(r2, z) = RPlace(r2, w) + 1 => Leads(stn2[w].next_PC, stn2[z].PC)
             /\ Youngest(stn2, r2, z) => SameNext(stn2[z].next_PC, target)
  <2>1. z \in Flight(r) /\ ~stn[z].spec_mode /\ Same(stn, stn2, z) BY <1>2
  <2>2. /\ OfProgram(stn[z])
        /\ RPlace(r, z) = 0 => Leads(at, stn[z].PC)
        /\ \A w \in Flight(r) :
              RPlace(r, z) = RPlace(r, w) + 1 => Leads(stn[w].next_PC, stn[z].PC)
        /\ Youngest(stn, r, z) => SameNext(stn[z].next_PC, target)
    BY <2>1 DEF Follows
  <2> QED BY <1>1, <1>2, <1>3, <1>4, <2>1, <2>2 DEF Same
<1> QED BY <1>5 DEF Follows, CanSquash

\* An instruction joins at the tail: on the path it is the next, or else it is on the wrong one.
CanJoin(stn, r, at, target, mode, x, stn2, r2, target2) ==
    /\ RUU_size \in Nat \ {0} /\ Ring(r, RUU_size) /\ r.num < RUU_size
    /\ r2 = Advance(r, RUU_size) /\ x = R(r.tail) /\ Follows(stn, r, at, target)
    /\ \A z \in Flight(r) : Same(stn, stn2, z)
    /\ mode \in BOOLEAN /\ stn2[x].spec_mode = mode
    /\ mode => target2 = target
    /\ ~mode => /\ \A z \in Flight(r) : ~stn[z].spec_mode
                /\ OfProgram(stn2[x]) /\ SameNext(stn2[x].next_PC, target2)
                /\ \A a : SameNext(a, target) => Leads(a, stn2[x].PC)
\* The path is longer by one instruction.
LEMMA FollowsJoined ==
  ASSUME NEW stn, NEW r, NEW at, NEW target, NEW mode, NEW x, NEW stn2, NEW r2, NEW target2,
         CanJoin(stn, r, at, target, mode, x, stn2, r2, target2)
  PROVE  Follows(stn2, r2, at, target2)
<1>1. /\ RUU_size \in Nat \ {0} /\ Ring(r, RUU_size) /\ r.num < RUU_size
      /\ r2 = Advance(r, RUU_size) /\ x = R(r.tail) /\ Follows(stn, r, at, target)
      /\ \A z \in Flight(r) : Same(stn, stn2, z)
      /\ mode \in BOOLEAN /\ stn2[x].spec_mode = mode
      /\ mode => target2 = target
      /\ ~mode => /\ \A z \in Flight(r) : ~stn[z].spec_mode
                  /\ OfProgram(stn2[x]) /\ SameNext(stn2[x].next_PC, target2)
                  /\ \A a : SameNext(a, target) => Leads(a, stn2[x].PC)
  BY DEF CanJoin
<1>2. /\ r2.num = r.num + 1 /\ r.num \in Nat /\ r.tail \in 0..RUU_size - 1
      /\ Place(r.tail, r.head, RUU_size) = r.num /\ ~InRing(r, RUU_size, r.tail)
      /\ \A i \in 0..RUU_size - 1 :
            /\ Place(i, r2.head, RUU_size) = Place(i, r.head, RUU_size)
            /\ Place(i, r.head, RUU_size) \in Nat
            /\ InRing(r2, RUU_size, i) <=> InRing(r, RUU_size, i) \/ i = r.tail
  <2>1. /\ RUU_size \in Nat \ {0} /\ Ring(r, RUU_size) /\ r.num < RUU_size
        /\ r2 = Advance(r, RUU_size)
    BY <1>1
  <2> QED BY ONLY <2>1, TailJoins
<1>3. /\ x \in Slots /\ x[2] = r.tail /\ RPlace(r, x) = r.num /\ x \notin Flight(r)
  BY <1>1, <1>2, SlotIs DEF Flight, RPlace
<1>4. /\ \A z \in Flight(r) : z \in Flight(r2) /\ z # x
      /\ \A z \in Flight(r2) : /\ RPlace(r2, z) = RPlace(r, z) /\ RPlace(r, z) \in Nat
                               /\ z # x => z \in Flight(r)
      /\ \A z \in Flight(r) : RPlace(r, z) < r.num
  <2>1. ASSUME NEW z \in Flight(r) PROVE z \in Flight(r2) /\ z # x /\ RPlace(r, z) < r.num
    <3>1. z \in Slots /\ z[2] \in 0..RUU_size - 1 /\ RPlace(r, z) < r.num BY FlightIs
    <3> QED BY <1>2, <1>3, <3>1 DEF Flight
  <2>2. ASSUME NEW z \in Flight(r2)
        PROVE  /\ RPlace(r2, z) = RPlace(r, z) /\ RPlace(r, z) \in Nat
               /\ z # x => z \in Flight(r)
    <3>1. z[2] \in 0..RUU_size - 1 /\ z = R(z[2]) /\ InRing(r2, RUU_size, z[2]) BY FlightIs
    <3>2. z # x => z[2] # r.tail BY <1>1, <3>1
    <3> QED BY <1>2, <3>1, <3>2 DEF Flight, RPlace
  <2> QED BY <2>1, <2>2
<1>5. x \in Flight(r2) BY <1>1, <1>2, <1>3, SlotIs DEF Flight
<1>6. ASSUME ~mode
      PROVE  /\ OfProgram(stn2[x])
             /\ RPlace(r2, x) = 0 => Leads(at, stn2[x].PC)
             /\ \A w \in Flight(r2) :
                   RPlace(r2, x) = RPlace(r2, w) + 1 => Leads(stn2[w].next_PC, stn2[x].PC)
             /\ SameNext(stn2[x].next_PC, target2)
  <2>1. RPlace(r2, x) = 0 => Leads(at, stn2[x].PC)
    BY <1>1, <1>3, <1>4, <1>5, <1>6 DEF Follows
  <2>2. ASSUME NEW w \in Flight(r2), RPlace(r2, x) = RPlace(r2, w) + 1
        PROVE  Leads(stn2[w].next_PC, stn2[x].PC)
    <3>1. RPlace(r, w) \in Nat /\ r.num = RPlace(r, w) + 1 BY <1>3, <1>4, <1>5, <2>2
    <3>2. w # x BY <1>3, <3>1
    <3>3. w \in Flight(r) /\ Same(stn, stn2, w) /\ ~stn[w].spec_mode BY <1>1, <1>4, <1>6, <3>2
    <3>4. Youngest(stn, r, w)
      <4> SUFFICES ASSUME NEW u \in Flight(r), RPlace(r, u) > RPlace(r, w) PROVE FALSE
        BY DEF Youngest
      <4>1. RPlace(r, u) \in Nat /\ RPlace(r, u) < r.num BY <1>4
      <4> QED BY <3>1, <4>1
    <3>5. SameNext(stn[w].next_PC, target) BY <1>1, <3>3, <3>4 DEF Follows
    <3> QED BY <1>1, <1>6, <3>3, <3>5 DEF Same
  <2> QED BY <1>1, <1>6, <2>1, <2>2
<1>7. ASSUME NEW z \in Flight(r2), z # x, ~stn2[z].spec_mode
      PROVE  /\ OfProgram(stn2[z])
             /\ RPlace(r2, z) = 0 => Leads(at, stn2[z].PC)
             /\ \A w \in Flight(r2) :
                   RPlace(r2, z) = RPlace(r2, w) + 1 => Leads(stn2[w].next_PC, stn2[z].PC)
             /\ Youngest(stn2, r2, z) => SameNext(stn2[z].next_PC, target2)
  <2>1. z \in Flight(r) /\ Same(stn, stn2, z) /\ RPlace(r2, z) = RPlace(r, z)
        /\ RPlace(r, z) \in Nat /\ RPlace(r, z) < r.num
    BY <1>1, <1>4, <1>7
  <2>2. /\ OfProgram(stn[z])
        /\ RPlace(r, z) = 0 => Leads(at, stn[z].PC)
        /\ \A w \in Flight(r) :
              RPlace(r, z) = RPlace(r, w) + 1 => Leads(stn[w].next_PC, stn[z].PC)
        /\ Youngest(stn, r, z) => SameNext(stn[z].next_PC, target)
    BY <1>1, <1>7, <2>1 DEF Follows, Same
  <2>3. OfProgram(stn2[z]) BY <2>1, <2>2 DEF OfProgram, Same
  <2>4. ASSUME NEW w \in Flight(r2), RPlace(r2, z) = RPlace(r2, w) + 1
        PROVE  Leads(stn2[w].next_PC, stn2[z].PC)
    <3>1. w # x BY <1>2, <1>3, <1>4, <2>1, <2>4
    <3>2. w \in Flight(r) /\ Same(stn, stn2, w) /\ RPlace(r2, w) = RPlace(r, w)
      BY <1>1, <1>4, <3>1
    <3> QED BY <2>1, <2>2, <2>4, <3>2 DEF Same
  <2>5. ASSUME Youngest(stn2, r2, z) PROVE mode /\ Youngest(stn, r, z)
    <3>1. RPlace(r2, x) > RPlace(r2, z) BY <1>2, <1>3, <1>4, <1>5, <2>1
    <3>2. mode BY <1>1, <1>5, <2>5, <3>1 DEF Youngest
    <3>3. \A w \in Flight(r) : w \in Flight(r2) /\ Same(stn, stn2, w) /\ RPlace(r2, w) = RPlace(r, w)
      BY <1>1, <1>4
    <3>4. Youngest(stn, r, z) BY <2>1, <2>5, <3>3 DEF Youngest, Same
    <3> QED BY <3>2, <3>4
  <2> QED BY <1>1, <2>1, <2>2, <2>3, <2>4, <2>5 DEF Same
<1>8. r2.num # 0 BY <1>2
<1>9. ~stn2[x].spec_mode => ~mode BY <1>1
<1> QED BY ONLY <1>6, <1>7, <1>8, <1>9 DEF Follows
-----------------------------------------------------------------------------
(* The front end *)

\* Each entry of the fetch queue was fetched where the one before it was predicted to go.
Chained(q, pred) ==
    \A k \in DOMAIN q : q[k].pred_PC = IF k = Len(q) THEN pred ELSE q[k + 1].PC
\* Where the next instruction to be dispatched is.
NextOut(q, pred) == IF q = <<>> THEN pred ELSE Head(q).PC
\* Where the path goes on behind the youngest instruction that is on it.
Target(mode, q, pred, recover) == IF mode THEN recover ELSE NextOut(q, pred)

\* The ends of the fetch queue.
LEMMA ChainedAre ==
  ASSUME NEW q, \E T : q \in Seq(T), NEW pred, Chained(q, pred)
  PROVE  /\ q # <<>> => Chained(Tail(q), pred) /\ Head(q).pred_PC = NextOut(Tail(q), pred)
         /\ \A e : e.PC = pred => /\ Chained(Append(q, e), e.pred_PC)
                                  /\ NextOut(Append(q, e), e.pred_PC) = NextOut(q, pred)
         /\ \A p : Chained(<<>>, p) /\ NextOut(<<>>, p) = p
<1>1. PICK T : q \in Seq(T) OBVIOUS
<1>5. /\ Len(q) \in DOMAIN q => q[Len(q)].pred_PC = pred
      /\ \A k \in DOMAIN q : k # Len(q) => q[k].pred_PC = q[k + 1].PC
  BY Zenon DEF Chained
<1>2. ASSUME q # <<>>
      PROVE  Chained(Tail(q), pred) /\ Head(q).pred_PC = NextOut(Tail(q), pred)
  <2>1. /\ Tail(q) \in Seq(T) /\ Len(Tail(q)) = Len(q) - 1 /\ Len(q) \in Nat \ {0}
        /\ Head(q) = q[1] /\ DOMAIN q = 1..Len(q) /\ DOMAIN Tail(q) = 1..Len(q) - 1
        /\ \A k \in 1..Len(q) - 1 : Tail(q)[k] = q[k + 1]
    BY <1>1, <1>2
  <2>2. ASSUME NEW k \in 1..Len(q) - 1
        PROVE  Tail(q)[k].pred_PC = IF k = Len(q) - 1 THEN pred ELSE Tail(q)[k + 1].PC
    <3> DEFINE j == k + 1
    <3>1. j \in 1..Len(q) /\ Tail(q)[k] = q[j] /\ k \in 1..Len(q) - 1 BY <2>1
    <3>2. CASE k = Len(q) - 1
      <4>1. j = Len(q) BY <2>1, <3>2
      <4> HIDE DEF j
      <4>2. q[Len(q)].pred_PC = pred BY <1>5, <2>1
      <4> QED BY <3>1, <3>2, <4>1, <4>2
    <3>3. CASE k # Len(q) - 1
      <4>1. j # Len(q) /\ j \in 1..Len(q) - 1
        <5>1. Len(q) \in Nat /\ k \in 1..Len(q) - 1 /\ k # Len(q) - 1 BY <2>1, <3>3
        <5> QED BY ONLY <5>1
      <4>2. Tail(q)[j] = q[j + 1] BY <2>1, <4>1
      <4>3. q[j].pred_PC = q[j + 1].PC
        <5> HIDE DEF j
        <5> QED BY <1>5, <2>1, <3>1, <4>1
      <4>4. Tail(q)[k].pred_PC = Tail(q)[j].PC
        <5> HIDE DEF j
        <5> QED BY <3>1, <4>2, <4>3
      <4> QED BY <3>3, <4>4
    <3> QED BY <3>2, <3>3
  <2>3. Chained(Tail(q), pred) BY <2>1, <2>2 DEF Chained
  <2>4. q[1].pred_PC = IF 1 = Len(q) THEN pred ELSE q[2].PC BY <1>5, <2>1
  <2>5. CASE Len(q) = 1
    <3>1. Tail(q) = <<>> BY <2>1, <2>5
    <3> QED BY <2>1, <2>3, <2>4, <2>5, <3>1 DEF NextOut
  <2>6. CASE Len(q) # 1
    <3>1. Tail(q) # <<>> /\ Head(Tail(q)) = Tail(q)[1] BY <2>1, <2>6
    <3>2. Tail(q)[1] = q[2] BY <2>1, <2>6
    <3> QED BY <2>1, <2>3, <2>4, <2>6, <3>1, <3>2 DEF NextOut
  <2> QED BY <2>5, <2>6
<1>3. ASSUME NEW e, e.PC = pred
      PROVE  /\ Chained(Append(q, e), e.pred_PC)
             /\ NextOut(Append(q, e), e.pred_PC) = NextOut(q, pred)
  <2> DEFINE p == Append(q, e)
  <2>1. q \in Seq(T \cup {e}) BY <1>1
  <2>2. /\ p \in Seq(T \cup {e}) /\ DOMAIN p = 1..Len(q) + 1 /\ Len(p) = Len(q) + 1
        /\ Len(q) \in Nat /\ DOMAIN q = 1..Len(q) /\ p # <<>> /\ Head(p) = p[1]
        /\ \A k \in 1..Len(q) : p[k] = q[k]
        /\ p[Len(q) + 1] = e
    BY <2>1
  <2> HIDE DEF p
  <2>3. ASSUME NEW k \in 1..Len(q) + 1
        PROVE  p[k].pred_PC = IF k = Len(q) + 1 THEN e.pred_PC ELSE p[k + 1].PC
    <3> DEFINE Ok(j) == p[j].pred_PC = IF j = Len(q) + 1 THEN e.pred_PC ELSE p[j + 1].PC
    <3>1. Ok(Len(q) + 1) BY <2>2
    <3>2. ASSUME Len(q) \in 1..Len(q) PROVE Ok(Len(q))
      <4>1. q[Len(q)].pred_PC = pred BY <1>5, <2>2, <3>2
      <4>2. Len(q) # Len(q) + 1 /\ p[Len(q)] = q[Len(q)]
        <5>1. Len(q) \in Nat BY <2>2
        <5>2. Len(q) # Len(q) + 1 BY ONLY <5>1
        <5>3. p[Len(q)] = q[Len(q)] BY <2>2, <3>2
        <5> QED BY <5>2, <5>3
      <4>3. p[Len(q)].pred_PC = p[Len(q) + 1].PC
        <5>1. p[Len(q) + 1] = e BY <2>2
        <5> QED BY ONLY <1>3, <4>1, <4>2, <5>1
      <4> QED BY ONLY <4>2, <4>3
    <3>3. ASSUME NEW j \in 1..Len(q), j # Len(q) PROVE Ok(j)
      <4>1. j \in Int /\ j + 1 \in 1..Len(q) /\ j # Len(q) + 1
        <5>1. Len(q) \in Nat /\ j \in 1..Len(q) /\ j # Len(q) BY <2>2, <3>3
        <5> QED BY ONLY <5>1
      <4>2. p[j + 1] = q[j + 1] /\ p[j] = q[j] BY <2>2, <4>1
      <4>3. q[j].pred_PC = q[j + 1].PC BY <1>5, <2>2, <3>3, <4>1
      <4>4. p[j].pred_PC = p[j + 1].PC BY ONLY <4>2, <4>3
      <4> QED BY ONLY <4>1, <4>4
    <3>4. k \in 1..Len(q) \/ k = Len(q) + 1 BY <2>2
    <3>5. Ok(k)
      <4> HIDE DEF Ok
      <4> QED BY <3>1, <3>2, <3>3, <3>4
    <3> QED BY <3>5
  <2>4. Chained(p, e.pred_PC) BY <2>2, <2>3 DEF Chained
  <2>5. NextOut(p, e.pred_PC) = NextOut(q, pred)
    <3>1. CASE q = <<>> BY <1>3, <2>2, <3>1 DEF NextOut
    <3>2. CASE q # <<>>
      <4>1. 1 \in 1..Len(q) /\ Head(q) = q[1] BY <1>1, <3>2
      <4> QED BY <2>2, <3>2, <4>1 DEF NextOut
    <3> QED BY <3>1, <3>2
  <2> QED BY <2>4, <2>5 DEF p
<1>4. ASSUME NEW p PROVE Chained(<<>>, p) /\ NextOut(<<>>, p) = p BY DEF Chained, NextOut
<1> QED BY <1>2, <1>3, <1>4

\* The instructions in flight, and those to come, are those of the program.
OnPath ==
    /\ retired.at \in DOMAIN program /\ DOMAIN retired = {"did", "at"}
    /\ Chained(fetch_data, fetch_pred_PC)
    /\ Follows(st, RUU, retired.at, Target(spec_mode, fetch_data, fetch_pred_PC, recover_PC))

\* What is left to show of a step that does not change the options.
LEMMA OnPathNext ==
  ASSUME UNCHANGED fixed, retired'.at \in DOMAIN program, DOMAIN retired' = {"did", "at"},
         Chained(fetch_data', fetch_pred_PC'),
         Follows(st', RUU', retired'.at,
                 Target(spec_mode', fetch_data', fetch_pred_PC', recover_PC'))
  PROVE  OnPath'
<1>1. opt' = opt /\ program' = program BY DEF fixed
<1>2. RUU_size' = RUU_size /\ LSQ_size' = LSQ_size BY <1>1 DEF RUU_size, LSQ_size
<1>3. Slots' = Slots BY <1>2 DEF Slots
<1>4. (Flight(RUU))' = Flight(RUU') BY <1>2, <1>3 DEF Flight
<1>5. \A z : (RPlace(RUU, z))' = RPlace(RUU', z) BY <1>2 DEF RPlace
<1>6. \A z : (Youngest(st, RUU, z))' <=> Youngest(st', RUU', z) BY <1>4, <1>5 DEF Youngest
<1>7. \A a, b : /\ (SameNext(a, b))' <=> SameNext(a, b)
                /\ (Leads(a, b))' <=> Leads(a, b)
  BY <1>1 DEF SameNext, Leads
<1>8. \A z : (OfProgram(st[z]))' <=> OfProgram(st'[z]) BY <1>1 DEF OfProgram
<1> DEFINE target == Target(spec_mode, fetch_data, fetch_pred_PC, recover_PC)
           target2 == Target(spec_mode', fetch_data', fetch_pred_PC', recover_PC')
<1>9. target' = target2 BY DEF Target, NextOut
<1> HIDE DEF target, target2
<1>10. (Follows(st, RUU, retired.at, target))' <=> Follows(st', RUU', retired'.at, target2)
  BY <1>4, <1>5, <1>6, <1>7, <1>8, <1>9 DEF Follows
<1>11. Follows(st', RUU', retired'.at, target2) BY DEF target2
<1> QED BY <1>1, <1>10, <1>11 DEF OnPath, Chained, target
-----------------------------------------------------------------------------
(* The steps and the path *)

\* Steps that leave the front end and the window to themselves.
LEMMA PathKept ==
  ASSUME OnPath,
         UNCHANGED <<fixed, RUU, spec_mode, recover_PC, fetch_data, fetch_pred_PC, retired>>,
         \A z \in Slots : Same(st, st', z)
  PROVE  OnPath'
<1> DEFINE target == Target(spec_mode, fetch_data, fetch_pred_PC, recover_PC)
<1>1. \A z \in Flight(RUU) : Same(st, st', z) BY DEF Flight
<1>2. Follows(st', RUU, retired.at, target)
  <2>1. Follows(st, RUU, retired.at, target) BY DEF OnPath
  <2> HIDE DEF target
  <2> QED BY ONLY <1>1, <2>1, FollowsSame
<1> QED BY <1>2, OnPathNext DEF OnPath

\* All steps but those of the commit, the fetch, a write-back and a dispatch.
LEMMA QuietPath ==
  ASSUME Inv, OnPath,
         \/ commit_end \/ ruu_release_fu \/ stale_event \/ writeback_end \/ lsq_refresh
         \/ issue_store \/ issue_unit \/ issue_without_unit \/ put_back \/ stale_node \/ issue_end
         \/ exit \/ dispatch_end \/ fetch_miss \/ fetch_end
  PROVE  OnPath'
<1>1. \A z \in Slots : Same(st, st, z) BY DEF Same
<1>2. CASE \/ commit_end \/ ruu_release_fu \/ stale_event \/ writeback_end
           \/ issue_end \/ exit \/ dispatch_end
  <2>1. UNCHANGED <<fixed, st, RUU, spec_mode, recover_PC, fetch_data, fetch_pred_PC, retired>>
    BY <1>2 DEF commit_end, ruu_release_fu, stale_event, writeback_end, issue_end,
                exit, dispatch_end, front
  <2> QED BY <1>1, <2>1, PathKept
<1>3. CASE stale_node \/ fetch_miss \/ fetch_end
  <2>1. UNCHANGED <<fixed, st, RUU, spec_mode, recover_PC, fetch_data, fetch_pred_PC, retired>>
    BY <1>3 DEF stale_node, NextNode, fetch_miss, fetch_end, Cycle, front
  <2> QED BY <1>1, <2>1, PathKept
<1>4. CASE issue_store \/ issue_unit \/ issue_without_unit \/ put_back
  <2>1. UNCHANGED <<fixed, RUU, spec_mode, recover_PC, fetch_data, fetch_pred_PC, retired>>
    BY <1>4 DEF issue_store, issue_unit, issue_without_unit, put_back, NextNode, front
  <2>2. \A z \in Slots : Same(st, st', z) BY <1>4, StoreStep, IssueSteps, PutBackStep
  <2> QED BY <2>1, <2>2, PathKept
<1>5. CASE lsq_refresh
  <2>1. UNCHANGED <<fixed, RUU, spec_mode, recover_PC, fetch_data, fetch_pred_PC, retired>>
    BY <1>5 DEF lsq_refresh, front
  <2>2. \A z \in Slots : Same(st, st', z) BY <1>5, RefreshStep
  <2> QED BY <2>1, <2>2, PathKept
<1> QED BY <1>2, <1>3, <1>4, <1>5

\* What ruu_fetch() adds is further out than the next instruction to be dispatched.
LEMMA FetchPath ==
  ASSUME Inv, OnPath, ruu_fetch PROVE OnPath'
<1> DEFINE pc == fetch_pred_PC
           i == Arch!Instruction(pc)
           ctrl == i.op \in Branches /\ ~opt.perfect
<1>1. PICK pred \in IF ctrl THEN i.preds ELSE {Arch!Following(pc)} :
         fetch_data' = Append(fetch_data, [PC |-> pc, pred_PC |-> pred]) /\ fetch_pred_PC' = pred
  BY DEF ruu_fetch
<1>2. UNCHANGED <<fixed, st, RUU, spec_mode, recover_PC, retired>> BY DEF ruu_fetch
<1>3. Chained(fetch_data, fetch_pred_PC) /\ \E T : fetch_data \in Seq(T)
  BY InvIs DEF OnPath, Fetched
<1>4. /\ Chained(fetch_data', fetch_pred_PC')
      /\ NextOut(fetch_data', fetch_pred_PC') = NextOut(fetch_data, fetch_pred_PC)
  <2> DEFINE e == [PC |-> pc, pred_PC |-> pred]
  <2>1. e.PC = fetch_pred_PC /\ e.pred_PC = pred OBVIOUS
  <2>2. fetch_data' = Append(fetch_data, e) /\ fetch_pred_PC' = e.pred_PC BY <1>1
  <2> HIDE DEF e
  <2>3. /\ Chained(Append(fetch_data, e), e.pred_PC)
        /\ NextOut(Append(fetch_data, e), e.pred_PC) = NextOut(fetch_data, fetch_pred_PC)
    BY ONLY <1>3, <2>1, ChainedAre
  <2> QED BY ONLY <2>2, <2>3
<1>5. Target(spec_mode', fetch_data', fetch_pred_PC', recover_PC')
         = Target(spec_mode, fetch_data, fetch_pred_PC, recover_PC)
  BY <1>2, <1>4 DEF Target
<1>6. Follows(st', RUU', retired'.at, Target(spec_mode', fetch_data', fetch_pred_PC', recover_PC'))
  BY <1>2, <1>5 DEF OnPath
<1>7. retired'.at \in DOMAIN program /\ DOMAIN retired' = {"did", "at"} BY <1>2 DEF OnPath
<1> QED BY ONLY <1>2, <1>4, <1>6, <1>7, OnPathNext

\* ruu_commit() retires the next instruction of the program.
LEMMA CommitPath ==
  ASSUME Inv, OnPath, ruu_commit PROVE OnPath' /\ Arch!Retire
<1> DEFINE x == R(RUU.head)
           target == Target(spec_mode, fetch_data, fetch_pred_PC, recover_PC)
<1>1. /\ FixedOk /\ RUU_size \in Nat \ {0} /\ Ring(RUU, RUU_size) /\ Typed(st)
  BY InvIs
<1>2. RUU.num > 0 /\ st[x].completed BY DEF ruu_commit, CanCommit, Oldest
<1>3. x \in LiveIn(RUU, LSQ) /\ ~st[x].spec_mode BY <1>2, HeadsAre
<1>4. /\ \A z \in Slots : st'[z] = st[z] \/ st'[z] = [st[z] EXCEPT !.tag = @ + 1]
      /\ RUU' = Retreat(RUU, RUU_size)
      /\ retired' = [did |-> st[x].PC, at |-> st[x].next_PC]
  BY DEF ruu_commit, Oldest
<1>5. ASSUME NEW z \in Slots PROVE Same(st, st', z)
  <2>1. CASE st'[z] = st[z] BY <2>1 DEF Same
  <2>2. CASE st'[z] = [st[z] EXCEPT !.tag = @ + 1]
    <3>1. StationType(st[z]) BY <1>1 DEF Typed
    <3> QED BY <2>2, <3>1, Fields DEF Same, StationType
  <2> QED BY <1>4, <2>1, <2>2
<1>6. /\ retired.at \in DOMAIN program /\ Chained(fetch_data, fetch_pred_PC)
      /\ Follows(st, RUU, retired.at, target)
  BY DEF OnPath
<1>7. UNCHANGED <<fixed, fetch_data, fetch_pred_PC, spec_mode, recover_PC, stage>>
      /\ stage = "commit"
  BY DEF ruu_commit, front, In, Again
<1> HIDE DEF x, target
<1>8. CanRetireHead(st, RUU, retired.at, target, x, st', RUU')
  <2>1. \A z \in Flight(RUU) : Same(st, st', z) BY <1>5 DEF Flight
  <2> QED BY <1>1, <1>2, <1>3, <1>4, <1>6, <2>1 DEF CanRetireHead, x
<1>9. HeadRetired(st, retired.at, target, x, st', RUU') BY ONLY <1>8, RetiresHead
<1>10. /\ OfProgram(st[x]) /\ Leads(retired.at, st[x].PC)
       /\ Follows(st', RUU', st[x].next_PC, target)
  BY <1>9 DEF HeadRetired
<1>11. /\ st[x].PC \in DOMAIN program /\ program[st[x].PC].op \notin {"nop", "exit"}
       /\ st[x].next_PC \in program[st[x].PC].next
       /\ st[x].PC = Arch!Past[retired.at]
  BY <1>10, PastIsArch DEF OfProgram, Leads
<1>12. retired'.did = st[x].PC /\ retired'.at = st[x].next_PC /\ DOMAIN retired' = {"did", "at"}
  BY <1>4
<1>13. retired'.at \in DOMAIN program BY <1>1, <1>11, <1>12, ProgramIs
<1>14. OnPath'
  <2>1. target = Target(spec_mode', fetch_data', fetch_pred_PC', recover_PC')
    BY <1>7 DEF target
  <2>2. Follows(st', RUU', retired'.at,
                Target(spec_mode', fetch_data', fetch_pred_PC', recover_PC'))
    BY ONLY <1>10, <1>12, <2>1
  <2>3. Chained(fetch_data', fetch_pred_PC') BY <1>6, <1>7
  <2> QED BY ONLY <1>7, <1>12, <1>13, <2>2, <2>3, OnPathNext
<1>15. Arch!Retire BY ONLY <1>7, <1>11, <1>12 DEF Arch!Retire, fixed
<1> QED BY <1>14, <1>15

\* A write-back that recovers goes back to where the branch went.
LEMMA WritebackPath ==
  ASSUME Inv, OnPath, ruu_writeback PROVE OnPath'
<1> DEFINE x == Head(event_queue).slot
           target == Target(spec_mode, fetch_data, fetch_pred_PC, recover_PC)
<1>1. WroteResult BY WritebackStep
<1>2. /\ x \in Slots /\ st[x].recover_inst \in BOOLEAN
      /\ st[x].recover_inst => SquashedIs(x)
      /\ \A z \in LiveIn(RUU, LSQ) \ Gone : Same(st, st', z)
      /\ Gone = IF st[x].recover_inst THEN Squashed(x) ELSE {}
  BY <1>1 DEF WroteResult, Gone
<1>3. UNCHANGED <<fixed, recover_PC, retired>> BY DEF ruu_writeback
<1>4. IF st[x].recover_inst
      THEN RUU' = RecoveredRUU(x) /\ LSQ' = RecoveredLSQ(x) /\ tracer_recover
      ELSE UNCHANGED <<RUU, LSQ, spec_mode, front>>
  BY DEF ruu_writeback, RecoveredRUU, RecoveredLSQ
<1>5. x \in LiveIn(RUU, LSQ)
  <2>1. /\ event_queue # <<>> /\ RSLINK_VALID(st, Head(event_queue))
    BY DEF ruu_writeback, Due
  <2>2. /\ LiveIn(RUU, LSQ) \in SUBSET Slots
        /\ Sound(st, LiveIn(RUU, LSQ), AllLinks(st), ready_queue, work, event_queue)
    BY InvIs
  <2> QED BY ONLY <2>1, <2>2, EventTaken
<1>6. /\ retired.at \in DOMAIN program /\ DOMAIN retired = {"did", "at"}
      /\ Chained(fetch_data, fetch_pred_PC) /\ Follows(st, RUU, retired.at, target)
  BY DEF OnPath
<1>7. Flight(RUU) \subseteq LiveIn(RUU, LSQ) BY DEF Flight, LiveIn
<1> HIDE DEF x, target
<1>8. CASE st[x].recover_inst
  <2>1. /\ ~in_LSQ(x) /\ spec_mode /\ x \notin Squashed(x)
        /\ \A z \in LiveIn(RUU, LSQ) : z \in Squashed(x) <=> st[z].spec_mode
        /\ Ring(RUU', RUU_size) /\ LiveIn(RUU', LSQ') = LiveIn(RUU, LSQ) \ Squashed(x)
        /\ RUU' = RecoveredRUU(x) /\ tracer_recover /\ Gone = Squashed(x)
    BY <1>2, <1>4, <1>8 DEF SquashedIs
  <2>2. spec_mode' = FALSE /\ fetch_data' = <<>> /\ fetch_pred_PC' = recover_PC
    BY <2>1 DEF tracer_recover
  <2>3. /\ RUU_size \in Nat \ {0} /\ Ring(RUU, RUU_size) BY InvIs
  <2>4. RUU'.head = RUU.head BY <2>1, <2>3 DEF RecoveredRUU, Ring
  <2>5. \A z : z \in Flight(RUU') <=> z \in LiveIn(RUU', LSQ') /\ ~in_LSQ(z)
    BY DEF Flight, LiveIn
  <2>6. \A z : z \in Flight(RUU) <=> z \in LiveIn(RUU, LSQ) /\ ~in_LSQ(z)
    BY DEF Flight, LiveIn
  <2>7. RUU'.num # 0
    <3>1. x \in Flight(RUU') BY <1>5, <2>1, <2>5
    <3>2. x[2] \in 0..RUU_size - 1 /\ Place(x[2], RUU'.head, RUU_size) < RUU'.num
      BY <3>1, FlightIs DEF InRing
    <3>3. Place(x[2], RUU'.head, RUU_size) \in 0..RUU_size - 1
      BY <2>1, <2>3, <3>2, Places DEF Ring
    <3> QED BY <3>2, <3>3
  <2>8. CanSquash(st, RUU, st', RUU')
    <3>1. \A z \in Flight(RUU) : IF st[z].spec_mode THEN z \notin Flight(RUU')
                                 ELSE z \in Flight(RUU') /\ Same(st, st', z)
      BY <1>2, <2>1, <2>5, <2>6
    <3>2. Flight(RUU') \subseteq Flight(RUU) BY <2>1, <2>5, <2>6
    <3> QED BY ONLY <2>4, <2>7, <3>1, <3>2 DEF CanSquash
  <2>9. Follows(st', RUU', retired.at, target) BY ONLY <1>6, <2>8, FollowsSquashed
  <2>10. target = Target(spec_mode', fetch_data', fetch_pred_PC', recover_PC')
    BY <2>1, <2>2 DEF target, Target, NextOut
  <2>11. Chained(fetch_data', fetch_pred_PC') BY <2>2 DEF Chained
  <2>12. Follows(st', RUU', retired'.at,
                 Target(spec_mode', fetch_data', fetch_pred_PC', recover_PC'))
    BY ONLY <1>3, <2>9, <2>10
  <2> QED BY ONLY <1>3, <1>6, <2>11, <2>12, OnPathNext
<1>9. CASE ~st[x].recover_inst
  <2>1. UNCHANGED <<RUU, spec_mode, fetch_data, fetch_pred_PC>> BY <1>4, <1>9 DEF front
  <2>2. \A z \in Flight(RUU) : Same(st, st', z) BY <1>2, <1>7, <1>9
  <2>3. Follows(st', RUU, retired.at, target) BY ONLY <1>6, <2>2, FollowsSame
  <2>4. target = Target(spec_mode', fetch_data', fetch_pred_PC', recover_PC')
    BY <1>3, <2>1 DEF target
  <2>5. Follows(st', RUU', retired'.at,
                Target(spec_mode', fetch_data', fetch_pred_PC', recover_PC'))
    BY ONLY <1>3, <2>1, <2>3, <2>4
  <2>6. Chained(fetch_data', fetch_pred_PC') BY <1>6, <2>1
  <2> QED BY ONLY <1>3, <1>6, <2>5, <2>6, OnPathNext
<1> QED BY <1>2, <1>8, <1>9
\* However ruu_dispatch() leaves the front end, the path goes on where the instruction went.
LEMMA FrontAfter ==
  ASSUME Inv, OnPath, fetch_data # <<>>, NEW i, NEW npc, NEW addr, Dispatch(i, npc, addr)
  PROVE  /\ Chained(fetch_data', fetch_pred_PC')
         /\ Target(spec_mode', fetch_data', fetch_pred_PC', recover_PC')
              = IF spec_mode THEN recover_PC ELSE npc
<1> DEFINE f == Head(fetch_data)
           redirect == MisFetch(i, f, npc)
           wrong == ~spec_mode /\ f.pred_PC # npc /\ ~redirect
<1>1. /\ spec_mode' = (spec_mode \/ wrong)
      /\ recover_PC' = IF wrong THEN npc ELSE recover_PC
      /\ IF redirect THEN fetch_data' = <<>> /\ fetch_pred_PC' = npc
         ELSE fetch_data' = Tail(fetch_data) /\ fetch_pred_PC' = fetch_pred_PC
  BY DEF Dispatch, Redirect
<1>2. spec_mode \in BOOLEAN /\ \E T : fetch_data \in Seq(T) BY InvIs DEF Fetched
<1>3. Chained(fetch_data, fetch_pred_PC) BY DEF OnPath
<1>4. /\ Chained(Tail(fetch_data), fetch_pred_PC)
      /\ f.pred_PC = NextOut(Tail(fetch_data), fetch_pred_PC)
      /\ \A p : Chained(<<>>, p) /\ NextOut(<<>>, p) = p
  BY <1>2, <1>3, ChainedAre
<1>5. redirect \in BOOLEAN BY DEF MisFetch
<1> HIDE DEF f, redirect
<1>6. Chained(fetch_data', fetch_pred_PC')
      /\ (redirect \/ f.pred_PC = npc => NextOut(fetch_data', fetch_pred_PC') = npc)
  BY <1>1, <1>4, <1>5
<1>7. CASE spec_mode
  <2>1. spec_mode' /\ recover_PC' = recover_PC BY <1>1, <1>7
  <2> QED BY <1>6, <1>7, <2>1 DEF Target
<1>8. CASE ~spec_mode
  <2>1. CASE wrong
    <3>1. spec_mode' /\ recover_PC' = npc BY <1>1, <2>1
    <3> QED BY <1>6, <1>8, <3>1 DEF Target
  <2>2. CASE ~wrong
    <3>1. ~spec_mode' BY <1>1, <1>8, <2>2
    <3>2. redirect \/ f.pred_PC = npc BY <1>8, <2>2
    <3> QED BY <1>6, <1>8, <3>1, <3>2 DEF Target
  <2> QED BY <2>1, <2>2
<1> QED BY <1>2, <1>7, <1>8

\* What ruu_dispatch() adds is the next instruction of the program, or on the wrong path.
LEMMA DispatchPath ==
  ASSUME Inv, OnPath, ruu_dispatch PROVE OnPath'
<1> DEFINE f == Head(fetch_data)
           i == Arch!Instruction(f.PC)
           target == Target(spec_mode, fetch_data, fetch_pred_PC, recover_PC)
           target2 == Target(spec_mode', fetch_data', fetch_pred_PC', recover_PC')
<1>1. /\ CanDispatch /\ fetch_data # <<>> /\ RUU.num < RUU_size
      /\ UNCHANGED <<fixed, work, event_queue, retired>>
  BY DEF ruu_dispatch, CanDispatch
<1>2. /\ FixedOk /\ RUU_size \in Nat \ {0} /\ Ring(RUU, RUU_size) /\ spec_mode \in BOOLEAN
      /\ Fetched(fetch_data) /\ Steady(st, RUU, LSQ, LiveIn(RUU, LSQ), spec_mode)
  BY InvIs
<1>3. /\ retired.at \in DOMAIN program /\ DOMAIN retired = {"did", "at"}
      /\ Follows(st, RUU, retired.at, target)
  BY DEF OnPath
<1>4. /\ i.op = "nop" => \A a : SameNext(a, f.PC) => SameNext(a, Arch!Following(f.PC))
      /\ i.op # "nop" => /\ f.PC \in DOMAIN program /\ program[f.PC] = i
                         /\ \A a : SameNext(a, f.PC) => Leads(a, f.PC)
  BY <1>2, GoingOn
<1>5. target = IF spec_mode THEN recover_PC ELSE f.PC BY <1>1 DEF Target, NextOut
<1> HIDE DEF target, target2
<1>6. ASSUME Chained(fetch_data', fetch_pred_PC'), Follows(st', RUU', retired.at, target2)
      PROVE  OnPath'
  <2>1. Follows(st', RUU', retired'.at,
                Target(spec_mode', fetch_data', fetch_pred_PC', recover_PC'))
    BY <1>1, <1>6 DEF target2
  <2> QED BY ONLY <1>1, <1>3, <1>6, <2>1, OnPathNext
<1>7. CASE i.op = "nop"
  <2> DEFINE npc == Arch!Following(f.PC)
  <2>1. Dispatch(i, npc, 0) BY <1>7 DEF ruu_dispatch
  <2>2. st' = st /\ RUU' = RUU BY <1>7, <2>1 DEF Dispatch
  <2> HIDE DEF f, i
  <2>3. /\ Chained(fetch_data', fetch_pred_PC')
        /\ target2 = IF spec_mode THEN recover_PC ELSE npc
    BY <1>1, <2>1, FrontAfter DEF target2
  <2>4. \A a : SameNext(a, target) => SameNext(a, target2)
    BY <1>2, <1>4, <1>5, <1>7, <2>3
  <2>5. Follows(st, RUU, retired.at, target2) BY ONLY <1>3, <2>4, FollowsOn
  <2> QED BY <1>6, <2>2, <2>3, <2>5
<1>8. CASE i.op # "nop"
  <2>1. PICK npc \in i.next, addr \in i.addrs : i.op # "exit" /\ Dispatch(i, npc, addr)
    BY <1>8 DEF ruu_dispatch
  <2>2. RUU' = Advance(RUU, RUU_size) BY <1>8, <2>1 DEF Dispatch
  <2>3. Joined(npc)
    <3>1. i = Arch!Instruction(Head(fetch_data).PC) OBVIOUS
    <3> HIDE DEF i
    <3> QED BY <1>1, <1>8, <2>1, <3>1, DispatchedStep
  <2> DEFINE x == R(RUU.tail)
  <2>4. /\ x \in Slots /\ ~in_LSQ(x) /\ st'[x].PC = f.PC /\ st'[x].next_PC = npc
        /\ st'[x].spec_mode = spec_mode
        /\ \A z \in Slots : ~in_LSQ(z) /\ z # x => Same(st, st', z)
    BY <2>3 DEF Joined
  <2> HIDE DEF f, i, x
  <2>5. /\ Chained(fetch_data', fetch_pred_PC')
        /\ target2 = IF spec_mode THEN recover_PC ELSE npc
    BY <1>1, <2>1, FrontAfter DEF target2
  <2>6. npc \in DOMAIN program BY <1>2, <1>4, <1>8, <2>1, ProgramIs
  <2>7. OfProgram(st'[x]) BY <1>4, <1>8, <2>1, <2>4 DEF OfProgram
  <2>8. \A z \in Flight(RUU) : Same(st, st', z)
    <3> SUFFICES ASSUME NEW z \in Flight(RUU) PROVE Same(st, st', z) OBVIOUS
    <3>1. ~InRing(RUU, RUU_size, RUU.tail) BY <1>1, <1>2, TailJoins
    <3>2. RUU.tail \in 0..RUU_size - 1 BY <1>1, <1>2, TailJoins
    <3>3. z \in Slots /\ ~in_LSQ(z) /\ InRing(RUU, RUU_size, z[2]) BY FlightIs
    <3>4. z # x BY <3>1, <3>2, <3>3, SlotIs DEF x
    <3> QED BY <2>4, <3>3, <3>4
  <2>9. ~spec_mode => \A z \in Flight(RUU) : ~st[z].spec_mode
    BY <1>2 DEF Steady, Flight, LiveIn
  <2>10. CanJoin(st, RUU, retired.at, target, spec_mode, x, st', RUU', target2)
    <3>1. spec_mode => target2 = target BY <1>5, <2>5
    <3>2. ASSUME ~spec_mode
          PROVE  /\ SameNext(st'[x].next_PC, target2)
                 /\ \A a : SameNext(a, target) => Leads(a, st'[x].PC)
      <4>1. target2 = npc /\ target = f.PC BY <1>5, <2>5, <3>2
      <4>2. SameNext(npc, npc) BY <2>6 DEF SameNext
      <4> QED BY <1>4, <1>8, <2>4, <4>1, <4>2
    <3>3. x = R(RUU.tail) BY DEF x
    <3> QED BY ONLY <1>1, <1>2, <1>3, <2>2, <2>4, <2>7, <2>8, <2>9, <3>1, <3>2, <3>3 DEF CanJoin
  <2>11. Follows(st', RUU', retired.at, target2) BY ONLY <2>10, FollowsJoined
  <2> QED BY <1>6, <2>5, <2>11
<1> QED BY <1>7, <1>8

\* exit() is called when all that comes before it has been retired.
LEMMA ExitPath ==
  ASSUME Inv, OnPath, exit PROVE Arch!Exit
<1> DEFINE f == Head(fetch_data)
           i == Arch!Instruction(f.PC)
<1>1. CanDispatch /\ fetch_data # <<>> /\ i.op = "exit" /\ stage = "dispatch"
  BY DEF exit, CanDispatch, In
<1>2. FixedOk BY InvIs
<1>3. RUU.num = 0 BY <1>1 DEF CanDispatch
<1>4. ~spec_mode BY <1>3, NotDrained DEF Inv
<1>5. stage' = "exit" /\ UNCHANGED <<fixed, retired>> BY <1>4 DEF exit
<1>6. SameNext(retired.at, f.PC) BY <1>1, <1>3, <1>4 DEF OnPath, Follows, Target, NextOut
<1>7. program[f.PC] = i /\ Leads(retired.at, f.PC) BY <1>1, <1>2, <1>6, GoingOn
<1>8. program[Arch!Past[retired.at]].op = "exit" BY <1>1, <1>7, PastIsArch DEF Leads
<1> QED BY ONLY <1>1, <1>5, <1>8 DEF Arch!Exit, fixed

\* The stages follow one another, and the end of the program is none of them.
LEMMA StageAfter ==
  ASSUME stage \in {"commit", "release", "writeback", "dispatch", "refresh", "issue", "fetch"},
         NextStage
  PROVE  stage' # "exit"
<1> DEFINE k == CHOOSE j \in 1..7 : Stages[j] = stage
<1>1. \E j \in 1..7 : Stages[j] = stage
  <2> DEFINE Is(j) == j \in 1..7 /\ Stages[j] = stage
  <2>1. CASE opt.bugcompat
    <3>1. Is(1) \/ Is(2) \/ Is(3) \/ Is(4) \/ Is(5) \/ Is(6) \/ Is(7) BY <2>1 DEF Stages
    <3> QED BY <3>1
  <2>2. CASE ~opt.bugcompat
    <3>1. Is(1) \/ Is(2) \/ Is(3) \/ Is(4) \/ Is(5) \/ Is(6) \/ Is(7) BY <2>2 DEF Stages
    <3> QED BY <3>1
  <2> QED BY <2>1, <2>2
<1>2. k \in 1..7 BY <1>1
<1>3. stage' = Stages[(k % 7) + 1] BY DEF NextStage
<1> HIDE DEF k
<1>4. (k % 7) + 1 \in 1..7 BY <1>2
<1>5. \A j \in 1..7 : Stages[j] # "exit"
  <2> SUFFICES ASSUME NEW j \in 1..7 PROVE Stages[j] # "exit" OBVIOUS
  <2>1. j = 1 \/ j = 2 \/ j = 3 \/ j = 4 \/ j = 5 \/ j = 6 \/ j = 7 OBVIOUS
  <2> QED BY <2>1 DEF Stages
<1> QED BY <1>3, <1>4, <1>5

\* A step of the program, or one that it does not see.
Seen == <<program, retired.did, retired.at, stage = "exit">>
LEMMA StepIsSeen ==
  ASSUME Inv, OnPath, [Next]_vars
  PROVE  OnPath' /\ [Arch!Retire \/ Arch!Exit]_Seen
<1> DEFINE running == stage # "exit" /\ stage' # "exit"
<1>1. ASSUME running, UNCHANGED <<fixed, retired>> PROVE UNCHANGED Seen
  BY <1>1 DEF Seen, fixed
<1>2. CASE UNCHANGED vars
  <2>1. \A z \in Slots : Same(st, st', z) BY <1>2 DEF Same, vars
  <2>2. UNCHANGED <<fixed, RUU, spec_mode, recover_PC, fetch_data, fetch_pred_PC, retired, stage>>
    BY <1>2 DEF vars, front
  <2>3. OnPath' BY <2>1, <2>2, PathKept
  <2> QED BY <2>2, <2>3 DEF Seen, fixed
<1>3. CASE ruu_commit BY <1>3, CommitPath
<1>4. CASE exit BY <1>4, ExitPath, QuietPath
<1>5. CASE \/ commit_end \/ ruu_release_fu \/ writeback_end \/ lsq_refresh \/ issue_end
           \/ dispatch_end \/ fetch_miss \/ fetch_end
  <2>1. UNCHANGED <<fixed, retired>> /\ NextStage
        /\ stage \in {"commit", "release", "writeback", "dispatch", "refresh", "issue", "fetch"}
    BY <1>5 DEF commit_end, ruu_release_fu, writeback_end, lsq_refresh, issue_end,
                dispatch_end, fetch_miss, fetch_end, Cycle, In
  <2>2. running BY <2>1, StageAfter
  <2>3. OnPath' BY <1>5, QuietPath
  <2> HIDE DEF running
  <2> QED BY <1>1, <2>1, <2>2, <2>3
<1>6. CASE \/ stale_event \/ issue_store \/ issue_unit \/ issue_without_unit \/ put_back
           \/ stale_node
  <2>1. UNCHANGED <<fixed, retired, stage>> /\ stage \in {"writeback", "issue"}
    BY <1>6 DEF stale_event, issue_store, issue_unit, issue_without_unit, put_back, stale_node,
                Issuing, NextNode, In, Again
  <2>2. running BY <2>1
  <2>3. OnPath' BY <1>6, QuietPath
  <2> HIDE DEF running
  <2> QED BY <1>1, <2>1, <2>2, <2>3
<1>7. CASE ruu_writeback \/ ruu_dispatch \/ ruu_fetch
  <2>1. UNCHANGED <<fixed, retired, stage>> /\ stage \in {"writeback", "dispatch", "fetch"}
    <3>1. ruu_dispatch => UNCHANGED stage /\ stage = "dispatch" BY DEF ruu_dispatch, In, Again
    <3> QED BY <1>7, <3>1 DEF ruu_writeback, ruu_dispatch, ruu_fetch, In
  <2>2. running BY <2>1
  <2>3. OnPath' BY <1>7, WritebackPath, DispatchPath, FetchPath
  <2> HIDE DEF running
  <2> QED BY <1>1, <2>1, <2>2, <2>3
<1> QED BY <1>2, <1>3, <1>4, <1>5, <1>6, <1>7 DEF Next

\* The program begins at its first instruction.
LEMMA InitPath ==
  ASSUME Init PROVE OnPath /\ Arch!Init
<1>1. /\ RUU.num = 0 /\ RUU.head = 0 /\ spec_mode = FALSE /\ fetch_data = <<>>
      /\ fetch_pred_PC = 1 /\ retired = [did |-> Bogus, at |-> 1] /\ stage = "commit"
  BY DEF Init
<1>2. FixedOk /\ 1 \in DOMAIN program
  <2>1. FixedOk BY DEF Init, FixedOk
  <2>2. PICK m \in Nat \ {0} : DOMAIN program = 1..m BY <2>1, ProgramIs
  <2> QED BY <2>1, <2>2
<1>3. \A z : z \notin Flight(RUU)
  <2> SUFFICES ASSUME NEW z \in Flight(RUU) PROVE FALSE OBVIOUS
  <2>0. z[2] \in 0..RUU_size - 1 /\ InRing(RUU, RUU_size, z[2]) BY FlightIs
  <2>1. RUU_size \in Nat \ {0} BY <1>2, OptionsAre
  <2>2. z[2] \in 0..RUU_size - 1 /\ Place(z[2], 0, RUU_size) < 0 BY ONLY <1>1, <2>0 DEF InRing
  <2>3. 0 \in 0..RUU_size - 1 BY <2>1
  <2>4. Place(z[2], 0, RUU_size) \in 0..RUU_size - 1 BY ONLY <2>1, <2>2, <2>3, Places
  <2> QED BY <2>2, <2>4
<1>4. Target(spec_mode, fetch_data, fetch_pred_PC, recover_PC) = 1 BY <1>1 DEF Target, NextOut
<1>5. SameNext(1, 1) BY <1>2 DEF SameNext
<1>6. Follows(st, RUU, retired.at, Target(spec_mode, fetch_data, fetch_pred_PC, recover_PC))
  BY <1>1, <1>3, <1>4, <1>5 DEF Follows
<1>7. Chained(fetch_data, fetch_pred_PC) BY <1>1 DEF Chained
<1> QED BY <1>1, <1>2, <1>6, <1>7 DEF OnPath, Arch!Init

\* What sim-outorder commits is what the instruction set says of the program: one instruction
\* at a time, each the one that the one before it went to, none from the wrong side of a
\* branch, and exit() only after all that comes before it.  IsaSpec is implemented by Ruu, for
\* every program, prediction, latency and size of the queues.
THEOREM CommitsTheProgram == Spec => RetiresTheProgram
<1>1. Init => Inv /\ OnPath /\ Arch!Init BY InitInv, InitPath
<1>2. Inv /\ OnPath /\ [Next]_vars => Inv' /\ OnPath' /\ [Arch!Retire \/ Arch!Exit]_Seen
  BY InvStep, StepIsSeen
<1>3. Seen = <<program, retired.did, retired.at, stage = "exit">> BY DEF Seen
<1> QED BY <1>1, <1>2, <1>3, PTL DEF Spec, RetiresTheProgram, Arch!Spec, Seen
=============================================================================

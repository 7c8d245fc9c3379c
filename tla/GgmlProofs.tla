----------------------------- MODULE GgmlProofs -----------------------------
(***************************************************************************)
(* Theorems about the operators of src/tools/ref/ops.cpp and the threads   *)
(* that run them (GgmlThreads), for tensors and teams of every size.       *)
(*                                                                         *)
(* First the arithmetic the operators are built on: the shares of the      *)
(* threads are a partition of the rows or heads, and the loops decode a    *)
(* flat index into each element once.                                      *)
(*                                                                         *)
(* Then the machine: what holds in every interleaving of the threads of    *)
(* any call (MachineInv), and that a call is free of races and stays       *)
(* inside its tensors when its programs keep a discipline that can be      *)
(* read off them (DisciplinedIsSafe).                                      *)
(*                                                                         *)
(* Then three forms of calls, each of which leaves the right results:      *)
(* IsDirect, every thread computes elements from inputs alone; IsPrepared, *)
(* what is prepared before a barrier is used behind it; IsPooled, chunks   *)
(* are taken from the pool's counter.  Each form is followed by the        *)
(* operators that have it, whatever the shapes and the number of threads.  *)
(***************************************************************************)
EXTENDS GgmlSequence, GgmlThreads, FiniteSetTheorems, TLAPS

(* Each of n rows is in exactly one share, and no share has others.        *)
IsPartition(n, nth, share) ==
  /\ \A ith \in Upto(nth) : share[ith] \subseteq Upto(n)
  /\ \A ir \in Upto(n) : \E ith \in Upto(nth) : ir \in share[ith]
  /\ \A i, j \in Upto(nth) : i # j => share[i] \cap share[j] = {}

-----------------------------------------------------------------------------
(* Quotients and remainders.                                               *)

LEMMA Division ==
  ASSUME NEW x \in Nat, NEW d \in Nat \ {0}
  PROVE  x \div d \in Nat /\ (x % d) \in 0 .. d - 1 /\ x = d * (x \div d) + (x % d)
OBVIOUS

LEMMA Monotone ==
  ASSUME NEW a \in Nat, NEW b \in Nat, NEW d \in Nat, a <= b
  PROVE  d * a \in Nat /\ d * a <= d * b
OBVIOUS

LEMMA QuotientIs ==
  ASSUME NEW q \in Nat, NEW d \in Nat \ {0}, NEW r \in 0 .. d - 1
  PROVE  (d * q + r) \div d = q /\ (d * q + r) % d = r
<1> DEFINE x == d * q + r
           p == x \div d
           s == x % d
<1>1. x \in Nat
  BY Monotone
<1>2. p \in Nat /\ s \in 0 .. d - 1 /\ x = d * p + s
  BY <1>1, Division
<1>3. x = d * q + r
  OBVIOUS
<1> HIDE DEF x, p, s
<1>4. ASSUME p < q PROVE FALSE
  <2>1. d * (p + 1) <= d * q /\ d * (p + 1) = d * p + d
    BY <1>2, <1>4, Monotone
  <2> QED
    BY <1>2, <1>3, <2>1, Monotone
<1>5. ASSUME q < p PROVE FALSE
  <2>1. d * (q + 1) <= d * p /\ d * (q + 1) = d * q + d
    BY <1>2, <1>5, Monotone
  <2> QED
    BY <1>2, <1>3, <2>1, Monotone
<1>6. p = q /\ s = r
  BY <1>2, <1>3, <1>4, <1>5
<1> QED
  BY <1>6 DEF p, s, x

(* A quotient is at most q where the dividend is below d * (q + 1), and    *)
(* above it otherwise.                                                     *)
LEMMA QuotientBound ==
  ASSUME NEW x \in Nat, NEW q \in Nat, NEW d \in Nat \ {0}
  PROVE  x \div d <= q <=> x < d * (q + 1)
<1> DEFINE p == x \div d
           s == x % d
<1>1. p \in Nat /\ s \in 0 .. d - 1 /\ x = d * p + s
  BY Division
<1> HIDE DEF p, s
<1>2. CASE p <= q
  <2>1. d * (p + 1) <= d * (q + 1) /\ d * (p + 1) = d * p + d
    BY <1>1, <1>2, Monotone
  <2> QED
    BY <1>1, <1>2, <2>1, Monotone DEF p
<1>3. CASE q < p
  <2>1. d * (q + 1) <= d * p
    BY <1>1, <1>3, Monotone
  <2> QED
    BY <1>1, <1>3, <2>1, Monotone DEF p
<1> QED
  BY <1>1, <1>2, <1>3

-----------------------------------------------------------------------------
(* The shares.                                                             *)

(* Every nth row: no row is left out or taken twice (the loops of          *)
(* ops.cpp:1929 and 5720).                                                 *)
THEOREM StridesPartition ==
  ASSUME NEW nr \in Nat, NEW nth \in Nat \ {0}
  PROVE  IsPartition(nr, nth, [ith \in Upto(nth) |-> Strided(nr, nth, ith)])
<1>1. \A ir \in Upto(nr) : ir % nth \in Upto(nth)
  BY Division DEF Upto
<1> QED
  BY <1>1 DEF IsPartition, Strided

(* The rounded up shares, cut at the end: no row is left out when the rows *)
(* do not divide by the threads, and none is taken twice (ops.cpp:609).    *)
THEOREM ChunksPartition ==
  ASSUME NEW nr \in Nat, NEW nth \in Nat \ {0}
  PROVE  IsPartition(nr, nth, [ith \in Upto(nth) |-> Chunk(nr, nth, ith)])
<1> DEFINE dr == (nr + nth - 1) \div nth
<1>1. dr \in Nat /\ nr <= nth * dr
  <2> DEFINE s == (nr + nth - 1) % nth
  <2>1. dr \in Nat /\ s \in 0 .. nth - 1 /\ nr + nth - 1 = nth * dr + s
    <3>1. nr + nth - 1 \in Nat
      OBVIOUS
    <3> QED
      BY <3>1, Division
  <2> HIDE DEF dr, s
  <2> QED
    BY <2>1, Monotone
<1>2. \A ith \in Upto(nth) : Chunk(nr, nth, ith) = dr * ith .. Least(dr * ith + dr, nr) - 1
  BY DEF Chunk
<1> HIDE DEF dr
<1>3. ASSUME NEW ith \in Upto(nth), NEW ir \in Int
      PROVE  ir \in Chunk(nr, nth, ith) <=> dr * ith <= ir /\ ir < dr * ith + dr /\ ir < nr
  <2>1. dr * ith \in Nat
    BY <1>1, Monotone DEF Upto
  <2> QED
    BY <1>1, <1>2, <2>1 DEF Least
<1>4. ASSUME NEW ith \in Upto(nth), NEW ir \in Chunk(nr, nth, ith) PROVE ir \in Upto(nr)
  <2>1. dr * ith \in Nat /\ ir \in Int
    BY <1>1, <1>2, Monotone DEF Upto, Least
  <2> QED
    BY <1>3, <2>1 DEF Upto
<1>5. ASSUME NEW ir \in Upto(nr) PROVE \E ith \in Upto(nth) : ir \in Chunk(nr, nth, ith)
  <2> DEFINE k == ir \div dr
  <2>1. ir \in Nat /\ ir < nr
    BY DEF Upto
  <2>2. dr # 0
    BY <1>1, <2>1
  <2>3. k \in Nat /\ dr * k <= ir /\ ir < dr * k + dr
    <3>1. k \in Nat /\ (ir % dr) \in 0 .. dr - 1 /\ ir = dr * k + (ir % dr)
      BY <1>1, <2>1, <2>2, Division
    <3> HIDE DEF k
    <3>2. dr * k \in Nat
      BY <1>1, <3>1, Monotone
    <3> QED
      BY <1>1, <3>1, <3>2
  <2> HIDE DEF k
  <2>4. ASSUME nth <= k PROVE FALSE
    <3>1. dr * nth <= dr * k /\ dr * nth = nth * dr
      BY <1>1, <2>3, <2>4, Monotone
    <3> QED
      BY <1>1, <2>1, <2>3, <3>1, Monotone
  <2>5. k \in Upto(nth)
    BY <2>3, <2>4 DEF Upto
  <2> QED
    BY <1>3, <2>1, <2>3, <2>5
<1>6. ASSUME NEW i \in Upto(nth), NEW j \in Upto(nth), i < j
      PROVE  Chunk(nr, nth, i) \cap Chunk(nr, nth, j) = {}
  <2>1. dr * (i + 1) <= dr * j /\ dr * (i + 1) = dr * i + dr /\ dr * i \in Nat /\ dr * j \in Nat
    BY <1>1, <1>6, Monotone DEF Upto
  <2>2. \A ir \in Chunk(nr, nth, i) : ir \in Int
    BY <1>4 DEF Upto
  <2> QED
    BY <1>1, <1>3, <2>1, <2>2
<1>7. \A i, j \in Upto(nth) : i # j => Chunk(nr, nth, i) \cap Chunk(nr, nth, j) = {}
  <2> SUFFICES ASSUME NEW i \in Upto(nth), NEW j \in Upto(nth), i # j
               PROVE  Chunk(nr, nth, i) \cap Chunk(nr, nth, j) = {}
    OBVIOUS
  <2>1. i < j \/ j < i
    BY DEF Upto
  <2> QED
    BY <1>6, <2>1
<1> QED
  BY <1>4, <1>5, <1>7 DEF IsPartition

(* The heads of the recurrent layers, bounded by rounded down multiples:   *)
(* the bounds meet, so that no head is left out or taken twice             *)
(* (ops.cpp:10268).                                                        *)
THEOREM HeadsPartition ==
  ASSUME NEW HEADS \in Nat, NEW nth \in Nat \ {0}
  PROVE  IsPartition(HEADS, nth, [ith \in Upto(nth) |-> HeadsOf(HEADS, nth, ith)])
<1>1. ASSUME NEW ith \in Upto(nth), NEW h \in Nat
      PROVE  h \in HeadsOf(HEADS, nth, ith) <=>
               h < HEADS /\ HEADS * ith < nth * (h + 1) /\ nth * (h + 1) <= HEADS * (ith + 1)
  <2>1. ith \in Nat /\ HEADS * ith \in Nat /\ HEADS * (ith + 1) \in Nat /\ nth * (h + 1) \in Nat
    BY Monotone DEF Upto
  <2>2. (HEADS * ith) \div nth <= h <=> HEADS * ith < nth * (h + 1)
    BY <2>1, QuotientBound
  <2>3. (HEADS * (ith + 1)) \div nth <= h <=> HEADS * (ith + 1) < nth * (h + 1)
    BY <2>1, QuotientBound
  <2>4. (HEADS * ith) \div nth \in Nat /\ (HEADS * (ith + 1)) \div nth \in Nat
    BY <2>1, Division
  <2>5. h \in HeadsOf(HEADS, nth, ith) <=>
          /\ (HEADS * ith) \div nth <= h /\ h < HEADS
          /\ ~((HEADS * (ith + 1)) \div nth <= h)
    BY <2>4 DEF HeadsOf, Least
  <2> QED
    BY <2>1, <2>2, <2>3, <2>5
<1>2. ASSUME NEW ith \in Upto(nth), NEW h \in HeadsOf(HEADS, nth, ith) PROVE h \in Upto(HEADS)
  <2>1. (HEADS * ith) \div nth \in Nat /\ (HEADS * (ith + 1)) \div nth \in Nat
    <3>1. HEADS * ith \in Nat /\ HEADS * (ith + 1) \in Nat
      BY Monotone DEF Upto
    <3> QED
      BY <3>1, Division
  <2> QED
    BY <2>1 DEF HeadsOf, Least, Upto
<1>3. ASSUME NEW h \in Upto(HEADS) PROVE \E ith \in Upto(nth) : h \in HeadsOf(HEADS, nth, ith)
  <2> DEFINE m == nth * (h + 1)
             k == (m - 1) \div HEADS
             s == (m - 1) % HEADS
  <2>1. h \in Nat /\ h < HEADS
    BY DEF Upto
  <2>2. m \in Nat /\ m >= nth /\ m <= nth * HEADS
    <3>1. nth * 1 <= nth * (h + 1) /\ nth * (h + 1) <= nth * HEADS /\ nth * (h + 1) \in Nat
      BY <2>1, Monotone
    <3> QED
      BY <3>1
  <2> HIDE DEF m
  <2>3. k \in Nat /\ s \in 0 .. HEADS - 1 /\ m - 1 = HEADS * k + s
    <3>1. m - 1 \in Nat /\ HEADS \in Nat \ {0}
      BY <2>1, <2>2
    <3> QED
      BY <3>1, Division
  <2> HIDE DEF k, s
  <2>4. HEADS * k \in Nat /\ HEADS * (k + 1) = HEADS * k + HEADS
    BY <2>3, Monotone
  <2>5. ASSUME nth <= k PROVE FALSE
    <3>1. HEADS * nth <= HEADS * k /\ HEADS * nth = nth * HEADS /\ HEADS * nth \in Nat
      BY <2>3, <2>5, Monotone
    <3> QED
      BY <2>2, <2>3, <2>4, <3>1
  <2>6. k \in Upto(nth)
    BY <2>3, <2>5 DEF Upto
  <2>7. HEADS * k < m /\ m <= HEADS * (k + 1)
    BY <2>2, <2>3, <2>4
  <2> QED
    BY <1>1, <2>1, <2>6, <2>7 DEF m
<1>4. ASSUME NEW i \in Upto(nth), NEW j \in Upto(nth), i < j,
             NEW h \in Nat, h \in HeadsOf(HEADS, nth, i), h \in HeadsOf(HEADS, nth, j)
      PROVE  FALSE
  <2>1. HEADS * (i + 1) <= HEADS * j /\ HEADS * (i + 1) \in Nat /\ HEADS * j \in Nat
    BY <1>4, Monotone DEF Upto
  <2>2. nth * (h + 1) \in Nat
    BY Monotone
  <2> QED
    BY <1>1, <1>4, <2>1, <2>2
<1>5. \A i, j \in Upto(nth) : i # j => HeadsOf(HEADS, nth, i) \cap HeadsOf(HEADS, nth, j) = {}
  <2> SUFFICES ASSUME NEW i \in Upto(nth), NEW j \in Upto(nth), i # j,
                      NEW h \in HeadsOf(HEADS, nth, i), h \in HeadsOf(HEADS, nth, j)
               PROVE  FALSE
    OBVIOUS
  <2>1. (i < j \/ j < i) /\ h \in Nat
    BY <1>2 DEF Upto
  <2> QED
    BY <1>4, <2>1
<1> QED
  BY <1>2, <1>3, <1>5 DEF IsPartition

-----------------------------------------------------------------------------
(* The elements.                                                           *)

Shape == [1 .. 4 -> Nat \ {0}]

(* An element's offset, decoded as the loops do it (ops.cpp:626), is the   *)
(* element.                                                                *)
THEOREM DecodingAnOffset ==
  ASSUME NEW ne \in Shape, NEW i \in Elements(ne)
  PROVE  ElementOf(ne, OffsetOf(ne, i)) = i
<1>1. /\ ne[1] \in Nat \ {0} /\ ne[2] \in Nat \ {0} /\ ne[3] \in Nat \ {0} /\ ne[4] \in Nat \ {0}
      /\ i = <<i[1], i[2], i[3], i[4]>>
      /\ i[1] \in 0 .. ne[1] - 1 /\ i[2] \in 0 .. ne[2] - 1 /\ i[3] \in 0 .. ne[3] - 1 /\ i[4] \in Nat
  BY DEF Shape, Elements, Upto
<1> DEFINE plane == i[3] + ne[3] * i[4]
           row == i[2] + ne[2] * plane
           m == ne[3] * ne[2]
           rest == i[2] + ne[2] * i[3]
<1>2. plane \in Nat /\ row \in Nat /\ m \in Nat \ {0} /\ rest \in Nat
  <2>1. ne[3] * i[4] \in Nat /\ ne[2] * i[3] \in Nat /\ m \in Nat \ {0}
    BY <1>1
  <2>2. plane \in Nat
    BY <1>1, <2>1
  <2> HIDE DEF plane
  <2>3. ne[2] * plane \in Nat
    BY <1>1, <2>2
  <2> QED
    BY <1>1, <2>1, <2>2, <2>3
<1>3. OffsetOf(ne, i) = ne[1] * row + i[1]
  BY <1>1, <1>2 DEF OffsetOf
<1>4. OffsetOf(ne, i) \div ne[1] = row /\ OffsetOf(ne, i) % ne[1] = i[1]
  <2> HIDE DEF row
  <2>1. (ne[1] * row + i[1]) \div ne[1] = row /\ (ne[1] * row + i[1]) % ne[1] = i[1]
    BY <1>1, <1>2, QuotientIs
  <2> QED
    BY <1>3, <2>1
<1>5. rest < m
  <2>1. ne[2] * (i[3] + 1) <= ne[2] * ne[3] /\ ne[2] * (i[3] + 1) = ne[2] * i[3] + ne[2]
    BY <1>1, Monotone
  <2>2. ne[2] * ne[3] = m
    BY <1>1
  <2>3. ne[2] * i[3] \in Nat
    BY <1>1, Monotone
  <2> HIDE DEF m
  <2> QED
    BY <1>1, <1>2, <2>1, <2>2, <2>3
<1>6. row = m * i[4] + rest
  BY <1>1
<1>7. row \div m = i[4]
  <2>1. rest \in 0 .. m - 1
    BY <1>2, <1>5
  <2> HIDE DEF row, rest, m
  <2> QED
    BY <1>1, <1>2, <1>6, <2>1, QuotientIs
<1>8. row - i[4] * ne[3] * ne[2] = rest
  BY <1>1
<1>9. rest \div ne[2] = i[3] /\ rest - i[3] * ne[2] = i[2]
  <2>1. rest = ne[2] * i[3] + i[2]
    BY <1>1
  <2>2. rest - i[3] * ne[2] = i[2]
    BY <1>1
  <2> HIDE DEF rest
  <2> QED
    BY <1>1, <2>1, <2>2, QuotientIs
<1>10. RowOf(ne, row) = <<i[2], i[3], i[4]>>
  <2> HIDE DEF row, rest
  <2> QED
    BY <1>7, <1>8, <1>9 DEF RowOf
<1> HIDE DEF row
<1> QED
  BY <1>1, <1>4, <1>10 DEF ElementOf

(* A loop over all flat indices reaches elements only, and with            *)
(* DecodingAnOffset each of them once.                                     *)
THEOREM DecodingAnIndex ==
  ASSUME NEW ne \in Shape, NEW k \in Upto(Size(ne))
  PROVE  ElementOf(ne, k) \in Elements(ne) /\ OffsetOf(ne, ElementOf(ne, k)) = k
<1> DEFINE a == ne[1]  b == ne[2]  c == ne[3]  d == ne[4]
           m == c * b
           q == k \div a
           r == k % a
           i3 == q \div m
           s == q % m
           i2 == s \div b
           i1 == s % b
<1>1. a \in Nat \ {0} /\ b \in Nat \ {0} /\ c \in Nat \ {0} /\ d \in Nat \ {0} /\ m \in Nat \ {0}
  BY Monotone DEF Shape
<1>2. k \in Nat /\ k < a * b * c * d
  BY <1>1 DEF Upto, Size
<1> HIDE DEF a, b, c, d
<1>3. q \in Nat /\ r \in 0 .. a - 1 /\ k = a * q + r
  BY <1>1, <1>2, Division
<1> HIDE DEF q, r
<1>4. i3 \in Nat /\ s \in 0 .. m - 1 /\ q = m * i3 + s
  <2> HIDE DEF m
  <2> QED
    BY <1>1, <1>3, Division
<1> HIDE DEF i3, s
<1>5. i2 \in Nat /\ i1 \in 0 .. b - 1 /\ s = b * i2 + i1
  <2>1. s \in Nat
    BY <1>1, <1>4
  <2> QED
    BY <1>1, <2>1, Division
<1> HIDE DEF i2, i1
<1>6. i2 < c
  <2>1. ASSUME c <= i2 PROVE FALSE
    <3>1. b * c <= b * i2 /\ b * c = m /\ b * i2 \in Nat
      BY <1>1, <1>5, <2>1, Monotone
    <3> HIDE DEF m
    <3> QED
      BY <1>1, <1>4, <1>5, <3>1
  <2> QED
    BY <1>1, <1>5, <2>1
<1>7. i3 < d
  <2>1. ASSUME d <= i3 PROVE FALSE
    <3>1. m * d <= m * i3 /\ m * i3 \in Nat /\ m * d \in Nat
      BY <1>1, <1>4, <2>1, Monotone
    <3>2. a * (m * d) = a * b * c * d
      BY <1>1
    <3> HIDE DEF m
    <3>3. m * d <= q
      BY <1>1, <1>4, <3>1
    <3>4. a * (m * d) <= a * q
      BY <1>1, <1>3, <3>1, <3>3, Monotone
    <3>5. a * q \in Nat /\ a * (m * d) \in Nat
      BY <1>1, <1>3, <3>1, Monotone
    <3> QED
      BY <1>1, <1>2, <1>3, <3>2, <3>4, <3>5
  <2> QED
    BY <1>1, <1>4, <2>1
<1>8. ElementOf(ne, k) = <<r, i1, i2, i3>>
  <2>1. q \div (c * b) = i3
    BY DEF i3
  <2>2. q - i3 * c * b = s
    BY <1>1, <1>4
  <2>3. s \div b = i2 /\ s - i2 * b = i1
    <3>1. s \div b = i2
      BY DEF i2
    <3> QED
      BY <1>1, <1>5, <3>1
  <2>4. RowOf(ne, q) = <<i1, i2, i3>>
    BY <2>1, <2>2, <2>3 DEF RowOf, b, c
  <2> QED
    BY <2>4 DEF ElementOf, q, r, a
<1>9. r + a * (i1 + b * (i2 + c * i3)) = k
  <2>1. b * (i2 + c * i3) = b * i2 + m * i3
    BY <1>1, <1>4, <1>5
  <2>2. i1 + b * (i2 + c * i3) = q
    BY <1>1, <1>4, <1>5, <2>1
  <2> QED
    BY <1>1, <1>3, <2>2
<1>10. OffsetOf(ne, ElementOf(ne, k)) = k
  BY <1>8, <1>9 DEF OffsetOf, a, b, c
<1> QED
  BY <1>1, <1>3, <1>4, <1>5, <1>6, <1>7, <1>8, <1>10 DEF Elements, Upto, a, b, c, d

-----------------------------------------------------------------------------
(* The machine: any calls, any interleaving of their threads.              *)

Structure ==
  /\ plan \in Plans
  /\ DOMAIN at = Threads
  /\ \A t \in Threads : at[t] \in 1 .. Len(Program(t)) + 1
  /\ DOMAIN from = DOMAIN Result \cup Scratch
  /\ next \in Nat
  /\ DOMAIN current = Threads
  /\ \A t \in Threads : current[t] \in Nat

ValuesInv == \A c \in DOMAIN from : from[c] \subseteq Given \cup {Garbage}

(* A team is always between the same two barriers.                         *)
LockStepInv ==
  \A t, u \in Threads :
    plan.team[t] = plan.team[u] => BarriersBefore(plan, t, at[t]) = BarriersBefore(plan, u, at[u])

(* The counter is behind the threads' own numbers once it has been set, a  *)
(* chunk that is not a thread's own number has been handed out by it, and  *)
(* none is handed out twice.                                               *)
ChunksInv ==
  /\ \A u \in Threads : \A j \in DOMAIN Program(u) :
       Program(u)[j] = SetChunks /\ j < at[u] => Cardinality(Threads) <= next
  /\ \A t \in Threads : current[t] # t =>
       /\ Cardinality(Threads) <= current[t] /\ current[t] < next
       /\ \E k \in DOMAIN Program(t) : k <= at[t] /\ Program(t)[k] = Claims
  /\ \A t, u \in Threads : t # u => current[t] # current[u]

MachineInv ==
  /\ Structure /\ ValuesInv /\ LockStepInv
  /\ SetsCounterFirst(plan) => ChunksInv

LEMMA PlanFacts ==
  ASSUME NEW p \in Plans
  PROVE  /\ IsFiniteSet(DOMAIN p.program) /\ Cardinality(DOMAIN p.program) \in Nat
         /\ DOMAIN p.program = Upto(Cardinality(DOMAIN p.program))
         /\ \A t \in DOMAIN p.program :
              /\ t \in Nat /\ t < Cardinality(DOMAIN p.program)
              /\ Len(p.program[t]) \in Nat /\ DOMAIN p.program[t] = 1 .. Len(p.program[t])
              /\ Len(p.chunks[t]) \in Nat /\ DOMAIN p.chunks[t] = 1 .. Len(p.chunks[t])
<1>1. PICK n \in Nat : n = Cardinality(DOMAIN p.program) /\ DOMAIN p.program = Upto(n)
  BY PlansAssumption
<1>2. IsFiniteSet(DOMAIN p.program)
  BY <1>1, FS_Interval DEF Upto
<1>3. \A t \in Upto(n) : t \in Nat /\ t < n
  BY DEF Upto
<1>4. \A t \in DOMAIN p.program : t \in Nat /\ t < n
  BY <1>1, <1>3
<1> QED
  BY <1>1, <1>2, <1>4, PlansAssumption DEF IsSequence

(* Counting barriers.                                                      *)
LEMMA BeforeCounts ==
  ASSUME NEW p, NEW t, NEW k \in Nat
  PROVE  /\ IsFiniteSet({j \in 1 .. k - 1 : p.program[t][j] = Barrier})
         /\ BarriersBefore(p, t, k) \in Nat
<1>1. {j \in 1 .. k - 1 : p.program[t][j] = Barrier} \subseteq 1 .. k - 1
  OBVIOUS
<1>2. IsFiniteSet(1 .. k - 1)
  BY FS_Interval
<1> QED
  BY <1>1, <1>2, FS_Subset, FS_CardinalityType DEF BarriersBefore

LEMMA BeforeIsMonotone ==
  ASSUME NEW p, NEW t, NEW k \in Nat, NEW m \in Nat, k <= m
  PROVE  BarriersBefore(p, t, k) <= BarriersBefore(p, t, m)
<1>1. {j \in 1 .. k - 1 : p.program[t][j] = Barrier}
        \subseteq {j \in 1 .. m - 1 : p.program[t][j] = Barrier}
  OBVIOUS
<1>2. IsFiniteSet({j \in 1 .. m - 1 : p.program[t][j] = Barrier})
  BY BeforeCounts
<1> QED
  BY <1>1, <1>2, FS_Subset DEF BarriersBefore

LEMMA BeforeFirst == ASSUME NEW p, NEW t PROVE BarriersBefore(p, t, 1) = 0
<1>1. {j \in 1 .. 1 - 1 : p.program[t][j] = Barrier} = {}
  OBVIOUS
<1> QED
  BY <1>1, FS_EmptySet DEF BarriersBefore

LEMMA BeforeNext ==
  ASSUME NEW p, NEW t, NEW k \in Nat \ {0}
  PROVE  BarriersBefore(p, t, k + 1) = BarriersBefore(p, t, k) + IF p.program[t][k] = Barrier THEN 1 ELSE 0
<1> DEFINE B(n) == {j \in 1 .. n - 1 : p.program[t][j] = Barrier}
<1>1. IsFiniteSet(B(k)) /\ BarriersBefore(p, t, k) = Cardinality(B(k)) /\ BarriersBefore(p, t, k) \in Nat
      /\ BarriersBefore(p, t, k + 1) = Cardinality(B(k + 1))
  BY BeforeCounts DEF BarriersBefore
<1>2. CASE p.program[t][k] = Barrier
  <2>1. B(k + 1) = B(k) \cup {k} /\ k \notin B(k)
    BY <1>2
  <2> HIDE DEF B
  <2>2. Cardinality(B(k) \cup {k}) = Cardinality(B(k)) + 1
    BY <1>1, <2>1, FS_AddElement
  <2> QED
    BY <1>1, <1>2, <2>1, <2>2
<1>3. CASE p.program[t][k] # Barrier
  <2>1. B(k + 1) = B(k)
    BY <1>3
  <2> HIDE DEF B
  <2> QED
    BY <1>1, <1>3, <2>1
<1> QED
  BY <1>2, <1>3

LEMMA MarksDiffer == Barrier # SetChunks /\ Barrier # Claims /\ SetChunks # Claims
<1>1. /\ DOMAIN Barrier = {<<"barrier", 0>>} /\ DOMAIN SetChunks = {<<"set", 0>>}
      /\ DOMAIN Claims = {<<"chunks", 0>>}
  BY DEF Barrier, SetChunks, Claims
<1>2. <<"barrier", 0>> # <<"set", 0>> /\ <<"barrier", 0>> # <<"chunks", 0>> /\ <<"set", 0>> # <<"chunks", 0>>
  OBVIOUS
<1> QED
  BY <1>1, <1>2

(* What is in a program, and where a thread is in it.                      *)
LEMMA Places ==
  ASSUME Structure, NEW t \in Threads
  PROVE  /\ t \in Nat /\ Len(Program(t)) \in Nat /\ DOMAIN Program(t) = 1 .. Len(Program(t))
         /\ Len(Chunks(t)) \in Nat /\ DOMAIN Chunks(t) = 1 .. Len(Chunks(t))
         /\ at[t] \in Nat \ {0} /\ at[t] <= Len(Program(t)) + 1
         /\ ~Done(t) => at[t] \in DOMAIN Program(t)
         /\ current[t] \in Nat
<1>1. /\ t \in Nat /\ Len(Program(t)) \in Nat /\ DOMAIN Program(t) = 1 .. Len(Program(t))
      /\ Len(Chunks(t)) \in Nat /\ DOMAIN Chunks(t) = 1 .. Len(Chunks(t))
  BY PlanFacts DEF Structure, Threads, Program, Chunks
<1> QED
  BY <1>1 DEF Structure, Done

LEMMA MachineInit == Init => MachineInv
<1> SUFFICES ASSUME Init PROVE MachineInv
  OBVIOUS
<1>1. \A t \in Threads : t \in Nat /\ Len(Program(t)) \in Nat
  BY PlanFacts DEF Init, Threads, Program
<1>2. Structure
  BY <1>1 DEF Init, Structure
<1>3. ValuesInv
  BY DEF Init, ValuesInv
<1>4. LockStepInv
  BY BeforeFirst DEF Init, LockStepInv
<1>5. ChunksInv
  <2>1. ASSUME NEW u \in Threads, NEW j \in DOMAIN Program(u), j < at[u] PROVE FALSE
    <3>1. at[u] = 1 /\ j \in Nat /\ j >= 1
      BY <1>2, Places DEF Init
    <3> QED
      BY <2>1, <3>1
  <2>2. \A t \in Threads : current[t] = t
    BY DEF Init
  <2> QED
    BY <2>1, <2>2 DEF ChunksInv
<1> QED
  BY <1>2, <1>3, <1>4, <1>5 DEF MachineInv

-----------------------------------------------------------------------------
(* A thread goes on to the next step of its program, or stays.             *)
Advances(t) == UNCHANGED plan /\ ~Done(t) /\ at' = [at EXCEPT ![t] = @ + 1]

LEMMA LockStepAlone ==
  ASSUME Structure, LockStepInv, NEW t \in Threads, Advances(t), Program(t)[at[t]] # Barrier
  PROVE  LockStepInv'
<1>1. BarriersBefore(plan, t, at[t] + 1) = BarriersBefore(plan, t, at[t])
  <2>1. at[t] \in Nat \ {0} /\ plan.program[t][at[t]] # Barrier
    BY Places DEF Program
  <2>2. BarriersBefore(plan, t, at[t]) \in Nat
    BY <2>1, BeforeCounts
  <2> QED
    BY <2>1, <2>2, BeforeNext
<1>2. \A u \in Threads : BarriersBefore(plan, u, at'[u]) = BarriersBefore(plan, u, at[u])
  BY <1>1 DEF Advances, Structure
<1>3. Threads' = Threads /\ plan' = plan
  BY DEF Advances, Threads
<1> QED
  BY <1>2, <1>3 DEF LockStepInv

LEMMA LockStepMeet ==
  ASSUME Structure, LockStepInv, NEW g \in Teams, Meet(g)
  PROVE  LockStepInv'
<1>1. \A t \in Team(g) : BarriersBefore(plan, t, at[t] + 1) = BarriersBefore(plan, t, at[t]) + 1
  <2> TAKE t \in Team(g)
  <2>1. t \in Threads
    BY DEF Team
  <2>2. at[t] \in Nat \ {0} /\ plan.program[t][at[t]] = Barrier
    BY <2>1, Places DEF Meet, Marked, Program
  <2> QED
    BY <2>2, BeforeNext
<1>2. \A t \in Threads :
        BarriersBefore(plan, t, at'[t]) = BarriersBefore(plan, t, at[t]) + IF plan.team[t] = g THEN 1 ELSE 0
  <2> TAKE t \in Threads
  <2>1. at[t] \in Nat \ {0} /\ BarriersBefore(plan, t, at[t]) \in Nat
    BY Places, BeforeCounts
  <2>2. CASE plan.team[t] = g
    <3>1. t \in Team(g) /\ at'[t] = at[t] + 1
      BY <2>2 DEF Meet, Team
    <3> QED
      BY <1>1, <2>1, <2>2, <3>1
  <2>3. CASE plan.team[t] # g
    <3>1. at'[t] = at[t]
      BY <2>3 DEF Meet, Team
    <3> QED
      BY <2>1, <2>3, <3>1
  <2> QED
    BY <2>2, <2>3
<1>3. Threads' = Threads /\ plan' = plan
  BY DEF Meet, Threads
<1> QED
  BY <1>2, <1>3 DEF LockStepInv

(* One team is between the same barriers, so a thread that is behind a     *)
(* step with fewer barriers in front of it has been through it.            *)
LEMMA Behind ==
  ASSUME Structure, LockStepInv, NEW t \in Threads, NEW u \in Threads, plan.team[t] = plan.team[u],
         NEW k \in Nat, k <= at[t], NEW j \in Nat, BarriersBefore(plan, u, j) < BarriersBefore(plan, t, k)
  PROVE  j < at[u]
<1>1. at[t] \in Nat /\ at[u] \in Nat
  BY Places
<1>2. BarriersBefore(plan, t, k) <= BarriersBefore(plan, t, at[t])
  BY <1>1, BeforeIsMonotone
<1>3. BarriersBefore(plan, t, at[t]) = BarriersBefore(plan, u, at[u])
  BY DEF LockStepInv
<1>4. ASSUME at[u] <= j PROVE FALSE
  <2>1. BarriersBefore(plan, u, at[u]) <= BarriersBefore(plan, u, j)
    BY <1>1, <1>4, BeforeIsMonotone
  <2>2. /\ BarriersBefore(plan, t, k) \in Nat /\ BarriersBefore(plan, t, at[t]) \in Nat
        /\ BarriersBefore(plan, u, j) \in Nat /\ BarriersBefore(plan, u, at[u]) \in Nat
    BY <1>1, BeforeCounts
  <2> QED
    BY <1>2, <1>3, <2>1, <2>2
<1> QED
  BY <1>1, <1>4

(* The values stay inputs.                                                 *)
LEMMA ValuesStay ==
  ASSUME ValuesInv, plan' = plan, NEW step, Perform(step)
  PROVE  ValuesInv' /\ DOMAIN from' = DOMAIN from
<1>1. \A d : Origin(d) \subseteq Given \cup {Garbage}
  BY DEF ValuesInv, Origin
<1>2. \A c \in DOMAIN from : from'[c] = IF c \in DOMAIN step THEN UNION {Origin(d) : d \in step[c]} ELSE from[c]
  BY DEF Perform
<1>3. DOMAIN from' = DOMAIN from /\ Given' = Given
  BY DEF Perform, Given
<1>4. \A c \in DOMAIN from : from'[c] \subseteq Given \cup {Garbage}
  <2> TAKE c \in DOMAIN from
  <2>1. UNION {Origin(d) : d \in step[c]} \subseteq Given \cup {Garbage}
    BY <1>1
  <2>2. from[c] \subseteq Given \cup {Garbage}
    BY DEF ValuesInv
  <2>3. from'[c] = UNION {Origin(d) : d \in step[c]} \/ from'[c] = from[c]
    BY <1>2
  <2> QED
    BY <2>1, <2>2, <2>3
<1> QED
  BY <1>3, <1>4 DEF ValuesInv

LEMMA AdvancePlaces ==
  ASSUME Structure, NEW t \in Threads, Advances(t)
  PROVE  /\ Threads' = Threads /\ Result' = Result /\ Scratch' = Scratch /\ Given' = Given
         /\ \A u \in Threads : Program(u)' = Program(u) /\ Chunks(u)' = Chunks(u)
         /\ DOMAIN at' = Threads
         /\ \A u \in Threads : at'[u] \in 1 .. Len(Program(u)) + 1
         /\ at'[t] = at[t] + 1 /\ \A u \in Threads \ {t} : at'[u] = at[u]
<1>1. Len(Program(t)) \in Nat /\ at[t] \in 1 .. Len(Program(t))
  BY Places DEF Advances
<1> QED
  BY <1>1 DEF Structure, Advances, Threads, Result, Scratch, Given, Program, Chunks

(* A step that neither sets the counter nor takes a chunk.                 *)
LEMMA ChunksStay ==
  ASSUME Structure, ChunksInv, UNCHANGED <<plan, next, current>>,
         NEW moved \in SUBSET Threads, \A t \in moved : ~Marked(t, SetChunks) /\ at'[t] = at[t] + 1,
         \A t \in Threads \ moved : at'[t] = at[t]
  PROVE  ChunksInv'
<1>1. /\ Threads' = Threads /\ \A u \in Threads : Program(u)' = Program(u)
  BY DEF Threads, Program
<1>2. ASSUME NEW u \in Threads, NEW j \in DOMAIN Program(u), Program(u)[j] = SetChunks, j < at'[u]
      PROVE  j < at[u]
  <2>1. at[u] \in Nat /\ j \in Nat
    BY Places
  <2>2. CASE u \in moved
    <3>1. j # at[u]
      BY <1>2, <2>1, <2>2, Places DEF Marked, Done
    <3> QED
      BY <1>2, <2>1, <2>2, <3>1
  <2>3. CASE u \notin moved
    BY <1>2, <2>3
  <2> QED
    BY <2>2, <2>3
<1>3. \A t \in Threads : at[t] \in Nat /\ at'[t] \in Nat /\ at[t] <= at'[t]
  BY Places
<1>4. ASSUME NEW t \in Threads, current[t] # t
      PROVE  \E k \in DOMAIN Program(t) : k <= at'[t] /\ Program(t)[k] = Claims
  <2>1. PICK k \in DOMAIN Program(t) : k <= at[t] /\ Program(t)[k] = Claims
    BY <1>4 DEF ChunksInv
  <2>2. k \in Nat
    BY Places
  <2> QED
    BY <1>3, <2>1, <2>2
<1> QED
  BY <1>1, <1>2, <1>4 DEF ChunksInv

LEMMA SameDiscipline == ASSUME plan' = plan PROVE SetsCounterFirst(plan)' = SetsCounterFirst(plan)
BY DEF SetsCounterFirst, BarriersBefore

LEMMA WorkInv == ASSUME MachineInv, NEW t \in Threads, Work(t) PROVE MachineInv'
<1>1. Structure /\ ValuesInv /\ LockStepInv /\ Advances(t) /\ UNCHANGED <<plan, next, current>>
      /\ Program(t)[at[t]] \notin {Barrier, SetChunks, Claims}
  BY DEF MachineInv, Work, Running, Advances
<1>2. ValuesInv' /\ DOMAIN from' = DOMAIN from
  BY <1>1, ValuesStay DEF Work
<1>3. LockStepInv'
  BY <1>1, LockStepAlone
<1>4. Structure'
  BY <1>1, <1>2, AdvancePlaces DEF Structure
<1>5. SetsCounterFirst(plan)' => ChunksInv'
  <2> SUFFICES ASSUME SetsCounterFirst(plan) PROVE ChunksInv'
    BY <1>1, SameDiscipline
  <2>1. {t} \in SUBSET Threads /\ ~Marked(t, SetChunks) /\ at'[t] = at[t] + 1
        /\ \A u \in Threads \ {t} : at'[u] = at[u]
    BY <1>1, AdvancePlaces DEF Marked
  <2> QED
    BY <1>1, <2>1, ChunksStay DEF MachineInv
<1> QED
  BY <1>2, <1>3, <1>4, <1>5 DEF MachineInv

LEMMA MeetInv == ASSUME MachineInv, NEW g \in Teams, Meet(g) PROVE MachineInv'
<1>1. Structure /\ ValuesInv /\ LockStepInv /\ UNCHANGED <<plan, from, next, current>>
  BY DEF MachineInv, Meet
<1>2. /\ Threads' = Threads /\ Result' = Result /\ Scratch' = Scratch /\ Given' = Given
      /\ \A u \in Threads : Program(u)' = Program(u)
  BY <1>1 DEF Threads, Result, Scratch, Given, Program
<1>3. \A u \in Team(g) : Marked(u, Barrier) /\ at'[u] = at[u] + 1 /\ u \in Threads
  BY DEF Meet, Team
<1>4. \A u \in Threads \ Team(g) : at'[u] = at[u]
  BY DEF Meet
<1>5. Structure'
  <2>1. DOMAIN at' = Threads
    BY DEF Meet
  <2>2. \A u \in Threads : at'[u] \in 1 .. Len(Program(u)) + 1
    <3> TAKE u \in Threads
    <3>1. Len(Program(u)) \in Nat /\ at[u] \in Nat \ {0} /\ at[u] <= Len(Program(u)) + 1
          /\ (~Done(u) => at[u] <= Len(Program(u)))
      BY <1>1, Places DEF Done
    <3>2. CASE u \in Team(g)
      BY <1>3, <3>1, <3>2 DEF Marked
    <3>3. CASE u \notin Team(g)
      BY <1>4, <3>1, <3>3
    <3> QED
      BY <3>2, <3>3
  <2> QED
    BY <1>1, <1>2, <2>1, <2>2 DEF Structure
<1>6. LockStepInv' /\ ValuesInv'
  BY <1>1, <1>2, LockStepMeet DEF ValuesInv
<1>7. SetsCounterFirst(plan)' => ChunksInv'
  <2> SUFFICES ASSUME SetsCounterFirst(plan) PROVE ChunksInv'
    BY <1>1, SameDiscipline
  <2>1. \A u \in Team(g) : ~Marked(u, SetChunks)
    BY <1>3, MarksDiffer DEF Marked
  <2>2. Team(g) \in SUBSET Threads
    BY DEF Team
  <2> QED
    BY <1>1, <1>3, <1>4, <2>1, <2>2, ChunksStay DEF MachineInv
<1> QED
  BY <1>5, <1>6, <1>7 DEF MachineInv

LEMMA LeaveChunksInv == ASSUME MachineInv, NEW t \in Threads, LeaveChunks(t) PROVE MachineInv'
<1>1. Structure /\ ValuesInv /\ LockStepInv /\ Advances(t) /\ UNCHANGED <<plan, from, next, current>>
      /\ Marked(t, Claims)
  BY DEF MachineInv, LeaveChunks, Marked, Advances
<1>2. LockStepInv'
  BY <1>1, LockStepAlone, MarksDiffer DEF Marked
<1>3. Structure' /\ ValuesInv'
  BY <1>1, AdvancePlaces DEF Structure, ValuesInv
<1>4. SetsCounterFirst(plan)' => ChunksInv'
  <2> SUFFICES ASSUME SetsCounterFirst(plan) PROVE ChunksInv'
    BY <1>1, SameDiscipline
  <2>1. {t} \in SUBSET Threads /\ ~Marked(t, SetChunks) /\ at'[t] = at[t] + 1
        /\ \A u \in Threads \ {t} : at'[u] = at[u]
    BY <1>1, AdvancePlaces, MarksDiffer DEF Marked
  <2> QED
    BY <1>1, <2>1, ChunksStay DEF MachineInv
<1> QED
  BY <1>2, <1>3, <1>4 DEF MachineInv

(* The counter is set before anybody has taken a chunk from it.            *)
LEMMA SetCounterInv == ASSUME MachineInv, NEW t \in Threads, SetCounter(t) PROVE MachineInv'
<1>1. /\ Structure /\ ValuesInv /\ LockStepInv /\ Advances(t) /\ UNCHANGED <<plan, from, current>>
      /\ Marked(t, SetChunks) /\ next' = Cardinality(Threads)
  BY DEF MachineInv, SetCounter, Marked, Advances
<1>2. LockStepInv'
  BY <1>1, LockStepAlone, MarksDiffer DEF Marked
<1>3. Cardinality(Threads) \in Nat
  BY <1>1, PlanFacts DEF Structure, Threads
<1>4. Structure' /\ ValuesInv'
  BY <1>1, <1>3, AdvancePlaces DEF Structure, ValuesInv
<1>5. SetsCounterFirst(plan)' => ChunksInv'
  <2> SUFFICES ASSUME SetsCounterFirst(plan) PROVE ChunksInv'
    BY <1>1, SameDiscipline
  <2>1. \A u \in Threads : current[u] = u
    <3> SUFFICES ASSUME NEW u \in Threads, current[u] # u PROVE FALSE
      OBVIOUS
    <3>1. PICK k \in DOMAIN Program(u) : k <= at[u] /\ Program(u)[k] = Claims
      BY DEF MachineInv, ChunksInv
    <3>2. at[t] \in DOMAIN Program(t) /\ at[t] \in Nat /\ k \in Nat /\ Program(t)[at[t]] = SetChunks
      BY <1>1, Places DEF Marked
    <3>3. plan.team[u] = plan.team[t] /\ BarriersBefore(plan, t, at[t]) < BarriersBefore(plan, u, k)
      BY <3>1, <3>2 DEF SetsCounterFirst, Threads, Program
    <3>4. at[t] < at[t]
      BY <1>1, <3>1, <3>2, <3>3, Behind
    <3> QED
      BY <3>2, <3>4
  <2>2. /\ Threads' = Threads /\ \A u \in Threads : Program(u)' = Program(u)
    BY <1>1, AdvancePlaces
  <2> QED
    BY <1>1, <1>3, <2>1, <2>2 DEF MachineInv, ChunksInv
<1> QED
  BY <1>2, <1>4, <1>5 DEF MachineInv

(* A thread takes the next chunk, which is no other thread's.              *)
LEMMA WorkChunkInv == ASSUME MachineInv, NEW t \in Threads, WorkChunk(t) PROVE MachineInv'
<1>1. /\ Structure /\ ValuesInv /\ LockStepInv /\ UNCHANGED <<plan, at>>
      /\ Marked(t, Claims) /\ next' = next + 1 /\ current' = [current EXCEPT ![t] = next]
  BY DEF MachineInv, WorkChunk, Chunking
<1>2. /\ Threads' = Threads /\ Result' = Result /\ Scratch' = Scratch
      /\ \A u \in Threads : Program(u)' = Program(u)
  BY <1>1 DEF Threads, Result, Scratch, Program
<1>3. ValuesInv' /\ DOMAIN from' = DOMAIN from
  BY <1>1, ValuesStay DEF WorkChunk
<1>4. LockStepInv' /\ Structure'
  BY <1>1, <1>2, <1>3 DEF Structure, LockStepInv
<1>5. SetsCounterFirst(plan)' => ChunksInv'
  <2> SUFFICES ASSUME SetsCounterFirst(plan) PROVE ChunksInv'
    BY <1>1, SameDiscipline
  <2>1. at[t] \in DOMAIN Program(t) /\ at[t] \in Nat /\ Program(t)[at[t]] = Claims
    BY <1>1, Places DEF Marked
  <2>2. PICK u \in Threads : \E j \in DOMAIN Program(u) : Program(u)[j] = SetChunks
    BY <2>1 DEF SetsCounterFirst, Threads, Program
  <2>3. PICK j \in DOMAIN Program(u) : Program(u)[j] = SetChunks
    BY <2>2
  <2>4. plan.team[u] = plan.team[t] /\ BarriersBefore(plan, u, j) < BarriersBefore(plan, t, at[t]) /\ j \in Nat
    <3>1. j \in Nat
      BY <1>1, Places
    <3>2. /\ t \in DOMAIN plan.program /\ at[t] \in DOMAIN plan.program[t]
          /\ plan.program[t][at[t]] = Claims
          /\ u \in DOMAIN plan.program /\ j \in DOMAIN plan.program[u]
          /\ plan.program[u][j] = SetChunks
      BY <2>1, <2>3 DEF Threads, Program
    <3> QED
      BY <3>1, <3>2 DEF SetsCounterFirst
  <2>5. j < at[u]
    BY <1>1, <2>1, <2>4, Behind
  <2>6. Cardinality(Threads) <= next
    BY <2>3, <2>5 DEF MachineInv, ChunksInv
  <2>7. /\ next \in Nat /\ Cardinality(Threads) \in Nat /\ DOMAIN current = Threads
        /\ \A v \in Threads : v \in Nat /\ v < Cardinality(Threads) /\ current[v] \in Nat
    BY <1>1, PlanFacts DEF Structure, Threads
  <2>8. \A v \in Threads : current[v] < next
    BY <2>6, <2>7 DEF MachineInv, ChunksInv
  <2>9. /\ current'[t] = next
        /\ \A v \in Threads : v # t => current'[v] = current[v]
    BY <1>1, <2>7
  <2>10. \A v, w \in Threads : v # w => current'[v] # current'[w]
    BY <2>7, <2>8, <2>9 DEF MachineInv, ChunksInv
  <2>11. \A v \in Threads : current'[v] # v =>
           /\ Cardinality(Threads) <= current'[v] /\ current'[v] < next'
           /\ \E k \in DOMAIN Program(v) : k <= at[v] /\ Program(v)[k] = Claims
    <3> SUFFICES ASSUME NEW v \in Threads, current'[v] # v
                 PROVE  /\ Cardinality(Threads) <= current'[v] /\ current'[v] < next'
                        /\ \E k \in DOMAIN Program(v) : k <= at[v] /\ Program(v)[k] = Claims
      OBVIOUS
    <3>1. CASE v = t
      BY <1>1, <2>1, <2>6, <2>7, <2>9, <3>1
    <3>2. CASE v # t
      <4>1. /\ Cardinality(Threads) <= current[v] /\ current[v] < next
            /\ \E k \in DOMAIN Program(v) : k <= at[v] /\ Program(v)[k] = Claims
        BY <2>9, <3>2 DEF MachineInv, ChunksInv
      <4> QED
        BY <1>1, <2>7, <2>9, <3>2, <4>1
    <3> QED
      BY <3>1, <3>2
  <2>12. Cardinality(Threads) <= next'
    BY <1>1, <2>6, <2>7
  <2> QED
    BY <1>1, <1>2, <2>10, <2>11, <2>12 DEF ChunksInv
<1> QED
  BY <1>3, <1>4, <1>5 DEF MachineInv

LEMMA MachineStep == MachineInv /\ [Next]_vars => MachineInv'
<1> SUFFICES ASSUME MachineInv, [Next]_vars PROVE MachineInv'
  OBVIOUS
<1>1. CASE Next
  BY <1>1, WorkInv, MeetInv, SetCounterInv, WorkChunkInv, LeaveChunksInv DEF Next
<1>2. CASE UNCHANGED vars
  <2>1. UNCHANGED <<plan, at, from, next, current>>
    BY <1>2 DEF vars
  <2> QED
    BY <2>1 DEF MachineInv, Structure, ValuesInv, LockStepInv, ChunksInv, SetsCounterFirst, BarriersBefore,
                Threads, Result, Scratch, Given, Program
<1> QED
  BY <1>1, <1>2

(* The inductive invariant.                                                *)
THEOREM MachineInvariance == Spec => []MachineInv
BY MachineInit, MachineStep, PTL DEF Spec

(* Every variable keeps its type, and no two threads work on one chunk of  *)
(* the pool, when the counter is set before the barrier in front of the    *)
(* loop over chunks (ggml_threadpool_chunk_set, ops.cpp:8747).             *)
THEOREM TypeCorrect == Spec => [](SetsCounterFirst(plan) => TypeOK)
<1>1. MachineInv => (SetsCounterFirst(plan) => TypeOK)
  BY DEF MachineInv, Structure, ValuesInv, ChunksInv, TypeOK
<1> QED
  BY <1>1, MachineInvariance, PTL

LEMMA DoingIsAJob ==
  ASSUME Structure, NEW t \in Threads, Doing(t) # Idle
  PROVE  /\ at[t] \in DOMAIN Program(t)
         /\ \E c \in {0, current[t] + 1} : <<c, Doing(t)>> \in Jobs(plan, t, at[t])
<1>1. CASE Running(t)
  <2>1. at[t] \in DOMAIN Program(t) /\ Doing(t) = Program(t)[at[t]]
        /\ Program(t)[at[t]] \notin {Barrier, SetChunks, Claims}
    BY <1>1, Places DEF Running, Doing
  <2>2. <<0, Doing(t)>> \in Jobs(plan, t, at[t])
    BY <2>1 DEF Jobs, Program
  <2> QED
    BY <2>1, <2>2
<1>2. CASE ~Running(t)
  <2>1. Chunking(t) /\ Doing(t) = Chunks(t)[current[t] + 1]
    BY <1>2 DEF Doing
  <2>2. at[t] \in DOMAIN Program(t) /\ Program(t)[at[t]] = Claims /\ current[t] + 1 \in DOMAIN Chunks(t)
    BY <2>1, Places DEF Chunking, Marked
  <2>3. <<current[t] + 1, Doing(t)>> \in Jobs(plan, t, at[t])
    BY <2>1, <2>2 DEF Jobs, Program, Chunks
  <2> QED
    BY <2>2, <2>3
<1> QED
  BY <1>1, <1>2

LEMMA NothingToDo == DOMAIN Idle = {} /\ Touched(Idle) = {}
BY DEF Idle, Touched

(* Where what two threads may do between the same barriers does not        *)
(* conflict, no two threads ever race, in any interleaving: a barrier      *)
(* keeps its team together, and the pool's counter gives no chunk twice.   *)
THEOREM OrderedIsRaceFree ==
  Spec => [](IsOrdered(plan) /\ SetsCounterFirst(plan) => RaceFree)
<1>1. MachineInv => (IsOrdered(plan) /\ SetsCounterFirst(plan) => RaceFree)
  <2> SUFFICES ASSUME MachineInv, IsOrdered(plan), SetsCounterFirst(plan),
                      NEW t \in Threads, NEW u \in Threads, t # u
               PROVE  DOMAIN Doing(t) \cap Touched(Doing(u)) = {}
    BY DEF RaceFree
  <2>1. CASE Doing(t) = Idle \/ Doing(u) = Idle
    BY <2>1, NothingToDo
  <2>2. CASE Doing(t) # Idle /\ Doing(u) # Idle
    <3>1. Structure /\ current[t] # current[u] /\ current[t] \in Nat /\ current[u] \in Nat
      BY Places DEF MachineInv, ChunksInv
    <3>2. PICK c \in {0, current[t] + 1} : <<c, Doing(t)>> \in Jobs(plan, t, at[t])
      BY <2>2, <3>1, DoingIsAJob
    <3>3. PICK d \in {0, current[u] + 1} : <<d, Doing(u)>> \in Jobs(plan, u, at[u])
      BY <2>2, <3>1, DoingIsAJob
    <3>4. c = 0 \/ c # d
      BY <3>1, <3>2, <3>3
    <3>5. plan.team[t] # plan.team[u] \/ BarriersBefore(plan, t, at[t]) = BarriersBefore(plan, u, at[u])
      BY DEF MachineInv, LockStepInv
    <3>6. at[t] \in DOMAIN plan.program[t] /\ at[u] \in DOMAIN plan.program[u]
      BY <2>2, <3>1, DoingIsAJob DEF Program
    <3>7. \A a \in Jobs(plan, t, at[t]), b \in Jobs(plan, u, at[u]) :
            a[1] = 0 \/ a[1] # b[1] => DOMAIN a[2] \cap Touched(b[2]) = {}
      BY <3>5, <3>6 DEF IsOrdered, Threads
    <3> QED
      BY <3>2, <3>3, <3>4, <3>7
  <2> QED
    BY <2>1, <2>2
<1> QED
  BY <1>1, MachineInvariance, PTL

(* Where everything the programs may do stays inside the tensors given and *)
(* the parts of wdata, no step reaches outside them.                       *)
THEOREM InsideStays == Spec => [](IsInside(plan) => WithinBounds)
<1>1. MachineInv => (IsInside(plan) => WithinBounds)
  <2> SUFFICES ASSUME MachineInv, IsInside(plan), NEW t \in Threads
               PROVE  Touched(Doing(t)) \subseteq Allowed
    BY DEF WithinBounds
  <2>1. CASE Doing(t) = Idle
    BY <2>1, NothingToDo
  <2>2. CASE Doing(t) # Idle
    <3>1. PICK c : <<c, Doing(t)>> \in Jobs(plan, t, at[t])
      BY <2>2, DoingIsAJob DEF MachineInv
    <3>2. at[t] \in DOMAIN plan.program[t]
      BY <2>2, DoingIsAJob DEF MachineInv, Program
    <3>3. \A a \in Jobs(plan, t, at[t]) :
            Touched(a[2]) \subseteq plan.given \cup DOMAIN plan.result \cup plan.scratch
      BY <3>2 DEF IsInside, Threads
    <3> QED
      BY <3>1, <3>3 DEF Allowed, Given, Result, Scratch
  <2> QED
    BY <2>1, <2>2
<1> QED
  BY <1>1, MachineInvariance, PTL

(* The three together: a disciplined call is safe whatever its threads do. *)
THEOREM DisciplinedIsSafe == Spec => [](Disciplined => TypeOK /\ RaceFree /\ WithinBounds)
<1>1. Disciplined <=> IsOrdered(plan) /\ SetsCounterFirst(plan) /\ IsInside(plan)
  BY DEF Disciplined
<1> QED
  BY <1>1, TypeCorrect, OrderedIsRaceFree, InsideStays, PTL

-----------------------------------------------------------------------------
(* Plans without a barrier.                                                *)

(* No thread uses what another one computes: every step computes elements  *)
(* of the result from inputs alone (or leaves something in wdata on the    *)
(* way), no two threads write the same cell, and no element is left out.   *)
IsDirect(p) ==
  /\ p.given \cap (DOMAIN p.result \cup p.scratch) = {}
  /\ \A t \in DOMAIN p.program : \A k \in DOMAIN p.program[t] :
       /\ p.program[t][k] \notin {Barrier, SetChunks, Claims}
       /\ \A c \in DOMAIN p.program[t][k] :
            /\ c \in DOMAIN p.result \cup p.scratch
            /\ p.program[t][k][c] \subseteq p.given
            /\ c \in DOMAIN p.result => p.program[t][k][c] = p.result[c]
  /\ \A t, u \in DOMAIN p.program : t # u =>
       \A j \in DOMAIN p.program[t], k \in DOMAIN p.program[u] :
         DOMAIN p.program[t][j] \cap DOMAIN p.program[u][k] = {}
  /\ \A c \in DOMAIN p.result :
       \E t \in DOMAIN p.program : \E k \in DOMAIN p.program[t] : c \in DOMAIN p.program[t][k]

LEMMA DirectDiscipline ==
  ASSUME NEW p, IsDirect(p)
  PROVE  IsOrdered(p) /\ SetsCounterFirst(p) /\ IsInside(p)
<1>1. \A t \in DOMAIN p.program : \A k \in DOMAIN p.program[t] :
        Jobs(p, t, k) = {<<0, p.program[t][k]>>}
  BY DEF IsDirect, Jobs
<1>2. \A t \in DOMAIN p.program : \A k \in DOMAIN p.program[t] :
        Touched(p.program[t][k]) \subseteq DOMAIN p.program[t][k] \cup p.given
  BY DEF IsDirect, Touched
<1>3. \A t \in DOMAIN p.program : \A k \in DOMAIN p.program[t] :
        DOMAIN p.program[t][k] \subseteq DOMAIN p.result \cup p.scratch
  BY DEF IsDirect
<1>4. IsOrdered(p)
  <2> SUFFICES ASSUME NEW t \in DOMAIN p.program, NEW u \in DOMAIN p.program, t # u,
                      NEW j \in DOMAIN p.program[t], NEW k \in DOMAIN p.program[u]
               PROVE  DOMAIN p.program[t][j] \cap Touched(p.program[u][k]) = {}
    BY <1>1 DEF IsOrdered
  <2>1. DOMAIN p.program[t][j] \cap DOMAIN p.program[u][k] = {}
    BY DEF IsDirect
  <2>2. DOMAIN p.program[t][j] \cap p.given = {}
    BY <1>3 DEF IsDirect
  <2> QED
    BY <1>2, <2>1, <2>2
<1>5. SetsCounterFirst(p)
  BY DEF IsDirect, SetsCounterFirst
<1>6. IsInside(p)
  <2> SUFFICES ASSUME NEW t \in DOMAIN p.program, NEW k \in DOMAIN p.program[t]
               PROVE  Touched(p.program[t][k]) \subseteq p.given \cup DOMAIN p.result \cup p.scratch
    BY <1>1 DEF IsInside
  <2> QED
    BY <1>2, <1>3
<1> QED
  BY <1>4, <1>5, <1>6

(* What a thread has been through is as the result has to be.              *)
ComputedInv ==
  \A t \in Threads : \A k \in DOMAIN Program(t) :
    k < at[t] => \A c \in DOMAIN Program(t)[k] \cap DOMAIN Result : from[c] = Result[c]

(* A step that reads inputs only computes from what it reads.              *)
LEMMA FromInputs ==
  ASSUME Structure, Given \cap (DOMAIN Result \cup Scratch) = {}, NEW D \in SUBSET Given
  PROVE  UNION {Origin(d) : d \in D} = D
<1>1. \A d \in D : Origin(d) = {d}
  BY DEF Structure, Origin
<1> QED
  BY <1>1

LEMMA DirectStep ==
  ASSUME MachineInv, IsDirect(plan), ComputedInv, [Next]_vars
  PROVE  ComputedInv'
<1>1. Structure
  BY DEF MachineInv
<1>2. \A t \in Threads : ~Done(t) => Program(t)[at[t]] \notin {Barrier, SetChunks, Claims}
  BY <1>1, Places DEF IsDirect, Threads, Program
<1>3. CASE UNCHANGED vars
  BY <1>3 DEF vars, ComputedInv, Threads, Program, Result
<1>4. ASSUME NEW t \in Threads, Work(t) PROVE ComputedInv'
  <2> DEFINE step == Program(t)[at[t]]
  <2>1. /\ Advances(t) /\ plan' = plan /\ at[t] \in DOMAIN Program(t) /\ Doing(t) = step
        /\ Perform(step)
    BY <1>1, <1>4, Places DEF Work, Running, Doing, Advances
  <2>2. /\ Threads' = Threads /\ Result' = Result /\ \A u \in Threads : Program(u)' = Program(u)
        /\ at'[t] = at[t] + 1 /\ \A u \in Threads \ {t} : at'[u] = at[u]
    BY <1>1, <2>1, AdvancePlaces
  <2>3. ASSUME NEW c \in DOMAIN step \cap DOMAIN Result PROVE from'[c] = Result[c]
    <3>1. c \in DOMAIN from
      BY <1>1 DEF Structure
    <3>2. step[c] \in SUBSET Given /\ step[c] = Result[c]
      BY <2>1 DEF IsDirect, Threads, Program, Given, Result
    <3>3. Given \cap (DOMAIN Result \cup Scratch) = {}
      BY DEF IsDirect, Given, Result, Scratch
    <3>4. UNION {Origin(d) : d \in step[c]} = step[c]
      BY <1>1, <3>2, <3>3, FromInputs
    <3>5. from'[c] = UNION {Origin(d) : d \in step[c]}
      BY <2>1, <3>1 DEF Perform
    <3> QED
      BY <3>2, <3>4, <3>5
  <2>4. ASSUME NEW c \in DOMAIN Result, c \notin DOMAIN step PROVE from'[c] = from[c]
    <3>1. c \in DOMAIN from
      BY <1>1 DEF Structure
    <3> QED
      BY <2>1, <2>4, <3>1 DEF Perform
  <2> SUFFICES ASSUME NEW u \in Threads, NEW k \in DOMAIN Program(u), k < at'[u],
                      NEW c \in DOMAIN Program(u)[k] \cap DOMAIN Result
               PROVE  from'[c] = Result[c]
    BY <2>2 DEF ComputedInv
  <2>5. CASE c \in DOMAIN step
    BY <2>3, <2>5
  <2>6. CASE c \notin DOMAIN step
    <3>1. k < at[u]
      <4>1. k \in Nat /\ at[u] \in Nat /\ at[t] \in Nat
        BY <1>1, Places
      <4>2. u = t => k # at[t]
        BY <2>6
      <4> QED
        BY <2>2, <4>1, <4>2
    <3> QED
      BY <2>4, <2>6, <3>1 DEF ComputedInv
  <2> QED
    BY <2>5, <2>6
<1>5. ASSUME NEW g \in Teams, Meet(g) PROVE FALSE
  <2>1. PICK t \in Threads : t \in Team(g)
    BY DEF Teams, Team
  <2> QED
    BY <1>2, <1>5, <2>1 DEF Meet, Marked
<1>6. ASSUME NEW t \in Threads, SetCounter(t) \/ WorkChunk(t) \/ LeaveChunks(t) PROVE FALSE
  BY <1>2, <1>6 DEF SetCounter, WorkChunk, LeaveChunks, Chunking, Marked
<1> QED
  BY <1>3, <1>4, <1>5, <1>6 DEF Next

(* A call whose threads do not use what others compute is right in every   *)
(* interleaving: its threads do not race, stay inside their tensors, and   *)
(* leave each element of the result computed from exactly the inputs that  *)
(* its definition names.                                                   *)
Right == TypeOK /\ RaceFree /\ WithinBounds /\ ResultsAreComplete

THEOREM DirectIsRight == Spec => [](IsDirect(plan) => Right)
<1>1. Init => (IsDirect(plan) => ComputedInv)
  <2> SUFFICES ASSUME Init, NEW t \in Threads, NEW k \in DOMAIN Program(t), k < at[t] PROVE FALSE
    BY DEF ComputedInv
  <2>1. Structure
    BY MachineInit DEF MachineInv
  <2>2. k \in Nat \ {0} /\ at[t] = 1
    BY <2>1, Places DEF Init
  <2> QED
    BY <2>2
<1>2. MachineInv /\ (IsDirect(plan) => ComputedInv) /\ [Next]_vars => (IsDirect(plan) => ComputedInv)'
  <2> SUFFICES ASSUME MachineInv, IsDirect(plan) => ComputedInv, [Next]_vars, IsDirect(plan)'
               PROVE  ComputedInv'
    OBVIOUS
  <2>1. plan' = plan
    BY DEF Next, Work, Meet, SetCounter, WorkChunk, LeaveChunks, vars
  <2>2. IsDirect(plan)
    BY <2>1 DEF IsDirect
  <2> QED
    BY <2>2, DirectStep
<1>3. MachineInv /\ IsDirect(plan) /\ ComputedInv => ResultsAreComplete
  <2> SUFFICES ASSUME MachineInv, IsDirect(plan), ComputedInv, Finished, NEW c \in DOMAIN Result
               PROVE  from[c] = Result[c]
    BY DEF ResultsAreComplete
  <2>1. PICK t \in Threads : \E k \in DOMAIN Program(t) : c \in DOMAIN Program(t)[k]
    BY DEF IsDirect, Threads, Program, Result
  <2>2. PICK k \in DOMAIN Program(t) : c \in DOMAIN Program(t)[k]
    BY <2>1
  <2>3. k < at[t]
    BY Places DEF MachineInv, Finished, Done
  <2> QED
    BY <2>2, <2>3 DEF ComputedInv
<1>4. IsDirect(plan) => IsOrdered(plan) /\ SetsCounterFirst(plan) /\ IsInside(plan)
  BY DirectDiscipline
<1> QED
  BY <1>1, <1>2, <1>3, <1>4, MachineInvariance, TypeCorrect, OrderedIsRaceFree, InsideStays, PTL
     DEF Spec, Right

-----------------------------------------------------------------------------
(* Plans with one barrier.                                                 *)

Prepares(p, t) == p.program[t][1]
Finishes(p, t) == IF 3 \in DOMAIN p.program[t] THEN p.program[t][3] ELSE Idle
Prepared(p) == UNION {DOMAIN Prepares(p, t) : t \in DOMAIN p.program}

\* What cell d is computed from when the barrier opens.
Ready(p, d) ==
  IF d \in p.given THEN {d}
  ELSE UNION {Prepares(p, t)[d] : t \in {t \in DOMAIN p.program : d \in DOMAIN Prepares(p, t)}}

(* Every thread computes some cells from inputs alone, waits for the       *)
(* others, and computes others from inputs and from what anyone prepared;  *)
(* what it finishes no other thread uses after the barrier.                *)
IsPrepared(p) ==
  /\ p.given \cap (DOMAIN p.result \cup p.scratch) = {}
  /\ \A t, u \in DOMAIN p.program : p.team[t] = p.team[u]
  /\ \A t \in DOMAIN p.program :
       /\ DOMAIN p.program[t] \in {1 .. 2, 1 .. 3} /\ p.program[t][2] = Barrier
       /\ {Prepares(p, t), Finishes(p, t)} \cap {Barrier, SetChunks, Claims} = {}
       /\ DOMAIN Prepares(p, t) \cup DOMAIN Finishes(p, t) \subseteq DOMAIN p.result \cup p.scratch
       /\ \A c \in DOMAIN Prepares(p, t) : Prepares(p, t)[c] \subseteq p.given
       /\ \A c \in DOMAIN Finishes(p, t) : Finishes(p, t)[c] \subseteq p.given \cup Prepared(p)
  /\ \A t, u \in DOMAIN p.program : t # u =>
       /\ DOMAIN Prepares(p, t) \cap DOMAIN Prepares(p, u) = {}
       /\ DOMAIN Finishes(p, t) \cap Touched(Finishes(p, u)) = {}
  /\ \A c \in DOMAIN p.result :
       \/ \E t \in DOMAIN p.program :
            c \in DOMAIN Finishes(p, t) /\ p.result[c] = UNION {Ready(p, d) : d \in Finishes(p, t)[c]}
       \/ /\ \A t \in DOMAIN p.program : c \notin DOMAIN Finishes(p, t)
          /\ c \in Prepared(p) /\ p.result[c] = Ready(p, c)

LEMMA StepsOfPrepared ==
  ASSUME NEW p, IsPrepared(p), NEW t \in DOMAIN p.program
  PROVE  /\ DOMAIN p.program[t] = 1 .. 2 \/ DOMAIN p.program[t] = 1 .. 3
         /\ p.program[t][1] = Prepares(p, t) /\ p.program[t][2] = Barrier
         /\ 3 \in DOMAIN p.program[t] => p.program[t][3] = Finishes(p, t)
         /\ Prepares(p, t) # Barrier /\ Prepares(p, t) # SetChunks /\ Prepares(p, t) # Claims
         /\ Finishes(p, t) # Barrier /\ Finishes(p, t) # SetChunks /\ Finishes(p, t) # Claims
<1>1. /\ DOMAIN p.program[t] \in {1 .. 2, 1 .. 3} /\ p.program[t][2] = Barrier
      /\ {Prepares(p, t), Finishes(p, t)} \cap {Barrier, SetChunks, Claims} = {}
  BY DEF IsPrepared
<1>2. DOMAIN p.program[t] = 1 .. 2 \/ DOMAIN p.program[t] = 1 .. 3
  BY <1>1
<1>3. /\ Prepares(p, t) # Barrier /\ Prepares(p, t) # SetChunks /\ Prepares(p, t) # Claims
      /\ Finishes(p, t) # Barrier /\ Finishes(p, t) # SetChunks /\ Finishes(p, t) # Claims
  BY <1>1
<1>4. p.program[t][1] = Prepares(p, t) /\ (3 \in DOMAIN p.program[t] => p.program[t][3] = Finishes(p, t))
  BY DEF Prepares, Finishes
<1> QED
  BY <1>1, <1>2, <1>3, <1>4

LEMMA BarriersOfPrepared ==
  ASSUME NEW p, IsPrepared(p), NEW t \in DOMAIN p.program
  PROVE  /\ BarriersBefore(p, t, 1) = 0 /\ BarriersBefore(p, t, 2) = 0
         /\ 3 \in DOMAIN p.program[t] => BarriersBefore(p, t, 3) = 1
<1>1. /\ p.program[t][1] # Barrier /\ p.program[t][2] = Barrier
  BY DEF IsPrepared, Prepares
<1>2. {j \in 1 .. 1 - 1 : p.program[t][j] = Barrier} = {} /\ {j \in 1 .. 2 - 1 : p.program[t][j] = Barrier} = {}
  BY <1>1
<1>3. {j \in 1 .. 3 - 1 : p.program[t][j] = Barrier} = {2}
  BY <1>1
<1> QED
  BY <1>2, <1>3, FS_EmptySet, FS_Singleton DEF BarriersBefore

LEMMA PreparedDiscipline ==
  ASSUME NEW p, IsPrepared(p)
  PROVE  IsOrdered(p) /\ SetsCounterFirst(p) /\ IsInside(p)
<1>1. \A t \in DOMAIN p.program : \A k \in DOMAIN p.program[t] :
        \/ k = 1 /\ Jobs(p, t, k) = {<<0, Prepares(p, t)>>}
        \/ k = 2 /\ Jobs(p, t, k) = {}
        \/ k = 3 /\ Jobs(p, t, k) = {<<0, Finishes(p, t)>>}
  <2> TAKE t \in DOMAIN p.program
  <2> TAKE k \in DOMAIN p.program[t]
  <2>1. k \in 1 .. 3 /\ p.program[t][2] = Barrier /\ p.program[t][1] = Prepares(p, t)
        /\ (k = 3 => p.program[t][3] = Finishes(p, t))
        /\ Prepares(p, t) \notin {Barrier, SetChunks, Claims} /\ Finishes(p, t) \notin {Barrier, SetChunks, Claims}
    BY StepsOfPrepared
  <2>2. CASE k = 2
    BY <2>1, <2>2, MarksDiffer DEF Jobs
  <2>3. CASE k # 2
    <3>1. p.program[t][k] \notin {Barrier, SetChunks, Claims}
      BY <2>1, <2>3
    <3>2. Jobs(p, t, k) = {<<0, p.program[t][k]>>}
      BY <3>1 DEF Jobs
    <3> QED
      BY <2>1, <2>3, <3>2
  <2> QED
    BY <2>2, <2>3
<1>2. \A t \in DOMAIN p.program :
        /\ Touched(Prepares(p, t)) \subseteq DOMAIN Prepares(p, t) \cup p.given
        /\ Touched(Finishes(p, t)) \subseteq DOMAIN Finishes(p, t) \cup p.given \cup Prepared(p)
        /\ DOMAIN Prepares(p, t) \cap p.given = {} /\ DOMAIN Finishes(p, t) \cap p.given = {}
        /\ DOMAIN Prepares(p, t) \subseteq DOMAIN p.result \cup p.scratch
        /\ DOMAIN Finishes(p, t) \subseteq DOMAIN p.result \cup p.scratch
  BY DEF IsPrepared, Touched
<1>3. Prepared(p) \subseteq DOMAIN p.result \cup p.scratch
  BY <1>2 DEF Prepared
<1>4. IsInside(p)
  <2> SUFFICES ASSUME NEW t \in DOMAIN p.program, NEW k \in DOMAIN p.program[t], NEW a \in Jobs(p, t, k)
               PROVE  Touched(a[2]) \subseteq p.given \cup DOMAIN p.result \cup p.scratch
    BY DEF IsInside
  <2>1. a[2] = Prepares(p, t) \/ a[2] = Finishes(p, t)
    BY <1>1
  <2> QED
    BY <1>2, <1>3, <2>1
<1>5. SetsCounterFirst(p)
  <2> SUFFICES ASSUME NEW t \in DOMAIN p.program, NEW k \in DOMAIN p.program[t] PROVE p.program[t][k] # Claims
    BY DEF SetsCounterFirst
  <2>1. k \in 1 .. 3 /\ p.program[t][2] = Barrier /\ p.program[t][1] = Prepares(p, t)
        /\ (k = 3 => p.program[t][3] = Finishes(p, t)) /\ Prepares(p, t) # Claims /\ Finishes(p, t) # Claims
    BY StepsOfPrepared
  <2> QED
    BY <2>1, MarksDiffer
<1>6. IsOrdered(p)
  <2> SUFFICES ASSUME NEW t \in DOMAIN p.program, NEW u \in DOMAIN p.program, t # u,
                      NEW j \in DOMAIN p.program[t], NEW k \in DOMAIN p.program[u],
                      BarriersBefore(p, t, j) = BarriersBefore(p, u, k),
                      NEW a \in Jobs(p, t, j), NEW b \in Jobs(p, u, k)
               PROVE  DOMAIN a[2] \cap Touched(b[2]) = {}
    BY DEF IsOrdered, IsPrepared
  <2>1. (j = 1 <=> k = 1) /\ (j = 3 <=> k = 3)
    BY <1>1, BarriersOfPrepared
  <2>2. (j = 1 /\ a[2] = Prepares(p, t) /\ b[2] = Prepares(p, u))
        \/ (j = 3 /\ a[2] = Finishes(p, t) /\ b[2] = Finishes(p, u))
    BY <1>1, <2>1
  <2>3. DOMAIN Prepares(p, t) \cap DOMAIN Prepares(p, u) = {} /\ DOMAIN Finishes(p, t) \cap Touched(Finishes(p, u)) = {}
    BY DEF IsPrepared
  <2> QED
    BY <1>2, <2>2, <2>3
<1> QED
  BY <1>4, <1>5, <1>6

(* A thread that has prepared leaves what it prepared until somebody       *)
(* finishes with that cell; who has finished has computed the result.      *)
PreparedInv ==
  /\ \A t \in Threads : at[t] >= 2 => \A c \in DOMAIN Prepares(plan, t) :
       (\A u \in Threads : at[u] = 4 => c \notin DOMAIN Finishes(plan, u)) => from[c] = Prepares(plan, t)[c]
  /\ \A t \in Threads : at[t] = 4 => \A c \in DOMAIN Finishes(plan, t) :
       from[c] = UNION {Ready(plan, d) : d \in Finishes(plan, t)[c]}

LEMMA PreparedPlaces ==
  ASSUME MachineInv, IsPrepared(plan), NEW t \in Threads
  PROVE  /\ at[t] \in 1 .. 4
         /\ Done(t) <=> at[t] = 4 \/ (at[t] = 3 /\ 3 \notin DOMAIN Program(t))
         /\ ~Done(t) => Program(t)[at[t]] = (CASE at[t] = 1 -> Prepares(plan, t)
                                              [] at[t] = 2 -> Barrier [] at[t] = 3 -> Finishes(plan, t))
         /\ \A u \in Threads : at[t] >= 3 => at[u] >= 3
<1>1. Structure /\ LockStepInv
  BY DEF MachineInv
<1>2. ASSUME NEW u \in Threads
      PROVE  /\ DOMAIN Program(u) = 1 .. Len(Program(u)) /\ at[u] \in Nat
             /\ Len(Program(u)) = 2 \/ Len(Program(u)) = 3
             /\ 1 <= at[u] /\ at[u] <= Len(Program(u)) + 1
  <2>1. DOMAIN Program(u) = 1 .. 2 \/ DOMAIN Program(u) = 1 .. 3
    BY StepsOfPrepared DEF Threads, Program
  <2>2. DOMAIN Program(u) = 1 .. Len(Program(u)) /\ Len(Program(u)) \in Nat /\ at[u] \in 1 .. Len(Program(u)) + 1
    BY <1>1, Places
  <2> QED
    BY <2>1, <2>2
<1>3. Program(t)[1] = Prepares(plan, t) /\ Program(t)[2] = Barrier /\ Prepares(plan, t) # Barrier
      /\ (3 \in DOMAIN Program(t) => Program(t)[3] = Finishes(plan, t))
  BY StepsOfPrepared DEF Threads, Program
<1>4. Done(t) <=> at[t] > Len(Program(t))
  BY DEF Done
<1>0. ASSUME NEW u \in Threads PROVE at[u] \in 1 .. 4
  <2> DEFINE len == Len(Program(u))
  <2>1. at[u] \in Nat /\ 1 <= at[u] /\ at[u] <= len + 1 /\ (len = 2 \/ len = 3)
    BY <1>2
  <2> HIDE DEF len
  <2> QED
    BY <2>1
<1>5. ASSUME NEW u \in Threads, at[t] >= 3, at[u] < 3 PROVE FALSE
  <2>1. plan.team[t] = plan.team[u]
    BY DEF IsPrepared, Threads
  <2>2. BarriersBefore(plan, t, at[t]) = BarriersBefore(plan, u, at[u])
    BY <1>1, <2>1 DEF LockStepInv
  <2>3. at[u] \in 1 .. 2 /\ at[t] \in 3 .. 4
    BY <1>0, <1>5
  <2>4. BarriersBefore(plan, u, at[u]) = 0
    BY <2>3, BarriersOfPrepared DEF Threads
  <2>6. BarriersBefore(plan, t, 3) <= BarriersBefore(plan, t, at[t])
    BY <2>3, BeforeIsMonotone
  <2>7. {j \in 1 .. 3 - 1 : plan.program[t][j] = Barrier} = {2}
    BY <1>3 DEF Program
  <2>8. BarriersBefore(plan, t, 3) = 1
    BY <2>7, FS_Singleton DEF BarriersBefore
  <2> QED
    BY <2>2, <2>4, <2>6, <2>8
<1>6. \A u \in Threads : at[t] >= 3 => at[u] >= 3
  BY <1>0, <1>5
<1>7. Done(t) <=> at[t] = 4 \/ (at[t] = 3 /\ 3 \notin DOMAIN Program(t))
  <2> DEFINE len == Len(Program(t))
  <2>1. /\ at[t] \in Nat /\ at[t] <= len + 1 /\ (len = 2 \/ len = 3) /\ (3 \in DOMAIN Program(t) <=> len = 3)
        /\ (Done(t) <=> at[t] > len)
    BY <1>2, <1>4
  <2> HIDE DEF len
  <2> QED
    BY <2>1
<1>8. ASSUME ~Done(t) PROVE at[t] \in 1 .. 3 /\ (at[t] = 3 => 3 \in DOMAIN Program(t))
  BY <1>0, <1>7, <1>8
<1> QED
  BY <1>0, <1>3, <1>6, <1>7, <1>8

LEMMA PreparedStep ==
  ASSUME MachineInv, IsPrepared(plan), PreparedInv, [Next]_vars
  PROVE  PreparedInv'
<1>1. Structure
  BY DEF MachineInv
<1>2. plan' = plan /\ Threads' = Threads
  BY DEF Next, Work, Meet, SetCounter, WorkChunk, LeaveChunks, vars, Threads
<1>3. \A t \in Threads : /\ Prepares(plan, t)' = Prepares(plan, t) /\ Finishes(plan, t)' = Finishes(plan, t)
  BY <1>2 DEF Prepares, Finishes
<1>4. \A d : Ready(plan, d)' = Ready(plan, d)
  BY <1>2, <1>3 DEF Ready, Prepares
<1>5. CASE UNCHANGED vars
  BY <1>2, <1>3, <1>4, <1>5 DEF vars, PreparedInv
<1>6. ASSUME NEW g \in Teams, Meet(g) PROVE PreparedInv'
  <2>1. \A t \in Threads : at'[t] = at[t] \/ (at[t] = 2 /\ at'[t] = 3)
    <3> TAKE t \in Threads
    <3>1. t \in Team(g) => Marked(t, Barrier) /\ at'[t] = at[t] + 1
      BY <1>6 DEF Meet
    <3>2. t \notin Team(g) => at'[t] = at[t]
      BY <1>6 DEF Meet
    <3>3. Marked(t, Barrier) => at[t] = 2
      <4>1. Prepares(plan, t) # Barrier /\ Finishes(plan, t) # Barrier
        BY StepsOfPrepared DEF Threads
      <4> QED
        BY <4>1, PreparedPlaces DEF Marked
    <3>4. CASE t \in Team(g)
      <4>1. at[t] = 2
        BY <3>1, <3>3, <3>4
      <4> QED
        BY <3>1, <3>4, <4>1
    <3>5. CASE t \notin Team(g)
      BY <3>2, <3>5
    <3> QED
      BY <3>4, <3>5
  <2>2. from' = from
    BY <1>6 DEF Meet
  <2>3. \A t \in Threads : (at'[t] >= 2 <=> at[t] >= 2) /\ (at'[t] = 4 <=> at[t] = 4)
    BY <2>1, PreparedPlaces
  <2> QED
    BY <1>2, <1>3, <1>4, <2>2, <2>3 DEF PreparedInv
<1>7. ASSUME NEW t \in Threads, Work(t) PROVE PreparedInv'
  <2>1. at[t] \in {1, 3} /\ Doing(t) = (IF at[t] = 1 THEN Prepares(plan, t) ELSE Finishes(plan, t)) /\ ~Done(t)
    BY <1>7, PreparedPlaces DEF Work, Running, Doing
  <2>2. at'[t] = at[t] + 1 /\ \A u \in Threads \ {t} : at'[u] = at[u]
    BY <1>1, <1>7 DEF Work, Structure
  <2>3. \A c \in DOMAIN from : from'[c] = IF c \in DOMAIN Doing(t) THEN UNION {Origin(d) : d \in Doing(t)[c]} ELSE from[c]
    BY <1>7 DEF Work, Perform
  <2>4. \A u \in Threads : DOMAIN Prepares(plan, u) \cup DOMAIN Finishes(plan, u) \subseteq DOMAIN from
    BY <1>1 DEF IsPrepared, Structure, Threads, Result, Scratch
  <2>5. CASE at[t] = 1
    <3>1. \A u \in Threads : at[u] <= 2 /\ at'[u] <= 2
      BY <2>2, <2>5, PreparedPlaces
    <3>2. ASSUME NEW c \in DOMAIN Prepares(plan, t) PROVE from'[c] = Prepares(plan, t)[c]
      <4>1. Given \cap (DOMAIN Result \cup Scratch) = {} /\ Prepares(plan, t)[c] \in SUBSET Given
        BY DEF IsPrepared, Threads, Given, Result, Scratch
      <4>2. UNION {Origin(d) : d \in Prepares(plan, t)[c]} = Prepares(plan, t)[c]
        BY <1>1, <4>1, FromInputs
      <4> QED
        BY <2>1, <2>3, <2>4, <2>5, <4>2
    <3>3. ASSUME NEW u \in Threads, u # t, NEW c \in DOMAIN Prepares(plan, u) PROVE from'[c] = from[c]
      <4>1. c \notin DOMAIN Prepares(plan, t) /\ c \in DOMAIN from
        BY <2>4, <3>3 DEF IsPrepared, Threads
      <4> QED
        BY <2>1, <2>3, <2>5, <4>1
    <3>4. ASSUME NEW u \in Threads, at'[u] >= 2, NEW c \in DOMAIN Prepares(plan, u)
          PROVE  from'[c] = Prepares(plan, u)[c]
      <4>1. CASE u = t
        BY <3>2, <4>1
      <4>2. CASE u # t
        <5>1. at[u] >= 2 /\ \A v \in Threads : at[v] # 4
          BY <2>2, <3>1, <3>4, <4>2, PreparedPlaces
        <5> QED
          BY <3>3, <4>2, <5>1 DEF PreparedInv
      <4> QED
        BY <4>1, <4>2
    <3>5. \A u \in Threads : at'[u] # 4
      BY <2>2, <3>1, PreparedPlaces
    <3> QED
      BY <1>2, <1>3, <3>4, <3>5 DEF PreparedInv
  <2>6. CASE at[t] = 3
    <3> DEFINE step == Finishes(plan, t)
    <3>1. Doing(t) = step /\ at'[t] = 4 /\ \A u \in Threads : at[u] >= 3 /\ at[u] \in 1 .. 4
      BY <2>1, <2>2, <2>6, PreparedPlaces
    <3>2. ASSUME NEW u \in Threads, u # t PROVE DOMAIN step \cap Touched(Finishes(plan, u)) = {}
                                               /\ DOMAIN Finishes(plan, u) \cap Touched(step) = {}
      BY <3>2 DEF IsPrepared, Threads
    <3>3. ASSUME NEW c \in DOMAIN step, NEW d \in step[c] PROVE Origin(d) = Ready(plan, d)
      <4>1. CASE d \in plan.given
        <5>1. d \notin DOMAIN from
          BY <1>1, <4>1 DEF IsPrepared, Structure, Result, Scratch
        <5> QED
          BY <4>1, <5>1 DEF Origin, Ready, Given
      <4>2. CASE d \notin plan.given
        <5>1. d \in Prepared(plan)
          BY <3>3, <4>2 DEF IsPrepared, Threads
        <5>2. PICK u \in Threads : d \in DOMAIN Prepares(plan, u)
          BY <5>1 DEF Prepared, Threads
        <5>3. \A v \in Threads : d \in DOMAIN Prepares(plan, v) => v = u
          BY <5>2 DEF IsPrepared, Threads
        <5>4. {v \in DOMAIN plan.program : d \in DOMAIN Prepares(plan, v)} = {u}
          BY <5>2, <5>3 DEF Threads
        <5>5. Ready(plan, d) = Prepares(plan, u)[d]
          BY <4>2, <5>4 DEF Ready
        <5>6. \A v \in Threads : at[v] = 4 => d \notin DOMAIN Finishes(plan, v)
          <6> SUFFICES ASSUME NEW v \in Threads, at[v] = 4 PROVE d \notin DOMAIN Finishes(plan, v)
            OBVIOUS
          <6>1. v # t
            BY <2>6
          <6>2. d \in Touched(step)
            BY <3>3 DEF Touched
          <6> QED
            BY <3>2, <6>1, <6>2
        <5>7. from[d] = Prepares(plan, u)[d]
          BY <3>1, <5>2, <5>6 DEF PreparedInv
        <5>8. d \in DOMAIN from
          BY <2>4, <5>2
        <5> QED
          BY <5>5, <5>7, <5>8 DEF Origin
      <4> QED
        BY <4>1, <4>2
    <3>4. ASSUME NEW c \in DOMAIN step PROVE from'[c] = UNION {Ready(plan, d) : d \in step[c]}
      <4>1. from'[c] = UNION {Origin(d) : d \in step[c]}
        BY <2>3, <2>4, <3>1
      <4>2. {Origin(d) : d \in step[c]} = {Ready(plan, d) : d \in step[c]}
        BY <3>3
      <4> QED
        BY <4>1, <4>2
    <3>5. ASSUME NEW c \in DOMAIN from, c \notin DOMAIN step PROVE from'[c] = from[c]
      BY <2>3, <3>1, <3>5
    <3> HIDE DEF step
    <3>6. ASSUME NEW u \in Threads, NEW c \in DOMAIN Prepares(plan, u),
                 \A v \in Threads : at'[v] = 4 => c \notin DOMAIN Finishes(plan, v)
          PROVE  from'[c] = Prepares(plan, u)[c]
      <4>1. c \notin DOMAIN step /\ c \in DOMAIN from
        BY <2>4, <3>1, <3>6 DEF step
      <4>2. \A v \in Threads : at[v] = 4 => c \notin DOMAIN Finishes(plan, v)
        <5> SUFFICES ASSUME NEW v \in Threads, at[v] = 4 PROVE at'[v] = 4
          BY <3>6
        <5> QED
          BY <2>2, <2>6
      <4> QED
        BY <3>1, <3>5, <4>1, <4>2 DEF PreparedInv
    <3>7. ASSUME NEW u \in Threads, at'[u] = 4, NEW c \in DOMAIN Finishes(plan, u)
          PROVE  from'[c] = UNION {Ready(plan, d) : d \in Finishes(plan, u)[c]}
      <4>1. CASE u = t
        BY <3>4, <4>1 DEF step
      <4>2. CASE u # t
        <5>1. c \notin DOMAIN step
          BY <3>2, <4>2 DEF Touched
        <5>2. c \in DOMAIN from /\ at[u] = 4
          BY <2>2, <2>4, <3>7, <4>2
        <5> QED
          BY <3>5, <5>1, <5>2 DEF PreparedInv
      <4> QED
        BY <4>1, <4>2
    <3> QED
      BY <1>2, <1>3, <1>4, <3>6, <3>7 DEF PreparedInv
  <2> QED
    BY <2>1, <2>5, <2>6
<1>8. ASSUME NEW t \in Threads, SetCounter(t) \/ WorkChunk(t) \/ LeaveChunks(t) PROVE FALSE
  <2>1. Marked(t, SetChunks) \/ Marked(t, Claims)
    BY <1>8 DEF SetCounter, WorkChunk, LeaveChunks, Chunking
  <2>2. /\ Prepares(plan, t) # SetChunks /\ Prepares(plan, t) # Claims
        /\ Finishes(plan, t) # SetChunks /\ Finishes(plan, t) # Claims
    BY StepsOfPrepared DEF Threads
  <2> QED
    BY <2>1, <2>2, MarksDiffer, PreparedPlaces DEF Marked
<1> QED
  BY <1>5, <1>6, <1>7, <1>8 DEF Next

(* A call whose threads prepare, wait for each other and finish is right   *)
(* in every interleaving.                                                  *)
THEOREM PreparedIsRight == Spec => [](IsPrepared(plan) => Right)
<1>1. Init => (IsPrepared(plan) => PreparedInv)
  <2> SUFFICES ASSUME Init, NEW t \in Threads PROVE at[t] = 1
    BY DEF PreparedInv
  <2> QED
    BY DEF Init
<1>2. MachineInv /\ (IsPrepared(plan) => PreparedInv) /\ [Next]_vars => (IsPrepared(plan) => PreparedInv)'
  <2> SUFFICES ASSUME MachineInv, IsPrepared(plan) => PreparedInv, [Next]_vars, IsPrepared(plan)'
               PROVE  PreparedInv'
    OBVIOUS
  <2>1. plan' = plan
    BY DEF Next, Work, Meet, SetCounter, WorkChunk, LeaveChunks, vars
  <2>2. IsPrepared(plan)' = IsPrepared(plan)
    BY <2>1 DEF IsPrepared, Prepares, Finishes, Prepared, Ready, Touched
  <2> QED
    BY <2>2, PreparedStep
<1>3. MachineInv /\ IsPrepared(plan) /\ PreparedInv => ResultsAreComplete
  <2> SUFFICES ASSUME MachineInv, IsPrepared(plan), PreparedInv, Finished, NEW c \in DOMAIN Result
               PROVE  from[c] = Result[c]
    BY DEF ResultsAreComplete
  <2>1. \A t \in Threads : at[t] >= 3 /\ (DOMAIN Finishes(plan, t) # {} => at[t] = 4)
    <3> TAKE t \in Threads
    <3>1. Done(t)
      BY DEF Finished
    <3>2. 3 \notin DOMAIN Program(t) => DOMAIN Finishes(plan, t) = {}
      BY NothingToDo DEF Finishes, Program
    <3> QED
      BY <3>1, <3>2, PreparedPlaces
  <2>2. ASSUME NEW t \in Threads, c \in DOMAIN Finishes(plan, t),
               Result[c] = UNION {Ready(plan, d) : d \in Finishes(plan, t)[c]}
        PROVE  from[c] = Result[c]
    BY <2>1, <2>2 DEF PreparedInv
  <2>3. ASSUME \A t \in Threads : c \notin DOMAIN Finishes(plan, t), c \in Prepared(plan), Result[c] = Ready(plan, c)
        PROVE  from[c] = Result[c]
    <3>1. PICK u \in Threads : c \in DOMAIN Prepares(plan, u)
      BY <2>3 DEF Prepared, Threads
    <3>2. {v \in DOMAIN plan.program : c \in DOMAIN Prepares(plan, v)} = {u}
      BY <3>1 DEF IsPrepared, Threads
    <3>3. c \notin plan.given
      BY DEF IsPrepared, Result
    <3>4. Ready(plan, c) = Prepares(plan, u)[c]
      BY <3>2, <3>3 DEF Ready
    <3>5. from[c] = Prepares(plan, u)[c]
      BY <2>1, <2>3, <3>1, PreparedPlaces DEF PreparedInv
    <3> QED
      BY <2>3, <3>4, <3>5
  <2> QED
    BY <2>2, <2>3 DEF IsPrepared, Threads, Result
<1>4. IsPrepared(plan) => IsOrdered(plan) /\ SetsCounterFirst(plan) /\ IsInside(plan)
  BY PreparedDiscipline
<1> QED
  BY <1>1, <1>2, <1>3, <1>4, MachineInvariance, TypeCorrect, OrderedIsRaceFree, InsideStays, PTL
     DEF Spec, Right

-----------------------------------------------------------------------------
(* The operators: for tensors of every shape and any number of threads.    *)

LEMMA SizeOfShape ==
  ASSUME NEW ne \in Shape
  PROVE  /\ ne[1] \in Nat \ {0} /\ ne[2] \in Nat \ {0} /\ ne[3] \in Nat \ {0} /\ ne[4] \in Nat \ {0}
         /\ NRows(ne) \in Nat \ {0} /\ Size(ne) \in Nat \ {0} /\ Size(ne) = ne[1] * NRows(ne)
<1>1. ne[1] \in Nat \ {0} /\ ne[2] \in Nat \ {0} /\ ne[3] \in Nat \ {0} /\ ne[4] \in Nat \ {0}
  BY DEF Shape
<1>2. ASSUME NEW a \in Nat \ {0}, NEW b \in Nat \ {0} PROVE a * b \in Nat \ {0}
  OBVIOUS
<1>3. ne[2] * ne[3] \in Nat \ {0}
  BY <1>1, <1>2
<1>4. NRows(ne) \in Nat \ {0}
  BY <1>1, <1>2, <1>3 DEF NRows
<1>5. Size(ne) = ne[1] * NRows(ne)
  BY <1>1 DEF Size, NRows
<1>6. ne[1] * NRows(ne) \in Nat \ {0}
  BY <1>1, <1>2, <1>4
<1> QED
  BY <1>1, <1>4, <1>5, <1>6

(* Element i0 of row ir, and the row and place of an element.              *)
LEMMA RowOfIndex ==
  ASSUME NEW ne \in Shape, NEW ir \in Upto(NRows(ne)), NEW i0 \in Upto(ne[1])
  PROVE  LET k == ir * ne[1] + i0
         IN /\ k \in Upto(Size(ne)) /\ k \div ne[1] = ir
            /\ ElementOf(ne, k) \in Elements(ne) /\ OffsetOf(ne, ElementOf(ne, k)) = k
<1> DEFINE a == ne[1]  n == NRows(ne)  k == ir * a + i0
<1>1. a \in Nat \ {0} /\ n \in Nat \ {0} /\ Size(ne) = a * n
  BY SizeOfShape
<1>2. ir \in Nat /\ ir < n /\ i0 \in 0 .. a - 1
  BY <1>1 DEF Upto
<1> HIDE DEF a, n
<1>3. a * (ir + 1) <= a * n /\ a * (ir + 1) = a * ir + a /\ a * ir \in Nat /\ ir * a = a * ir
  BY <1>1, <1>2, Monotone
<1>4. k \in Nat /\ k < a * n
  BY <1>1, <1>2, <1>3
<1>5. k \in Upto(Size(ne))
  BY <1>1, <1>4 DEF Upto
<1>6. k \div a = ir
  BY <1>1, <1>2, <1>3, QuotientIs
<1> HIDE DEF k
<1>7. ElementOf(ne, k) \in Elements(ne) /\ OffsetOf(ne, ElementOf(ne, k)) = k
  BY <1>5, DecodingAnIndex
<1> QED
  BY <1>5, <1>6, <1>7 DEF k, a

LEMMA OffsetOfElement ==
  ASSUME NEW ne \in Shape, NEW i \in Elements(ne)
  PROVE  \E ir \in Upto(NRows(ne)), i0 \in Upto(ne[1]) : OffsetOf(ne, i) = ir * ne[1] + i0
<1> DEFINE a == ne[1]  b == ne[2]  c == ne[3]  d == ne[4]
           plane == i[3] + c * i[4]
           row == i[2] + b * plane
<1>1. a \in Nat \ {0} /\ b \in Nat \ {0} /\ c \in Nat \ {0} /\ d \in Nat \ {0}
  BY DEF Shape
<1>2. /\ i[1] \in Nat /\ i[1] < a /\ i[2] \in Nat /\ i[2] < b
      /\ i[3] \in Nat /\ i[3] < c /\ i[4] \in Nat /\ i[4] < d
  BY <1>1 DEF Elements, Upto
<1>3. NRows(ne) = b * (c * d)
  BY <1>1 DEF NRows
<1>4. OffsetOf(ne, i) = row * a + i[1]
  BY <1>1, <1>2 DEF OffsetOf
<1> HIDE DEF a, b, c, d
<1>5. plane \in Nat /\ plane < c * d /\ c * d \in Nat
  <2>1. c * (i[4] + 1) <= c * d /\ c * (i[4] + 1) = c * i[4] + c /\ c * i[4] \in Nat /\ c * d \in Nat
    BY <1>1, <1>2, Monotone
  <2> QED
    BY <1>1, <1>2, <2>1
<1> HIDE DEF plane
<1>6. row \in Nat /\ row < b * (c * d)
  <2>1. b * (plane + 1) <= b * (c * d) /\ b * (plane + 1) = b * plane + b /\ b * plane \in Nat
        /\ b * (c * d) \in Nat
    BY <1>1, <1>5, Monotone
  <2> QED
    BY <1>1, <1>2, <2>1
<1> HIDE DEF row
<1>7. row \in Upto(NRows(ne)) /\ i[1] \in Upto(a)
  <2>1. b * (c * d) \in Nat
    BY <1>1, <1>5, Monotone
  <2> QED
    BY <1>1, <1>2, <1>3, <1>6, <2>1 DEF Upto
<1> QED
  BY <1>4, <1>7 DEF a

(* own[ith] is a partition of the elements E of the result.                *)
IsShareOut(E, nth, own) ==
  /\ \A ith \in Upto(nth) : own[ith] \subseteq E
  /\ \A i \in E : \E ith \in Upto(nth) : i \in own[ith]
  /\ \A s, t \in Upto(nth) : s # t => own[s] \cap own[t] = {}

(* A partition of the rows is one of the elements in them.                 *)
LEMMA RowsShareOut ==
  ASSUME NEW ne \in Shape, NEW nth \in Nat \ {0}, NEW share, IsPartition(NRows(ne), nth, share)
  PROVE  IsShareOut(Elements(ne), nth, [ith \in Upto(nth) |-> RowCells(ne, share[ith])])
<1>1. \A ith \in Upto(nth) : \A ir \in share[ith] : ir \in Upto(NRows(ne))
  BY DEF IsPartition
<1>2. ASSUME NEW ith \in Upto(nth), NEW i \in RowCells(ne, share[ith]) PROVE i \in Elements(ne)
  BY <1>1, <1>2, RowOfIndex DEF RowCells
<1>3. ASSUME NEW i \in Elements(ne) PROVE \E ith \in Upto(nth) : i \in RowCells(ne, share[ith])
  <2>1. PICK ir \in Upto(NRows(ne)), i0 \in Upto(ne[1]) : OffsetOf(ne, i) = ir * ne[1] + i0
    BY OffsetOfElement
  <2>2. PICK ith \in Upto(nth) : ir \in share[ith]
    BY DEF IsPartition
  <2>3. ElementOf(ne, ir * ne[1] + i0) = i
    BY <2>1, DecodingAnOffset
  <2> QED
    BY <2>2, <2>3 DEF RowCells
<1>4. ASSUME NEW s \in Upto(nth), NEW t \in Upto(nth), s # t,
             NEW i \in RowCells(ne, share[s]), i \in RowCells(ne, share[t])
      PROVE  FALSE
  <2>1. PICK ir \in share[s], i0 \in Upto(ne[1]) : i = ElementOf(ne, ir * ne[1] + i0)
    BY DEF RowCells
  <2>2. PICK jr \in share[t], j0 \in Upto(ne[1]) : i = ElementOf(ne, jr * ne[1] + j0)
    BY <1>4 DEF RowCells
  <2>3. OffsetOf(ne, i) \div ne[1] = ir /\ OffsetOf(ne, i) \div ne[1] = jr
    BY <1>1, <2>1, <2>2, RowOfIndex
  <2> QED
    BY <1>4, <2>3 DEF IsPartition
<1> QED
  BY <1>2, <1>3, <1>4 DEF IsShareOut

(* Each thread takes one step for the elements own[ith] of E, with or      *)
(* without its part of wdata; element i is computed from f[i].             *)
ComputesEach(p, E, nth, own, f) ==
  /\ p.scratch \subseteq OwnWdata(nth)
  /\ DOMAIN p.result = {"dst"} \X E
  /\ \A i \in E : p.result[<<"dst", i>>] = f[i]
  /\ DOMAIN p.program = Upto(nth)
  /\ \A ith \in Upto(nth) :
       /\ DOMAIN p.program[ith] = {1}
       /\ \A c \in DOMAIN p.program[ith][1] :
            \/ c \in {"dst"} \X own[ith] /\ p.program[ith][1][c] = f[c[2]]
            \/ c = <<"wdata", ith>> /\ c \in p.scratch /\ p.program[ith][1][c] \subseteq p.given
       /\ {"dst"} \X own[ith] \subseteq DOMAIN p.program[ith][1]

\* What is computed from is given, and nothing given is written.
ComputesFrom(p, E, f) ==
  /\ \A i \in E : f[i] \subseteq p.given
  /\ \A c \in p.given : c[1] \notin {"dst", "wdata"}

LEMMA EachIsDirect ==
  ASSUME NEW p, NEW nth, NEW E, NEW own, NEW f, IsShareOut(E, nth, own),
         ComputesEach(p, E, nth, own, f), ComputesFrom(p, E, f)
  PROVE  IsDirect(p)
<1>1. \A ith \in Upto(nth) : \A i \in own[ith] : i \in E
  BY DEF IsShareOut
<1>2. ASSUME NEW ith \in Upto(nth), NEW c \in DOMAIN p.program[ith][1]
      PROVE  /\ c \in DOMAIN p.result \cup p.scratch
             /\ p.program[ith][1][c] \subseteq p.given
             /\ c \in DOMAIN p.result => p.program[ith][1][c] = p.result[c]
  <2>1. CASE c \in {"dst"} \X own[ith] /\ p.program[ith][1][c] = f[c[2]]
    <3>1. c = <<"dst", c[2]>> /\ c[2] \in E
      BY <1>1, <2>1
    <3> QED
      BY <2>1, <3>1 DEF ComputesEach, ComputesFrom
  <2>2. CASE c = <<"wdata", ith>> /\ c \in p.scratch /\ p.program[ith][1][c] \subseteq p.given
    <3>1. c \notin {"dst"} \X E
      BY <2>2
    <3> QED
      BY <2>2, <3>1 DEF ComputesEach
  <2> QED
    BY <2>1, <2>2 DEF ComputesEach
<1>3. ASSUME NEW ith \in Upto(nth) PROVE p.program[ith][1] \notin {Barrier, SetChunks, Claims}
  <2>1. \A c \in DOMAIN p.program[ith][1] : c[1] \in {"dst", "wdata"}
    BY DEF ComputesEach
  <2>2. /\ <<"barrier", 0>> \in DOMAIN Barrier /\ <<"set", 0>> \in DOMAIN SetChunks
        /\ <<"chunks", 0>> \in DOMAIN Claims
    BY DEF Barrier, SetChunks, Claims
  <2> QED
    BY <2>1, <2>2
<1>4. ASSUME NEW s \in Upto(nth), NEW t \in Upto(nth), s # t, NEW c \in DOMAIN p.program[s][1],
             c \in DOMAIN p.program[t][1]
      PROVE  FALSE
  <2>1. /\ c \in {"dst"} \X own[s] \/ c = <<"wdata", s>>
        /\ c \in {"dst"} \X own[t] \/ c = <<"wdata", t>>
    BY <1>4 DEF ComputesEach
  <2>2. own[s] \cap own[t] = {}
    BY <1>4 DEF IsShareOut
  <2> QED
    BY <1>4, <2>1, <2>2
<1>5. \A c \in DOMAIN p.result : \E ith \in Upto(nth) : c \in DOMAIN p.program[ith][1]
  <2> SUFFICES ASSUME NEW c \in DOMAIN p.result PROVE \E ith \in Upto(nth) : c \in DOMAIN p.program[ith][1]
    OBVIOUS
  <2>1. c = <<"dst", c[2]>> /\ c[2] \in E
    BY DEF ComputesEach
  <2>2. PICK ith \in Upto(nth) : c[2] \in own[ith]
    BY <2>1 DEF IsShareOut
  <2> QED
    BY <2>1, <2>2 DEF ComputesEach
<1>6. p.given \cap (DOMAIN p.result \cup p.scratch) = {}
  BY DEF ComputesEach, ComputesFrom, OwnWdata
<1>7. DOMAIN p.program = Upto(nth) /\ \A ith \in Upto(nth) : DOMAIN p.program[ith] = {1}
  BY DEF ComputesEach
<1> QED
  BY <1>2, <1>3, <1>4, <1>5, <1>6, <1>7 DEF IsDirect

LEMMA FirstPartition ==
  ASSUME NEW nr \in Nat, NEW nth \in Nat \ {0}
  PROVE  IsPartition(nr, nth, [ith \in Upto(nth) |-> FirstOnly(nr, nth, ith)])
BY DEF IsPartition, FirstOnly, Upto

LEMMA RowShares ==
  ASSUME NEW ne \in Shape, NEW nth \in Nat \ {0}
  PROVE  /\ IsShareOut(Elements(ne), nth, [ith \in Upto(nth) |-> RowCells(ne, Chunk(NRows(ne), nth, ith))])
         /\ IsShareOut(Elements(ne), nth, [ith \in Upto(nth) |-> RowCells(ne, Strided(NRows(ne), nth, ith))])
         /\ IsShareOut(Elements(ne), nth, [ith \in Upto(nth) |-> RowCells(ne, FirstOnly(NRows(ne), nth, ith))])
<1> DEFINE Of(share) == [ith \in Upto(nth) |-> RowCells(ne, share[ith])]
           chunks == [ith \in Upto(nth) |-> Chunk(NRows(ne), nth, ith)]
           strides == [ith \in Upto(nth) |-> Strided(NRows(ne), nth, ith)]
           first == [ith \in Upto(nth) |-> FirstOnly(NRows(ne), nth, ith)]
<1>1. NRows(ne) \in Nat
  BY SizeOfShape
<1>2. IsShareOut(Elements(ne), nth, Of(chunks))
  BY <1>1, ChunksPartition, RowsShareOut
<1>3. IsShareOut(Elements(ne), nth, Of(strides))
  BY <1>1, StridesPartition, RowsShareOut
<1>4. IsShareOut(Elements(ne), nth, Of(first))
  BY <1>1, FirstPartition, RowsShareOut
<1> QED
  BY <1>2, <1>3, <1>4

LEMMA ActivationIsDirect ==
  ASSUME NEW ne \in Shape, NEW nth \in Nat \ {0}
  PROVE  IsDirect(Activation(ne, nth))
<1> DEFINE p == Activation(ne, nth)
           own == [ith \in Upto(nth) |-> RowCells(ne, Chunk(NRows(ne), nth, ith))]
           f == [i \in Elements(ne) |-> Src0(i)]
<1>1. IsShareOut(Elements(ne), nth, own)
  BY RowShares
<1>2. ComputesEach(p, Elements(ne), nth, own, f)
  BY <1>1 DEF IsShareOut, ComputesEach, Activation, Rowwise, Plan, PlanWith, Put, PutIn, EachThread
<1>3. ComputesFrom(p, Elements(ne), f)
  BY DEF ComputesFrom, Activation, Rowwise, Plan, PlanWith, Put, PutIn, EachThread, Cells, Src0
<1> HIDE DEF p, own, f
<1>4. IsDirect(p)
  BY <1>1, <1>2, <1>3, EachIsDirect
<1> QED
  BY <1>4 DEF p

LEMMA LeakyReluIsDirect ==
  ASSUME NEW ne \in Shape, NEW nth \in Nat \ {0}
  PROVE  IsDirect(LeakyRelu(ne, nth))
<1> DEFINE p == LeakyRelu(ne, nth)
           own == [ith \in Upto(nth) |-> RowCells(ne, FirstOnly(NRows(ne), nth, ith))]
           f == [i \in Elements(ne) |-> Src0(i)]
<1>1. IsShareOut(Elements(ne), nth, own)
  BY RowShares
<1>2. ComputesEach(p, Elements(ne), nth, own, f)
  BY <1>1 DEF IsShareOut, ComputesEach, LeakyRelu, Rowwise, Plan, PlanWith, Put, PutIn, EachThread
<1>3. ComputesFrom(p, Elements(ne), f)
  BY DEF ComputesFrom, LeakyRelu, Rowwise, Plan, PlanWith, Put, PutIn, EachThread, Cells, Src0
<1> HIDE DEF p, own, f
<1>4. IsDirect(p)
  BY <1>1, <1>2, <1>3, EachIsDirect
<1> QED
  BY <1>4 DEF p

LEMMA ClampIsDirect ==
  ASSUME NEW ne \in Shape, NEW nth \in Nat \ {0}
  PROVE  IsDirect(Clamp(ne, nth))
<1> DEFINE p == Clamp(ne, nth)
           own == [ith \in Upto(nth) |-> RowCells(ne, Strided(NRows(ne), nth, ith))]
           f == [i \in Elements(ne) |-> Src0(i)]
<1>1. IsShareOut(Elements(ne), nth, own)
  BY RowShares
<1>2. ComputesEach(p, Elements(ne), nth, own, f)
  BY <1>1 DEF IsShareOut, ComputesEach, Clamp, Rowwise, Plan, PlanWith, Put, PutIn, EachThread
<1>3. ComputesFrom(p, Elements(ne), f)
  BY DEF ComputesFrom, Clamp, Rowwise, Plan, PlanWith, Put, PutIn, EachThread, Cells, Src0
<1> HIDE DEF p, own, f
<1>4. IsDirect(p)
  BY <1>1, <1>2, <1>3, EachIsDirect
<1> QED
  BY <1>4 DEF p

LEMMA FillIsDirect ==
  ASSUME NEW ne \in Shape, NEW nth \in Nat \ {0}
  PROVE  IsDirect(Fill(ne, nth))
<1> DEFINE p == Fill(ne, nth)
           own == [ith \in Upto(nth) |-> RowCells(ne, Chunk(NRows(ne), nth, ith))]
           f == [i \in Elements(ne) |-> {}]
<1>1. IsShareOut(Elements(ne), nth, own)
  BY RowShares
<1>2. ComputesEach(p, Elements(ne), nth, own, f)
  BY <1>1 DEF IsShareOut, ComputesEach, Fill, Rowwise, Plan, PlanWith, Put, PutIn, EachThread
<1>3. ComputesFrom(p, Elements(ne), f)
  BY DEF ComputesFrom, Fill, Rowwise, Plan, PlanWith, Put, PutIn, EachThread, Cells
<1> HIDE DEF p, own, f
<1>4. IsDirect(p)
  BY <1>1, <1>2, <1>3, EachIsDirect
<1> QED
  BY <1>4 DEF p

LEMMA SiluBackIsDirect ==
  ASSUME NEW ne \in Shape, NEW nth \in Nat \ {0}
  PROVE  IsDirect(SiluBack(ne, nth))
<1> DEFINE p == SiluBack(ne, nth)
           own == [ith \in Upto(nth) |-> RowCells(ne, Chunk(NRows(ne), nth, ith))]
           f == [i \in Elements(ne) |-> Src0(i) \cup Src1(i)]
<1>1. IsShareOut(Elements(ne), nth, own)
  BY RowShares
<1>2. ComputesEach(p, Elements(ne), nth, own, f)
  BY <1>1 DEF IsShareOut, ComputesEach, SiluBack, Rowwise, Plan, PlanWith, Put, PutIn, EachThread
<1>3. ComputesFrom(p, Elements(ne), f)
  BY DEF ComputesFrom, SiluBack, Rowwise, Plan, PlanWith, Put, PutIn, EachThread, Cells, Both, Src0, Src1
<1> HIDE DEF p, own, f
<1>4. IsDirect(p)
  BY <1>1, <1>2, <1>3, EachIsDirect
<1> QED
  BY <1>4 DEF p

LEMMA Add1IsDirect ==
  ASSUME NEW ne \in Shape, NEW nth \in Nat \ {0}
  PROVE  IsDirect(Add1(ne, nth))
<1> DEFINE p == Add1(ne, nth)
           own == [ith \in Upto(nth) |-> RowCells(ne, Chunk(NRows(ne), nth, ith))]
           f == [i \in Elements(ne) |-> Src0(i) \cup Src1(Number)]
<1>1. IsShareOut(Elements(ne), nth, own)
  BY RowShares
<1>2. ComputesEach(p, Elements(ne), nth, own, f)
  BY <1>1 DEF IsShareOut, ComputesEach, Add1, Rowwise, Plan, PlanWith, Put, PutIn, EachThread
<1>3. ComputesFrom(p, Elements(ne), f)
  BY DEF ComputesFrom, Add1, Rowwise, Plan, PlanWith, Put, PutIn, EachThread, Cells, WithNumber, Src0, Src1
<1> HIDE DEF p, own, f
<1>4. IsDirect(p)
  BY <1>1, <1>2, <1>3, EachIsDirect
<1> QED
  BY <1>4 DEF p

LEMMA TriIsDirect ==
  ASSUME NEW ne \in Shape, NEW nth \in Nat \ {0}, NEW kept
  PROVE  IsDirect(Tri(ne, kept, nth))
<1> DEFINE p == Tri(ne, kept, nth)
           own == [ith \in Upto(nth) |-> RowCells(ne, Chunk(NRows(ne), nth, ith))]
           f == [i \in Elements(ne) |-> IF <<i[1], i[2]>> \in kept THEN Src0(i) ELSE {}]
<1>1. IsShareOut(Elements(ne), nth, own)
  BY RowShares
<1>2. ComputesEach(p, Elements(ne), nth, own, f)
  BY <1>1 DEF IsShareOut, ComputesEach, Tri, Rowwise, Plan, PlanWith, Put, PutIn, EachThread
<1>3. ComputesFrom(p, Elements(ne), f)
  BY DEF ComputesFrom, Tri, Rowwise, Plan, PlanWith, Put, PutIn, EachThread, Cells, Src0
<1> HIDE DEF p, own, f
<1>4. IsDirect(p)
  BY <1>1, <1>2, <1>3, EachIsDirect
<1> QED
  BY <1>4 DEF p

LEMMA SoftMaxBackIsDirect ==
  ASSUME NEW ne \in Shape, NEW nth \in Nat \ {0}
  PROVE  IsDirect(SoftMaxBack(ne, nth))
<1> DEFINE p == SoftMaxBack(ne, nth)
           own == [ith \in Upto(nth) |-> RowCells(ne, Chunk(NRows(ne), nth, ith))]
           f == [i \in Elements(ne) |-> RowSrc0(ne, i) \cup RowSrc1(ne, i)]
<1>1. IsShareOut(Elements(ne), nth, own)
  BY RowShares
<1>2. ComputesEach(p, Elements(ne), nth, own, f)
  BY <1>1 DEF IsShareOut, ComputesEach, SoftMaxBack, Rowwise, Plan, PlanWith, Put, PutIn, EachThread
<1>3. ComputesFrom(p, Elements(ne), f)
  BY DEF ComputesFrom, SoftMaxBack, Rowwise, Plan, PlanWith, Put, PutIn, EachThread, Cells, Both, RowSrc0, RowSrc1, Elements
<1> HIDE DEF p, own, f
<1>4. IsDirect(p)
  BY <1>1, <1>2, <1>3, EachIsDirect
<1> QED
  BY <1>4 DEF p

LEMMA ArgsortIsDirect ==
  ASSUME NEW ne \in Shape, NEW nth \in Nat \ {0}
  PROVE  IsDirect(Argsort(ne, nth))
<1> DEFINE p == Argsort(ne, nth)
           own == [ith \in Upto(nth) |-> RowCells(ne, Strided(NRows(ne), nth, ith))]
           f == [i \in Elements(ne) |-> RowSrc0(ne, i)]
<1>1. IsShareOut(Elements(ne), nth, own)
  BY RowShares
<1>2. ComputesEach(p, Elements(ne), nth, own, f)
  BY <1>1 DEF IsShareOut, ComputesEach, Argsort, Rowwise, Plan, PlanWith, Put, PutIn, EachThread
<1>3. ComputesFrom(p, Elements(ne), f)
  BY DEF ComputesFrom, Argsort, Rowwise, Plan, PlanWith, Put, PutIn, EachThread, Cells, RowSrc0, Elements
<1> HIDE DEF p, own, f
<1>4. IsDirect(p)
  BY <1>1, <1>2, <1>3, EachIsDirect
<1> QED
  BY <1>4 DEF p

(* Other elements of an element's row.                                     *)
LEMMA InRow ==
  ASSUME NEW ne \in Shape, NEW i \in Elements(ne)
  PROVE  /\ \A k \in Upto(ne[1]) : [i EXCEPT ![1] = k] \in Elements(ne)
         /\ \A k \in 0 .. i[1] : [i EXCEPT ![1] = k] \in Elements(ne)
<1>1. \A k \in Upto(ne[1]) : [i EXCEPT ![1] = k] = <<k, i[2], i[3], i[4]>>
  BY DEF Elements
<1>2. \A k \in Upto(ne[1]) : [i EXCEPT ![1] = k] \in Elements(ne)
  BY <1>1 DEF Elements
<1>3. \A k \in 0 .. i[1] : k \in Upto(ne[1])
  BY SizeOfShape DEF Elements, Upto
<1> QED
  BY <1>2, <1>3

(* Shares of the second or the third dimension, for every plane.           *)
LEMMA PlaneShares ==
  ASSUME NEW ne \in Shape, NEW nth \in Nat \ {0}
  PROVE  /\ IsShareOut(Elements(ne), nth, [ith \in Upto(nth) |-> PlaneRows(ne, Strided(ne[2], nth, ith))])
         /\ IsShareOut(Elements(ne), nth,
              [ith \in Upto(nth) |-> {i \in Elements(ne) : i[3] \in Strided(ne[3], nth, ith)}])
<1>1. /\ IsPartition(ne[2], nth, [ith \in Upto(nth) |-> Strided(ne[2], nth, ith)])
      /\ IsPartition(ne[3], nth, [ith \in Upto(nth) |-> Strided(ne[3], nth, ith)])
  BY StridesPartition, SizeOfShape
<1>2. \A i \in Elements(ne) : i[2] \in Upto(ne[2]) /\ i[3] \in Upto(ne[3])
  BY DEF Elements
<1>3. IsShareOut(Elements(ne), nth, [ith \in Upto(nth) |-> PlaneRows(ne, Strided(ne[2], nth, ith))])
  BY <1>1 DEF IsPartition, IsShareOut, PlaneRows, Elements
<1>4. IsShareOut(Elements(ne), nth,
              [ith \in Upto(nth) |-> {i \in Elements(ne) : i[3] \in Strided(ne[3], nth, ith)}])
  BY <1>1, <1>2 DEF IsPartition, IsShareOut
<1> QED
  BY <1>3, <1>4

LEMMA CumsumIsDirect ==
  ASSUME NEW ne \in Shape, NEW nth \in Nat \ {0}
  PROVE  IsDirect(Cumsum(ne, nth))
<1> DEFINE p == Cumsum(ne, nth)
           own == [ith \in Upto(nth) |-> RowCells(ne, Chunk(NRows(ne), nth, ith))]
           f == [i \in Elements(ne) |-> {<<"src0", [i EXCEPT ![1] = k]>> : k \in 0 .. i[1]}]
<1>1. IsShareOut(Elements(ne), nth, own)
  BY RowShares
<1>2. ComputesEach(p, Elements(ne), nth, own, f)
  BY <1>1 DEF IsShareOut, ComputesEach, Cumsum, Rowwise, Plan, PlanWith, Put, PutIn, EachThread
<1>3. ComputesFrom(p, Elements(ne), f)
  BY InRow DEF ComputesFrom, Cumsum, Rowwise, Plan, PlanWith, Put, PutIn, EachThread, Cells
<1> HIDE DEF p, own, f
<1>4. IsDirect(p)
  BY <1>1, <1>2, <1>3, EachIsDirect
<1> QED
  BY <1>4 DEF p

LEMMA SumIsDirect ==
  ASSUME NEW ne \in Shape, NEW nth \in Nat \ {0}
  PROVE  IsDirect(Sum(ne, nth))
<1> DEFINE p == Sum(ne, nth)
           own == [ith \in Upto(nth) |-> RowCells(Scalar, FirstOnly(NRows(Scalar), nth, ith))]
           f == [i \in Elements(Scalar) |-> Cells("src0", ne)]
<1>0. Scalar \in Shape
  BY DEF Scalar, Shape
<1>1. IsShareOut(Elements(Scalar), nth, own)
  BY <1>0, RowShares
<1>2. ComputesEach(p, Elements(Scalar), nth, own, f)
  BY <1>1 DEF IsShareOut, ComputesEach, Sum, Rowwise, Plan, PlanWith, Put, PutIn, EachThread
<1>3. ComputesFrom(p, Elements(Scalar), f)
  BY DEF ComputesFrom, Sum, Rowwise, Plan, PlanWith, Put, PutIn, EachThread, Cells
<1> HIDE DEF p, own, f
<1>4. IsDirect(p)
  BY <1>1, <1>2, <1>3, EachIsDirect
<1> QED
  BY <1>4 DEF p

LEMMA DiagIsDirect ==
  ASSUME NEW ne \in Shape, NEW nth \in Nat \ {0}
  PROVE  IsDirect(Diag(ne, nth))
<1> DEFINE p == Diag(ne, nth)
           own == [ith \in Upto(nth) |-> RowCells(<<ne[1], ne[1], ne[3], ne[4]>>, FirstOnly(NRows(<<ne[1], ne[1], ne[3], ne[4]>>), nth, ith))]
           f == [i \in Elements(<<ne[1], ne[1], ne[3], ne[4]>>) |-> IF i[1] = i[2] THEN Src0(<<i[1], 0, i[3], i[4]>>) ELSE {}]
<1>0. <<ne[1], ne[1], ne[3], ne[4]>> \in Shape
  BY DEF Shape
<1>1. IsShareOut(Elements(<<ne[1], ne[1], ne[3], ne[4]>>), nth, own)
  BY <1>0, RowShares
<1>2. ComputesEach(p, Elements(<<ne[1], ne[1], ne[3], ne[4]>>), nth, own, f)
  BY <1>1 DEF IsShareOut, ComputesEach, Diag, Rowwise, Plan, PlanWith, Put, PutIn, EachThread
<1>3. ComputesFrom(p, Elements(<<ne[1], ne[1], ne[3], ne[4]>>), f)
  BY <1>0, SizeOfShape DEF ComputesFrom, Diag, Rowwise, Plan, PlanWith, Put, PutIn, EachThread, Cells, Src0, Elements, Upto
<1> HIDE DEF p, own, f
<1>4. IsDirect(p)
  BY <1>1, <1>2, <1>3, EachIsDirect
<1> QED
  BY <1>4 DEF p

LEMMA NormIsDirect ==
  ASSUME NEW ne \in Shape, NEW nth \in Nat \ {0}
  PROVE  IsDirect(Norm(ne, nth))
<1> DEFINE p == Norm(ne, nth)
           own == [ith \in Upto(nth) |-> PlaneRows(ne, Strided(ne[2], nth, ith))]
           f == [i \in Elements(ne) |-> RowSrc0(ne, i)]
<1>1. IsShareOut(Elements(ne), nth, own)
  BY PlaneShares
<1>2. ComputesEach(p, Elements(ne), nth, own, f)
  BY <1>1 DEF IsShareOut, ComputesEach, Norm, Planewise, Plan, PlanWith, Put, PutIn, EachThread
<1>3. ComputesFrom(p, Elements(ne), f)
  BY DEF ComputesFrom, Norm, Planewise, Plan, PlanWith, Put, PutIn, EachThread, Cells, RowSrc0, Elements
<1> HIDE DEF p, own, f
<1>4. IsDirect(p)
  BY <1>1, <1>2, <1>3, EachIsDirect
<1> QED
  BY <1>4 DEF p

LEMMA L2NormIsDirect ==
  ASSUME NEW ne \in Shape, NEW nth \in Nat \ {0}
  PROVE  IsDirect(L2Norm(ne, nth))
<1> DEFINE p == L2Norm(ne, nth)
           own == [ith \in Upto(nth) |-> PlaneRows(ne, Strided(ne[2], nth, ith))]
           f == [i \in Elements(ne) |-> RowSrc0(ne, i)]
<1>1. IsShareOut(Elements(ne), nth, own)
  BY PlaneShares
<1>2. ComputesEach(p, Elements(ne), nth, own, f)
  BY <1>1 DEF IsShareOut, ComputesEach, L2Norm, Planewise, Plan, PlanWith, Put, PutIn, EachThread
<1>3. ComputesFrom(p, Elements(ne), f)
  BY DEF ComputesFrom, L2Norm, Planewise, Plan, PlanWith, Put, PutIn, EachThread, Cells, RowSrc0, Elements
<1> HIDE DEF p, own, f
<1>4. IsDirect(p)
  BY <1>1, <1>2, <1>3, EachIsDirect
<1> QED
  BY <1>4 DEF p

LEMMA RmsNormBackIsDirect ==
  ASSUME NEW ne \in Shape, NEW nth \in Nat \ {0}
  PROVE  IsDirect(RmsNormBack(ne, nth))
<1> DEFINE p == RmsNormBack(ne, nth)
           own == [ith \in Upto(nth) |-> PlaneRows(ne, Strided(ne[2], nth, ith))]
           f == [i \in Elements(ne) |-> RowSrc0(ne, i) \cup RowSrc1(ne, i)]
<1>1. IsShareOut(Elements(ne), nth, own)
  BY PlaneShares
<1>2. ComputesEach(p, Elements(ne), nth, own, f)
  BY <1>1 DEF IsShareOut, ComputesEach, RmsNormBack, Planewise, Plan, PlanWith, Put, PutIn, EachThread
<1>3. ComputesFrom(p, Elements(ne), f)
  BY DEF ComputesFrom, RmsNormBack, Planewise, Plan, PlanWith, Put, PutIn, EachThread, Cells, Both, RowSrc0, RowSrc1, Elements
<1> HIDE DEF p, own, f
<1>4. IsDirect(p)
  BY <1>1, <1>2, <1>3, EachIsDirect
<1> QED
  BY <1>4 DEF p

LEMMA IsElement ==
  ASSUME NEW a, NEW b, NEW c, NEW d, NEW i \in Upto(a), NEW j \in Upto(b), NEW k \in Upto(c), NEW l \in Upto(d)
  PROVE  <<i, j, k, l>> \in Elements(<<a, b, c, d>>)
BY DEF Elements

LEMMA SumRowsIsDirect ==
  ASSUME NEW ne \in Shape, NEW nth \in Nat \ {0}
  PROVE  IsDirect(SumRows(ne, nth))
<1> DEFINE p == SumRows(ne, nth)
           to == [ne EXCEPT ![1] = 1]
           own == [ith \in Upto(nth) |-> RowCells(to, FirstOnly(NRows(to), nth, ith))]
           f == [i \in Elements(to) |-> RowSrc0(ne, i)]
<1>0. to \in Shape
  BY DEF Shape
<1>1. IsShareOut(Elements(to), nth, own)
  BY <1>0, RowShares
<1>2. ComputesEach(p, Elements(to), nth, own, f)
  <2>1. /\ p.scratch = {} /\ DOMAIN p.result = {"dst"} \X Elements(to) /\ DOMAIN p.program = Upto(nth)
        /\ \A i \in Elements(to) : p.result[<<"dst", i>>] = RowSrc0(ne, i)
    BY DEF SumRows, Rowwise, Plan, PlanWith, Put, PutIn, EachThread
  <2>2. ASSUME NEW ith \in Upto(nth)
        PROVE  /\ DOMAIN p.program[ith] = {1} /\ DOMAIN p.program[ith][1] = {"dst"} \X own[ith]
               /\ \A i \in own[ith] : p.program[ith][1][<<"dst", i>>] = RowSrc0(ne, i)
    BY DEF SumRows, Rowwise, Plan, PlanWith, Put, PutIn, EachThread
  <2>3. \A i \in Elements(to) : f[i] = RowSrc0(ne, i)
    OBVIOUS
  <2> HIDE DEF p, to, own, f
  <2> QED
    BY <1>1, <2>1, <2>2, <2>3 DEF IsShareOut, ComputesEach
<1>3. ComputesFrom(p, Elements(to), f)
  BY <1>0, SizeOfShape DEF ComputesFrom, SumRows, Rowwise, Plan, PlanWith, Put, PutIn, EachThread, Cells, RowSrc0, Elements, Upto
<1> HIDE DEF p, own, f
<1>4. IsDirect(p)
  BY <1>1, <1>2, <1>3, EachIsDirect
<1> QED
  BY <1>4 DEF p

LEMMA MeanIsDirect ==
  ASSUME NEW ne \in Shape, NEW nth \in Nat \ {0}
  PROVE  IsDirect(Mean(ne, nth))
<1> DEFINE p == Mean(ne, nth)
           to == [ne EXCEPT ![1] = 1]
           own == [ith \in Upto(nth) |-> RowCells(to, FirstOnly(NRows(to), nth, ith))]
           f == [i \in Elements(to) |-> RowSrc0(ne, i)]
<1>0. to \in Shape
  BY DEF Shape
<1>1. IsShareOut(Elements(to), nth, own)
  BY <1>0, RowShares
<1>2. ComputesEach(p, Elements(to), nth, own, f)
  <2>1. /\ p.scratch = {} /\ DOMAIN p.result = {"dst"} \X Elements(to) /\ DOMAIN p.program = Upto(nth)
        /\ \A i \in Elements(to) : p.result[<<"dst", i>>] = RowSrc0(ne, i)
    BY DEF Mean, Rowwise, Plan, PlanWith, Put, PutIn, EachThread
  <2>2. ASSUME NEW ith \in Upto(nth)
        PROVE  /\ DOMAIN p.program[ith] = {1} /\ DOMAIN p.program[ith][1] = {"dst"} \X own[ith]
               /\ \A i \in own[ith] : p.program[ith][1][<<"dst", i>>] = RowSrc0(ne, i)
    BY DEF Mean, Rowwise, Plan, PlanWith, Put, PutIn, EachThread
  <2>3. \A i \in Elements(to) : f[i] = RowSrc0(ne, i)
    OBVIOUS
  <2> HIDE DEF p, to, own, f
  <2> QED
    BY <1>1, <2>1, <2>2, <2>3 DEF IsShareOut, ComputesEach
<1>3. ComputesFrom(p, Elements(to), f)
  BY <1>0, SizeOfShape DEF ComputesFrom, Mean, Rowwise, Plan, PlanWith, Put, PutIn, EachThread, Cells, RowSrc0, Elements, Upto
<1> HIDE DEF p, own, f
<1>4. IsDirect(p)
  BY <1>1, <1>2, <1>3, EachIsDirect
<1> QED
  BY <1>4 DEF p

LEMMA AddIdIsDirect ==
  ASSUME NEW ne \in Shape, NEW nth \in Nat \ {0}, NEW ne11 \in Nat \ {0},
         NEW ids \in [Upto(ne[2]) \X Upto(ne[3]) -> Upto(ne11)]
  PROVE  IsDirect(AddId(ne, ne11, ids, nth))
<1> DEFINE p == AddId(ne, ne11, ids, nth)
           own == [ith \in Upto(nth) |-> RowCells(ne, Chunk(NRows(ne), nth, ith))]
           f == [i \in Elements(ne) |-> Src0(i) \cup Src1(<<i[1], ids[i[2], i[3]], 0, 0>>)]
<1>1. IsShareOut(Elements(ne), nth, own)
  BY RowShares
<1>2. ComputesEach(p, Elements(ne), nth, own, f)
  <2>1. /\ p.scratch = {} /\ DOMAIN p.result = {"dst"} \X Elements(ne) /\ DOMAIN p.program = Upto(nth)
        /\ \A i \in Elements(ne) : p.result[<<"dst", i>>] = f[i]
    BY DEF AddId, Rowwise, Plan, PlanWith, Put, PutIn, EachThread
  <2>2. ASSUME NEW ith \in Upto(nth), NEW i \in own[ith]
        PROVE  p.program[ith][1][<<"dst", i>>] = f[i]
    <3>1. i \in Elements(ne)
      BY <1>1 DEF IsShareOut
    <3> QED
      BY <3>1 DEF AddId, Rowwise, Plan, PlanWith, Put, PutIn, EachThread
  <2>3. ASSUME NEW ith \in Upto(nth)
        PROVE  DOMAIN p.program[ith] = {1} /\ DOMAIN p.program[ith][1] = {"dst"} \X own[ith]
    BY DEF AddId, Rowwise, Plan, PlanWith, Put, PutIn, EachThread
  <2> HIDE DEF p, own, f
  <2> QED
    BY <1>1, <2>1, <2>2, <2>3 DEF IsShareOut, ComputesEach
<1>3. ComputesFrom(p, Elements(ne), f)
  <2>1. ASSUME NEW i \in Elements(ne)
        PROVE  <<i[1], ids[i[2], i[3]], 0, 0>> \in Elements(<<ne[1], ne11, 1, 1>>)
    <3>1. i[1] \in Upto(ne[1]) /\ <<i[2], i[3]>> \in Upto(ne[2]) \X Upto(ne[3])
      BY DEF Elements
    <3>2. ids[i[2], i[3]] \in Upto(ne11)
      BY <3>1
    <3>3. 0 \in Upto(1)
      BY DEF Upto
    <3> QED
      BY <3>1, <3>2, <3>3, IsElement
  <2>2. p.given = Cells("src0", ne) \cup Cells("src1", <<ne[1], ne11, 1, 1>>)
    BY DEF AddId, Rowwise, Plan, PlanWith
  <2>3. \A i \in Elements(ne) : f[i] = Src0(i) \cup Src1(<<i[1], ids[i[2], i[3]], 0, 0>>)
    OBVIOUS
  <2> HIDE DEF p, f
  <2>4. ASSUME NEW i \in Elements(ne) PROVE f[i] \subseteq p.given
    <3>1. PICK j : j = <<i[1], ids[i[2], i[3]], 0, 0>>
      OBVIOUS
    <3>2. j \in Elements(<<ne[1], ne11, 1, 1>>)
      BY <2>1, <3>1
    <3>3. f[i] = Src0(i) \cup Src1(j)
      BY <2>3, <3>1
    <3>4. Src0(i) \subseteq p.given
      BY <2>2 DEF Cells, Src0
    <3>5. Src1(j) \subseteq p.given
      BY <2>2, <3>2 DEF Cells, Src1
    <3> QED
      BY <3>3, <3>4, <3>5
  <2>5. \A c \in p.given : c[1] \notin {"dst", "wdata"}
    BY <2>2 DEF Cells
  <2> QED
    BY <2>4, <2>5 DEF ComputesFrom
<1> HIDE DEF p, own, f
<1>4. IsDirect(p)
  BY <1>1, <1>2, <1>3, EachIsDirect
<1> QED
  BY <1>4 DEF p

(* The value and the gate are halves of a row when there is no src1.       *)
LEMMA GatedIsDirect ==
  ASSUME NEW ne \in Shape, NEW nth \in Nat \ {0}, NEW split \in BOOLEAN, split \/ ne[1] >= 2
  PROVE  IsDirect(Gated(ne, split, nth))
<1> DEFINE p == Gated(ne, split, nth)
           nc == IF split THEN ne[1] ELSE ne[1] \div 2
           to == [ne EXCEPT ![1] = nc]
           own == [ith \in Upto(nth) |-> RowCells(to, Chunk(NRows(to), nth, ith))]
           gate == [i \in Elements(to) |-> IF split THEN Src1(i) ELSE Src0([i EXCEPT ![1] = @ + nc])]
           f == [i \in Elements(to) |-> Src0(i) \cup gate[i]]
<1>0. nc \in Nat \ {0} /\ nc <= ne[1] /\ (~split => nc + nc <= ne[1])
  <2>1. ne[1] \in Nat \ {0}
    BY DEF Shape
  <2> QED
    BY <2>1
<1>1. to \in Shape
  BY <1>0 DEF Shape
<1>2. IsShareOut(Elements(to), nth, own)
  BY <1>1, RowShares
<1>3. ComputesEach(p, Elements(to), nth, own, f)
  <2>1. /\ p.scratch = {} /\ DOMAIN p.result = {"dst"} \X Elements(to) /\ DOMAIN p.program = Upto(nth)
        /\ \A i \in Elements(to) : p.result[<<"dst", i>>] = f[i]
    BY DEF Gated, Rowwise, Plan, PlanWith, Put, PutIn, EachThread
  <2>2. ASSUME NEW ith \in Upto(nth), NEW i \in own[ith]
        PROVE  p.program[ith][1][<<"dst", i>>] = f[i]
    <3>1. i \in Elements(to)
      BY <1>2 DEF IsShareOut
    <3> QED
      BY <3>1 DEF Gated, Rowwise, Plan, PlanWith, Put, PutIn, EachThread
  <2>3. ASSUME NEW ith \in Upto(nth)
        PROVE  DOMAIN p.program[ith] = {1} /\ DOMAIN p.program[ith][1] = {"dst"} \X own[ith]
    BY DEF Gated, Rowwise, Plan, PlanWith, Put, PutIn, EachThread
  <2> HIDE DEF p, to, own, f
  <2> QED
    BY <1>2, <2>1, <2>2, <2>3 DEF IsShareOut, ComputesEach
<1>4. ComputesFrom(p, Elements(to), f)
  <2>1. p.given = Cells("src0", ne) \cup IF split THEN Cells("src1", ne) ELSE {}
    BY DEF Gated, Rowwise, Plan, PlanWith
  <2>2. /\ to[1] = nc /\ to[2] = ne[2] /\ to[3] = ne[3] /\ to[4] = ne[4]
        /\ ne[1] \in Nat
    BY DEF Shape
  <2>3. ASSUME NEW i \in Elements(to) PROVE i \in Elements(ne)
    <3>1. i[1] \in Upto(ne[1])
      BY <1>0, <2>2 DEF Elements, Upto
    <3> QED
      BY <2>2, <3>1 DEF Elements
  <2>4. ASSUME NEW i \in Elements(to), ~split PROVE [i EXCEPT ![1] = @ + nc] \in Elements(ne)
    <3>1. i[1] + nc \in Upto(ne[1])
      BY <1>0, <2>2, <2>4 DEF Elements, Upto
    <3>2. [i EXCEPT ![1] = @ + nc] = [i EXCEPT ![1] = i[1] + nc] /\ i \in Elements(ne)
      BY <2>3 DEF Elements
    <3> HIDE DEF nc
    <3> QED
      BY <3>1, <3>2, InRow
  <2>5. ASSUME NEW i \in Elements(to) PROVE f[i] \subseteq p.given
    <3>1. CASE split
      BY <2>1, <2>3, <3>1 DEF Cells, Src0, Src1
    <3>2. CASE ~split
      BY <2>1, <2>3, <2>4, <3>2 DEF Cells, Src0
    <3> QED
      BY <3>1, <3>2
  <2>6. \A c \in p.given : c[1] \notin {"dst", "wdata"}
    BY <2>1 DEF Cells
  <2> QED
    BY <2>5, <2>6 DEF ComputesFrom
<1> HIDE DEF p, to, own, f
<1>5. IsDirect(p)
  BY <1>2, <1>3, <1>4, EachIsDirect
<1> QED
  BY <1>5 DEF p

LEMMA RmsNormIsDirect ==
  ASSUME NEW ne \in Shape, NEW nth \in Nat \ {0}, NEW ne1 \in Shape, ne1[1] = ne[1], NEW fused \in BOOLEAN
  PROVE  IsDirect(RmsNorm(ne, ne1, fused, nth))
<1> DEFINE p == RmsNorm(ne, ne1, fused, nth)
           At(i) == <<i[1], i[2] % ne1[2], i[3] % ne1[3], i[4] % ne1[4]>>
           own == [ith \in Upto(nth) |-> PlaneRows(ne, Strided(ne[2], nth, ith))]
           f == [i \in Elements(ne) |-> RowSrc0(ne, i) \cup IF fused THEN Src1(At(i)) ELSE {}]
<1>1. IsShareOut(Elements(ne), nth, own)
  BY PlaneShares
<1>2. ComputesEach(p, Elements(ne), nth, own, f)
  <2>1. /\ p.scratch = {} /\ DOMAIN p.result = {"dst"} \X Elements(ne) /\ DOMAIN p.program = Upto(nth)
        /\ \A i \in Elements(ne) : p.result[<<"dst", i>>] = f[i]
    BY DEF RmsNorm, Planewise, Plan, PlanWith, Put, PutIn, EachThread
  <2>2. ASSUME NEW ith \in Upto(nth), NEW i \in own[ith]
        PROVE  p.program[ith][1][<<"dst", i>>] = f[i]
    <3>1. i \in Elements(ne)
      BY <1>1 DEF IsShareOut
    <3> QED
      BY <3>1 DEF RmsNorm, Planewise, Plan, PlanWith, Put, PutIn, EachThread
  <2>3. ASSUME NEW ith \in Upto(nth)
        PROVE  DOMAIN p.program[ith] = {1} /\ DOMAIN p.program[ith][1] = {"dst"} \X own[ith]
    BY DEF RmsNorm, Planewise, Plan, PlanWith, Put, PutIn, EachThread
  <2> HIDE DEF p, own, f
  <2> QED
    BY <1>1, <2>1, <2>2, <2>3 DEF IsShareOut, ComputesEach
<1>3. ComputesFrom(p, Elements(ne), f)
  <2>1. p.given = Cells("src0", ne) \cup IF fused THEN Cells("src1", ne1) ELSE {}
    BY DEF RmsNorm, Planewise, Plan, PlanWith
  <2>2. ASSUME NEW i \in Elements(ne) PROVE At(i) \in Elements(ne1)
    <3>1. i[1] \in Upto(ne1[1]) /\ i[2] \in Nat /\ i[3] \in Nat /\ i[4] \in Nat
      BY DEF Elements, Upto
    <3>2. i[2] % ne1[2] \in Upto(ne1[2]) /\ i[3] % ne1[3] \in Upto(ne1[3]) /\ i[4] % ne1[4] \in Upto(ne1[4])
      BY <3>1, SizeOfShape, Division DEF Upto
    <3> QED
      BY <3>1, <3>2 DEF Elements
  <2>3. ASSUME NEW i \in Elements(ne) PROVE RowSrc0(ne, i) \subseteq Cells("src0", ne)
    BY InRow DEF RowSrc0, Cells
  <2> HIDE DEF At
  <2>4. ASSUME NEW i \in Elements(ne) PROVE f[i] \subseteq p.given
    BY <2>1, <2>2, <2>3 DEF Cells, Src1
  <2>5. \A c \in p.given : c[1] \notin {"dst", "wdata"}
    BY <2>1 DEF Cells
  <2> QED
    BY <2>4, <2>5 DEF ComputesFrom
<1> HIDE DEF p, own, f
<1>4. IsDirect(p)
  BY <1>1, <1>2, <1>3, EachIsDirect
<1> QED
  BY <1>4 DEF p

LEMMA ThroughStep ==
  ASSUME NEW ith, NEW step, <<"wdata", ith>> \notin DOMAIN step
  PROVE  /\ DOMAIN Through(ith, step) = DOMAIN step \cup {<<"wdata", ith>>}
         /\ \A c \in DOMAIN step : Through(ith, step)[c] = step[c]
         /\ Through(ith, step)[<<"wdata", ith>>] = UNION {step[c] : c \in DOMAIN step}
BY DEF Through

(* The mask is repeated over the heads, and each head has a sink.          *)
LEMMA SoftMaxIsDirect ==
  ASSUME NEW ne \in Shape, NEW nth \in Nat \ {0}, NEW ne1 \in Shape, ne1[1] = ne[1], ne1[2] = ne[2]
  PROVE  IsDirect(SoftMax(ne, ne1, nth))
<1> DEFINE p == SoftMax(ne, ne1, nth)
           Mask(i) == {<<"src1", <<k, i[2], i[3] % ne1[3], i[4] % ne1[4]>>>> : k \in Upto(ne[1])}
           own == [ith \in Upto(nth) |-> PlaneRows(ne, Strided(ne[2], nth, ith))]
           f == [i \in Elements(ne) |-> RowSrc0(ne, i) \cup Mask(i) \cup {<<"src2", i[3]>>}]
           step == [ith \in Upto(nth) |-> [c \in {"dst"} \X own[ith] |->
                      RowSrc0(ne, c[2]) \cup Mask(c[2]) \cup {<<"src2", c[2][3]>>}]]
<1>1. IsShareOut(Elements(ne), nth, own)
  BY PlaneShares
<1>2. ComputesFrom(p, Elements(ne), f)
  <2>1. p.given = Cells("src0", ne) \cup Cells("src1", ne1) \cup {"src2"} \X Upto(ne[3])
    BY DEF SoftMax, PlanWith, Both
  <2>2. ASSUME NEW i \in Elements(ne) PROVE Mask(i) \subseteq Cells("src1", ne1)
    <3>1. i[2] \in Upto(ne1[2]) /\ i[3] \in Nat /\ i[4] \in Nat
      BY DEF Elements, Upto
    <3>2. i[3] % ne1[3] \in Upto(ne1[3]) /\ i[4] % ne1[4] \in Upto(ne1[4])
      BY <3>1, SizeOfShape, Division DEF Upto
    <3> QED
      BY <3>1, <3>2 DEF Elements, Cells
  <2>3. ASSUME NEW i \in Elements(ne)
        PROVE  RowSrc0(ne, i) \subseteq Cells("src0", ne) /\ <<"src2", i[3]>> \in {"src2"} \X Upto(ne[3])
    BY InRow DEF RowSrc0, Cells, Elements
  <2>4. ASSUME NEW i \in Elements(ne) PROVE f[i] \subseteq p.given
    <3> HIDE DEF Mask
    <3> QED
      BY <2>1, <2>2, <2>3
  <2>5. \A c \in p.given : c[1] \notin {"dst", "wdata"}
    BY <2>1 DEF Cells
  <2> QED
    BY <2>4, <2>5 DEF ComputesFrom
<1>3. ComputesEach(p, Elements(ne), nth, own, f)
  <2>1. /\ p.scratch = OwnWdata(nth) /\ DOMAIN p.result = {"dst"} \X Elements(ne)
        /\ DOMAIN p.program = Upto(nth)
        /\ \A i \in Elements(ne) : p.result[<<"dst", i>>] = f[i]
    BY DEF SoftMax, PlanWith, Put, PutIn, EachThread
  <2>2. ASSUME NEW ith \in Upto(nth) PROVE p.program[ith] = <<Through(ith, step[ith])>>
    BY DEF SoftMax, PlanWith, Put, PutIn, EachThread
  <2>3. ASSUME NEW ith \in Upto(nth)
        PROVE  /\ DOMAIN step[ith] = {"dst"} \X own[ith]
               /\ \A i \in own[ith] : i \in Elements(ne) /\ step[ith][<<"dst", i>>] = f[i]
    <3>1. \A i \in own[ith] : i \in Elements(ne)
      BY <1>1 DEF IsShareOut
    <3> HIDE DEF own, Mask
    <3> QED
      BY <3>1
  <2> HIDE DEF p, own, f, step
  <2>4. ASSUME NEW ith \in Upto(nth), NEW c \in {"dst"} \X own[ith]
        PROVE  step[ith][c] = f[c[2]] /\ f[c[2]] \subseteq p.given
    <3>1. c = <<"dst", c[2]>> /\ c[2] \in own[ith]
      OBVIOUS
    <3> QED
      BY <1>2, <2>3, <3>1 DEF ComputesFrom
  <2>5. ASSUME NEW ith \in Upto(nth)
        PROVE  /\ DOMAIN p.program[ith] = {1}
               /\ DOMAIN p.program[ith][1] = {"dst"} \X own[ith] \cup {<<"wdata", ith>>}
               /\ \A c \in {"dst"} \X own[ith] : p.program[ith][1][c] = f[c[2]]
               /\ p.program[ith][1][<<"wdata", ith>>] \subseteq p.given
    <3> DEFINE D == {"dst"} \X own[ith]
    <3>1. DOMAIN step[ith] = D /\ <<"wdata", ith>> \notin D
      BY <2>3
    <3>2. PICK s : s = step[ith]
      OBVIOUS
    <3>3. DOMAIN s = D /\ <<"wdata", ith>> \notin D
      BY <3>1, <3>2
    <3>4. /\ DOMAIN Through(ith, s) = DOMAIN s \cup {<<"wdata", ith>>}
          /\ \A c \in DOMAIN s : Through(ith, s)[c] = s[c]
          /\ Through(ith, s)[<<"wdata", ith>>] = UNION {s[c] : c \in DOMAIN s}
      <4> HIDE DEF D
      <4> QED
        BY <3>3, ThroughStep
    <3>5. p.program[ith] = <<Through(ith, s)>>
      BY <2>2, <3>2
    <3>6. \A c \in D : s[c] = f[c[2]] /\ s[c] \subseteq p.given
      BY <2>4, <3>2
    <3>7. UNION {s[c] : c \in DOMAIN s} \subseteq p.given
      BY <3>3, <3>6
    <3> QED
      BY <3>3, <3>4, <3>5, <3>6, <3>7
  <2>6. \A ith \in Upto(nth) : <<"wdata", ith>> \in p.scratch
    BY <2>1 DEF OwnWdata
  <2> QED
    BY <2>1, <2>5, <2>6 DEF ComputesEach
<1> HIDE DEF p, own, f
<1>4. IsDirect(p)
  BY <1>1, <1>2, <1>3, EachIsDirect
<1> QED
  BY <1>4 DEF p

LEMMA DupSameContIsDirect ==
  ASSUME NEW ne \in Shape, NEW nth \in Nat \ {0}
  PROVE  IsDirect(DupSameCont(ne, nth))
<1> DEFINE p == DupSameCont(ne, nth)
           share == [ith \in Upto(nth) |-> Chunk(Size(ne), nth, ith)]
           own == [ith \in Upto(nth) |-> {ElementOf(ne, k) : k \in Chunk(Size(ne), nth, ith)}]
           f == [i \in Elements(ne) |-> Src0(i)]
<1>1. IsShareOut(Elements(ne), nth, own)
  <2>1. IsPartition(Size(ne), nth, share)
    BY ChunksPartition, SizeOfShape
  <2>2. \A ith \in Upto(nth) : own[ith] = {ElementOf(ne, k) : k \in share[ith]}
    OBVIOUS
  <2> HIDE DEF share, own
  <2>3. \A ith \in Upto(nth) : \A k \in share[ith] :
          ElementOf(ne, k) \in Elements(ne) /\ OffsetOf(ne, ElementOf(ne, k)) = k
    BY <2>1, DecodingAnIndex DEF IsPartition
  <2>4. ASSUME NEW i \in Elements(ne) PROVE \E ith \in Upto(nth) : i \in own[ith]
    <3>1. OffsetOf(ne, i) \in Upto(Size(ne))
      BY OffsetOfElement, RowOfIndex
    <3>2. ElementOf(ne, OffsetOf(ne, i)) = i
      BY DecodingAnOffset
    <3> QED
      BY <2>1, <2>2, <3>1, <3>2 DEF IsPartition
  <2>5. ASSUME NEW s \in Upto(nth), NEW t \in Upto(nth), s # t PROVE own[s] \cap own[t] = {}
    <3>1. share[s] \cap share[t] = {}
      BY <2>1, <2>5 DEF IsPartition
    <3> QED
      BY <2>2, <2>3, <3>1
  <2> QED
    BY <2>2, <2>3, <2>4, <2>5 DEF IsShareOut
<1>2. ComputesEach(p, Elements(ne), nth, own, f)
  BY <1>1 DEF IsShareOut, ComputesEach, DupSameCont, Plan, PlanWith, Put, PutIn, EachThread
<1>3. ComputesFrom(p, Elements(ne), f)
  BY DEF ComputesFrom, DupSameCont, Plan, PlanWith, Put, PutIn, EachThread, Cells, Src0
<1> HIDE DEF p, own, f
<1>4. IsDirect(p)
  BY <1>1, <1>2, <1>3, EachIsDirect
<1> QED
  BY <1>4 DEF p

LEMMA ArgmaxIsDirect ==
  ASSUME NEW ne \in Shape, NEW nth \in Nat \ {0}
  PROVE  IsDirect(Argmax(ne, nth))
<1> DEFINE p == Argmax(ne, nth)
           to == <<ne[2], 1, 1, 1>>
           own == [ith \in Upto(nth) |-> {<<i1, 0, 0, 0>> : i1 \in FirstOnly(ne[2], nth, ith)}]
           f == [i \in Elements(to) |-> RowSrc0(ne, <<0, i[1], 0, 0>>)]
<1>1. \A i : i \in Elements(to) <=> i = <<i[1], 0, 0, 0>> /\ i[1] \in Upto(ne[2])
  BY DEF Elements, Upto
<1>2. IsShareOut(Elements(to), nth, own)
  BY <1>1 DEF IsShareOut, FirstOnly, Upto
<1>3. ComputesEach(p, Elements(to), nth, own, f)
  BY <1>2 DEF IsShareOut, ComputesEach, Argmax, Plan, PlanWith, Put, PutIn, EachThread
<1>4. ComputesFrom(p, Elements(to), f)
  <2>1. p.given = Cells("src0", ne)
    BY DEF Argmax, Plan, PlanWith
  <2>2. ASSUME NEW i \in Elements(to) PROVE RowSrc0(ne, <<0, i[1], 0, 0>>) \subseteq p.given
    <3>1. 0 \in Upto(ne[1]) /\ 0 \in Upto(ne[3]) /\ 0 \in Upto(ne[4])
      BY SizeOfShape DEF Upto
    <3>2. PICK j \in Elements(ne) : j = <<0, i[1], 0, 0>>
      BY <1>1, <3>1 DEF Elements
    <3>3. RowSrc0(ne, j) \subseteq p.given
      BY <2>1, InRow DEF RowSrc0, Cells
    <3> QED
      BY <3>2, <3>3
  <2> QED
    BY <2>1, <2>2 DEF ComputesFrom, Cells
<1> HIDE DEF p, to, own, f
<1>5. IsDirect(p)
  BY <1>2, <1>3, <1>4, EachIsDirect
<1> QED
  BY <1>5 DEF p

LEMMA GetRowsIsDirect ==
  ASSUME NEW ne0 \in Shape, NEW ne1 \in Shape, NEW nth \in Nat \ {0}, ne0[3] = ne1[2], ne0[4] = ne1[3],
         NEW index \in [Upto(ne1[1]) \X Upto(ne1[2]) \X Upto(ne1[3]) -> Upto(ne0[2])]
  PROVE  IsDirect(GetRows(ne0, ne1, index, nth))
<1> DEFINE p == GetRows(ne0, ne1, index, nth)
           to == <<ne0[1], ne1[1], ne1[2], ne1[3]>>
           own == [ith \in Upto(nth) |-> RowCells(to, Chunk(NRows(to), nth, ith))]
           Row(i) == <<i[1], index[i[2], i[3], i[4]], i[3], i[4]>>
           f == [i \in Elements(to) |-> Src0(Row(i)) \cup Src1(<<i[2], i[3], i[4], 0>>)]
<1>1. to \in Shape
  BY DEF Shape
<1>2. IsShareOut(Elements(to), nth, own)
  BY <1>1, RowShares
<1>3. ComputesEach(p, Elements(to), nth, own, f)
  <2>1. /\ p.scratch = {} /\ DOMAIN p.result = {"dst"} \X Elements(to) /\ DOMAIN p.program = Upto(nth)
        /\ \A i \in Elements(to) : p.result[<<"dst", i>>] = f[i]
    BY DEF GetRows, Rowwise, Plan, PlanWith, Put, PutIn, EachThread
  <2>2. ASSUME NEW ith \in Upto(nth), NEW i \in own[ith]
        PROVE  p.program[ith][1][<<"dst", i>>] = f[i]
    <3>1. i \in Elements(to)
      BY <1>2 DEF IsShareOut
    <3> QED
      BY <3>1 DEF GetRows, Rowwise, Plan, PlanWith, Put, PutIn, EachThread
  <2>3. ASSUME NEW ith \in Upto(nth)
        PROVE  DOMAIN p.program[ith] = {1} /\ DOMAIN p.program[ith][1] = {"dst"} \X own[ith]
    BY DEF GetRows, Rowwise, Plan, PlanWith, Put, PutIn, EachThread
  <2> HIDE DEF p, to, own, f
  <2> QED
    BY <1>2, <2>1, <2>2, <2>3 DEF IsShareOut, ComputesEach
<1>4. ComputesFrom(p, Elements(to), f)
  <2>1. p.given = Cells("src0", ne0) \cup Cells("src1", ne1)
    BY DEF GetRows, Rowwise, Plan, PlanWith, Both
  <2>2. ASSUME NEW i \in Elements(to) PROVE Row(i) \in Elements(ne0) /\ <<i[2], i[3], i[4], 0>> \in Elements(ne1)
    <3>1. /\ i[1] \in Upto(ne0[1]) /\ <<i[2], i[3], i[4]>> \in Upto(ne1[1]) \X Upto(ne1[2]) \X Upto(ne1[3])
      BY DEF Elements
    <3>2. index[i[2], i[3], i[4]] \in Upto(ne0[2])
      BY <3>1
    <3>3. PICK ir : ir = index[i[2], i[3], i[4]]
      OBVIOUS
    <3>4. <<i[1], ir, i[3], i[4]>> \in Elements(ne0)
      BY <3>1, <3>2, <3>3 DEF Elements
    <3>5. 0 \in Upto(ne1[4])
      BY SizeOfShape DEF Upto
    <3> QED
      BY <3>1, <3>3, <3>4, <3>5 DEF Elements
  <2> HIDE DEF Row
  <2>3. ASSUME NEW i \in Elements(to) PROVE f[i] \subseteq p.given
    BY <2>1, <2>2 DEF Cells, Src0, Src1
  <2>4. \A c \in p.given : c[1] \notin {"dst", "wdata"}
    BY <2>1 DEF Cells
  <2> QED
    BY <2>3, <2>4 DEF ComputesFrom
<1> HIDE DEF p, to, own, f
<1>5. IsDirect(p)
  BY <1>2, <1>3, <1>4, EachIsDirect
<1> QED
  BY <1>5 DEF p

(* An element is src0's where src0 has one, and src1's beyond its end.     *)
LEMMA ConcatIsDirect ==
  ASSUME NEW ne0 \in Shape, NEW ne1 \in Shape, NEW dim \in 1 .. 4, NEW nth \in Nat \ {0},
         \A k \in 1 .. 4 \ {dim} : ne1[k] = ne0[k]
  PROVE  IsDirect(Concat(ne0, ne1, dim, nth))
<1> DEFINE p == Concat(ne0, ne1, dim, nth)
           ne == [ne0 EXCEPT ![dim] = @ + ne1[dim]]
           own == [ith \in Upto(nth) |-> {i \in Elements(ne) : i[3] \in Strided(ne[3], nth, ith)}]
           Beyond(i) == [i EXCEPT ![dim] = @ - ne0[dim]]
           f == [i \in Elements(ne) |-> IF i[dim] < ne0[dim] THEN Src0(i) ELSE Src1(Beyond(i))]
<1>1. /\ ne \in Shape /\ ne[dim] = ne0[dim] + ne1[dim] /\ \A k \in 1 .. 4 \ {dim} : ne[k] = ne0[k]
      /\ \A k \in 1 .. 4 : ne0[k] \in Nat /\ ne1[k] \in Nat
  BY DEF Shape
<1>2. IsShareOut(Elements(ne), nth, own)
  BY <1>1, PlaneShares
<1>3. \A i \in Elements(ne) :
        /\ i \in [1 .. 4 -> Nat] /\ \A k \in 1 .. 4 : i[k] \in Nat /\ i[k] < ne[k]
        /\ i = <<i[1], i[2], i[3], i[4]>>
  BY <1>1 DEF Elements, Upto
<1>4. \A i \in Elements(ne) : (\A k \in 1 .. 4 : i[k] < ne0[k]) <=> i[dim] < ne0[dim]
  <2> HIDE DEF ne
  <2> QED
    BY <1>1, <1>3
<1>5. ComputesEach(p, Elements(ne), nth, own, f)
  <2>1. /\ p.scratch = {} /\ DOMAIN p.result = {"dst"} \X Elements(ne) /\ DOMAIN p.program = Upto(nth)
        /\ \A i \in Elements(ne) : p.result[<<"dst", i>>] = f[i]
    BY DEF Concat, Plan, PlanWith, Put, PutIn, EachThread
  <2>2. ASSUME NEW ith \in Upto(nth)
        PROVE  /\ DOMAIN p.program[ith] = {1} /\ DOMAIN p.program[ith][1] = {"dst"} \X own[ith]
               /\ \A i \in own[ith] : p.program[ith][1][<<"dst", i>>] =
                    IF \A k \in 1 .. 4 : i[k] < ne0[k] THEN Src0(i) ELSE Src1(Beyond(i))
    BY DEF Concat, Plan, PlanWith, Put, PutIn, EachThread
  <2>3. ASSUME NEW ith \in Upto(nth), NEW i \in own[ith]
        PROVE  p.program[ith][1][<<"dst", i>>] = f[i]
    <3>1. i \in Elements(ne)
      OBVIOUS
    <3>2. f[i] = IF i[dim] < ne0[dim] THEN Src0(i) ELSE Src1(Beyond(i))
      BY <3>1
    <3> HIDE DEF p, ne, own, f, Beyond
    <3> QED
      BY <1>4, <2>2, <3>1, <3>2
  <2> HIDE DEF p, ne, own, f
  <2> QED
    BY <1>2, <2>1, <2>2, <2>3 DEF IsShareOut, ComputesEach
<1>6. ComputesFrom(p, Elements(ne), f)
  <2>1. p.given = Cells("src0", ne0) \cup Cells("src1", ne1)
    BY DEF Concat, Plan, PlanWith, Both
  <2>2. ASSUME NEW i \in Elements(ne), i[dim] < ne0[dim] PROVE i \in Elements(ne0)
    <3>1. \A k \in 1 .. 4 : i[k] \in Upto(ne0[k])
      <4> HIDE DEF ne
      <4> QED
        BY <1>1, <1>3, <1>4, <2>2 DEF Upto
    <3> QED
      BY <1>3, <3>1 DEF Elements
  <2>3. ASSUME NEW i \in Elements(ne), ~(i[dim] < ne0[dim]) PROVE Beyond(i) \in Elements(ne1)
    <3>1. /\ Beyond(i)[dim] = i[dim] - ne0[dim] /\ \A k \in 1 .. 4 \ {dim} : Beyond(i)[k] = i[k]
          /\ Beyond(i) = <<Beyond(i)[1], Beyond(i)[2], Beyond(i)[3], Beyond(i)[4]>>
      <4> HIDE DEF ne
      <4> QED
        BY <1>3
    <3>2. \A k \in 1 .. 4 : Beyond(i)[k] \in Upto(ne1[k])
      <4> HIDE DEF ne, Beyond
      <4> QED
        BY <1>1, <1>3, <2>3, <3>1 DEF Upto
    <3> HIDE DEF Beyond
    <3> QED
      BY <3>1, <3>2 DEF Elements
  <2> HIDE DEF Beyond
  <2>4. ASSUME NEW i \in Elements(ne) PROVE f[i] \subseteq p.given
    BY <2>1, <2>2, <2>3 DEF Cells, Src0, Src1
  <2>5. \A c \in p.given : c[1] \notin {"dst", "wdata"}
    BY <2>1 DEF Cells
  <2> QED
    BY <2>4, <2>5 DEF ComputesFrom
<1> HIDE DEF p, ne, own, f
<1>7. IsDirect(p)
  BY <1>2, <1>5, <1>6, EachIsDirect
<1> QED
  BY <1>7 DEF p

(* A share's rows, one after the other.                                    *)
LEMMA AscendingShare ==
  ASSUME NEW nr \in Nat, NEW nth \in Nat \ {0}, NEW ith \in Upto(nth)
  PROVE  LET share == Chunk(nr, nth, ith)
             rows == Ascending(share)
         IN /\ \A k \in DOMAIN rows : rows[k] \in share
            /\ \A ir \in share : \E k \in DOMAIN rows : rows[k] = ir
            /\ \E n \in Nat : DOMAIN rows = 1 .. n
<1> DEFINE dr == (nr + nth - 1) \div nth
           a == dr * ith
           b == Least(a + dr, nr) - 1
           share == Chunk(nr, nth, ith)
           rows == Ascending(share)
<1>1. a \in Nat /\ b \in Int /\ share = a .. b
  <2>1. dr \in Nat /\ ith \in Nat
    BY Division DEF Upto
  <2> HIDE DEF dr
  <2>2. a \in Nat
    BY <2>1
  <2>3. b \in Int
    BY <2>1, <2>2 DEF Least
  <2> QED
    BY <2>2, <2>3 DEF Chunk, dr
<1> HIDE DEF a, b, dr, share
<1>2. Cardinality(share) = IF a > b THEN 0 ELSE b - a + 1
  BY <1>1, FS_Interval
<1>3. a <= b => Min(share) = a
  <2> SUFFICES ASSUME a <= b PROVE Min(share) = a
    OBVIOUS
  <2>1. \A x \in share : (\A y \in share : x =< y) <=> x = a
    BY <1>1
  <2>2. a \in share
    BY <1>1
  <2> QED
    BY <2>1, <2>2 DEF Min
<1>4. DOMAIN rows = 1 .. Cardinality(share) /\ \A k \in DOMAIN rows : rows[k] = Min(share) + k - 1
  BY DEF Ascending
<1> HIDE DEF rows
<1>5. \A k \in DOMAIN rows : rows[k] \in share
  BY <1>1, <1>2, <1>3, <1>4
<1>6. ASSUME NEW ir \in share PROVE \E k \in DOMAIN rows : rows[k] = ir
  <2>1. ir - a + 1 \in DOMAIN rows
    BY <1>1, <1>2, <1>4
  <2>2. rows[ir - a + 1] = ir
    BY <1>1, <1>3, <1>4, <2>1
  <2> QED
    BY <2>1, <2>2
<1>7. Cardinality(share) \in Nat
  BY <1>1, <1>2
<1> QED
  BY <1>4, <1>5, <1>6, <1>7 DEF rows, share

(* Row by row through the thread's part of wdata.                          *)
LEMMA AddQIsDirect ==
  ASSUME NEW ne \in Shape, NEW nth \in Nat \ {0}
  PROVE  IsDirect(AddQ(ne, nth))
<1> DEFINE p == AddQ(ne, nth)
           share == [ith \in Upto(nth) |-> Chunk(NRows(ne), nth, ith)]
           rows == [ith \in Upto(nth) |-> Ascending(Chunk(NRows(ne), nth, ith))]
           row == [ith \in Upto(nth) |-> [k \in DOMAIN rows[ith] |-> RowCells(ne, {rows[ith][k]})]]
           step == [ith \in Upto(nth) |-> [k \in DOMAIN rows[ith] |->
                      [c \in {"dst"} \X row[ith][k] |-> Src0(c[2]) \cup Src1(c[2])]]]
<1>1. /\ p.given = Cells("src0", ne) \cup Cells("src1", ne) /\ p.scratch = OwnWdata(nth)
      /\ DOMAIN p.result = {"dst"} \X Elements(ne)
      /\ \A i \in Elements(ne) : p.result[<<"dst", i>>] = Src0(i) \cup Src1(i)
      /\ DOMAIN p.program = Upto(nth)
  BY DEF AddQ, RowwiseQ, PlanWith, Put, PutIn
<1>2. ASSUME NEW ith \in Upto(nth)
      PROVE  /\ DOMAIN p.program[ith] = DOMAIN rows[ith]
             /\ \A k \in DOMAIN rows[ith] : p.program[ith][k] = Through(ith, step[ith][k])
  BY DEF AddQ, RowwiseQ, PlanWith, Put, PutIn
<1>3. ASSUME NEW ith \in Upto(nth), NEW k \in DOMAIN rows[ith]
      PROVE  /\ DOMAIN step[ith][k] = {"dst"} \X row[ith][k]
             /\ \A i \in row[ith][k] : step[ith][k][<<"dst", i>>] = Src0(i) \cup Src1(i)
             /\ row[ith][k] = RowCells(ne, {rows[ith][k]})
  OBVIOUS
<1>4. /\ IsPartition(NRows(ne), nth, share)
      /\ \A ith \in Upto(nth) : \A k \in DOMAIN rows[ith] : rows[ith][k] \in share[ith]
      /\ \A ith \in Upto(nth) : \A ir \in share[ith] : \E k \in DOMAIN rows[ith] : rows[ith][k] = ir
  <2>1. NRows(ne) \in Nat
    BY SizeOfShape
  <2> QED
    BY <2>1, ChunksPartition, AscendingShare
<1> DEFINE own == [ith \in Upto(nth) |-> RowCells(ne, share[ith])]
<1>5. IsShareOut(Elements(ne), nth, own)
  BY <1>4, RowsShareOut
<1>6. ASSUME NEW ith \in Upto(nth) PROVE own[ith] = RowCells(ne, share[ith])
  OBVIOUS
<1> HIDE DEF p, share, rows, row, step, own
<1>7. ASSUME NEW ith \in Upto(nth), NEW k \in DOMAIN rows[ith] PROVE row[ith][k] \subseteq own[ith]
  BY <1>3, <1>4, <1>6 DEF RowCells
<1>8. ASSUME NEW ith \in Upto(nth), NEW i \in own[ith] PROVE \E k \in DOMAIN rows[ith] : i \in row[ith][k]
  <2>1. PICK ir \in share[ith], i0 \in Upto(ne[1]) : i = ElementOf(ne, ir * ne[1] + i0)
    BY <1>6 DEF RowCells
  <2>2. PICK k \in DOMAIN rows[ith] : rows[ith][k] = ir
    BY <1>4
  <2> QED
    BY <1>3, <2>1, <2>2 DEF RowCells
<1>9. ASSUME NEW i \in Elements(ne)
      PROVE  Src0(i) \cup Src1(i) \subseteq p.given
  BY <1>1 DEF Cells, Src0, Src1
<1>10. ASSUME NEW ith \in Upto(nth), NEW k \in DOMAIN rows[ith]
       PROVE  /\ DOMAIN p.program[ith][k] = {"dst"} \X row[ith][k] \cup {<<"wdata", ith>>}
              /\ \A i \in row[ith][k] : i \in Elements(ne) /\ p.program[ith][k][<<"dst", i>>] = Src0(i) \cup Src1(i)
              /\ p.program[ith][k][<<"wdata", ith>>] \subseteq p.given
  <2>1. PICK s : s = step[ith][k]
    OBVIOUS
  <2> DEFINE D == {"dst"} \X row[ith][k]
  <2>2. DOMAIN s = D
    BY <1>3, <2>1
  <2>3. <<"wdata", ith>> \notin D
    OBVIOUS
  <2>4. ASSUME NEW i \in row[ith][k]
        PROVE  i \in Elements(ne) /\ s[<<"dst", i>>] = Src0(i) \cup Src1(i)
    <3>1. i \in own[ith]
      BY <1>7
    <3>2. i \in Elements(ne)
      BY <1>5, <3>1 DEF IsShareOut
    <3>3. s[<<"dst", i>>] = Src0(i) \cup Src1(i)
      BY <1>3, <2>1
    <3> QED
      BY <3>2, <3>3
  <2>5. \A c \in DOMAIN s : s[c] \subseteq p.given
    <3> SUFFICES ASSUME NEW c \in DOMAIN s PROVE s[c] \subseteq p.given
      OBVIOUS
    <3>1. c = <<"dst", c[2]>> /\ c[2] \in row[ith][k]
      BY <2>2
    <3> QED
      BY <1>9, <2>4, <3>1
  <2>6. UNION {s[c] : c \in DOMAIN s} \subseteq p.given
    BY <2>5
  <2>7. p.program[ith][k] = Through(ith, s)
    BY <1>2, <2>1
  <2> HIDE DEF D
  <2>8. /\ DOMAIN Through(ith, s) = DOMAIN s \cup {<<"wdata", ith>>}
        /\ \A c \in DOMAIN s : Through(ith, s)[c] = s[c]
        /\ Through(ith, s)[<<"wdata", ith>>] = UNION {s[c] : c \in DOMAIN s}
    BY <2>2, <2>3, ThroughStep
  <2>9. \A i \in row[ith][k] : <<"dst", i>> \in D
    BY DEF D
  <2>10. \A i \in row[ith][k] : p.program[ith][k][<<"dst", i>>] = Src0(i) \cup Src1(i)
    BY <2>2, <2>4, <2>7, <2>8, <2>9
  <2>11. DOMAIN p.program[ith][k] = D \cup {<<"wdata", ith>>}
    BY <2>2, <2>7, <2>8
  <2>12. p.program[ith][k][<<"wdata", ith>>] \subseteq p.given
    BY <2>6, <2>7, <2>8
  <2> QED
    BY <2>4, <2>10, <2>11, <2>12 DEF D
<1>11. ASSUME NEW ith \in Upto(nth), NEW k \in DOMAIN rows[ith], NEW c \in DOMAIN p.program[ith][k]
       PROVE  /\ c \in DOMAIN p.result \cup p.scratch
              /\ p.program[ith][k][c] \subseteq p.given
              /\ c \in DOMAIN p.result => p.program[ith][k][c] = p.result[c]
              /\ c \in {"dst"} \X own[ith] \/ c = <<"wdata", ith>>
  <2>0. /\ DOMAIN p.program[ith][k] = {"dst"} \X row[ith][k] \cup {<<"wdata", ith>>}
        /\ p.program[ith][k][<<"wdata", ith>>] \subseteq p.given
    BY <1>10
  <2>1. CASE c = <<"wdata", ith>>
    <3>1. c \in p.scratch /\ c \notin DOMAIN p.result
      BY <1>1, <2>1 DEF OwnWdata
    <3> QED
      BY <2>0, <2>1, <3>1
  <2>2. CASE c \in {"dst"} \X row[ith][k]
    <3>1. c = <<"dst", c[2]>> /\ c[2] \in row[ith][k] /\ c[2] \in own[ith]
      BY <1>7, <2>2
    <3>2. c[2] \in Elements(ne) /\ p.program[ith][k][<<"dst", c[2]>>] = Src0(c[2]) \cup Src1(c[2])
      BY <1>10, <3>1
    <3>3. c \in DOMAIN p.result /\ c \in {"dst"} \X own[ith]
      BY <1>1, <3>1, <3>2
    <3>4. p.result[<<"dst", c[2]>>] = Src0(c[2]) \cup Src1(c[2]) /\ Src0(c[2]) \cup Src1(c[2]) \subseteq p.given
      BY <1>1, <1>9, <3>2
    <3>5. p.program[ith][k][c] = p.result[c] /\ p.result[c] \subseteq p.given
      BY <3>1, <3>2, <3>4
    <3> QED
      BY <3>3, <3>5
  <2> QED
    BY <2>0, <2>1, <2>2
<1>12. ASSUME NEW ith \in Upto(nth), NEW k \in DOMAIN rows[ith]
       PROVE  p.program[ith][k] \notin {Barrier, SetChunks, Claims}
  <2>1. <<"wdata", ith>> \in DOMAIN p.program[ith][k]
    BY <1>10
  <2> QED
    BY <2>1 DEF Barrier, SetChunks, Claims
<1>13. ASSUME NEW s \in Upto(nth), NEW t \in Upto(nth), s # t, NEW j \in DOMAIN rows[s], NEW k \in DOMAIN rows[t],
              NEW c \in DOMAIN p.program[s][j], c \in DOMAIN p.program[t][k]
       PROVE  FALSE
  <2>1. own[s] \cap own[t] = {}
    BY <1>5, <1>13 DEF IsShareOut
  <2> QED
    BY <1>11, <1>13, <2>1
<1>14. ASSUME NEW c \in DOMAIN p.result
       PROVE  \E ith \in Upto(nth) : \E k \in DOMAIN rows[ith] : c \in DOMAIN p.program[ith][k]
  <2>1. c = <<"dst", c[2]>> /\ c[2] \in Elements(ne)
    BY <1>1
  <2>2. PICK ith \in Upto(nth) : c[2] \in own[ith]
    BY <1>5, <2>1 DEF IsShareOut
  <2>3. PICK k \in DOMAIN rows[ith] : c[2] \in row[ith][k]
    BY <1>8, <2>2
  <2>4. DOMAIN p.program[ith][k] = {"dst"} \X row[ith][k] \cup {<<"wdata", ith>>}
    BY <1>10
  <2> QED
    BY <2>1, <2>3, <2>4
<1>15. p.given \cap (DOMAIN p.result \cup p.scratch) = {}
  BY <1>1 DEF Cells, OwnWdata
<1>16. DOMAIN p.program = Upto(nth) /\ \A ith \in Upto(nth) : DOMAIN p.program[ith] = DOMAIN rows[ith]
  BY <1>1, <1>2
<1>17. IsDirect(p)
  BY <1>11, <1>12, <1>13, <1>14, <1>15, <1>16 DEF IsDirect
<1> QED
  BY <1>17 DEF p

LEMMA CrossEntropyLossBackIsDirect ==
  ASSUME NEW ne \in Shape, NEW nth \in Nat \ {0}
  PROVE  IsDirect(CrossEntropyLossBack(ne, nth))
<1> DEFINE p == CrossEntropyLossBack(ne, nth)
           own == [ith \in Upto(nth) |-> RowCells(ne, Chunk(NRows(ne), nth, ith))]
           f == [i \in Elements(ne) |-> RowSrc0(ne, i) \cup Src1(i) \cup {<<"grad", Number>>}]
<1>1. IsShareOut(Elements(ne), nth, own)
  BY RowShares
<1>2. ComputesEach(p, Elements(ne), nth, own, f)
  BY <1>1 DEF IsShareOut, ComputesEach, CrossEntropyLossBack, Rowwise, Plan, PlanWith, Put, PutIn, EachThread
<1>3. ComputesFrom(p, Elements(ne), f)
  BY DEF ComputesFrom, CrossEntropyLossBack, Rowwise, Plan, PlanWith, Put, PutIn, EachThread, Cells, Both, RowSrc0, Src1, Elements
<1> HIDE DEF p, own, f
<1>4. IsDirect(p)
  BY <1>1, <1>2, <1>3, EachIsDirect
<1> QED
  BY <1>4 DEF p

LEMMA OptStepSgdIsDirect ==
  ASSUME NEW ne \in Shape, NEW nth \in Nat \ {0}
  PROVE  IsDirect(OptStepSgd(ne, nth))
<1> DEFINE p == OptStepSgd(ne, nth)
           own == [ith \in Upto(nth) |-> RowCells(ne, Chunk(NRows(ne), nth, ith))]
           f == [i \in Elements(ne) |-> Src0(i) \cup {<<"grad", i>>, <<"params", Number>>}]
<1>1. IsShareOut(Elements(ne), nth, own)
  BY RowShares
<1>2. ComputesEach(p, Elements(ne), nth, own, f)
  BY <1>1 DEF IsShareOut, ComputesEach, OptStepSgd, Rowwise, Plan, PlanWith, Put, PutIn, EachThread
<1>3. ComputesFrom(p, Elements(ne), f)
  BY DEF ComputesFrom, OptStepSgd, Rowwise, Plan, PlanWith, Put, PutIn, EachThread, Cells, Src0
<1> HIDE DEF p, own, f
<1>4. IsDirect(p)
  BY <1>1, <1>2, <1>3, EachIsDirect
<1> QED
  BY <1>4 DEF p

LEMMA Pool2dIsDirect ==
  ASSUME NEW ne0 \in Shape, NEW nth \in Nat \ {0}, NEW o \in [1 .. 2 -> Nat \ {0}], NEW k, NEW s, NEW pad
  PROVE  IsDirect(Pool2d(ne0, o, k, s, pad, nth))
<1> DEFINE p == Pool2d(ne0, o, k, s, pad, nth)
           to == <<o[1], o[2], ne0[3], ne0[4]>>
           own == [ith \in Upto(nth) |-> RowCells(to, FirstOnly(NRows(to), nth, ith))]
           f == [i \in Elements(to) |-> {<<"src0", w>> : w \in Window(ne0, k, s, pad, i)}]
<1>0. to \in Shape
  BY DEF Shape
<1>1. IsShareOut(Elements(to), nth, own)
  BY <1>0, RowShares
<1>2. ComputesEach(p, Elements(to), nth, own, f)
  <2>1. /\ p.scratch = {} /\ DOMAIN p.result = {"dst"} \X Elements(to) /\ DOMAIN p.program = Upto(nth)
        /\ \A i \in Elements(to) : p.result[<<"dst", i>>] = f[i]
    BY DEF Pool2d, Rowwise, Plan, PlanWith, Put, PutIn, EachThread
  <2>2. ASSUME NEW ith \in Upto(nth), NEW i \in own[ith]
        PROVE  p.program[ith][1][<<"dst", i>>] = f[i]
    <3>1. i \in Elements(to)
      BY <1>1 DEF IsShareOut
    <3> QED
      BY <3>1 DEF Pool2d, Rowwise, Plan, PlanWith, Put, PutIn, EachThread
  <2>3. ASSUME NEW ith \in Upto(nth)
        PROVE  DOMAIN p.program[ith] = {1} /\ DOMAIN p.program[ith][1] = {"dst"} \X own[ith]
    BY DEF Pool2d, Rowwise, Plan, PlanWith, Put, PutIn, EachThread
  <2> HIDE DEF p, to, own, f
  <2> QED
    BY <1>1, <2>1, <2>2, <2>3 DEF IsShareOut, ComputesEach
<1>3. ComputesFrom(p, Elements(to), f)
  <2>1. p.given = Cells("src0", ne0)
    BY DEF Pool2d, Rowwise, Plan, PlanWith, Put, PutIn, EachThread
  <2>2. ASSUME NEW i \in Elements(to) PROVE f[i] \subseteq p.given
    <3>1. i[3] \in Upto(ne0[3]) /\ i[4] \in Upto(ne0[4])
      BY DEF Elements
    <3>2. \A w \in Window(ne0, k, s, pad, i) :
            /\ w[1] \in Upto(ne0[1]) /\ w[2] \in Upto(ne0[2])
            /\ w = <<w[1], w[2], i[3], i[4]>>
      BY DEF Window, Exists
    <3>3. \A w \in Window(ne0, k, s, pad, i) : w \in Elements(ne0)
      BY <3>1, <3>2 DEF Elements
    <3> QED
      BY <2>1, <3>3 DEF Cells
  <2> QED
    BY <2>1, <2>2 DEF ComputesFrom, Cells
<1> HIDE DEF p, to, own, f
<1>4. IsDirect(p)
  BY <1>1, <1>2, <1>3, EachIsDirect
<1> QED
  BY <1>4 DEF p

LEMMA Pool1dIsDirect ==
  ASSUME NEW ne0 \in Shape, NEW nth \in Nat \ {0}, NEW OW \in Nat \ {0}, NEW k, NEW s, NEW pad
  PROVE  IsDirect(Pool1d(ne0, OW, k, s, pad, nth))
<1> DEFINE p == Pool1d(ne0, OW, k, s, pad, nth)
           to == [ne0 EXCEPT ![1] = OW]
           Taps(i) == {j \in {i[1] * s - pad + ki : ki \in Upto(k)} : Exists(j, ne0[1])}
           own == [ith \in Upto(nth) |-> RowCells(to, FirstOnly(NRows(to), nth, ith))]
           f == [i \in Elements(to) |-> {<<"src0", [i EXCEPT ![1] = j]>> : j \in Taps(i)}]
<1>0. to \in Shape
  BY DEF Shape
<1>1. IsShareOut(Elements(to), nth, own)
  BY <1>0, RowShares
<1>2. ComputesEach(p, Elements(to), nth, own, f)
  <2>1. /\ p.scratch = {} /\ DOMAIN p.result = {"dst"} \X Elements(to) /\ DOMAIN p.program = Upto(nth)
        /\ \A i \in Elements(to) : p.result[<<"dst", i>>] = f[i]
    BY DEF Pool1d, Rowwise, Plan, PlanWith, Put, PutIn, EachThread
  <2>2. ASSUME NEW ith \in Upto(nth), NEW i \in own[ith]
        PROVE  p.program[ith][1][<<"dst", i>>] = f[i]
    <3>1. i \in Elements(to)
      BY <1>1 DEF IsShareOut
    <3> QED
      BY <3>1 DEF Pool1d, Rowwise, Plan, PlanWith, Put, PutIn, EachThread
  <2>3. ASSUME NEW ith \in Upto(nth)
        PROVE  DOMAIN p.program[ith] = {1} /\ DOMAIN p.program[ith][1] = {"dst"} \X own[ith]
    BY DEF Pool1d, Rowwise, Plan, PlanWith, Put, PutIn, EachThread
  <2> HIDE DEF p, to, own, f
  <2> QED
    BY <1>1, <2>1, <2>2, <2>3 DEF IsShareOut, ComputesEach
<1>3. ComputesFrom(p, Elements(to), f)
  <2>1. p.given = Cells("src0", ne0)
    BY DEF Pool1d, Rowwise, Plan, PlanWith, Put, PutIn, EachThread
  <2>2. ASSUME NEW i \in Elements(to) PROVE f[i] \subseteq p.given
    <3>1. i[2] \in Upto(ne0[2]) /\ i[3] \in Upto(ne0[3]) /\ i[4] \in Upto(ne0[4]) /\ DOMAIN i = 1 .. 4
      BY DEF Elements, Shape
    <3>2. \A j \in Taps(i) : j \in Upto(ne0[1])
      BY DEF Exists
    <3> HIDE DEF Taps
    <3>3. \A j \in Taps(i) : [i EXCEPT ![1] = j] = <<j, i[2], i[3], i[4]>>
      BY DEF Elements
    <3>4. \A j \in Taps(i) : [i EXCEPT ![1] = j] \in Elements(ne0)
      BY <3>1, <3>2, <3>3 DEF Elements
    <3> QED
      BY <2>1, <3>4 DEF Cells
  <2> QED
    BY <2>1, <2>2 DEF ComputesFrom, Cells
<1> HIDE DEF p, to, own, f
<1>4. IsDirect(p)
  BY <1>1, <1>2, <1>3, EachIsDirect
<1> QED
  BY <1>4 DEF p

(* The element of the source an element is taken from exists, whether the  *)
(* corners are aligned or not: rounding never reaches beyond the end.      *)
LEMMA NearestInside ==
  ASSUME NEW size \in Nat \ {0}, NEW source \in Nat \ {0}, NEW align, NEW i \in Upto(size)
  PROVE  Nearest(i, size, source, align) \in Upto(source)
<1>1. i \in Nat /\ i < size
  BY DEF Upto
<1>2. (i * source) \div size \in Upto(source)
  <2>1. source * (i + 1) <= source * size /\ source * (i + 1) = source * i + source /\ source * i = i * source
        /\ i * source \in Nat /\ source * size = size * source
    BY <1>1, Monotone
  <2>2. i * source < size * ((source - 1) + 1)
    BY <2>1
  <2>3. (i * source) \div size <= source - 1
    BY <2>1, <2>2, QuotientBound
  <2>4. (i * source) \div size \in Nat
    BY <2>1, Division
  <2> QED
    BY <2>3, <2>4 DEF Upto
<1>3. ASSUME size > 1, source > 1 PROVE (i * (source - 1)) \div (size - 1) \in Upto(source)
  <2> DEFINE a == source - 1  b == size - 1
  <2>1. a \in Nat \ {0} /\ b \in Nat \ {0} /\ i <= b
    BY <1>1, <1>3
  <2>2. a * i <= a * b /\ a * i \in Nat /\ a * i = i * a /\ a * b = b * a
    BY <1>1, <2>1, Monotone
  <2>3. b * (a + 1) = b * a + b
    BY <2>1
  <2>4. i * a < b * (a + 1)
    BY <2>1, <2>2, <2>3
  <2>5. (i * a) \div b <= a /\ (i * a) \div b \in Nat
    BY <2>1, <2>2, <2>4, QuotientBound, Division
  <2> QED
    BY <2>5 DEF Upto
<1> QED
  BY <1>2, <1>3 DEF Nearest, Centre

(* A clamped place exists.                                                 *)
LEMMA ClampedInside ==
  ASSUME NEW size \in Nat \ {0}, NEW x \in Int
  PROVE  Clamped(x, size) \in Upto(size)
BY DEF Clamped, Most, Least, Upto

(* What the filters around a centre take exists.                           *)
LEMMA FiltersInside ==
  ASSUME NEW size \in Nat \ {0}, NEW source \in Nat \ {0}, NEW align, NEW i \in Upto(size)
  PROVE  /\ Near(i, size, source, align) \subseteq Upto(source)
         /\ NearCubic(i, size, source, align) \subseteq Upto(source)
         /\ Covered(i, size, source) \subseteq Upto(source)
<1>1. i \in Nat /\ i < size
  BY DEF Upto
<1>2. Centre(i, size, source, align) \in Int
  <2>1. ASSUME NEW x \in Int, NEW d \in Nat \ {0} PROVE x \div d \in Int
    OBVIOUS
  <2>2. i * (source - 1) \in Int /\ i * source \in Int /\ (2 * i + 1) * source - size \in Int
        /\ 2 * size \in Nat \ {0} /\ (size > 1 => size - 1 \in Nat \ {0})
    BY <1>1
  <2> QED
    BY <2>1, <2>2 DEF Centre
<1>3. \A off \in -1 .. 2 : Clamped(Centre(i, size, source, align) + off, source) \in Upto(source)
  BY <1>2, ClampedInside
<1>4. \A off \in 0 .. 1 : off \in -1 .. 2
  OBVIOUS
<1>5. ASSUME NEW x, NEW y \in Int, NEW sx \in Most(x, 0) .. Least(y, source) - 1, x \in Int
      PROVE  sx \in Upto(source)
  BY <1>5 DEF Most, Least, Upto
<1>6. Covered(i, size, source) \subseteq Upto(source)
  <2> DEFINE D == 2 * size
             x == (2 * i + 1) * source
             support == Most(D, 2 * source)
  <2>1. D \in Nat \ {0} /\ x \in Int /\ support \in Int
    BY <1>1 DEF Most
  <2>2. (x - support + size) \div D \in Int /\ (x + support + size) \div D \in Int
    <3> HIDE DEF D, x, support
    <3>1. ASSUME NEW n \in Int, NEW d \in Nat \ {0} PROVE n \div d \in Int
      OBVIOUS
    <3>2. x - support + size \in Int /\ x + support + size \in Int
      BY <2>1
    <3> QED
      BY <2>1, <3>1, <3>2
  <2>3. \A sx \in Covered(i, size, source) :
          sx \in Most((x - support + size) \div D, 0) .. Least((x + support + size) \div D, source) - 1
    BY DEF Covered
  <2> HIDE DEF D, x, support
  <2> QED
    BY <1>5, <2>2, <2>3
<1> QED
  BY <1>3, <1>4, <1>6 DEF Near, NearCubic

(* The elements a scaled element is taken from exist, in every mode.       *)
LEMMA UpscaleIsDirect ==
  ASSUME NEW ne0 \in Shape, NEW ne \in Shape, NEW nth \in Nat \ {0}, NEW align,
         NEW mode \in {"nearest", "bilinear", "bicubic", "antialias"}
  PROVE  IsDirect(Upscale(ne0, ne, mode, align, nth))
<1> DEFINE p == Upscale(ne0, ne, mode, align, nth)
           From(i) == Sampled(ne0, ne, mode, align, i)
           Own(ith) == {i \in Elements(ne) : i[3] \in Strided(ne[3], nth, ith)}
           own == [ith \in Upto(nth) |-> Own(ith)]
           f == [i \in Elements(ne) |-> From(i)]
<1>1. IsShareOut(Elements(ne), nth, own)
  BY PlaneShares
<1>2. p = Plan(Cells("src0", ne0), Put(Elements(ne), From), EachThread(nth, LAMBDA ith : Put(Own(ith), From)))
  BY DEF Upscale
<1>3. ASSUME NEW i \in Elements(ne) PROVE From(i) \subseteq Cells("src0", ne0)
  <2> DEFINE Along(n) == CASE mode = "nearest" -> {Nearest(i[n], ne[n], ne0[n], align)}
                           [] mode = "bilinear" -> Near(i[n], ne[n], ne0[n], align)
                           [] mode = "bicubic" -> NearCubic(i[n], ne[n], ne0[n], align)
                           [] mode = "antialias" -> Covered(i[n], ne[n], ne0[n])
             Plane(n) == Nearest(i[n], ne[n], ne0[n], FALSE)
  <2>1. 1 \in 1 .. 4 /\ 2 \in 1 .. 4 /\ 3 \in 1 .. 4 /\ 4 \in 1 .. 4
    OBVIOUS
  <2>2. \A n \in 1 .. 4 : ne0[n] \in Nat \ {0} /\ ne[n] \in Nat \ {0} /\ i[n] \in Upto(ne[n])
    BY DEF Shape, Elements
  <2>3. ASSUME NEW n \in 1 .. 4 PROVE Along(n) \subseteq Upto(ne0[n])
    <3>1. Nearest(i[n], ne[n], ne0[n], align) \in Upto(ne0[n])
      BY <2>2, NearestInside, Zenon
    <3>2. /\ Near(i[n], ne[n], ne0[n], align) \subseteq Upto(ne0[n])
          /\ NearCubic(i[n], ne[n], ne0[n], align) \subseteq Upto(ne0[n])
          /\ Covered(i[n], ne[n], ne0[n]) \subseteq Upto(ne0[n])
      BY <2>2, FiltersInside, Zenon
    <3> QED
      BY <3>1, <3>2
  <2>4. Plane(3) \in Upto(ne0[3]) /\ Plane(4) \in Upto(ne0[4])
    BY <2>1, <2>2, NearestInside, Zenon
  <2>5. Along(1) \subseteq Upto(ne0[1]) /\ Along(2) \subseteq Upto(ne0[2])
    BY <2>1, <2>3
  <2>6. From(i) = {<<"src0", <<x, y, Plane(3), Plane(4)>>>> : x \in Along(1), y \in Along(2)}
    BY DEF Sampled
  <2> HIDE DEF Along, Plane, From
  <2>7. \A x \in Along(1), y \in Along(2) : <<x, y, Plane(3), Plane(4)>> \in Elements(ne0)
    BY <2>4, <2>5 DEF Elements
  <2> QED
    BY <2>6, <2>7 DEF Cells
<1> HIDE DEF p, From
<1>4. ComputesEach(p, Elements(ne), nth, own, f)
  <2>1. /\ p.scratch = {} /\ DOMAIN p.result = {"dst"} \X Elements(ne) /\ DOMAIN p.program = Upto(nth)
        /\ \A i \in Elements(ne) : p.result[<<"dst", i>>] = From(i)
    BY <1>2 DEF Plan, PlanWith, Put, PutIn, EachThread
  <2>2. ASSUME NEW ith \in Upto(nth)
        PROVE  p.program[ith] = <<[c \in {"dst"} \X Own(ith) |-> From(c[2])]>>
    BY <1>2 DEF Plan, PlanWith, Put, PutIn, EachThread
  <2>3. \A ith \in Upto(nth) : own[ith] = Own(ith)
    OBVIOUS
  <2>4. \A i \in Elements(ne) : f[i] = From(i)
    OBVIOUS
  <2> HIDE DEF own, f, Own
  <2>5. ASSUME NEW ith \in Upto(nth)
        PROVE  /\ DOMAIN p.program[ith] = {1} /\ DOMAIN p.program[ith][1] = {"dst"} \X own[ith]
               /\ \A i \in own[ith] : p.program[ith][1][<<"dst", i>>] = f[i]
    <3>1. own[ith] = Own(ith) /\ \A i \in Own(ith) : From(i) = f[i]
      BY <1>1, <2>3, <2>4 DEF IsShareOut
    <3> DEFINE step == [c \in {"dst"} \X Own(ith) |-> From(c[2])]
    <3>2. DOMAIN step = {"dst"} \X Own(ith) /\ \A i \in Own(ith) : step[<<"dst", i>>] = From(i)
      OBVIOUS
    <3>3. p.program[ith] = <<step>>
      BY <2>2
    <3> HIDE DEF step
    <3>4. DOMAIN p.program[ith] = {1} /\ p.program[ith][1] = step
      BY <3>3
    <3> QED
      BY <3>1, <3>2, <3>4
  <2> QED
    BY <1>1, <2>1, <2>4, <2>5 DEF IsShareOut, ComputesEach
<1>5. ComputesFrom(p, Elements(ne), f)
  BY <1>2, <1>3 DEF ComputesFrom, Cells, Plan, PlanWith
<1> HIDE DEF own, f
<1>6. IsDirect(p)
  BY <1>1, <1>4, <1>5, EachIsDirect
<1> QED
  BY <1>6 DEF p

(* Rows of zeros around a tensor, or the tensor wrapped around.            *)
LEMMA PadIsDirect ==
  ASSUME NEW ne0 \in Shape, NEW lp \in [1 .. 4 -> Nat], NEW rp \in [1 .. 4 -> Nat], NEW circular \in BOOLEAN,
         NEW nth \in Nat \ {0}
  PROVE  IsDirect(Pad(ne0, lp, rp, circular, nth))
<1> DEFINE p == Pad(ne0, lp, rp, circular, nth)
           ne == [n \in 1 .. 4 |-> lp[n] + ne0[n] + rp[n]]
           Wrapped(i) == [n \in 1 .. 4 |-> WrapAround(i[n] - lp[n], ne0[n])]
           Inner0(i) == [n \in 1 .. 4 |-> i[n] - lp[n]]
           From(i) ==
             IF circular THEN Src0([n \in 1 .. 4 |-> WrapAround(i[n] - lp[n], ne0[n])])
             ELSE IF \A n \in 1 .. 4 : i[n] >= lp[n] /\ i[n] < ne[n] - rp[n]
                  THEN Src0([n \in 1 .. 4 |-> i[n] - lp[n]]) ELSE {}
           Own(ith) == PlaneRows(ne, Strided(ne[2], nth, ith))
           own == [ith \in Upto(nth) |-> Own(ith)]
           f == [i \in Elements(ne) |-> From(i)]
<1>0. ne \in Shape /\ \A n \in 1 .. 4 : /\ ne[n] = lp[n] + ne0[n] + rp[n] /\ ne0[n] \in Nat \ {0}
                                        /\ lp[n] \in Nat /\ rp[n] \in Nat
  BY DEF Shape
<1>1. IsShareOut(Elements(ne), nth, own)
  BY <1>0, PlaneShares
<1>2. p = Plan(Cells("src0", ne0), Put(Elements(ne), From), EachThread(nth, LAMBDA ith : Put(Own(ith), From)))
  BY DEF Pad, Planewise
<1>3. ASSUME NEW i \in Elements(ne) PROVE From(i) \subseteq Cells("src0", ne0)
  <2>1. \A n \in 1 .. 4 : i[n] \in Nat
    BY <1>0 DEF Elements, Upto
  <2>2. \A j \in [1 .. 4 -> Nat] : (\A n \in 1 .. 4 : j[n] \in Upto(ne0[n])) => j \in Elements(ne0)
    BY DEF Elements
  <2>3. \A x \in Int : \A d \in Nat \ {0} : x % d \in Upto(d) /\ x % d \in Nat
    BY DEF Upto
  <2>4. CASE circular
    <3>1. ASSUME NEW n \in 1 .. 4
          PROVE  WrapAround(i[n] - lp[n], ne0[n]) \in Upto(ne0[n]) /\ WrapAround(i[n] - lp[n], ne0[n]) \in Nat
      <4>1. (i[n] - lp[n]) + ne0[n] \in Int /\ ne0[n] \in Nat \ {0}
        BY <1>0, <2>1
      <4> HIDE DEF ne
      <4>2. ASSUME NEW x, NEW d, x + d \in Int, d \in Nat \ {0}
            PROVE  WrapAround(x, d) \in Upto(d) /\ WrapAround(x, d) \in Nat
        BY <2>3, <4>2 DEF WrapAround
      <4> QED
        BY <4>1, <4>2
    <3>2. Wrapped(i) \in Elements(ne0)
      BY <2>2, <3>1
    <3> QED
      BY <2>4, <3>2 DEF Src0, Cells
  <2>5. CASE ~circular /\ \A n \in 1 .. 4 : i[n] >= lp[n] /\ i[n] < ne[n] - rp[n]
    <3>1. \A n \in 1 .. 4 : i[n] - lp[n] \in Upto(ne0[n]) /\ i[n] - lp[n] \in Nat
      <4> HIDE DEF ne
      <4> QED
        BY <1>0, <2>1, <2>5 DEF Upto
    <3>2. Inner0(i) \in Elements(ne0)
      BY <2>2, <3>1
    <3> QED
      BY <2>5, <3>2 DEF Src0, Cells
  <2> QED
    BY <2>4, <2>5
<1> HIDE DEF p, From
<1>4. ComputesEach(p, Elements(ne), nth, own, f)
  <2>1. /\ p.scratch = {} /\ DOMAIN p.result = {"dst"} \X Elements(ne) /\ DOMAIN p.program = Upto(nth)
        /\ \A i \in Elements(ne) : p.result[<<"dst", i>>] = From(i)
    BY <1>2 DEF Plan, PlanWith, Put, PutIn, EachThread
  <2>2. ASSUME NEW ith \in Upto(nth)
        PROVE  p.program[ith] = <<[c \in {"dst"} \X Own(ith) |-> From(c[2])]>>
    BY <1>2 DEF Plan, PlanWith, Put, PutIn, EachThread
  <2>3. \A ith \in Upto(nth) : own[ith] = Own(ith)
    OBVIOUS
  <2>4. \A i \in Elements(ne) : f[i] = From(i)
    OBVIOUS
  <2> HIDE DEF own, f, Own, ne
  <2>5. ASSUME NEW ith \in Upto(nth)
        PROVE  /\ DOMAIN p.program[ith] = {1} /\ DOMAIN p.program[ith][1] = {"dst"} \X own[ith]
               /\ \A i \in own[ith] : p.program[ith][1][<<"dst", i>>] = f[i]
    <3>1. own[ith] = Own(ith) /\ \A i \in Own(ith) : From(i) = f[i]
      BY <1>1, <2>3, <2>4 DEF IsShareOut
    <3> DEFINE step == [c \in {"dst"} \X Own(ith) |-> From(c[2])]
    <3>2. DOMAIN step = {"dst"} \X Own(ith) /\ \A i \in Own(ith) : step[<<"dst", i>>] = From(i)
      OBVIOUS
    <3>3. p.program[ith] = <<step>>
      BY <2>2
    <3> HIDE DEF step
    <3>4. DOMAIN p.program[ith] = {1} /\ p.program[ith][1] = step
      BY <3>3
    <3> QED
      BY <3>1, <3>2, <3>4
  <2> QED
    BY <1>1, <2>1, <2>4, <2>5 DEF IsShareOut, ComputesEach
<1>5. ComputesFrom(p, Elements(ne), f)
  BY <1>2, <1>3 DEF ComputesFrom, Cells, Plan, PlanWith
<1> HIDE DEF own, f, ne
<1>6. IsDirect(p)
  BY <1>1, <1>4, <1>5, EachIsDirect
<1> QED
  BY <1>6 DEF p

-----------------------------------------------------------------------------
(* The operators, for tensors of every shape and teams of every size: with *)
(* the lemmas above, what TLC sees in a few calls holds of all of them.    *)

\* Operators of one tensor, or of tensors of one shape.
CallOfOneShape(p, ne, nth) ==
  p \in {DupSameCont(ne, nth), AddQ(ne, nth), Add1(ne, nth), Add1F16(ne, nth), Add1BF16(ne, nth),
         Gelu(ne, nth), GeluErf(ne, nth), GeluQuick(ne, nth), Silu(ne, nth), Scale(ne, nth),
         Activation(ne, nth), LeakyRelu(ne, nth), Clamp(ne, nth), Fill(ne, nth), SiluBack(ne, nth),
         Sum(ne, nth), SumRows(ne, nth), Mean(ne, nth), Argmax(ne, nth), Cumsum(ne, nth), Argsort(ne, nth),
         Diag(ne, nth), Norm(ne, nth), L2Norm(ne, nth), RmsNormBack(ne, nth), SoftMaxBack(ne, nth),
         CrossEntropyLossBack(ne, nth), OptStepSgd(ne, nth)}

\* A triangle of it, or its two halves (its rows hold at least two elements).
CallOfItsParts(p, ne, nth) ==
  \/ \E kept \in SUBSET (Nat \X Nat) : p = Tri(ne, kept, nth)
  \/ \E split \in BOOLEAN :
       /\ split \/ ne[1] >= 2
       /\ p \in {Reglu(ne, split, nth), Geglu(ne, split, nth), Swiglu(ne, split, nth),
                 SwigluOai(ne, split, nth), GegluErf(ne, split, nth), GegluQuick(ne, split, nth)}

\* A second tensor, under the conditions the operators assert.
CallOfTwoShapes(p, ne, ne1, nth) ==
  \/ \E fused \in BOOLEAN : ne1[1] = ne[1] /\ p = RmsNorm(ne, ne1, fused, nth)
  \/ ne1[1] = ne[1] /\ ne1[2] = ne[2] /\ p = SoftMax(ne, ne1, nth)
  \/ \E dim \in 1 .. 4 : (\A k \in 1 .. 4 \ {dim} : ne1[k] = ne[k]) /\ p = Concat(ne, ne1, dim, nth)
  \/ \E index \in [Upto(ne1[1]) \X Upto(ne1[2]) \X Upto(ne1[3]) -> Upto(ne[2])] :
       ne[3] = ne1[2] /\ ne[4] = ne1[3] /\ p \in {GetRows(ne, ne1, index, nth), GetRowsQ(ne, ne1, index, nth)}
  \/ \E ids \in [Upto(ne[2]) \X Upto(ne[3]) -> Upto(ne1[2])] : p = AddId(ne, ne1[2], ids, nth)

\* A tensor of another size.
CallThatResizes(p, ne, nth) ==
  \/ \E OW \in Nat \ {0}, k, s, pad \in Nat : p = Pool1d(ne, OW, k, s, pad, nth)
  \/ \E o \in [1 .. 2 -> Nat \ {0}], k, s, pad \in [1 .. 2 -> Nat] : p = Pool2d(ne, o, k, s, pad, nth)
  \/ \E to \in Shape, mode \in {"nearest", "bilinear", "bicubic", "antialias"}, align \in BOOLEAN :
       p = Upscale(ne, to, mode, align, nth)
  \/ \E lp, rp \in [1 .. 4 -> Nat], circular \in BOOLEAN : p = Pad(ne, lp, rp, circular, nth)

IsDirectCall(p) ==
  \E ne \in Shape, nth \in Nat \ {0} :
    \/ CallOfOneShape(p, ne, nth)
    \/ CallOfItsParts(p, ne, nth)
    \/ \E ne1 \in Shape : CallOfTwoShapes(p, ne, ne1, nth)
    \/ CallThatResizes(p, ne, nth)

LEMMA DirectCalls == ASSUME NEW p, IsDirectCall(p) PROVE IsDirect(p)
<1>1. PICK ne \in Shape, nth \in Nat \ {0} :
        \/ CallOfOneShape(p, ne, nth)
        \/ CallOfItsParts(p, ne, nth)
        \/ \E ne1 \in Shape : CallOfTwoShapes(p, ne, ne1, nth)
        \/ CallThatResizes(p, ne, nth)
  BY DEF IsDirectCall
<1>2. CASE CallOfOneShape(p, ne, nth)
  <2>1. /\ Add1F16(ne, nth) = Add1(ne, nth) /\ Add1BF16(ne, nth) = Add1(ne, nth)
        /\ Gelu(ne, nth) = Activation(ne, nth) /\ GeluErf(ne, nth) = Activation(ne, nth)
        /\ GeluQuick(ne, nth) = Activation(ne, nth) /\ Silu(ne, nth) = Activation(ne, nth)
        /\ Scale(ne, nth) = Activation(ne, nth)
    BY Zenon DEF Add1, Add1F16, Add1BF16, Gelu, GeluErf, GeluQuick, Silu, Scale
  <2>2. /\ IsDirect(DupSameCont(ne, nth)) /\ IsDirect(AddQ(ne, nth)) /\ IsDirect(Add1(ne, nth))
        /\ IsDirect(Activation(ne, nth)) /\ IsDirect(LeakyRelu(ne, nth)) /\ IsDirect(Clamp(ne, nth))
        /\ IsDirect(Fill(ne, nth)) /\ IsDirect(SiluBack(ne, nth))
    BY DupSameContIsDirect, AddQIsDirect, Add1IsDirect, ActivationIsDirect, LeakyReluIsDirect, ClampIsDirect,
       FillIsDirect, SiluBackIsDirect
  <2>3. /\ IsDirect(Sum(ne, nth)) /\ IsDirect(SumRows(ne, nth)) /\ IsDirect(Mean(ne, nth))
        /\ IsDirect(Argmax(ne, nth)) /\ IsDirect(Cumsum(ne, nth)) /\ IsDirect(Argsort(ne, nth))
        /\ IsDirect(Diag(ne, nth)) /\ IsDirect(Norm(ne, nth)) /\ IsDirect(L2Norm(ne, nth))
    BY SumIsDirect, SumRowsIsDirect, MeanIsDirect, ArgmaxIsDirect, CumsumIsDirect, ArgsortIsDirect,
       DiagIsDirect, NormIsDirect, L2NormIsDirect
  <2>4. /\ IsDirect(RmsNormBack(ne, nth)) /\ IsDirect(SoftMaxBack(ne, nth))
        /\ IsDirect(CrossEntropyLossBack(ne, nth)) /\ IsDirect(OptStepSgd(ne, nth))
    BY RmsNormBackIsDirect, SoftMaxBackIsDirect, CrossEntropyLossBackIsDirect, OptStepSgdIsDirect
  <2> QED
    BY <1>2, <2>1, <2>2, <2>3, <2>4, Zenon DEF CallOfOneShape
<1>3. CASE CallOfItsParts(p, ne, nth)
  <2>1. ASSUME NEW kept, p = Tri(ne, kept, nth) PROVE IsDirect(p)
    BY <2>1, TriIsDirect
  <2>2. ASSUME NEW split \in BOOLEAN, split \/ ne[1] >= 2, p = Gated(ne, split, nth) PROVE IsDirect(p)
    BY <2>2, GatedIsDirect
  <2> QED
    BY <1>3, <2>1, <2>2, Zenon DEF CallOfItsParts, Reglu, Geglu, Swiglu, SwigluOai, GegluErf, GegluQuick
<1>4. ASSUME NEW ne1 \in Shape, CallOfTwoShapes(p, ne, ne1, nth) PROVE IsDirect(p)
  <2>1. ASSUME NEW fused \in BOOLEAN, ne1[1] = ne[1], p = RmsNorm(ne, ne1, fused, nth) PROVE IsDirect(p)
    BY <2>1, RmsNormIsDirect
  <2>2. ASSUME ne1[1] = ne[1], ne1[2] = ne[2], p = SoftMax(ne, ne1, nth) PROVE IsDirect(p)
    BY <2>2, SoftMaxIsDirect
  <2>3. ASSUME NEW dim \in 1 .. 4, \A k \in 1 .. 4 \ {dim} : ne1[k] = ne[k], p = Concat(ne, ne1, dim, nth)
        PROVE  IsDirect(p)
    BY <2>3, ConcatIsDirect
  <2>4. ASSUME NEW index \in [Upto(ne1[1]) \X Upto(ne1[2]) \X Upto(ne1[3]) -> Upto(ne[2])],
               ne[3] = ne1[2], ne[4] = ne1[3], p = GetRows(ne, ne1, index, nth)
        PROVE  IsDirect(p)
    BY <2>4, GetRowsIsDirect
  <2>5. ASSUME NEW ids \in [Upto(ne[2]) \X Upto(ne[3]) -> Upto(ne1[2])], p = AddId(ne, ne1[2], ids, nth)
        PROVE  IsDirect(p)
    <3>1. ne1[2] \in Nat \ {0}
      BY DEF Shape
    <3> QED
      BY <2>5, <3>1, AddIdIsDirect, Zenon
  <2> QED
    BY <1>4, <2>1, <2>2, <2>3, <2>4, <2>5, Zenon DEF CallOfTwoShapes, GetRowsQ
<1>5. CASE CallThatResizes(p, ne, nth)
  <2>1. ASSUME NEW OW \in Nat \ {0}, NEW k, NEW s, NEW pad, p = Pool1d(ne, OW, k, s, pad, nth) PROVE IsDirect(p)
    BY <2>1, Pool1dIsDirect
  <2>2. ASSUME NEW o \in [1 .. 2 -> Nat \ {0}], NEW k, NEW s, NEW pad, p = Pool2d(ne, o, k, s, pad, nth)
        PROVE  IsDirect(p)
    BY <2>2, Pool2dIsDirect
  <2>3. ASSUME NEW to \in Shape, NEW mode \in {"nearest", "bilinear", "bicubic", "antialias"}, NEW align,
               p = Upscale(ne, to, mode, align, nth)
        PROVE  IsDirect(p)
    BY <2>3, UpscaleIsDirect
  <2>4. ASSUME NEW lp \in [1 .. 4 -> Nat], NEW rp \in [1 .. 4 -> Nat], NEW circular \in BOOLEAN,
               p = Pad(ne, lp, rp, circular, nth)
        PROVE  IsDirect(p)
    BY <2>4, PadIsDirect
  <2> QED
    BY <1>5, <2>1, <2>2, <2>3, <2>4, Zenon DEF CallThatResizes
<1> QED
  BY <1>1, <1>2, <1>3, <1>4, <1>5

(* A call of one of these operators never races, never leaves its tensors, *)
(* and when all threads are done each element of the result comes from     *)
(* exactly the inputs it is defined by: whatever the shapes, however many  *)
(* threads share the call and in whatever order they run.                  *)
THEOREM DirectCallsAreRight ==
  Spec => [](IsDirectCall(plan) => TypeOK /\ RaceFree /\ WithinBounds /\ ResultsAreComplete)
<1>1. (IsDirect(plan) => Right) => (IsDirectCall(plan) => TypeOK /\ RaceFree /\ WithinBounds /\ ResultsAreComplete)
  BY DirectCalls DEF Right
<1> QED
  BY <1>1, DirectIsRight, PTL

-----------------------------------------------------------------------------
(* Operators whose first thread prepares dst for all.                      *)

\* No two threads have one element, and not every element need be shared out.
IsDealtOut(E, nth, own) ==
  /\ \A ith \in Upto(nth) : own[ith] \subseteq E
  /\ \A s, t \in Upto(nth) : s # t => own[s] \cap own[t] = {}

(* The first thread fills dst from f0; after the barrier each thread       *)
(* computes its elements from f1, which may name the element itself.       *)
FillsThenEach(p, E, nth, own, f0, f1) ==
  /\ p.scratch \subseteq OwnWdata(nth)
  /\ DOMAIN p.program = Upto(nth)
  /\ \A s, t \in Upto(nth) : p.team[s] = p.team[t]
  /\ \A ith \in Upto(nth) : /\ DOMAIN p.program[ith] = 1 .. 3
                            /\ p.program[ith][2] = Barrier
                            /\ ith # 0 => p.program[ith][1] = Idle
  /\ DOMAIN p.program[0][1] = {"dst"} \X E
  /\ \A i \in E : p.program[0][1][<<"dst", i>>] = f0[i]
  /\ \A ith \in Upto(nth) :
       /\ \A c \in DOMAIN p.program[ith][3] :
            \/ c \in {"dst"} \X own[ith] /\ p.program[ith][3][c] = f1[c[2]]
            \/ c = <<"wdata", ith>> /\ c \in p.scratch
               /\ p.program[ith][3][c] \subseteq p.given \cup {"dst"} \X own[ith]
       /\ {"dst"} \X own[ith] \subseteq DOMAIN p.program[ith][3]

FillsFrom(p, E, nth, own, f0, f1) ==
  /\ \A i \in E : f0[i] \subseteq p.given
  /\ \A ith \in Upto(nth) : \A i \in own[ith] : f1[i] \subseteq p.given \cup {<<"dst", i>>}
  /\ \A c \in p.given : c[1] \notin {"dst", "wdata"}
  /\ DOMAIN p.result = {"dst"} \X E
  /\ \A ith \in Upto(nth) : \A i \in own[ith] :
       p.result[<<"dst", i>>] = (f1[i] \ {<<"dst", i>>}) \cup IF <<"dst", i>> \in f1[i] THEN f0[i] ELSE {}
  /\ \A i \in E : (\A ith \in Upto(nth) : i \notin own[ith]) => p.result[<<"dst", i>>] = f0[i]

LEMMA NotAMark ==
  ASSUME NEW step, \A c \in DOMAIN step : c[1] \in {"dst", "wdata"}
  PROVE  step # Barrier /\ step # SetChunks /\ step # Claims
<1>1. /\ <<"barrier", 0>> \in DOMAIN Barrier /\ <<"set", 0>> \in DOMAIN SetChunks
      /\ <<"chunks", 0>> \in DOMAIN Claims
  BY DEF Barrier, SetChunks, Claims
<1> QED
  BY <1>1

LEMMA FillsIsPrepared ==
  ASSUME NEW p, NEW nth \in Nat \ {0}, NEW E, NEW own, NEW f0, NEW f1, IsDealtOut(E, nth, own),
         FillsThenEach(p, E, nth, own, f0, f1), FillsFrom(p, E, nth, own, f0, f1)
  PROVE  IsPrepared(p)
<1> DEFINE N == Upto(nth)
<1>0. 0 \in N /\ DOMAIN p.program = N
  BY DEF Upto, FillsThenEach
<1> HIDE DEF N
<1>1. ASSUME NEW t \in N
      PROVE  /\ DOMAIN p.program[t] = 1 .. 3 /\ p.program[t][2] = Barrier
             /\ Finishes(p, t) = p.program[t][3]
             /\ t = 0 => DOMAIN Prepares(p, t) = {"dst"} \X E /\ \A i \in E : Prepares(p, t)[<<"dst", i>>] = f0[i]
             /\ t # 0 => Prepares(p, t) = Idle
  <2>1. 3 \in 1 .. 3
    OBVIOUS
  <2> QED
    BY <2>1 DEF FillsThenEach, Prepares, Finishes, N
<1>2. Prepared(p) = {"dst"} \X E
  <2>1. \A t \in N : t # 0 => DOMAIN Prepares(p, t) = {}
    BY <1>1, NothingToDo
  <2> QED
    BY <1>0, <1>1, <2>1 DEF Prepared
<1>3. ASSUME NEW t \in N, NEW c \in DOMAIN Finishes(p, t)
      PROVE  \/ c = <<"dst", c[2]>> /\ c[2] \in own[t] /\ c[2] \in E /\ Finishes(p, t)[c] = f1[c[2]]
             \/ /\ c = <<"wdata", t>> /\ c \in p.scratch
                /\ Finishes(p, t)[c] \subseteq p.given \cup {"dst"} \X own[t]
  <2>1. \/ c \in {"dst"} \X own[t] /\ Finishes(p, t)[c] = f1[c[2]]
        \/ c = <<"wdata", t>> /\ c \in p.scratch /\ Finishes(p, t)[c] \subseteq p.given \cup {"dst"} \X own[t]
    BY <1>1 DEF FillsThenEach, N
  <2>2. own[t] \subseteq E
    BY DEF IsDealtOut, N
  <2> QED
    BY <2>1, <2>2
<1>4. p.given \cap (DOMAIN p.result \cup p.scratch) = {}
  BY DEF FillsThenEach, FillsFrom, OwnWdata
<1>5. ASSUME NEW t \in N
      PROVE  /\ DOMAIN p.program[t] \in {1 .. 2, 1 .. 3} /\ p.program[t][2] = Barrier
             /\ {Prepares(p, t), Finishes(p, t)} \cap {Barrier, SetChunks, Claims} = {}
             /\ DOMAIN Prepares(p, t) \cup DOMAIN Finishes(p, t) \subseteq DOMAIN p.result \cup p.scratch
             /\ \A c \in DOMAIN Prepares(p, t) : Prepares(p, t)[c] \subseteq p.given
             /\ \A c \in DOMAIN Finishes(p, t) : Finishes(p, t)[c] \subseteq p.given \cup Prepared(p)
  <2>1. DOMAIN Prepares(p, t) \subseteq {"dst"} \X E
    BY <1>1, NothingToDo
  <2>2. \A c \in DOMAIN Prepares(p, t) : c[1] \in {"dst", "wdata"}
    BY <2>1
  <2>3. \A c \in DOMAIN Finishes(p, t) : c[1] \in {"dst", "wdata"}
    BY <1>3
  <2>4. {Prepares(p, t), Finishes(p, t)} \cap {Barrier, SetChunks, Claims} = {}
    BY <2>2, <2>3, NotAMark
  <2>5. DOMAIN p.result = {"dst"} \X E
    BY DEF FillsFrom
  <2>6. \A c \in DOMAIN Finishes(p, t) : c \in DOMAIN p.result \cup p.scratch
    BY <1>3, <2>5
  <2>7. ASSUME NEW c \in DOMAIN Prepares(p, t) PROVE Prepares(p, t)[c] \subseteq p.given
    <3>1. t = 0
      BY <1>1, <2>7, NothingToDo
    <3>2. c = <<"dst", c[2]>> /\ c[2] \in E
      BY <2>1, <2>7
    <3>3. Prepares(p, t)[c] = f0[c[2]]
      BY <1>1, <3>1, <3>2
    <3> QED
      BY <3>2, <3>3 DEF FillsFrom
  <2>8. ASSUME NEW c \in DOMAIN Finishes(p, t) PROVE Finishes(p, t)[c] \subseteq p.given \cup Prepared(p)
    <3>1. own[t] \subseteq E
      BY DEF IsDealtOut, N
    <3>2. CASE c = <<"dst", c[2]>> /\ c[2] \in own[t] /\ c[2] \in E /\ Finishes(p, t)[c] = f1[c[2]]
      BY <1>2, <3>2 DEF FillsFrom, N
    <3>3. CASE Finishes(p, t)[c] \subseteq p.given \cup {"dst"} \X own[t]
      BY <1>2, <3>1, <3>3
    <3> QED
      BY <1>3, <3>2, <3>3
  <2> QED
    BY <1>1, <2>1, <2>4, <2>5, <2>6, <2>7, <2>8
<1>6. ASSUME NEW t \in N, NEW u \in N, t # u
      PROVE  /\ DOMAIN Prepares(p, t) \cap DOMAIN Prepares(p, u) = {}
             /\ DOMAIN Finishes(p, t) \cap Touched(Finishes(p, u)) = {}
  <2>1. DOMAIN Prepares(p, t) \cap DOMAIN Prepares(p, u) = {}
    BY <1>1, <1>6, NothingToDo
  <2>2. own[t] \cap own[u] = {}
    BY <1>6 DEF IsDealtOut, N
  <2>3. \A c \in Touched(Finishes(p, u)) : \/ c \in {"dst"} \X own[u]
                                           \/ c = <<"wdata", u>>
                                           \/ c \in p.given
    <3>1. \A c \in DOMAIN Finishes(p, u) : c \in {"dst"} \X own[u] \/ c = <<"wdata", u>>
      BY <1>3
    <3>2. \A c \in DOMAIN Finishes(p, u) : Finishes(p, u)[c] \subseteq p.given \cup {"dst"} \X own[u]
      <4> SUFFICES ASSUME NEW c \in DOMAIN Finishes(p, u), c = <<"dst", c[2]>>, c[2] \in own[u],
                          Finishes(p, u)[c] = f1[c[2]]
                   PROVE  Finishes(p, u)[c] \subseteq p.given \cup {"dst"} \X own[u]
        BY <1>3
      <4>1. f1[c[2]] \subseteq p.given \cup {<<"dst", c[2]>>}
        BY DEF FillsFrom, N
      <4> QED
        BY <4>1
    <3> QED
      BY <3>1, <3>2 DEF Touched
  <2>4. \A c \in DOMAIN Finishes(p, t) : \/ c \in {"dst"} \X own[t] /\ c \notin p.given
                                         \/ c = <<"wdata", t>> /\ c \notin p.given
    <3>1. \A c \in p.given : c[1] \notin {"dst", "wdata"}
      BY DEF FillsFrom
    <3>2. \A c \in DOMAIN Finishes(p, t) : c \in {"dst"} \X own[t] \/ c = <<"wdata", t>>
      BY <1>3
    <3> QED
      BY <3>1, <3>2
  <2> QED
    BY <1>6, <2>1, <2>2, <2>3, <2>4
<1>7. ASSUME NEW i \in E PROVE Ready(p, <<"dst", i>>) = f0[i]
  <2>1. {t \in DOMAIN p.program : <<"dst", i>> \in DOMAIN Prepares(p, t)} = {0}
    BY <1>0, <1>1, NothingToDo
  <2>2. <<"dst", i>> \notin p.given
    BY DEF FillsFrom
  <2>3. Prepares(p, 0)[<<"dst", i>>] = f0[i]
    BY <1>0, <1>1
  <2> QED
    BY <2>1, <2>2, <2>3 DEF Ready
<1>8. ASSUME NEW c \in DOMAIN p.result
      PROVE  \/ \E t \in DOMAIN p.program :
                  c \in DOMAIN Finishes(p, t) /\ p.result[c] = UNION {Ready(p, d) : d \in Finishes(p, t)[c]}
             \/ /\ \A t \in DOMAIN p.program : c \notin DOMAIN Finishes(p, t)
                /\ c \in Prepared(p) /\ p.result[c] = Ready(p, c)
  <2>1. PICK i \in E : c = <<"dst", i>>
    BY DEF FillsFrom
  <2>2. CASE \E t \in N : i \in own[t]
    <3>1. PICK t \in N : i \in own[t]
      BY <2>2
    <3>2. c \in DOMAIN Finishes(p, t)
      BY <1>1, <2>1, <3>1 DEF FillsThenEach, N
    <3>3. Finishes(p, t)[c] = f1[i]
      BY <1>3, <2>1, <3>2
    <3>4. p.result[c] = (f1[i] \ {c}) \cup IF c \in f1[i] THEN f0[i] ELSE {}
      BY <2>1, <3>1 DEF FillsFrom, N
    <3>5. f1[i] \subseteq p.given \cup {c}
      BY <2>1, <3>1 DEF FillsFrom, N
    <3>6. \A d \in f1[i] : Ready(p, d) = IF d = c THEN f0[i] ELSE {d}
      <4> SUFFICES ASSUME NEW d \in f1[i] PROVE Ready(p, d) = IF d = c THEN f0[i] ELSE {d}
        OBVIOUS
      <4>1. CASE d = c
        BY <1>7, <2>1, <4>1
      <4>2. CASE d # c
        BY <3>5, <4>2 DEF Ready
      <4> QED
        BY <4>1, <4>2
    <3>7. UNION {Ready(p, d) : d \in f1[i]} = (f1[i] \ {c}) \cup IF c \in f1[i] THEN f0[i] ELSE {}
      BY <3>6
    <3> QED
      BY <1>0, <3>2, <3>3, <3>4, <3>7
  <2>3. CASE \A t \in N : i \notin own[t]
    <3>1. \A t \in N : c \notin DOMAIN Finishes(p, t)
      BY <1>3, <2>1, <2>3
    <3>2. c \in Prepared(p) /\ p.result[c] = Ready(p, c)
      BY <1>2, <1>7, <2>1, <2>3 DEF FillsFrom, N
    <3> QED
      BY <1>0, <3>1, <3>2
  <2> QED
    BY <2>2, <2>3
<1>9. \A t, u \in N : p.team[t] = p.team[u]
  BY DEF FillsThenEach, N
<1> QED
  BY <1>0, <1>4, <1>5, <1>6, <1>8, <1>9 DEF IsPrepared

\* Its programs, with the steps that fill dst and that compute own[ith].
HasSteps(p, E, nth, own, f0, f1, fill, step) ==
  /\ p.scratch \subseteq OwnWdata(nth) /\ DOMAIN p.program = Upto(nth)
  /\ \A ith \in Upto(nth) : p.team[ith] = 0
  /\ p.program[0] = <<fill, Barrier, step[0]>>
  /\ \A ith \in Upto(nth) \ {0} : p.program[ith] = <<Idle, Barrier, step[ith]>>
  /\ DOMAIN fill = {"dst"} \X E /\ \A i \in E : fill[<<"dst", i>>] = f0[i]
  /\ \A ith \in Upto(nth) : /\ DOMAIN step[ith] = {"dst"} \X own[ith]
                            /\ \A i \in own[ith] : step[ith][<<"dst", i>>] = f1[i]

LEMMA AfterFirstFills ==
  ASSUME NEW p, NEW nth \in Nat \ {0}, NEW E, NEW own, NEW f0, NEW f1, NEW fill, NEW step,
         HasSteps(p, E, nth, own, f0, f1, fill, step)
  PROVE  FillsThenEach(p, E, nth, own, f0, f1)
<1>1. 0 \in Upto(nth)
  BY DEF Upto
<1>2. ASSUME NEW ith \in Upto(nth)
      PROVE  /\ DOMAIN p.program[ith] = 1 .. 3 /\ p.program[ith][2] = Barrier /\ p.program[ith][3] = step[ith]
             /\ ith = 0 => p.program[ith][1] = fill
             /\ ith # 0 => p.program[ith][1] = Idle
  <2>1. CASE ith = 0
    BY <2>1 DEF HasSteps
  <2>2. CASE ith # 0
    BY <2>2 DEF HasSteps
  <2> QED
    BY <2>1, <2>2
<1>3. ASSUME NEW ith \in Upto(nth), NEW c \in DOMAIN p.program[ith][3]
      PROVE  c \in {"dst"} \X own[ith] /\ p.program[ith][3][c] = f1[c[2]]
  <2>1. c \in {"dst"} \X own[ith]
    BY <1>2, <1>3 DEF HasSteps
  <2>2. c = <<"dst", c[2]>> /\ c[2] \in own[ith]
    BY <2>1
  <2> QED
    BY <1>2, <2>1, <2>2 DEF HasSteps
<1>4. \A s, t \in Upto(nth) : p.team[s] = p.team[t]
  BY DEF HasSteps
<1>5. \A ith \in Upto(nth) : {"dst"} \X own[ith] \subseteq DOMAIN p.program[ith][3]
  BY <1>2 DEF HasSteps
<1> QED
  BY <1>1, <1>2, <1>3, <1>4, <1>5 DEF HasSteps, FillsThenEach

(* Masking what is above a diagonal.                                       *)
LEMMA DiagMaskIsPrepared ==
  ASSUME NEW ne \in Shape, NEW n_past \in Nat, NEW nth \in Nat \ {0}
  PROVE  IsPrepared(DiagMask(ne, n_past, nth))
<1> DEFINE p == DiagMask(ne, n_past, nth)
           E == Elements(ne)
           Masked(j) == {i \in E : i[2] = j /\ i[1] >= n_past /\ i[1] > n_past + j}
           Own(ith) == UNION {Masked(j) : j \in Strided(ne[2], nth, ith)}
           Step(ith) == [c \in {"dst"} \X Own(ith) |-> {}]
           own == [ith \in Upto(nth) |-> Own(ith)]
           f0 == [i \in E |-> Src0(i)]
           f1 == [i \in E |-> {}]
           fill == [c \in {"dst"} \X E |-> Src0(c[2])]
           step == [ith \in Upto(nth) |-> Step(ith)]
<1>1. \A i \in E : i[1] \in Nat /\ i[2] \in Nat /\ i[2] \in Upto(ne[2])
  BY DEF Elements, Upto
<1>2. \A ith \in Upto(nth) : \A i \in own[ith] : i \in E /\ i[2] \in Strided(ne[2], nth, ith) /\ i[1] - i[2] > n_past
  BY <1>1
<1>3. \A i \in E : i[1] - i[2] > n_past => \E ith \in Upto(nth) : i \in own[ith]
  <2> SUFFICES ASSUME NEW i \in E, i[1] - i[2] > n_past PROVE \E ith \in Upto(nth) : i \in own[ith]
    OBVIOUS
  <2>1. i[2] % nth \in Upto(nth) /\ i[2] \in Strided(ne[2], nth, i[2] % nth)
    BY <1>1, Division DEF Strided, Upto
  <2>2. i \in Masked(i[2])
    BY <1>1
  <2> QED
    BY <2>1, <2>2
<1>4. p = Plan(Cells("src0", ne), [c \in {"dst"} \X E |-> IF c[2][1] - c[2][2] > n_past THEN {} ELSE Src0(c[2])],
               [ith \in Upto(nth) |-> <<IF ith = 0 THEN fill ELSE Idle, Barrier, Step(ith)>>])
  BY DEF DiagMask, Put, PutIn, AfterFirst
<1>5. /\ p.given = Cells("src0", ne) /\ p.scratch = {}
      /\ p.result = [c \in {"dst"} \X E |-> IF c[2][1] - c[2][2] > n_past THEN {} ELSE Src0(c[2])]
      /\ DOMAIN p.program = Upto(nth) /\ \A ith \in Upto(nth) : p.team[ith] = 0
      /\ p.program[0] = <<fill, Barrier, step[0]>>
      /\ \A ith \in Upto(nth) \ {0} : p.program[ith] = <<Idle, Barrier, step[ith]>>
  <2>1. 0 \in Upto(nth)
    BY DEF Upto
  <2> HIDE DEF p, fill, Step, E
  <2>2. p.program = [ith \in Upto(nth) |-> <<IF ith = 0 THEN fill ELSE Idle, Barrier, Step(ith)>>]
        /\ p.team = [ith \in DOMAIN p.program |-> 0]
    BY <1>4 DEF Plan, PlanWith
  <2>3. p.given = Cells("src0", ne) /\ p.scratch = {}
        /\ p.result = [c \in {"dst"} \X E |-> IF c[2][1] - c[2][2] > n_past THEN {} ELSE Src0(c[2])]
    BY <1>4 DEF Plan, PlanWith
  <2>4. ASSUME NEW ith \in Upto(nth) \ {0} PROVE p.program[ith] = <<Idle, Barrier, Step(ith)>>
    BY <2>2
  <2>5. p.program[0] = <<fill, Barrier, Step(0)>>
    BY <2>1, <2>2
  <2> QED
    BY <2>1, <2>2, <2>3, <2>4, <2>5
<1>6. FillsThenEach(p, E, nth, own, f0, f1)
  <2>1. DOMAIN fill = {"dst"} \X E /\ \A i \in E : fill[<<"dst", i>>] = f0[i]
    OBVIOUS
  <2>2. \A ith \in Upto(nth) : /\ DOMAIN step[ith] = {"dst"} \X own[ith]
                               /\ \A i \in own[ith] : i \in E /\ step[ith][<<"dst", i>>] = {}
    <3>1. \A ith \in Upto(nth) : step[ith] = [c \in {"dst"} \X own[ith] |-> {}]
      OBVIOUS
    <3> HIDE DEF own, step
    <3> QED
      BY <1>2, <3>1
  <2>3. \A ith \in Upto(nth) : \A i \in own[ith] : step[ith][<<"dst", i>>] = f1[i]
    BY <2>2
  <2>4. p.scratch \subseteq OwnWdata(nth) /\ DOMAIN p.program = Upto(nth)
        /\ (\A ith \in Upto(nth) : p.team[ith] = 0) /\ p.program[0] = <<fill, Barrier, step[0]>>
    BY <1>5
  <2>5. \A ith \in Upto(nth) \ {0} : p.program[ith] = <<Idle, Barrier, step[ith]>>
    BY <1>5
  <2>6. \A ith \in Upto(nth) : /\ DOMAIN step[ith] = {"dst"} \X own[ith]
                               /\ \A i \in own[ith] : step[ith][<<"dst", i>>] = f1[i]
    BY <2>2, <2>3
  <2> HIDE DEF p, E, own, f0, f1, fill, step
  <2>7. HasSteps(p, E, nth, own, f0, f1, fill, step)
    BY <2>1, <2>4, <2>5, <2>6 DEF HasSteps
  <2> QED
    BY <2>7, AfterFirstFills
<1>7. IsDealtOut(E, nth, own)
  <2>1. \A s, t \in Upto(nth) : s # t => Strided(ne[2], nth, s) \cap Strided(ne[2], nth, t) = {}
    BY DEF Strided
  <2> HIDE DEF own
  <2> QED
    BY <1>2, <2>1 DEF IsDealtOut
<1>8. FillsFrom(p, E, nth, own, f0, f1)
  <2>1. \A i \in E : p.result[<<"dst", i>>] = IF i[1] - i[2] > n_past THEN {} ELSE f0[i]
    BY <1>5
  <2>2. DOMAIN p.result = {"dst"} \X E
    BY <1>5
  <2>3. \A i \in E : f0[i] \subseteq p.given /\ f1[i] = {}
    BY <1>5 DEF Cells, Src0
  <2>4. \A c \in p.given : c[1] \notin {"dst", "wdata"}
    BY <1>5 DEF Cells
  <2> HIDE DEF p, E, own, f0, f1
  <2> QED
    BY <1>2, <1>3, <2>1, <2>2, <2>3, <2>4 DEF FillsFrom
<1> HIDE DEF p, E, own, f0, f1
<1>9. IsPrepared(p)
  BY <1>6, <1>7, <1>8, FillsIsPrepared
<1> QED
  BY <1>9 DEF p

(* A region of dst: src1 is no longer than dst in any direction, and its   *)
(* last element falls inside dst, as the operators assert.                 *)
Fits(ne, ne1, offset) ==
  /\ offset \in Nat
  /\ ne1[1] <= ne[1] /\ ne1[2] <= ne[2] /\ ne1[3] <= ne[3] /\ ne1[4] <= ne[4]
  /\ offset + OffsetOf(ne, <<ne1[1] - 1, ne1[2] - 1, ne1[3] - 1, ne1[4] - 1>>) < Size(ne)

LEMMA OffsetsGrow ==
  ASSUME NEW ne \in Shape, NEW i \in Nat \X Nat \X Nat \X Nat, NEW j \in Nat \X Nat \X Nat \X Nat,
         i[1] <= j[1], i[2] <= j[2], i[3] <= j[3], i[4] <= j[4]
  PROVE  OffsetOf(ne, i) \in Nat /\ OffsetOf(ne, i) <= OffsetOf(ne, j)
<1> DEFINE a == ne[1]  b == ne[2]  c == ne[3]
           plane(x) == x[3] + c * x[4]
           row(x) == x[2] + b * plane(x)
<1>1. a \in Nat /\ b \in Nat /\ c \in Nat
  BY DEF Shape
<1>2. i[1] \in Nat /\ i[2] \in Nat /\ i[3] \in Nat /\ i[4] \in Nat
      /\ j[1] \in Nat /\ j[2] \in Nat /\ j[3] \in Nat /\ j[4] \in Nat
  OBVIOUS
<1> HIDE DEF a, b, c
<1>3. plane(i) \in Nat /\ plane(j) \in Nat /\ plane(i) <= plane(j)
  <2>1. c * i[4] \in Nat /\ c * j[4] \in Nat /\ c * i[4] <= c * j[4]
    BY <1>1, <1>2, Monotone
  <2> QED
    BY <1>2, <2>1
<1> HIDE DEF plane
<1>4. row(i) \in Nat /\ row(j) \in Nat /\ row(i) <= row(j)
  <2>1. b * plane(i) \in Nat /\ b * plane(j) \in Nat /\ b * plane(i) <= b * plane(j)
    BY <1>1, <1>3, Monotone
  <2> QED
    BY <1>2, <2>1
<1> HIDE DEF row
<1>5. a * row(i) \in Nat /\ a * row(j) \in Nat /\ a * row(i) <= a * row(j)
  BY <1>1, <1>4, Monotone
<1>6. OffsetOf(ne, i) = i[1] + a * row(i) /\ OffsetOf(ne, j) = j[1] + a * row(j)
  BY DEF OffsetOf, a, b, c, plane, row
<1> QED
  BY <1>2, <1>5, <1>6

(* The region has an element of dst for each of src1.                      *)
LEMMA RegionPlaces ==
  ASSUME NEW ne \in Shape, NEW ne1 \in Shape, NEW offset, Fits(ne, ne1, offset), NEW i \in Elements(ne1)
  PROVE  /\ i \in Elements(ne)
         /\ Region(ne, ne1, offset, i) \in Elements(ne)
         /\ OffsetOf(ne, Region(ne, ne1, offset, i)) = OffsetOf(ne, i) + offset
<1> DEFINE last == <<ne1[1] - 1, ne1[2] - 1, ne1[3] - 1, ne1[4] - 1>>
<1>1. /\ ne[1] \in Nat \ {0} /\ ne[2] \in Nat \ {0} /\ ne[3] \in Nat \ {0} /\ ne[4] \in Nat \ {0}
      /\ ne1[1] \in Nat \ {0} /\ ne1[2] \in Nat \ {0} /\ ne1[3] \in Nat \ {0} /\ ne1[4] \in Nat \ {0}
  BY DEF Shape
<1>2. /\ i \in Nat \X Nat \X Nat \X Nat /\ i = <<i[1], i[2], i[3], i[4]>>
      /\ i[1] <= ne1[1] - 1 /\ i[2] <= ne1[2] - 1 /\ i[3] <= ne1[3] - 1 /\ i[4] <= ne1[4] - 1
  BY <1>1 DEF Elements, Upto
<1>3. i \in Elements(ne)
  BY <1>1, <1>2 DEF Fits, Elements, Upto
<1>4. last \in Nat \X Nat \X Nat \X Nat
  BY <1>1
<1>5. OffsetOf(ne, i) \in Nat /\ OffsetOf(ne, i) <= OffsetOf(ne, last) /\ OffsetOf(ne, last) \in Nat
  BY <1>2, <1>4, OffsetsGrow
<1>6. offset \in Nat /\ offset + OffsetOf(ne, last) < Size(ne) /\ Size(ne) \in Nat
  BY SizeOfShape DEF Fits
<1> HIDE DEF last
<1>7. OffsetOf(ne, i) + offset \in Upto(Size(ne))
  BY <1>5, <1>6 DEF Upto
<1> QED
  BY <1>3, <1>7, DecodingAnIndex DEF Region

LEMMA RegionShares ==
  ASSUME NEW ne \in Shape, NEW ne1 \in Shape, NEW offset, Fits(ne, ne1, offset), NEW nth \in Nat \ {0}, NEW own,
         own = [ith \in Upto(nth) |->
                  {Region(ne, ne1, offset, i) : i \in RowCells(ne1, Chunk(NRows(ne1), nth, ith))}]
  PROVE  /\ IsDealtOut(Elements(ne), nth, own)
         /\ \A j \in Elements(ne) : j \in InRegion(ne, ne1, offset) <=> \E ith \in Upto(nth) : j \in own[ith]
         /\ \A j \in InRegion(ne, ne1, offset) : Inner(ne, ne1, offset, j) \in Elements(ne1)
<1> DEFINE At(i) == Region(ne, ne1, offset, i)
           rows == [ith \in Upto(nth) |-> RowCells(ne1, Chunk(NRows(ne1), nth, ith))]
<1>1. IsShareOut(Elements(ne1), nth, rows)
  BY RowShares
<1>2. \A ith \in Upto(nth) : own[ith] = {At(i) : i \in rows[ith]}
  OBVIOUS
<1>3. \A i \in Elements(ne1) : At(i) \in Elements(ne)
  BY RegionPlaces
<1>4. ASSUME NEW i \in Elements(ne1), NEW j \in Elements(ne1), At(i) = At(j) PROVE i = j
  <2>1. OffsetOf(ne, i) + offset = OffsetOf(ne, j) + offset /\ i \in Elements(ne) /\ j \in Elements(ne)
    BY <1>4, RegionPlaces
  <2>2. OffsetOf(ne, i) \in Nat /\ OffsetOf(ne, j) \in Nat /\ offset \in Nat
    <3>1. i \in Nat \X Nat \X Nat \X Nat /\ j \in Nat \X Nat \X Nat \X Nat
      BY SizeOfShape DEF Elements, Upto
    <3> QED
      BY <3>1, OffsetsGrow DEF Fits
  <2>3. OffsetOf(ne, i) = OffsetOf(ne, j)
    BY <2>1, <2>2
  <2> QED
    BY <2>1, <2>3, DecodingAnOffset
<1> HIDE DEF At, rows
<1>5. IsDealtOut(Elements(ne), nth, own)
  <2>1. \A ith \in Upto(nth) : rows[ith] \subseteq Elements(ne1)
    BY <1>1 DEF IsShareOut
  <2>2. \A s, t \in Upto(nth) : s # t => rows[s] \cap rows[t] = {}
    BY <1>1 DEF IsShareOut
  <2>3. \A s, t \in Upto(nth) : s # t => own[s] \cap own[t] = {}
    BY <1>2, <1>4, <2>1, <2>2
  <2> QED
    BY <1>2, <1>3, <2>1, <2>3 DEF IsDealtOut
<1>6. InRegion(ne, ne1, offset) = {At(i) : i \in Elements(ne1)}
  BY DEF InRegion, At
<1>7. ASSUME NEW j \in InRegion(ne, ne1, offset) PROVE Inner(ne, ne1, offset, j) \in Elements(ne1)
  <2>1. \E i \in Elements(ne1) : Region(ne, ne1, offset, i) = j
    BY DEF InRegion
  <2> QED
    BY <2>1 DEF Inner
<1>8. ASSUME NEW j \in Elements(ne)
      PROVE  j \in InRegion(ne, ne1, offset) <=> \E ith \in Upto(nth) : j \in own[ith]
  BY <1>1, <1>2, <1>6 DEF IsShareOut
<1> QED
  BY <1>5, <1>7, <1>8

(* A plan laid out with AfterFirst has such programs.                      *)
LaidOut(p, E, nth, own, f0, f1, fill, step, given, result) ==
  /\ p = Plan(given, result, [ith \in Upto(nth) |-> <<IF ith = 0 THEN fill ELSE Idle, Barrier, step[ith]>>])
  /\ DOMAIN fill = {"dst"} \X E /\ \A i \in E : fill[<<"dst", i>>] = f0[i]
  /\ \A ith \in Upto(nth) : /\ DOMAIN step[ith] = {"dst"} \X own[ith]
                            /\ \A i \in own[ith] : step[ith][<<"dst", i>>] = f1[i]

LEMMA FillPlan ==
  ASSUME NEW nth \in Nat \ {0}, NEW E, NEW own, NEW f0, NEW f1, NEW fill, NEW step, NEW given, NEW result, NEW p,
         LaidOut(p, E, nth, own, f0, f1, fill, step, given, result)
  PROVE  p.given = given /\ p.result = result /\ FillsThenEach(p, E, nth, own, f0, f1)
<1> DEFINE program == [ith \in Upto(nth) |-> <<IF ith = 0 THEN fill ELSE Idle, Barrier, step[ith]>>]
<1>1. 0 \in Upto(nth)
  BY DEF Upto
<1>2. DOMAIN program = Upto(nth) /\ program[0] = <<fill, Barrier, step[0]>>
      /\ \A ith \in Upto(nth) \ {0} : program[ith] = <<Idle, Barrier, step[ith]>>
  BY <1>1
<1>3. p = Plan(given, result, program)
  BY DEF LaidOut
<1> HIDE DEF program
<1>4. p.given = given /\ p.result = result /\ p.scratch = {} /\ p.program = program
      /\ \A ith \in Upto(nth) : p.team[ith] = 0
  BY <1>2, <1>3 DEF Plan, PlanWith
<1>5. HasSteps(p, E, nth, own, f0, f1, fill, step)
  BY <1>2, <1>4 DEF HasSteps, LaidOut
<1> QED
  BY <1>4, <1>5, AfterFirstFills

(* Adding into a region of dst, and replacing one.                         *)
LEMMA AccIsPrepared ==
  ASSUME NEW ne \in Shape, NEW ne1 \in Shape, NEW offset, Fits(ne, ne1, offset), NEW nth \in Nat \ {0}
  PROVE  IsPrepared(Acc(ne, ne1, offset, nth))
<1> DEFINE p == Acc(ne, ne1, offset, nth)
           E == Elements(ne)
           I(j) == Inner(ne, ne1, offset, j)
           Own(ith) == {Region(ne, ne1, offset, i) : i \in RowCells(ne1, Chunk(NRows(ne1), nth, ith))}
           own == [ith \in Upto(nth) |-> Own(ith)]
           fill == [c \in {"dst"} \X E |-> Src0(c[2])]
           Step(ith) == [c \in {"dst"} \X Own(ith) |-> Src0(c[2]) \cup Src1(I(c[2]))]
           step == [ith \in Upto(nth) |-> Step(ith)]
           f0 == [i \in E |-> Src0(i)]
           f1 == [i \in E |-> Src0(i) \cup Src1(I(i))]
           result == [c \in {"dst"} \X E |->
                        Src0(c[2]) \cup IF c[2] \in InRegion(ne, ne1, offset) THEN Src1(I(c[2])) ELSE {}]
<1>1. /\ IsDealtOut(E, nth, own)
      /\ \A j \in E : j \in InRegion(ne, ne1, offset) <=> \E ith \in Upto(nth) : j \in own[ith]
      /\ \A j \in InRegion(ne, ne1, offset) : I(j) \in Elements(ne1)
  BY RegionShares
<1>2. p = Plan(Both(ne, ne1), result,
               [ith \in Upto(nth) |-> <<IF ith = 0 THEN fill ELSE Idle, Barrier, Step(ith)>>])
  BY DEF Acc, Put, PutIn, AfterFirst
<1>3. [ith \in Upto(nth) |-> <<IF ith = 0 THEN fill ELSE Idle, Barrier, Step(ith)>>]
        = [ith \in Upto(nth) |-> <<IF ith = 0 THEN fill ELSE Idle, Barrier, step[ith]>>]
  <2> HIDE DEF fill, Step
  <2> QED
    OBVIOUS
<1>4. DOMAIN fill = {"dst"} \X E /\ \A i \in E : fill[<<"dst", i>>] = f0[i]
  OBVIOUS
<1>5. ASSUME NEW ith \in Upto(nth)
      PROVE  /\ DOMAIN step[ith] = {"dst"} \X own[ith]
             /\ \A i \in own[ith] : step[ith][<<"dst", i>>] = f1[i]
  <2>1. own[ith] = Own(ith) /\ own[ith] \subseteq E
    BY <1>1 DEF IsDealtOut
  <2>2. step[ith] = Step(ith)
    OBVIOUS
  <2>3. DOMAIN Step(ith) = {"dst"} \X Own(ith)
        /\ \A i \in Own(ith) : Step(ith)[<<"dst", i>>] = Src0(i) \cup Src1(I(i))
    <3> HIDE DEF Own, I
    <3> QED
      OBVIOUS
  <2>4. \A i \in E : f1[i] = Src0(i) \cup Src1(I(i))
    OBVIOUS
  <2> HIDE DEF own, step, Step, Own, f1, I, E
  <2> QED
    BY <2>1, <2>2, <2>3, <2>4
<1>6. \A i \in E : f0[i] = Src0(i) /\ f1[i] = Src0(i) \cup Src1(I(i))
  OBVIOUS
<1>7. DOMAIN result = {"dst"} \X E
      /\ \A i \in E : result[<<"dst", i>>]
                        = Src0(i) \cup IF i \in InRegion(ne, ne1, offset) THEN Src1(I(i)) ELSE {}
  <2> HIDE DEF I
  <2> QED
    OBVIOUS
<1> HIDE DEF p, I, own, Own, fill, Step, step, f0, f1, result
<1>8. p.given = Both(ne, ne1) /\ p.result = result /\ FillsThenEach(p, E, nth, own, f0, f1)
  <2>1. LaidOut(p, E, nth, own, f0, f1, fill, step, Both(ne, ne1), result)
    BY <1>2, <1>3, <1>4, <1>5 DEF LaidOut
  <2> QED
    BY <2>1, FillPlan
<1>9. FillsFrom(p, E, nth, own, f0, f1)
  <2>1. \A i \in E : Src0(i) \subseteq p.given
    BY <1>8 DEF Both, Cells, Src0
  <2>2. \A i \in Elements(ne1) : Src1(i) \subseteq p.given
    BY <1>8 DEF Both, Cells, Src1
  <2>3. \A c \in p.given : c[1] \notin {"dst", "wdata"}
    BY <1>8 DEF Both, Cells
  <2>4. \A ith \in Upto(nth) : \A i \in own[ith] : i \in E /\ i \in InRegion(ne, ne1, offset)
    BY <1>1 DEF IsDealtOut
  <2>5. \A i \in E : <<"dst", i>> \notin f1[i]
    BY <1>6 DEF Src0, Src1
  <2> HIDE DEF E
  <2>6. ASSUME NEW i \in E, i \in InRegion(ne, ne1, offset)
        PROVE  f1[i] \subseteq p.given /\ p.result[<<"dst", i>>] = f1[i]
    <3>1. Src1(I(i)) \subseteq p.given /\ Src0(i) \subseteq p.given
      BY <1>1, <2>1, <2>2, <2>6
    <3> QED
      BY <1>6, <1>7, <1>8, <2>6, <3>1
  <2>7. ASSUME NEW i \in E, i \notin InRegion(ne, ne1, offset) PROVE p.result[<<"dst", i>>] = f0[i]
    BY <1>6, <1>7, <1>8, <2>7
  <2>8. \A ith \in Upto(nth) : \A i \in own[ith] : f1[i] \subseteq p.given /\ p.result[<<"dst", i>>] = f1[i]
    BY <2>4, <2>6
  <2>9. \A i \in E : (\A ith \in Upto(nth) : i \notin own[ith]) => p.result[<<"dst", i>>] = f0[i]
    BY <1>1, <2>7
  <2>10. \A ith \in Upto(nth) : \A i \in own[ith] : <<"dst", i>> \notin f1[i]
    BY <2>4, <2>5
  <2>11. DOMAIN p.result = {"dst"} \X E /\ \A i \in E : f0[i] \subseteq p.given
    BY <1>6, <1>7, <1>8, <2>1
  <2> QED
    BY <2>3, <2>8, <2>9, <2>10, <2>11 DEF FillsFrom
<1>10. IsPrepared(p)
  BY <1>1, <1>8, <1>9, FillsIsPrepared
<1> QED
  BY <1>10 DEF p

LEMMA SetIsPrepared ==
  ASSUME NEW ne \in Shape, NEW ne1 \in Shape, NEW offset, Fits(ne, ne1, offset), NEW nth \in Nat \ {0}
  PROVE  IsPrepared(Set(ne, ne1, offset, nth))
<1> DEFINE p == Set(ne, ne1, offset, nth)
           E == Elements(ne)
           I(j) == Inner(ne, ne1, offset, j)
           Own(ith) == {Region(ne, ne1, offset, i) : i \in RowCells(ne1, Chunk(NRows(ne1), nth, ith))}
           own == [ith \in Upto(nth) |-> Own(ith)]
           fill == [c \in {"dst"} \X E |-> Src0(c[2])]
           Step(ith) == [c \in {"dst"} \X Own(ith) |-> Src1(I(c[2]))]
           step == [ith \in Upto(nth) |-> Step(ith)]
           f0 == [i \in E |-> Src0(i)]
           f1 == [i \in E |-> Src1(I(i))]
           result == [c \in {"dst"} \X E |->
                        IF c[2] \in InRegion(ne, ne1, offset) THEN Src1(I(c[2])) ELSE Src0(c[2])]
<1>1. /\ IsDealtOut(E, nth, own)
      /\ \A j \in E : j \in InRegion(ne, ne1, offset) <=> \E ith \in Upto(nth) : j \in own[ith]
      /\ \A j \in InRegion(ne, ne1, offset) : I(j) \in Elements(ne1)
  BY RegionShares
<1>2. p = Plan(Both(ne, ne1), result,
               [ith \in Upto(nth) |-> <<IF ith = 0 THEN fill ELSE Idle, Barrier, Step(ith)>>])
  BY DEF Set, Put, PutIn, AfterFirst
<1>3. [ith \in Upto(nth) |-> <<IF ith = 0 THEN fill ELSE Idle, Barrier, Step(ith)>>]
        = [ith \in Upto(nth) |-> <<IF ith = 0 THEN fill ELSE Idle, Barrier, step[ith]>>]
  <2> HIDE DEF fill, Step
  <2> QED
    OBVIOUS
<1>4. DOMAIN fill = {"dst"} \X E /\ \A i \in E : fill[<<"dst", i>>] = f0[i]
  OBVIOUS
<1>5. ASSUME NEW ith \in Upto(nth)
      PROVE  /\ DOMAIN step[ith] = {"dst"} \X own[ith]
             /\ \A i \in own[ith] : step[ith][<<"dst", i>>] = f1[i]
  <2>1. own[ith] = Own(ith) /\ own[ith] \subseteq E
    BY <1>1 DEF IsDealtOut
  <2>2. step[ith] = Step(ith)
    OBVIOUS
  <2>3. DOMAIN Step(ith) = {"dst"} \X Own(ith)
        /\ \A i \in Own(ith) : Step(ith)[<<"dst", i>>] = Src1(I(i))
    <3> HIDE DEF Own, I
    <3> QED
      OBVIOUS
  <2>4. \A i \in E : f1[i] = Src1(I(i))
    OBVIOUS
  <2> HIDE DEF own, step, Step, Own, f1, I, E
  <2> QED
    BY <2>1, <2>2, <2>3, <2>4
<1>6. \A i \in E : f0[i] = Src0(i) /\ f1[i] = Src1(I(i))
  OBVIOUS
<1>7. DOMAIN result = {"dst"} \X E
      /\ \A i \in E : result[<<"dst", i>>]
                        = IF i \in InRegion(ne, ne1, offset) THEN Src1(I(i)) ELSE Src0(i)
  <2> HIDE DEF I
  <2> QED
    OBVIOUS
<1> HIDE DEF p, I, own, Own, fill, Step, step, f0, f1, result
<1>8. p.given = Both(ne, ne1) /\ p.result = result /\ FillsThenEach(p, E, nth, own, f0, f1)
  <2>1. LaidOut(p, E, nth, own, f0, f1, fill, step, Both(ne, ne1), result)
    BY <1>2, <1>3, <1>4, <1>5 DEF LaidOut
  <2> QED
    BY <2>1, FillPlan
<1>9. FillsFrom(p, E, nth, own, f0, f1)
  <2>1. \A i \in E : Src0(i) \subseteq p.given
    BY <1>8 DEF Both, Cells, Src0
  <2>2. \A i \in Elements(ne1) : Src1(i) \subseteq p.given
    BY <1>8 DEF Both, Cells, Src1
  <2>3. \A c \in p.given : c[1] \notin {"dst", "wdata"}
    BY <1>8 DEF Both, Cells
  <2>4. \A ith \in Upto(nth) : \A i \in own[ith] : i \in E /\ i \in InRegion(ne, ne1, offset)
    BY <1>1 DEF IsDealtOut
  <2>5. \A i \in E : <<"dst", i>> \notin f1[i]
    BY <1>6 DEF Src0, Src1
  <2> HIDE DEF E
  <2>6. ASSUME NEW i \in E, i \in InRegion(ne, ne1, offset)
        PROVE  f1[i] \subseteq p.given /\ p.result[<<"dst", i>>] = f1[i]
    <3>1. Src1(I(i)) \subseteq p.given /\ Src0(i) \subseteq p.given
      BY <1>1, <2>1, <2>2, <2>6
    <3> QED
      BY <1>6, <1>7, <1>8, <2>6, <3>1
  <2>7. ASSUME NEW i \in E, i \notin InRegion(ne, ne1, offset) PROVE p.result[<<"dst", i>>] = f0[i]
    BY <1>6, <1>7, <1>8, <2>7
  <2>8. \A ith \in Upto(nth) : \A i \in own[ith] : f1[i] \subseteq p.given /\ p.result[<<"dst", i>>] = f1[i]
    BY <2>4, <2>6
  <2>9. \A i \in E : (\A ith \in Upto(nth) : i \notin own[ith]) => p.result[<<"dst", i>>] = f0[i]
    BY <1>1, <2>7
  <2>10. \A ith \in Upto(nth) : \A i \in own[ith] : <<"dst", i>> \notin f1[i]
    BY <2>4, <2>5
  <2>11. DOMAIN p.result = {"dst"} \X E /\ \A i \in E : f0[i] \subseteq p.given
    BY <1>6, <1>7, <1>8, <2>1
  <2> QED
    BY <2>3, <2>8, <2>9, <2>10, <2>11 DEF FillsFrom
<1>10. IsPrepared(p)
  BY <1>1, <1>8, <1>9, FillsIsPrepared
<1> QED
  BY <1>10 DEF p

(* Sums of products: src0 and src1 have equal columns, and the planes of   *)
(* src1 are a multiple of those of src0, as the operators assert.          *)
Multiplies(ne0, ne1) == ne0[2] = ne1[2] /\ ne1[3] % ne0[3] = 0 /\ ne1[4] % ne0[4] = 0

LEMMA RepeatedPlane ==
  ASSUME NEW n0 \in Nat \ {0}, NEW n \in Nat \ {0}, n % n0 = 0, NEW i \in Upto(n)
  PROVE  i \div (n \div n0) \in Upto(n0)
<1> DEFINE k == n \div n0
           q == i \div k
<1>1. k \in Nat /\ n = n0 * k
  BY Division
<1> HIDE DEF k
<1>2. k \in Nat \ {0}
  BY <1>1
<1>3. i \in Nat /\ q \in Nat /\ k * q <= i /\ i < n0 * k
  <2>1. i \in Nat /\ i < n
    BY DEF Upto
  <2>2. q \in Nat /\ i % k \in 0 .. k - 1 /\ i = k * q + (i % k)
    BY <1>2, <2>1, Division
  <2> HIDE DEF q
  <2>3. k * q \in Nat
    BY <1>2, <2>2, Monotone
  <2> QED
    BY <1>1, <2>1, <2>2, <2>3
<1> HIDE DEF q
<1>4. ASSUME n0 <= q PROVE FALSE
  <2>1. k * n0 <= k * q /\ k * n0 = n0 * k
    BY <1>2, <1>3, <1>4, Monotone
  <2> QED
    BY <1>2, <1>3, <2>1
<1>5. q \in Upto(n0)
  BY <1>3, <1>4 DEF Upto
<1> QED
  BY <1>5 DEF q, k

LEMMA ProductsGiven ==
  ASSUME NEW ne0 \in Shape, NEW ne1 \in Shape, Multiplies(ne0, ne1), NEW ne, ne = <<ne0[1], ne1[1], ne1[3], ne1[4]>>
  PROVE  ne \in Shape /\ \A i \in Elements(ne) : Products(ne0, ne1, ne, i) \subseteq Both(ne0, ne1)
<1>1. ne \in Shape
  BY DEF Shape
<1>2. ASSUME NEW i \in Elements(ne) PROVE Products(ne0, ne1, ne, i) \subseteq Both(ne0, ne1)
  <2> DEFINE i02 == i[3] \div (ne[3] \div ne0[3])
             i03 == i[4] \div (ne[4] \div ne0[4])
  <2>1. i[1] \in Upto(ne0[1]) /\ i[2] \in Upto(ne1[1]) /\ i[3] \in Upto(ne1[3]) /\ i[4] \in Upto(ne1[4])
    BY DEF Elements
  <2>2. i02 \in Upto(ne0[3]) /\ i03 \in Upto(ne0[4])
    BY <2>1, RepeatedPlane, SizeOfShape DEF Multiplies
  <2> HIDE DEF i02, i03
  <2>3. ASSUME NEW i01 \in Upto(ne0[2])
        PROVE  Src0(<<i[1], i01, i02, i03>>) \cup Src1(<<i[2], i01, i[3], i[4]>>) \subseteq Both(ne0, ne1)
    BY <2>1, <2>2, <2>3 DEF Multiplies, Both, Cells, Src0, Src1, Elements
  <2>4. Products(ne0, ne1, ne, i)
          = UNION {Src0(<<i[1], i01, i02, i03>>) \cup Src1(<<i[2], i01, i[3], i[4]>>) : i01 \in Upto(ne0[2])}
    BY DEF Products, i02, i03
  <2> QED
    BY <2>3, <2>4
<1> QED
  BY <1>1, <1>2

LEMMA DealtOut ==
  ASSUME NEW E, NEW nth, NEW own, IsShareOut(E, nth, own)
  PROVE  IsDealtOut(E, nth, own)
BY DEF IsShareOut, IsDealtOut

(* dst is cleared and each thread adds up its elements of it.              *)
LEMMA SumsFrom ==
  ASSUME NEW p, NEW E, NEW nth \in Nat \ {0}, NEW own, IsShareOut(E, nth, own), NEW f0, NEW f1, NEW g,
         \A i \in E : f0[i] = {} /\ f1[i] = {<<"dst", i>>} \cup g[i] /\ g[i] \subseteq p.given,
         \A c \in p.given : c[1] \notin {"dst", "wdata"},
         DOMAIN p.result = {"dst"} \X E, \A i \in E : p.result[<<"dst", i>>] = g[i]
  PROVE  FillsFrom(p, E, nth, own, f0, f1)
<1>1. \A ith \in Upto(nth) : \A i \in own[ith] : i \in E
  BY DEF IsShareOut
<1>2. \A i \in E : \E ith \in Upto(nth) : i \in own[ith]
  BY DEF IsShareOut
<1>3. ASSUME NEW i \in E
      PROVE  p.result[<<"dst", i>>] = (f1[i] \ {<<"dst", i>>}) \cup IF <<"dst", i>> \in f1[i] THEN f0[i] ELSE {}
  <2>1. <<"dst", i>> \notin g[i]
    OBVIOUS
  <2> QED
    BY <2>1
<1>4. \A i \in E : f0[i] \subseteq p.given /\ f1[i] \subseteq p.given \cup {<<"dst", i>>}
  OBVIOUS
<1> QED
  BY <1>1, <1>2, <1>3, <1>4 DEF FillsFrom

LEMMA OutProdIsPrepared ==
  ASSUME NEW ne0 \in Shape, NEW ne1 \in Shape, Multiplies(ne0, ne1), NEW nth \in Nat \ {0}
  PROVE  IsPrepared(OutProd(ne0, ne1, nth))
<1> DEFINE p == OutProd(ne0, ne1, nth)
           ne == <<ne0[1], ne1[1], ne1[3], ne1[4]>>
           E == Elements(ne)
           own == [ith \in Upto(nth) |-> RowCells(ne, Chunk(NRows(ne), nth, ith))]
           fill == [c \in {"dst"} \X E |-> {}]
           Step(ith) == [c \in {"dst"} \X Own0(ne, nth, ith) |-> {<<"dst", c[2]>>} \cup Products(ne0, ne1, ne, c[2])]
           step == [ith \in Upto(nth) |-> Step(ith)]
           f0 == [i \in E |-> {}]
           g == [i \in E |-> Products(ne0, ne1, ne, i)]
           f1 == [i \in E |-> {<<"dst", i>>} \cup g[i]]
           result == [c \in {"dst"} \X E |-> Products(ne0, ne1, ne, c[2])]
<1>1. ne \in Shape /\ \A i \in E : Products(ne0, ne1, ne, i) \subseteq Both(ne0, ne1)
  BY ProductsGiven
<1>2. IsShareOut(E, nth, own)
  BY <1>1, RowShares
<1>3. p = Plan(Both(ne0, ne1), result,
               [ith \in Upto(nth) |-> <<IF ith = 0 THEN fill ELSE Idle, Barrier, Step(ith)>>])
  BY DEF OutProd, Put, PutIn, AfterFirst
<1>4. [ith \in Upto(nth) |-> <<IF ith = 0 THEN fill ELSE Idle, Barrier, Step(ith)>>]
        = [ith \in Upto(nth) |-> <<IF ith = 0 THEN fill ELSE Idle, Barrier, step[ith]>>]
  <2> HIDE DEF fill, Step
  <2> QED
    OBVIOUS
<1>5. /\ \A i \in E : f0[i] = {} /\ f1[i] = {<<"dst", i>>} \cup g[i] /\ g[i] = Products(ne0, ne1, ne, i)
      /\ DOMAIN fill = {"dst"} \X E /\ \A i \in E : fill[<<"dst", i>>] = f0[i]
  OBVIOUS
<1>6. DOMAIN result = {"dst"} \X E /\ \A i \in E : result[<<"dst", i>>] = g[i]
  OBVIOUS
<1>7. ASSUME NEW ith \in Upto(nth)
      PROVE  /\ DOMAIN step[ith] = {"dst"} \X own[ith]
             /\ \A i \in own[ith] : step[ith][<<"dst", i>>] = f1[i]
  <2>1. own[ith] = Own0(ne, nth, ith) /\ own[ith] \subseteq E
    BY <1>2 DEF IsShareOut, Own0
  <2>2. step[ith] = Step(ith)
    OBVIOUS
  <2>3. DOMAIN Step(ith) = {"dst"} \X Own0(ne, nth, ith)
        /\ \A i \in Own0(ne, nth, ith) : Step(ith)[<<"dst", i>>] = {<<"dst", i>>} \cup Products(ne0, ne1, ne, i)
    <3> HIDE DEF ne
    <3> QED
      OBVIOUS
  <2> HIDE DEF own, step, Step, f0, f1, g, E, ne
  <2> QED
    BY <1>5, <2>1, <2>2, <2>3
<1> HIDE DEF p, own, fill, Step, step, f0, f1, g, result, E
<1>8. p.given = Both(ne0, ne1) /\ p.result = result /\ FillsThenEach(p, E, nth, own, f0, f1)
  <2>1. LaidOut(p, E, nth, own, f0, f1, fill, step, Both(ne0, ne1), result)
    BY <1>3, <1>4, <1>5, <1>7 DEF LaidOut
  <2> QED
    BY <2>1, FillPlan
<1> HIDE DEF ne
<1>9. FillsFrom(p, E, nth, own, f0, f1)
  <2>1. \A c \in p.given : c[1] \notin {"dst", "wdata"}
    BY <1>8 DEF Both, Cells
  <2>2. \A i \in E : f0[i] = {} /\ f1[i] = {<<"dst", i>>} \cup g[i] /\ g[i] \subseteq p.given
    BY <1>1, <1>5, <1>8
  <2>3. DOMAIN p.result = {"dst"} \X E /\ \A i \in E : p.result[<<"dst", i>>] = g[i]
    BY <1>6, <1>8
  <2> QED
    BY <1>2, <2>1, <2>2, <2>3, SumsFrom
<1>10. IsPrepared(p)
  BY <1>2, <1>8, <1>9, DealtOut, FillsIsPrepared
<1> QED
  BY <1>10 DEF p

(* The same through the thread's part of wdata.                            *)
LEMMA OutProdConvertedIsPrepared ==
  ASSUME NEW ne0 \in Shape, NEW ne1 \in Shape, Multiplies(ne0, ne1), NEW nth \in Nat \ {0}
  PROVE  IsPrepared(OutProdConverted(ne0, ne1, nth))
<1> DEFINE p == OutProdConverted(ne0, ne1, nth)
           ne == <<ne0[1], ne1[1], ne1[3], ne1[4]>>
           E == Elements(ne)
           own == [ith \in Upto(nth) |-> RowCells(ne, Chunk(NRows(ne), nth, ith))]
           fill == [c \in {"dst"} \X E |-> {}]
           Step(ith) == [c \in {"dst"} \X Own0(ne, nth, ith) |-> {<<"dst", c[2]>>} \cup Products(ne0, ne1, ne, c[2])]
           step == [ith \in Upto(nth) |-> Step(ith)]
           f0 == [i \in E |-> {}]
           g == [i \in E |-> Products(ne0, ne1, ne, i)]
           f1 == [i \in E |-> {<<"dst", i>>} \cup g[i]]
           result == [c \in {"dst"} \X E |-> Products(ne0, ne1, ne, c[2])]
           program == [ith \in Upto(nth) |->
                         <<IF ith = 0 THEN fill ELSE Idle, Barrier, Through(ith, Step(ith))>>]
<1>1. ne \in Shape /\ \A i \in E : Products(ne0, ne1, ne, i) \subseteq Both(ne0, ne1)
  BY ProductsGiven
<1>2. IsShareOut(E, nth, own)
  BY <1>1, RowShares
<1>3. p = PlanWith(Both(ne0, ne1), OwnWdata(nth), result, program)
  BY DEF OutProdConverted, Put, PutIn, AfterFirst
<1>4. 0 \in Upto(nth)
  BY DEF Upto
<1>5. /\ DOMAIN program = Upto(nth) /\ program[0][1] = fill
      /\ \A ith \in Upto(nth) : /\ DOMAIN program[ith] = 1 .. 3 /\ program[ith][2] = Barrier
                                /\ program[ith][3] = Through(ith, Step(ith))
                                /\ ith # 0 => program[ith][1] = Idle
  <2> HIDE DEF fill, Step
  <2> QED
    BY <1>4
<1>6. /\ \A i \in E : f0[i] = {} /\ f1[i] = {<<"dst", i>>} \cup g[i] /\ g[i] = Products(ne0, ne1, ne, i)
      /\ DOMAIN fill = {"dst"} \X E /\ \A i \in E : fill[<<"dst", i>>] = f0[i]
  OBVIOUS
<1>7. DOMAIN result = {"dst"} \X E /\ \A i \in E : result[<<"dst", i>>] = g[i]
  OBVIOUS
<1>8. ASSUME NEW ith \in Upto(nth)
      PROVE  /\ DOMAIN step[ith] = {"dst"} \X own[ith]
             /\ \A i \in own[ith] : i \in E /\ step[ith][<<"dst", i>>] = f1[i]
             /\ step[ith] = Step(ith)
  <2>1. own[ith] = Own0(ne, nth, ith) /\ own[ith] \subseteq E
    BY <1>2 DEF IsShareOut, Own0
  <2>2. step[ith] = Step(ith)
    OBVIOUS
  <2>3. DOMAIN Step(ith) = {"dst"} \X Own0(ne, nth, ith)
        /\ \A i \in Own0(ne, nth, ith) : Step(ith)[<<"dst", i>>] = {<<"dst", i>>} \cup Products(ne0, ne1, ne, i)
    <3> HIDE DEF ne
    <3> QED
      OBVIOUS
  <2> HIDE DEF own, step, Step, f0, f1, g, E, ne
  <2> QED
    BY <1>6, <2>1, <2>2, <2>3
<1> HIDE DEF p, own, fill, Step, step, f0, f1, g, result, E, program
<1>9. /\ p.given = Both(ne0, ne1) /\ p.result = result /\ p.scratch = OwnWdata(nth) /\ p.program = program
      /\ \A ith \in Upto(nth) : p.team[ith] = 0
  BY <1>3, <1>5 DEF PlanWith
<1> HIDE DEF ne
<1>10. \A i \in E : f0[i] = {} /\ f1[i] = {<<"dst", i>>} \cup g[i] /\ g[i] \subseteq p.given
  BY <1>1, <1>6, <1>9
<1>11. FillsThenEach(p, E, nth, own, f0, f1)
  <2>1. ASSUME NEW ith \in Upto(nth), NEW c \in {"dst"} \X own[ith]
        PROVE  step[ith][c] = f1[c[2]] /\ step[ith][c] \subseteq p.given \cup {"dst"} \X own[ith]
    <3>1. c = <<"dst", c[2]>> /\ c[2] \in own[ith]
      OBVIOUS
    <3>2. step[ith][c] = f1[c[2]] /\ c[2] \in E
      BY <1>8, <3>1
    <3>3. f1[c[2]] \subseteq p.given \cup {<<"dst", c[2]>>}
      BY <1>10, <3>2
    <3> QED
      BY <3>1, <3>2, <3>3
  <2>2. ASSUME NEW ith \in Upto(nth)
        PROVE  /\ DOMAIN p.program[ith][3] = {"dst"} \X own[ith] \cup {<<"wdata", ith>>}
               /\ \A c \in {"dst"} \X own[ith] : p.program[ith][3][c] = f1[c[2]]
               /\ p.program[ith][3][<<"wdata", ith>>] \subseteq p.given \cup {"dst"} \X own[ith]
               /\ <<"wdata", ith>> \in p.scratch
    <3> DEFINE D == {"dst"} \X own[ith]
    <3>1. PICK s : s = step[ith]
      OBVIOUS
    <3>2. DOMAIN s = D /\ <<"wdata", ith>> \notin D
      BY <1>8, <3>1
    <3>3. /\ DOMAIN Through(ith, s) = DOMAIN s \cup {<<"wdata", ith>>}
          /\ \A c \in DOMAIN s : Through(ith, s)[c] = s[c]
          /\ Through(ith, s)[<<"wdata", ith>>] = UNION {s[c] : c \in DOMAIN s}
      <4> HIDE DEF D
      <4> QED
        BY <3>2, ThroughStep
    <3>4. p.program[ith][3] = Through(ith, s)
      BY <1>5, <1>8, <1>9, <3>1
    <3>5. \A c \in D : s[c] = f1[c[2]] /\ s[c] \subseteq p.given \cup D
      BY <2>1, <3>1
    <3>6. UNION {s[c] : c \in DOMAIN s} \subseteq p.given \cup D
      BY <3>2, <3>5
    <3>7. <<"wdata", ith>> \in p.scratch
      BY <1>9 DEF OwnWdata
    <3> QED
      BY <3>2, <3>3, <3>4, <3>5, <3>6, <3>7
  <2>3. /\ DOMAIN p.program = Upto(nth) /\ p.scratch \subseteq OwnWdata(nth)
        /\ \A s, t \in Upto(nth) : p.team[s] = p.team[t]
    BY <1>5, <1>9
  <2>4. DOMAIN p.program[0][1] = {"dst"} \X E /\ \A i \in E : p.program[0][1][<<"dst", i>>] = f0[i]
    BY <1>5, <1>6, <1>9
  <2>5. \A ith \in Upto(nth) : /\ DOMAIN p.program[ith] = 1 .. 3 /\ p.program[ith][2] = Barrier
                               /\ ith # 0 => p.program[ith][1] = Idle
    BY <1>5, <1>9
  <2>6. ASSUME NEW ith \in Upto(nth), NEW c \in DOMAIN p.program[ith][3]
        PROVE  \/ c \in {"dst"} \X own[ith] /\ p.program[ith][3][c] = f1[c[2]]
               \/ c = <<"wdata", ith>> /\ c \in p.scratch
                  /\ p.program[ith][3][c] \subseteq p.given \cup {"dst"} \X own[ith]
    <3>1. DOMAIN p.program[ith][3] = {"dst"} \X own[ith] \cup {<<"wdata", ith>>}
      BY <2>2
    <3>2. CASE c \in {"dst"} \X own[ith]
      <4>1. p.program[ith][3][c] = f1[c[2]]
        BY <2>2, <3>2
      <4> QED
        BY <3>2, <4>1
    <3>3. CASE c = <<"wdata", ith>>
      <4>1. p.program[ith][3][<<"wdata", ith>>] \subseteq p.given \cup {"dst"} \X own[ith]
            /\ <<"wdata", ith>> \in p.scratch
        BY <2>2
      <4> QED
        BY <3>3, <4>1
    <3>4. c \in {"dst"} \X own[ith] \/ c = <<"wdata", ith>>
      BY <3>1
    <3> QED
      BY <3>2, <3>3, <3>4
  <2>7. \A ith \in Upto(nth) : {"dst"} \X own[ith] \subseteq DOMAIN p.program[ith][3]
    BY <2>2
  <2> QED
    BY <2>3, <2>4, <2>5, <2>6, <2>7 DEF FillsThenEach
<1>12. FillsFrom(p, E, nth, own, f0, f1)
  <2>1. \A c \in p.given : c[1] \notin {"dst", "wdata"}
    BY <1>9 DEF Both, Cells
  <2>2. DOMAIN p.result = {"dst"} \X E /\ \A i \in E : p.result[<<"dst", i>>] = g[i]
    BY <1>7, <1>9
  <2> QED
    BY <1>2, <1>10, <2>1, <2>2, SumsFrom
<1>13. IsPrepared(p)
  BY <1>2, <1>11, <1>12, DealtOut, FillsIsPrepared
<1> QED
  BY <1>13 DEF p

-----------------------------------------------------------------------------
(* Attention of one query, as in generating: the positions are split over  *)
(* the threads, and the partial results of each head are put together.     *)

\* What position ic gives to query i.
TakenAt(nq, nk, nm, i, ic) ==
  {<<"k", <<ic, i[2] \div (nq[2] \div nk[2]), i[3] \div (nq[3] \div nk[3])>>>>,
   <<"v", <<ic, i[2] \div (nq[2] \div nk[2]), i[3] \div (nq[3] \div nk[3])>>>>,
   <<"mask", <<ic, i[1], i[2] % nm[1], i[3] % nm[2]>>>>}

LEMMA AttendedIs ==
  ASSUME NEW nq, NEW nk, NEW nm, NEW i, NEW positions
  PROVE  Attended(nq, nk, nm, i, positions)
           = {<<"q", i>>} \cup UNION {TakenAt(nq, nk, nm, i, ic) : ic \in positions}
BY DEF Attended, TakenAt

\* The heads and sequences of k and v are shared by groups of equal size, and
\* the mask is repeated.
Attends(nq, nk, nm) ==
  /\ \A x \in 1 .. 3 : nq[x] \in Nat \ {0} /\ nk[x] \in Nat \ {0}
  /\ nm[1] \in Nat \ {0} /\ nm[2] \in Nat \ {0}
  /\ nq[2] % nk[2] = 0 /\ nq[3] % nk[3] = 0

LEMMA AttendedGiven ==
  ASSUME NEW nq, NEW nk, NEW nm, Attends(nq, nk, nm),
         NEW i \in Upto(nq[1]) \X Upto(nq[2]) \X Upto(nq[3]), NEW positions, positions \subseteq Upto(nk[1])
  PROVE  Attended(nq, nk, nm, i, positions) \cup {<<"sinks", i[2]>>} \subseteq GivenAttention(nq, nk, nm)
<1> DEFINE kh == i[2] \div (nq[2] \div nk[2])
           kb == i[3] \div (nq[3] \div nk[3])
<1>1. /\ nq[1] \in Nat \ {0} /\ nq[2] \in Nat \ {0} /\ nq[3] \in Nat \ {0}
      /\ nk[1] \in Nat \ {0} /\ nk[2] \in Nat \ {0} /\ nk[3] \in Nat \ {0}
      /\ nm[1] \in Nat \ {0} /\ nm[2] \in Nat \ {0} /\ nq[2] % nk[2] = 0 /\ nq[3] % nk[3] = 0
  BY DEF Attends
<1>2. i = <<i[1], i[2], i[3]>> /\ i[1] \in Upto(nq[1]) /\ i[2] \in Upto(nq[2]) /\ i[3] \in Upto(nq[3])
  OBVIOUS
<1>3. kh \in Upto(nk[2]) /\ kb \in Upto(nk[3])
  BY <1>1, <1>2, RepeatedPlane
<1>4. i[2] % nm[1] \in Upto(nm[1]) /\ i[3] % nm[2] \in Upto(nm[2])
  <2>1. i[2] \in Nat /\ i[3] \in Nat
    BY <1>2 DEF Upto
  <2>2. i[2] % nm[1] \in 0 .. nm[1] - 1 /\ i[3] % nm[2] \in 0 .. nm[2] - 1
    BY <1>1, <2>1, Division
  <2> QED
    BY <2>2 DEF Upto
<1>5. ASSUME NEW ic \in positions PROVE TakenAt(nq, nk, nm, i, ic) \subseteq GivenAttention(nq, nk, nm)
  <2> HIDE DEF kh, kb
  <2>1. TakenAt(nq, nk, nm, i, ic)
          = {<<"k", <<ic, kh, kb>>>>, <<"v", <<ic, kh, kb>>>>, <<"mask", <<ic, i[1], i[2] % nm[1], i[3] % nm[2]>>>>}
    BY DEF TakenAt, kh, kb
  <2>2. <<ic, kh, kb>> \in Upto(nk[1]) \X Upto(nk[2]) \X Upto(nk[3])
    BY <1>3
  <2>3. <<ic, i[1], i[2] % nm[1], i[3] % nm[2]>> \in Upto(nk[1]) \X Upto(nq[1]) \X Upto(nm[1]) \X Upto(nm[2])
    BY <1>2, <1>4
  <2> QED
    BY <2>1, <2>2, <2>3 DEF GivenAttention
<1>6. {<<"q", i>>, <<"sinks", i[2]>>} \subseteq GivenAttention(nq, nk, nm)
  BY <1>2 DEF GivenAttention
<1> QED
  BY <1>5, <1>6, AttendedIs

Separates(place, rows) == \A ir, jr \in rows : place[ir] = place[jr] => ir = jr

\* A step that computes each of the rows at its place.
IsChunk(step, nq, nk, nm, rows, positions, place) ==
  /\ DOMAIN step = {place[ir] : ir \in rows}
  /\ \A ir \in rows :
       step[place[ir]] = Attended(nq, nk, nm, QueryRow(nq, ir), positions)
                         \cup IF 0 \in positions THEN {<<"sinks", QueryRow(nq, ir)[2]>>} ELSE {}

LEMMA OneChunkIs ==
  ASSUME NEW nq, NEW nk, NEW nm, NEW rows, NEW positions, NEW place, Separates(place, rows)
  PROVE  IsChunk(OneChunk(nq, nk, nm, rows, positions, place), nq, nk, nm, rows, positions, place)
<1> DEFINE Sink(ir) == IF 0 \in positions THEN {<<"sinks", QueryRow(nq, ir)[2]>>} ELSE {}
           Of(ir) == Attended(nq, nk, nm, QueryRow(nq, ir), positions) \cup Sink(ir)
           D == {place[ir] : ir \in rows}
<1>1. OneChunk(nq, nk, nm, rows, positions, place)
        = [c \in D |-> UNION {Of(ir) : ir \in {ir \in rows : place[ir] = c}}]
  BY DEF OneChunk
<1> HIDE DEF Of
<1>2. ASSUME NEW ir \in rows
      PROVE  OneChunk(nq, nk, nm, rows, positions, place)[place[ir]] = Of(ir)
  <2>1. {jr \in rows : place[jr] = place[ir]} = {ir}
    BY DEF Separates
  <2>2. place[ir] \in D
    OBVIOUS
  <2> HIDE DEF D
  <2>3. OneChunk(nq, nk, nm, rows, positions, place)[place[ir]]
          = UNION {Of(jr) : jr \in {jr \in rows : place[jr] = place[ir]}}
    BY <1>1, <2>2
  <2> QED
    BY <2>1, <2>3
<1>3. DOMAIN OneChunk(nq, nk, nm, rows, positions, place) = D
  BY <1>1
<1> QED
  BY <1>2, <1>3 DEF Of, IsChunk

LEMMA OneQuery ==
  ASSUME NEW nq, nq[1] = 1, nq[3] = 1, nq[2] \in Nat \ {0}, NEW h \in Upto(nq[2])
  PROVE  QueryRow(nq, h) = <<0, h, 0>> /\ AttentionRow(nq, QueryRow(nq, h)) = <<"dst", h>>
<1>1. h \in Nat /\ h < nq[2]
  BY DEF Upto
<1>2. h \div nq[2] = 0 /\ h \div 1 = h
  BY <1>1
<1>3. QueryRow(nq, h) = <<0, h, 0>>
  BY <1>1, <1>2 DEF QueryRow, RowOf
<1>4. AttentionRow(nq, <<0, h, 0>>) = <<"dst", h>>
  BY <1>1 DEF AttentionRow
<1> QED
  BY <1>3, <1>4

\* The positions of thread ith, and what its partial result of head h is from.
PositionsOf(nk, nth, ith) == Chunk(nk[1], nth, ith)
PartOf(nq, nk, nm, nth, h, ith) ==
  LET positions == PositionsOf(nk, nth, ith)
  IN IF positions = {} THEN {}
     ELSE Attended(nq, nk, nm, <<0, h, 0>>, positions) \cup IF 0 \in positions THEN {<<"sinks", h>>} ELSE {}
WantedOf(nq, nk, nm, h) == Attended(nq, nk, nm, <<0, h, 0>>, Upto(nk[1])) \cup {<<"sinks", h>>}
ActiveParts(nk, nth) == {ci \in Upto(nth) : ci * ((nk[1] + nth - 1) \div nth) < nk[1]}

LEMMA PartsMakeTheWhole ==
  ASSUME NEW nq, NEW nk, NEW nm, nk[1] \in Nat \ {0}, NEW nth \in Nat \ {0}, NEW h
  PROVE  UNION {PartOf(nq, nk, nm, nth, h, ci) : ci \in ActiveParts(nk, nth)} = WantedOf(nq, nk, nm, h)
<1> DEFINE P(ci) == PositionsOf(nk, nth, ci)
           active == ActiveParts(nk, nth)
           Part(ci) == PartOf(nq, nk, nm, nth, h, ci)
<1>0. PICK i : i = <<0, h, 0>>
  OBVIOUS
<1>1. IsPartition(nk[1], nth, [ci \in Upto(nth) |-> P(ci)])
  BY ChunksPartition DEF PositionsOf
<1>2. ASSUME NEW ci \in Upto(nth) PROVE P(ci) \subseteq Upto(nk[1]) /\ (P(ci) # {} => ci \in active)
  <2>1. P(ci) \subseteq Upto(nk[1])
    BY <1>1 DEF IsPartition
  <2>2. ASSUME P(ci) # {} PROVE ci \in active
    <3> DEFINE cs == (nk[1] + nth - 1) \div nth
    <3>1. cs \in Nat
      BY Division
    <3>2. P(ci) = cs * ci .. Least(cs * ci + cs, nk[1]) - 1
      BY DEF PositionsOf, Chunk
    <3> HIDE DEF cs, P
    <3>3. ci \in Nat /\ cs * ci \in Nat /\ ci * cs = cs * ci
      BY <3>1, Monotone DEF Upto
    <3>4. cs * ci < nk[1]
      BY <2>2, <3>1, <3>2, <3>3 DEF Least
    <3> QED
      BY <3>3, <3>4 DEF ActiveParts, cs
  <2> QED
    BY <2>1, <2>2
<1>3. \A ic \in Upto(nk[1]) : \E ci \in Upto(nth) : ic \in P(ci)
  BY <1>1 DEF IsPartition
<1>4. \A ci \in active : ci \in Upto(nth)
  BY DEF ActiveParts
<1>5. 0 \in Upto(nk[1])
  BY DEF Upto
<1>6. \A x : x \in WantedOf(nq, nk, nm, h)
               <=> x = <<"q", i>> \/ x = <<"sinks", h>> \/ \E ic \in Upto(nk[1]) : x \in TakenAt(nq, nk, nm, i, ic)
  <2>1. Attended(nq, nk, nm, i, Upto(nk[1])) = {<<"q", i>>} \cup UNION {TakenAt(nq, nk, nm, i, ic) : ic \in Upto(nk[1])}
    BY AttendedIs, Zenon
  <2>2. WantedOf(nq, nk, nm, h) = Attended(nq, nk, nm, i, Upto(nk[1])) \cup {<<"sinks", h>>}
    BY <1>0, Zenon DEF WantedOf
  <2> QED
    BY <2>1, <2>2
<1>7. ASSUME NEW ci \in Upto(nth), P(ci) # {}
      PROVE  \A x : x \in Part(ci)
                   <=> \/ x = <<"q", i>> \/ (x = <<"sinks", h>> /\ 0 \in P(ci))
                       \/ \E ic \in P(ci) : x \in TakenAt(nq, nk, nm, i, ic)
  <2>1. PICK positions : positions = P(ci)
    OBVIOUS
  <2>2. Attended(nq, nk, nm, i, positions) = {<<"q", i>>} \cup UNION {TakenAt(nq, nk, nm, i, ic) : ic \in positions}
    BY AttendedIs, Zenon
  <2>3. Part(ci) = IF positions = {} THEN {}
                   ELSE Attended(nq, nk, nm, i, positions) \cup IF 0 \in positions THEN {<<"sinks", h>>} ELSE {}
    BY <1>0, <2>1, Zenon DEF PartOf
  <2> HIDE DEF P, Part
  <2>4. Part(ci) = Attended(nq, nk, nm, i, positions) \cup IF 0 \in positions THEN {<<"sinks", h>>} ELSE {}
    BY <1>7, <2>1, <2>3
  <2>5. \A x : x \in Attended(nq, nk, nm, i, positions)
                <=> x = <<"q", i>> \/ \E ic \in positions : x \in TakenAt(nq, nk, nm, i, ic)
    BY <2>2
  <2> QED
    BY <2>1, <2>4, <2>5
<1>8. ASSUME NEW ci \in Upto(nth), P(ci) = {} PROVE Part(ci) = {}
  BY <1>8, Zenon DEF PartOf
<1> HIDE DEF P, active, Part
<1>9. ASSUME NEW ci \in active PROVE Part(ci) \subseteq WantedOf(nq, nk, nm, h)
  <2>1. ci \in Upto(nth) /\ P(ci) \subseteq Upto(nk[1])
    BY <1>2, <1>4
  <2>2. CASE P(ci) = {}
    BY <1>8, <2>1, <2>2
  <2>3. CASE P(ci) # {}
    <3>1. \A x : x \in Part(ci)
                <=> \/ x = <<"q", i>> \/ (x = <<"sinks", h>> /\ 0 \in P(ci))
                    \/ \E ic \in P(ci) : x \in TakenAt(nq, nk, nm, i, ic)
      BY <1>7, <2>1, <2>3
    <3> QED
      BY <1>6, <2>1, <3>1
  <2> QED
    BY <2>2, <2>3
<1>10. ASSUME NEW x \in WantedOf(nq, nk, nm, h) PROVE \E ci \in active : x \in Part(ci)
  <2>1. PICK ic \in Upto(nk[1]) :
          x = <<"q", i>> \/ x \in TakenAt(nq, nk, nm, i, ic) \/ (x = <<"sinks", h>> /\ ic = 0)
    BY <1>5, <1>6
  <2>2. PICK ci \in Upto(nth) : ic \in P(ci)
    BY <1>3
  <2>3. ci \in active /\ P(ci) # {}
    BY <1>2, <2>2
  <2>4. \A y : y \in Part(ci)
              <=> \/ y = <<"q", i>> \/ (y = <<"sinks", h>> /\ 0 \in P(ci))
                  \/ \E jc \in P(ci) : y \in TakenAt(nq, nk, nm, i, jc)
    BY <1>7, <2>3
  <2>5. x \in Part(ci)
    BY <2>1, <2>2, <2>4
  <2> QED
    BY <2>3, <2>5
<1>11. UNION {Part(ci) : ci \in active} = WantedOf(nq, nk, nm, h)
  BY <1>9, <1>10
<1> QED
  BY <1>11 DEF Part, active

\* What the threads prepare and finish, and what dst then holds.
SplitPlan(p, nq, nk, nm, nth, partial, reduced, result) ==
  /\ p.given = GivenAttention(nq, nk, nm) /\ p.result = result
  /\ p.scratch = OwnWdata(nth) \cup ({"partial"} \X (Upto(nq[2]) \X Upto(nth)))
  /\ DOMAIN p.program = Upto(nth)
  /\ \A ith \in Upto(nth) :
       /\ p.team[ith] = 0
       /\ p.program[ith] = <<Through(ith, partial[ith]), Barrier, Through(ith, reduced[ith])>>
       /\ DOMAIN partial[ith] = {<<"partial", <<h, ith>>>> : h \in Upto(nq[2])}
       /\ \A h \in Upto(nq[2]) : partial[ith][<<"partial", <<h, ith>>>>] = PartOf(nq, nk, nm, nth, h, ith)
       /\ DOMAIN reduced[ith] = {<<"dst", h>> : h \in Strided(nq[2], nth, ith)}
       /\ \A h \in Strided(nq[2], nth, ith) :
            reduced[ith][<<"dst", h>>] = {<<"partial", <<h, ci>>>> : ci \in ActiveParts(nk, nth)}
  /\ DOMAIN result = {"dst"} \X Upto(nq[2])
  /\ \A h \in Upto(nq[2]) : result[<<"dst", h>>] = WantedOf(nq, nk, nm, h)

LEMMA SplitIsPrepared ==
  ASSUME NEW p, NEW nq, NEW nk, NEW nm, Attends(nq, nk, nm), nq[1] = 1, nq[3] = 1, NEW nth \in Nat \ {0},
         NEW partial, NEW reduced, NEW result, SplitPlan(p, nq, nk, nm, nth, partial, reduced, result)
  PROVE  IsPrepared(p)
<1> DEFINE N == Upto(nth)
           H == Upto(nq[2])
<1>1. /\ p.given = GivenAttention(nq, nk, nm) /\ p.result = result /\ DOMAIN p.program = N
      /\ DOMAIN p.result = {"dst"} \X H /\ p.scratch = OwnWdata(nth) \cup ({"partial"} \X (H \X N))
  BY DEF SplitPlan
<1>2. \A c \in p.given : c[1] \notin {"dst", "wdata", "partial"}
  BY <1>1 DEF GivenAttention
<1>3. ASSUME NEW h \in H, NEW ith \in N PROVE PartOf(nq, nk, nm, nth, h, ith) \subseteq p.given
  <2> DEFINE i == <<0, h, 0>>
             P == PositionsOf(nk, nth, ith)
  <2>1. i \in Upto(nq[1]) \X Upto(nq[2]) \X Upto(nq[3]) /\ i[2] = h
    BY DEF Upto
  <2>2. P \subseteq Upto(nk[1])
    <3>1. IsPartition(nk[1], nth, [ci \in Upto(nth) |-> PositionsOf(nk, nth, ci)])
      BY ChunksPartition DEF PositionsOf, Attends
    <3> QED
      BY <3>1 DEF IsPartition
  <2>3. PartOf(nq, nk, nm, nth, h, ith) \subseteq Attended(nq, nk, nm, i, P) \cup {<<"sinks", h>>}
    BY Zenon DEF PartOf
  <2> HIDE DEF i, P
  <2>4. Attended(nq, nk, nm, i, P) \cup {<<"sinks", i[2]>>} \subseteq p.given
    BY <1>1, <2>1, <2>2, AttendedGiven
  <2> QED
    BY <2>1, <2>3, <2>4
<1>4. ASSUME NEW t \in N
      PROVE  /\ Prepares(p, t) = Through(t, partial[t]) /\ Finishes(p, t) = Through(t, reduced[t])
             /\ DOMAIN p.program[t] = 1 .. 3 /\ p.program[t][2] = Barrier
  <2>1. p.program[t] = <<Through(t, partial[t]), Barrier, Through(t, reduced[t])>>
    BY DEF SplitPlan
  <2>2. 3 \in 1 .. 3
    OBVIOUS
  <2> QED
    BY <2>1, <2>2 DEF Prepares, Finishes
<1>5. ASSUME NEW t \in N
      PROVE  /\ DOMAIN Prepares(p, t) = {<<"partial", <<h, t>>>> : h \in H} \cup {<<"wdata", t>>}
             /\ \A h \in H : Prepares(p, t)[<<"partial", <<h, t>>>>] = PartOf(nq, nk, nm, nth, h, t)
             /\ Prepares(p, t)[<<"wdata", t>>] \subseteq p.given
  <2> DEFINE D == {<<"partial", <<h, t>>>> : h \in H}
  <2>1. PICK s : s = partial[t]
    OBVIOUS
  <2>2. DOMAIN s = D /\ \A h \in H : s[<<"partial", <<h, t>>>>] = PartOf(nq, nk, nm, nth, h, t)
    BY <2>1 DEF SplitPlan
  <2>3. <<"wdata", t>> \notin D
    OBVIOUS
  <2>4. \A c \in D : s[c] \subseteq p.given
    BY <1>3, <2>2
  <2>5. \A h \in H : <<"partial", <<h, t>>>> \in D
    OBVIOUS
  <2> HIDE DEF D
  <2>6. /\ DOMAIN Through(t, s) = D \cup {<<"wdata", t>>}
        /\ \A c \in D : Through(t, s)[c] = s[c]
        /\ Through(t, s)[<<"wdata", t>>] = UNION {s[c] : c \in D}
    BY <2>2, <2>3, ThroughStep
  <2>7. Prepares(p, t) = Through(t, s)
    BY <1>4, <2>1
  <2>8. Prepares(p, t)[<<"wdata", t>>] \subseteq p.given
    BY <2>4, <2>6, <2>7
  <2>9. \A h \in H : Prepares(p, t)[<<"partial", <<h, t>>>>] = PartOf(nq, nk, nm, nth, h, t)
    BY <2>2, <2>5, <2>6, <2>7
  <2> QED
    BY <2>6, <2>7, <2>8, <2>9 DEF D
<1>6. ASSUME NEW t \in N
      PROVE  /\ DOMAIN Finishes(p, t) = {<<"dst", h>> : h \in Strided(nq[2], nth, t)} \cup {<<"wdata", t>>}
             /\ \A h \in Strided(nq[2], nth, t) :
                  Finishes(p, t)[<<"dst", h>>] = {<<"partial", <<h, ci>>>> : ci \in ActiveParts(nk, nth)}
             /\ \A c \in DOMAIN Finishes(p, t) : Finishes(p, t)[c] \subseteq {"partial"} \X (H \X N)
  <2> DEFINE D == {<<"dst", h>> : h \in Strided(nq[2], nth, t)}
             Parts(h) == {<<"partial", <<h, ci>>>> : ci \in ActiveParts(nk, nth)}
  <2>1. PICK s : s = reduced[t]
    OBVIOUS
  <2>2. DOMAIN s = D /\ \A h \in Strided(nq[2], nth, t) : s[<<"dst", h>>] = Parts(h)
    BY <2>1 DEF SplitPlan
  <2>3. <<"wdata", t>> \notin D
    OBVIOUS
  <2>4. \A h \in Strided(nq[2], nth, t) : <<"dst", h>> \in D /\ Parts(h) \subseteq {"partial"} \X (H \X N)
    BY DEF Strided, ActiveParts
  <2>5. \A c \in D : s[c] \subseteq {"partial"} \X (H \X N)
    BY <2>2, <2>4
  <2> HIDE DEF D
  <2>6. /\ DOMAIN Through(t, s) = D \cup {<<"wdata", t>>}
        /\ \A c \in D : Through(t, s)[c] = s[c]
        /\ Through(t, s)[<<"wdata", t>>] = UNION {s[c] : c \in D}
    BY <2>2, <2>3, ThroughStep
  <2>7. Finishes(p, t) = Through(t, s)
    BY <1>4, <2>1
  <2> HIDE DEF N, H
  <2>8. \A c \in DOMAIN Finishes(p, t) : Finishes(p, t)[c] \subseteq {"partial"} \X (H \X N)
    BY <2>5, <2>6, <2>7
  <2>9. \A h \in Strided(nq[2], nth, t) : Finishes(p, t)[<<"dst", h>>] = Parts(h)
    BY <2>2, <2>4, <2>6, <2>7
  <2> QED
    BY <2>6, <2>7, <2>8, <2>9 DEF D
<1>a. ASSUME NEW t \in N, NEW c
      PROVE  c \in DOMAIN Prepares(p, t) <=> c = <<"wdata", t>> \/ \E h \in H : c = <<"partial", <<h, t>>>>
  <2>1. DOMAIN Prepares(p, t) = {<<"partial", <<h, t>>>> : h \in H} \cup {<<"wdata", t>>}
    BY <1>5
  <2> QED
    BY <2>1
<1>b. ASSUME NEW t \in N, NEW c
      PROVE  c \in DOMAIN Finishes(p, t) <=> c = <<"wdata", t>> \/ \E h \in Strided(nq[2], nth, t) : c = <<"dst", h>>
  <2>1. DOMAIN Finishes(p, t) = {<<"dst", h>> : h \in Strided(nq[2], nth, t)} \cup {<<"wdata", t>>}
    BY <1>6
  <2> QED
    BY <2>1
<1> HIDE DEF N, H
<1>7. ASSUME NEW h \in H, NEW ci \in N
      PROVE  Ready(p, <<"partial", <<h, ci>>>>) = PartOf(nq, nk, nm, nth, h, ci)
  <2> DEFINE d == <<"partial", <<h, ci>>>>
  <2>1. d \notin p.given
    BY <1>2
  <2>2. {t \in DOMAIN p.program : d \in DOMAIN Prepares(p, t)} = {ci}
    BY <1>1, <1>a
  <2>3. Prepares(p, ci)[d] = PartOf(nq, nk, nm, nth, h, ci)
    BY <1>5
  <2> HIDE DEF d
  <2>4. Ready(p, d) = PartOf(nq, nk, nm, nth, h, ci)
    BY <2>1, <2>2, <2>3 DEF Ready
  <2> QED
    BY <2>4 DEF d
<1>8. {"partial"} \X (H \X N) \subseteq Prepared(p)
  <2> SUFFICES ASSUME NEW c \in {"partial"} \X (H \X N) PROVE \E t \in N : c \in DOMAIN Prepares(p, t)
    BY <1>1 DEF Prepared
  <2>1. c = <<"partial", <<c[2][1], c[2][2]>>>> /\ c[2][1] \in H /\ c[2][2] \in N
    OBVIOUS
  <2> QED
    BY <1>5, <2>1
<1>9. p.given \cap (DOMAIN p.result \cup p.scratch) = {}
  BY <1>1, <1>2 DEF OwnWdata
<1>10. \A t, u \in N : p.team[t] = p.team[u]
  BY DEF SplitPlan, N
<1>11. ASSUME NEW t \in N
       PROVE  /\ {Prepares(p, t), Finishes(p, t)} \cap {Barrier, SetChunks, Claims} = {}
              /\ DOMAIN Prepares(p, t) \cup DOMAIN Finishes(p, t) \subseteq DOMAIN p.result \cup p.scratch
              /\ \A c \in DOMAIN Prepares(p, t) : Prepares(p, t)[c] \subseteq p.given
              /\ \A c \in DOMAIN Finishes(p, t) : Finishes(p, t)[c] \subseteq p.given \cup Prepared(p)
  <2>1. <<"wdata", t>> \in DOMAIN Prepares(p, t) /\ <<"wdata", t>> \in DOMAIN Finishes(p, t)
    BY <1>5, <1>6
  <2>2. <<"wdata", t>> \notin DOMAIN Barrier /\ <<"wdata", t>> \notin DOMAIN SetChunks
        /\ <<"wdata", t>> \notin DOMAIN Claims
    BY DEF Barrier, SetChunks, Claims
  <2>3. {Prepares(p, t), Finishes(p, t)} \cap {Barrier, SetChunks, Claims} = {}
    BY <2>1, <2>2
  <2>4. <<"wdata", t>> \in p.scratch
    BY <1>1 DEF OwnWdata, N
  <2>5. \A h \in H : <<"partial", <<h, t>>>> \in p.scratch
    BY <1>1
  <2>6. \A h \in Strided(nq[2], nth, t) : <<"dst", h>> \in DOMAIN p.result
    BY <1>1 DEF Strided, H
  <2>7. DOMAIN Prepares(p, t) \cup DOMAIN Finishes(p, t) \subseteq DOMAIN p.result \cup p.scratch
    BY <1>a, <1>b, <2>4, <2>5, <2>6
  <2>8. ASSUME NEW c \in DOMAIN Prepares(p, t) PROVE Prepares(p, t)[c] \subseteq p.given
    <3>1. CASE c = <<"wdata", t>>
      BY <1>5, <3>1
    <3>2. ASSUME NEW h \in H, c = <<"partial", <<h, t>>>> PROVE Prepares(p, t)[c] \subseteq p.given
      <4>1. Prepares(p, t)[<<"partial", <<h, t>>>>] = PartOf(nq, nk, nm, nth, h, t)
        BY <1>5
      <4>2. PartOf(nq, nk, nm, nth, h, t) \subseteq p.given
        BY <1>3
      <4> QED
        BY <3>2, <4>1, <4>2
    <3> QED
      BY <1>a, <3>1, <3>2
  <2>9. ASSUME NEW c \in DOMAIN Finishes(p, t) PROVE Finishes(p, t)[c] \subseteq p.given \cup Prepared(p)
    BY <1>6, <1>8, <2>9
  <2> QED
    BY <2>3, <2>7, <2>8, <2>9
<1>12. ASSUME NEW t \in N, NEW u \in N, t # u
       PROVE  /\ DOMAIN Prepares(p, t) \cap DOMAIN Prepares(p, u) = {}
              /\ DOMAIN Finishes(p, t) \cap Touched(Finishes(p, u)) = {}
  <2>1. DOMAIN Prepares(p, t) \cap DOMAIN Prepares(p, u) = {}
    BY <1>a, <1>12
  <2>2. Strided(nq[2], nth, t) \cap Strided(nq[2], nth, u) = {}
    BY <1>12 DEF Strided
  <2>8. \A c \in DOMAIN Finishes(p, u) : Finishes(p, u)[c] \subseteq {"partial"} \X (H \X N)
    BY <1>6
  <2>3. \A c \in Touched(Finishes(p, u)) : \/ c \in DOMAIN Finishes(p, u)
                                           \/ c \in {"partial"} \X (H \X N)
    BY <2>8 DEF Touched
  <2>4. \A c \in DOMAIN Finishes(p, t) : \/ \E h \in Strided(nq[2], nth, t) : c = <<"dst", h>>
                                         \/ c = <<"wdata", t>>
    BY <1>b
  <2>5. \A c \in DOMAIN Finishes(p, u) : \/ \E h \in Strided(nq[2], nth, u) : c = <<"dst", h>>
                                         \/ c = <<"wdata", u>>
    BY <1>b
  <2>6. DOMAIN Finishes(p, t) \cap DOMAIN Finishes(p, u) = {}
    BY <1>12, <2>2, <2>4, <2>5
  <2>7. \A c \in DOMAIN Finishes(p, t) : c \notin {"partial"} \X (H \X N)
    BY <2>4
  <2> QED
    BY <2>1, <2>3, <2>6, <2>7
<1>13. ASSUME NEW c \in DOMAIN p.result
       PROVE  \E t \in N : c \in DOMAIN Finishes(p, t) /\ p.result[c] = UNION {Ready(p, d) : d \in Finishes(p, t)[c]}
  <2>1. PICK h \in H : c = <<"dst", h>>
    BY <1>1
  <2>2. PICK t \in N : h \in Strided(nq[2], nth, t)
    <3>1. nq[2] \in Nat
      BY DEF Attends
    <3>2. IsPartition(nq[2], nth, [ith \in N |-> Strided(nq[2], nth, ith)])
      BY <3>1, StridesPartition DEF N
    <3> QED
      BY <3>2 DEF IsPartition, N, H
  <2> DEFINE active == ActiveParts(nk, nth)
             Part(ci) == PartOf(nq, nk, nm, nth, h, ci)
  <2>3. c \in DOMAIN Finishes(p, t) /\ Finishes(p, t)[c] = {<<"partial", <<h, ci>>>> : ci \in active}
    BY <1>6, <2>1, <2>2
  <2>4. \A ci \in active : ci \in N
    BY DEF ActiveParts, N
  <2>5. \A ci \in active : Ready(p, <<"partial", <<h, ci>>>>) = Part(ci)
    BY <1>7, <2>4
  <2>6. UNION {Part(ci) : ci \in active} = WantedOf(nq, nk, nm, h)
    BY PartsMakeTheWhole DEF Attends
  <2> HIDE DEF active, Part
  <2>7. UNION {Ready(p, d) : d \in Finishes(p, t)[c]} = UNION {Part(ci) : ci \in active}
    BY <2>3, <2>5
  <2>8. p.result[c] = WantedOf(nq, nk, nm, h)
    BY <1>1, <2>1 DEF SplitPlan, H
  <2> QED
    BY <2>3, <2>6, <2>7, <2>8
<1> QED
  BY <1>1, <1>4, <1>9, <1>10, <1>11, <1>12, <1>13 DEF IsPrepared

LEMMA FlashSplitIsPrepared ==
  ASSUME NEW nq, NEW nk, NEW nm, Attends(nq, nk, nm), nq[1] = 1, nq[3] = 1, NEW nth \in Nat \ {0}
  PROVE  IsPrepared(FlashSplit(nq, nk, nm, nth))
<1> DEFINE p == FlashSplit(nq, nk, nm, nth)
           chunk_size == (nk[1] + nth - 1) \div nth
           Positions(ith) == ith * chunk_size .. Least(ith * chunk_size + chunk_size, nk[1]) - 1
           places(ith) == [ir \in Upto(nq[2]) |-> <<"partial", <<ir, ith>>>>]
           Partial(ith) ==
             IF Positions(ith) # {}
             THEN OneChunk(nq, nk, nm, Upto(nq[2]), Positions(ith), places(ith))
             ELSE [c \in {<<"partial", <<q_head, ith>>>> : q_head \in Upto(nq[2])} |-> {}]
           Reduced(ith) == ReducePartials(nq, nk, nth, chunk_size, ith, nth)
           partial == [ith \in Upto(nth) |-> Partial(ith)]
           reduced == [ith \in Upto(nth) |-> Reduced(ith)]
           result == WantedAttention(nq, nk, nm)
           program == [ith \in Upto(nth) |-> <<Through(ith, Partial(ith)), Barrier, Through(ith, Reduced(ith))>>]
<1>1. nq[2] \in Nat \ {0} /\ nk[1] \in Nat \ {0} /\ chunk_size \in Nat
  <2>1. nq[2] \in Nat \ {0} /\ nk[1] \in Nat \ {0}
    BY DEF Attends
  <2>2. nk[1] + nth - 1 \in Nat
    BY <2>1
  <2> QED
    BY <2>1, <2>2, Division
<1>2. p = PlanWith(GivenAttention(nq, nk, nm), OwnWdata(nth) \cup ({"partial"} \X (Upto(nq[2]) \X Upto(nth))),
                   result, program)
  BY DEF FlashSplit
<1>3. ASSUME NEW ith \in Upto(nth)
      PROVE  program[ith] = <<Through(ith, partial[ith]), Barrier, Through(ith, reduced[ith])>>
  <2> HIDE DEF Partial, Reduced
  <2> QED
    OBVIOUS
<1>4. DOMAIN program = Upto(nth)
  OBVIOUS
<1>5. ASSUME NEW ith \in Upto(nth) PROVE Positions(ith) = PositionsOf(nk, nth, ith)
  <2>1. ith * chunk_size = chunk_size * ith
    BY <1>1 DEF Upto
  <2> QED
    BY <2>1 DEF PositionsOf, Chunk
<1>6. ASSUME NEW h \in Upto(nq[2]) PROVE QueryRow(nq, h) = <<0, h, 0>> /\ AttentionRow(nq, QueryRow(nq, h)) = <<"dst", h>>
  BY <1>1, OneQuery
<1>7. ASSUME NEW ith \in Upto(nth)
      PROVE  /\ DOMAIN Partial(ith) = {<<"partial", <<h, ith>>>> : h \in Upto(nq[2])}
             /\ \A h \in Upto(nq[2]) : Partial(ith)[<<"partial", <<h, ith>>>>] = PartOf(nq, nk, nm, nth, h, ith)
  <2> DEFINE rows == Upto(nq[2])
             D == {<<"partial", <<h, ith>>>> : h \in rows}
  <2>1. PICK P : P = Positions(ith)
    OBVIOUS
  <2>2. PICK place : place = places(ith)
    OBVIOUS
  <2>3. \A h \in rows : place[h] = <<"partial", <<h, ith>>>>
    BY <2>2
  <2>4. P = PositionsOf(nk, nth, ith)
    BY <1>5, <2>1
  <2>5. CASE P = {}
    <3>1. Partial(ith) = [c \in D |-> {}]
      BY <2>1, <2>5
    <3>2. \A h \in rows : <<"partial", <<h, ith>>>> \in D /\ PartOf(nq, nk, nm, nth, h, ith) = {}
      BY <2>4, <2>5, Zenon DEF PartOf
    <3> HIDE DEF Partial, D
    <3>3. DOMAIN Partial(ith) = D /\ \A h \in rows : Partial(ith)[<<"partial", <<h, ith>>>>] = {}
      BY <3>1, <3>2
    <3> HIDE DEF rows
    <3>4. \A h \in rows : Partial(ith)[<<"partial", <<h, ith>>>>] = PartOf(nq, nk, nm, nth, h, ith)
      BY <3>2, <3>3
    <3> QED
      BY <3>3, <3>4 DEF D, rows
  <2>6. CASE P # {}
    <3> DEFINE s == OneChunk(nq, nk, nm, rows, P, place)
    <3>1. Partial(ith) = s
      BY <2>1, <2>2, <2>6
    <3> HIDE DEF Partial, rows, D
    <3>2. Separates(place, rows)
      BY <2>3 DEF Separates
    <3>3. /\ DOMAIN s = {place[h] : h \in rows}
          /\ \A h \in rows : s[place[h]] = Attended(nq, nk, nm, QueryRow(nq, h), P)
                                           \cup IF 0 \in P THEN {<<"sinks", QueryRow(nq, h)[2]>>} ELSE {}
      <4>1. IsChunk(s, nq, nk, nm, rows, P, place)
        BY <3>2, OneChunkIs
      <4> HIDE DEF s
      <4> QED
        BY <4>1 DEF IsChunk
    <3> HIDE DEF s
    <3>4. DOMAIN s = {<<"partial", <<h, ith>>>> : h \in rows}
      BY <2>3, <3>3
    <3>5. ASSUME NEW h \in rows PROVE s[<<"partial", <<h, ith>>>>] = PartOf(nq, nk, nm, nth, h, ith)
      <4>1. QueryRow(nq, h) = <<0, h, 0>> /\ QueryRow(nq, h)[2] = h
        BY <1>6 DEF rows
      <4>2. s[<<"partial", <<h, ith>>>>] = Attended(nq, nk, nm, QueryRow(nq, h), P)
                                           \cup IF 0 \in P THEN {<<"sinks", QueryRow(nq, h)[2]>>} ELSE {}
        BY <2>3, <3>3
      <4>3. PartOf(nq, nk, nm, nth, h, ith)
              = IF P = {} THEN {}
                ELSE Attended(nq, nk, nm, <<0, h, 0>>, P) \cup IF 0 \in P THEN {<<"sinks", h>>} ELSE {}
        BY <2>4, Zenon DEF PartOf
      <4>4. PartOf(nq, nk, nm, nth, h, ith)
              = Attended(nq, nk, nm, <<0, h, 0>>, P) \cup IF 0 \in P THEN {<<"sinks", h>>} ELSE {}
        BY <2>6, <4>3
      <4> QED
        BY <4>1, <4>2, <4>4, Zenon
    <3> QED
      BY <3>1, <3>4, <3>5 DEF rows
  <2> QED
    BY <2>5, <2>6
<1>8. ASSUME NEW ith \in Upto(nth)
      PROVE  /\ DOMAIN Reduced(ith) = {<<"dst", h>> : h \in Strided(nq[2], nth, ith)}
             /\ \A h \in Strided(nq[2], nth, ith) :
                  Reduced(ith)[<<"dst", h>>] = {<<"partial", <<h, ci>>>> : ci \in ActiveParts(nk, nth)}
  <2> DEFINE D == {<<"dst", h>> : h \in Strided(nq[2], nth, ith)}
             active == ActiveParts(nk, nth)
  <2>1. Reduced(ith) = [c \in D |-> {<<"partial", <<c[2], ci>>>> : ci \in active}]
    BY DEF ReducePartials, ActiveParts
  <2>2. \A h \in Strided(nq[2], nth, ith) : <<"dst", h>> \in D
    OBVIOUS
  <2> HIDE DEF D, Reduced, active
  <2>3. DOMAIN Reduced(ith) = D
    BY <2>1
  <2>4. \A c \in D : Reduced(ith)[c] = {<<"partial", <<c[2], ci>>>> : ci \in active}
    BY <2>1
  <2>5. ASSUME NEW h \in Strided(nq[2], nth, ith)
        PROVE  Reduced(ith)[<<"dst", h>>] = {<<"partial", <<h, ci>>>> : ci \in active}
    BY <2>2, <2>4
  <2> QED
    BY <2>3, <2>5 DEF D, active
<1>9. DOMAIN result = {"dst"} \X Upto(nq[2]) /\ \A h \in Upto(nq[2]) : result[<<"dst", h>>] = WantedOf(nq, nk, nm, h)
  <2> DEFINE rows == Upto(nq[2])
             places1 == [ir \in rows |-> AttentionRow(nq, QueryRow(nq, ir))]
  <2>1. nq[1] * nq[2] * nq[3] = nq[2]
    BY <1>1
  <2>2. result = OneChunk(nq, nk, nm, rows, Upto(nk[1]), places1)
    BY <2>1 DEF WantedAttention, RowPlaces
  <2>3. \A h \in rows : places1[h] = <<"dst", h>>
    BY <1>6
  <2> HIDE DEF places1, rows, result
  <2>4. Separates(places1, rows)
    BY <2>3 DEF Separates
  <2>5. /\ DOMAIN result = {places1[h] : h \in rows}
        /\ \A h \in rows : result[places1[h]]
                             = Attended(nq, nk, nm, QueryRow(nq, h), Upto(nk[1]))
                               \cup IF 0 \in Upto(nk[1]) THEN {<<"sinks", QueryRow(nq, h)[2]>>} ELSE {}
    <3>1. IsChunk(OneChunk(nq, nk, nm, rows, Upto(nk[1]), places1), nq, nk, nm, rows, Upto(nk[1]), places1)
      BY <2>4, OneChunkIs
    <3> QED
      BY <2>2, <3>1 DEF IsChunk
  <2>6. DOMAIN result = {"dst"} \X rows
    <3>1. DOMAIN result = {<<"dst", h>> : h \in rows}
      BY <2>3, <2>5
    <3> QED
      BY <3>1
  <2>7. 0 \in Upto(nk[1])
    BY <1>1 DEF Upto
  <2>8. ASSUME NEW h \in rows PROVE result[<<"dst", h>>] = WantedOf(nq, nk, nm, h)
    <3>1. QueryRow(nq, h) = <<0, h, 0>> /\ QueryRow(nq, h)[2] = h
      BY <1>6 DEF rows
    <3>2. result[<<"dst", h>>] = Attended(nq, nk, nm, QueryRow(nq, h), Upto(nk[1])) \cup {<<"sinks", QueryRow(nq, h)[2]>>}
      BY <2>3, <2>5, <2>7
    <3> QED
      BY <3>1, <3>2, Zenon DEF WantedOf
  <2> QED
    BY <2>6, <2>8 DEF rows
<1>10. \A ith \in Upto(nth) : partial[ith] = Partial(ith) /\ reduced[ith] = Reduced(ith)
  <2> HIDE DEF Partial, Reduced
  <2> QED
    OBVIOUS
<1> HIDE DEF p, partial, reduced, result, program, Partial, Reduced
<1>11. /\ p.given = GivenAttention(nq, nk, nm) /\ p.result = result /\ p.program = program
       /\ p.scratch = OwnWdata(nth) \cup ({"partial"} \X (Upto(nq[2]) \X Upto(nth)))
       /\ \A ith \in Upto(nth) : p.team[ith] = 0
  BY <1>2, <1>4 DEF PlanWith
<1>12. SplitPlan(p, nq, nk, nm, nth, partial, reduced, result)
  BY <1>3, <1>4, <1>7, <1>8, <1>9, <1>10, <1>11 DEF SplitPlan
<1>13. IsPrepared(p)
  BY <1>12, SplitIsPrepared
<1> QED
  BY <1>13 DEF p

-----------------------------------------------------------------------------
(* These operators, under the conditions they assert.                      *)

PreparesDst(p, ne, ne1, nth) ==
  \/ \E n_past \in Nat : p = DiagMask(ne, n_past, nth)
  \/ \E offset \in Nat : Fits(ne, ne1, offset) /\ p \in {Acc(ne, ne1, offset, nth), Set(ne, ne1, offset, nth)}
  \/ Multiplies(ne, ne1) /\ p = OutProd(ne, ne1, nth)
  \/ /\ Multiplies(ne, ne1) /\ ne[3] = ne1[3] /\ ne[4] = ne1[4]
     /\ p \in {OutProdQ(ne, ne1, nth), OutProdF16(ne, ne1, nth)}

\* Attention of one query over enough positions to be split.
SplitsPositions(p, nth) ==
  \E nq, nk \in [1 .. 3 -> Nat \ {0}], nm \in [1 .. 2 -> Nat \ {0}], split_at, q_tile, kv_tile \in Nat :
    /\ nq[1] = 1 /\ nq[3] = 1 /\ nq[2] % nk[2] = 0 /\ nq[3] % nk[3] = 0
    /\ nk[1] >= split_at
    /\ p = FlashAttnExt(nq, nk, nm, split_at, q_tile, kv_tile, nth)

IsPreparedCall(p) ==
  \E nth \in Nat \ {0} : (\E ne, ne1 \in Shape : PreparesDst(p, ne, ne1, nth)) \/ SplitsPositions(p, nth)

LEMMA PreparedCalls == ASSUME NEW p, IsPreparedCall(p) PROVE IsPrepared(p)
<1>1. PICK nth \in Nat \ {0} : (\E ne, ne1 \in Shape : PreparesDst(p, ne, ne1, nth)) \/ SplitsPositions(p, nth)
  BY DEF IsPreparedCall
<1>2. ASSUME NEW ne \in Shape, NEW ne1 \in Shape, PreparesDst(p, ne, ne1, nth) PROVE IsPrepared(p)
  <2>1. ASSUME NEW n_past \in Nat, p = DiagMask(ne, n_past, nth) PROVE IsPrepared(p)
    BY <2>1, DiagMaskIsPrepared
  <2>2. ASSUME NEW offset \in Nat, Fits(ne, ne1, offset), p = Acc(ne, ne1, offset, nth) PROVE IsPrepared(p)
    BY <2>2, AccIsPrepared
  <2>3. ASSUME NEW offset \in Nat, Fits(ne, ne1, offset), p = Set(ne, ne1, offset, nth) PROVE IsPrepared(p)
    BY <2>3, SetIsPrepared
  <2>4. ASSUME Multiplies(ne, ne1), p = OutProd(ne, ne1, nth) PROVE IsPrepared(p)
    BY <2>4, OutProdIsPrepared
  <2>5. ASSUME Multiplies(ne, ne1), p = OutProdConverted(ne, ne1, nth) PROVE IsPrepared(p)
    BY <2>5, OutProdConvertedIsPrepared
  <2> QED
    BY <1>2, <2>1, <2>2, <2>3, <2>4, <2>5, Zenon DEF PreparesDst, OutProdQ, OutProdF16
<1>3. CASE SplitsPositions(p, nth)
  <2>1. PICK nq \in [1 .. 3 -> Nat \ {0}], nk \in [1 .. 3 -> Nat \ {0}], nm \in [1 .. 2 -> Nat \ {0}],
             split_at \in Nat, q_tile \in Nat, kv_tile \in Nat :
               /\ nq[1] = 1 /\ nq[3] = 1 /\ nq[2] % nk[2] = 0 /\ nq[3] % nk[3] = 0
               /\ nk[1] >= split_at
               /\ p = FlashAttnExt(nq, nk, nm, split_at, q_tile, kv_tile, nth)
    BY <1>3, Zenon DEF SplitsPositions
  <2>2. p = FlashSplit(nq, nk, nm, nth)
    BY <2>1, Zenon DEF FlashAttnExt
  <2>3. Attends(nq, nk, nm)
    BY <2>1 DEF Attends
  <2> QED
    BY <2>1, <2>2, <2>3, FlashSplitIsPrepared
<1> QED
  BY <1>1, <1>2, <1>3

(* Masking above a diagonal, adding into or replacing a region of a copy,  *)
(* the outer products, and flash attention of one query with its positions *)
(* split over the threads: between what is prepared and what the threads   *)
(* make of it the barrier leaves no race, no thread leaves the tensors,    *)
(* and when all are done each element of the result comes from exactly the *)
(* inputs it is defined by, whatever the shapes and the number of threads. *)
THEOREM PreparedCallsAreRight ==
  Spec => [](IsPreparedCall(plan) => TypeOK /\ RaceFree /\ WithinBounds /\ ResultsAreComplete)
<1>1. (IsPrepared(plan) => Right) => (IsPreparedCall(plan) => TypeOK /\ RaceFree /\ WithinBounds /\ ResultsAreComplete)
  BY PreparedCalls DEF Right
<1> QED
  BY <1>1, PreparedIsRight, PTL

-----------------------------------------------------------------------------
(* Plans whose threads take chunks from the pool.                          *)

\* Cell c is computed in chunk k, whichever thread takes it.
ComputedIn(p, k, c) == \A t \in DOMAIN p.program : c \in DOMAIN p.chunks[t][k]

(* The first thread sets the counter; after the barrier the threads take   *)
(* chunks, which compute elements of the result from inputs alone; two     *)
(* chunks have no cell in common when different threads do them.           *)
IsPooled(p) ==
  /\ p.given \cap (DOMAIN p.result \cup p.scratch) = {}
  /\ \A t, u \in DOMAIN p.program : p.team[t] = p.team[u]
  /\ 0 \in DOMAIN p.program
  /\ \A t \in DOMAIN p.program :
       /\ DOMAIN p.program[t] = 1 .. 3
       /\ p.program[t][1] = IF t = 0 THEN SetChunks ELSE Idle
       /\ p.program[t][2] = Barrier /\ p.program[t][3] = Claims
  /\ \E n \in Nat \ {0} : \A t \in DOMAIN p.program : DOMAIN p.chunks[t] = 1 .. n
  /\ \A t \in DOMAIN p.program : \A k \in DOMAIN p.chunks[t] : \A c \in DOMAIN p.chunks[t][k] :
       /\ c \in DOMAIN p.result \cup p.scratch
       /\ p.chunks[t][k][c] \subseteq p.given
       /\ c \in DOMAIN p.result => p.chunks[t][k][c] = p.result[c]
  /\ \A t, u \in DOMAIN p.program : t # u =>
       \A j \in DOMAIN p.chunks[t], k \in DOMAIN p.chunks[u] :
         j # k => DOMAIN p.chunks[t][j] \cap DOMAIN p.chunks[u][k] = {}
  /\ \A c \in DOMAIN p.result : \E k \in DOMAIN p.chunks[0] : ComputedIn(p, k, c)

LEMMA StepsOfPooled ==
  ASSUME NEW p, IsPooled(p), NEW t \in DOMAIN p.program
  PROVE  /\ DOMAIN p.program[t] = 1 .. 3
         /\ p.program[t][1] = IF t = 0 THEN SetChunks ELSE Idle
         /\ p.program[t][2] = Barrier /\ p.program[t][3] = Claims
         /\ Idle # Barrier /\ Idle # SetChunks /\ Idle # Claims
         /\ Barrier # SetChunks /\ Barrier # Claims /\ SetChunks # Claims
<1>1. Idle # Barrier /\ Idle # SetChunks /\ Idle # Claims
  <2>1. <<"barrier", 0>> \in DOMAIN Barrier /\ <<"set", 0>> \in DOMAIN SetChunks /\ <<"chunks", 0>> \in DOMAIN Claims
    BY DEF Barrier, SetChunks, Claims
  <2> QED
    BY <2>1, NothingToDo
<1> QED
  BY <1>1, MarksDiffer DEF IsPooled

LEMMA PooledDiscipline ==
  ASSUME NEW p, IsPooled(p)
  PROVE  IsOrdered(p) /\ SetsCounterFirst(p) /\ IsInside(p)
<1> DEFINE T == DOMAIN p.program
<1>1. ASSUME NEW t \in T, NEW k \in DOMAIN p.program[t], NEW a \in Jobs(p, t, k)
      PROVE  \/ a[2] = Idle /\ a[1] = 0
             \/ a[1] \in DOMAIN p.chunks[t] /\ a[2] = p.chunks[t][a[1]] /\ a[1] # 0
  <2>1. k \in {1, 2, 3}
    BY StepsOfPooled
  <2>2. CASE p.program[t][k] = Claims
    <3>1. PICK n \in Nat \ {0} : DOMAIN p.chunks[t] = 1 .. n
      BY DEF IsPooled
    <3>2. PICK c \in DOMAIN p.chunks[t] : a = <<c, p.chunks[t][c]>>
      BY <2>2 DEF Jobs
    <3> QED
      BY <3>1, <3>2
  <2>3. CASE p.program[t][k] # Claims
    <3>1. p.program[t][k] \in {Barrier, SetChunks, Idle}
      BY <2>1, <2>3, StepsOfPooled
    <3>2. p.program[t][k] = Idle
      BY <2>3, <3>1 DEF Jobs
    <3> QED
      BY <2>3, <3>2, StepsOfPooled DEF Jobs
  <2> QED
    BY <2>2, <2>3
<1>2. ASSUME NEW t \in T, NEW k \in DOMAIN p.chunks[t]
      PROVE  /\ DOMAIN p.chunks[t][k] \subseteq DOMAIN p.result \cup p.scratch
             /\ Touched(p.chunks[t][k]) \subseteq DOMAIN p.chunks[t][k] \cup p.given
  BY DEF IsPooled, Touched
<1>3. IsOrdered(p)
  <2> SUFFICES ASSUME NEW t \in T, NEW u \in T, t # u, NEW j \in DOMAIN p.program[t], NEW k \in DOMAIN p.program[u],
                      NEW a \in Jobs(p, t, j), NEW b \in Jobs(p, u, k), a[1] = 0 \/ a[1] # b[1]
               PROVE  DOMAIN a[2] \cap Touched(b[2]) = {}
    BY DEF IsOrdered
  <2>1. CASE a[2] = Idle \/ b[2] = Idle
    BY <2>1, NothingToDo
  <2>2. CASE a[2] # Idle /\ b[2] # Idle
    <3>1. /\ a[1] \in DOMAIN p.chunks[t] /\ a[2] = p.chunks[t][a[1]]
          /\ b[1] \in DOMAIN p.chunks[u] /\ b[2] = p.chunks[u][b[1]] /\ a[1] # b[1]
      BY <1>1, <2>2
    <3>2. DOMAIN a[2] \cap DOMAIN b[2] = {}
      BY <3>1 DEF IsPooled
    <3>3. DOMAIN a[2] \cap p.given = {}
      BY <1>2, <3>1 DEF IsPooled
    <3>4. Touched(b[2]) \subseteq DOMAIN b[2] \cup p.given
      BY <1>2, <3>1
    <3> QED
      BY <3>2, <3>3, <3>4
  <2> QED
    BY <2>1, <2>2
<1>4. SetsCounterFirst(p)
  <2> SUFFICES ASSUME NEW t \in T, NEW k \in DOMAIN p.program[t], p.program[t][k] = Claims
               PROVE  /\ \E u \in T : \E j \in DOMAIN p.program[u] : p.program[u][j] = SetChunks
                      /\ \A u \in T : \A j \in DOMAIN p.program[u] : p.program[u][j] = SetChunks =>
                           p.team[u] = p.team[t] /\ BarriersBefore(p, u, j) < BarriersBefore(p, t, k)
    BY DEF SetsCounterFirst
  <2>1. k = 3
    BY StepsOfPooled
  <2>2. BarriersBefore(p, t, 3) = 1
    <3>1. BarriersBefore(p, t, 1) = 0
      BY BeforeFirst
    <3>2. BarriersBefore(p, t, 1 + 1) = BarriersBefore(p, t, 1) + IF p.program[t][1] = Barrier THEN 1 ELSE 0
      BY BeforeNext
    <3>3. BarriersBefore(p, t, 2 + 1) = BarriersBefore(p, t, 2) + IF p.program[t][2] = Barrier THEN 1 ELSE 0
      BY BeforeNext
    <3>4. p.program[t][1] # Barrier /\ p.program[t][2] = Barrier
      BY StepsOfPooled
    <3> QED
      BY <3>1, <3>2, <3>3, <3>4
  <2>3. 0 \in T /\ 1 \in DOMAIN p.program[0] /\ p.program[0][1] = SetChunks
    <3>1. 0 \in T
      BY DEF IsPooled
    <3> QED
      BY <3>1, StepsOfPooled
  <2>4. ASSUME NEW u \in T, NEW j \in DOMAIN p.program[u], p.program[u][j] = SetChunks
        PROVE  p.team[u] = p.team[t] /\ BarriersBefore(p, u, j) < BarriersBefore(p, t, k)
    <3>1. j = 1
      BY <2>4, StepsOfPooled
    <3>2. BarriersBefore(p, u, 1) = 0
      BY BeforeFirst
    <3> QED
      BY <2>1, <2>2, <3>1, <3>2 DEF IsPooled
  <2> QED
    BY <2>3, <2>4
<1>5. IsInside(p)
  <2> SUFFICES ASSUME NEW t \in T, NEW k \in DOMAIN p.program[t], NEW a \in Jobs(p, t, k)
               PROVE  Touched(a[2]) \subseteq p.given \cup DOMAIN p.result \cup p.scratch
    BY DEF IsInside
  <2>1. CASE a[2] = Idle
    BY <2>1, NothingToDo
  <2>2. CASE a[2] # Idle
    BY <1>1, <1>2, <2>2
  <2> QED
    BY <2>1, <2>2
<1> QED
  BY <1>3, <1>4, <1>5

\* What chunk k computes is there.
IsComputed(k) == \A c \in DOMAIN Result : ComputedIn(plan, k, c) => from[c] = Result[c]

(* A chunk is done, or the one some thread is at, or the counter is not    *)
(* there yet; and a thread that has left was past the last one.            *)
PooledInv ==
  /\ \A k \in DOMAIN plan.chunks[0] : \/ \E t \in Threads : current[t] = k - 1
                                      \/ Cardinality(Threads) <= k - 1 /\ next <= k - 1
                                      \/ IsComputed(k)
  /\ \A t \in Threads : at[t] = 4 => Len(Chunks(t)) <= current[t]

(* Every chunk is computed, taken, or still to be handed out.              *)
LEMMA PooledInit == ASSUME Init, IsPooled(plan) PROVE PooledInv
<1>1. plan \in Plans /\ Structure
  BY MachineInit DEF Init, MachineInv
<1>2. /\ Threads = Upto(Cardinality(Threads)) /\ Cardinality(Threads) \in Nat
  BY <1>1, PlanFacts DEF Threads
<1>3. 0 \in Threads
  BY DEF IsPooled, Threads
<1>4. DOMAIN Chunks(0) = 1 .. Len(Chunks(0)) /\ Len(Chunks(0)) \in Nat
  BY <1>1, <1>3, Places
<1>5. ASSUME NEW k \in DOMAIN plan.chunks[0]
      PROVE  (\E t \in Threads : current[t] = k - 1) \/ (Cardinality(Threads) <= k - 1 /\ next <= k - 1)
  <2>1. k \in Nat /\ k >= 1
    BY <1>4, <1>5 DEF Chunks
  <2>2. next = 0 /\ \A t \in Threads : current[t] = t
    BY DEF Init
  <2>3. CASE k - 1 < Cardinality(Threads)
    <3>1. k - 1 \in Threads
      BY <1>2, <2>1, <2>3 DEF Upto
    <3> QED
      BY <2>2, <3>1
  <2>4. CASE ~(k - 1 < Cardinality(Threads))
    BY <1>2, <2>1, <2>2, <2>4
  <2> QED
    BY <2>3, <2>4
<1>6. \A t \in Threads : at[t] = 1
  BY DEF Init
<1> QED
  BY <1>5, <1>6 DEF PooledInv

LEMMA PooledStep ==
  ASSUME MachineInv, IsPooled(plan), PooledInv, [Next]_vars
  PROVE  PooledInv'
<1>1. Structure
  BY DEF MachineInv
<1>2. /\ Cardinality(Threads) \in Nat /\ 0 \in Threads /\ next \in Nat
      /\ \A t \in Threads : /\ current[t] \in Nat /\ at[t] \in Nat
                            /\ Len(Chunks(t)) \in Nat /\ DOMAIN Chunks(t) = 1 .. Len(Chunks(t))
  BY <1>1, PlanFacts, Places DEF Structure, Threads, IsPooled
<1>3. ASSUME NEW t \in Threads, NEW k \in {1, 2, 3}
      PROVE  /\ k = 1 => Program(t)[k] \in {SetChunks, Idle}
             /\ k = 2 => Program(t)[k] = Barrier
             /\ k = 3 => Program(t)[k] = Claims
  BY StepsOfPooled DEF Threads, Program
<1>4. \A t \in Threads : ~Done(t) => at[t] \in {1, 2, 3}
  <2>1. \A t \in Threads : DOMAIN Program(t) = 1 .. 3
    BY StepsOfPooled DEF Threads, Program
  <2> QED
    BY <1>1, <2>1, Places
<1>5. Idle \notin {Barrier, SetChunks, Claims} /\ Barrier # SetChunks /\ Barrier # Claims /\ SetChunks # Claims
  BY <1>2, StepsOfPooled DEF Threads
<1>6. \A k \in DOMAIN plan.chunks[0] : k \in Nat /\ k >= 1
  BY <1>2 DEF Chunks
<1> DEFINE Cared(k) == \/ \E t \in Threads : current[t] = k - 1
                       \/ Cardinality(Threads) <= k - 1 /\ next <= k - 1
                       \/ IsComputed(k)
           Left(t) == at[t] = 4 => Len(Chunks(t)) <= current[t]
<1>7. (\A k \in DOMAIN plan.chunks[0] : Cared(k)) /\ (\A t \in Threads : Left(t))
  BY DEF PooledInv
<1>8. ASSUME plan' = plan, \A k \in DOMAIN plan.chunks[0] : Cared(k)', \A t \in Threads : Left(t)'
      PROVE  PooledInv'
  BY <1>8 DEF PooledInv, Threads
<1>9. CASE UNCHANGED vars
  BY <1>7, <1>8, <1>9 DEF vars, Threads, IsComputed, Result, Chunks
<1>10. ASSUME plan' = plan, from' = from, current' = current, next' = next \/ next' = Cardinality(Threads),
              NEW k \in DOMAIN plan.chunks[0]
       PROVE  Cared(k)'
  BY <1>7, <1>10 DEF Threads, IsComputed, Result
<1>11. ASSUME NEW t \in Threads, Work(t) PROVE PooledInv'
  <2>1. at[t] = 1 /\ Doing(t) = Idle
    BY <1>3, <1>4, <1>11 DEF Work, Running, Doing
  <2>2. /\ plan' = plan /\ next' = next /\ current' = current /\ at' = [at EXCEPT ![t] = at[t] + 1]
        /\ from' = [c \in DOMAIN from |-> from[c]]
    BY <1>11, <2>1, NothingToDo DEF Work, Perform
  <2>3. \A u \in Threads : at'[u] = 4 => at[u] = 4
    BY <1>1, <1>2, <2>1, <2>2 DEF Structure
  <2>4. \A c \in DOMAIN Result : from'[c] = from[c]
    BY <1>1, <2>2 DEF Structure
  <2>5. \A k \in DOMAIN plan.chunks[0] : Cared(k)'
    BY <1>7, <2>2, <2>4 DEF Threads, IsComputed, Result
  <2>6. \A u \in Threads : Left(u)'
    BY <1>7, <2>2, <2>3 DEF Chunks
  <2> QED
    BY <1>8, <2>2, <2>5, <2>6
<1>12. ASSUME NEW g \in Teams, Meet(g) PROVE PooledInv'
  <2>1. \A t \in Team(g) : at[t] = 2
    BY <1>3, <1>4, <1>5, <1>12 DEF Meet, Marked, Team
  <2>2. /\ plan' = plan /\ next' = next /\ current' = current /\ from' = from
        /\ \A u \in Threads : at'[u] = IF u \in Team(g) THEN at[u] + 1 ELSE at[u]
    BY <1>12 DEF Meet
  <2>3. \A u \in Threads : at'[u] = 4 => at[u] = 4
    BY <2>1, <2>2
  <2>4. \A u \in Threads : Left(u)'
    BY <1>7, <2>2, <2>3 DEF Chunks
  <2> QED
    BY <1>8, <1>10, <2>2, <2>4
<1>13. ASSUME NEW t \in Threads, SetCounter(t) PROVE PooledInv'
  <2>1. at[t] = 1
    BY <1>3, <1>4, <1>5, <1>13 DEF SetCounter, Marked
  <2>2. /\ plan' = plan /\ next' = Cardinality(Threads) /\ current' = current /\ from' = from
        /\ at' = [at EXCEPT ![t] = at[t] + 1]
    BY <1>13 DEF SetCounter
  <2>3. \A u \in Threads : at'[u] = 4 => at[u] = 4
    BY <1>1, <2>1, <2>2 DEF Structure
  <2>4. \A u \in Threads : Left(u)'
    BY <1>7, <2>2, <2>3 DEF Chunks
  <2> QED
    BY <1>8, <1>10, <2>2, <2>4
<1>14. ASSUME NEW t \in Threads, LeaveChunks(t) PROVE PooledInv'
  <2>1. at[t] = 3 /\ Len(Chunks(t)) <= current[t]
    BY <1>2, <1>3, <1>4, <1>5, <1>14 DEF LeaveChunks, Chunking, Marked
  <2>2. /\ plan' = plan /\ next' = next /\ current' = current /\ from' = from
        /\ at' = [at EXCEPT ![t] = at[t] + 1]
    BY <1>14 DEF LeaveChunks
  <2>3. \A u \in Threads : at'[u] = 4 => at[u] = 4 \/ u = t
    BY <1>1, <2>2 DEF Structure
  <2>4. \A u \in Threads : Left(u)'
    BY <1>7, <2>1, <2>2, <2>3 DEF Chunks
  <2> QED
    BY <1>8, <1>10, <2>2, <2>4
<1>15. ASSUME NEW t \in Threads, WorkChunk(t) PROVE PooledInv'
  <2> DEFINE m == current[t] + 1
             step == Chunks(t)[m]
  <2>1. /\ at[t] = 3 /\ Doing(t) = step /\ current[t] < Len(Chunks(t))
        /\ Perform(step) /\ current' = [current EXCEPT ![t] = next] /\ next' = next + 1
        /\ plan' = plan /\ at' = at
    <3>1. ~Running(t) /\ Marked(t, Claims) /\ Chunking(t)
      BY <1>15 DEF WorkChunk, Running, Marked, Chunking
    <3> QED
      BY <1>3, <1>4, <1>5, <1>15, <3>1 DEF WorkChunk, Chunking, Marked, Doing
  <2>2. m \in DOMAIN Chunks(t)
    BY <1>2, <2>1
  <2>3. ASSUME NEW c \in DOMAIN Result, c \in DOMAIN step PROVE from'[c] = Result[c]
    <3>1. step[c] \in SUBSET Given /\ step[c] = Result[c]
      BY <2>2, <2>3 DEF IsPooled, Threads, Chunks, Given, Result
    <3>2. Given \cap (DOMAIN Result \cup Scratch) = {}
      BY DEF IsPooled, Given, Result, Scratch
    <3>3. UNION {Origin(d) : d \in step[c]} = step[c]
      BY <1>1, <3>1, <3>2, FromInputs
    <3>4. c \in DOMAIN from
      BY <1>1 DEF Structure
    <3>5. from'[c] = UNION {Origin(d) : d \in step[c]}
      BY <2>1, <2>3, <3>4 DEF Perform
    <3> QED
      BY <3>1, <3>3, <3>5
  <2>4. ASSUME NEW c \in DOMAIN Result, c \notin DOMAIN step PROVE from'[c] = from[c]
    <3>1. c \in DOMAIN from
      BY <1>1 DEF Structure
    <3> QED
      BY <2>1, <2>4, <3>1 DEF Perform
  <2>5. current'[t] = next /\ \A u \in Threads : u # t => current'[u] = current[u]
    BY <1>1, <2>1 DEF Structure
  <2>6. ASSUME NEW k \in DOMAIN plan.chunks[0] PROVE Cared(k)'
    <3>1. CASE k = m
      <4>1. \A c \in DOMAIN Result : ComputedIn(plan, k, c) => c \in DOMAIN step
        BY <3>1 DEF ComputedIn, Threads, Chunks
      <4>2. IsComputed(k)'
        BY <2>1, <2>3, <4>1 DEF IsComputed, Result
      <4> QED
        BY <4>2
    <3>2. CASE IsComputed(k)
      <4>1. IsComputed(k)'
        BY <2>1, <2>3, <2>4, <3>2 DEF IsComputed, Result
      <4> QED
        BY <4>1
    <3>3. CASE Cardinality(Threads) <= k - 1 /\ next <= k - 1
      <4>1. next = k - 1 \/ next' <= k - 1
        BY <1>2, <1>6, <2>1, <3>3
      <4> QED
        BY <2>1, <2>5, <3>3, <4>1 DEF Threads
    <3>4. CASE k # m /\ \E u \in Threads : current[u] = k - 1
      <4>1. PICK u \in Threads : current[u] = k - 1
        BY <3>4
      <4>2. u # t
        BY <1>2, <1>6, <3>4, <4>1
      <4> QED
        BY <2>1, <2>5, <4>1, <4>2 DEF Threads
    <3> QED
      BY <1>7, <3>1, <3>2, <3>3, <3>4
  <2>7. \A u \in Threads : Left(u)'
    BY <1>7, <2>1, <2>5 DEF Chunks
  <2> QED
    BY <1>8, <2>1, <2>6, <2>7
<1> QED
  BY <1>9, <1>11, <1>12, <1>13, <1>14, <1>15 DEF Next

(* A call whose threads take chunks is right in every interleaving: no     *)
(* chunk is done twice or forgotten, whoever takes it and in which order.  *)
THEOREM PooledIsRight == Spec => [](IsPooled(plan) => Right)
<1>1. Init => (IsPooled(plan) => PooledInv)
  BY PooledInit
<1>2. MachineInv /\ (IsPooled(plan) => PooledInv) /\ [Next]_vars => (IsPooled(plan) => PooledInv)'
  <2> SUFFICES ASSUME MachineInv, IsPooled(plan) => PooledInv, [Next]_vars, IsPooled(plan)'
               PROVE  PooledInv'
    OBVIOUS
  <2>1. plan' = plan
    BY DEF Next, Work, Meet, SetCounter, WorkChunk, LeaveChunks, vars
  <2>2. IsPooled(plan)
    BY <2>1 DEF IsPooled, ComputedIn
  <2> QED
    BY <2>2, PooledStep
<1>3. MachineInv /\ IsPooled(plan) /\ PooledInv => ResultsAreComplete
  <2> SUFFICES ASSUME MachineInv, IsPooled(plan), PooledInv, Finished, NEW c \in DOMAIN Result
               PROVE  from[c] = Result[c]
    BY DEF ResultsAreComplete
  <2>1. Structure /\ 0 \in Threads /\ ChunksInv
    BY PooledDiscipline DEF MachineInv, IsPooled, Threads
  <2>2. PICK n \in Nat \ {0} : \A t \in Threads : DOMAIN Chunks(t) = 1 .. n
    BY DEF IsPooled, Threads, Chunks
  <2>3. \A t \in Threads : Len(Chunks(t)) = n /\ current[t] \in Nat
    BY <2>1, <2>2, Places
  <2>4. ASSUME NEW t \in Threads PROVE n <= current[t]
    <3>1. DOMAIN Program(t) = 1 .. 3
      BY StepsOfPooled DEF Threads, Program
    <3>2. Len(Program(t)) = 3
      <4> DEFINE len == Len(Program(t))
      <4>1. len \in Nat
        BY <2>1, Places
      <4>2. 1 .. len = 1 .. 3
        BY <2>1, <3>1, Places
      <4> HIDE DEF len
      <4>3. 3 \in 1 .. len /\ (len >= 1 => len \in 1 .. 3)
        BY <4>1, <4>2
      <4>4. len = 3
        BY <4>1, <4>3
      <4> QED
        BY <4>4 DEF len
    <3>3. at[t] = 4
      <4>1. at[t] \in Nat /\ at[t] <= Len(Program(t)) + 1
        BY <2>1, Places
      <4>2. at[t] > Len(Program(t))
        BY DEF Finished, Done
      <4> QED
        BY <3>2, <4>1, <4>2
    <3> QED
      BY <2>3, <3>3 DEF PooledInv
  <2>5. current[0] < next
    <3>1. current[0] # 0
      BY <2>1, <2>3, <2>4
    <3> QED
      BY <2>1, <3>1 DEF ChunksInv
  <2>6. PICK k \in DOMAIN plan.chunks[0] : ComputedIn(plan, k, c)
    BY DEF IsPooled, Result
  <2>7. k \in Nat /\ k - 1 < n
    BY <2>1, <2>2, <2>6 DEF Chunks
  <2>8. next \in Nat
    BY <2>1 DEF Structure
  <2>9. ~(\E t \in Threads : current[t] = k - 1) /\ ~(next <= k - 1)
    BY <2>1, <2>3, <2>4, <2>5, <2>7, <2>8
  <2>10. IsComputed(k)
    BY <2>9 DEF PooledInv
  <2> QED
    BY <2>6, <2>10 DEF IsComputed
<1>4. IsPooled(plan) => IsOrdered(plan) /\ SetsCounterFirst(plan) /\ IsInside(plan)
  BY PooledDiscipline
<1> QED
  BY <1>1, <1>2, <1>3, <1>4, MachineInvariance, TypeCorrect, OrderedIsRaceFree, InsideStays, PTL
     DEF Spec, Right

-----------------------------------------------------------------------------
(* Rows in the pool's chunks: each row computes cells of its own.          *)

\* A call that hands out the rows below nr in chunks; own[ir] are the cells
\* of row ir, share[first row, row after the last] the step of a chunk.
PoolsRows(p, given, result, nr, nth, own, share) ==
  /\ p = Chunked(PlanWith(given, OwnWdata(nth), result, [ith \in Upto(nth) |-> <<>>]), nr, nth, share)
  /\ given \cap (DOMAIN result \cup OwnWdata(nth)) = {}
  /\ DOMAIN result \cap OwnWdata(nth) = {}
  /\ \A c \in DOMAIN result : result[c] \subseteq given
  /\ \A ir, jr \in Upto(nr) : ir # jr => own[ir] \cap own[jr] = {}
  /\ \A c : c \in DOMAIN result <=> \E ir \in Upto(nr) : c \in own[ir]
  /\ \A ir0 \in Nat, ir1 \in 0 .. nr :
       /\ \A c : c \in DOMAIN share[ir0, ir1] <=> \E ir \in ir0 .. ir1 - 1 : c \in own[ir]
       /\ \A c \in DOMAIN share[ir0, ir1] : share[ir0, ir1][c] = result[c]

LEMMA ChunksCounted ==
  ASSUME NEW nr \in Nat \ {0}, NEW nth \in Nat \ {0}
  PROVE  Counted(nr, nth) \in Nat \ {0}
<1> DEFINE chunk_size == (nr + nth * 4 - 1) \div (nth * 4)
           nchunk == (nr + chunk_size - 1) \div chunk_size
<1>1. chunk_size \in Nat \ {0}
  <2> DEFINE d == nth * 4
  <2>1. d \in Nat \ {0}
    OBVIOUS
  <2> HIDE DEF d
  <2>2. nr + d - 1 \in Nat /\ nr + d - 1 >= d
    BY <2>1
  <2>3. (nr + d - 1) \div d # 0
    <3>1. (nr + d - 1) \div d <= 0 <=> nr + d - 1 < d * (0 + 1)
      BY <2>1, <2>2, QuotientBound
    <3> QED
      BY <2>1, <2>2, <3>1, Division
  <2>4. (nr + d - 1) \div d \in Nat
    BY <2>1, <2>2, Division
  <2> QED
    BY <2>3, <2>4 DEF d
<1> HIDE DEF chunk_size
<1>2. nchunk \in Nat
  <2>1. nr + chunk_size - 1 \in Nat
    BY <1>1
  <2> QED
    BY <1>1, <2>1, Division
<1> HIDE DEF nchunk
<1>3. Counted(nr, nth) = IF nth = 1 \/ nchunk < nth THEN nth ELSE nchunk
  BY DEF Counted, chunk_size, nchunk
<1> QED
  BY <1>2, <1>3

LEMMA RowsArePooled ==
  ASSUME NEW p, NEW given, NEW result, NEW nr \in Nat \ {0}, NEW nth \in Nat \ {0}, NEW own, NEW share,
         PoolsRows(p, given, result, nr, nth, own, share)
  PROVE  IsPooled(p)
<1> DEFINE nchunk == Counted(nr, nth)
           dr == (nr + nchunk - 1) \div nchunk
           first(k) == dr * (k - 1)
           after(k) == Least(dr * (k - 1) + dr, nr)
           step(k) == share[first(k), after(k)]
<1>1. nchunk \in Nat \ {0}
  BY ChunksCounted
<1>2. /\ p.given = given /\ p.result = result /\ p.scratch = OwnWdata(nth)
      /\ p.program = ChunkProgram(nth)
      /\ p.chunks = [ith \in Upto(nth) |-> [k \in 1 .. nchunk |-> Through(ith, step(k))]]
      /\ \A ith \in Upto(nth) : p.team[ith] = 0
  BY DEF PoolsRows, Chunked, PlanWith
<1> HIDE DEF nchunk
<1>3. dr \in Nat
  <2>1. nr + nchunk - 1 \in Nat
    BY <1>1
  <2> QED
    BY <1>1, <2>1, Division
<1>4. ASSUME NEW k \in 1 .. nchunk
      PROVE  first(k) \in Nat /\ after(k) \in 0 .. nr /\ first(k) .. after(k) - 1 = Chunk(nr, nchunk, k - 1)
  <2>1. k - 1 \in Nat /\ dr * (k - 1) \in Nat
    BY <1>1, <1>3, Monotone
  <2>2. first(k) .. after(k) - 1 = Chunk(nr, nchunk, k - 1)
    BY DEF Chunk
  <2> HIDE DEF dr
  <2>3. after(k) \in 0 .. nr
    BY <1>3, <2>1 DEF Least
  <2> QED
    BY <2>1, <2>2, <2>3
<1> HIDE DEF first, after
<1>5. ASSUME NEW k \in 1 .. nchunk
      PROVE  /\ \A c : c \in DOMAIN step(k) <=> \E ir \in Chunk(nr, nchunk, k - 1) : c \in own[ir]
             /\ \A c \in DOMAIN step(k) : step(k)[c] = result[c]
  <2>1. \A ir0 \in Nat, ir1 \in 0 .. nr :
          /\ \A c : c \in DOMAIN share[ir0, ir1] <=> \E ir \in ir0 .. ir1 - 1 : c \in own[ir]
          /\ \A c \in DOMAIN share[ir0, ir1] : share[ir0, ir1][c] = result[c]
    BY DEF PoolsRows
  <2>2. PICK ir0 \in Nat, ir1 \in 0 .. nr :
          first(k) = ir0 /\ after(k) = ir1 /\ ir0 .. ir1 - 1 = Chunk(nr, nchunk, k - 1)
    BY <1>4
  <2>3. step(k) = share[ir0, ir1]
    BY <2>2
  <2> HIDE DEF step
  <2>4. /\ \A c : c \in DOMAIN share[ir0, ir1] <=> \E ir \in ir0 .. ir1 - 1 : c \in own[ir]
        /\ \A c \in DOMAIN share[ir0, ir1] : share[ir0, ir1][c] = result[c]
    BY <2>1
  <2>5. /\ \A c : c \in DOMAIN step(k) <=> \E ir \in ir0 .. ir1 - 1 : c \in own[ir]
        /\ \A c \in DOMAIN step(k) : step(k)[c] = result[c]
    BY <2>3, <2>4, Zenon
  <2> QED
    BY <2>2, <2>5, Zenon
<1>6. IsPartition(nr, nchunk, [ith \in Upto(nchunk) |-> Chunk(nr, nchunk, ith)])
  BY <1>1, ChunksPartition
<1>7. /\ \A x \in Upto(nchunk) : Chunk(nr, nchunk, x) \subseteq Upto(nr)
      /\ \A ir \in Upto(nr) : \E x \in Upto(nchunk) : ir \in Chunk(nr, nchunk, x)
      /\ \A x, y \in Upto(nchunk) : x # y => Chunk(nr, nchunk, x) \cap Chunk(nr, nchunk, y) = {}
  BY <1>6 DEF IsPartition
<1>8. \A k \in 1 .. nchunk : k - 1 \in Upto(nchunk)
  BY <1>1 DEF Upto
<1> HIDE DEF step
<1>9. ASSUME NEW k \in 1 .. nchunk PROVE DOMAIN step(k) \subseteq DOMAIN result
  BY <1>5, <1>7, <1>8 DEF PoolsRows
<1>10. ASSUME NEW t \in Upto(nth), NEW k \in 1 .. nchunk
       PROVE  /\ DOMAIN Through(t, step(k)) = DOMAIN step(k) \cup {<<"wdata", t>>}
              /\ \A c \in DOMAIN step(k) : Through(t, step(k))[c] = result[c] /\ result[c] \subseteq given
              /\ Through(t, step(k))[<<"wdata", t>>] \subseteq given
              /\ <<"wdata", t>> \in OwnWdata(nth) /\ <<"wdata", t>> \notin DOMAIN result
  <2>1. <<"wdata", t>> \in OwnWdata(nth)
    BY DEF OwnWdata
  <2>2. <<"wdata", t>> \notin DOMAIN result /\ \A c \in DOMAIN result : result[c] \subseteq given
    BY <2>1 DEF PoolsRows
  <2>3. <<"wdata", t>> \notin DOMAIN step(k)
    BY <1>9, <2>2
  <2>4. \A c \in DOMAIN step(k) : step(k)[c] = result[c] /\ result[c] \subseteq given
    BY <1>5, <1>9, <2>2
  <2>5. PICK s : s = step(k)
    OBVIOUS
  <2>6. UNION {s[c] : c \in DOMAIN s} \subseteq given
    BY <2>4, <2>5
  <2>7. /\ DOMAIN Through(t, s) = DOMAIN s \cup {<<"wdata", t>>}
        /\ \A c \in DOMAIN s : Through(t, s)[c] = s[c]
        /\ Through(t, s)[<<"wdata", t>>] = UNION {s[c] : c \in DOMAIN s}
    <3>1. <<"wdata", t>> \notin DOMAIN s
      BY <2>3, <2>5
    <3> QED
      BY <3>1, ThroughStep
  <2> QED
    BY <2>1, <2>2, <2>4, <2>5, <2>6, <2>7
<1>11. DOMAIN p.program = Upto(nth) /\ 0 \in Upto(nth)
  BY <1>2 DEF ChunkProgram, Upto
<1>12. ASSUME NEW t \in Upto(nth)
       PROVE  /\ DOMAIN p.program[t] = 1 .. 3
              /\ p.program[t][1] = IF t = 0 THEN SetChunks ELSE Idle
              /\ p.program[t][2] = Barrier /\ p.program[t][3] = Claims
  BY <1>2 DEF ChunkProgram
<1>13. ASSUME NEW t \in Upto(nth)
       PROVE  DOMAIN p.chunks[t] = 1 .. nchunk /\ \A k \in 1 .. nchunk : p.chunks[t][k] = Through(t, step(k))
  BY <1>2
<1>14. ASSUME NEW t \in Upto(nth), NEW k \in 1 .. nchunk, NEW c \in DOMAIN p.chunks[t][k]
       PROVE  /\ c \in DOMAIN result \cup OwnWdata(nth)
              /\ p.chunks[t][k][c] \subseteq given
              /\ c \in DOMAIN result => p.chunks[t][k][c] = result[c]
  <2>1. c \in DOMAIN step(k) \/ c = <<"wdata", t>>
    <3>1. p.chunks[t][k] = Through(t, step(k))
      BY <1>13
    <3>2. DOMAIN Through(t, step(k)) = DOMAIN step(k) \cup {<<"wdata", t>>}
      BY <1>10
    <3> QED
      BY <1>14, <3>1, <3>2
  <2>2. p.chunks[t][k][c] = Through(t, step(k))[c]
    BY <1>13
  <2>3. CASE c \in DOMAIN step(k)
    BY <1>9, <1>10, <2>2, <2>3
  <2>4. CASE c = <<"wdata", t>>
    BY <1>10, <2>2, <2>4
  <2> QED
    BY <2>1, <2>3, <2>4
<1>15. ASSUME NEW t \in Upto(nth), NEW u \in Upto(nth), t # u, NEW j \in 1 .. nchunk, NEW k \in 1 .. nchunk, j # k
       PROVE  DOMAIN p.chunks[t][j] \cap DOMAIN p.chunks[u][k] = {}
  <2>1. j - 1 # k - 1
    BY <1>15
  <2>2. Chunk(nr, nchunk, j - 1) \cap Chunk(nr, nchunk, k - 1) = {}
    BY <1>7, <1>8, <2>1
  <2>3. DOMAIN step(j) \cap DOMAIN step(k) = {}
    <3> SUFFICES ASSUME NEW c \in DOMAIN step(j), c \in DOMAIN step(k) PROVE FALSE
      OBVIOUS
    <3>1. PICK ir \in Chunk(nr, nchunk, j - 1) : c \in own[ir]
      BY <1>5
    <3>2. PICK jr \in Chunk(nr, nchunk, k - 1) : c \in own[jr]
      BY <1>5
    <3>3. ir \in Upto(nr) /\ jr \in Upto(nr) /\ ir # jr
      BY <1>7, <1>8, <2>2
    <3> QED
      BY <3>1, <3>2, <3>3 DEF PoolsRows
  <2>4. /\ <<"wdata", t>> # <<"wdata", u>>
        /\ <<"wdata", t>> \notin DOMAIN step(k) /\ <<"wdata", u>> \notin DOMAIN step(j)
    BY <1>9, <1>10, <1>15
  <2>5. DOMAIN p.chunks[t][j] = DOMAIN step(j) \cup {<<"wdata", t>>}
    BY <1>10, <1>13
  <2>6. DOMAIN p.chunks[u][k] = DOMAIN step(k) \cup {<<"wdata", u>>}
    BY <1>10, <1>13
  <2> QED
    BY <2>3, <2>4, <2>5, <2>6
<1>16. ASSUME NEW c \in DOMAIN result PROVE \E k \in 1 .. nchunk : ComputedIn(p, k, c)
  <2>1. PICK ir \in Upto(nr) : c \in own[ir]
    BY DEF PoolsRows
  <2>2. PICK x \in Upto(nchunk) : ir \in Chunk(nr, nchunk, x)
    BY <1>7
  <2>3. x + 1 \in 1 .. nchunk /\ (x + 1) - 1 = x
    BY <1>1 DEF Upto
  <2>4. PICK k \in 1 .. nchunk : k - 1 = x
    BY <2>3
  <2>5. c \in DOMAIN step(k)
    <3>1. \A d : d \in DOMAIN step(k) <=> \E jr \in Chunk(nr, nchunk, k - 1) : d \in own[jr]
      BY <1>5
    <3> QED
      BY <2>1, <2>2, <2>4, <3>1
  <2>6. ASSUME NEW t \in Upto(nth) PROVE c \in DOMAIN p.chunks[t][k]
    <3>1. p.chunks[t][k] = Through(t, step(k))
      BY <1>13
    <3>2. DOMAIN Through(t, step(k)) = DOMAIN step(k) \cup {<<"wdata", t>>}
      BY <1>10
    <3> QED
      BY <2>5, <3>1, <3>2
  <2>7. ComputedIn(p, k, c)
    BY <1>11, <2>6 DEF ComputedIn
  <2> QED
    BY <2>7
<1>17. p.given \cap (DOMAIN p.result \cup p.scratch) = {}
  BY <1>2 DEF PoolsRows
<1> QED
  BY <1>1, <1>2, <1>11, <1>12, <1>13, <1>14, <1>15, <1>16, <1>17 DEF IsPooled

(* A row number and the query it stands for; each query has a row of dst.  *)
LEMMA QueryOfRow ==
  ASSUME NEW nq, NEW nk, NEW nm, Attends(nq, nk, nm), NEW ir \in Upto(nq[1] * nq[2] * nq[3])
  PROVE  /\ QueryRow(nq, ir) \in Upto(nq[1]) \X Upto(nq[2]) \X Upto(nq[3])
         /\ ir = OffsetOf(<<1, nq[1], nq[2], nq[3]>>,
                          <<0, QueryRow(nq, ir)[1], QueryRow(nq, ir)[2], QueryRow(nq, ir)[3]>>)
<1> DEFINE ne == <<1, nq[1], nq[2], nq[3]>>
           r == QueryRow(nq, ir)
<1>1. nq[1] \in Nat \ {0} /\ nq[2] \in Nat \ {0} /\ nq[3] \in Nat \ {0}
  BY DEF Attends
<1>2. ne \in Shape
  BY <1>1 DEF Shape
<1>3. nq[1] * nq[2] * nq[3] \in Nat
  BY <1>1, Monotone
<1>4. ir \in Nat /\ ir % 1 = 0 /\ ir \div 1 = ir
  BY <1>3 DEF Upto
<1>5. Size(ne) = nq[1] * nq[2] * nq[3]
  BY <1>1 DEF Size
<1>6. ElementOf(ne, ir) \in Elements(ne) /\ OffsetOf(ne, ElementOf(ne, ir)) = ir
  BY <1>2, <1>5, DecodingAnIndex
<1>7. ElementOf(ne, ir) = <<0, r[1], r[2], r[3]>>
  BY <1>4 DEF ElementOf, QueryRow
<1>8. r = <<r[1], r[2], r[3]>>
  BY DEF QueryRow, RowOf
<1> HIDE DEF r
<1>9. r[1] \in Upto(nq[1]) /\ r[2] \in Upto(nq[2]) /\ r[3] \in Upto(nq[3])
  BY <1>6, <1>7 DEF Elements
<1> QED
  BY <1>6, <1>7, <1>8, <1>9 DEF r

LEMMA AttentionRowsDiffer ==
  ASSUME NEW nq, NEW nk, NEW nm, Attends(nq, nk, nm)
  PROVE  Separates(RowPlaces(nq), Upto(nq[1] * nq[2] * nq[3]))
<1> DEFINE rows == Upto(nq[1] * nq[2] * nq[3])
           dst == <<1, nq[2], nq[1], nq[3]>>
           Of(i) == <<0, i[2], i[1], i[3]>>
<1>1. nq[1] \in Nat \ {0} /\ nq[2] \in Nat \ {0} /\ nq[3] \in Nat \ {0}
  BY DEF Attends
<1>2. dst \in Shape
  BY <1>1 DEF Shape
<1>3. ASSUME NEW i \in Upto(nq[1]) \X Upto(nq[2]) \X Upto(nq[3])
      PROVE  Of(i) \in Elements(dst) /\ AttentionRow(nq, i) = <<"dst", OffsetOf(dst, Of(i))>>
  <2>1. i[1] \in Upto(nq[1]) /\ i[2] \in Upto(nq[2]) /\ i[3] \in Upto(nq[3])
    OBVIOUS
  <2>2. i[1] \in Nat /\ i[2] \in Nat /\ i[3] \in Nat
    BY <1>1, <2>1 DEF Upto
  <2>3. Of(i) \in Elements(dst)
    BY <2>1 DEF Elements, Upto
  <2>4. OffsetOf(dst, Of(i)) = 0 + 1 * (i[2] + nq[2] * (i[1] + nq[1] * i[3]))
    BY DEF OffsetOf
  <2>5. i[3] * nq[1] * nq[2] + i[2] + i[1] * nq[2] = 0 + 1 * (i[2] + nq[2] * (i[1] + nq[1] * i[3]))
    <3>1. PICK a \in Nat, b \in Nat, c \in Nat, x \in Nat, y \in Nat :
            a = i[1] /\ b = i[2] /\ c = i[3] /\ x = nq[1] /\ y = nq[2]
      BY <1>1, <2>2
    <3>2. c * x * y + b + a * y = 0 + 1 * (b + y * (a + x * c))
      OBVIOUS
    <3> QED
      BY <3>1, <3>2
  <2> QED
    BY <2>3, <2>4, <2>5 DEF AttentionRow
<1> HIDE DEF dst
<1> SUFFICES ASSUME NEW ir \in rows, NEW jr \in rows, RowPlaces(nq)[ir] = RowPlaces(nq)[jr] PROVE ir = jr
  BY DEF Separates
<1>4. PICK i \in Upto(nq[1]) \X Upto(nq[2]) \X Upto(nq[3]) : i = QueryRow(nq, ir)
  BY QueryOfRow
<1>5. PICK j \in Upto(nq[1]) \X Upto(nq[2]) \X Upto(nq[3]) : j = QueryRow(nq, jr)
  BY QueryOfRow
<1>6. RowPlaces(nq)[ir] = AttentionRow(nq, i) /\ RowPlaces(nq)[jr] = AttentionRow(nq, j)
  <2>1. \A kr \in rows : RowPlaces(nq)[kr] = AttentionRow(nq, QueryRow(nq, kr))
    BY DEF RowPlaces
  <2>2. RowPlaces(nq)[ir] = AttentionRow(nq, QueryRow(nq, ir)) /\ RowPlaces(nq)[jr] = AttentionRow(nq, QueryRow(nq, jr))
    BY <2>1, Zenon
  <2> QED
    BY <1>4, <1>5, <2>2, Zenon
<1>7. OffsetOf(dst, Of(i)) = OffsetOf(dst, Of(j))
  <2>1. AttentionRow(nq, i) = AttentionRow(nq, j)
    BY <1>6, Zenon
  <2>2. PICK x, y : x = OffsetOf(dst, Of(i)) /\ y = OffsetOf(dst, Of(j))
    OBVIOUS
  <2>3. AttentionRow(nq, i) = <<"dst", x>> /\ AttentionRow(nq, j) = <<"dst", y>>
    <3>1. AttentionRow(nq, i) = <<"dst", OffsetOf(dst, Of(i))>>
      BY <1>3
    <3>2. AttentionRow(nq, j) = <<"dst", OffsetOf(dst, Of(j))>>
      BY <1>3
    <3> HIDE DEF Of
    <3> QED
      BY <2>2, <3>1, <3>2, Zenon
  <2>4. x = y
    <3>1. <<"dst", x>> = <<"dst", y>>
      BY <2>1, <2>3, Zenon
    <3>2. <<"dst", x>>[2] = <<"dst", y>>[2]
      BY <3>1, Zenon
    <3> QED
      BY <3>2
  <2> QED
    BY <2>2, <2>4
<1>8. Of(i) = Of(j)
  <2>1. ElementOf(dst, OffsetOf(dst, Of(i))) = Of(i) /\ ElementOf(dst, OffsetOf(dst, Of(j))) = Of(j)
    BY <1>2, <1>3, DecodingAnOffset
  <2> QED
    BY <1>7, <2>1
<1>9. i[1] = j[1] /\ i[2] = j[2] /\ i[3] = j[3]
  BY <1>8
<1>10. i = j
  BY <1>9
<1> DEFINE q == <<1, nq[1], nq[2], nq[3]>>
<1>11. ir = OffsetOf(q, <<0, QueryRow(nq, ir)[1], QueryRow(nq, ir)[2], QueryRow(nq, ir)[3]>>)
  BY QueryOfRow
<1>12. jr = OffsetOf(q, <<0, QueryRow(nq, jr)[1], QueryRow(nq, jr)[2], QueryRow(nq, jr)[3]>>)
  BY QueryOfRow
<1>13. QueryRow(nq, ir) = QueryRow(nq, jr)
  BY <1>4, <1>5, <1>10
<1> QED
  BY <1>11, <1>12, <1>13, Zenon

LEMMA FlashRowsArePooled ==
  ASSUME NEW nq, NEW nk, NEW nm, Attends(nq, nk, nm), NEW nth \in Nat \ {0}, NEW split_at, NEW q_tile, NEW kv_tile,
         ~(nq[1] >= q_tile), ~(nq[1] = 1 /\ nq[3] = 1 /\ nk[1] >= split_at)
  PROVE  IsPooled(FlashAttnExt(nq, nk, nm, split_at, q_tile, kv_tile, nth))
<1> DEFINE nr == nq[1] * nq[2] * nq[3]
           place == RowPlaces(nq)
           given == GivenAttention(nq, nk, nm)
           result == WantedAttention(nq, nk, nm)
           own == [ir \in Upto(nr) |-> {place[ir]}]
           Rows(ir0, ir1) ==
             IF ir0 >= ir1 THEN Idle
             ELSE IF nq[1] >= q_tile THEN Tiled(nq, nk, nm, ir0, ir1, q_tile, kv_tile)
             ELSE OneChunk(nq, nk, nm, ir0 .. ir1 - 1, Upto(nk[1]), place)
           share == [r \in Nat \X Nat |-> Rows(r[1], r[2])]
           p == FlashAttnExt(nq, nk, nm, split_at, q_tile, kv_tile, nth)
           Of(ir) == Attended(nq, nk, nm, QueryRow(nq, ir), Upto(nk[1]))
                     \cup IF 0 \in Upto(nk[1]) THEN {<<"sinks", QueryRow(nq, ir)[2]>>} ELSE {}
<1>1. nr \in Nat \ {0} /\ nk[1] \in Nat \ {0}
  <2>1. \A x \in 1 .. 3 : nq[x] \in Nat \ {0} /\ nk[x] \in Nat \ {0}
    BY DEF Attends
  <2>2. \A a, b \in Nat \ {0} : a * b \in Nat \ {0}
    OBVIOUS
  <2> QED
    BY <2>1, <2>2
<1>2. p = Chunked(PlanWith(given, OwnWdata(nth), result, [ith \in Upto(nth) |-> <<>>]), nr, nth, share)
  BY DEF FlashAttnExt
<1>3. Separates(place, Upto(nr))
  BY AttentionRowsDiffer
<1>4. IsChunk(result, nq, nk, nm, Upto(nr), Upto(nk[1]), place)
  BY <1>3, OneChunkIs DEF WantedAttention
<1>5. /\ DOMAIN result = {place[ir] : ir \in Upto(nr)}
      /\ \A ir \in Upto(nr) : result[place[ir]] = Of(ir)
  BY <1>4 DEF IsChunk
<1>6. \A ir \in Upto(nr) : place[ir][1] = "dst"
  BY DEF RowPlaces, AttentionRow
<1> HIDE DEF place, result
<1>7. ASSUME NEW ir \in Upto(nr) PROVE Of(ir) \subseteq given
  <2>1. QueryRow(nq, ir) \in Upto(nq[1]) \X Upto(nq[2]) \X Upto(nq[3])
    BY QueryOfRow
  <2>2. Attended(nq, nk, nm, QueryRow(nq, ir), Upto(nk[1])) \cup {<<"sinks", QueryRow(nq, ir)[2]>>} \subseteq given
    BY <2>1, AttendedGiven
  <2> QED
    BY <2>2
<1>8. ASSUME NEW ir0 \in Nat, NEW ir1 \in 0 .. nr
      PROVE  /\ \A c : c \in DOMAIN share[ir0, ir1] <=> \E ir \in ir0 .. ir1 - 1 : c \in own[ir]
             /\ \A c \in DOMAIN share[ir0, ir1] : share[ir0, ir1][c] = result[c]
  <2> DEFINE rows == ir0 .. ir1 - 1
             s == OneChunk(nq, nk, nm, rows, Upto(nk[1]), place)
  <2>1. <<ir0, ir1>> \in Nat \X Nat /\ share[ir0, ir1] = Rows(ir0, ir1)
    <3>1. <<ir0, ir1>> \in Nat \X Nat
      BY <1>1
    <3> HIDE DEF Rows
    <3> QED
      BY <3>1
  <2>2. rows \subseteq Upto(nr)
    BY <1>1 DEF Upto
  <2>3. \A ir \in rows : own[ir] = {place[ir]}
    BY <2>2
  <2>4. CASE ir0 >= ir1
    <3>1. rows = {} /\ share[ir0, ir1] = Idle
      <4>1. Rows(ir0, ir1) = Idle
        BY <2>4
      <4>2. ir1 \in Nat
        BY <1>1
      <4>3. rows = {}
        BY <2>4, <4>2
      <4> HIDE DEF Rows, share
      <4> QED
        BY <2>1, <4>1, <4>3, Zenon
    <3> HIDE DEF share, own
    <3>2. DOMAIN share[ir0, ir1] = {}
      BY <3>1, NothingToDo
    <3> QED
      BY <3>1, <3>2
  <2>5. CASE ~(ir0 >= ir1)
    <3>1. share[ir0, ir1] = s
      BY <2>1, <2>5
    <3>2. Separates(place, rows)
      BY <1>3, <2>2 DEF Separates
    <3>3. IsChunk(s, nq, nk, nm, rows, Upto(nk[1]), place)
      BY <3>2, OneChunkIs
    <3> HIDE DEF s, share, rows
    <3>4. DOMAIN s = {place[ir] : ir \in rows} /\ \A ir \in rows : s[place[ir]] = Of(ir)
      BY <3>3 DEF IsChunk
    <3> HIDE DEF own, Of
    <3>5. \A c : c \in DOMAIN s <=> \E ir \in rows : c \in own[ir]
      BY <2>3, <3>4
    <3>6. \A c \in DOMAIN s : s[c] = result[c]
      BY <1>5, <2>2, <3>4
    <3> QED
      BY <3>1, <3>5, <3>6 DEF rows
  <2> QED
    BY <2>4, <2>5
<1>9. \A c \in DOMAIN result : c[1] = "dst" /\ result[c] \subseteq given
  BY <1>5, <1>6, <1>7
<1>10. \A c \in given : c[1] \in {"q", "k", "v", "mask", "sinks"}
  BY DEF GivenAttention
<1>11. \A c \in OwnWdata(nth) : c[1] = "wdata"
  BY DEF OwnWdata
<1>12. \A ir, jr \in Upto(nr) : ir # jr => own[ir] \cap own[jr] = {}
  BY <1>3 DEF Separates
<1>13. \A c : c \in DOMAIN result <=> \E ir \in Upto(nr) : c \in own[ir]
  BY <1>5
<1> HIDE DEF given, own, share, p, nr
<1>14. given \cap (DOMAIN result \cup OwnWdata(nth)) = {} /\ DOMAIN result \cap OwnWdata(nth) = {}
  BY <1>9, <1>10, <1>11
<1>15. \A c \in DOMAIN result : result[c] \subseteq given
  BY <1>9
<1>16. PoolsRows(p, given, result, nr, nth, own, share)
  BY <1>2, <1>8, <1>12, <1>13, <1>14, <1>15, Zenon DEF PoolsRows
<1>17. IsPooled(p)
  BY <1>1, <1>16, RowsArePooled
<1> QED
  BY <1>17 DEF p

(* The delta rule keeps its state in rows of its own.                      *)
\* The sequences of v are a multiple of those of q and k, as the divisions of
\* ops.cpp:10802 take for granted; at least one snapshot is kept.
IsDelta(n, m, K) ==
  /\ K \in Nat \ {0}
  /\ \A x \in 1 .. 3 : n[x] \in Nat \ {0}
  /\ \A x \in 1 .. 4 : m[x] \in Nat \ {0}
  /\ n[3] % m[3] = 0 /\ n[3] % m[4] = 0

DeltaGiven(n, m) ==
  ({"q"} \X (Upto(m[1]) \X Upto(n[2]) \X Upto(m[3])))
  \cup ({"k"} \X (Upto(m[2]) \X Upto(n[2]) \X Upto(m[4])))
  \cup ({"v", "g", "beta"} \X (Upto(n[1]) \X Upto(n[2]) \X Upto(n[3])))
  \cup ({"s0"} \X (Upto(n[1]) \X Upto(n[3])))

\* What token u brings into the state, and what the state has after token t.
TokenOf(n, m, iv1, iv3, u) ==
  ({"v", "g", "beta"} \X {<<iv1, u, iv3>>})
  \cup {<<"k", <<iv1 % m[2], u, iv3 \div (n[3] \div m[4])>>>>}
LivedTo(n, m, iv1, iv3, t) == {<<"s0", <<iv1, iv3>>>>} \cup UNION {TokenOf(n, m, iv1, iv3, u) : u \in 0 .. t}
QueryOf(n, m, iv1, iv3, t) == {<<"q", <<iv1 % m[1], t, iv3 \div (n[3] \div m[3])>>>>}

LEMMA LivedIsGiven ==
  ASSUME NEW n, NEW m, NEW K, IsDelta(n, m, K), NEW iv1 \in Upto(n[1]), NEW iv3 \in Upto(n[3]), NEW t \in Upto(n[2])
  PROVE  LivedTo(n, m, iv1, iv3, t) \cup QueryOf(n, m, iv1, iv3, t) \subseteq DeltaGiven(n, m)
<1>1. /\ n[1] \in Nat \ {0} /\ n[2] \in Nat \ {0} /\ n[3] \in Nat \ {0}
      /\ m[1] \in Nat \ {0} /\ m[2] \in Nat \ {0} /\ m[3] \in Nat \ {0} /\ m[4] \in Nat \ {0}
  BY DEF IsDelta
<1>2. \A u \in 0 .. t : u \in Upto(n[2])
  BY <1>1 DEF Upto
<1>3. iv1 % m[1] \in Upto(m[1]) /\ iv1 % m[2] \in Upto(m[2])
  <2>1. iv1 \in Nat
    BY <1>1 DEF Upto
  <2>2. iv1 % m[1] \in 0 .. m[1] - 1 /\ iv1 % m[2] \in 0 .. m[2] - 1
    BY <1>1, <2>1, Division
  <2> QED
    BY <2>2 DEF Upto
<1>4. iv3 \div (n[3] \div m[3]) \in Upto(m[3]) /\ iv3 \div (n[3] \div m[4]) \in Upto(m[4])
  BY <1>1, RepeatedPlane DEF IsDelta
<1>5. PICK a, b, c, d : /\ a = iv1 % m[1] /\ b = iv1 % m[2]
                        /\ c = iv3 \div (n[3] \div m[3]) /\ d = iv3 \div (n[3] \div m[4])
  OBVIOUS
<1>6. a \in Upto(m[1]) /\ b \in Upto(m[2]) /\ c \in Upto(m[3]) /\ d \in Upto(m[4])
  BY <1>3, <1>4, <1>5
<1>7. ASSUME NEW u \in 0 .. t PROVE TokenOf(n, m, iv1, iv3, u) \subseteq DeltaGiven(n, m)
  <2>1. TokenOf(n, m, iv1, iv3, u) = ({"v", "g", "beta"} \X {<<iv1, u, iv3>>}) \cup {<<"k", <<b, u, d>>>>}
    BY <1>5 DEF TokenOf
  <2>2. /\ <<iv1, u, iv3>> \in Upto(n[1]) \X Upto(n[2]) \X Upto(n[3])
        /\ <<b, u, d>> \in Upto(m[2]) \X Upto(n[2]) \X Upto(m[4])
    BY <1>2, <1>6
  <2> QED
    BY <2>1, <2>2 DEF DeltaGiven
<1>8. QueryOf(n, m, iv1, iv3, t) \subseteq DeltaGiven(n, m)
  <2>1. QueryOf(n, m, iv1, iv3, t) = {<<"q", <<a, t, c>>>>}
    BY <1>5 DEF QueryOf
  <2>2. <<a, t, c>> \in Upto(m[1]) \X Upto(n[2]) \X Upto(m[3])
    BY <1>6
  <2> QED
    BY <2>1, <2>2 DEF DeltaGiven
<1>9. <<"s0", <<iv1, iv3>>>> \in DeltaGiven(n, m)
  BY DEF DeltaGiven
<1> QED
  BY <1>7, <1>8, <1>9 DEF LivedTo

\* A row of head iv1 and sequence iv3.
IsDeltaRow(row, n, m, K, iv1, iv3) ==
  /\ DOMAIN row = ({"dst"} \X {<<iv1, t, iv3>> : t \in Upto(n[2])})
                  \cup ({"state"} \X {<<n[2] - 1 - t, iv1, iv3>> : t \in {t \in Upto(n[2]) : n[2] - 1 - t < K}})
  /\ \A c \in DOMAIN row :
       row[c] = IF c[1] = "dst"
                THEN LivedTo(n, m, iv1, iv3, c[2][2]) \cup QueryOf(n, m, iv1, iv3, c[2][2])
                ELSE LivedTo(n, m, iv1, iv3, n[2] - 1 - c[2][1])

LEMMA DeltaRowIs ==
  ASSUME NEW n, NEW m, NEW K, NEW ir
  PROVE  IsDeltaRow(GatedDeltaNetRow(n, m, K, ir), n, m, K, ir % n[1], ir \div n[1])
<1> DEFINE iv1 == ir % n[1]
           iv3 == ir \div n[1]
           row == GatedDeltaNetRow(n, m, K, ir)
           D == ({"dst"} \X {<<iv1, t, iv3>> : t \in Upto(n[2])})
                \cup ({"state"} \X {<<n[2] - 1 - t, iv1, iv3>> : t \in {t \in Upto(n[2]) : n[2] - 1 - t < K}})
<1>1. row = [c \in D |-> IF c[1] = "dst"
                         THEN LivedTo(n, m, iv1, iv3, c[2][2]) \cup QueryOf(n, m, iv1, iv3, c[2][2])
                         ELSE LivedTo(n, m, iv1, iv3, n[2] - 1 - c[2][1])]
  BY Zenon DEF GatedDeltaNetRow, LivedTo, TokenOf, QueryOf
<1> HIDE DEF row, D
<1>2. DOMAIN row = D
  BY <1>1
<1>3. \A c \in D : row[c] = IF c[1] = "dst"
                            THEN LivedTo(n, m, iv1, iv3, c[2][2]) \cup QueryOf(n, m, iv1, iv3, c[2][2])
                            ELSE LivedTo(n, m, iv1, iv3, n[2] - 1 - c[2][1])
  BY <1>1, Zenon
<1> QED
  BY <1>2, <1>3, Zenon DEF row, D, IsDeltaRow

\* The head and the sequence of a cell of dst or of the kept states.
HeadOf(c) == IF c[1] = "dst" THEN <<c[2][1], c[2][3]>> ELSE <<c[2][2], c[2][3]>>

LEMMA DeltaRowsAreApart ==
  ASSUME NEW n, NEW m, NEW K, IsDelta(n, m, K), NEW ir \in Upto(n[1] * n[3]), NEW c \in DOMAIN GatedDeltaNetRow(n, m, K, ir)
  PROVE  /\ c[1] \in {"dst", "state"} /\ HeadOf(c) = <<ir % n[1], ir \div n[1]>>
         /\ GatedDeltaNetRow(n, m, K, ir)[c] \subseteq DeltaGiven(n, m)
<1>1. /\ n[1] \in Nat \ {0} /\ n[2] \in Nat \ {0} /\ n[3] \in Nat \ {0}
  BY DEF IsDelta
<1>2. PICK iv1, iv3, row : iv1 = ir % n[1] /\ iv3 = ir \div n[1] /\ row = GatedDeltaNetRow(n, m, K, ir)
  OBVIOUS
<1>3. iv1 \in Upto(n[1]) /\ iv3 \in Upto(n[3])
  <2>1. n[1] * n[3] \in Nat
    BY <1>1, Monotone
  <2>2. ir \in Nat /\ ir < n[1] * n[3]
    BY <2>1 DEF Upto
  <2>3. iv1 \in 0 .. n[1] - 1 /\ iv3 \in Nat
    BY <1>1, <1>2, <2>2, Division
  <2>4. n[3] - 1 \in Nat /\ ir < n[1] * ((n[3] - 1) + 1)
    BY <1>1, <2>2
  <2>5. iv3 <= n[3] - 1
    BY <1>1, <1>2, <2>2, <2>4, QuotientBound
  <2> QED
    BY <1>1, <2>3, <2>5 DEF Upto
<1>8. IsDeltaRow(row, n, m, K, iv1, iv3)
  BY <1>2, DeltaRowIs
<1>4. DOMAIN row = ({"dst"} \X {<<iv1, t, iv3>> : t \in Upto(n[2])})
                   \cup ({"state"} \X {<<n[2] - 1 - t, iv1, iv3>> : t \in {t \in Upto(n[2]) : n[2] - 1 - t < K}})
  BY <1>8 DEF IsDeltaRow
<1>5. row[c] = IF c[1] = "dst"
               THEN LivedTo(n, m, iv1, iv3, c[2][2]) \cup QueryOf(n, m, iv1, iv3, c[2][2])
               ELSE LivedTo(n, m, iv1, iv3, n[2] - 1 - c[2][1])
  BY <1>2, <1>8 DEF IsDeltaRow
<1>6. CASE c \in {"dst"} \X {<<iv1, t, iv3>> : t \in Upto(n[2])}
  <2>1. PICK t \in Upto(n[2]) : c = <<"dst", <<iv1, t, iv3>>>>
    BY <1>6
  <2>2. c[1] = "dst" /\ c[2][1] = iv1 /\ c[2][2] = t /\ c[2][3] = iv3
    BY <2>1
  <2>3. row[c] \subseteq DeltaGiven(n, m)
    BY <1>3, <1>5, <2>2, LivedIsGiven
  <2> QED
    BY <1>2, <2>2, <2>3 DEF HeadOf
<1>7. CASE c \in {"state"} \X {<<n[2] - 1 - t, iv1, iv3>> : t \in {t \in Upto(n[2]) : n[2] - 1 - t < K}}
  <2>1. PICK t \in Upto(n[2]) : c = <<"state", <<n[2] - 1 - t, iv1, iv3>>>>
    BY <1>7
  <2>2. c[1] = "state" /\ c[2][1] = n[2] - 1 - t /\ c[2][2] = iv1 /\ c[2][3] = iv3
    BY <2>1
  <2>3. n[2] - 1 - c[2][1] = t
    BY <1>1, <2>2 DEF Upto
  <2>4. row[c] \subseteq DeltaGiven(n, m)
    BY <1>3, <1>5, <2>2, <2>3, LivedIsGiven
  <2> QED
    BY <1>2, <2>2, <2>4 DEF HeadOf
<1> QED
  BY <1>2, <1>4, <1>6, <1>7

\* The cells of several rows, each from what its own row says.
LEMMA UnionOfRows ==
  ASSUME NEW rows, NEW row, \A ir, jr \in rows : ir # jr => DOMAIN row[ir] \cap DOMAIN row[jr] = {}
  PROVE  LET all == [c \in UNION {DOMAIN row[ir] : ir \in rows} |->
                       UNION {IF c \in DOMAIN row[ir] THEN row[ir][c] ELSE {} : ir \in rows}]
         IN /\ \A c : c \in DOMAIN all <=> \E ir \in rows : c \in DOMAIN row[ir]
            /\ \A ir \in rows : \A c \in DOMAIN row[ir] : all[c] = row[ir][c]
<1> DEFINE D == UNION {DOMAIN row[ir] : ir \in rows}
           Of(c) == UNION {IF c \in DOMAIN row[ir] THEN row[ir][c] ELSE {} : ir \in rows}
           all == [c \in D |-> Of(c)]
<1>1. \A c : c \in D <=> \E ir \in rows : c \in DOMAIN row[ir]
  OBVIOUS
<1>2. ASSUME NEW ir \in rows, NEW c \in DOMAIN row[ir] PROVE Of(c) = row[ir][c]
  <2>1. \A jr \in rows : jr # ir => c \notin DOMAIN row[jr]
    OBVIOUS
  <2> QED
    BY <2>1
<1> HIDE DEF D, Of
<1>3. DOMAIN all = D /\ \A c \in D : all[c] = Of(c)
  OBVIOUS
<1>4. \A ir \in rows : \A c \in DOMAIN row[ir] : all[c] = row[ir][c]
  BY <1>1, <1>2, <1>3
<1> QED
  BY <1>1, <1>3, <1>4, Zenon DEF D, Of

LEMMA DeltaIsPooled ==
  ASSUME NEW n, NEW m, NEW K, IsDelta(n, m, K), NEW nth \in Nat \ {0}
  PROVE  IsPooled(GatedDeltaNet(n, m, K, nth))
<1> DEFINE nr == n[1] * n[3]
           Row(ir) == GatedDeltaNetRow(n, m, K, ir)
           Rows(rows) == [c \in UNION {DOMAIN GatedDeltaNetRow(n, m, K, ir) : ir \in rows} |->
                            UNION {IF c \in DOMAIN GatedDeltaNetRow(n, m, K, ir)
                                   THEN GatedDeltaNetRow(n, m, K, ir)[c] ELSE {} : ir \in rows}]
           given == DeltaGiven(n, m)
           result == Rows(Upto(nr))
           own == [ir \in Upto(nr) |-> DOMAIN Row(ir)]
           share == [r \in Nat \X Nat |-> Rows(r[1] .. r[2] - 1)]
           p == GatedDeltaNet(n, m, K, nth)
           row == [ir \in Upto(nr) |-> Row(ir)]
<1>1. nr \in Nat \ {0}
  <2>1. n[1] \in Nat \ {0} /\ n[3] \in Nat \ {0}
    BY DEF IsDelta
  <2>2. \A a, b \in Nat \ {0} : a * b \in Nat \ {0}
    OBVIOUS
  <2> QED
    BY <2>1, <2>2
<1>2. p = Chunked(PlanWith(given, OwnWdata(nth), result, [ith \in Upto(nth) |-> <<>>]), nr, nth, share)
  BY Zenon DEF GatedDeltaNet, DeltaGiven
<1>3. ASSUME NEW ir \in Upto(nr), NEW jr \in Upto(nr), ir # jr PROVE DOMAIN Row(ir) \cap DOMAIN Row(jr) = {}
  <2> SUFFICES ASSUME NEW c \in DOMAIN Row(ir), c \in DOMAIN Row(jr) PROVE FALSE
    OBVIOUS
  <2>1. <<ir % n[1], ir \div n[1]>> = <<jr % n[1], jr \div n[1]>>
    BY DeltaRowsAreApart
  <2>2. PICK a, b, c1, d : a = ir % n[1] /\ b = ir \div n[1] /\ c1 = jr % n[1] /\ d = jr \div n[1]
    OBVIOUS
  <2>3. a = c1 /\ b = d
    BY <2>1, <2>2
  <2>4. n[1] \in Nat \ {0} /\ ir \in Nat /\ jr \in Nat
    BY <1>1 DEF Upto, IsDelta
  <2>5. ir = n[1] * b + a /\ jr = n[1] * d + c1
    BY <2>2, <2>4, Division
  <2> QED
    BY <1>3, <2>3, <2>5
<1>4. ASSUME NEW rows, rows \subseteq Upto(nr)
      PROVE  /\ \A c : c \in DOMAIN Rows(rows) <=> \E ir \in rows : c \in DOMAIN Row(ir)
             /\ \A ir \in rows : \A c \in DOMAIN Row(ir) : Rows(rows)[c] = Row(ir)[c]
  <2> DEFINE all == [c \in UNION {DOMAIN row[ir] : ir \in rows} |->
                       UNION {IF c \in DOMAIN row[ir] THEN row[ir][c] ELSE {} : ir \in rows}]
  <2>1. \A ir \in rows : row[ir] = Row(ir)
    BY <1>4
  <2>2. /\ \A c : c \in DOMAIN all <=> \E ir \in rows : c \in DOMAIN row[ir]
        /\ \A ir \in rows : \A c \in DOMAIN row[ir] : all[c] = row[ir][c]
    <3>1. \A ir, jr \in rows : ir # jr => DOMAIN row[ir] \cap DOMAIN row[jr] = {}
      BY <1>3, <1>4, <2>1
    <3> HIDE DEF row
    <3> QED
      BY <3>1, UnionOfRows
  <2>3. Rows(rows) = all
    <3> HIDE DEF row
    <3>1. UNION {DOMAIN row[ir] : ir \in rows} = UNION {DOMAIN GatedDeltaNetRow(n, m, K, ir) : ir \in rows}
      BY <2>1
    <3>2. ASSUME NEW c PROVE UNION {IF c \in DOMAIN row[ir] THEN row[ir][c] ELSE {} : ir \in rows}
             = UNION {IF c \in DOMAIN GatedDeltaNetRow(n, m, K, ir)
                      THEN GatedDeltaNetRow(n, m, K, ir)[c] ELSE {} : ir \in rows}
      BY <2>1
    <3> QED
      BY <3>1, <3>2, Zenon
  <2> HIDE DEF Rows, all, row
  <2> QED
    BY <2>1, <2>2, <2>3
<1> HIDE DEF Rows
<1>5. ASSUME NEW ir0 \in Nat, NEW ir1 \in 0 .. nr
      PROVE  /\ \A c : c \in DOMAIN share[ir0, ir1] <=> \E ir \in ir0 .. ir1 - 1 : c \in own[ir]
             /\ \A c \in DOMAIN share[ir0, ir1] : share[ir0, ir1][c] = result[c]
  <2> DEFINE rows == ir0 .. ir1 - 1
  <2>1. <<ir0, ir1>> \in Nat \X Nat /\ share[ir0, ir1] = Rows(rows)
    <3>1. <<ir0, ir1>> \in Nat \X Nat
      BY <1>1
    <3> QED
      BY <3>1
  <2>2. rows \subseteq Upto(nr)
    BY <1>1 DEF Upto
  <2>3. \A ir \in rows : own[ir] = DOMAIN Row(ir)
    BY <2>2
  <2> HIDE DEF share, own, rows
  <2>4. /\ \A c : c \in DOMAIN Rows(rows) <=> \E ir \in rows : c \in DOMAIN Row(ir)
        /\ \A ir \in rows : \A c \in DOMAIN Row(ir) : Rows(rows)[c] = Row(ir)[c]
    BY <1>4, <2>2
  <2>5. \A ir \in Upto(nr) : \A c \in DOMAIN Row(ir) : result[c] = Row(ir)[c]
    BY <1>4
  <2>6. \A c \in DOMAIN Rows(rows) : Rows(rows)[c] = result[c]
    <3> SUFFICES ASSUME NEW c \in DOMAIN Rows(rows) PROVE Rows(rows)[c] = result[c]
      OBVIOUS
    <3>1. PICK ir \in rows : c \in DOMAIN Row(ir)
      BY <2>4
    <3>2. Rows(rows)[c] = Row(ir)[c]
      BY <2>4, <3>1
    <3>3. result[c] = Row(ir)[c]
      BY <2>2, <2>5, <3>1
    <3> QED
      BY <3>2, <3>3
  <2>7. PICK s : s = share[ir0, ir1] /\ s = Rows(rows)
    BY <2>1, Zenon
  <2>8. \A c : c \in DOMAIN Rows(rows) <=> \E ir \in rows : c \in own[ir]
    BY <2>3, <2>4
  <2>9. /\ \A c : c \in DOMAIN s <=> \E ir \in rows : c \in own[ir]
        /\ \A c \in DOMAIN s : s[c] = result[c]
    BY <2>6, <2>7, <2>8, Zenon
  <2> QED
    BY <2>7, <2>9, Zenon DEF rows
<1>6. /\ \A c : c \in DOMAIN result <=> \E ir \in Upto(nr) : c \in DOMAIN Row(ir)
      /\ \A ir \in Upto(nr) : \A c \in DOMAIN Row(ir) : result[c] = Row(ir)[c]
  BY <1>4
<1>7. ASSUME NEW c \in DOMAIN result PROVE c[1] \in {"dst", "state"} /\ result[c] \subseteq given
  <2>1. PICK ir \in Upto(nr) : c \in DOMAIN Row(ir)
    BY <1>6
  <2> QED
    BY <1>6, <2>1, DeltaRowsAreApart
<1>8. \A c \in given : c[1] \in {"q", "k", "v", "g", "beta", "s0"}
  BY DEF DeltaGiven
<1>9. \A c \in OwnWdata(nth) : c[1] = "wdata"
  BY DEF OwnWdata
<1>10. \A ir, jr \in Upto(nr) : ir # jr => own[ir] \cap own[jr] = {}
  BY <1>3
<1>11. \A c : c \in DOMAIN result <=> \E ir \in Upto(nr) : c \in own[ir]
  BY <1>6
<1> HIDE DEF given, own, share, p, nr, result
<1>12. given \cap (DOMAIN result \cup OwnWdata(nth)) = {} /\ DOMAIN result \cap OwnWdata(nth) = {}
  BY <1>7, <1>8, <1>9
<1>13. \A c \in DOMAIN result : result[c] \subseteq given
  BY <1>7
<1>14. PoolsRows(p, given, result, nr, nth, own, share)
  BY <1>2, <1>5, <1>10, <1>11, <1>12, <1>13, Zenon DEF PoolsRows
<1>15. IsPooled(p)
  BY <1>1, <1>14, RowsArePooled
<1> QED
  BY <1>15 DEF p

-----------------------------------------------------------------------------
(* The operators that take chunks, with the shapes they take for granted.  *)

IsPooledCall(p) ==
  \E nth \in Nat \ {0} :
    \/ \E nq, nk \in [1 .. 3 -> Nat \ {0}], nm \in [1 .. 2 -> Nat \ {0}], split_at, q_tile, kv_tile \in Nat :
         /\ nq[2] % nk[2] = 0 /\ nq[3] % nk[3] = 0
         /\ nq[1] < q_tile /\ ~(nq[1] = 1 /\ nq[3] = 1 /\ nk[1] >= split_at)
         /\ p = FlashAttnExt(nq, nk, nm, split_at, q_tile, kv_tile, nth)
    \/ \E n \in [1 .. 3 -> Nat \ {0}], m \in [1 .. 4 -> Nat \ {0}], K \in Nat \ {0} :
         n[3] % m[3] = 0 /\ n[3] % m[4] = 0 /\ p = GatedDeltaNet(n, m, K, nth)

LEMMA PooledCalls == ASSUME NEW p, IsPooledCall(p) PROVE IsPooled(p)
<1>1. PICK nth \in Nat \ {0} :
    \/ \E nq, nk \in [1 .. 3 -> Nat \ {0}], nm \in [1 .. 2 -> Nat \ {0}], split_at, q_tile, kv_tile \in Nat :
         /\ nq[2] % nk[2] = 0 /\ nq[3] % nk[3] = 0
         /\ nq[1] < q_tile /\ ~(nq[1] = 1 /\ nq[3] = 1 /\ nk[1] >= split_at)
         /\ p = FlashAttnExt(nq, nk, nm, split_at, q_tile, kv_tile, nth)
    \/ \E n \in [1 .. 3 -> Nat \ {0}], m \in [1 .. 4 -> Nat \ {0}], K \in Nat \ {0} :
         n[3] % m[3] = 0 /\ n[3] % m[4] = 0 /\ p = GatedDeltaNet(n, m, K, nth)
  BY DEF IsPooledCall
<1>2. ASSUME NEW nq \in [1 .. 3 -> Nat \ {0}], NEW nk \in [1 .. 3 -> Nat \ {0}], NEW nm \in [1 .. 2 -> Nat \ {0}],
             NEW split_at \in Nat, NEW q_tile \in Nat, NEW kv_tile \in Nat,
             nq[2] % nk[2] = 0, nq[3] % nk[3] = 0,
             nq[1] < q_tile, ~(nq[1] = 1 /\ nq[3] = 1 /\ nk[1] >= split_at),
             p = FlashAttnExt(nq, nk, nm, split_at, q_tile, kv_tile, nth)
      PROVE  IsPooled(p)
  <2>1. Attends(nq, nk, nm)
    BY <1>2 DEF Attends
  <2>2. ~(nq[1] >= q_tile)
    BY <1>2
  <2>3. IsPooled(FlashAttnExt(nq, nk, nm, split_at, q_tile, kv_tile, nth))
    BY <1>2, <2>1, <2>2, FlashRowsArePooled
  <2> QED
    BY <1>2, <2>3, Zenon
<1>3. ASSUME NEW n \in [1 .. 3 -> Nat \ {0}], NEW m \in [1 .. 4 -> Nat \ {0}], NEW K \in Nat \ {0},
             n[3] % m[3] = 0, n[3] % m[4] = 0, p = GatedDeltaNet(n, m, K, nth)
      PROVE  IsPooled(p)
  <2>1. IsDelta(n, m, K)
    BY <1>3 DEF IsDelta
  <2> QED
    BY <1>3, <2>1, DeltaIsPooled
<1> QED
  BY <1>1, <1>2, <1>3, Zenon

(* Flash attention by the row, for prompts shorter than a tile, and the    *)
(* gated delta rule, whose threads take chunks of rows from the pool's     *)
(* counter: whoever takes which chunk, and however often a thread comes    *)
(* back for another one, no row is left out or done by two threads, none   *)
(* reads what another one writes, and each element of the result comes     *)
(* from exactly the inputs it is defined by.                               *)
THEOREM PooledCallsAreRight ==
  Spec => [](IsPooledCall(plan) => TypeOK /\ RaceFree /\ WithinBounds /\ ResultsAreComplete)
<1>1. (IsPooled(plan) => Right) => (IsPooledCall(plan) => TypeOK /\ RaceFree /\ WithinBounds /\ ResultsAreComplete)
  BY PooledCalls DEF Right
<1> QED
  BY <1>1, PooledIsRight, PTL

=============================================================================

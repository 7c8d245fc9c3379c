----------------------------- MODULE GgmlLayout -----------------------------
(***************************************************************************)
(* The vocabulary of the tensor operators of src/tools/ref/ops.cpp: shapes *)
(* <<ne0, ne1, ne2, ne3>>, elements <<tensor, <<i0, i1, i2, i3>>>>, the    *)
(* ways the threads share the rows, and the plans GgmlThreads runs.        *)
(***************************************************************************)
EXTENDS Integers, Sequences, FiniteSets, FiniteSetsExt

Upto(n) == 0 .. n - 1
Least(a, b) == IF a < b THEN a ELSE b
Most(a, b) == IF a > b THEN a ELSE b

Elements(ne) == Upto(ne[1]) \X Upto(ne[2]) \X Upto(ne[3]) \X Upto(ne[4])
Cells(tensor, ne) == {tensor} \X Elements(ne)
Size(ne) == ne[1] * ne[2] * ne[3] * ne[4]
NRows(ne) == ne[2] * ne[3] * ne[4]

\* The element a row number stands for, as the loops over rows decode it:
\* i3 = ir/(ne2*ne1), i2 = (ir - i3*ne2*ne1)/ne1, i1 = the rest.
RowOf(ne, ir) ==
  LET i3 == ir \div (ne[3] * ne[2])
      i2 == (ir - i3 * ne[3] * ne[2]) \div ne[2]
  IN <<ir - i3 * ne[3] * ne[2] - i2 * ne[2], i2, i3>>
ElementOf(ne, k) == LET r == RowOf(ne, k \div ne[1]) IN <<k % ne[1], r[1], r[2], r[3]>>
OffsetOf(ne, i) == i[1] + ne[1] * (i[2] + ne[2] * (i[3] + ne[3] * i[4]))
RowCells(ne, rows) == {ElementOf(ne, ir * ne[1] + i0) : ir \in rows, i0 \in Upto(ne[1])}

\* A contiguous share: dr = (nr + nth - 1)/nth rows from dr*ith, the last cut.
Chunk(nr, nth, ith) ==
  LET dr == (nr + nth - 1) \div nth IN dr * ith .. Least(dr * ith + dr, nr) - 1
\* The rows of a share in the order of the loop.
Ascending(rows) == [k \in 1 .. Cardinality(rows) |-> Min(rows) + k - 1]
\* Every nth row from ith on.
Strided(nr, nth, ith) == {ir \in Upto(nr) : ir % nth = ith}
\* The heads of a recurrent layer, from one rounded bound to the next.
\* (HeadsOfRounded is a faulty variant.)
HeadsOfRounded(HEADS, nth, ith) == (HEADS \div nth) * ith .. (HEADS \div nth) * (ith + 1) - 1
HeadsOf(HEADS, nth, ith) == (HEADS * ith) \div nth .. Least((HEADS * (ith + 1)) \div nth, HEADS) - 1
\* Everything, in the first thread: the others return.
FirstOnly(nr, nth, ith) == IF ith = 0 THEN Upto(nr) ELSE {}

Src0(i) == {<<"src0", i>>}
Src1(i) == {<<"src1", i>>}

\* A step that computes the elements D of a tensor, From telling from what.
PutIn(tensor, D, From(_)) == [c \in {tensor} \X D |-> From(c[2])]
Put(D, From(_)) == PutIn("dst", D, From)
\* A step whose inner loop runs over X, each turn adding From(x) to Place(x).
ScatterIn(tensor, X, Place(_), From(_)) ==
  [c \in {tensor} \X {Place(x) : x \in X} |-> UNION {From(x) : x \in {x \in X : Place(x) = c[2]}}]
Scatter(X, Place(_), From(_)) == ScatterIn("dst", X, Place, From)
\* Two loops one after the other that write different elements.
Also(step, other) ==
  [c \in DOMAIN step \cup DOMAIN other |-> IF c \in DOMAIN step THEN step[c] ELSE other[c]]
\* A step that uses the thread's own part of wdata on the way.
Through(ith, step) ==
  [c \in DOMAIN step \cup {<<"wdata", ith>>} |->
     IF c \in DOMAIN step THEN step[c] ELSE UNION {step[d] : d \in DOMAIN step}]
OwnWdata(nth) == {"wdata"} \X Upto(nth)
Idle == [c \in {} |-> {}]
\* The marks for ggml_barrier, for the pool's counter of chunks being set, and
\* for the loop over chunks in a program.
Barrier == [c \in {<<"barrier", 0>>} |-> {}]
SetChunks == [c \in {<<"set", 0>>} |-> {}]
Claims == [c \in {<<"chunks", 0>>} |-> {}]

\* A plan without chunks of the pool; with scratch cells; with neither.
PlanWith(given, scratch, result, program) ==
  [given |-> given, scratch |-> scratch, result |-> result,
   chunks |-> [ith \in DOMAIN program |-> <<>>], program |-> program,
   team |-> [ith \in DOMAIN program |-> 0]]
Plan(given, result, program) == PlanWith(given, {}, result, program)

\* One step for each thread.
EachThread(nth, Step(_)) == [ith \in Upto(nth) |-> <<Step(ith)>>]
\* ggml_barrier between what the first thread alone does and the rest.
AfterFirst(nth, step, Step(_)) ==
  [ith \in Upto(nth) |->
     <<IF ith = 0 THEN step ELSE Idle, Barrier, Step(ith)>>]
\* The same without the barrier, for a faulty variant of Acc.
AfterFirstUnordered(nth, step, Step(_)) ==
  [ith \in Upto(nth) |-> <<IF ith = 0 THEN step ELSE Idle, Step(ith)>>]
=============================================================================

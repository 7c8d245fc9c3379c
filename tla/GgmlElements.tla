---------------------------- MODULE GgmlElements ----------------------------
(***************************************************************************)
(* The element by element operators of src/tools/ref/ops.cpp: copies, sums *)
(* of two tensors, activations, gated units, scalings and clampings.       *)
(***************************************************************************)
EXTENDS GgmlLayout

-----------------------------------------------------------------------------
(* Copies.                                                                 *)

\* Blocks of a contiguous tensor into a contiguous tensor.
DupSameCont(ne, nth) ==
  Plan(Cells("src0", ne), Put(Elements(ne), Src0),
       EachThread(nth, LAMBDA ith :
         Put({ElementOf(ne, k) : k \in Chunk(Size(ne), nth, ith)}, Src0)))

\* How far the running index id has come at row i01 of a plane, in rows: it
\* skips ir0 rows, does the thread's own, and skips the ne01 - ir1 others.
Odometer(ne, rows, plane, i01) ==
  LET ir0 == Min(rows) IN plane * (ir0 + Cardinality(rows) + ne[2] - (Max(rows) + 1))
                          + ir0 + (i01 - ir0)

\* The elements of src0 in the thread's rows of every plane, at their place in
\* dst, which may have another shape.
Copied(ne, to, nth, ith) ==
  LET rows == Chunk(ne[2], nth, ith)
      Place(i) == ElementOf(to, ne[1] * Odometer(ne, rows, i[3] + ne[3] * i[4], i[2]) + i[1])
      own == {i \in Elements(ne) : i[2] \in rows}
  IN Put({Place(i) : i \in own}, LAMBDA j : Src0(CHOOSE i \in own : Place(i) = j))

\* An element of dst holds the element of src0 at the same place in the order
\* of all elements.
InOrder(ne, to) == Put(Elements(to), LAMBDA j : Src0(ElementOf(ne, OffsetOf(to, j))))

\* Copies of bytes, and with a conversion between floating point types.
DupBytes(ne, to, nth) ==
  Plan(Cells("src0", ne), InOrder(ne, to),
       EachThread(nth, LAMBDA ith : Copied(ne, to, nth, ith)))
DupFlt(ne, to, nth) ==
  Plan(Cells("src0", ne), InOrder(ne, to),
       EachThread(nth, LAMBDA ith : Copied(ne, to, nth, ith)))

\* To a quantized type: each row passes through the thread's part of wdata.
DupToQ(ne, nth) ==
  PlanWith(Cells("src0", ne), OwnWdata(nth), InOrder(ne, ne),
           EachThread(nth, LAMBDA ith : Through(ith, Copied(ne, ne, nth, ith))))

\* From a quantized type: blocks of qk elements, in the order of all elements.
DupFromQ(ne, to, qk, nth) ==
  LET Blocks(ith) == {ir * qk + j : ir \in Chunk(Size(to) \div qk, nth, ith), j \in Upto(qk)}
  IN Plan(Cells("src0", ne), InOrder(ne, to),
          EachThread(nth, LAMBDA ith :
            Put({ElementOf(to, k) : k \in Blocks(ith)},
                LAMBDA j : Src0(ElementOf(ne, OffsetOf(to, j))))))

-----------------------------------------------------------------------------
(* One tensor and another of the same shape, a row of another, a number.   *)

\* What is computed row by row from operands at the same element.
Rowwise(ne, nth, Share(_, _, _), given, From(_)) ==
  Plan(given, Put(Elements(ne), From),
       EachThread(nth, LAMBDA ith : Put(RowCells(ne, Share(NRows(ne), nth, ith)), From)))

\* The same through the thread's part of wdata, one row after the other.
RowwiseQ(ne, nth, given, From(_)) ==
  PlanWith(given, OwnWdata(nth), Put(Elements(ne), From),
           [ith \in Upto(nth) |->
             LET rows == Ascending(Chunk(NRows(ne), nth, ith))
             IN [k \in DOMAIN rows |-> Through(ith, Put(RowCells(ne, {rows[k]}), From))]])

AddQ(ne, nth) ==
  RowwiseQ(ne, nth, Cells("src0", ne) \cup Cells("src1", ne), LAMBDA i : Src0(i) \cup Src1(i))

\* The row of src1 that ids (src2) names is added.
AddId(ne, ne11, ids, nth) ==
  Rowwise(ne, nth, Chunk, Cells("src0", ne) \cup Cells("src1", <<ne[1], ne11, 1, 1>>),
          LAMBDA i : Src0(i) \cup Src1(<<i[1], ids[i[2], i[3]], 0, 0>>))

Number == <<0, 0, 0, 0>>
WithNumber(ne) == Cells("src0", ne) \cup Src1(Number)
Add1(ne, nth) == Rowwise(ne, nth, Chunk, WithNumber(ne), LAMBDA i : Src0(i) \cup Src1(Number))
Add1F16(ne, nth) == Rowwise(ne, nth, Chunk, WithNumber(ne), LAMBDA i : Src0(i) \cup Src1(Number))
Add1BF16(ne, nth) == Rowwise(ne, nth, Chunk, WithNumber(ne), LAMBDA i : Src0(i) \cup Src1(Number))

\* The quantized form puts row i1 of plane i2 at i3*nb0 where i3*nb3 is meant:
\* block by block (an element is one here), the planes of i3 > 0 land i3 blocks
\* after those of i3 = 0.  It is right for tensors with ne3 = 1.
Add1Q(ne, nth) ==
  LET Place(i) == ElementOf(ne, OffsetOf(ne, <<i[1], i[2], i[3], 0>>) + i[4])
      Own(ith) == RowCells(ne, Chunk(NRows(ne), nth, ith))
      From(ith, j) == UNION {Src0(i) : i \in {i \in Own(ith) : Place(i) = j}} \cup Src1(Number)
  IN PlanWith(WithNumber(ne), OwnWdata(nth),
              Put(Elements(ne), LAMBDA i : Src0(i) \cup Src1(Number)),
              EachThread(nth, LAMBDA ith :
                Through(ith, Put({Place(i) : i \in Own(ith)}, LAMBDA j : From(ith, j)))))

-----------------------------------------------------------------------------
(* src1 into a region of a copy of src0: the first thread copies, and then *)
(* the rows of src1, at offset, with the strides of src0 ("memcpy needs to *)
(* be synchronized across threads to avoid race conditions").              *)

Region(ne, ne1, offset, i) == ElementOf(ne, OffsetOf(ne, i) + offset)
InRegion(ne, ne1, offset) == {Region(ne, ne1, offset, i) : i \in Elements(ne1)}
Inner(ne, ne1, offset, j) == CHOOSE i \in Elements(ne1) : Region(ne, ne1, offset, i) = j
Both(ne, ne1) == Cells("src0", ne) \cup Cells("src1", ne1)

\* A faulty variant of Acc: nobody waits for the copy.
AccUnordered(ne, ne1, offset, nth) ==
  LET I(j) == Inner(ne, ne1, offset, j)
      Own(ith) == {Region(ne, ne1, offset, i) : i \in RowCells(ne1, Chunk(NRows(ne1), nth, ith))}
  IN Plan(Both(ne, ne1),
          Put(Elements(ne), LAMBDA j :
                Src0(j) \cup IF j \in InRegion(ne, ne1, offset) THEN Src1(I(j)) ELSE {}),
          AfterFirstUnordered(nth, Put(Elements(ne), Src0),
                              LAMBDA ith : Put(Own(ith), LAMBDA j : Src0(j) \cup Src1(I(j)))))
\* Acc adds.
Acc(ne, ne1, offset, nth) ==
  LET I(j) == Inner(ne, ne1, offset, j)
      Own(ith) == {Region(ne, ne1, offset, i) : i \in RowCells(ne1, Chunk(NRows(ne1), nth, ith))}
  IN Plan(Both(ne, ne1),
          Put(Elements(ne), LAMBDA j :
                Src0(j) \cup IF j \in InRegion(ne, ne1, offset) THEN Src1(I(j)) ELSE {}),
          AfterFirst(nth, Put(Elements(ne), Src0),
                     LAMBDA ith : Put(Own(ith), LAMBDA j : Src0(j) \cup Src1(I(j)))))

\* Set replaces (in i32 and in f32).
Set(ne, ne1, offset, nth) ==
  LET I(j) == Inner(ne, ne1, offset, j)
      Own(ith) == {Region(ne, ne1, offset, i) : i \in RowCells(ne1, Chunk(NRows(ne1), nth, ith))}
  IN Plan(Both(ne, ne1),
          Put(Elements(ne), LAMBDA j :
                IF j \in InRegion(ne, ne1, offset) THEN Src1(I(j)) ELSE Src0(j)),
          AfterFirst(nth, Put(Elements(ne), Src0),
                     LAMBDA ith : Put(Own(ith), LAMBDA j : Src1(I(j)))))

-----------------------------------------------------------------------------
(* Functions of one element.                                               *)

Activation(ne, nth) == Rowwise(ne, nth, Chunk, Cells("src0", ne), Src0)
Gelu(ne, nth) == Activation(ne, nth)
GeluErf(ne, nth) == Activation(ne, nth)
GeluQuick(ne, nth) == Activation(ne, nth)
Silu(ne, nth) == Activation(ne, nth)
Scale(ne, nth) == Activation(ne, nth)
LeakyRelu(ne, nth) == Rowwise(ne, nth, FirstOnly, Cells("src0", ne), Src0)
Clamp(ne, nth) == Rowwise(ne, nth, Strided, Cells("src0", ne), Src0)
Fill(ne, nth) == Rowwise(ne, nth, Chunk, {}, LAMBDA i : {})
SiluBack(ne, nth) ==
  Rowwise(ne, nth, Chunk, Both(ne, ne), LAMBDA i : Src0(i) \cup Src1(i))
\* kept: the triangle <<i0, i1>> of the matrix that is kept, the rest is zero.
Tri(ne, kept, nth) ==
  Rowwise(ne, nth, Chunk, Cells("src0", ne), LAMBDA i : IF <<i[1], i[2]>> \in kept THEN Src0(i) ELSE {})

\* A gated unit: value and gate are src0 and src1, or the two halves of the
\* rows of src0 when there is no src1.
Gated(ne, split, nth) ==
  LET nc == IF split THEN ne[1] ELSE ne[1] \div 2
      to == [ne EXCEPT ![1] = nc]
      Gate(i) == IF split THEN Src1(i) ELSE Src0([i EXCEPT ![1] = @ + nc])
  IN Rowwise(to, nth, Chunk, Cells("src0", ne) \cup IF split THEN Cells("src1", ne) ELSE {},
             LAMBDA i : Src0(i) \cup Gate(i))
Reglu(ne, split, nth) == Gated(ne, split, nth)
Geglu(ne, split, nth) == Gated(ne, split, nth)
Swiglu(ne, split, nth) == Gated(ne, split, nth)
SwigluOai(ne, split, nth) == Gated(ne, split, nth)
GegluErf(ne, split, nth) == Gated(ne, split, nth)
GegluQuick(ne, split, nth) == Gated(ne, split, nth)

\* Everything above the diagonal n_past to the right of the main one is masked.
DiagMask(ne, n_past, nth) ==
  LET Masked(j) == {i \in Elements(ne) : i[2] = j /\ i[1] >= n_past /\ i[1] > n_past + j}
      Own(ith) == UNION {Masked(j) : j \in Strided(ne[2], nth, ith)}
  IN Plan(Cells("src0", ne),
          Put(Elements(ne), LAMBDA i : IF i[1] - i[2] > n_past THEN {} ELSE Src0(i)),
          AfterFirst(nth, Put(Elements(ne), Src0), LAMBDA ith : Put(Own(ith), LAMBDA i : {})))

\* A row becomes the diagonal of a matrix.
Diag(ne, nth) ==
  LET to == <<ne[1], ne[1], ne[3], ne[4]>>
      From(i) == IF i[1] = i[2] THEN Src0(<<i[1], 0, i[3], i[4]>>) ELSE {}
  IN Rowwise(to, nth, FirstOnly, Cells("src0", ne), From)
=============================================================================
